-------------------------- MODULE Listeners_proofs --------------------------
(* Theorems about Listeners, for any callables, any number of registrations *)
(* and of events, and any queue.                                            *)
EXTENDS Listeners, EventDelivery_proofs, FiniteSetTheorems

-----------------------------------------------------------------------------
(* What was proved of event delivery holds with listeners as well: between  *)
(* two steps of EventDelivery there are now steps that it does not see.     *)

LEMMA StepIsDelivery == ListenersNext => [Next]_vars
<1> SUFFICES ASSUME ListenersNext PROVE [Next]_vars
  OBVIOUS
<1>1. CASE ReaderStep
  BY <1>1 DEF ReaderStep, Next
<1>2. ASSUME NEW r \in Registration, AddListener(r) \/ Unsubscribe(r) PROVE UNCHANGED vars
  BY <1>2 DEF AddListener, Unsubscribe
<1>3. CASE EmitBegins \/ ReportBegins \/ EmitOver \/ ReportOver
  BY <1>3 DEF EmitBegins, ReportBegins, EmitOver, ReportOver, Next, Dispatch
<1>4. CASE ListenerEnds \/ ListenerCancelled
  BY <1>4 DEF ListenerEnds, ListenerCancelled
<1> QED BY <1>1, <1>2, <1>3, <1>4 DEF ListenersNext

(* The listeners' calls and registrations are a refinement of event         *)
(* delivery.                                                                *)
THEOREM ListenersDeliver == ListenersSafe => Safe
<1>1. ListenersInit => Init
  BY DEF ListenersInit
<1>2. [ListenersNext]_allVars => [Next]_vars
  BY StepIsDelivery DEF allVars
<1> QED BY <1>1, <1>2, PTL DEF ListenersSafe, Safe

(* Hence what waits for the listeners is the newest, each event is          *)
(* accounted for, refreshes are owed, and all of it is a lossy FIFO.        *)
THEOREM DeliveryKept ==
  ListenersSafe => /\ []BacklogIsNewest /\ []EveryEventAccounted /\ []RefreshOwed
                   /\ ImplementsFifo
BY ListenersDeliver, BacklogNewest, AllAccounted, ConfigChangesRefresh, ImplementsLossyFifo

-----------------------------------------------------------------------------
(* Counting.                                                                *)

Positions(s, cb) == {i \in 1..Len(s) : s[i] = cb}

LEMMA PositionsFinite ==
  ASSUME NEW s \in Seq(Callbacks), NEW cb
  PROVE  /\ IsFiniteSet(Positions(s, cb)) /\ Times(s, cb) = Cardinality(Positions(s, cb))
         /\ Times(s, cb) \in Nat /\ (Times(s, cb) = 0 <=> Positions(s, cb) = {})
<1>1. IsFiniteSet(1..Len(s)) /\ Positions(s, cb) \subseteq 1..Len(s)
  BY FS_Interval DEF Positions
<1>2. IsFiniteSet(Positions(s, cb))
  BY <1>1, FS_Subset
<1> QED BY <1>2, FS_EmptySet, FS_CardinalityType DEF Times, Positions

LEMMA TimesAppend ==
  ASSUME NEW s \in Seq(Callbacks), NEW a \in Callbacks, NEW cb
  PROVE  Times(Append(s, a), cb) = IF a = cb THEN Times(s, cb) + 1 ELSE Times(s, cb)
<1> DEFINE t == Append(s, a)
<1>1. t \in Seq(Callbacks) /\ Len(t) = Len(s) + 1 /\ Len(s) \in Nat /\ t[Len(s) + 1] = a
      /\ \A i \in 1..Len(s) : t[i] = s[i]
  OBVIOUS
<1>2. Positions(t, cb) = IF a = cb THEN Positions(s, cb) \cup {Len(s) + 1} ELSE Positions(s, cb)
  BY <1>1 DEF Positions
<1>3. Len(s) + 1 \notin Positions(s, cb)
  BY <1>1 DEF Positions
<1> HIDE DEF t
<1>4. Times(t, cb) = Cardinality(Positions(t, cb)) /\ Times(s, cb) = Cardinality(Positions(s, cb))
      /\ IsFiniteSet(Positions(s, cb))
  BY <1>1, PositionsFinite
<1>5. Cardinality(Positions(s, cb) \cup {Len(s) + 1}) = Cardinality(Positions(s, cb)) + 1
  BY <1>3, <1>4, FS_AddElement
<1>6. Times(t, cb) = IF a = cb THEN Times(s, cb) + 1 ELSE Times(s, cb)
  BY <1>2, <1>4, <1>5
<1> QED BY <1>6 DEF t

(* A non-empty set of positions has a first one.                            *)
LEMMA FirstOne ==
  ASSUME NEW E \in SUBSET Nat, E # {}
  PROVE  \E i \in E : \A j \in E : i <= j
<1> DEFINE R == OpToRel(<, Nat)
<1>1. IsWellFoundedOn(R, Nat)
  BY NatLessThanWellFounded
<1>2. \A x, y \in Nat : <<y, x>> \in R <=> y < x
  BY DEF OpToRel
<1> HIDE DEF R
<1>3. PICK i \in E : \A j \in E : <<j, i>> \notin R
  BY <1>1, WFMin
<1>4. \A j \in E : ~(j < i)
  BY <1>2, <1>3
<1> QED BY <1>4

(* list.remove takes out one entry of those equal to it, and shifts those   *)
(* behind it.                                                               *)
LEMMA RemovedOne ==
  ASSUME NEW s \in Seq(Callbacks), NEW a \in Callbacks, Positions(s, a) # {}
  PROVE  \E k \in Positions(s, a) :
           /\ WithoutFirst(s, a) \in Seq(Callbacks)
           /\ Len(WithoutFirst(s, a)) = Len(s) - 1
           /\ \A i \in 1..(Len(s) - 1) :
                WithoutFirst(s, a)[i] = IF i < k THEN s[i] ELSE s[i + 1]
<1> DEFINE found == {i \in 1..Len(s) : s[i] = a}
           first == CHOOSE i \in found : \A j \in found : i <= j
<1>1. found # {} /\ found \in SUBSET Nat
  BY DEF Positions
<1>2. \E i \in found : \A j \in found : i <= j
  BY <1>1, FirstOne
<1>3. first \in found
  BY <1>2
<1>4. WithoutFirst(s, a) = SubSeq(s, 1, first - 1) \o SubSeq(s, first + 1, Len(s))
  BY <1>1 DEF WithoutFirst
<1> HIDE DEF first
<1>5. PICK k \in Nat : k = first
  BY <1>1, <1>3
<1>6. k \in 1..Len(s) /\ Len(s) \in Nat /\ s[k] = a
  BY <1>3, <1>5
<1> DEFINE u == SubSeq(s, 1, k - 1)
           v == SubSeq(s, k + 1, Len(s))
<1>7. u \in Seq(Callbacks) /\ Len(u) = k - 1 /\ \A i \in 1..(k - 1) : u[i] = s[i]
  BY <1>6, SubSeqProperties
<1>8. v \in Seq(Callbacks) /\ Len(v) = Len(s) - k /\ \A i \in 1..(Len(s) - k) : v[i] = s[i + k]
  BY <1>6, SubSeqProperties
<1>9. WithoutFirst(s, a) = u \o v
  BY <1>4, <1>5
<1> HIDE DEF u, v
<1>10. u \o v \in Seq(Callbacks) /\ Len(u \o v) = Len(s) - 1
  BY <1>6, <1>7, <1>8
<1>11. ASSUME NEW i \in 1..(Len(s) - 1)
       PROVE  (u \o v)[i] = IF i < k THEN s[i] ELSE s[i + 1]
  <2>1. CASE i < k
    BY <1>6, <1>7, <1>8, <2>1
  <2>2. CASE ~(i < k)
    <3>1. (u \o v)[i] = v[i - (k - 1)]
      BY <1>6, <1>7, <1>8, <2>2
    <3>2. i - (k - 1) \in 1..(Len(s) - k) /\ (i - (k - 1)) + k = i + 1
      BY <1>6, <2>2
    <3> QED BY <1>8, <2>2, <3>1, <3>2
  <2> QED BY <2>1, <2>2
<1>12. k \in Positions(s, a)
  BY <1>6 DEF Positions
<1> QED BY <1>9, <1>10, <1>11, <1>12

LEMMA TimesRemove ==
  ASSUME NEW s \in Seq(Callbacks), NEW a \in Callbacks, NEW cb
  PROVE  /\ WithoutFirst(s, a) \in Seq(Callbacks)
         /\ Times(WithoutFirst(s, a), cb) = IF a = cb /\ Times(s, cb) > 0
                                            THEN Times(s, cb) - 1 ELSE Times(s, cb)
<1>1. CASE Positions(s, a) = {}
  <2>1. WithoutFirst(s, a) = s
    BY <1>1 DEF WithoutFirst, Positions
  <2>2. a = cb => Times(s, cb) = 0
    BY <1>1, PositionsFinite
  <2> QED BY <2>1, <2>2, PositionsFinite
<1>2. CASE Positions(s, a) # {}
  <2>1. PICK t \in Seq(Callbacks), k \in Positions(s, a) :
          /\ t = WithoutFirst(s, a) /\ Len(t) = Len(s) - 1
          /\ \A i \in 1..(Len(s) - 1) : t[i] = IF i < k THEN s[i] ELSE s[i + 1]
    BY <1>2, RemovedOne
  <2>2. PICK n \in Nat : n = Len(s)
    OBVIOUS
  <2>3. k \in 1..n /\ s[k] = a
    BY <2>2 DEF Positions
  <2> DEFINE P == Positions(t, cb)
             Q == Positions(s, cb) \ {k}
             f == [i \in P |-> IF i < k THEN i ELSE i + 1]
  <2>4. P = {i \in 1..(n - 1) : t[i] = cb} /\ Q = {i \in 1..n : s[i] = cb /\ i # k}
    BY <2>1, <2>2 DEF Positions
  <2> HIDE DEF P, Q
  <2>5. ASSUME NEW i \in P PROVE f[i] \in Q
    <3>1. i \in 1..(n - 1) /\ t[i] = cb
      BY <2>4
    <3>2. CASE i < k
      BY <2>1, <2>2, <2>3, <2>4, <3>1, <3>2
    <3>3. CASE ~(i < k)
      <4>1. s[i + 1] = cb /\ i + 1 \in 1..n /\ i + 1 # k
        BY <2>1, <2>2, <2>3, <3>1, <3>3
      <4> QED BY <2>4, <3>3, <4>1
    <3> QED BY <3>2, <3>3
  <2>6. \A i, j \in P : f[i] = f[j] => i = j
    BY <2>3, <2>4
  <2>7. ASSUME NEW q \in Q PROVE \E i \in P : f[i] = q
    <3>1. CASE q < k
      <4>1. q \in 1..(n - 1) /\ t[q] = s[q]
        BY <2>1, <2>2, <2>3, <2>4, <3>1
      <4> QED BY <2>4, <3>1, <4>1
    <3>2. CASE q > k
      <4>1. q - 1 \in 1..(n - 1) /\ ~(q - 1 < k) /\ (q - 1) + 1 = q
        BY <2>3, <2>4, <3>2
      <4>2. t[q - 1] = s[q]
        BY <2>1, <2>2, <4>1
      <4> QED BY <2>4, <4>1, <4>2
    <3>3. q \in 1..n /\ q # k
      BY <2>4
    <3> QED BY <2>3, <3>1, <3>2, <3>3
  <2>8. f \in Bijection(P, Q)
    <3>1. f \in [P -> Q]
      BY <2>5
    <3> HIDE DEF f
    <3> QED BY <2>6, <2>7, <3>1 DEF Bijection, Injection, Surjection, IsInjective
  <2>9. IsFiniteSet(P) /\ Cardinality(P) = Times(t, cb)
    BY PositionsFinite DEF P
  <2>10. Cardinality(Q) = Times(t, cb)
    BY <2>8, <2>9, FS_Bijection DEF ExistsBijection
  <2>11. Cardinality(Q) = IF a = cb THEN Times(s, cb) - 1 ELSE Times(s, cb)
    <3>1. IsFiniteSet(Positions(s, cb)) /\ Times(s, cb) = Cardinality(Positions(s, cb))
      BY PositionsFinite
    <3>2. k \in Positions(s, cb) <=> a = cb
      BY <2>2, <2>3 DEF Positions
    <3> QED BY <3>1, <3>2, FS_RemoveElement DEF Q
  <2>12. a = cb => Times(s, cb) > 0
    BY <1>2, PositionsFinite
  <2> QED BY <2>1, <2>10, <2>11, <2>12
<1> QED BY <1>1, <1>2

Regs(rs, cb) == {r \in rs : CallbackOf(r) = cb}

LEMMA OfFinite ==
  ASSUME NEW rs \in SUBSET Registration, NEW cb \in Callbacks
  PROVE  IsFiniteSet(Regs(rs, cb)) /\ Of(rs, cb) = Cardinality(Regs(rs, cb)) /\ Of(rs, cb) \in Nat
<1>1. IsFiniteSet({cb} \X (1..MaxTimes))
  <2>1. IsFiniteSet({cb})
    BY FS_Singleton
  <2>2. MaxTimes \in Int /\ 1 \in Int
    BY ListenersAssumption
  <2>3. IsFiniteSet(1..MaxTimes)
    BY <2>2, FS_Interval
  <2> QED BY <2>1, <2>3, FS_Product
<1>2. Regs(rs, cb) \in SUBSET ({cb} \X (1..MaxTimes))
  BY DEF Regs, Registration, CallbackOf
<1>3. IsFiniteSet(Regs(rs, cb))
  BY <1>1, <1>2, FS_Subset
<1> QED BY <1>3, FS_CardinalityType DEF Of, Regs

LEMMA OfAdd ==
  ASSUME NEW rs \in SUBSET Registration, NEW cb \in Callbacks, NEW r \in Registration, r \notin rs
  PROVE  Of(rs \cup {r}, cb) = IF CallbackOf(r) = cb THEN Of(rs, cb) + 1 ELSE Of(rs, cb)
<1>1. Regs(rs \cup {r}, cb) = IF CallbackOf(r) = cb THEN Regs(rs, cb) \cup {r} ELSE Regs(rs, cb)
  BY DEF Regs
<1>2. r \notin Regs(rs, cb)
  BY DEF Regs
<1>3. rs \cup {r} \in SUBSET Registration
  OBVIOUS
<1>4. Of(rs \cup {r}, cb) = Cardinality(Regs(rs \cup {r}, cb))
      /\ Of(rs, cb) = Cardinality(Regs(rs, cb)) /\ IsFiniteSet(Regs(rs, cb))
  BY <1>3, OfFinite
<1>5. Cardinality(Regs(rs, cb) \cup {r}) = Cardinality(Regs(rs, cb)) + 1
  BY <1>2, <1>4, FS_AddElement
<1> QED BY <1>1, <1>4, <1>5

LEMMA OfRemove ==
  ASSUME NEW rs \in SUBSET Registration, NEW cb \in Callbacks, NEW r \in rs
  PROVE  /\ Of(rs \ {r}, cb) = IF CallbackOf(r) = cb THEN Of(rs, cb) - 1 ELSE Of(rs, cb)
         /\ CallbackOf(r) = cb => Of(rs, cb) > 0
<1>1. rs \ {r} \in SUBSET Registration /\ r \notin rs \ {r} /\ (rs \ {r}) \cup {r} = rs
      /\ r \in Registration
  OBVIOUS
<1>2. Of(rs, cb) = IF CallbackOf(r) = cb THEN Of(rs \ {r}, cb) + 1 ELSE Of(rs \ {r}, cb)
  BY <1>1, OfAdd
<1>3. Of(rs \ {r}, cb) \in Nat
  BY <1>1, OfFinite
<1> QED BY <1>2, <1>3

LEMMA OfSubset ==
  ASSUME NEW rs \in SUBSET Registration, NEW qs \in SUBSET rs, NEW cb \in Callbacks
  PROVE  Of(qs, cb) <= Of(rs, cb)
<1>1. Regs(qs, cb) \in SUBSET Regs(rs, cb)
  BY DEF Regs
<1>2. qs \in SUBSET Registration
  OBVIOUS
<1> QED BY <1>1, <1>2, OfFinite, FS_Subset

-----------------------------------------------------------------------------
(* The invariant.                                                           *)

(* The positions of cb that the emission has passed.                        *)
Passed(s, n, cb) == {i \in 1..(n - 1) : s[i] = cb}

RegistryTypes ==
  /\ callbacks \in Seq(Callbacks)
  /\ unsub \in [Registration -> {"none", "live", "called"}]
  /\ doubled \subseteq Callbacks
  /\ dead \in BOOLEAN

EmissionTypes ==
  /\ copy \in Seq(Callbacks)
  /\ at \in 0..(Len(copy) + 1)
  /\ at = 0 <=> dpc \in {"get", "refresh"}
  /\ calls \in [Callbacks -> Nat]
  /\ atStart \subseteq Registration

(* What the emission runs over is what was registered when it began, and it *)
(* has called what it has passed.                                           *)
Emitting ==
  at # 0 =>
    /\ \A cb \in Callbacks \ doubled : Times(copy, cb) = Of(atStart, cb)
    /\ \A cb \in Callbacks : calls[cb] = Cardinality(Passed(copy, at, cb))

LInv == RegistryTypes /\ EmissionTypes /\ RegistryMatches /\ Emitting

LEMMA InForceTyped == InForce \subseteq Registration
  BY DEF InForce

LEMMA AddInv ==
  ASSUME LInv, NEW r \in Registration, AddListener(r)
  PROVE  LInv'
<1>0. RegistryTypes /\ EmissionTypes /\ RegistryMatches /\ Emitting
  BY DEF LInv
<1>1. callbacks' = Append(callbacks, CallbackOf(r)) /\ unsub' = [unsub EXCEPT ![r] = "live"]
      /\ UNCHANGED <<dpc, copy, at, calls, atStart, dead, doubled>> /\ unsub[r] # "live"
  BY DEF AddListener, vars, emission
<1>2. CallbackOf(r) \in Callbacks
  BY DEF CallbackOf, Registration
<1>3. RegistryTypes'
  BY <1>0, <1>1, <1>2 DEF RegistryTypes
<1>4. InForce' = InForce \cup {r} /\ r \notin InForce
  BY <1>0, <1>1 DEF InForce, RegistryTypes
<1>5. RegistryMatches'
  <2> SUFFICES ASSUME NEW cb \in Callbacks \ doubled
               PROVE  Times(callbacks', cb) = Of(InForce', cb)
    BY <1>1 DEF RegistryMatches, Times, Of
  <2>1. Times(callbacks, cb) = Of(InForce, cb)
    BY <1>0 DEF RegistryMatches
  <2>2. Times(callbacks', cb) = IF CallbackOf(r) = cb THEN Times(callbacks, cb) + 1
                                ELSE Times(callbacks, cb)
    BY <1>0, <1>1, <1>2, TimesAppend DEF RegistryTypes
  <2>3. Of(InForce', cb) = IF CallbackOf(r) = cb THEN Of(InForce, cb) + 1 ELSE Of(InForce, cb)
    BY <1>4, InForceTyped, OfAdd
  <2> QED BY <2>1, <2>2, <2>3
<1>6. EmissionTypes' /\ Emitting'
  BY <1>0, <1>1 DEF EmissionTypes, Emitting, Times, Of, Passed
<1> QED BY <1>3, <1>5, <1>6 DEF LInv

LEMMA UnsubscribeInv ==
  ASSUME LInv, NEW r \in Registration, Unsubscribe(r)
  PROVE  LInv'
<1>0. RegistryTypes /\ EmissionTypes /\ RegistryMatches /\ Emitting
  BY DEF LInv
<1>1. callbacks' = WithoutFirst(callbacks, CallbackOf(r)) /\ unsub' = [unsub EXCEPT ![r] = "called"]
      /\ UNCHANGED <<dpc, copy, at, calls, atStart, dead>> /\ unsub[r] # "none"
      /\ doubled' = (IF unsub[r] = "called" THEN doubled \cup {CallbackOf(r)} ELSE doubled)
  BY DEF Unsubscribe, vars, emission
<1>2. CallbackOf(r) \in Callbacks
  BY DEF CallbackOf, Registration
<1>3. RegistryTypes'
  BY <1>0, <1>1, <1>2, TimesRemove DEF RegistryTypes
<1>4. InForce' = InForce \ {r} /\ (r \in InForce <=> unsub[r] = "live")
  BY <1>0, <1>1 DEF InForce, RegistryTypes
<1>5. RegistryMatches'
  <2> SUFFICES ASSUME NEW cb \in Callbacks \ doubled'
               PROVE  Times(callbacks', cb) = Of(InForce', cb)
    BY <1>1 DEF RegistryMatches, Times, Of
  <2>1. Times(callbacks, cb) = Of(InForce, cb)
    BY <1>0, <1>1 DEF RegistryMatches
  <2>2. Times(callbacks', cb) = IF CallbackOf(r) = cb /\ Times(callbacks, cb) > 0
                                THEN Times(callbacks, cb) - 1 ELSE Times(callbacks, cb)
    BY <1>0, <1>1, <1>2, TimesRemove DEF RegistryTypes
  <2>3. CASE CallbackOf(r) = cb
    <3>1. r \in InForce
      BY <1>0, <1>1, <1>4, <2>3 DEF RegistryTypes
    <3> QED BY <1>4, <2>1, <2>2, <2>3, <3>1, InForceTyped, OfRemove
  <2>4. CASE CallbackOf(r) # cb
    <3>1. CASE r \in InForce
      BY <1>4, <2>1, <2>2, <2>4, <3>1, InForceTyped, OfRemove
    <3>2. CASE r \notin InForce
      <4>1. InForce' = InForce
        BY <1>4, <3>2
      <4> QED BY <2>1, <2>2, <2>4, <4>1
    <3> QED BY <3>1, <3>2
  <2> QED BY <2>3, <2>4
<1>6. EmissionTypes' /\ Emitting'
  BY <1>0, <1>1 DEF EmissionTypes, Emitting, Times, Of, Passed
<1> QED BY <1>3, <1>5, <1>6 DEF LInv

(* An emission begins with a copy of the registry.                          *)
LEMMA BeginsInv ==
  ASSUME LInv, EmissionBegins, UNCHANGED <<registry, dead>>, dpc' \notin {"get", "refresh"}
  PROVE  LInv'
<1>0. RegistryTypes /\ RegistryMatches
  BY DEF LInv
<1>1. copy' = callbacks /\ at' = 1 /\ calls' = NoCalls /\ atStart' = InForce
      /\ UNCHANGED <<callbacks, unsub, doubled, dead>>
  BY DEF EmissionBegins, registry
<1>2. RegistryTypes' /\ RegistryMatches'
  BY <1>0, <1>1 DEF RegistryTypes, RegistryMatches, Times, Of, InForce
<1>3. EmissionTypes'
  BY <1>0, <1>1, InForceTyped DEF EmissionTypes, RegistryTypes, NoCalls
<1>4. \A cb \in Callbacks : Passed(callbacks, 1, cb) = {}
  BY DEF Passed
<1>5. Emitting'
  BY <1>0, <1>1, <1>4, FS_EmptySet DEF Emitting, RegistryMatches, NoCalls, Times, Of, Passed
<1> QED BY <1>2, <1>3, <1>5 DEF LInv

LEMMA OverInv ==
  ASSUME LInv, EmissionOver, UNCHANGED <<registry, dead>>, dpc' \in {"get", "refresh"}
  PROVE  LInv'
<1>1. copy' = <<>> /\ at' = 0 /\ calls' = NoCalls /\ atStart' = {}
      /\ UNCHANGED <<callbacks, unsub, doubled, dead>>
  BY DEF EmissionOver, registry
<1>2. RegistryTypes' /\ RegistryMatches'
  BY <1>1 DEF LInv, RegistryTypes, RegistryMatches, Times, Of, InForce
<1>3. EmissionTypes' /\ Emitting'
  BY <1>1 DEF EmissionTypes, NoCalls, Emitting
<1> QED BY <1>2, <1>3 DEF LInv

LEMMA EndsInv ==
  ASSUME LInv, ListenerEnds
  PROVE  LInv'
<1>0. RegistryTypes /\ EmissionTypes /\ RegistryMatches /\ Emitting
  BY DEF LInv
<1>1. at \in 1..Len(copy) /\ at' = at + 1 /\ calls' = [calls EXCEPT ![copy[at]] = @ + 1]
      /\ UNCHANGED <<dpc, callbacks, unsub, doubled, copy, atStart, dead>>
  BY DEF ListenerEnds, Iterates, registry, vars
<1>2. copy \in Seq(Callbacks) /\ at \in Nat /\ copy[at] \in Callbacks
  BY <1>0, <1>1 DEF EmissionTypes
<1>3. RegistryTypes' /\ RegistryMatches'
  BY <1>0, <1>1 DEF RegistryTypes, RegistryMatches, Times, Of, InForce
<1>4. EmissionTypes'
  BY <1>0, <1>1, <1>2 DEF EmissionTypes
<1>5. ASSUME NEW cb \in Callbacks PROVE calls'[cb] = Cardinality(Passed(copy, at + 1, cb))
  <2>1. Passed(copy, at + 1, cb) = IF copy[at] = cb THEN Passed(copy, at, cb) \cup {at}
                                   ELSE Passed(copy, at, cb)
    BY <1>1, <1>2 DEF Passed
  <2>2. at \notin Passed(copy, at, cb) /\ Passed(copy, at, cb) \in SUBSET (1..(at - 1))
    BY <1>2 DEF Passed
  <2>3. IsFiniteSet(Passed(copy, at, cb))
    BY <1>2, <2>2, FS_Interval, FS_Subset
  <2>4. calls[cb] = Cardinality(Passed(copy, at, cb))
    BY <1>0, <1>1 DEF Emitting
  <2>5. calls'[cb] = IF copy[at] = cb THEN calls[cb] + 1 ELSE calls[cb]
    BY <1>0, <1>1, <1>2 DEF EmissionTypes
  <2>6. Cardinality(Passed(copy, at, cb) \cup {at}) = Cardinality(Passed(copy, at, cb)) + 1
    BY <2>2, <2>3, FS_AddElement
  <2>7. CASE copy[at] = cb
    BY <2>1, <2>4, <2>5, <2>6, <2>7
  <2>8. CASE copy[at] # cb
    BY <2>1, <2>4, <2>5, <2>8
  <2> QED BY <2>7, <2>8
<1>6. Emitting'
  <2>1. \A cb \in Callbacks \ doubled' : Times(copy', cb) = Of(atStart', cb)
    BY <1>0, <1>1 DEF Emitting
  <2> QED BY <1>1, <1>5, <2>1 DEF Emitting
<1> QED BY <1>3, <1>4, <1>6 DEF LInv

(* The steps that leave listeners and emission alone.                       *)
LEMMA StillInv ==
  ASSUME LInv, UNCHANGED <<registry, emission, dpc>>, dead' \in BOOLEAN
  PROVE  LInv'
<1>1. UNCHANGED <<callbacks, unsub, doubled, copy, at, calls, atStart, dpc>>
  BY DEF registry, emission
<1>2. RegistryTypes'
  BY <1>1 DEF LInv, RegistryTypes
<1>3. EmissionTypes'
  BY <1>1 DEF LInv, EmissionTypes
<1>4. RegistryMatches'
  BY <1>1 DEF LInv, RegistryMatches, Times, Of, InForce
<1>5. Emitting'
  BY <1>1 DEF LInv, Emitting, Times, Of, Passed
<1> QED BY <1>2, <1>3, <1>4, <1>5 DEF LInv

LEMMA LInitInv == ListenersInit => LInv
<1> SUFFICES ASSUME ListenersInit PROVE LInv
  OBVIOUS
<1>1. callbacks = <<>> /\ copy = <<>> /\ at = 0 /\ dead = FALSE /\ dpc = "get"
      /\ unsub = [r \in Registration |-> "none"] /\ calls = NoCalls /\ atStart = {} /\ doubled = {}
  BY DEF ListenersInit, Init
<1>2. RegistryTypes
  <2>1. callbacks \in Seq(Callbacks)
    BY <1>1
  <2>2. unsub \in [Registration -> {"none", "live", "called"}]
    BY <1>1
  <2>3. doubled \subseteq Callbacks /\ dead \in BOOLEAN
    BY <1>1
  <2> QED BY <2>1, <2>2, <2>3 DEF RegistryTypes
<1>5. EmissionTypes
  <2>1. Len(copy) = 0 /\ copy \in Seq(Callbacks)
    BY <1>1
  <2>2. at \in 0..(Len(copy) + 1)
    BY <1>1, <2>1
  <2>3. calls \in [Callbacks -> Nat]
    BY <1>1 DEF NoCalls
  <2> QED BY <1>1, <2>1, <2>2, <2>3 DEF EmissionTypes
<1>6. Emitting
  BY <1>1 DEF Emitting
<1>3. InForce = {} /\ \A cb \in Callbacks : Positions(callbacks, cb) = {} /\ Regs(InForce, cb) = {}
  BY <1>1 DEF InForce, Positions, Regs
<1>4. RegistryMatches
  BY <1>3 DEF RegistryMatches, Times, Of, Positions, Regs
<1> QED BY <1>2, <1>4, <1>5, <1>6 DEF LInv

LEMMA LNextInv == LInv /\ [ListenersNext]_allVars => LInv'
<1> SUFFICES ASSUME LInv, [ListenersNext]_allVars PROVE LInv'
  OBVIOUS
<1>0. dead \in BOOLEAN
  BY DEF LInv, RegistryTypes
<1>1. ASSUME ReaderStep PROVE LInv'
  BY <1>0, <1>1, StillInv DEF ReaderStep, HandleLine, PutResumes, PutTimesOut
<1>2. ASSUME NEW r \in Registration, AddListener(r) PROVE LInv'
  BY <1>2, AddInv
<1>3. ASSUME NEW r \in Registration, Unsubscribe(r) PROVE LInv'
  BY <1>3, UnsubscribeInv
<1>4. ASSUME EmitBegins \/ ReportBegins PROVE LInv'
  <2>1. EmissionBegins /\ UNCHANGED <<registry, dead>> /\ dpc' \in {"emit", "report"}
    BY <1>4 DEF EmitBegins, ReportBegins, Get, Refreshed
  <2> QED BY <2>1, BeginsInv
<1>5. ASSUME EmitOver \/ ReportOver PROVE LInv'
  <2>1. EmissionOver /\ UNCHANGED <<registry, dead>> /\ dpc' \in {"get", "refresh"}
    BY <1>5 DEF EmitOver, ReportOver, Emitted, Reported
  <2> QED BY <2>1, OverInv
<1>6. ASSUME ListenerEnds PROVE LInv'
  BY <1>6, EndsInv
<1>7. ASSUME ListenerCancelled PROVE LInv'
  BY <1>7, StillInv DEF ListenerCancelled, vars
<1>8. ASSUME UNCHANGED allVars PROVE LInv'
  BY <1>0, <1>8, StillInv DEF allVars, vars
<1> QED BY <1>1, <1>2, <1>3, <1>4, <1>5, <1>6, <1>7, <1>8 DEF ListenersNext

LEMMA AlwaysLInv == ListenersSafe => []LInv
  BY LInitInv, LNextInv, PTL DEF ListenersSafe

-----------------------------------------------------------------------------
(* Theorems.                                                                *)

(* The types of registry and emission.                                      *)
THEOREM ListenersTypeCorrect == ListenersSafe => []TypeInvariant
<1>1. LInv /\ TypeOK => TypeInvariant
  BY DEF LInv, RegistryTypes, EmissionTypes, TypeInvariant
<1>2. ListenersSafe => []TypeOK
  BY ListenersDeliver, TypeCorrect, PTL
<1> QED BY <1>1, <1>2, AlwaysLInv, PTL

(* However often callables are registered and unsubscribed, and whenever:   *)
(* each is listed as often as it is subscribed, unless one of its           *)
(* unsubscribe functions was called twice.                                  *)
THEOREM RegistryIsRight == ListenersSafe => []RegistryMatches
<1>1. LInv => RegistryMatches
  BY DEF LInv
<1> QED BY <1>1, AlwaysLInv, PTL

(* An emission calls every callable as often as it was subscribed when it   *)
(* began, whatever happens to the registry meanwhile.                       *)
THEOREM EmissionsAreFull == ListenersSafe => HeardInFull
<1> DEFINE Full == at # 0 /\ at' = 0 =>
                     \A cb \in Callbacks \ doubled :
                       calls[cb] \in Of(atStart \cap InForce, cb)..Of(atStart, cb)
<1>1. LInv /\ [ListenersNext]_allVars => [Full]_allVars
  <2> SUFFICES ASSUME LInv, ListenersNext, at # 0, at' = 0, NEW cb \in Callbacks \ doubled
               PROVE  calls[cb] \in Of(atStart \cap InForce, cb)..Of(atStart, cb)
    OBVIOUS
  <2>0. EmissionTypes /\ Emitting
    BY DEF LInv
  <2>1. at \in 1..(Len(copy) + 1) /\ Len(copy) \in Nat
    BY <2>0 DEF EmissionTypes
  <2>2. at > Len(copy)
    <3>1. ASSUME ReaderStep PROVE FALSE
      BY <3>1 DEF ReaderStep, emission
    <3>2. ASSUME NEW r \in Registration, AddListener(r) \/ Unsubscribe(r) PROVE FALSE
      BY <3>2 DEF AddListener, Unsubscribe, emission
    <3>3. ASSUME EmitBegins \/ ReportBegins \/ ListenerEnds \/ ListenerCancelled PROVE FALSE
      BY <2>1, <3>3 DEF EmitBegins, ReportBegins, EmissionBegins, ListenerEnds, ListenerCancelled,
         emission
    <3> QED BY <3>1, <3>2, <3>3 DEF ListenersNext, EmitOver, ReportOver, Iterates
  <2>3. Passed(copy, at, cb) = Positions(copy, cb)
    BY <2>1, <2>2 DEF Passed, Positions
  <2>4. calls[cb] = Times(copy, cb) /\ Times(copy, cb) = Of(atStart, cb)
    BY <2>0, <2>3 DEF Emitting, Times, Positions
  <2>5. atStart \in SUBSET Registration /\ atStart \cap InForce \in SUBSET atStart
    BY <2>0 DEF EmissionTypes
  <2>6. Of(atStart, cb) \in Nat /\ Of(atStart \cap InForce, cb) \in Nat
        /\ Of(atStart \cap InForce, cb) <= Of(atStart, cb)
    BY <2>5, OfFinite, OfSubset
  <2> QED BY <2>4, <2>6
<1>2. ListenersSafe => [][ListenersNext]_allVars
  BY DEF ListenersSafe
<1>3. ListenersSafe => [][Full]_allVars
  BY <1>1, <1>2, AlwaysLInv, PTL
<1> QED BY <1>3 DEF HeardInFull
=============================================================================
