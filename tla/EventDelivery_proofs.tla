------------------------ MODULE EventDelivery_proofs ------------------------
(* Theorems about EventDelivery, for every queue size and every number of   *)
(* events.                                                                  *)
EXTENDS EventDelivery, SequenceTheorems, FiniteSetTheorems, TLAPS

-----------------------------------------------------------------------------
(* What the reader's three operations make of the queue and of the          *)
(* suspended put.                                                           *)

(* Dropping the oldest event of a queue within its bound makes room.        *)
LEMMA DisplaceCases ==
  ASSUME NEW S, NEW q \in Seq(S), NEW e \in S, Len(q) <= QueueMax
  PROVE  Displace(q, e) = IF q = <<>> THEN Append(q, e) ELSE Append(Tail(q), e)
<1>0. QueueMax \in Nat /\ QueueMax > 0 /\ Len(q) \in Nat
  BY QueueMaxAssumption, LenProperties
<1>1. CASE q = <<>>
  <2>1. WithoutOldest(q) = q /\ ~IsFull(q)
    BY <1>0, <1>1 DEF WithoutOldest, IsFull
  <2> QED BY <1>1, <2>1 DEF Displace, PutNowait
<1>2. CASE q # <<>>
  <2>1. WithoutOldest(q) = Tail(q) /\ Len(Tail(q)) = Len(q) - 1
    BY <1>2, HeadTailProperties DEF WithoutOldest
  <2>2. ~IsFull(Tail(q))
    BY <1>0, <2>1 DEF IsFull
  <2> QED BY <1>2, <2>1, <2>2 DEF Displace, PutNowait
<1> QED BY <1>1, <1>2

(* Enqueuing an event when no put is suspended (_enqueue): appended,        *)
(* appended after dropping the oldest, or suspended on a full queue.        *)
LEMMA EnqueueCases ==
  ASSUME NEW S, NEW q \in Seq(S), Len(q) <= QueueMax, NEW deg \in BOOLEAN, NEW e \in S,
         NEW r, r = Enqueue([queue |-> q, degraded |-> deg, waiting |-> <<>>], e)
  PROVE  \/ /\ Len(q) < QueueMax
            /\ r = [queue |-> Append(q, e), degraded |-> FALSE, waiting |-> <<>>]
         \/ /\ q # <<>> /\ deg
            /\ r = [queue |-> Append(Tail(q), e), degraded |-> TRUE, waiting |-> <<>>]
         \/ /\ Len(q) = QueueMax /\ ~deg
            /\ r = [queue |-> q, degraded |-> FALSE, waiting |-> <<e>>]
<1>0. QueueMax \in Nat /\ QueueMax > 0 /\ Len(q) \in Nat
  BY QueueMaxAssumption, LenProperties
<1>1. CASE ~IsFull(q)
  <2>1. r = [queue |-> Append(q, e), degraded |-> FALSE, waiting |-> <<>>]
    BY <1>1 DEF Enqueue
  <2>2. Len(q) < QueueMax
    BY <1>0, <1>1 DEF IsFull
  <2> QED BY <2>1, <2>2
<1>2. CASE IsFull(q) /\ deg
  <2>1. r = [queue |-> Displace(q, e), degraded |-> TRUE, waiting |-> <<>>]
    BY <1>2 DEF Enqueue
  <2>2. q # <<>>
    BY <1>0, <1>2 DEF IsFull
  <2> QED BY <1>2, <2>1, <2>2, DisplaceCases
<1>3. CASE IsFull(q) /\ ~deg
  <2>1. r = [queue |-> q, degraded |-> FALSE, waiting |-> <<e>>]
    BY <1>3 DEF Enqueue
  <2>2. Len(q) = QueueMax
    BY <1>0, <1>3 DEF IsFull
  <2> QED BY <1>3, <2>1, <2>2
<1> QED BY <1>1, <1>2, <1>3

(* A lone suspended put that goes through appends its event.                *)
LEMMA PutReturnsCase ==
  ASSUME NEW q, NEW deg, NEW e
  PROVE  PutReturns([queue |-> q, degraded |-> deg, waiting |-> <<e>>]) =
           [queue |-> Append(q, e), degraded |-> deg, waiting |-> <<>>]
<1>1. Tail(<<e>>) = <<>> /\ Head(<<e>>) = e /\ Len(<<>>) = 0
  OBVIOUS
<1> QED BY <1>1 DEF PutReturns, EnqueueAll

(* A lone suspended put that is given up displaces the oldest event, if the *)
(* dispatcher has left one.                                                 *)
LEMMA PutGivesUpCase ==
  ASSUME NEW q, NEW deg, NEW e
  PROVE  PutGivesUp([queue |-> q, degraded |-> deg, waiting |-> <<e>>]) =
           [queue |-> Displace(q, e), degraded |-> TRUE, waiting |-> <<>>]
<1>1. Tail(<<e>>) = <<>> /\ Head(<<e>>) = e /\ Len(<<>>) = 0
  OBVIOUS
<1> QED BY <1>1 DEF PutGivesUp, EnqueueAll

-----------------------------------------------------------------------------
(* The inductive invariant.                                                 *)

(* BacklogIsNewest, said of the queue and of the suspended put separately,  *)
(* and: everything delivered is older than everything that waits.           *)
QueueNumbers ==
  \A i \in 1..Len(queue) : queue[i].n = sent - Len(waiting) - Len(queue) + i

WaitingNumbers == \A i \in 1..Len(waiting) : waiting[i].n = sent

TakenIsOlder == taken + Len(queue) + Len(waiting) <= sent

(* While listeners are called there is an event to call them with.          *)
HandHeld == dpc = "emit" => inHand \in Event

Inv == TypeOK /\ QueueNumbers /\ WaitingNumbers /\ TakenIsOlder /\ HandHeld

(* How HandleLine changes the reader's state.                               *)
LEMMA HandleLineCases ==
  ASSUME TypeOK, NEW config \in BOOLEAN, HandleLine(config)
  PROVE  LET e == [n |-> sent + 1, config |-> config]
         IN  /\ e \in Event
             /\ waiting = <<>>
             /\ sent' = sent + 1 /\ sent' \in 0..MaxEvents
             /\ degraded' \in BOOLEAN
             /\ \/ /\ Len(queue) < QueueMax
                   /\ queue' = Append(queue, e) /\ waiting' = <<>>
                \/ /\ queue # <<>>
                   /\ queue' = Append(Tail(queue), e) /\ waiting' = <<>>
                \/ /\ queue' = queue /\ waiting' = <<e>>
<1> DEFINE e == [n |-> sent + 1, config |-> config]
           r == Enqueue([queue |-> queue, degraded |-> degraded, waiting |-> <<>>], e)
<1>1. e \in Event /\ sent' = sent + 1 /\ sent' \in 0..MaxEvents /\ waiting = <<>>
  BY DeliveryAssumption DEF HandleLine, Event, TypeOK
<1>2. queue' = r.queue /\ degraded' = r.degraded /\ waiting' = r.waiting
  BY <1>1 DEF HandleLine, ReaderBecomes, ReaderState
<1>3. \/ /\ Len(queue) < QueueMax
         /\ r = [queue |-> Append(queue, e), degraded |-> FALSE, waiting |-> <<>>]
      \/ /\ queue # <<>> /\ degraded
         /\ r = [queue |-> Append(Tail(queue), e), degraded |-> TRUE, waiting |-> <<>>]
      \/ /\ Len(queue) = QueueMax /\ ~degraded
         /\ r = [queue |-> queue, degraded |-> FALSE, waiting |-> <<e>>]
  <2> HIDE DEF e
  <2> QED BY <1>1, EnqueueCases DEF TypeOK
<1> HIDE DEF e, r
<1>4. \/ /\ Len(queue) < QueueMax
         /\ queue' = Append(queue, e) /\ waiting' = <<>> /\ degraded' = FALSE
      \/ /\ queue # <<>>
         /\ queue' = Append(Tail(queue), e) /\ waiting' = <<>> /\ degraded' = TRUE
      \/ /\ queue' = queue /\ waiting' = <<e>> /\ degraded' = FALSE
  BY <1>2, <1>3
<1> QED BY <1>1, <1>4 DEF e

(* How the end of a suspended put changes the reader's state.               *)
LEMMA PutCases ==
  ASSUME TypeOK, PutResumes \/ PutTimesOut
  PROVE  LET e == Head(waiting)
         IN  /\ e \in Event
             /\ waiting = <<e>> /\ waiting' = <<>>
             /\ degraded' \in BOOLEAN
             /\ \/ Len(queue) < QueueMax /\ queue' = Append(queue, e)
                \/ queue # <<>> /\ queue' = Append(Tail(queue), e)
<1> DEFINE e == Head(waiting)
<1>1. e \in Event /\ waiting = <<e>>
  <2>1. waiting \in Seq(Event) /\ waiting # <<>> /\ Len(waiting) <= 1
    BY DEF TypeOK, PutResumes, PutTimesOut
  <2>2. Len(waiting) \in Nat /\ Len(waiting) # 0
    BY <2>1, EmptySeq, LenProperties
  <2>3. Len(waiting) = 1 /\ e = waiting[1] /\ e \in Event
    <3>1. Len(waiting) = 1
      BY <2>1, <2>2
    <3>2. Head(waiting) \in Event /\ Head(waiting) = waiting[1]
      BY <2>1, <3>1
    <3> QED BY <3>1, <3>2
  <2>4. <<e>> \in Seq(Event) /\ Len(<<e>>) = 1 /\ <<e>>[1] = e
    <3> HIDE DEF e
    <3> QED BY <2>3
  <2>5. waiting = <<e>>
    <3> HIDE DEF e
    <3> QED BY <2>1, <2>3, <2>4, SeqEqual
  <2> QED BY <2>3, <2>5
<1>2. QueueMax \in Nat /\ QueueMax > 0 /\ queue \in Seq(Event) /\ Len(queue) \in Nat
      /\ Len(queue) <= QueueMax /\ degraded \in BOOLEAN
  BY QueueMaxAssumption, LenProperties DEF TypeOK
<1>3. CASE PutResumes
  <2>1. Len(queue) < QueueMax
    BY <1>2, <1>3 DEF PutResumes, IsFull
  <2>2. queue' = Append(queue, e) /\ degraded' = degraded /\ waiting' = <<>>
    <3> HIDE DEF e
    <3>1. ReaderState = [queue |-> queue, degraded |-> degraded, waiting |-> <<e>>]
      BY <1>1 DEF ReaderState
    <3>2. PutReturns(ReaderState) =
            [queue |-> Append(queue, e), degraded |-> degraded, waiting |-> <<>>]
      BY <3>1, PutReturnsCase
    <3> QED BY <1>3, <3>2 DEF PutResumes, ReaderBecomes
  <2> QED BY <1>1, <1>2, <2>1, <2>2
<1>4. CASE PutTimesOut
  <2>1. queue' = Displace(queue, e) /\ degraded' = TRUE /\ waiting' = <<>>
    <3> HIDE DEF e
    <3>1. ReaderState = [queue |-> queue, degraded |-> degraded, waiting |-> <<e>>]
      BY <1>1 DEF ReaderState
    <3>2. PutGivesUp(ReaderState) =
            [queue |-> Displace(queue, e), degraded |-> TRUE, waiting |-> <<>>]
      BY <3>1, PutGivesUpCase
    <3> QED BY <1>4, <3>2 DEF PutTimesOut, ReaderBecomes
  <2>2. queue' = IF queue = <<>> THEN Append(queue, e) ELSE Append(Tail(queue), e)
    BY <1>1, <1>2, <2>1, DisplaceCases
  <2>3. queue = <<>> => Len(queue) < QueueMax
    BY <1>2
  <2> QED BY <1>1, <2>1, <2>2, <2>3
<1> QED BY <1>3, <1>4

(* Dropping the oldest of a queue and appending an event keeps its length   *)
(* and shifts its events by one place.                                      *)
LEMMA TailAppend ==
  ASSUME NEW S, NEW q \in Seq(S), q # <<>>, NEW e \in S
  PROVE  /\ Append(Tail(q), e) \in Seq(S)
         /\ Len(Append(Tail(q), e)) = Len(q)
         /\ \A i \in 1..(Len(q) - 1) : Append(Tail(q), e)[i] = q[i + 1]
         /\ Append(Tail(q), e)[Len(q)] = e
<1>1. /\ Tail(q) \in Seq(S) /\ Len(Tail(q)) = Len(q) - 1
      /\ \A i \in 1..Len(Tail(q)) : Tail(q)[i] = q[i + 1]
  BY HeadTailProperties
<1>2. Len(q) \in Nat /\ Len(q) # 0
  BY EmptySeq, LenProperties
<1> DEFINE t == Tail(q)
<1>3. /\ Append(t, e) \in Seq(S) /\ Len(Append(t, e)) = Len(t) + 1
      /\ \A i \in 1..Len(t) : Append(t, e)[i] = t[i]
      /\ Append(t, e)[Len(t) + 1] = e
  BY <1>1, AppendProperties
<1>4. Len(t) \in Nat /\ Len(t) = Len(q) - 1
  BY <1>1, <1>2
<1>5. ASSUME NEW i \in 1..(Len(q) - 1) PROVE Append(t, e)[i] = q[i + 1]
  <2>1. i \in 1..Len(t)
    BY <1>2, <1>4
  <2>2. Append(t, e)[i] = t[i]
    BY <1>3, <2>1
  <2>3. t[i] = q[i + 1]
    BY <1>1, <2>1
  <2> QED BY <2>2, <2>3
<1>6. Append(t, e) \in Seq(S) /\ Len(Append(t, e)) = Len(q) /\ Append(t, e)[Len(q)] = e
  BY <1>2, <1>3, <1>4
<1> QED BY <1>5, <1>6

(* Appending event number s to a queue that ends with number s - 1 keeps    *)
(* the numbers consecutive.                                                 *)
LEMMA AppendedNumbers ==
  ASSUME NEW q, NEW p, NEW m \in Nat, NEW s \in Int,
         \A i \in 1..m : q[i].n = s - 1 - m + i,
         \A i \in 1..m : p[i] = q[i], p[m + 1].n = s
  PROVE  \A i \in 1..(m + 1) : p[i].n = s - (m + 1) + i
<1> SUFFICES ASSUME NEW i \in 1..(m + 1) PROVE p[i].n = s - (m + 1) + i
  OBVIOUS
<1>1. CASE i \in 1..m
  BY <1>1
<1>2. CASE i = m + 1
  BY <1>2
<1> QED BY <1>1, <1>2

(* The numbers of the events that a reader step has dropped were numbers.   *)
LEMMA LostType ==
  ASSUME TypeOK, NEW r, ReaderBecomes(r)
  PROVE  lost' \subseteq 1..MaxEvents
<1>1. \A i \in 1..Len(queue) : queue[i].n \in 1..MaxEvents
  <2> SUFFICES ASSUME NEW i \in 1..Len(queue) PROVE queue[i].n \in 1..MaxEvents
    OBVIOUS
  <2>1. queue[i] \in Event
    BY ElementOfSeq DEF TypeOK
  <2> QED BY <2>1 DEF Event
<1> QED BY <1>1 DEF ReaderBecomes, TypeOK

LEMMA InitInv == Init => Inv
<1> SUFFICES ASSUME Init PROVE Inv
  OBVIOUS
<1>1. TypeOK
  <2>1. QueueMax \in Nat /\ QueueMax > 0 /\ MaxEvents \in Nat
    BY QueueMaxAssumption, DeliveryAssumption
  <2>2. <<>> \in Seq(Event) /\ Len(<<>>) = 0
    BY EmptySeq
  <2>3. queue = <<>> /\ waiting = <<>> /\ Len(queue) <= QueueMax /\ Len(waiting) <= 1
    BY <2>1, <2>2 DEF Init
  <2>4. queue \in Seq(Event) /\ waiting \in Seq(Event)
    BY <2>2, <2>3
  <2>5. inHand \in Event \cup {NoEvent} /\ dpc \in {"get", "emit", "refresh", "report"}
    BY DEF Init
  <2>6. /\ sent \in 0..MaxEvents /\ taken \in 0..MaxEvents /\ refreshed \in 0..MaxEvents
        /\ configs \subseteq 1..MaxEvents /\ delivered \subseteq 1..MaxEvents
        /\ lost \subseteq 1..MaxEvents
    BY <2>1 DEF Init
  <2>7. degraded \in BOOLEAN
    BY DEF Init
  <2> QED BY <2>3, <2>4, <2>5, <2>6, <2>7 DEF TypeOK
<1>2. Len(queue) = 0 /\ Len(waiting) = 0 /\ sent = 0 /\ taken = 0
  BY DEF Init
<1> QED BY <1>1, <1>2 DEF Inv, QueueNumbers, WaitingNumbers, TakenIsOlder, HandHeld, Init

LEMMA NextInv == Inv /\ [Next]_vars => Inv'
<1> SUFFICES ASSUME Inv, [Next]_vars PROVE Inv'
  OBVIOUS
<1>0. /\ QueueMax \in Nat /\ QueueMax > 0 /\ MaxEvents \in Nat
      /\ queue \in Seq(Event) /\ Len(queue) \in Nat /\ Len(queue) <= QueueMax
      /\ waiting \in Seq(Event) /\ Len(waiting) \in Nat
      /\ sent \in Nat /\ taken \in Nat /\ TypeOK
  BY QueueMaxAssumption, DeliveryAssumption, LenProperties DEF Inv, TypeOK
<1>1. ASSUME NEW config \in BOOLEAN, HandleLine(config) PROVE Inv'
  <2> DEFINE e == [n |-> sent + 1, config |-> config]
  <2>1. /\ e \in Event /\ e.n = sent + 1 /\ waiting = <<>> /\ Len(waiting) = 0
        /\ sent' = sent + 1 /\ sent' \in 0..MaxEvents /\ degraded' \in BOOLEAN
        /\ \/ /\ Len(queue) < QueueMax
              /\ queue' = Append(queue, e) /\ waiting' = <<>>
           \/ /\ queue # <<>>
              /\ queue' = Append(Tail(queue), e) /\ waiting' = <<>>
           \/ /\ queue' = queue /\ waiting' = <<e>>
    BY <1>0, <1>1, HandleLineCases
  <2> HIDE DEF e
  <2>2. /\ UNCHANGED <<dpc, inHand, taken, delivered, refreshed>>
        /\ configs' \subseteq 1..MaxEvents /\ lost' \subseteq 1..MaxEvents
    BY <1>0, <1>1, <2>1, LostType DEF HandleLine, TypeOK
  <2>3. CASE Len(queue) < QueueMax /\ queue' = Append(queue, e) /\ waiting' = <<>>
    <3>1. /\ queue' \in Seq(Event) /\ Len(queue') = Len(queue) + 1
          /\ \A i \in 1..Len(queue) : queue'[i] = queue[i]
          /\ queue'[Len(queue) + 1] = e
          /\ waiting' \in Seq(Event) /\ Len(waiting') = 0
      BY <1>0, <2>1, <2>3, AppendProperties, EmptySeq
    <3>2. TypeOK'
      BY <1>0, <2>1, <2>2, <2>3, <3>1 DEF TypeOK
    <3>3. QueueNumbers'
      <4>1. \A i \in 1..Len(queue) : queue[i].n = sent' - 1 - Len(queue) + i
        BY <1>0, <2>1 DEF Inv, QueueNumbers
      <4>2. \A i \in 1..(Len(queue) + 1) : queue'[i].n = sent' - (Len(queue) + 1) + i
        BY <1>0, <2>1, <3>1, <4>1, AppendedNumbers
      <4> QED BY <1>0, <2>1, <3>1, <4>2 DEF QueueNumbers
    <3>4. WaitingNumbers' /\ TakenIsOlder' /\ HandHeld'
      BY <1>0, <2>1, <2>2, <3>1 DEF Inv, WaitingNumbers, TakenIsOlder, HandHeld
    <3> QED BY <3>2, <3>3, <3>4 DEF Inv
  <2>4. CASE queue # <<>> /\ queue' = Append(Tail(queue), e) /\ waiting' = <<>>
    <3>1. /\ queue' \in Seq(Event) /\ Len(queue') = Len(queue)
          /\ \A i \in 1..(Len(queue) - 1) : queue'[i] = queue[i + 1]
          /\ queue'[Len(queue)] = e
          /\ waiting' \in Seq(Event) /\ Len(waiting') = 0
      BY <1>0, <2>1, <2>4, TailAppend, EmptySeq
    <3>2. TypeOK'
      BY <1>0, <2>1, <2>2, <3>1 DEF TypeOK
    <3>3. QueueNumbers'
      <4>1. Len(queue) \in Nat /\ e.n \in Int /\ e.n = sent'
        BY <1>0, <2>1
      <4>2. \A i \in 1..Len(queue) : queue[i].n = e.n - 1 - Len(queue) + i
        BY <1>0, <2>1 DEF Inv, QueueNumbers
      <4>3. \A i \in 1..Len(queue) : queue'[i].n = e.n - Len(queue) + i
        <5> SUFFICES ASSUME NEW i \in 1..Len(queue)
                     PROVE  queue'[i].n = e.n - Len(queue) + i
          OBVIOUS
        <5>1. CASE i \in 1..(Len(queue) - 1)
          <6>1. i + 1 \in 1..Len(queue) /\ queue'[i] = queue[i + 1]
            BY <3>1, <4>1, <5>1
          <6>2. queue[i + 1].n = e.n - 1 - Len(queue) + (i + 1)
            BY <4>2, <6>1
          <6> QED BY <4>1, <6>1, <6>2
        <5>2. CASE i = Len(queue)
          BY <3>1, <4>1, <5>2
        <5> QED BY <4>1, <5>1, <5>2
      <4> QED BY <1>0, <3>1, <4>1, <4>3 DEF QueueNumbers
    <3>4. WaitingNumbers' /\ TakenIsOlder' /\ HandHeld'
      BY <1>0, <2>1, <2>2, <3>1 DEF Inv, WaitingNumbers, TakenIsOlder, HandHeld
    <3> QED BY <3>2, <3>3, <3>4 DEF Inv
  <2>5. CASE queue' = queue /\ waiting' = <<e>>
    <3>1. waiting' \in Seq(Event) /\ Len(waiting') = 1 /\ waiting'[1] = e
      BY <2>1, <2>5
    <3>2. TypeOK'
      BY <1>0, <2>1, <2>2, <2>5, <3>1 DEF TypeOK
    <3>3. QueueNumbers' /\ WaitingNumbers' /\ TakenIsOlder' /\ HandHeld'
      BY <1>0, <2>1, <2>2, <2>5, <3>1 DEF Inv, QueueNumbers, WaitingNumbers, TakenIsOlder, HandHeld
    <3> QED BY <3>2, <3>3 DEF Inv
  <2> QED BY <2>1, <2>3, <2>4, <2>5
<1>2. ASSUME PutResumes \/ PutTimesOut PROVE Inv'
  <2> DEFINE e == Head(waiting)
  <2>1. /\ e \in Event /\ waiting = <<e>> /\ waiting' = <<>> /\ degraded' \in BOOLEAN
        /\ \/ Len(queue) < QueueMax /\ queue' = Append(queue, e)
           \/ queue # <<>> /\ queue' = Append(Tail(queue), e)
    BY <1>0, <1>2, PutCases
  <2> HIDE DEF e
  <2>2. /\ UNCHANGED <<dpc, inHand, sent, configs, taken, delivered, refreshed>>
        /\ lost' \subseteq 1..MaxEvents
    BY <1>0, <1>2, LostType DEF PutResumes, PutTimesOut
  <2>3. /\ Len(waiting) = 1 /\ waiting[1] = e /\ e.n = sent
        /\ waiting' \in Seq(Event) /\ Len(waiting') = 0
    <3>1. Len(waiting) = 1 /\ waiting[1] = e
      BY <2>1
    <3> QED BY <2>1, <3>1, EmptySeq DEF Inv, WaitingNumbers
  <2>4. CASE Len(queue) < QueueMax /\ queue' = Append(queue, e)
    <3>1. /\ queue' \in Seq(Event) /\ Len(queue') = Len(queue) + 1
          /\ \A i \in 1..Len(queue) : queue'[i] = queue[i]
          /\ queue'[Len(queue) + 1] = e
      BY <1>0, <2>1, <2>4, AppendProperties
    <3>2. TypeOK'
      BY <1>0, <2>1, <2>2, <2>3, <2>4, <3>1 DEF TypeOK
    <3>3. QueueNumbers'
      <4>1. \A i \in 1..Len(queue) : queue[i].n = sent - 1 - Len(queue) + i
        BY <1>0, <2>3 DEF Inv, QueueNumbers
      <4>2. \A i \in 1..(Len(queue) + 1) : queue'[i].n = sent - (Len(queue) + 1) + i
        <5>1. /\ Len(queue) \in Nat /\ sent \in Int
              /\ queue'[Len(queue) + 1].n = sent
          BY <1>0, <2>3, <3>1
        <5> QED BY <3>1, <4>1, <5>1, AppendedNumbers
      <4> QED BY <1>0, <2>2, <2>3, <3>1, <4>2 DEF QueueNumbers
    <3>4. WaitingNumbers' /\ TakenIsOlder' /\ HandHeld'
      BY <1>0, <2>2, <2>3, <3>1 DEF Inv, WaitingNumbers, TakenIsOlder, HandHeld
    <3> QED BY <3>2, <3>3, <3>4 DEF Inv
  <2>5. CASE queue # <<>> /\ queue' = Append(Tail(queue), e)
    <3>1. /\ queue' \in Seq(Event) /\ Len(queue') = Len(queue)
          /\ \A i \in 1..(Len(queue) - 1) : queue'[i] = queue[i + 1]
          /\ queue'[Len(queue)] = e
      BY <1>0, <2>1, <2>5, TailAppend
    <3>2. TypeOK'
      BY <1>0, <2>1, <2>2, <2>3, <3>1 DEF TypeOK
    <3>3. QueueNumbers'
      <4>1. Len(queue) \in Nat /\ e.n \in Int /\ e.n = sent' /\ sent' = sent
        BY <1>0, <2>2, <2>3
      <4>2. \A i \in 1..Len(queue) : queue[i].n = e.n - 1 - Len(queue) + i
        BY <1>0, <2>3, <4>1 DEF Inv, QueueNumbers
      <4>3. \A i \in 1..Len(queue) : queue'[i].n = e.n - Len(queue) + i
        <5> SUFFICES ASSUME NEW i \in 1..Len(queue)
                     PROVE  queue'[i].n = e.n - Len(queue) + i
          OBVIOUS
        <5>1. CASE i \in 1..(Len(queue) - 1)
          <6>1. i + 1 \in 1..Len(queue) /\ queue'[i] = queue[i + 1]
            BY <3>1, <4>1, <5>1
          <6>2. queue[i + 1].n = e.n - 1 - Len(queue) + (i + 1)
            BY <4>2, <6>1
          <6> QED BY <4>1, <6>1, <6>2
        <5>2. CASE i = Len(queue)
          BY <3>1, <4>1, <5>2
        <5> QED BY <4>1, <5>1, <5>2
      <4> QED BY <1>0, <2>3, <3>1, <4>1, <4>3 DEF QueueNumbers
    <3>4. WaitingNumbers' /\ TakenIsOlder' /\ HandHeld'
      BY <1>0, <2>2, <2>3, <3>1 DEF Inv, WaitingNumbers, TakenIsOlder, HandHeld
    <3> QED BY <3>2, <3>3, <3>4 DEF Inv
  <2> QED BY <2>1, <2>4, <2>5
<1>3. CASE Get
  <2>1. /\ queue # <<>> /\ Len(queue) # 0
        /\ queue' = Tail(queue) /\ inHand' = Head(queue) /\ taken' = Head(queue).n
        /\ dpc' = "emit"
        /\ UNCHANGED <<degraded, waiting, sent, configs, delivered, lost, refreshed>>
    BY <1>0, <1>3, EmptySeq DEF Get
  <2>2. /\ Head(queue) = queue[1] /\ Head(queue) \in Event
        /\ queue' \in Seq(Event) /\ Len(queue') = Len(queue) - 1
        /\ \A i \in 1..Len(queue') : queue'[i] = queue[i + 1]
    BY <1>0, <2>1, HeadTailProperties
  <2>3. taken' = sent - Len(waiting) - Len(queue) + 1
    BY <1>0, <2>1, <2>2 DEF Inv, QueueNumbers
  <2>4. TypeOK'
    <3>1. taken' \in 0..MaxEvents
      BY <2>1, <2>2 DEF Event
    <3> QED BY <1>0, <2>1, <2>2, <3>1 DEF TypeOK
  <2>5. QueueNumbers' /\ WaitingNumbers' /\ TakenIsOlder' /\ HandHeld'
    BY <1>0, <2>1, <2>2, <2>3 DEF Inv, QueueNumbers, WaitingNumbers, TakenIsOlder, HandHeld
  <2> QED BY <2>4, <2>5 DEF Inv
<1>4. CASE Emitted
  <2>1. TypeOK'
    <3>1. inHand \in Event
      BY <1>0, <1>4 DEF Emitted, Inv, HandHeld
    <3>2. inHand.n \in 1..MaxEvents
      BY <3>1 DEF Event
    <3>3. delivered' \subseteq 1..MaxEvents
      BY <1>0, <1>4, <3>2 DEF Emitted, TypeOK
    <3>4. refreshed' \in 0..MaxEvents
      <4>1. refreshed' = inHand.n \/ refreshed' = refreshed
        BY <1>4 DEF Emitted
      <4> QED BY <1>0, <3>2, <4>1 DEF TypeOK
    <3>5. dpc' \in {"get", "emit", "refresh", "report"} /\ inHand' \in Event \cup {NoEvent}
      BY <1>0, <1>4 DEF Emitted, TypeOK
    <3>6. UNCHANGED <<queue, degraded, waiting, sent, configs, taken, lost>>
      BY <1>4 DEF Emitted, reader
    <3> QED BY <1>0, <3>3, <3>4, <3>5, <3>6 DEF TypeOK
  <2>2. QueueNumbers' /\ WaitingNumbers' /\ TakenIsOlder' /\ HandHeld'
    BY <1>4 DEF Emitted, reader, Inv, QueueNumbers, WaitingNumbers, TakenIsOlder, HandHeld
  <2> QED BY <2>1, <2>2 DEF Inv
<1>5. CASE Refreshed
  BY <1>0, <1>5 DEF Refreshed, reader, history, TypeOK, Inv, QueueNumbers, WaitingNumbers,
     TakenIsOlder, HandHeld
<1>6. CASE Reported
  BY <1>0, <1>6 DEF Reported, reader, history, TypeOK, Inv, QueueNumbers, WaitingNumbers,
     TakenIsOlder, HandHeld
<1>7. CASE UNCHANGED vars
  BY <1>0, <1>7 DEF vars, history, TypeOK, Inv, QueueNumbers, WaitingNumbers,
     TakenIsOlder, HandHeld
<1> QED BY <1>1, <1>2, <1>3, <1>4, <1>5, <1>6, <1>7 DEF Next, Dispatch

-----------------------------------------------------------------------------
(* The theorems.                                                            *)

(* The invariant puts the numbers of the backlog in one interval.           *)
LEMMA BacklogInterval ==
  Inv => /\ Len(Backlog) = Len(queue) + Len(waiting)
         /\ Len(queue) \in Nat /\ Len(waiting) \in Nat /\ sent \in Nat
         /\ BacklogIsNewest
         /\ BacklogNumbers = (sent - (Len(queue) + Len(waiting)) + 1)..sent
<1> SUFFICES ASSUME Inv
             PROVE  /\ Len(Backlog) = Len(queue) + Len(waiting)
                    /\ Len(queue) \in Nat /\ Len(waiting) \in Nat /\ sent \in Nat
                    /\ BacklogIsNewest
                    /\ BacklogNumbers = (sent - (Len(queue) + Len(waiting)) + 1)..sent
  OBVIOUS
<1>1. /\ queue \in Seq(Event) /\ waiting \in Seq(Event) /\ sent \in Nat
      /\ Len(queue) \in Nat /\ Len(waiting) \in Nat /\ Len(waiting) <= 1
  BY LenProperties, DeliveryAssumption DEF Inv, TypeOK
<1> DEFINE L == Len(queue) + Len(waiting)
<1>2. /\ Len(Backlog) = L
      /\ \A i \in 1..L : Backlog[i] = IF i <= Len(queue) THEN queue[i]
                                                         ELSE waiting[i - Len(queue)]
  BY <1>1, ConcatProperties DEF Backlog
<1>3. ASSUME NEW i \in 1..L PROVE Backlog[i].n = sent - L + i
  <2>1. CASE i <= Len(queue)
    <3>1. i \in 1..Len(queue) /\ Backlog[i] = queue[i]
      BY <1>1, <1>2, <2>1
    <3>2. queue[i].n = sent - Len(waiting) - Len(queue) + i
      BY <3>1 DEF Inv, QueueNumbers
    <3> QED BY <1>1, <3>1, <3>2
  <2>2. CASE ~(i <= Len(queue))
    <3>1. i - Len(queue) \in 1..Len(waiting) /\ Backlog[i] = waiting[i - Len(queue)]
      BY <1>1, <1>2, <2>2
    <3>2. waiting[i - Len(queue)].n = sent
      BY <3>1 DEF Inv, WaitingNumbers
    <3>3. i = L
      BY <1>1, <3>1
    <3> QED BY <1>1, <3>1, <3>2, <3>3
  <2> QED BY <2>1, <2>2
<1>4. BacklogIsNewest
  BY <1>2, <1>3 DEF BacklogIsNewest
<1>5. ASSUME NEW n \in BacklogNumbers PROVE n \in (sent - L + 1)..sent
  <2>1. PICK i \in 1..L : n = Backlog[i].n
    BY <1>2 DEF BacklogNumbers
  <2> QED BY <1>1, <1>3, <2>1
<1>6. ASSUME NEW n \in (sent - L + 1)..sent PROVE n \in BacklogNumbers
  <2>1. n - (sent - L) \in 1..L
    BY <1>1
  <2>2. Backlog[n - (sent - L)].n = sent - L + (n - (sent - L))
    BY <1>3, <2>1
  <2>3. sent - L + (n - (sent - L)) = n
    BY <1>1
  <2> QED BY <1>2, <2>1, <2>2, <2>3 DEF BacklogNumbers
<1> QED BY <1>1, <1>2, <1>4, <1>5, <1>6

(* The inductive invariant holds in every reachable state.                 *)
THEOREM InvariantHolds == Safe => []Inv
<1> QED BY InitInv, NextInv, PTL DEF Safe

(* Every variable keeps its type; the queue never exceeds its bound and at  *)
(* most one event waits in a suspended put.                                 *)
THEOREM TypeCorrect == Safe => []TypeOK
<1>1. Inv => TypeOK
  BY DEF Inv
<1> QED BY <1>1, InvariantHolds, PTL

(* Overflow only ever cuts the oldest events of the backlog, for every      *)
(* queue size and whenever timeouts and the dispatcher interleave.          *)
THEOREM BacklogNewest == Safe => []BacklogIsNewest
<1> QED BY BacklogInterval, InvariantHolds, PTL

(* Listeners get the events in order and none twice.                        *)
THEOREM InOrder == Safe => DeliveredInOrder
<1>1. Inv /\ [Next]_vars => [taken' # taken => taken' > taken]_vars
  <2> SUFFICES ASSUME Inv, Next, taken' # taken PROVE taken' > taken
    BY DEF vars
  <2>1. Get
    BY DEF Next, Dispatch, HandleLine, PutResumes, PutTimesOut, Emitted, Refreshed,
           Reported, history
  <2>2. /\ queue \in Seq(Event) /\ waiting \in Seq(Event)
        /\ Len(queue) \in Nat /\ Len(waiting) \in Nat /\ sent \in Nat /\ taken \in Nat
    BY LenProperties, DeliveryAssumption DEF Inv, TypeOK
  <2>3. Len(queue) # 0 /\ Head(queue) = queue[1] /\ taken' = Head(queue).n
    BY <2>1, <2>2, EmptySeq DEF Get
  <2>4. taken' = sent - Len(waiting) - Len(queue) + 1
    BY <2>2, <2>3 DEF Inv, QueueNumbers
  <2> QED BY <2>2, <2>4 DEF Inv, TakenIsOlder
<1> QED BY <1>1, InvariantHolds, PTL DEF Safe, DeliveredInOrder

-----------------------------------------------------------------------------
(* Event delivery implements the lossy FIFO.                                *)

(* How many events wait: the suspended put's is one of them.                *)
Size == Len(queue) + Len(waiting)

(* The number of the event that has waited longest.                         *)
First == sent - Size + 1

(* What a step does to the backlog, and to the event that is with the       *)
(* listeners.                                                               *)
HandKept == InEmission' = InEmission /\ delivered' = delivered
HandDone == InEmission' = {} /\ delivered' = delivered \cup InEmission

Arrival ==
  /\ sent' = sent + 1 /\ taken' = taken /\ sent < MaxEvents /\ HandKept
  /\ \/ Size' = Size + 1 /\ lost' = lost
     \/ Size' = Size /\ Size > 0 /\ lost' = lost \cup {First}
Loss ==
  /\ sent' = sent /\ taken' = taken /\ HandKept
  /\ Size > 1 /\ Size' = Size - 1 /\ lost' = lost \cup {First}
Delivery ==
  /\ sent' = sent /\ taken' = First
  /\ Size > 0 /\ Size' = Size - 1 /\ lost' = lost
  /\ InEmission = {} /\ InEmission' = {First} /\ delivered' = delivered
Silence ==
  /\ sent' = sent /\ taken' = taken /\ Size' = Size /\ lost' = lost
  /\ HandKept \/ HandDone

(* The numbers in the queue, and those that a reader step drops from it.    *)
QueueInterval ==
  {queue[i].n : i \in 1..Len(queue)} = First..(sent - Len(waiting))

LEMMA QueueIsInterval == Inv => QueueInterval
<1> SUFFICES ASSUME Inv PROVE QueueInterval
  OBVIOUS
<1>1. Len(queue) \in Nat /\ Len(waiting) \in Nat /\ sent \in Nat
  BY DeliveryAssumption, LenProperties DEF Inv, TypeOK
<1>2. \A i \in 1..Len(queue) : queue[i].n = sent - Len(waiting) - Len(queue) + i
  BY DEF Inv, QueueNumbers
<1>3. ASSUME NEW n \in First..(sent - Len(waiting))
      PROVE  n \in {queue[i].n : i \in 1..Len(queue)}
  <2> DEFINE i == n - (sent - Len(waiting) - Len(queue))
  <2>1. i \in 1..Len(queue) /\ sent - Len(waiting) - Len(queue) + i = n
    BY <1>1 DEF First, Size
  <2>2. queue[i].n = n
    BY <1>2, <2>1
  <2> QED BY <2>1, <2>2
<1>4. ASSUME NEW i \in 1..Len(queue) PROVE queue[i].n \in First..(sent - Len(waiting))
  <2>1. queue[i].n = sent - Len(waiting) - Len(queue) + i
    BY <1>2
  <2> QED BY <1>1, <2>1 DEF First, Size
<1> QED BY <1>3, <1>4 DEF QueueInterval

LEMMA DroppedInterval ==
  ASSUME QueueInterval, QueueInterval', NEW r, ReaderBecomes(r)
  PROVE  lost' = lost \cup ((First..(sent - Len(waiting))) \
                            (First'..(sent' - Len(waiting'))))
<1>1. lost' = lost \cup ({queue[i].n : i \in 1..Len(queue)} \
                         {queue'[i].n : i \in 1..Len(queue')})
  BY DEF ReaderBecomes
<1> QED BY <1>1 DEF QueueInterval

LEMMA StepShapes ==
  Inv /\ QueueInterval /\ QueueInterval' /\ [Next]_vars =>
    Arrival \/ Loss \/ Delivery \/ Silence
<1> SUFFICES ASSUME Inv, QueueInterval, QueueInterval', [Next]_vars
             PROVE  Arrival \/ Loss \/ Delivery \/ Silence
  OBVIOUS
<1>0. /\ queue \in Seq(Event) /\ Len(queue) \in Nat /\ TypeOK
      /\ waiting \in Seq(Event) /\ Len(waiting) \in Nat /\ sent \in Nat
  BY DeliveryAssumption, LenProperties DEF Inv, TypeOK
<1>1. ASSUME NEW config \in BOOLEAN, HandleLine(config) PROVE Arrival
  <2>0. HandKept
    BY <1>1 DEF HandleLine, HandKept, InEmission
  <2> DEFINE e == [n |-> sent + 1, config |-> config]
  <2>1. /\ e \in Event /\ waiting = <<>> /\ Len(waiting) = 0
        /\ sent < MaxEvents /\ sent' = sent + 1 /\ taken' = taken
        /\ \/ queue' = Append(queue, e) /\ waiting' = <<>>
           \/ queue # <<>> /\ queue' = Append(Tail(queue), e) /\ waiting' = <<>>
           \/ queue' = queue /\ waiting' = <<e>>
    BY <1>0, <1>1, HandleLineCases DEF HandleLine
  <2> HIDE DEF e
  <2>2. lost' = lost \cup ((First..(sent - Len(waiting))) \
                           (First'..(sent' - Len(waiting'))))
    BY <1>1, DroppedInterval DEF HandleLine
  <2>3. CASE queue' = Append(queue, e) /\ waiting' = <<>>
    <3>1. Len(queue') = Len(queue) + 1 /\ Len(waiting') = 0
      BY <1>0, <2>1, <2>3, AppendProperties
    <3>2. First' = First /\ lost' = lost
      BY <1>0, <2>1, <2>2, <3>1 DEF First, Size
    <3> QED BY <1>0, <2>0, <2>1, <3>1, <3>2 DEF Arrival, Size
  <2>4. CASE queue # <<>> /\ queue' = Append(Tail(queue), e) /\ waiting' = <<>>
    <3>1. Len(queue') = Len(queue) /\ Len(waiting') = 0 /\ Len(queue) # 0
      BY <1>0, <2>1, <2>4, TailAppend, EmptySeq
    <3>2. First' = First + 1 /\ lost' = lost \cup {First}
      BY <1>0, <2>1, <2>2, <3>1 DEF First, Size
    <3> QED BY <1>0, <2>0, <2>1, <3>1, <3>2 DEF Arrival, Size
  <2>5. CASE queue' = queue /\ waiting' = <<e>>
    <3>1. Len(queue') = Len(queue) /\ Len(waiting') = 1
      BY <2>5
    <3>2. First' = First /\ lost' = lost
      BY <1>0, <2>1, <2>2, <3>1 DEF First, Size
    <3> QED BY <1>0, <2>0, <2>1, <3>1, <3>2 DEF Arrival, Size
  <2> QED BY <2>1, <2>3, <2>4, <2>5
<1>2. CASE PutResumes \/ PutTimesOut
  <2>0. HandKept
    BY <1>2 DEF PutResumes, PutTimesOut, HandKept, InEmission
  <2> DEFINE e == Head(waiting)
  <2>1. /\ e \in Event /\ waiting = <<e>> /\ waiting' = <<>>
        /\ sent' = sent /\ taken' = taken
        /\ \/ queue' = Append(queue, e)
           \/ queue # <<>> /\ queue' = Append(Tail(queue), e)
    BY <1>0, <1>2, PutCases DEF PutResumes, PutTimesOut
  <2> HIDE DEF e
  <2>2. Len(waiting) = 1 /\ Len(waiting') = 0
    BY <2>1
  <2>3. lost' = lost \cup ((First..(sent - Len(waiting))) \
                           (First'..(sent' - Len(waiting'))))
    BY <1>2, DroppedInterval DEF PutResumes, PutTimesOut
  <2>4. CASE queue' = Append(queue, e)
    <3>1. Len(queue') = Len(queue) + 1
      BY <1>0, <2>1, <2>4, AppendProperties
    <3>2. First' = First /\ lost' = lost
      BY <1>0, <2>1, <2>2, <2>3, <3>1 DEF First, Size
    <3> QED BY <1>0, <2>0, <2>1, <2>2, <3>1, <3>2 DEF Silence, Size
  <2>5. CASE queue # <<>> /\ queue' = Append(Tail(queue), e)
    <3>1. Len(queue') = Len(queue) /\ Len(queue) # 0
      BY <1>0, <2>1, <2>5, TailAppend, EmptySeq
    <3>2. First' = First + 1 /\ lost' = lost \cup {First}
      BY <1>0, <2>1, <2>2, <2>3, <3>1 DEF First, Size
    <3> QED BY <1>0, <2>0, <2>1, <2>2, <3>1, <3>2 DEF Loss, Size
  <2> QED BY <2>1, <2>4, <2>5
<1>3. CASE Get
  <2>1. /\ queue # <<>> /\ Len(queue) # 0 /\ queue' = Tail(queue) /\ waiting' = waiting
        /\ taken' = Head(queue).n /\ sent' = sent /\ lost' = lost
    BY <1>0, <1>3, EmptySeq DEF Get
  <2>2. Head(queue) = queue[1] /\ Len(queue') = Len(queue) - 1
    BY <1>0, <2>1, HeadTailProperties
  <2>3. taken' = First
    BY <1>0, <2>1, <2>2 DEF Inv, QueueNumbers, First, Size
  <2>4. InEmission = {} /\ InEmission' = {First} /\ delivered' = delivered
    BY <1>3, <2>3 DEF Get, InEmission
  <2> QED BY <1>0, <2>1, <2>2, <2>3, <2>4 DEF Delivery, Size
<1>4. CASE Emitted
  <2>1. HandDone
    BY <1>4 DEF Emitted, HandDone, InEmission
  <2> QED BY <1>4, <2>1 DEF Emitted, reader, Silence, Size
<1>5. CASE Refreshed \/ Reported \/ UNCHANGED vars
  <2>1. HandKept
    BY <1>5 DEF Refreshed, Reported, vars, history, HandKept, InEmission
  <2> QED BY <1>5, <2>1 DEF Refreshed, Reported, vars, reader, history, Silence, Size
<1> QED BY <1>1, <1>2, <1>3, <1>4, <1>5 DEF Next, Dispatch

(* The pending events of the FIFO are an interval.                          *)
Pending ==
  /\ Size \in Nat /\ Size <= QueueMax + 1
  /\ sent \in Nat /\ taken \in Nat /\ taken + Size <= sent
  /\ BacklogNumbers = First..sent
  /\ Cardinality(BacklogNumbers) = Size

LEMMA PendingInterval == Inv => Pending
<1> SUFFICES ASSUME Inv PROVE Pending
  OBVIOUS
<1>1. /\ BacklogNumbers = (sent - Size + 1)..sent
      /\ Len(queue) \in Nat /\ Len(waiting) \in Nat /\ sent \in Nat
  BY BacklogInterval DEF Size
<1>2. /\ Size \in Nat /\ Size <= QueueMax + 1 /\ taken \in Nat /\ taken + Size <= sent
  BY <1>1, QueueMaxAssumption, DeliveryAssumption DEF Size, Inv, TypeOK, TakenIsOlder
<1>3. Cardinality((sent - Size + 1)..sent) = Size
  <2> HIDE DEF Size
  <2>1. sent - Size + 1 \in Int /\ sent \in Int
    BY <1>1, <1>2
  <2>2. Cardinality((sent - Size + 1)..sent) =
          IF sent - Size + 1 > sent THEN 0 ELSE sent - (sent - Size + 1) + 1
    BY <2>1, FS_Interval
  <2> QED BY <1>1, <1>2, <2>2
<1> QED BY <1>1, <1>2, <1>3 DEF Pending, First

(* Queue, suspended put and dispatcher are a FIFO of QueueMax + 1 events    *)
(* that only ever loses its oldest event.                                   *)
THEOREM ImplementsLossyFifo == Safe => ImplementsFifo
<1>1. Init => Fifo!Init
  <2> SUFFICES ASSUME Init PROVE Fifo!Init
    OBVIOUS
  <2>1. Inv /\ Size = 0 /\ sent = 0 /\ taken = 0
    BY InitInv DEF Init, Size
  <2>2. BacklogNumbers = {}
    BY <2>1, PendingInterval DEF Pending, First
  <2> QED BY <2>1, <2>2 DEF Fifo!Init
<1>2. Inv /\ Pending /\ Pending' /\ QueueInterval /\ QueueInterval' /\ [Next]_vars =>
        [Fifo!BoundedNext]_(Fifo!vars)
  <2> SUFFICES ASSUME Inv, Pending, Pending', QueueInterval, QueueInterval', [Next]_vars
               PROVE  [Fifo!BoundedNext]_(Fifo!vars)
    OBVIOUS
  <2>1. /\ Size \in Nat /\ sent \in Nat /\ taken \in Nat /\ QueueMax \in Nat
        /\ BacklogNumbers = First..sent
        /\ Size' \in Nat /\ sent' \in Nat
        /\ BacklogNumbers' = First'..sent' /\ First = sent - Size + 1
        /\ First' = sent' - Size' + 1
    BY QueueMaxAssumption DEF Pending, First
  <2>2. Fifo!Cardinality(BacklogNumbers') <= QueueMax + 1
    <3>1. Cardinality(BacklogNumbers') <= QueueMax + 1
      BY DEF Pending
    <3>2. Fifo!Cardinality(BacklogNumbers') = Cardinality(BacklogNumbers')
      BY DEF Cardinality, Fifo!Cardinality
    <3> QED BY <3>1, <3>2
  <2>3. Size > 0 => Fifo!Oldest(First)
    BY <2>1 DEF Fifo!Oldest
  <2>4. CASE Arrival
    <3>1. CASE Size' = Size + 1
      <4>1. BacklogNumbers' = BacklogNumbers \cup {sent + 1}
        BY <2>1, <2>4, <3>1 DEF Arrival
      <4> QED BY <2>2, <2>4, <4>1 DEF Arrival, Fifo!BoundedNext, Fifo!Next, Fifo!Send
    <3>2. CASE Size' = Size /\ Size > 0
      <4>1. BacklogNumbers' = (BacklogNumbers \ {First}) \cup {sent + 1}
        BY <2>1, <2>4, <3>2 DEF Arrival
      <4>2. First \in BacklogNumbers
        BY <2>1, <3>2
      <4> QED BY <2>2, <2>3, <2>4, <3>2, <4>1, <4>2
              DEF Arrival, Fifo!BoundedNext, Fifo!Next, Fifo!Send
    <3> QED BY <2>4, <3>1, <3>2 DEF Arrival
  <2>5. CASE Loss
    <3>1. /\ BacklogNumbers' = BacklogNumbers \ {First}
          /\ First \in BacklogNumbers /\ First # sent
      BY <2>1, <2>5 DEF Loss
    <3> QED BY <2>1, <2>2, <2>3, <2>5, <3>1 DEF Loss, Fifo!BoundedNext, Fifo!Next, Fifo!Lose
  <2>6. CASE Delivery
    <3>1. /\ BacklogNumbers' = BacklogNumbers \ {First}
          /\ First \in BacklogNumbers
      BY <2>1, <2>6 DEF Delivery
    <3> QED BY <2>1, <2>2, <2>3, <2>6, <3>1
            DEF Delivery, Fifo!BoundedNext, Fifo!Next, Fifo!Take
  <2>7. CASE Silence
    BY <2>1, <2>7 DEF Silence, Fifo!vars
  <2> QED BY <2>4, <2>5, <2>6, <2>7, StepShapes
<1> QED BY <1>1, <1>2, InvariantHolds, PendingInterval, QueueIsInterval, PTL DEF Safe, ImplementsFifo, Fifo!Spec

-----------------------------------------------------------------------------
(* Every event is accounted for.                                            *)

(* What was dropped is older than what waits, and of the older ones each    *)
(* was passed by the dispatcher or dropped.                                 *)
LostIsOlder == \A n \in lost : n \in Nat /\ n < First

Accounted == \A n \in Nat : n > 0 /\ n < First => n <= taken \/ n \in lost

LEMMA AccountedStep ==
  ASSUME Pending, Pending', LostIsOlder, Accounted,
         Arrival \/ Loss \/ Delivery \/ Silence
  PROVE  LostIsOlder' /\ Accounted'
<1>0. /\ Size \in Nat /\ sent \in Nat /\ First = sent - Size + 1
      /\ Size' \in Nat /\ sent' \in Nat /\ First' = sent' - Size' + 1
  BY DEF Pending, First
<1>1. taken \in Nat /\ taken' \in Nat /\ First \in Int /\ First' \in Int /\ taken < First
  <2>1. taken \in Nat /\ taken' \in Nat /\ taken + Size <= sent
    BY DEF Pending
  <2> QED BY <1>0, <2>1
<1>2. CASE (Arrival \/ Loss) /\ lost' = lost \cup {First} /\ First' = First + 1 /\ taken' = taken
  <2>1. LostIsOlder'
    BY <1>1, <1>2 DEF LostIsOlder
  <2>2. ASSUME NEW n \in Nat, n > 0, n < First' PROVE n <= taken' \/ n \in lost'
    <3>1. n < First \/ n = First
      BY <1>1, <1>2, <2>2
    <3> QED BY <1>2, <2>2, <3>1 DEF Accounted
  <2> QED BY <2>1, <2>2 DEF Accounted
<1>3. CASE (Arrival \/ Silence) /\ lost' = lost /\ First' = First /\ taken' = taken
  BY <1>1, <1>3 DEF LostIsOlder, Accounted
<1>4. CASE Delivery
  <2>1. lost' = lost /\ First' = First + 1 /\ taken' = First
    BY <1>0, <1>4 DEF Delivery
  <2>2. LostIsOlder'
    BY <1>1, <2>1 DEF LostIsOlder
  <2>3. ASSUME NEW n \in Nat, n > 0, n < First' PROVE n <= taken' \/ n \in lost'
    <3>1. CASE n < First
      <4>1. n <= taken \/ n \in lost
        BY <2>3, <3>1 DEF Accounted
      <4> QED BY <1>1, <2>1, <4>1
    <3>2. CASE n = First
      BY <1>1, <2>1, <3>2
    <3> QED BY <1>1, <2>1, <2>3, <3>1, <3>2
  <2> QED BY <2>2, <2>3 DEF Accounted
<1>5. ASSUME Arrival
      PROVE  \/ lost' = lost \cup {First} /\ First' = First + 1 /\ taken' = taken
             \/ lost' = lost /\ First' = First /\ taken' = taken
  <2>1. sent' = sent + 1 /\ taken' = taken
    BY <1>5 DEF Arrival
  <2>2. CASE Size' = Size + 1 /\ lost' = lost
    <3>1. First' = First
      BY <1>0, <2>1, <2>2
    <3> QED BY <2>1, <2>2, <3>1
  <2>3. CASE Size' = Size /\ lost' = lost \cup {First}
    <3>1. First' = First + 1
      BY <1>0, <2>1, <2>3
    <3> QED BY <2>1, <2>3, <3>1
  <2> QED BY <1>5, <2>2, <2>3 DEF Arrival
<1>6. Loss => lost' = lost \cup {First} /\ First' = First + 1 /\ taken' = taken
  BY <1>0 DEF Loss
<1>7. Silence => lost' = lost /\ First' = First /\ taken' = taken
  BY <1>0 DEF Silence
<1> QED BY <1>2, <1>3, <1>4, <1>5, <1>6, <1>7

(* Of the events older than those that wait, each is with the listeners, or *)
(* has been, or was dropped, and only one of these is true of it.           *)
Fates ==
  /\ InEmission \cup delivered \cup lost = {n \in Nat : n > 0 /\ n < First}
  /\ InEmission \cap delivered = {}
  /\ InEmission \cap lost = {}
  /\ delivered \cap lost = {}

LEMMA FatesStep ==
  ASSUME Pending, Pending', Fates, Arrival \/ Loss \/ Delivery \/ Silence
  PROVE  Fates'
<1> DEFINE older == {n \in Nat : n > 0 /\ n < First}
<1>0. /\ Size \in Nat /\ sent \in Nat /\ First = sent - Size + 1
      /\ Size' \in Nat /\ sent' \in Nat /\ First' = sent' - Size' + 1
      /\ Size <= sent /\ First \in Nat /\ First > 0
  BY DEF Pending, First
<1>1. ASSUME First' = First + 1
      PROVE  {n \in Nat : n > 0 /\ n < First'} = older \cup {First} /\ First \notin older
  <2>1. PICK a \in Nat : a = First /\ a > 0
    BY <1>0
  <2>2. {n \in Nat : n > 0 /\ n < a + 1} = {n \in Nat : n > 0 /\ n < a} \cup {a}
    <3>1. \A n \in Nat : n < a + 1 <=> n < a \/ n = a
      OBVIOUS
    <3> QED BY <2>1, <3>1
  <2>3. a \notin {n \in Nat : n > 0 /\ n < a}
    OBVIOUS
  <2>4. First' = a + 1
    BY <1>1, <2>1
  <2> QED BY <2>1, <2>2, <2>3, <2>4
<1>2. ASSUME HandKept, lost' = lost \cup {First}, First' = First + 1 PROVE Fates'
  BY <1>1, <1>2 DEF Fates, HandKept
<1>3. ASSUME HandKept, lost' = lost, First' = First PROVE Fates'
  BY <1>3 DEF Fates, HandKept
<1>4. CASE Arrival
  <2>1. HandKept /\ sent' = sent + 1
    BY <1>4 DEF Arrival
  <2>2. CASE Size' = Size + 1 /\ lost' = lost
    BY <1>0, <1>3, <2>1, <2>2
  <2>3. CASE Size' = Size /\ lost' = lost \cup {First}
    BY <1>0, <1>2, <2>1, <2>3
  <2> QED BY <1>4, <2>2, <2>3 DEF Arrival
<1>5. CASE Loss
  <2>1. HandKept /\ lost' = lost \cup {First} /\ sent' = sent /\ Size' = Size - 1
    BY <1>5 DEF Loss
  <2> QED BY <1>0, <1>2, <2>1
<1>6. CASE Delivery
  <2>1. /\ InEmission = {} /\ InEmission' = {First} /\ delivered' = delivered /\ lost' = lost
        /\ sent' = sent /\ Size' = Size - 1
    BY <1>6 DEF Delivery
  <2>2. First' = First + 1
    BY <1>0, <2>1
  <2> QED BY <1>1, <2>1, <2>2 DEF Fates
<1>7. CASE Silence
  <2>1. lost' = lost /\ First' = First
    BY <1>0, <1>7 DEF Silence
  <2>2. CASE HandDone
    BY <2>1, <2>2 DEF Fates, HandDone
  <2> QED BY <1>3, <1>7, <2>1, <2>2 DEF Silence
<1> QED BY <1>4, <1>5, <1>6, <1>7

(* No event vanishes: each that arrived waits, is with the listeners, has   *)
(* been with all of them, or was dropped, and only one of these, whenever   *)
(* timeouts and the dispatcher interleave.                                  *)
THEOREM AllAccounted == Safe => []EveryEventAccounted
<1>1. Init => Fates
  <2> SUFFICES ASSUME Init PROVE Fates
    OBVIOUS
  <2>1. First = 1 /\ lost = {} /\ delivered = {} /\ InEmission = {}
    BY DEF Init, First, Size, InEmission
  <2> QED BY <2>1 DEF Fates
<1>2. /\ Inv /\ Pending /\ Pending' /\ QueueInterval /\ QueueInterval' /\ [Next]_vars
      /\ Fates
      => Fates'
  BY StepShapes, FatesStep
<1>3. Pending /\ Fates => EveryEventAccounted
  <2> SUFFICES ASSUME Pending, Fates PROVE EveryEventAccounted
    OBVIOUS
  <2>1. /\ Size \in Nat /\ sent \in Nat /\ First \in Nat /\ First > 0 /\ First <= sent + 1
        /\ BacklogNumbers = First..sent
    BY DEF Pending, First
  <2>2. InEmission \cup delivered \cup lost = {n \in Nat : n > 0 /\ n < First}
    BY DEF Fates
  <2> DEFINE gone == InEmission \cup delivered \cup lost
             fates == <<BacklogNumbers, InEmission, delivered, lost>>
  <2>3. BacklogNumbers \cup gone = 1..sent
    BY <2>1, <2>2
  <2>4. BacklogNumbers \cap gone = {}
    BY <2>1, <2>2
  <2>5. ASSUME NEW i \in 1..4, NEW j \in 1..4, i # j PROVE fates[i] \cap fates[j] = {}
    <3>1. /\ fates[1] = BacklogNumbers /\ fates[2] = InEmission
          /\ fates[3] = delivered /\ fates[4] = lost
      OBVIOUS
    <3>2. i \in {1, 2, 3, 4} /\ j \in {1, 2, 3, 4}
      OBVIOUS
    <3> HIDE DEF fates
    <3> QED BY <2>4, <2>5, <3>1, <3>2 DEF Fates
  <2> QED BY <2>3, <2>5 DEF EveryEventAccounted
<1> QED BY <1>1, <1>2, <1>3, InvariantHolds, PendingInterval, QueueIsInterval, PTL DEF Safe

-----------------------------------------------------------------------------
(* A CONFIGCHANGE that is delivered is followed by a refresh.               *)

(* The events that wait.                                                    *)
EventsOf(q) == {q[i] : i \in 1..Len(q)}
Waiting == EventsOf(queue) \cup EventsOf(waiting)

(* Events say truly whether they are CONFIGCHANGEs.                         *)
WaitingKnown == \A e \in Waiting : e.n \in 1..sent /\ (e.config <=> e.n \in configs)

InHandKnown ==
  dpc = "emit" => inHand.n = taken /\ (inHand.config <=> taken \in configs)

ConfigsInv ==
  /\ configs \subseteq 1..sent
  /\ WaitingKnown
  /\ InHandKnown
  /\ refreshed <= taken

LEMMA AppendedEvents ==
  ASSUME NEW q \in Seq(Event), NEW e \in Event
  PROVE  /\ EventsOf(Append(q, e)) \subseteq EventsOf(q) \cup {e}
         /\ q # <<>> => EventsOf(Append(Tail(q), e)) \subseteq EventsOf(q) \cup {e}
         /\ q # <<>> => EventsOf(Tail(q)) \subseteq EventsOf(q) /\ Head(q) \in EventsOf(q)
<1>0. Len(q) \in Nat /\ (q # <<>> => Len(q) # 0)
  BY EmptySeq, LenProperties
<1>1. EventsOf(Append(q, e)) \subseteq EventsOf(q) \cup {e}
  <2>1. /\ Len(Append(q, e)) = Len(q) + 1 /\ Append(q, e)[Len(q) + 1] = e
        /\ \A i \in 1..Len(q) : Append(q, e)[i] = q[i]
    BY AppendProperties
  <2>2. ASSUME NEW i \in 1..(Len(q) + 1) PROVE Append(q, e)[i] \in EventsOf(q) \cup {e}
    <3>1. i \in 1..Len(q) \/ i = Len(q) + 1
      BY <1>0
    <3> QED BY <2>1, <3>1 DEF EventsOf
  <2> QED BY <2>1, <2>2 DEF EventsOf
<1>2. ASSUME q # <<>> PROVE EventsOf(Append(Tail(q), e)) \subseteq EventsOf(q) \cup {e}
  <2> DEFINE p == Append(Tail(q), e)
  <2>1. /\ Len(p) = Len(q) /\ p[Len(q)] = e
        /\ \A i \in 1..(Len(q) - 1) : p[i] = q[i + 1]
    BY <1>2, TailAppend
  <2> HIDE DEF p
  <2>2. ASSUME NEW i \in 1..Len(q) PROVE p[i] \in EventsOf(q) \cup {e}
    <3>1. CASE i = Len(q)
      BY <2>1, <3>1
    <3>2. CASE i # Len(q)
      <4>1. i \in 1..(Len(q) - 1) /\ i + 1 \in 1..Len(q)
        BY <1>0, <3>2
      <4> QED BY <2>1, <4>1 DEF EventsOf
    <3> QED BY <3>1, <3>2
  <2>3. EventsOf(p) \subseteq EventsOf(q) \cup {e}
    BY <2>1, <2>2 DEF EventsOf
  <2> QED BY <2>3 DEF p
<1>3. ASSUME q # <<>> PROVE EventsOf(Tail(q)) \subseteq EventsOf(q) /\ Head(q) \in EventsOf(q)
  <2>1. /\ Len(Tail(q)) = Len(q) - 1 /\ Head(q) = q[1]
        /\ \A i \in 1..Len(Tail(q)) : Tail(q)[i] = q[i + 1]
    BY <1>3, HeadTailProperties
  <2>2. ASSUME NEW i \in 1..Len(Tail(q)) PROVE Tail(q)[i] \in EventsOf(q)
    <3>1. i + 1 \in 1..Len(q)
      BY <1>0, <2>1
    <3> QED BY <2>1, <3>1 DEF EventsOf
  <2>3. 1 \in 1..Len(q)
    BY <1>0, <1>3
  <2> QED BY <2>1, <2>2, <2>3 DEF EventsOf
<1> QED BY <1>1, <1>2, <1>3

LEMMA SingleEvents ==
  ASSUME NEW e
  PROVE  EventsOf(<<e>>) = {e} /\ EventsOf(<<>>) = {}
<1>1. Len(<<e>>) = 1 /\ <<e>>[1] = e /\ Len(<<>>) = 0
  OBVIOUS
<1> QED BY <1>1 DEF EventsOf

(* Only a line makes an event wait that did not wait before.                *)
LEMMA WaitingSteps ==
  ASSUME TypeOK
  PROVE  /\ \A config \in BOOLEAN : HandleLine(config) =>
              Waiting' \subseteq Waiting \cup {[n |-> sent + 1, config |-> config]}
         /\ PutResumes \/ PutTimesOut => Waiting' \subseteq Waiting
         /\ Get => Waiting' \subseteq Waiting /\ inHand' \in Waiting
<1>0. queue \in Seq(Event)
  BY DEF TypeOK
<1>1. ASSUME NEW config \in BOOLEAN, HandleLine(config)
      PROVE  Waiting' \subseteq Waiting \cup {[n |-> sent + 1, config |-> config]}
  <2> DEFINE e == [n |-> sent + 1, config |-> config]
  <2>1. /\ e \in Event /\ waiting = <<>>
        /\ \/ queue' = Append(queue, e) /\ waiting' = <<>>
           \/ queue # <<>> /\ queue' = Append(Tail(queue), e) /\ waiting' = <<>>
           \/ queue' = queue /\ waiting' = <<e>>
    BY <1>1, HandleLineCases
  <2> HIDE DEF e
  <2>2. Waiting' = EventsOf(queue') \cup EventsOf(waiting')
    BY DEF Waiting, EventsOf
  <2>3. EventsOf(queue') \cup EventsOf(waiting') \subseteq EventsOf(queue) \cup {e}
    BY <1>0, <2>1, AppendedEvents, SingleEvents
  <2>4. Waiting' \subseteq Waiting \cup {e}
    BY <2>2, <2>3 DEF Waiting
  <2> QED BY <2>4 DEF e
<1>2. ASSUME PutResumes \/ PutTimesOut PROVE Waiting' \subseteq Waiting
  <2> DEFINE e == Head(waiting)
  <2>1. /\ e \in Event /\ waiting = <<e>> /\ waiting' = <<>>
        /\ \/ queue' = Append(queue, e)
           \/ queue # <<>> /\ queue' = Append(Tail(queue), e)
    BY <1>2, PutCases
  <2> HIDE DEF e
  <2>2. Waiting' = EventsOf(queue') \cup EventsOf(waiting')
    BY DEF Waiting, EventsOf
  <2>3. EventsOf(queue') \cup EventsOf(waiting') \subseteq EventsOf(queue) \cup {e}
    BY <1>0, <2>1, AppendedEvents, SingleEvents
  <2>4. EventsOf(waiting) = {e}
    BY <2>1, SingleEvents
  <2> QED BY <2>2, <2>3, <2>4 DEF Waiting
<1>3. ASSUME Get PROVE Waiting' \subseteq Waiting /\ inHand' \in Waiting
  <2>1. queue # <<>> /\ queue' = Tail(queue) /\ waiting' = waiting /\ inHand' = Head(queue)
    BY <1>3 DEF Get
  <2>2. EventsOf(queue') \subseteq EventsOf(queue) /\ Head(queue) \in EventsOf(queue)
    <3>1. \A e \in Event :
            EventsOf(Tail(queue)) \subseteq EventsOf(queue) /\ Head(queue) \in EventsOf(queue)
      BY <1>0, <2>1, AppendedEvents
    <3>2. Head(queue) \in Event
      BY <1>0, <2>1, HeadTailProperties
    <3> QED BY <2>1, <3>1, <3>2
  <2>3. Waiting' = EventsOf(queue') \cup EventsOf(waiting')
    BY DEF Waiting, EventsOf
  <2> QED BY <2>1, <2>2, <2>3 DEF Waiting
<1> QED BY <1>1, <1>2, <1>3

(* Every event that waits arrived, and none of them has been handed over.   *)
LEMMA WaitingNumbered ==
  Inv => /\ \A e \in Waiting : e.n \in 1..sent
         /\ taken \in Nat /\ sent \in Nat /\ taken <= sent
<1> SUFFICES ASSUME Inv
             PROVE  /\ \A e \in Waiting : e.n \in 1..sent
                    /\ taken \in Nat /\ sent \in Nat /\ taken <= sent
  OBVIOUS
<1>1. /\ queue \in Seq(Event) /\ Len(queue) \in Nat /\ Len(waiting) \in Nat
      /\ waiting \in Seq(Event) /\ sent \in Nat /\ taken \in Nat
      /\ taken + Len(queue) + Len(waiting) <= sent
  BY DeliveryAssumption, LenProperties DEF Inv, TypeOK, TakenIsOlder
<1>2. ASSUME NEW i \in 1..Len(queue) PROVE queue[i].n \in 1..sent
  <2>1. queue[i].n = sent - Len(waiting) - Len(queue) + i
    BY DEF Inv, QueueNumbers
  <2> QED BY <1>1, <2>1
<1>3. ASSUME NEW i \in 1..Len(waiting) PROVE waiting[i].n \in 1..sent
  <2>1. waiting[i].n = sent
    BY DEF Inv, WaitingNumbers
  <2> QED BY <1>1, <2>1
<1> QED BY <1>1, <1>2, <1>3 DEF Waiting, EventsOf

LEMMA ConfigsStep ==
  ASSUME Inv, Inv', ConfigsInv, [Next]_vars
  PROVE  ConfigsInv'
<1>0. /\ \A e \in Waiting : e.n \in 1..sent
      /\ taken \in Nat /\ sent \in Nat /\ taken <= sent /\ refreshed \in Nat
      /\ refreshed <= taken /\ configs \subseteq 1..sent /\ TypeOK
  BY WaitingNumbered, DeliveryAssumption DEF Inv, TypeOK, ConfigsInv
<1>1. ASSUME NEW config \in BOOLEAN, HandleLine(config) PROVE ConfigsInv'
  <2> DEFINE e == [n |-> sent + 1, config |-> config]
  <2>1. /\ sent' = sent + 1 /\ UNCHANGED <<dpc, inHand, taken, refreshed>>
        /\ configs' = IF config THEN configs \cup {sent + 1} ELSE configs
        /\ Waiting' \subseteq Waiting \cup {e}
    BY <1>0, <1>1, WaitingSteps DEF HandleLine
  <2>2. configs' \subseteq 1..sent' /\ refreshed' <= taken'
    BY <1>0, <2>1
  <2>3. \A n \in 1..sent : n \in configs' <=> n \in configs
    BY <1>0, <2>1
  <2>4. WaitingKnown'
    <3>1. ASSUME NEW f \in Waiting PROVE f.n \in 1..sent' /\ (f.config <=> f.n \in configs')
      <4>1. f.n \in 1..sent /\ (f.config <=> f.n \in configs)
        BY DEF ConfigsInv, WaitingKnown
      <4> QED BY <1>0, <2>1, <2>3, <4>1
    <3>2. e.n \in 1..sent' /\ (e.config <=> e.n \in configs')
      <4>1. e.n = sent + 1 /\ e.config = config /\ sent + 1 \notin configs
        BY <1>0
      <4> QED BY <1>0, <2>1, <4>1
    <3> HIDE DEF e
    <3> QED BY <2>1, <3>1, <3>2 DEF WaitingKnown
  <2>5. InHandKnown'
    <3>1. taken \in configs' <=> taken \in configs
      BY <1>0, <2>1
    <3> QED BY <2>1, <3>1 DEF ConfigsInv, InHandKnown
  <2> QED BY <2>2, <2>4, <2>5 DEF ConfigsInv
<1>2. ASSUME PutResumes \/ PutTimesOut PROVE ConfigsInv'
  <2>1. Waiting' \subseteq Waiting /\ UNCHANGED <<dpc, inHand, sent, configs, taken, refreshed>>
    BY <1>0, <1>2, WaitingSteps DEF PutResumes, PutTimesOut
  <2> QED BY <2>1 DEF ConfigsInv, WaitingKnown, InHandKnown
<1>3. ASSUME Get PROVE ConfigsInv'
  <2>1. /\ Waiting' \subseteq Waiting /\ inHand' \in Waiting
        /\ UNCHANGED <<sent, configs, refreshed>>
        /\ taken' = inHand'.n
    BY <1>0, <1>3, WaitingSteps DEF Get
  <2>2. taken' >= taken
    <3>1. Len(queue) # 0 /\ taken' = queue[1].n /\ queue \in Seq(Event)
      BY <1>0, <1>3, HeadTailProperties, EmptySeq DEF Get, TypeOK
    <3>2. /\ Len(queue) \in Nat /\ Len(waiting) \in Nat
          /\ taken + Len(queue) + Len(waiting) <= sent
      BY LenProperties DEF Inv, TypeOK, TakenIsOlder
    <3>3. queue[1].n = sent - Len(waiting) - Len(queue) + 1
      BY <3>1, <3>2 DEF Inv, QueueNumbers
    <3> QED BY <1>0, <3>1, <3>2, <3>3
  <2>3. refreshed' <= taken' /\ taken' \in 1..sent
    BY <1>0, <2>1, <2>2
  <2>4. WaitingKnown'
    BY <2>1 DEF ConfigsInv, WaitingKnown
  <2>5. InHandKnown'
    BY <2>1 DEF ConfigsInv, WaitingKnown, InHandKnown
  <2> QED BY <2>1, <2>3, <2>4, <2>5 DEF ConfigsInv
<1>4. ASSUME Emitted \/ Refreshed \/ Reported PROVE ConfigsInv'
  <2>1. /\ UNCHANGED <<queue, waiting, sent, configs, taken>> /\ dpc' # "emit"
        /\ refreshed' = refreshed \/ (dpc = "emit" /\ refreshed' = inHand.n)
    BY <1>4 DEF Emitted, Refreshed, Reported, reader, history
  <2>2. Waiting' = Waiting
    BY <2>1 DEF Waiting, EventsOf
  <2>3. refreshed' <= taken'
    BY <1>0, <2>1 DEF ConfigsInv, InHandKnown
  <2> QED BY <2>1, <2>2, <2>3 DEF ConfigsInv, WaitingKnown, InHandKnown
<1>5. CASE UNCHANGED vars
  <2>1. Waiting' = Waiting
    BY <1>5 DEF Waiting, EventsOf, vars
  <2> QED BY <1>5, <2>1 DEF vars, history, ConfigsInv, WaitingKnown, InHandKnown
<1> QED BY <1>1, <1>2, <1>3, <1>4, <1>5 DEF Next, Dispatch

LEMMA OwedStep ==
  ASSUME Inv, Pending, Accounted, ConfigsInv, RefreshOwed,
         QueueInterval, QueueInterval', [Next]_vars
  PROVE  RefreshOwed'
<1> SUFFICES ASSUME RefreshOnConfigChange, NEW c \in configs', c <= taken',
                    ~(dpc' = "emit" /\ inHand'.n = c)
             PROVE  c <= refreshed' \/ c \in lost'
  BY DEF RefreshOwed
<1>0. /\ taken \in Nat /\ sent \in Nat /\ taken <= sent /\ refreshed \in Nat
      /\ refreshed <= taken /\ configs \subseteq 1..sent /\ TypeOK
  BY WaitingNumbered, DeliveryAssumption DEF Inv, TypeOK, ConfigsInv
<1>1. CASE (\E config \in BOOLEAN : HandleLine(config)) \/ PutResumes \/ PutTimesOut
  <2>1. /\ UNCHANGED <<dpc, inHand, taken, refreshed>>
        /\ lost \subseteq lost' /\ configs' \subseteq configs \cup {sent + 1}
    BY <1>1 DEF HandleLine, PutResumes, PutTimesOut, ReaderBecomes
  <2>2. c \in configs
    BY <1>0, <2>1
  <2>3. c <= refreshed \/ c \in lost
    BY <2>1, <2>2 DEF RefreshOwed
  <2> QED BY <2>1, <2>3
<1>2. CASE Get
  <2>1. /\ dpc = "get" /\ dpc' = "emit" /\ taken' = inHand'.n /\ c # taken'
        /\ UNCHANGED <<configs, refreshed, lost>>
    BY <1>2 DEF Get
  <2>2. taken' = First
    <3>1. Len(queue) # 0 /\ taken' = queue[1].n /\ queue \in Seq(Event)
      BY <1>0, <1>2, HeadTailProperties, EmptySeq DEF Get, TypeOK
    <3>2. Len(queue) \in Nat /\ Len(waiting) \in Nat
      BY LenProperties DEF Inv, TypeOK
    <3> QED BY <1>0, <3>1, <3>2 DEF Inv, QueueNumbers, First, Size
  <2>3. c \in Nat /\ c > 0 /\ c < First
    <3>1. First \in Int
      BY <1>0 DEF First, Pending
    <3> QED BY <1>0, <2>1, <2>2, <3>1
  <2>4. c <= taken \/ c \in lost
    BY <2>3 DEF Accounted
  <2>5. c <= taken => c <= refreshed \/ c \in lost
    BY <2>1 DEF RefreshOwed
  <2> QED BY <2>1, <2>4, <2>5
<1>3. CASE Emitted
  <2>1. dpc = "emit" /\ inHand.n = taken /\ (inHand.config <=> taken \in configs)
    BY <1>3 DEF Emitted, ConfigsInv, InHandKnown
  <2>2. /\ UNCHANGED <<configs, taken, lost>>
        /\ refreshed' = (IF inHand.config /\ RefreshOnConfigChange THEN inHand.n ELSE refreshed)
    BY <1>3 DEF Emitted
  <2>3. CASE c = taken
    BY <1>0, <2>1, <2>2, <2>3
  <2>4. CASE c # taken
    <3>1. c <= refreshed \/ c \in lost
      BY <2>1, <2>2, <2>4 DEF RefreshOwed
    <3>2. refreshed <= refreshed' /\ refreshed' \in Nat /\ c \in Nat
      BY <1>0, <2>1, <2>2
    <3> QED BY <1>0, <2>2, <3>1, <3>2
  <2> QED BY <2>3, <2>4
<1>4. CASE Refreshed \/ Reported
  <2>1. dpc # "emit" /\ UNCHANGED <<configs, taken, lost, refreshed>>
    BY <1>4 DEF Refreshed, Reported, history
  <2> QED BY <2>1 DEF RefreshOwed
<1>5. CASE UNCHANGED vars
  BY <1>5 DEF vars, history, RefreshOwed
<1> QED BY <1>1, <1>2, <1>3, <1>4, <1>5 DEF Next, Dispatch

(* Once the listeners are done with a CONFIGCHANGE, a refresh has been      *)
(* started after it arrived, unless that event was dropped.                 *)
THEOREM ConfigChangesRefresh == Safe => []RefreshOwed
<1> DEFINE Gone == LostIsOlder /\ Accounted
<1>1. Init => Gone /\ ConfigsInv /\ RefreshOwed
  <2> SUFFICES ASSUME Init PROVE Gone /\ ConfigsInv /\ RefreshOwed
    OBVIOUS
  <2>1. First = 1 /\ lost = {}
    BY DEF Init, First, Size
  <2>2. Gone
    BY <2>1 DEF LostIsOlder, Accounted
  <2>3. Waiting = {}
    BY SingleEvents DEF Init, Waiting
  <2> QED BY <2>2, <2>3 DEF Init, ConfigsInv, WaitingKnown, InHandKnown, RefreshOwed
<1>2. /\ Inv /\ Inv' /\ Pending /\ Pending' /\ QueueInterval /\ QueueInterval' /\ [Next]_vars
      /\ Gone /\ ConfigsInv /\ RefreshOwed
      => Gone' /\ ConfigsInv' /\ RefreshOwed'
  <2> SUFFICES ASSUME Inv, Inv', Pending, Pending', QueueInterval, QueueInterval',
                      [Next]_vars, Gone, ConfigsInv, RefreshOwed
               PROVE  Gone' /\ ConfigsInv' /\ RefreshOwed'
    OBVIOUS
  <2>1. Gone'
    BY StepShapes, AccountedStep
  <2>2. ConfigsInv'
    BY ConfigsStep
  <2>3. RefreshOwed'
    BY OwedStep
  <2> QED BY <2>1, <2>2, <2>3
<1> HIDE DEF Gone
<1> QED BY <1>1, <1>2, InvariantHolds, PendingInterval, QueueIsInterval, PTL DEF Safe
=============================================================================
