------------------------ MODULE CameraEvents_proofs ------------------------
(* Theorems about CameraEvents, for any scores, masks and zones, and any    *)
(* number of pairs in a CLASSIFY line.                                      *)
EXTENDS CameraEvents, SequenceTheorems, WellFoundedInduction, TLAPS

(* A non-empty set of positions has a last one.                             *)
LEMMA LastOne ==
  ASSUME NEW n \in Nat, NEW E \in SUBSET (1..n), E # {}
  PROVE  \E i \in E : \A j \in E : j <= i
<1> DEFINE T == {n - i : i \in E}
           R == OpToRel(<, Nat)
<1>1. T \subseteq Nat /\ T # {}
  <2>1. \A i \in E : n - i \in T /\ n - i \in Nat
    OBVIOUS
  <2> QED BY <2>1
<1>2. IsWellFoundedOn(R, Nat)
  BY NatLessThanWellFounded
<1>3. \A x, y \in Nat : <<y, x>> \in R <=> y < x
  BY DEF OpToRel
<1>4. \A i \in E : n - i \in T /\ n - i \in Nat
  OBVIOUS
<1>5. \A t \in T : \E i \in E : t = n - i
  OBVIOUS
<1> HIDE DEF T, R
<1>6. PICK t \in T : \A s \in T : <<s, t>> \notin R
  BY <1>1, <1>2, WFMin
<1>7. PICK i \in E : t = n - i
  BY <1>5
<1>8. \A j \in E : ~(n - j < n - i)
  BY <1>1, <1>3, <1>4, <1>6, <1>7
<1> QED BY <1>8

-----------------------------------------------------------------------------
(* CLASSIFY: each class gets the last readable value of its label.          *)

LEMMA ScoresTyped ==
  ASSUME NEW pairs \in Pairs
  PROVE  /\ ParseClassify(pairs) \in Classes
         /\ \A l \in LabelSet : ParseClassify(pairs)[l] # ABSENT => Valued(pairs, l) # {}
<1>1. PICK n \in 0..MaxPairs : pairs \in [1..n -> Pair]
  BY DEF Pairs
<1>2. n \in Nat
  BY <1>1, EventsAssumption
<1>3. ASSUME NEW l \in LabelSet, Valued(pairs, l) # {}
      PROVE  ParseClassify(pairs)[l] \in Scores
  <2> DEFINE I == Valued(pairs, l)
             i == CHOOSE i \in I : \A j \in I : j <= i
  <2>1. I \in SUBSET (1..n)
    BY <1>1 DEF Valued
  <2>2. i \in I
    BY <1>2, <1>3, <2>1, LastOne
  <2>3. pairs[i].value \in Scores
    BY <1>1, <2>1, <2>2 DEF Valued, Pair
  <2> QED BY <1>3, <2>3 DEF ParseClassify
<1>4. \A l \in LabelSet : Valued(pairs, l) = {} => ParseClassify(pairs)[l] = ABSENT
  BY DEF ParseClassify
<1> QED BY <1>3, <1>4 DEF ParseClassify, Classes

(* max() finds a class with the top score if any class is present.          *)
LEMMA TopExists ==
  ASSUME NEW score \in [LabelSet -> Int], {l \in LabelSet : score[l] >= 0} # {}
  PROVE  \E l \in {l \in LabelSet : score[l] >= 0} :
           \A k \in {k \in LabelSet : score[k] >= 0} \ {l} :
             score[l] > score[k] \/ (score[l] = score[k] /\ Before(l, k))
<1>1. Before("human", "vehicle") /\ Before("human", "animal") /\ Before("vehicle", "animal")
  BY DEF Before, Labels
<1>2. score["human"] \in Int /\ score["vehicle"] \in Int /\ score["animal"] \in Int
  BY DEF LabelSet
<1> QED BY <1>1, <1>2 DEF LabelSet

LEMMA TopIsTop ==
  ASSUME NEW score \in [LabelSet -> Int]
  PROVE  LET present == {l \in LabelSet : score[l] >= 0}
         IN  IF TopClass(score) = "None" THEN present = {}
             ELSE /\ TopClass(score) \in present
                  /\ \A l \in present : score[l] <= score[TopClass(score)]
<1> DEFINE present == {l \in LabelSet : score[l] >= 0}
           Best(l) == \A k \in present \ {l} :
                        score[l] > score[k] \/ (score[l] = score[k] /\ Before(l, k))
<1>1. CASE present = {}
  BY <1>1 DEF TopClass
<1>2. CASE present # {}
  <2>1. \E l \in present : Best(l)
    BY <1>2, TopExists
  <2>2. TopClass(score) = CHOOSE l \in present : Best(l)
    BY <1>2 DEF TopClass
  <2>3. TopClass(score) \in present /\ Best(TopClass(score))
    <3> HIDE DEF Best, present
    <3> QED BY <2>1, <2>2
  <2>4. TopClass(score) # "None"
    BY <2>3 DEF LabelSet
  <2> QED BY <2>3, <2>4
<1> QED BY <1>1, <1>2

-----------------------------------------------------------------------------
(* TRIGGER: the reasons are the flags of the mask.                          *)

(* Induction over the natural numbers, for a set.                           *)
LEMMA SetInduction ==
  ASSUME NEW S \in SUBSET Nat, 0 \in S, \A n \in S : n + 1 \in S
  PROVE  S = Nat
<1> DEFINE T == Nat \ S
           R == OpToRel(<, Nat)
<1> SUFFICES ASSUME T # {} PROVE FALSE
  OBVIOUS
<1>1. IsWellFoundedOn(R, Nat)
  BY NatLessThanWellFounded
<1>2. \A x, y \in Nat : <<y, x>> \in R <=> y < x
  BY DEF OpToRel
<1> HIDE DEF R
<1>3. PICK t \in T : \A u \in T : <<u, t>> \notin R
  BY <1>1, WFMin
<1>4. t \in Nat /\ t # 0 /\ t - 1 \in Nat /\ t - 1 < t
  OBVIOUS
<1>5. t - 1 \notin T
  BY <1>2, <1>3, <1>4
<1>6. (t - 1) + 1 \in S
  BY <1>4, <1>5
<1> QED BY <1>4, <1>6

FlagSet == {Flags[i] : i \in DOMAIN Flags}

LEMMA FlagsAre ==
  /\ Len(Flags) = 17 /\ DOMAIN Flags = 1..17
  /\ \A i, j \in 1..17 : Flags[i] = Flags[j] => i = j
  /\ \A i \in 1..17 : Flags[i] \in FlagSet
  /\ ANIMAL \in FlagSet
<1>1. Len(Flags) = 17 /\ DOMAIN Flags = 1..17
  BY DEF Flags
<1>2. \A i, j \in 1..17 : Flags[i] = Flags[j] => i = j
  <2>1. \A i \in 1..16 : Flags[i + 1] = 2 * Flags[i]
    BY DEF Flags
  <2> QED BY DEF Flags
<1>3. \A i \in 1..17 : Flags[i] \in FlagSet
  BY <1>1 DEF FlagSet
<1>4. Flags[11] = ANIMAL
  BY DEF Flags, ANIMAL
<1> QED BY <1>1, <1>2, <1>3, <1>4

Hit(mask, i) == HasBit(mask, Flags[i]) /\ ~(Legacy /\ Flags[i] = ANIMAL)

(* What the n-th flag adds.                                                 *)
OneMore(mask, n, r) == IF Hit(mask, n) THEN Append(r, Renumbered(Flags[n])) ELSE r

(* The loop over the flags satisfies its equation.                          *)
LEMMA ParseIs ==
  ASSUME NEW mask
  PROVE  \E r : /\ r[0] = <<>>
                /\ \A n \in 1..17 : r[n] = OneMore(mask, n, r[n - 1])
                /\ ParseTriggerReasons(mask) = r[17]
<1> DEFINE Upon(g) == [n \in 0..17 |-> IF n = 0 THEN <<>> ELSE OneMore(mask, n, g[n - 1])]
           Right(g, m) == g[0] = <<>> /\ \A n \in 1..m : g[n] = OneMore(mask, n, g[n - 1])
           S == {m \in Nat : \E g : Right(g, m)}
<1>1. ParseTriggerReasons(mask) = (CHOOSE g : g = Upon(g))[17]
  <2> DEFINE Loop(g) == [n \in 0..17 |->
                IF n = 0 THEN <<>>
                ELSE IF ~HasBit(mask, Flags[n]) \/ (Legacy /\ Flags[n] = ANIMAL) THEN g[n - 1]
                ELSE Append(g[n - 1], Renumbered(Flags[n]))]
  <2>1. ParseTriggerReasons(mask) = (CHOOSE g : g = Loop(g))[17]
    BY FlagsAre, Zenon DEF ParseTriggerReasons
  <2>2. \A g : Loop(g) = Upon(g)
    BY DEF OneMore, Hit
  <2> HIDE DEF Loop, Upon
  <2>3. (CHOOSE g : g = Loop(g)) = (CHOOSE g : g = Upon(g))
    BY <2>2
  <2> QED BY <2>1, <2>3
<1>2. 0 \in S
  <2>1. Right([k \in {0} |-> <<>>], 0)
    OBVIOUS
  <2> QED BY <2>1
<1>3. ASSUME NEW n \in S PROVE n + 1 \in S
  <2>1. PICK g : Right(g, n)
    OBVIOUS
  <2> DEFINE h == [k \in 0..(n + 1) |-> IF k = n + 1 THEN OneMore(mask, n + 1, g[n]) ELSE g[k]]
  <2>2. n \in Nat /\ h[0] = g[0]
    OBVIOUS
  <2>3. ASSUME NEW k \in 1..(n + 1) PROVE h[k] = OneMore(mask, k, h[k - 1])
    <3>1. k - 1 \in 0..(n + 1) /\ k - 1 # n + 1 /\ h[k - 1] = g[k - 1]
      BY <2>2
    <3>2. CASE k = n + 1
      BY <2>2, <3>1, <3>2
    <3>3. CASE k # n + 1
      <4>1. k \in 1..n /\ h[k] = g[k]
        BY <2>2, <3>3
      <4> QED BY <2>1, <3>1, <4>1
    <3> QED BY <3>2, <3>3
  <2>4. Right(h, n + 1)
    BY <2>1, <2>2, <2>3
  <2> HIDE DEF h, Right
  <2> QED BY <2>2, <2>4
<1>4. 17 \in S
  <2> HIDE DEF S
  <2>1. S \in SUBSET Nat
    BY DEF S
  <2>2. S = Nat
    BY <1>2, <1>3, <2>1, SetInduction
  <2> QED BY <2>2
<1>5. \E g : g = Upon(g)
  <2>1. PICK g : Right(g, 17)
    BY <1>4
  <2> DEFINE h == [k \in 0..17 |-> g[k]]
  <2>2. \A k \in 1..17 : k - 1 \in 0..17 /\ h[k - 1] = g[k - 1]
    OBVIOUS
  <2>3. \A k \in 0..17 : h[k] = IF k = 0 THEN <<>> ELSE OneMore(mask, k, h[k - 1])
    <3>1. h[0] = <<>>
      BY <2>1
    <3>2. ASSUME NEW k \in 1..17 PROVE h[k] = OneMore(mask, k, h[k - 1])
      <4>1. h[k] = g[k] /\ h[k - 1] = g[k - 1]
        BY <2>2
      <4>2. g[k] = OneMore(mask, k, g[k - 1])
        BY <2>1
      <4> QED BY <4>1, <4>2
    <3>3. \A k \in 0..17 : k = 0 \/ k \in 1..17
      OBVIOUS
    <3> HIDE DEF h
    <3> QED BY <3>1, <3>2, <3>3
  <2>4. h = Upon(h)
    BY <2>3
  <2> QED BY <2>4
<1>6. PICK r : r = Upon(r) /\ ParseTriggerReasons(mask) = r[17]
  <2> HIDE DEF Upon
  <2> QED BY <1>1, <1>5
<1>7. Right(r, 17)
  BY <1>6
<1> QED BY <1>6, <1>7

Once(r) == \A i, j \in DOMAIN r : i # j => r[i] # r[j]

Elements(r) == {r[i] : i \in DOMAIN r}

(* The reasons after the first n flags.                                     *)
Good(r, mask, n) ==
  /\ r \in Seq(FlagSet) /\ Once(r)
  /\ Elements(r) = {Renumbered(Flags[i]) : i \in {i \in 1..n : Hit(mask, i)}}

LEMMA RenumberedOnce ==
  ASSUME NEW mask, NEW i \in 1..17, NEW j \in 1..17, i # j, Hit(mask, i), Hit(mask, j)
  PROVE  Renumbered(Flags[i]) # Renumbered(Flags[j])
<1>1. Flags[i] # Flags[j]
  BY FlagsAre
<1> QED BY <1>1 DEF Renumbered, Hit

LEMMA OneMoreGood ==
  ASSUME NEW mask, NEW n \in 0..16, NEW r, Good(r, mask, n)
  PROVE  Good(OneMore(mask, n + 1, r), mask, n + 1)
<1>0. n + 1 \in 1..17 /\ 1..(n + 1) = (1..n) \cup {n + 1}
  OBVIOUS
<1>1. CASE ~Hit(mask, n + 1)
  <2>1. {i \in 1..(n + 1) : Hit(mask, i)} = {i \in 1..n : Hit(mask, i)}
    BY <1>0, <1>1
  <2> QED BY <1>1, <2>1 DEF OneMore, Good
<1>2. CASE Hit(mask, n + 1)
  <2>1. PICK e : e = Renumbered(Flags[n + 1])
    OBVIOUS
  <2>2. e \in FlagSet
    BY <1>0, <2>1, FlagsAre DEF Renumbered
  <2>3. PICK s : s = Append(r, e)
    OBVIOUS
  <2>4. /\ r \in Seq(FlagSet) /\ s \in Seq(FlagSet) /\ Len(s) = Len(r) + 1 /\ s[Len(r) + 1] = e
        /\ \A i \in 1..Len(r) : s[i] = r[i]
    BY <2>2, <2>3 DEF Good
  <2>5. e \notin Elements(r)
    <3>1. \A i \in 1..n : Hit(mask, i) => Renumbered(Flags[i]) # e
      BY <1>0, <1>2, <2>1, RenumberedOnce
    <3> QED BY <3>1 DEF Good
  <2>6. DOMAIN r = 1..Len(r) /\ DOMAIN s = 1..(Len(r) + 1) /\ Len(r) \in Nat
    BY <2>4
  <2>7. Once(s)
    <3>1. \A i \in 1..Len(r) : r[i] # e
      BY <2>5, <2>6 DEF Elements
    <3>2. \A i, j \in 1..Len(r) : i # j => r[i] # r[j]
      BY <2>6 DEF Good, Once
    <3>3. \A i \in 1..(Len(r) + 1) : i \in 1..Len(r) \/ i = Len(r) + 1
      BY <2>6
    <3> QED BY <2>4, <2>6, <3>1, <3>2, <3>3 DEF Once
  <2>8. Elements(s) = Elements(r) \cup {e}
    BY <2>4, <2>6 DEF Elements
  <2>9. Elements(s) = {Renumbered(Flags[i]) : i \in {i \in 1..(n + 1) : Hit(mask, i)}}
    BY <1>0, <1>2, <2>1, <2>8 DEF Good
  <2> QED BY <1>2, <2>1, <2>3, <2>4, <2>7, <2>9 DEF OneMore, Good
<1> QED BY <1>1, <1>2

(* What a mask is parsed to is what its bits mean to the version, once each.*)
LEMMA ReasonsRight ==
  ASSUME NEW mask, major \in Versions
  PROVE  /\ ParseTriggerReasons(mask) \in Seq(FlagSet)
         /\ Once(ParseTriggerReasons(mask))
         /\ Elements(ParseTriggerReasons(mask))
              = {Meaning(bit, major) : bit \in MeaningfulBits(mask, major)}
<1>1. PICK r : /\ r[0] = <<>>
               /\ \A n \in 1..17 : r[n] = OneMore(mask, n, r[n - 1])
               /\ ParseTriggerReasons(mask) = r[17]
  BY ParseIs
<1> DEFINE S == {n \in Nat : n <= 17 => Good(r[n], mask, n)}
<1>2. S \in SUBSET Nat /\ 0 \in S
  <2>1. PICK none : none = <<>>
    OBVIOUS
  <2>2. none \in Seq(FlagSet) /\ DOMAIN none = {}
    BY <2>1, EmptySeq
  <2>3. Good(none, mask, 0)
    BY <2>2 DEF Good, Once, Elements
  <2> QED BY <1>1, <2>1, <2>3
<1>3. ASSUME NEW n \in S PROVE n + 1 \in S
  <2>1. n + 1 <= 17 => n \in 0..16 /\ n + 1 \in 1..17 /\ (n + 1) - 1 = n /\ Good(r[n], mask, n)
    OBVIOUS
  <2>2. n + 1 <= 17 => Good(OneMore(mask, n + 1, r[n]), mask, n + 1)
    BY <2>1, OneMoreGood
  <2>3. n + 1 <= 17 => r[n + 1] = OneMore(mask, n + 1, r[n])
    BY <1>1, <2>1
  <2> QED BY <2>2, <2>3
<1>4. Good(r[17], mask, 17)
  <2>1. S = Nat
    <3> HIDE DEF S
    <3> QED BY <1>2, <1>3, SetInduction
  <2>2. 17 \in S
    BY <2>1
  <2> QED BY <2>2
<1>5. {Renumbered(Flags[i]) : i \in {i \in 1..17 : Hit(mask, i)}}
        = {Meaning(bit, major) : bit \in MeaningfulBits(mask, major)}
  <2>1. Legacy <=> ~(major >= 6)
    BY DEF Legacy, Versions
  <2>2. \A flag : Renumbered(flag) = Meaning(flag, major)
    BY <2>1 DEF Renumbered, Meaning
  <2>3. MeaningfulBits(mask, major) = {Flags[i] : i \in {i \in 1..17 : Hit(mask, i)}}
    <3>1. \A i : Hit(mask, i) <=> HasBit(mask, Flags[i]) /\ (major >= 6 \/ Flags[i] # ANIMAL)
      BY <2>1 DEF Hit
    <3> QED BY <3>1, FlagsAre DEF MeaningfulBits
  <2> HIDE DEF Renumbered, Meaning, Hit, MeaningfulBits
  <2> QED BY <2>2, <2>3
<1> QED BY <1>1, <1>4, <1>5 DEF Good

-----------------------------------------------------------------------------
(* The invariant.  The shape is that of the record; the object is worked    *)
(* out of the scores; whatever was seen has its time.                       *)

Shape ==
  cam = [active |-> cam.active, when |-> cam.when, connected |-> cam.connected,
         reasons |-> cam.reasons, score |-> cam.score, object |-> cam.object]

Agree == cam.score \in Classes /\ cam.object = TopClass(cam.score)

Seen == cam.active \/ cam.reasons # <<>> \/ cam.object # "None" => cam.when.known

Offset ==
  /\ zone \in Zones /\ gmt \in Zones /\ ("zone" \in fresh => gmt = zone)
  /\ "version" \in fresh => major = version

Inv == Shape /\ Agree /\ Seen /\ Offset /\ NoStaleScores

LEMMA InitInv == Init => Inv
<1> SUFFICES ASSUME Init PROVE Inv
  OBVIOUS
<1>1. /\ cam.active = FALSE /\ cam.reasons = <<>> /\ cam.score = NoClasses
      /\ cam.object = "None" /\ Shape
  BY DEF Init, NewCamera, Shape
<1>2. TopClass(NoClasses) = "None"
  BY DEF TopClass, NoClasses, ABSENT
<1>3. NoClasses \in Classes
  BY DEF NoClasses, Classes
<1>4. Offset
  BY DEF Init, Offset
<1>5. NoStaleScores
  BY <1>1 DEF NoStaleScores, NoClasses
<1> QED BY <1>1, <1>2, <1>3, <1>4, <1>5 DEF Inv, Agree, Seen

(* A line that does not concern the scores.                                 *)
LEMMA KeptInv ==
  ASSUME Inv, UNCHANGED <<zone, version, gmt, major, fresh, mentioned>>,
         NEW active, NEW when, NEW online, NEW reasons,
         active \/ reasons # <<>> \/ cam.object # "None" => when.known,
         cam' = [active |-> active, when |-> when, connected |-> online,
                 reasons |-> reasons, score |-> cam.score, object |-> cam.object]
  PROVE  Inv'
<1>1. /\ cam'.active = active /\ cam'.when = when /\ cam'.reasons = reasons
      /\ cam'.score = cam.score /\ cam'.object = cam.object /\ Shape'
  BY DEF Shape
<1>2. Agree' /\ Seen' /\ NoStaleScores'
  BY <1>1 DEF Inv, Agree, Seen, NoStaleScores
<1>3. Offset'
  BY DEF Inv, Offset
<1> QED BY <1>1, <1>2, <1>3 DEF Inv

LEMMA MotionSeenInv ==
  ASSUME Inv, NEW h \in Header, NEW name, NEW mask, MotionSeen(h, name, mask)
  PROVE  Inv'
<1>1. UNCHANGED <<zone, version, gmt, major, fresh, mentioned>>
  BY DEF MotionSeen, info, server
<1>2. CASE Concerns(h)
  <2>1. cam' = [active |-> TRUE, when |-> When(h), connected |-> cam.connected,
                reasons |-> Reasons(mask), score |-> cam.score, object |-> cam.object]
    <3>1. cam' = [cam EXCEPT !.active = TRUE, !.when = When(h), !.reasons = Reasons(mask)]
      BY <1>2 DEF MotionSeen, Apply
    <3> QED BY <3>1 DEF Inv, Shape
  <2>2. When(h).known
    BY DEF When
  <2> QED BY <1>1, <2>1, <2>2, KeptInv
<1>3. CASE ~Concerns(h)
  <2>1. cam' = cam
    BY <1>3 DEF MotionSeen, Apply
  <2> QED BY <1>1, <2>1 DEF Inv, Shape, Agree, Seen, Offset, NoStaleScores
<1> QED BY <1>2, <1>3

LEMMA MotionEndsInv ==
  ASSUME Inv, NEW h \in Header, MotionEnds(h)
  PROVE  Inv'
<1>1. UNCHANGED <<zone, version, gmt, major, fresh, mentioned>>
  BY DEF MotionEnds, info, server, history
<1>2. CASE Concerns(h)
  <2>1. cam' = [active |-> FALSE, when |-> cam.when, connected |-> cam.connected,
                reasons |-> cam.reasons, score |-> cam.score, object |-> cam.object]
    <3>1. cam' = [cam EXCEPT !.active = FALSE]
      BY <1>2 DEF MotionEnds, Apply
    <3> QED BY <3>1 DEF Inv, Shape
  <2>2. cam.reasons # <<>> \/ cam.object # "None" => cam.when.known
    BY DEF Inv, Seen
  <2> QED BY <1>1, <2>1, <2>2, KeptInv
<1>3. CASE ~Concerns(h)
  <2>1. cam' = cam
    BY <1>3 DEF MotionEnds, Apply
  <2> QED BY <1>1, <2>1 DEF Inv, Shape, Agree, Seen, Offset, NoStaleScores
<1> QED BY <1>2, <1>3

LEMMA ConnectionInv ==
  ASSUME Inv, NEW h \in Header, NEW name, Connection(h, name)
  PROVE  Inv'
<1>1. UNCHANGED <<zone, version, gmt, major, fresh, mentioned>>
  BY DEF Connection, info, server, history
<1>2. CASE Concerns(h)
  <2>1. cam' = [active |-> cam.active, when |-> cam.when, connected |-> (name = "ONLINE"),
                reasons |-> cam.reasons, score |-> cam.score, object |-> cam.object]
    <3>1. cam' = [cam EXCEPT !.connected = (name = "ONLINE")]
      BY <1>2 DEF Connection, Apply
    <3> QED BY <3>1 DEF Inv, Shape
  <2>2. cam.active \/ cam.reasons # <<>> \/ cam.object # "None" => cam.when.known
    BY DEF Inv, Seen
  <2> QED BY <1>1, <2>1, <2>2, KeptInv
<1>3. CASE ~Concerns(h)
  <2>1. cam' = cam
    BY <1>3 DEF Connection, Apply
  <2> QED BY <1>1, <2>1 DEF Inv, Shape, Agree, Seen, Offset, NoStaleScores
<1> QED BY <1>2, <1>3

LEMMA RefreshedInv ==
  ASSUME Inv, NEW online, Refreshed(online)
  PROVE  Inv'
<1>1. /\ zone' = zone /\ gmt' = zone /\ mentioned' = mentioned
      /\ version' = version /\ major' = version
      /\ cam' = CopyRuntimeState(cam, online)
  BY DEF Refreshed, server
<1>2. /\ cam'.active = cam.active /\ cam'.when = cam.when /\ cam'.reasons = cam.reasons
      /\ cam'.score = cam.score /\ cam'.object = cam.object /\ Shape'
  BY <1>1 DEF CopyRuntimeState, NewCamera, Shape
<1>3. Agree' /\ Seen' /\ NoStaleScores'
  BY <1>1, <1>2 DEF Inv, Agree, Seen, NoStaleScores
<1>4. Offset'
  BY <1>1 DEF Inv, Offset
<1> QED BY <1>2, <1>3, <1>4 DEF Inv

LEMMA ConcernsTells == ASSUME NEW h \in Header PROVE Concerns(h) <=> Tells(h)
<1>1. h.camera \in {"0", "CAM0", "1", "X", "north"}
  BY DEF Header
<1>2. CASE h.camera \in {"0", "CAM0"}
  BY <1>2 DEF Concerns, Tells, CameraNumber, CAMERA
<1>3. CASE h.camera = "1"
  BY <1>3 DEF Concerns, Tells, CameraNumber, CAMERA
<1>4. CASE h.camera \notin {"0", "CAM0", "1"}
  <2>1. CameraNumber(h) = NOBODY
    BY <1>4, Zenon DEF CameraNumber
  <2> QED BY <1>4, <2>1 DEF Concerns, Tells, CAMERA, NOBODY
<1> QED BY <1>2, <1>3, <1>4

LEMMA ClassifiedInv ==
  ASSUME Inv, NEW h \in Header, NEW pairs \in Pairs, Classified(h, pairs)
  PROVE  Inv'
<1>1. UNCHANGED <<zone, version, gmt, major, fresh>>
  BY DEF Classified, info, server
<1>2. CASE Concerns(h)
  <2>1. PICK score : score = ParseClassify(pairs)
    OBVIOUS
  <2>2. PICK when : when = When(h)
    OBVIOUS
  <2>3. cam' = [cam EXCEPT !.score = score, !.object = TopClass(score), !.when = when]
    BY <1>2, <2>1, <2>2 DEF Classified, Apply
  <2>4. /\ cam'.score = score /\ cam'.object = TopClass(score) /\ cam'.when = when /\ Shape'
    BY <2>3 DEF Inv, Shape
  <2>5. mentioned' = {l \in LabelSet : Valued(pairs, l) # {}}
    BY <1>2, ConcernsTells DEF Classified
  <2>6. Agree' /\ NoStaleScores'
    BY <2>1, <2>4, <2>5, ScoresTyped DEF Agree, NoStaleScores
  <2>7. Seen'
    BY <2>2, <2>4 DEF Seen, When
  <2>8. Offset'
    BY <1>1 DEF Inv, Offset
  <2> QED BY <2>4, <2>6, <2>7, <2>8 DEF Inv
<1>3. CASE ~Concerns(h)
  <2>1. cam' = cam /\ mentioned' = mentioned
    BY <1>3, ConcernsTells DEF Classified, Apply
  <2> QED BY <1>1, <2>1 DEF Inv, Shape, Agree, Seen, Offset, NoStaleScores
<1> QED BY <1>2, <1>3

LEMMA NextInv == ASSUME Inv, [Next]_vars PROVE Inv'
<1>1. CASE \E h \in Header, name \in Names, mask \in Masks \cup {BAD} : MotionSeen(h, name, mask)
  BY <1>1, MotionSeenInv
<1>2. CASE \E h \in Header : MotionEnds(h)
  BY <1>2, MotionEndsInv
<1>3. CASE \E h \in Header, name \in Names : Connection(h, name)
  BY <1>3, ConnectionInv
<1>4. CASE \E h \in Header, pairs \in Pairs : Classified(h, pairs)
  BY <1>4, ClassifiedInv
<1>5. CASE \E online \in BOOLEAN : Refreshed(online)
  BY <1>5, RefreshedInv
<1>6. CASE ClockChanges
  BY <1>6 DEF ClockChanges, Inv, Shape, Agree, Seen, Offset, NoStaleScores, info
<1>7. CASE Upgrades
  BY <1>7 DEF Upgrades, Inv, Shape, Agree, Seen, Offset, NoStaleScores, info
<1>8. CASE UNCHANGED vars
  BY <1>8 DEF vars, info, server, history, Inv, Shape, Agree, Seen, Offset, NoStaleScores
<1>9. CASE \E name \in Names : Ignored(name)
  BY <1>8, <1>9 DEF Ignored
<1> QED BY <1>1, <1>2, <1>3, <1>4, <1>5, <1>6, <1>7, <1>8, <1>9 DEF Next

LEMMA AlwaysInv == Spec => []Inv
  BY InitInv, NextInv, PTL DEF Spec

-----------------------------------------------------------------------------
(* Types, and the reasons.                                                  *)

Told == TypeOK /\ ReasonsOfLastMotion

(* The record is a Camera as soon as its fields are of their types.         *)
Fields(c) ==
  /\ c.active \in BOOLEAN /\ c.when \in [known : BOOLEAN, skew : Skews]
  /\ c.connected \in BOOLEAN /\ c.reasons \in Seq(FlagSet)
  /\ c.score \in Classes /\ c.object \in LabelSet \cup {"None"}

LEMMA CameraHasFields ==
  /\ \A c \in Camera : Fields(c)
  /\ Shape /\ Fields(cam) => cam \in Camera
<1>1. \A c \in Camera : Fields(c)
  BY DEF Camera, Fields, FlagSet
<1>2. ASSUME Shape, Fields(cam) PROVE cam \in Camera
  <2>1. PICK a, w, o, r, s, b : /\ a = cam.active /\ w = cam.when /\ o = cam.connected
                                /\ r = cam.reasons /\ s = cam.score /\ b = cam.object
    OBVIOUS
  <2>2. [active |-> a, when |-> w, connected |-> o, reasons |-> r, score |-> s, object |-> b] \in Camera
    BY <1>2, <2>1 DEF Fields, Camera, FlagSet
  <2> QED BY <1>2, <2>1, <2>2 DEF Shape
<1> QED BY <1>1, <1>2

LEMMA WhenTyped ==
  ASSUME zone \in Zones, gmt \in Zones, NEW h \in Header
  PROVE  When(h) \in [known : BOOLEAN, skew : Skews]
<1>1. zone - gmt \in Skews /\ 0 \in Skews
  <2>1. zone - zone = 0
    BY EventsAssumption
  <2>2. zone - gmt \in Skews /\ zone - zone \in Skews
    BY DEF Skews
  <2> QED BY <2>1, <2>2
<1> QED BY <1>1 DEF When

LEMMA TopTyped ==
  ASSUME NEW score \in Classes
  PROVE  TopClass(score) \in LabelSet \cup {"None"}
<1>1. score \in [LabelSet -> Int]
  <2>1. ABSENT \in Int
    BY DEF ABSENT
  <2> QED BY <2>1, EventsAssumption DEF Classes
<1> QED BY <1>1, TopIsTop

(* No bit of 0 is set.                                                      *)
LEMMA NoBits == ASSUME NEW v \in Versions PROVE MeaningfulBits(0, v) = {}
<1>1. ASSUME NEW i \in 1..17 PROVE ~HasBit(0, Flags[i])
  <2>1. Flags[i] \in Nat /\ Flags[i] > 0
    BY DEF Flags
  <2>2. 0 \div Flags[i] = 0
    BY <2>1
  <2> QED BY <2>2 DEF HasBit
<1> QED BY <1>1, FlagsAre DEF MeaningfulBits

LEMMA InitTold == Init => Told
<1> SUFFICES ASSUME Init PROVE Told
  OBVIOUS
<1>1. Shape /\ cam = NewCamera
  BY InitInv DEF Inv, Init
<1>2. PICK none : none = <<>>
  OBVIOUS
<1>3. none \in Seq(FlagSet) /\ DOMAIN none = {}
  BY <1>2, EmptySeq
<1>4. /\ cam.active = FALSE /\ cam.when = Never /\ cam.connected = TRUE
      /\ cam.reasons = none /\ cam.score = NoClasses /\ cam.object = "None"
  BY <1>1, <1>2 DEF NewCamera
<1>5. Never \in [known : BOOLEAN, skew : Skews] /\ NoClasses \in Classes
  <2>1. zone - zone = 0 /\ zone \in Zones
    BY EventsAssumption DEF Init
  <2>2. 0 \in Skews
    BY <2>1 DEF Skews
  <2> QED BY <2>2 DEF Never, NoClasses, Classes
<1>6. cam \in Camera
  BY <1>1, <1>3, <1>4, <1>5, CameraHasFields DEF Fields
<1>7. /\ version \in Versions /\ major = version /\ mentioned = {}
      /\ lastMask = [mask |-> 0, versions |-> {version}]
  BY DEF Init
<1>8. TypeOK
  BY <1>3, <1>4, <1>6, <1>7 DEF TypeOK, Init
<1>9. ReasonsOfLastMotion
  BY <1>3, <1>4, <1>7, NoBits DEF ReasonsOfLastMotion
<1> QED BY <1>8, <1>9 DEF Told

(* What a TRIGGER or MOTION line makes of the reasons.                      *)
LEMMA ReasonsTold ==
  ASSUME major \in Versions, NEW mask,
         NEW r, r = Reasons(mask), NEW m, m = IF mask = BAD THEN 0 ELSE mask
  PROVE  /\ r \in Seq(FlagSet) /\ Once(r)
         /\ Elements(r) = {Meaning(bit, major) : bit \in MeaningfulBits(m, major)}
<1>1. CASE mask = BAD
  <2>1. r \in Seq(FlagSet) /\ DOMAIN r = {}
    <3>1. r = <<>>
      BY <1>1 DEF Reasons
    <3> QED BY <3>1, EmptySeq
  <2>2. Elements(r) = {} /\ Once(r)
    BY <2>1 DEF Elements, Once
  <2>3. MeaningfulBits(m, major) = {}
    BY <1>1, NoBits
  <2> QED BY <2>1, <2>2, <2>3
<1>2. CASE mask # BAD
  BY <1>2, ReasonsRight DEF Reasons
<1> QED BY <1>1, <1>2

(* A step that leaves the reasons and their mask alone.                     *)
LEMMA KeptTold ==
  ASSUME Told, Shape', Fields(cam'), cam'.reasons = cam.reasons, UNCHANGED lastMask,
         zone' \in Zones, gmt' \in Zones, version' \in Versions, major' \in Versions,
         fresh' \subseteq {"zone", "version"}, mentioned' \subseteq LabelSet
  PROVE  Told'
<1>1. cam' \in Camera
  <2>1. PICK a, w, o, r, s, b : /\ a = cam'.active /\ w = cam'.when /\ o = cam'.connected
                                /\ r = cam'.reasons /\ s = cam'.score /\ b = cam'.object
    OBVIOUS
  <2>2. [active |-> a, when |-> w, connected |-> o, reasons |-> r, score |-> s, object |-> b] \in Camera
    BY <2>1 DEF Fields, Camera, FlagSet
  <2> QED BY <2>1, <2>2 DEF Shape
<1>2. TypeOK'
  BY <1>1 DEF Told, TypeOK
<1>3. ReasonsOfLastMotion'
  BY DEF Told, ReasonsOfLastMotion
<1> QED BY <1>2, <1>3 DEF Told

LEMMA MotionSeenTold ==
  ASSUME Inv, Inv', Told, NEW h \in Header, NEW name, NEW mask \in Masks \cup {BAD},
         MotionSeen(h, name, mask)
  PROVE  Told'
<1>0. Concerns(h) <=> Tells(h)
  BY ConcernsTells
<1>1. UNCHANGED <<zone, version, gmt, major, mentioned, fresh>>
  BY DEF MotionSeen, info, server
<1>2. /\ cam \in Camera /\ Fields(cam) /\ zone \in Zones /\ gmt \in Zones
      /\ version \in Versions /\ major \in Versions /\ fresh \subseteq {"zone", "version"}
      /\ mentioned \subseteq LabelSet
  BY CameraHasFields DEF Told, TypeOK
<1>3. CASE ~Tells(h)
  <2>1. cam' = cam /\ lastMask' = lastMask
    BY <1>0, <1>3 DEF MotionSeen, Apply
  <2> QED BY <1>1, <1>2, <2>1, KeptTold DEF Inv, Shape
<1>4. CASE Tells(h)
  <2>1. PICK r, w, m, V : /\ r = Reasons(mask) /\ w = When(h)
                          /\ m = IF mask = BAD THEN 0 ELSE mask
                          /\ V = IF "version" \in fresh THEN {version} ELSE Versions
    OBVIOUS
  <2>2. /\ cam' = [cam EXCEPT !.active = TRUE, !.when = w, !.reasons = r]
        /\ lastMask' = [mask |-> m, versions |-> V]
    BY <1>0, <1>4, <2>1 DEF MotionSeen, Apply
  <2>3. /\ r \in Seq(FlagSet) /\ Once(r)
        /\ Elements(r) = {Meaning(bit, major) : bit \in MeaningfulBits(m, major)}
    BY <1>2, <2>1, ReasonsTold
  <2>4. w \in [known : BOOLEAN, skew : Skews]
    BY <1>2, <2>1, WhenTyped
  <2>5. cam' \in Camera /\ cam'.reasons = r
    BY <1>2, <2>2, <2>3, <2>4 DEF Camera, FlagSet
  <2>6. TypeOK'
    <3>1. m \in {0} \cup Masks /\ V \in SUBSET Versions
      BY <1>2, <2>1
    <3> QED BY <1>1, <1>2, <2>2, <2>3, <2>5, <3>1 DEF TypeOK, Once
  <2>7. ReasonsOfLastMotion'
    <3>1. major \in V
      BY <1>2, <2>1 DEF Inv, Offset
    <3> QED BY <2>2, <2>3, <2>5, <3>1 DEF ReasonsOfLastMotion, Elements
  <2> QED BY <2>6, <2>7 DEF Told
<1> QED BY <1>3, <1>4

LEMMA NextTold == ASSUME Inv, Inv', Told, [Next]_vars PROVE Told'
<1>0. /\ cam \in Camera /\ Fields(cam) /\ zone \in Zones /\ gmt \in Zones
      /\ version \in Versions /\ major \in Versions /\ fresh \subseteq {"zone", "version"}
      /\ mentioned \subseteq LabelSet /\ Shape'
  BY CameraHasFields DEF Told, TypeOK, Inv
<1>1. CASE \E h \in Header, name \in Names, mask \in Masks \cup {BAD} : MotionSeen(h, name, mask)
  BY <1>1, MotionSeenTold
<1>2. CASE \E h \in Header : MotionEnds(h)
  <2>1. cam' = cam \/ cam' = [cam EXCEPT !.active = FALSE]
    BY <1>2 DEF MotionEnds, Apply
  <2>2. Fields(cam') /\ cam'.reasons = cam.reasons
    BY <1>0, <2>1 DEF Fields, Camera
  <2>3. UNCHANGED <<zone, version, gmt, major, lastMask, mentioned, fresh>>
    BY <1>2 DEF MotionEnds, info, server, history
  <2> QED BY <1>0, <2>2, <2>3, KeptTold
<1>3. CASE \E h \in Header, name \in Names : Connection(h, name)
  <2>1. cam' = cam \/ \E o \in BOOLEAN : cam' = [cam EXCEPT !.connected = o]
    BY <1>3 DEF Connection, Apply
  <2>2. Fields(cam') /\ cam'.reasons = cam.reasons
    BY <1>0, <2>1 DEF Fields, Camera
  <2>3. UNCHANGED <<zone, version, gmt, major, lastMask, mentioned, fresh>>
    BY <1>3 DEF Connection, info, server, history
  <2> QED BY <1>0, <2>2, <2>3, KeptTold
<1>4. CASE \E h \in Header, pairs \in Pairs : Classified(h, pairs)
  <2>1. PICK h \in Header, pairs \in Pairs : Classified(h, pairs)
    BY <1>4
  <2>3. PICK s, b, w : s = ParseClassify(pairs) /\ b = TopClass(s) /\ w = When(h)
    OBVIOUS
  <2>4. cam' = cam \/ cam' = [cam EXCEPT !.score = s, !.object = b, !.when = w]
    BY <2>1, <2>3 DEF Classified, Apply
  <2>5. /\ s \in Classes /\ b \in LabelSet \cup {"None"}
        /\ w \in [known : BOOLEAN, skew : Skews]
    BY <1>0, <2>3, ScoresTyped, TopTyped, WhenTyped
  <2>6. Fields(cam') /\ cam'.reasons = cam.reasons
    BY <1>0, <2>4, <2>5 DEF Fields, Camera
  <2>7. UNCHANGED <<zone, version, gmt, major, lastMask, fresh>>
    BY <2>1 DEF Classified, info, server
  <2>8. mentioned' \subseteq LabelSet
    BY <1>0, <2>1 DEF Classified
  <2> QED BY <1>0, <2>6, <2>7, <2>8, KeptTold
<1>5. CASE \E online \in BOOLEAN : Refreshed(online)
  <2>1. PICK online \in BOOLEAN : Refreshed(online)
    BY <1>5
  <2>2. cam' = CopyRuntimeState(cam, online)
    BY <2>1 DEF Refreshed
  <2>3. Fields(cam') /\ cam'.reasons = cam.reasons
    BY <1>0, <2>2 DEF CopyRuntimeState, NewCamera, Fields
  <2>4. /\ major' = version /\ gmt' = zone /\ fresh' = {"zone", "version"}
        /\ UNCHANGED <<zone, version, lastMask, mentioned>>
    BY <2>1 DEF Refreshed, server
  <2> QED BY <1>0, <2>3, <2>4, KeptTold
<1>6. CASE ClockChanges
  <2>1. /\ UNCHANGED <<version, gmt, major, cam, lastMask, mentioned>>
        /\ zone' \in Zones /\ fresh' \subseteq fresh
    BY <1>6 DEF ClockChanges, info
  <2> QED BY <1>0, <2>1, KeptTold
<1>7. CASE Upgrades
  <2>1. /\ UNCHANGED <<zone, gmt, major, cam, lastMask, mentioned>>
        /\ version' \in Versions /\ fresh' \subseteq fresh
    BY <1>7 DEF Upgrades, info, Versions
  <2> QED BY <1>0, <2>1, KeptTold
<1>8. CASE UNCHANGED vars \/ \E name \in Names : Ignored(name)
  <2>1. UNCHANGED <<zone, version, gmt, major, cam, lastMask, mentioned, fresh>>
    BY <1>8 DEF vars, info, server, history, Ignored
  <2> QED BY <1>0, <2>1, KeptTold
<1> QED BY <1>1, <1>2, <1>3, <1>4, <1>5, <1>6, <1>7, <1>8 DEF Next

LEMMA AlwaysTold == Spec => [](Inv /\ Told)
<1>1. Init => Told
  BY InitTold
<1>2. Inv /\ Inv' /\ Told /\ [Next]_vars => Told'
  BY NextTold
<1> QED BY <1>1, <1>2, AlwaysInv, PTL DEF Spec

-----------------------------------------------------------------------------
(* Every field keeps its type, and no reason is listed twice.               *)
THEOREM TypeCorrect == Spec => []TypeOK
<1>1. Told => TypeOK
  BY DEF Told
<1> QED BY <1>1, AlwaysTold, PTL

(* The reasons are the meaningful bits of the last mask that came for this  *)
(* camera, whatever other lines and refreshes come: in the numbering of the *)
(* version of the server that sent it, or, if no refresh had told yet of an *)
(* upgrade, all of them in that of one version (events.py:162-180, 429-432, *)
(* 453-457).                                                                *)
THEOREM ReasonsAreOfLastMotion == Spec => []ReasonsOfLastMotion
<1>1. Told => ReasonsOfLastMotion
  BY DEF Told
<1> QED BY <1>1, AlwaysTold, PTL

(* event_object is a class with the top score of those present, whatever    *)
(* lines and refreshes come (events.py:466-483, models.py:96-108).          *)
THEOREM ObjectAgrees == Spec => []ObjectIsTopClass
<1>1. Inv => ObjectIsTopClass
  <2> SUFFICES ASSUME Inv PROVE ObjectIsTopClass
    OBVIOUS
  <2>1. PICK score : score = cam.score /\ score \in Classes /\ cam.object = TopClass(score)
    BY DEF Inv, Agree
  <2>2. score \in [LabelSet -> Int]
    <3>1. ABSENT \in Int
      BY DEF ABSENT
    <3>2. Scores \cup {ABSENT} \subseteq Int
      BY <3>1, EventsAssumption
    <3> QED BY <2>1, <3>2 DEF Classes
  <2> QED BY <2>1, <2>2, TopIsTop DEF ObjectIsTopClass
<1> QED BY <1>1, AlwaysInv, PTL

(* A class that the last CLASSIFY line did not mention has no score         *)
(* (events.py:467-473).                                                     *)
THEOREM ScoresAreFresh == Spec => []NoStaleScores
<1>1. Inv => NoStaleScores
  BY DEF Inv
<1> QED BY <1>1, AlwaysInv, PTL

(* What a camera is said to have seen has a time, and it is right whenever  *)
(* the zone has not changed since the last refresh (events.py:429-432).     *)
THEOREM TimesAreRight == Spec => DetectionTimes
<1> DEFINE Timed == /\ cam'.active \/ cam'.reasons # <<>> \/ cam'.object # "None"
                         => cam'.when.known
                    /\ "zone" \in fresh /\ cam'.when # cam.when => cam'.when.skew = 0
<1>1. Inv /\ [Next]_vars => [Timed]_vars
  <2> SUFFICES ASSUME Inv, Next PROVE Timed
    OBVIOUS
  <2>1. Inv'
    BY NextInv
  <2>2. ASSUME "zone" \in fresh, cam'.when # cam.when PROVE cam'.when.skew = 0
    <3>1. ASSUME NEW h PROVE When(h).skew = 0
      BY <2>2, EventsAssumption DEF When, Inv, Offset
    <3>2. CASE \E h \in Header, name \in Names, mask \in Masks \cup {BAD} :
                 MotionSeen(h, name, mask)
      <4>1. PICK h \in Header : cam' = [cam EXCEPT !.active = TRUE, !.when = When(h),
                                                   !.reasons = cam'.reasons] \/ cam' = cam
        BY <3>2 DEF MotionSeen, Apply, Inv, Shape
      <4>2. cam'.when = When(h)
        BY <2>2, <4>1 DEF Inv, Shape
      <4> QED BY <3>1, <4>2
    <3>3. CASE \E h \in Header : MotionEnds(h)
      BY <2>2, <3>3 DEF MotionEnds, Apply, Inv, Shape
    <3>4. CASE \E h \in Header, name \in Names : Connection(h, name)
      BY <2>2, <3>4 DEF Connection, Apply, Inv, Shape
    <3>5. CASE \E h \in Header, pairs \in Pairs : Classified(h, pairs)
      <4>1. PICK h, score : cam' = [cam EXCEPT !.score = score, !.object = TopClass(score),
                                               !.when = When(h)] \/ cam' = cam
        BY <3>5 DEF Classified, Apply
      <4>2. cam'.when = When(h)
        BY <2>2, <4>1 DEF Inv, Shape
      <4> QED BY <3>1, <4>2
    <3>6. CASE \E online \in BOOLEAN : Refreshed(online)
      BY <2>2, <3>6 DEF Refreshed, CopyRuntimeState, NewCamera
    <3>7. CASE ClockChanges \/ Upgrades \/ \E name \in Names : Ignored(name)
      BY <2>2, <3>7 DEF ClockChanges, Upgrades, Ignored, vars
    <3> QED BY <3>2, <3>3, <3>4, <3>5, <3>6, <3>7 DEF Next
  <2> QED BY <2>1, <2>2 DEF Inv, Seen
<1> QED BY <1>1, AlwaysInv, PTL DEF Spec, DetectionTimes
=============================================================================
