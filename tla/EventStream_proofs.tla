------------------------ MODULE EventStream_proofs ------------------------
(* Theorems about EventStream, for any queue size, callers, number of       *)
(* starts and of network happenings, and any delays.                        *)
EXTENDS EventStream, SequenceTheorems, TLAPS

-----------------------------------------------------------------------------
(* The watcher's side of the queue.                                         *)

(* Moved changes one watcher.                                               *)
LEMMA MovedTo ==
  ASSUME w \in [Gens -> Watcher], NEW g \in Gens, NEW pc, NEW waiting, NEW delay
  PROVE  /\ Moved(g, pc, waiting, delay)[g] =
              [pc |-> pc, cancel |-> w[g].cancel, waiting |-> waiting, delay |-> delay]
         /\ \A h \in Gens \ {g} : Moved(g, pc, waiting, delay)[h] = w[h]
  BY DEF Moved

(* Moved keeps the type of the watchers.                                    *)
LEMMA MovedTyped ==
  ASSUME w \in [Gens -> Watcher], NEW g \in Gens,
         NEW pc \in {"connect", "stream", "put", "backoff", "done"},
         NEW waiting \in Seq(Events), NEW delay \in ReconnectDelay..MaxDelay
  PROVE  Moved(g, pc, waiting, delay) \in [Gens -> Watcher]
  BY DEF Moved, Watcher

(* The records that _enqueue works on.                                      *)
Side(r) ==
  /\ r = [queue |-> r.queue, degraded |-> r.degraded, waiting |-> r.waiting]
  /\ r.waiting \in Seq(Events)

(* What a put leaves waiting ends with the event that was put.              *)
LEMMA EnqueueEnds ==
  ASSUME NEW r, Side(r), NEW e \in Events
  PROVE  /\ Side(Enqueue(r, e))
         /\ Len(Enqueue(r, e).waiting) <= Len(r.waiting) + 1
         /\ Enqueue(r, e).waiting # <<>> =>
              Enqueue(r, e).waiting[Len(Enqueue(r, e).waiting)] = e
<1>1. CASE r.waiting # <<>>
  <2>1. Enqueue(r, e) = [queue |-> r.queue, degraded |-> r.degraded,
                         waiting |-> Append(r.waiting, e)]
    BY <1>1 DEF Enqueue, Side
  <2>2. /\ Append(r.waiting, e) \in Seq(Events)
        /\ Len(Append(r.waiting, e)) = Len(r.waiting) + 1
        /\ Append(r.waiting, e)[Len(r.waiting) + 1] = e
    BY AppendProperties DEF Side
  <2> QED BY <2>1, <2>2 DEF Side
<1>2. CASE r.waiting = <<>>
  <2>1. PICK n : n = Enqueue(r, e)
    OBVIOUS
  <2>2. /\ n.waiting = <<>> \/ n.waiting = <<e>>
        /\ n = [queue |-> n.queue, degraded |-> n.degraded, waiting |-> n.waiting]
    BY <1>2, <2>1 DEF Enqueue, Side
  <2>3. <<e>> \in Seq(Events) /\ Len(<<e>>) = 1 /\ <<e>>[1] = e
    OBVIOUS
  <2>4. n.waiting \in Seq(Events)
    <3>1. <<>> \in Seq(Events)
      OBVIOUS
    <3> QED BY <2>2, <2>3, <3>1
  <2>5. Len(n.waiting) <= Len(r.waiting) + 1
    <3>1. Len(r.waiting) = 0 /\ Len(n.waiting) \in {0, 1}
      <4>1. Len(<<>>) = 0
        OBVIOUS
      <4> QED BY <1>2, <2>2, <2>3, <4>1
    <3>2. PICK l : l = Len(n.waiting)
      OBVIOUS
    <3>3. l \in {0, 1} /\ Len(r.waiting) = 0
      BY <3>1, <3>2
    <3>4. l <= 0 + 1
      BY <3>3
    <3> QED BY <3>2, <3>3, <3>4
  <2>6. n.waiting # <<>> => n.waiting[Len(n.waiting)] = e
    BY <2>2, <2>3
  <2> QED BY <2>1, <2>2, <2>4, <2>5, <2>6 DEF Side
<1> QED BY <1>1, <1>2

(* The same with a bound on what waited before.                             *)
LEMMA OneMore ==
  ASSUME NEW r, Side(r), NEW k \in Nat, Len(r.waiting) <= k, NEW e \in Events,
         NEW n, n = Enqueue(r, e)
  PROVE  /\ Side(n) /\ Len(n.waiting) <= k + 1
         /\ n.waiting # <<>> => n.waiting[Len(n.waiting)] = e
<1>1. /\ Side(n) /\ Len(n.waiting) <= Len(r.waiting) + 1
      /\ n.waiting # <<>> => n.waiting[Len(n.waiting)] = e
  BY EnqueueEnds
<1>2. Len(r.waiting) \in Nat /\ Len(n.waiting) \in Nat
  BY <1>1, LenProperties DEF Side
<1> QED BY <1>1, <1>2

(* The same of several events put one after the other.                      *)
Ends(n, es) ==
  /\ Side(n) /\ Len(n.waiting) <= 3
  /\ n.waiting # <<>> => n.waiting[Len(n.waiting)] = es[Len(es)] /\ es # <<>>

(* What has a length is not empty.                                          *)
LEMMA NotEmpty == ASSUME NEW s, Len(s) = 3 PROVE s # <<>>
<1> SUFFICES ASSUME s = <<>> PROVE FALSE
  OBVIOUS
<1> QED OBVIOUS

(* The last of several events.                                              *)
LEMMA EndsWith ==
  ASSUME NEW r, Side(r), NEW k \in 0..2, Len(r.waiting) <= k,
         NEW es \in Seq(Events), es # <<>>, NEW e \in Events, e = es[Len(es)],
         NEW n, n = Enqueue(r, e)
  PROVE  Ends(n, es)
<1>1. /\ Side(n) /\ Len(n.waiting) <= k + 1
      /\ n.waiting # <<>> => n.waiting[Len(n.waiting)] = e
  BY OneMore
<1>2. Len(n.waiting) \in Nat
  BY <1>1, LenProperties DEF Side
<1>3. Len(n.waiting) <= 3
  BY <1>1, <1>2
<1> QED BY <1>1, <1>3 DEF Ends

(* Up to three events, the most that the watcher announces at once.         *)
LEMMA EnqueueAllEnds ==
  ASSUME NEW r, Side(r), r.waiting = <<>>, NEW es \in Seq(Events), Len(es) \in 0..3
  PROVE  Ends(EnqueueAll(r, es), es)
<1>0. Len(r.waiting) <= 0 /\ \A i \in 1..Len(es) : es[i] \in Events
  BY ElementOfSeq
<1>1. CASE Len(es) = 0
  <2>1. EnqueueAll(r, es) = r
    BY <1>1 DEF EnqueueAll
  <2> QED BY <1>0, <2>1 DEF Ends
<1>2. CASE Len(es) = 1
  <2>1. PICK e \in Events : e = es[1]
    BY <1>0, <1>2
  <2>2. PICK n : n = Enqueue(r, e)
    OBVIOUS
  <2>3. EnqueueAll(r, es) = n
    BY <1>2, <2>1, <2>2 DEF EnqueueAll
  <2>4. es # <<>> /\ e = es[Len(es)]
    BY <1>2, <2>1
  <2>5. Ends(n, es)
    BY <1>0, <2>2, <2>4, EndsWith
  <2> QED BY <2>3, <2>5
<1>3. CASE Len(es) = 2
  <2>1. PICK e1 \in Events : e1 = es[1]
    BY <1>0, <1>3
  <2>2. PICK e2 \in Events : e2 = es[2]
    BY <1>0, <1>3
  <2>3. PICK r1 : r1 = Enqueue(r, e1)
    OBVIOUS
  <2>4. Side(r1) /\ Len(r1.waiting) <= 1
    BY <1>0, <2>3, OneMore
  <2>5. PICK n : n = Enqueue(r1, e2)
    OBVIOUS
  <2>6. EnqueueAll(r, es) = n
    BY <1>3, <2>1, <2>2, <2>3, <2>5 DEF EnqueueAll
  <2>7. es # <<>> /\ e2 = es[Len(es)]
    BY <1>3, <2>2
  <2>8. Ends(n, es)
    BY <2>4, <2>5, <2>7, EndsWith
  <2> QED BY <2>6, <2>8
<1>4. CASE Len(es) = 3
  <2>1. PICK e1 \in Events : e1 = es[1]
    BY <1>0, <1>4
  <2>2. PICK e2 \in Events : e2 = es[2]
    BY <1>0, <1>4
  <2>3. PICK e3 \in Events : e3 = es[3]
    BY <1>0, <1>4
  <2>4. PICK r1 : r1 = Enqueue(r, e1)
    OBVIOUS
  <2>5. Side(r1) /\ Len(r1.waiting) <= 1
    BY <1>0, <2>4, OneMore, 0 + 1 = 1
  <2>6. PICK r2 : r2 = Enqueue(r1, e2)
    OBVIOUS
  <2>7. Side(r2) /\ Len(r2.waiting) <= 2
    BY <2>5, <2>6, OneMore
  <2>8. PICK n : n = Enqueue(r2, e3)
    OBVIOUS
  <2>9. EnqueueAll(r, es) = n
    BY <1>4, <2>1, <2>2, <2>3, <2>4, <2>6, <2>8 DEF EnqueueAll
  <2>10. es # <<>> /\ e3 = es[Len(es)]
    <3>1. es # <<>>
      BY <1>4, NotEmpty
    <3> QED BY <1>4, <2>3, <3>1
  <2>11. Ends(n, es)
    BY <2>7, <2>8, <2>10, EndsWith
  <2> QED BY <2>9, <2>11
<1> QED BY <1>1, <1>2, <1>3, <1>4

-----------------------------------------------------------------------------
(* The invariant: besides the two properties, what waits belongs to a       *)
(* suspended put, watchers exist once they are started, and at most one     *)
(* holds a response.                                                        *)

Types ==
  /\ w \in [Gens -> Watcher]
  /\ gen \in 0..MaxStarts /\ task \in {0, gen} /\ resp \in 0..MaxStarts
  /\ running \in BOOLEAN /\ stopSet \in BOOLEAN

Waits ==
  \A g \in Gens : /\ w[g].pc = "put" <=> w[g].waiting # <<>>
                  /\ Len(w[g].waiting) <= 3

Unborn ==
  \A g \in Gens : /\ w[g].pc = "none" <=> g > gen
                  /\ w[g].pc = "none" => ~w[g].cancel

OneResponse == \A g, h \in Gens : InResponse(g) /\ InResponse(h) => g = h

Inv == Types /\ Waits /\ Unborn /\ OneResponse /\ RunningTruth /\ ResponseHeld

(* The invariant holds before the first start(), and every step keeps it.   *)
LEMMA InitInv == Init => Inv
<1> SUFFICES ASSUME Init PROVE Inv
  OBVIOUS
<1>1. \A g \in Gens : w[g] = [pc |-> "none", cancel |-> FALSE, waiting |-> <<>>,
                              delay |-> ReconnectDelay]
  BY DEF Init
<1>2. gen = 0 /\ task = 0 /\ resp = 0 /\ running = FALSE /\ stopSet = FALSE
  BY DEF Init
<1>3. Types
  <2>1. <<>> \in Seq(Events) /\ ReconnectDelay \in ReconnectDelay..MaxDelay /\ 0 \in 0..MaxStarts
    BY StreamAssumption
  <2>2. w = [g \in Gens |-> [pc |-> "none", cancel |-> FALSE, waiting |-> <<>>,
                             delay |-> ReconnectDelay]]
    BY DEF Init
  <2> QED BY <1>2, <2>1, <2>2 DEF Types, Watcher
<1>4. Waits /\ Unborn
  BY <1>1, <1>2 DEF Waits, Unborn, Gens
<1>5. OneResponse /\ RunningTruth /\ ResponseHeld
  BY <1>1, <1>2 DEF OneResponse, RunningTruth, ResponseHeld, InResponse, Live
<1> QED BY <1>3, <1>4, <1>5 DEF Inv

(* Steps that leave the watchers alone.                                     *)
LEMMA StillInv ==
  ASSUME Inv, UNCHANGED <<selfVars, resp, w>>
  PROVE  Inv'
<1>1. UNCHANGED <<stopSet, running, gen, task, resp, w>>
  BY DEF selfVars
<1>2. \A g : (InResponse(g)' <=> InResponse(g)) /\ (Live(g)' <=> Live(g))
  BY <1>1 DEF InResponse, Live
<1>3. Types' /\ Waits' /\ Unborn'
  BY <1>1 DEF Inv, Types, Waits, Unborn
<1>4. OneResponse' /\ RunningTruth' /\ ResponseHeld'
  BY <1>1, <1>2 DEF Inv, OneResponse, RunningTruth, ResponseHeld
<1> QED BY <1>3, <1>4 DEF Inv

(* start(): there is no live watcher, and now there is one that connects.   *)
LEMMA StartInv ==
  ASSUME Inv, Start
  PROVE  Inv'
<1>0. Types /\ Waits /\ Unborn /\ OneResponse /\ RunningTruth /\ ResponseHeld
  BY DEF Inv
<1>1. /\ gen' = gen + 1 /\ task' = gen + 1 /\ running' = TRUE /\ stopSet' = FALSE /\ resp' = resp
      /\ w' = Moved(gen + 1, "connect", <<>>, ReconnectDelay)
      /\ gen < MaxStarts /\ WDone(task)
  BY DEF Start
<1>2. gen + 1 \in Gens /\ gen \in Nat
  BY <1>0, <1>1, StreamAssumption DEF Types, Gens
<1>3. PICK n \in Gens : n = gen + 1
  BY <1>2
<1>4. w[n].pc = "none" /\ ~w[n].cancel
  BY <1>0, <1>2, <1>3 DEF Unborn, Gens
<1>5. /\ w'[n] = [pc |-> "connect", cancel |-> w[n].cancel, waiting |-> <<>>,
                  delay |-> ReconnectDelay]
      /\ \A h \in Gens \ {n} : w'[h] = w[h]
  BY <1>0, <1>1, <1>3, MovedTo DEF Types
<1>6. Types'
  <2>1. <<>> \in Seq(Events) /\ ReconnectDelay \in ReconnectDelay..MaxDelay
    BY StreamAssumption
  <2>2. w' \in [Gens -> Watcher]
    BY <1>0, <1>1, <1>3, <2>1, MovedTyped DEF Types
  <2>3. gen' \in 0..MaxStarts /\ task' = gen'
    BY <1>1, <1>2 DEF Gens
  <2>4. resp' \in 0..MaxStarts /\ running' \in BOOLEAN /\ stopSet' \in BOOLEAN
    BY <1>0, <1>1 DEF Types
  <2> QED BY <2>2, <2>3, <2>4 DEF Types
<1>7. Waits'
  BY <1>0, <1>5 DEF Waits
<1>8. Unborn'
  BY <1>0, <1>1, <1>2, <1>3, <1>4, <1>5 DEF Unborn, Gens
<1>9. \A h \in Gens : ~Live(h)
  BY <1>0, <1>1 DEF RunningTruth, WDone, Live
<1>10. \A h \in Gens : Live(h)' <=> h = n
  BY <1>4, <1>5, <1>9 DEF Live
<1>11. RunningTruth'
  BY <1>1, <1>2, <1>3, <1>10 DEF RunningTruth
<1>12. \A h \in Gens : InResponse(h)' <=> InResponse(h) /\ h # n
  BY <1>4, <1>5 DEF InResponse
<1>13. ~InResponse(n) /\ ~InResponse(n)'
  BY <1>4, <1>12 DEF InResponse
<1>14. OneResponse' /\ ResponseHeld'
  <2>1. resp # 0 => resp \in Gens
    BY <1>0 DEF Types, Gens
  <2> QED BY <1>0, <1>1, <1>10, <1>12, <1>13, <2>1 DEF OneResponse, ResponseHeld
<1> QED BY <1>6, <1>7, <1>8, <1>11, <1>14 DEF Inv

(* stop(): no watcher is live any more, and none changes its place.         *)
LEMMA StopInv ==
  ASSUME Inv, NEW current, StopCalled(current)
  PROVE  Inv'
<1>0. Types /\ Waits /\ Unborn /\ OneResponse /\ RunningTruth /\ ResponseHeld
  BY DEF Inv
<1>1. /\ stopSet' = TRUE /\ running' = FALSE /\ task' = 0 /\ gen' = gen /\ resp' = resp
      /\ w' = [g \in Gens |-> IF g = task /\ ~WDone(g)
                              THEN [w[g] EXCEPT !.cancel = TRUE] ELSE w[g]]
  BY DEF StopCalled
<1>2. \A g \in Gens : w[g] \in Watcher
  BY <1>0 DEF Types
<1>3. ASSUME NEW g \in Gens
      PROVE  /\ w'[g] \in Watcher
             /\ w'[g].pc = w[g].pc /\ w'[g].waiting = w[g].waiting
             /\ w'[g].cancel = (w[g].cancel \/ (g = task /\ ~WDone(g)))
  <2>1. CASE g = task /\ ~WDone(g)
    BY <1>1, <1>2, <2>1 DEF Watcher
  <2>2. CASE ~(g = task /\ ~WDone(g))
    BY <1>1, <1>2, <2>2 DEF Watcher
  <2> QED BY <2>1, <2>2
<1>4. Types'
  BY <1>0, <1>1, <1>3 DEF Types
<1>5. Waits'
  BY <1>0, <1>3 DEF Waits
<1>6. ASSUME NEW g \in Gens, w[g].pc = "none" PROVE ~w'[g].cancel
  <2>1. g > gen
    BY <1>0, <1>6 DEF Unborn
  <2>2. g # task
    BY <1>0, <2>1 DEF Types, Gens
  <2> QED BY <1>0, <1>3, <1>6, <2>2 DEF Unborn
<1>7. Unborn'
  BY <1>0, <1>1, <1>3, <1>6 DEF Unborn
<1>8. \A g \in Gens : ~Live(g)'
  BY <1>0, <1>3 DEF RunningTruth, Live, WDone, Gens
<1>9. \A g \in Gens : InResponse(g)' <=> InResponse(g)
  BY <1>3 DEF InResponse
<1>10. RunningTruth'
  BY <1>1, <1>8 DEF RunningTruth
<1>11. OneResponse' /\ ResponseHeld'
  <2>1. resp # 0 => resp \in Gens
    BY <1>0 DEF Types, Gens
  <2> QED BY <1>0, <1>1, <1>8, <1>9, <2>1 DEF OneResponse, ResponseHeld
<1> QED BY <1>4, <1>5, <1>7, <1>10, <1>11 DEF Inv

-----------------------------------------------------------------------------
(* A live watcher enqueues: where it comes to, and what stays.              *)

LEMMA EnqueuedMoves ==
  ASSUME Inv, NEW g \in Gens, Live(g), NEW r, NEW last \in Events,
         NEW delay \in ReconnectDelay..MaxDelay,
         Side(r), Len(r.waiting) <= 3,
         r.waiting # <<>> => r.waiting[Len(r.waiting)] = last,
         Enqueued(g, r, last, delay)
  PROVE  /\ gen' = gen /\ w' \in [Gens -> Watcher]
         /\ Waits' /\ Unborn' /\ RunningTruth'
         /\ task' = task /\ running' \in BOOLEAN /\ stopSet' = stopSet
         /\ InResponse(g)' <=> After(last) = "stream"
         /\ \A h \in Gens \ {g} : (InResponse(h)' <=> InResponse(h)) /\ ~Live(h)'
<1>0. Types /\ Waits /\ Unborn /\ RunningTruth
  BY DEF Inv
<1>1. PICK pc : pc = IF r.waiting # <<>> THEN "put" ELSE After(last)
  OBVIOUS
<1>2. /\ w' = Moved(g, pc, r.waiting, delay)
      /\ running' = (running /\ pc # "done") /\ UNCHANGED <<stopSet, gen, task>>
  BY <1>1 DEF Enqueued
<1>3. pc \in {"stream", "put", "backoff", "done"} /\ (pc = "put" <=> r.waiting # <<>>)
  BY <1>1 DEF After
<1>4. /\ w'[g] = [pc |-> pc, cancel |-> w[g].cancel, waiting |-> r.waiting, delay |-> delay]
      /\ \A h \in Gens \ {g} : w'[h] = w[h]
  BY <1>0, <1>2, MovedTo DEF Types
<1>5. w' \in [Gens -> Watcher]
  BY <1>0, <1>2, <1>3, MovedTyped DEF Types, Side
<1>6. Waits' /\ Unborn'
  BY <1>0, <1>2, <1>3, <1>4 DEF Waits, Unborn, Live
<1>7. g = task /\ running /\ ~w[g].cancel /\ \A h \in Gens \ {g} : ~Live(h)
  BY <1>0 DEF RunningTruth, Live
<1>8. \A h \in Gens \ {g} : (InResponse(h)' <=> InResponse(h)) /\ ~Live(h)'
  BY <1>4, <1>7 DEF InResponse, Live
<1>9. Live(g)' <=> pc # "done"
  BY <1>3, <1>4, <1>7 DEF Live
<1>10. RunningTruth'
  BY <1>0, <1>2, <1>7, <1>8, <1>9 DEF RunningTruth
<1>11. InResponse(g)' <=> After(last) = "stream"
  BY <1>1, <1>3, <1>4 DEF InResponse, Last, After
<1> QED BY <1>0, <1>2, <1>5, <1>6, <1>8, <1>10, <1>11 DEF Types

(* The response goes with the place.                                        *)
LEMMA ResponseInv ==
  ASSUME Inv, NEW g \in Gens, Live(g), NEW last \in Events,
         /\ gen' = gen /\ w' \in [Gens -> Watcher]
         /\ Waits' /\ Unborn' /\ RunningTruth'
         /\ task' = task /\ running' \in BOOLEAN /\ stopSet' = stopSet
         /\ InResponse(g)' <=> After(last) = "stream"
         /\ \A h \in Gens \ {g} : (InResponse(h)' <=> InResponse(h)) /\ ~Live(h)',
         \/ resp' = resp /\ (InResponse(g) <=> After(last) = "stream")
         \/ resp' = 0 /\ InResponse(g) /\ After(last) # "stream"
         \/ resp' = g /\ After(last) = "stream" /\ \A h \in Gens : ~InResponse(h)
  PROVE  Inv'
<1>0. Types /\ OneResponse /\ ResponseHeld
  BY DEF Inv
<1>1. Types'
  <2>1. gen' \in 0..MaxStarts /\ task' \in {0, gen'} /\ stopSet' \in BOOLEAN
    BY <1>0 DEF Types
  <2>2. resp' \in 0..MaxStarts
    <3>1. g \in 0..MaxStarts /\ 0 \in 0..MaxStarts
      BY StreamAssumption DEF Gens
    <3> QED BY <1>0, <3>1 DEF Types
  <2> QED BY <2>1, <2>2 DEF Types
<1>2. resp # 0 => resp \in Gens
  BY <1>0 DEF Types, Gens
<1>3. OneResponse'
  BY <1>0 DEF OneResponse
<1>4. InResponse(g) => resp = g
  BY <1>0 DEF ResponseHeld
<1>5. ResponseHeld'
  BY <1>0, <1>2, <1>4 DEF ResponseHeld, OneResponse
<1> QED BY <1>1, <1>3, <1>5 DEF Inv

(* Announcing, from a place where no put is suspended.                      *)
LEMMA AnnounceMoves ==
  ASSUME Inv, NEW g \in Gens, Live(g), w[g].pc # "put",
         NEW es \in Seq(Events), Len(es) \in 1..3,
         NEW delay \in ReconnectDelay..MaxDelay, Announce(g, es, delay)
  PROVE  /\ Last(es) \in Events
         /\ gen' = gen /\ w' \in [Gens -> Watcher]
         /\ Waits' /\ Unborn' /\ RunningTruth'
         /\ task' = task /\ running' \in BOOLEAN /\ stopSet' = stopSet
         /\ InResponse(g)' <=> After(Last(es)) = "stream"
         /\ \A h \in Gens \ {g} : (InResponse(h)' <=> InResponse(h)) /\ ~Live(h)'
<1>1. w[g].waiting = <<>> /\ w[g].waiting \in Seq(Events)
  BY DEF Inv, Types, Waits, Watcher
<1>2. Side(Pipe(g)) /\ Pipe(g).waiting = <<>>
  BY <1>1 DEF Side, Pipe
<1>3. PICK r : r = EnqueueAll(Pipe(g), es)
  OBVIOUS
<1>4. Ends(r, es)
  BY <1>2, <1>3, EnqueueAllEnds
<1>5. Last(es) \in Events /\ Last(es) = es[Len(es)]
  BY DEF Last
<1>6. Enqueued(g, r, Last(es), delay)
  BY <1>3 DEF Announce
<1> QED BY <1>4, <1>5, <1>6, EnqueuedMoves DEF Ends

(* The last event that a live watcher announces decides what becomes of the *)
(* response.                                                                *)
Spoken(g, es, delay, last) ==
  /\ w[g].pc # "put"
  /\ es \in Seq(Events) /\ Len(es) \in 1..3 /\ Last(es) = last /\ last \in Events
  /\ delay \in ReconnectDelay..MaxDelay
  /\ Announce(g, es, delay)

(* Announcing keeps the invariant.                                          *)
LEMMA SpokenInv ==
  ASSUME Inv, NEW g \in Gens, Live(g), NEW es, NEW delay, NEW last, Spoken(g, es, delay, last),
         \/ resp' = resp /\ (InResponse(g) <=> After(last) = "stream")
         \/ resp' = 0 /\ InResponse(g) /\ After(last) # "stream"
         \/ resp' = g /\ After(last) = "stream" /\ \A h \in Gens : ~InResponse(h)
  PROVE  Inv'
<1>1. /\ w[g].pc # "put"
      /\ es \in Seq(Events) /\ Len(es) \in 1..3 /\ Last(es) = last /\ last \in Events
      /\ delay \in ReconnectDelay..MaxDelay
      /\ Announce(g, es, delay)
  BY DEF Spoken
<1>2. /\ gen' = gen /\ w' \in [Gens -> Watcher]
      /\ Waits' /\ Unborn' /\ RunningTruth'
      /\ task' = task /\ running' \in BOOLEAN /\ stopSet' = stopSet
      /\ InResponse(g)' <=> After(last) = "stream"
      /\ \A h \in Gens \ {g} : (InResponse(h)' <=> InResponse(h)) /\ ~Live(h)'
  BY <1>1, AnnounceMoves
<1> QED BY <1>1, <1>2, ResponseInv

(* Every delay is within its bounds.                                        *)
LEMMA DelayTyped ==
  ASSUME Inv, NEW g \in Gens
  PROVE  w[g].delay \in ReconnectDelay..MaxDelay
  BY DEF Inv, Types, Watcher

(* What the network does keeps the invariant.                               *)
LEMMA NetworkInv ==
  ASSUME Inv, NEW g \in Gens, Network(g)
  PROVE  Inv'
<1>0. ReconnectDelay \in ReconnectDelay..MaxDelay /\ w[g].delay \in ReconnectDelay..MaxDelay
  BY StreamAssumption, DelayTyped
<1>1. Live(g) /\ w[g].pc \in {"connect", "stream"}
  BY DEF Network, WConnects, WRejected, WConnectFails, WLine, WEof, WDrops, FromNetwork
<1>2. InResponse(g) <=> w[g].pc = "stream"
  BY <1>1 DEF InResponse
<1>3. \A e \in Events : <<e>> \in Seq(Events) /\ Len(<<e>>) = 1 /\ Last(<<e>>) = e
  BY DEF Last
<1>4. {"CONNECTED", "DISCONNECTED", "LINE", "CONFIGCHANGE"} \subseteq Events
  BY DEF Events
<1>5. CASE WConnects(g)
  <2>1. Announce(g, <<"CONNECTED">>, w[g].delay) /\ resp' = g /\ w[g].pc = "connect"
        /\ \A h \in 1..(g - 1) : ~InResponse(h)
    BY <1>5 DEF WConnects, FromNetwork
  <2>2. \A h \in Gens : ~InResponse(h)
    <3>1. g = gen
      BY <1>1 DEF Inv, RunningTruth, Types, Gens
    <3>2. ASSUME NEW h \in Gens, h > g PROVE ~InResponse(h)
      BY <3>1, <3>2 DEF Inv, Unborn, InResponse
    <3>3. \A h \in Gens : h > g \/ h = g \/ h \in 1..(g - 1)
      BY DEF Gens
    <3> QED BY <1>2, <2>1, <3>2, <3>3
  <2>3. After("CONNECTED") = "stream"
    BY DEF After
  <2>4. PICK es : es = <<"CONNECTED">>
    OBVIOUS
  <2>5. Spoken(g, es, w[g].delay, "CONNECTED")
    BY <1>0, <1>1, <1>3, <1>4, <2>1, <2>4 DEF Spoken
  <2> QED BY <1>1, <2>1, <2>2, <2>3, <2>5, SpokenInv
<1>6. CASE WRejected(g)
  <2>1. Announce(g, <<"AUTHFAIL", "DISCONNECTED", "END">>, w[g].delay) /\ resp' = resp
        /\ w[g].pc = "connect"
    BY <1>6 DEF WRejected, FromNetwork
  <2>2. PICK es : es = <<"AUTHFAIL", "DISCONNECTED", "END">>
    OBVIOUS
  <2>3. es \in Seq(Events) /\ Len(es) = 3 /\ Last(es) = "END"
    BY <2>2 DEF Events, Last
  <2>4. After("END") # "stream"
    BY DEF After
  <2>5. Spoken(g, es, w[g].delay, "END")
    BY <1>0, <1>1, <2>1, <2>2, <2>3 DEF Spoken, Events
  <2> QED BY <1>1, <1>2, <2>1, <2>4, <2>5, SpokenInv
<1>7. CASE WConnectFails(g)
  <2>1. Announce(g, <<"DISCONNECTED">>, w[g].delay) /\ resp' = resp /\ w[g].pc = "connect"
    BY <1>7 DEF WConnectFails, FromNetwork
  <2>2. After("DISCONNECTED") # "stream"
    BY DEF After
  <2>4. PICK es : es = <<"DISCONNECTED">>
    OBVIOUS
  <2>5. Spoken(g, es, w[g].delay, "DISCONNECTED")
    BY <1>0, <1>1, <1>3, <1>4, <2>1, <2>4 DEF Spoken
  <2> QED BY <1>1, <1>2, <2>1, <2>2, <2>5, SpokenInv
<1>8. ASSUME NEW e \in {"LINE", "CONFIGCHANGE"}, WLine(g, e) PROVE Inv'
  <2>1. Announce(g, <<e>>, w[g].delay) /\ resp' = resp /\ w[g].pc = "stream"
    BY <1>8 DEF WLine, FromNetwork
  <2>2. After(e) = "stream" /\ e \in Events
    BY <1>4 DEF After
  <2>4. PICK es : es = <<e>>
    OBVIOUS
  <2>5. Spoken(g, es, w[g].delay, e)
    BY <1>0, <1>1, <1>3, <2>1, <2>2, <2>4 DEF Spoken
  <2> QED BY <1>1, <1>2, <2>1, <2>2, <2>5, SpokenInv
<1>9. CASE WEof(g) \/ WDrops(g)
  <2>1. resp' = 0 /\ w[g].pc = "stream" /\
        \E delay \in ReconnectDelay..MaxDelay : Announce(g, <<"DISCONNECTED">>, delay)
    BY <1>0, <1>9 DEF WEof, WDrops, FromNetwork
  <2>2. After("DISCONNECTED") # "stream"
    BY DEF After
  <2>3. PICK delay \in ReconnectDelay..MaxDelay : Announce(g, <<"DISCONNECTED">>, delay)
    BY <2>1
  <2>4. PICK es : es = <<"DISCONNECTED">>
    OBVIOUS
  <2>5. Spoken(g, es, delay, "DISCONNECTED")
    BY <1>1, <1>3, <1>4, <2>1, <2>3, <2>4 DEF Spoken
  <2> QED BY <1>1, <1>2, <2>1, <2>2, <2>5, SpokenInv
<1> QED BY <1>5, <1>6, <1>7, <1>8, <1>9 DEF Network

(* A suspended put ends, one way or the other.                              *)
LEMMA PutInv ==
  ASSUME Inv, NEW g \in Gens, WPutResumes(g) \/ WPutTimesOut(g)
  PROVE  Inv'
<1>1. Live(g) /\ w[g].pc = "put" /\ resp' = resp
  BY DEF WPutResumes, WPutTimesOut
<1>2. PICK es : es = w[g].waiting
  OBVIOUS
<1>3. es \in Seq(Events) /\ es # <<>> /\ Len(es) <= 3
  BY <1>1, <1>2 DEF Inv, Types, Waits, Watcher
<1>4. /\ Tail(es) \in Seq(Events) /\ Len(Tail(es)) = Len(es) - 1
      /\ \A i \in 1..Len(Tail(es)) : Tail(es)[i] = es[i + 1]
  BY <1>3, HeadTailProperties
<1>5. Len(Tail(es)) \in 0..3 /\ Last(es) \in Events
      /\ (Tail(es) # <<>> => Tail(es)[Len(Tail(es))] = Last(es))
  <2>1. Len(es) \in Nat \ {0}
    BY <1>3, EmptySeq
  <2>2. Tail(es) # <<>> => Len(Tail(es)) \in Nat \ {0}
    BY <1>4, EmptySeq
  <2> QED BY <1>3, <1>4, <2>1, <2>2 DEF Last
<1>6. PICK r : /\ r = PutReturns(Pipe(g)) \/ r = PutGivesUp(Pipe(g))
               /\ Enqueued(g, r, Last(es), w[g].delay)
  BY <1>2 DEF WPutResumes, WPutTimesOut
<1>7. Pipe(g).waiting = es
  BY <1>2 DEF Pipe
<1>8. PICK q, degr : r = EnqueueAll([queue |-> q, degraded |-> degr, waiting |-> <<>>], Tail(es))
  BY <1>6, <1>7 DEF PutReturns, PutGivesUp
<1>9. Side([queue |-> q, degraded |-> degr, waiting |-> <<>>])
  BY DEF Side
<1>10. Ends(r, Tail(es))
  BY <1>4, <1>5, <1>8, <1>9, EnqueueAllEnds
<1>11. w[g].delay \in ReconnectDelay..MaxDelay
  BY DelayTyped
<1>12. InResponse(g) <=> After(Last(es)) = "stream"
  BY <1>1, <1>2 DEF InResponse
<1> QED BY <1>1, <1>5, <1>6, <1>10, <1>11, <1>12, EnqueuedMoves, ResponseInv DEF Ends

(* Steps that take a watcher on, or end it, without a word.                 *)
LEMMA BackoffInv ==
  ASSUME Inv, NEW g \in Gens, WBackoffEnds(g)
  PROVE  Inv'
<1>0. Types /\ Waits /\ Unborn /\ OneResponse /\ RunningTruth /\ ResponseHeld
  BY DEF Inv
<1>1. PICK delay \in ReconnectDelay..MaxDelay : w' = Moved(g, "connect", <<>>, delay)
  <2>1. w[g].delay \in ReconnectDelay..MaxDelay
    BY DelayTyped
  <2> QED BY <2>1, StreamAssumption DEF WBackoffEnds
<1>2. Live(g) /\ w[g].pc = "backoff" /\ UNCHANGED <<stopSet, running, gen, task, resp>>
  BY DEF WBackoffEnds, selfVars
<1>3. /\ w'[g] = [pc |-> "connect", cancel |-> w[g].cancel, waiting |-> <<>>, delay |-> delay]
      /\ \A h \in Gens \ {g} : w'[h] = w[h]
  BY <1>0, <1>1, MovedTo DEF Types
<1>4. Types'
  <2>1. <<>> \in Seq(Events)
    OBVIOUS
  <2> QED BY <1>0, <1>1, <1>2, <2>1, MovedTyped DEF Types
<1>5. Waits' /\ Unborn'
  BY <1>0, <1>2, <1>3 DEF Waits, Unborn
<1>6. \A h \in Gens : (InResponse(h)' <=> InResponse(h)) /\ (Live(h)' <=> Live(h))
  BY <1>2, <1>3 DEF InResponse, Live
<1>7. OneResponse' /\ RunningTruth' /\ ResponseHeld'
  <2>1. resp # 0 => resp \in Gens
    BY <1>0 DEF Types, Gens
  <2> QED BY <1>0, <1>2, <1>6, <2>1 DEF OneResponse, RunningTruth, ResponseHeld
<1> QED BY <1>4, <1>5, <1>7 DEF Inv

(* A cancelled watcher that held the response gives it up.                  *)
LEMMA CancelledInv ==
  ASSUME Inv, NEW g \in Gens, WCancelled(g)
  PROVE  Inv'
<1>0. Types /\ Waits /\ Unborn /\ OneResponse /\ RunningTruth /\ ResponseHeld
  BY DEF Inv
<1>1. /\ w[g].cancel /\ UNCHANGED <<stopSet, running, gen, task>>
      /\ w' = Moved(g, "done", <<>>, w[g].delay)
      /\ resp' = IF InResponse(g) THEN 0 ELSE resp
  BY DEF WCancelled, selfVars
<1>2. /\ w'[g] = [pc |-> "done", cancel |-> w[g].cancel, waiting |-> <<>>, delay |-> w[g].delay]
      /\ \A h \in Gens \ {g} : w'[h] = w[h]
  <2>1. PICK delay : delay = w[g].delay
    OBVIOUS
  <2>2. w' = Moved(g, "done", <<>>, delay) /\ w \in [Gens -> Watcher]
    BY <1>0, <1>1, <2>1 DEF Types
  <2>3. /\ w'[g] = [pc |-> "done", cancel |-> w[g].cancel, waiting |-> <<>>, delay |-> delay]
        /\ \A h \in Gens \ {g} : w'[h] = w[h]
    BY <2>2, MovedTo
  <2> QED BY <2>1, <2>3
<1>3. Types'
  <2>1. <<>> \in Seq(Events) /\ w[g].delay \in ReconnectDelay..MaxDelay
    BY DelayTyped
  <2>2. w' \in [Gens -> Watcher]
    BY <1>0, <1>1, <2>1, MovedTyped DEF Types
  <2>3. resp' \in 0..MaxStarts
    <3>1. resp' \in {0, resp}
      BY <1>1
    <3> QED BY <1>0, <3>1, StreamAssumption DEF Types
  <2> QED BY <1>0, <1>1, <2>2, <2>3 DEF Types
<1>4. w[g].pc # "none"
  BY <1>0, <1>1 DEF Unborn
<1>5. Waits' /\ Unborn'
  BY <1>0, <1>1, <1>2, <1>4 DEF Waits, Unborn
<1>6. /\ \A h \in Gens : Live(h)' <=> Live(h)
      /\ \A h \in Gens \ {g} : InResponse(h)' <=> InResponse(h)
      /\ ~InResponse(g)'
  BY <1>1, <1>2 DEF InResponse, Live
<1>7. OneResponse' /\ RunningTruth'
  BY <1>0, <1>1, <1>6 DEF OneResponse, RunningTruth
<1>8. ResponseHeld'
  <2>1. resp # 0 => resp \in Gens
    BY <1>0 DEF Types, Gens
  <2>2. ~Live(g)
    BY <1>1 DEF Live
  <2> QED BY <1>0, <1>1, <1>6, <2>1, <2>2 DEF ResponseHeld, OneResponse
<1> QED BY <1>3, <1>5, <1>7, <1>8 DEF Inv

(* Every step keeps the invariant, and so it always holds.                  *)
LEMMA NextInv == ASSUME Inv, [Next]_vars PROVE Inv'
<1>1. ASSUME NEW x \in Users, Call(x) PROVE Inv'
  <2>1. CASE UStart(x)
    BY <2>1, StartInv DEF UStart
  <2>2. CASE UStop(x)
    BY <2>2, StopInv DEF UStop
  <2>3. CASE UStopReturns(x)
    BY <2>3, StillInv DEF UStopReturns
  <2> QED BY <1>1, <2>1, <2>2, <2>3 DEF Call
<1>2. ASSUME NEW g \in Gens, Timer(g) PROVE Inv'
  BY <1>2, PutInv, BackoffInv DEF Timer
<1>3. ASSUME NEW g \in Gens, Cancellation(g) PROVE Inv'
  <2>1. CASE WCancelled(g)
    BY <2>1, CancelledInv
  <2>2. CASE DCancelled(g)
    BY <2>2, StillInv DEF DCancelled
  <2> QED BY <1>3, <2>1, <2>2 DEF Cancellation
<1>4. ASSUME NEW g \in Gens, Listener(g) PROVE Inv'
  BY <1>4, StartInv, StopInv DEF Listener, LStart, LStop
<1>5. ASSUME NEW g \in Gens, Dispatch(g) \/ LStopReturns(g) PROVE Inv'
  <2>1. UNCHANGED <<selfVars, resp, w>>
    BY <1>5 DEF Dispatch, LStopReturns, DGet, DEmitEnds, DRefreshed
  <2> QED BY <2>1, StillInv
<1>6. CASE UNCHANGED vars
  BY <1>6, StillInv DEF vars
<1> QED BY <1>1, <1>2, <1>3, <1>4, <1>5, <1>6, NetworkInv DEF Next

(* The invariant of the specification.                                      *)
LEMMA AlwaysInv == Safe => []Inv
  BY InitInv, NextInv, PTL DEF Safe

-----------------------------------------------------------------------------
(* `running` is set exactly while the current watcher is live, however      *)
(* starts, stops, cancellations and rejected logins interleave              *)
(* (events.py:226-281, 335-371).                                            *)
THEOREM RunningIsTrue == Safe => []RunningTruth
<1>1. Inv => RunningTruth
  BY DEF Inv
<1> QED BY <1>1, AlwaysInv, PTL

(* self._resp is always the response that the live watcher reads, never one *)
(* of a watcher that has left it (events.py:389-401).                       *)
THEOREM ResponseIsHeld == Safe => []ResponseHeld
<1>1. Inv => ResponseHeld
  BY DEF Inv
<1> QED BY <1>1, AlwaysInv, PTL
-----------------------------------------------------------------------------
(* What stop() leaves, and the sentinel.  For these the dispatchers, the    *)
(* callers and the queues come in.                                          *)

EndsIn(q, e) == q # <<>> /\ q[Len(q)] = e

(* What is appended comes last.                                             *)
LEMMA AppendEndsIn ==
  ASSUME NEW q \in Seq(Events), NEW e \in Events
  PROVE  Append(q, e) \in Seq(Events) /\ EndsIn(Append(q, e), e)
<1>1. /\ Append(q, e) \in Seq(Events) /\ Len(Append(q, e)) = Len(q) + 1
      /\ Append(q, e)[Len(q) + 1] = e
  BY AppendProperties
<1>2. Append(q, e) # <<>>
  BY AppendProperties
<1> QED BY <1>1, <1>2 DEF EndsIn

(* There is room for e once the oldest event is gone.                       *)
LEMMA DisplaceEndsIn ==
  ASSUME NEW q \in Seq(Events), Len(q) <= QueueMax, NEW e \in Events
  PROVE  Displace(q, e) \in Seq(Events) /\ EndsIn(Displace(q, e), e)
         /\ Len(Displace(q, e)) <= QueueMax
<1>1. PICK t : t = WithoutOldest(q)
  OBVIOUS
<1>2. t \in Seq(Events) /\ Len(t) < QueueMax
  <2>1. CASE q = <<>>
    <3>1. t = <<>>
      BY <1>1, <2>1 DEF WithoutOldest
    <3>2. <<>> \in Seq(Events) /\ Len(<<>>) = 0
      OBVIOUS
    <3> QED BY <3>1, <3>2, QueueMaxAssumption
  <2>2. CASE q # <<>>
    <3>1. t = Tail(q)
      BY <1>1, <2>2 DEF WithoutOldest
    <3>2. Tail(q) \in Seq(Events) /\ Len(Tail(q)) = Len(q) - 1
      BY <2>2, HeadTailProperties
    <3> QED BY <3>1, <3>2, QueueMaxAssumption
  <2> QED BY <2>1, <2>2
<1>3. Displace(q, e) = Append(t, e)
  BY <1>1, <1>2, QueueMaxAssumption DEF Displace, PutNowait, IsFull
<1>4. Len(Append(t, e)) = Len(t) + 1
  BY <1>2, AppendProperties
<1>5. Len(t) \in Nat
  BY <1>2, LenProperties
<1>6. Len(Displace(q, e)) <= QueueMax
  BY <1>2, <1>3, <1>4, <1>5, QueueMaxAssumption
<1> QED BY <1>2, <1>3, <1>6, AppendEndsIn

(* A queue within its bound.                                                *)
Queues == {q \in Seq(Events) : Len(q) <= QueueMax}

(* A put that need not wait leaves its event at the end of the queue.       *)
LEMMA EnqueueFills ==
  ASSUME NEW r, Side(r), r.queue \in Queues, NEW e \in Events, NEW n, n = Enqueue(r, e)
  PROVE  /\ Side(n) /\ n.queue \in Queues
         /\ n.waiting = <<>> => EndsIn(n.queue, e)
<1>1. Side(n)
  BY EnqueueEnds
<1>2. r.queue \in Seq(Events) /\ Len(r.queue) <= QueueMax /\ Len(r.queue) \in Nat
  BY LenProperties DEF Queues
<1>3. CASE r.waiting # <<>>
  <2>1. n = [queue |-> r.queue, degraded |-> r.degraded, waiting |-> Append(r.waiting, e)]
    BY <1>3 DEF Enqueue, Side
  <2>2. Append(r.waiting, e) # <<>>
    BY AppendProperties DEF Side
  <2> QED BY <1>1, <2>1, <2>2
<1>4. CASE r.waiting = <<>> /\ ~IsFull(r.queue)
  <2>1. n.queue = Append(r.queue, e)
    BY <1>4 DEF Enqueue, Side
  <2>2. Len(Append(r.queue, e)) = Len(r.queue) + 1
    BY <1>2, AppendProperties
  <2>3. Len(n.queue) <= QueueMax
    BY <1>2, <1>4, <2>1, <2>2, QueueMaxAssumption DEF IsFull
  <2>4. n.queue \in Seq(Events) /\ EndsIn(n.queue, e)
    BY <1>2, <2>1, AppendEndsIn
  <2> QED BY <1>1, <2>3, <2>4 DEF Queues
<1>5. CASE r.waiting = <<>> /\ IsFull(r.queue) /\ r.degraded
  <2>1. n.queue = Displace(r.queue, e)
    BY <1>5 DEF Enqueue, Side
  <2>2. n.queue \in Seq(Events) /\ EndsIn(n.queue, e) /\ Len(n.queue) <= QueueMax
    BY <1>2, <2>1, DisplaceEndsIn
  <2> QED BY <1>1, <2>2 DEF Queues
<1>6. CASE r.waiting = <<>> /\ IsFull(r.queue) /\ ~r.degraded
  <2>1. n = [queue |-> r.queue, degraded |-> r.degraded, waiting |-> <<e>>]
    BY <1>6 DEF Enqueue, Side
  <2>2. <<e>> # <<>>
    OBVIOUS
  <2> QED BY <1>1, <2>1, <2>2
<1> QED BY <1>3, <1>4, <1>5, <1>6

(* So does the last of up to three puts.                                    *)
LEMMA EnqueueAllFills ==
  ASSUME NEW r, Side(r), r.queue \in Queues, NEW es \in Seq(Events), Len(es) \in 1..3,
         NEW n, n = EnqueueAll(r, es)
  PROVE  /\ n.queue \in Queues
         /\ n.waiting = <<>> => EndsIn(n.queue, es[Len(es)])
<1>0. \A i \in 1..Len(es) : es[i] \in Events
  BY ElementOfSeq
<1>1. PICK e1 \in Events : e1 = es[1]
  BY <1>0
<1>2. PICK r1 : r1 = Enqueue(r, e1)
  OBVIOUS
<1>3. Side(r1) /\ r1.queue \in Queues /\ (r1.waiting = <<>> => EndsIn(r1.queue, e1))
  BY <1>2, EnqueueFills
<1>4. CASE Len(es) = 1
  <2>1. n = r1
    BY <1>1, <1>2, <1>4 DEF EnqueueAll
  <2> QED BY <1>1, <1>3, <1>4, <2>1
<1>5. CASE Len(es) \in 2..3
  <2>1. PICK e2 \in Events : e2 = es[2]
    BY <1>0, <1>5
  <2>2. PICK r2 : r2 = Enqueue(r1, e2)
    OBVIOUS
  <2>3. Side(r2) /\ r2.queue \in Queues /\ (r2.waiting = <<>> => EndsIn(r2.queue, e2))
    BY <1>3, <2>2, EnqueueFills
  <2>4. CASE Len(es) = 2
    <3>1. n = r2
      BY <1>1, <1>2, <2>1, <2>2, <2>4 DEF EnqueueAll
    <3> QED BY <2>1, <2>3, <2>4, <3>1
  <2>5. CASE Len(es) = 3
    <3>1. PICK e3 \in Events : e3 = es[3]
      BY <1>0, <2>5
    <3>2. n = Enqueue(r2, e3)
      BY <1>1, <1>2, <2>1, <2>2, <2>5, <3>1 DEF EnqueueAll
    <3>3. n.queue \in Queues /\ (n.waiting = <<>> => EndsIn(n.queue, e3))
      BY <2>3, <3>2, EnqueueFills
    <3> QED BY <2>5, <3>1, <3>3
  <2> QED BY <1>5, <2>4, <2>5
<1> QED BY <1>4, <1>5

-----------------------------------------------------------------------------
(* The invariant for them.  Without an overlap all but the newest           *)
(* generation has ended; a dispatcher then waits for its own queue, and     *)
(* what a stop() does not await had ended before.                           *)

Tasks ==
  /\ d \in [Gens -> Dispatcher] /\ u \in [Users -> User]
  /\ queue \in [0..MaxStarts -> Queues]
  /\ overlapped \in BOOLEAN

Started ==
  \A g \in Gens : /\ d[g].pc = "none" <=> g > gen
                  /\ d[g].pc = "none" => ~d[g].cancel

Forgotten == task = 0 => gen = 0 \/ stopSet

Ended(g) == w[g].pc = "done" /\ d[g].pc = "done"

Serial == ~overlapped => \A g \in Gens : g < gen => Ended(g)

OwnQueue == ~overlapped => \A g \in Gens : d[g].pc = "get" => d[g].q = g

Awaits ==
  \A x \in Users : u[x].pc = "stopping" =>
    /\ u[x].upto <= gen
    /\ overlapped \/ \A g \in Gens : g <= u[x].upto =>
                       (g = u[x].waitW /\ g = u[x].waitD) \/ Ended(g)

Whole == Tasks /\ Started /\ Forgotten /\ Serial /\ OwnQueue /\ Awaits

Both == Inv /\ Whole /\ SentinelKept

(* Before the first start() there is no task to tell of.                    *)
LEMMA InitBoth == Init => Both
<1> SUFFICES ASSUME Init PROVE Both
  OBVIOUS
<1>1. /\ \A g \in Gens : w[g].pc = "none" /\ d[g].pc = "none" /\ ~d[g].cancel
      /\ gen = 0 /\ task = 0 /\ overlapped = FALSE
      /\ \A x \in Users : u[x].pc = "idle"
  BY DEF Init
<1>2. Tasks
  <2>1. <<>> \in Queues
    <3>1. <<>> \in Seq(Events) /\ Len(<<>>) = 0
      OBVIOUS
    <3> QED BY <3>1, QueueMaxAssumption DEF Queues
  <2>2. queue \in [0..MaxStarts -> Queues]
    BY <2>1 DEF Init
  <2>3. 0 \in 0..MaxStarts
    BY StreamAssumption
  <2>4. u \in [Users -> User]
    BY <2>3 DEF Init, User
  <2>5. d \in [Gens -> Dispatcher]
    BY <2>3 DEF Init, Dispatcher
  <2> QED BY <1>1, <2>2, <2>4, <2>5 DEF Tasks
<1>3. Started /\ Forgotten /\ Serial /\ OwnQueue /\ Awaits
  BY <1>1, StreamAssumption DEF Started, Forgotten, Serial, OwnQueue, Awaits, Gens
<1>4. SentinelKept
  BY <1>1 DEF SentinelKept, EndedItself
<1> QED BY <1>2, <1>3, <1>4, InitInv DEF Both, Whole

(* A step that only takes tasks on.                                         *)
LEMMA MovesOn ==
  ASSUME Inv, Whole, Tasks', UNCHANGED <<gen, task, stopSet, overlapped, u>>,
         \A g \in Gens :
           /\ w[g].pc = "done" => w'[g].pc = "done"
           /\ d[g].pc = "done" => d'[g].pc = "done"
           /\ d'[g].pc = "none" <=> d[g].pc = "none"
           /\ d[g].pc = "none" => d'[g] = d[g]
           /\ d'[g].pc = "get" => \/ d[g].pc = "get" /\ d'[g].q = d[g].q
                                  \/ d[g].pc \notin {"none", "done"} /\ d'[g].q = gen
  PROVE  Whole'
<1>0. Started /\ Forgotten /\ Serial /\ OwnQueue /\ Awaits
  BY DEF Whole
<1>1. \A g \in Gens : Ended(g) => Ended(g)'
  BY DEF Ended
<1>2. Started' /\ Forgotten' /\ Serial'
  BY <1>0, <1>1 DEF Started, Forgotten, Serial
<1>3. Awaits'
  BY <1>0, <1>1 DEF Awaits
<1>4. OwnQueue'
  <2> SUFFICES ASSUME ~overlapped, NEW g \in Gens, d'[g].pc = "get" PROVE d'[g].q = g
    BY DEF OwnQueue
  <2>1. CASE d[g].pc = "get" /\ d'[g].q = d[g].q
    BY <1>0, <2>1 DEF OwnQueue
  <2>2. CASE d[g].pc \notin {"none", "done"} /\ d'[g].q = gen
    <3>1. ~(g < gen) /\ ~(g > gen)
      BY <1>0, <2>2 DEF Serial, Ended, Started
    <3>2. g = gen
      BY <3>1 DEF Inv, Types, Gens
    <3> QED BY <2>2, <3>2
  <2> QED BY <2>1, <2>2
<1> QED BY <1>2, <1>3, <1>4 DEF Whole

-----------------------------------------------------------------------------
(* The watcher's steps.                                                     *)

Stepped(g) ==
  /\ \E q \in Queues : /\ queue' = [queue EXCEPT ![g] = q]
                       /\ w'[g].pc = "done" => EndsIn(q, "END")
                       /\ w'[g].pc = "backoff" => EndsIn(q, "DISCONNECTED")
  /\ w[g].pc # "done"
  /\ \A h \in Gens \ {g} : w'[h] = w[h]
  /\ UNCHANGED <<stopSet, gen, task, d, u, overlapped, view>>

(* A watcher that enqueues takes a step of its own.                         *)
LEMMA EnqueuedSteps ==
  ASSUME Inv, NEW g \in Gens, Live(g), NEW r, NEW last \in Events, NEW delay,
         r.queue \in Queues, r.waiting = <<>> => EndsIn(r.queue, last),
         Enqueued(g, r, last, delay), UNCHANGED u
  PROVE  Stepped(g)
<1>1. PICK pc : pc = IF r.waiting # <<>> THEN "put" ELSE After(last)
  OBVIOUS
<1>2. /\ w' = Moved(g, pc, r.waiting, delay) /\ queue' = [queue EXCEPT ![g] = r.queue]
      /\ UNCHANGED <<stopSet, gen, task, d, u, overlapped, view>>
  BY <1>1 DEF Enqueued, history
<1>3. w'[g].pc = pc /\ \A h \in Gens \ {g} : w'[h] = w[h]
  <2>1. w \in [Gens -> Watcher]
    BY DEF Inv, Types
  <2>2. PICK waiting : waiting = r.waiting
    OBVIOUS
  <2>3. w' = Moved(g, pc, waiting, delay)
    BY <1>2, <2>2
  <2>4. w'[g] = [pc |-> pc, cancel |-> w[g].cancel, waiting |-> waiting, delay |-> delay]
        /\ \A h \in Gens \ {g} : w'[h] = w[h]
    BY <2>1, <2>3, MovedTo
  <2> QED BY <2>4
<1>4. /\ pc = "done" => last = "END" /\ r.waiting = <<>>
      /\ pc = "backoff" => last = "DISCONNECTED" /\ r.waiting = <<>>
  BY <1>1 DEF After
<1>5. w[g].pc # "done"
  BY DEF Live
<1> QED BY <1>2, <1>3, <1>4, <1>5 DEF Stepped

(* What _enqueue works on is typed.                                         *)
LEMMA PipeSide ==
  ASSUME Inv, Tasks, NEW g \in Gens
  PROVE  Side(Pipe(g)) /\ Pipe(g).queue \in Queues
<1>1. w[g].waiting \in Seq(Events)
  BY DEF Inv, Types, Watcher
<1>2. queue[g] \in Queues
  <2>1. g \in 0..MaxStarts
    BY DEF Gens
  <2> QED BY <2>1 DEF Tasks
<1> QED BY <1>1, <1>2 DEF Side, Pipe

(* Announcing is such a step, from where no put is suspended.               *)
LEMMA AnnounceSteps ==
  ASSUME Inv, Tasks, NEW g \in Gens, Live(g), NEW es \in Seq(Events), Len(es) \in 1..3,
         NEW delay, Announce(g, es, delay), UNCHANGED u
  PROVE  Stepped(g)
<1>1. PICK r : r = EnqueueAll(Pipe(g), es)
  OBVIOUS
<1>2. r.queue \in Queues /\ (r.waiting = <<>> => EndsIn(r.queue, es[Len(es)]))
  BY <1>1, PipeSide, EnqueueAllFills
<1>3. Last(es) \in Events /\ Last(es) = es[Len(es)]
  BY DEF Last
<1>4. Enqueued(g, r, Last(es), delay)
  BY <1>1 DEF Announce
<1> QED BY <1>2, <1>3, <1>4, EnqueuedSteps

(* Whatever the network does, the watcher announces up to three events.     *)
LEMMA NetworkAnnounces ==
  ASSUME NEW g \in Gens, Network(g)
  PROVE  \E es, delay : es \in Seq(Events) /\ Len(es) \in 1..3 /\ Announce(g, es, delay)
<1>1. \A e \in Events : <<e>> \in Seq(Events) /\ Len(<<e>>) = 1
  OBVIOUS
<1>2. {"CONNECTED", "DISCONNECTED", "LINE", "CONFIGCHANGE", "AUTHFAIL", "END"} \subseteq Events
  BY DEF Events
<1>3. \E es, delay : es \in Seq(Events) /\ Len(es) \in 1..3 /\ Announce(g, es, delay)
  <2>1. CASE WConnects(g) \/ WConnectFails(g) \/ WEof(g) \/ WDrops(g)
    <3>1. \E e, dl : e \in Events /\ Announce(g, <<e>>, dl)
      BY <1>2, <2>1 DEF WConnects, WConnectFails, WEof, WDrops
    <3>2. PICK e, dl : e \in Events /\ Announce(g, <<e>>, dl)
      BY <3>1
    <3>3. PICK es : es = <<e>>
      OBVIOUS
    <3>4. es \in Seq(Events) /\ Len(es) \in 1..3 /\ Announce(g, es, dl)
      BY <1>1, <3>2, <3>3
    <3> QED BY <3>4
  <2>2. CASE \E event \in {"LINE", "CONFIGCHANGE"} : WLine(g, event)
    <3>1. \E e, dl : e \in Events /\ Announce(g, <<e>>, dl)
      BY <1>2, <2>2 DEF WLine
    <3>2. PICK e, dl : e \in Events /\ Announce(g, <<e>>, dl)
      BY <3>1
    <3>3. PICK es : es = <<e>>
      OBVIOUS
    <3>4. es \in Seq(Events) /\ Len(es) \in 1..3 /\ Announce(g, es, dl)
      BY <1>1, <3>2, <3>3
    <3> QED BY <3>4
  <2>3. CASE WRejected(g)
    <3>1. PICK es : es = <<"AUTHFAIL", "DISCONNECTED", "END">>
      OBVIOUS
    <3>2. es \in Seq(Events) /\ Len(es) = 3
      BY <3>1 DEF Events
    <3>3. Announce(g, es, w[g].delay)
      BY <2>3, <3>1 DEF WRejected
    <3> QED BY <3>2, <3>3
  <2> QED BY <2>1, <2>2, <2>3 DEF Network
<1> QED BY <1>3

(* So is whatever the network does.                                         *)
LEMMA NetworkSteps ==
  ASSUME Inv, Tasks, NEW g \in Gens, Network(g)
  PROVE  Stepped(g)
<1>1. Live(g)
  BY DEF Network, WConnects, WRejected, WConnectFails, WLine, WEof, WDrops, FromNetwork
<1>2. PICK es, delay : es \in Seq(Events) /\ Len(es) \in 1..3 /\ Announce(g, es, delay)
  BY NetworkAnnounces
<1>3. UNCHANGED u
  BY <1>2 DEF Announce, Enqueued
<1> QED BY <1>1, <1>2, <1>3, AnnounceSteps

(* So is the end of a suspended put.                                        *)
LEMMA PutSteps ==
  ASSUME Inv, Tasks, NEW g \in Gens, WPutResumes(g) \/ WPutTimesOut(g)
  PROVE  Stepped(g)
<1>1. Live(g) /\ w[g].pc = "put"
  BY DEF WPutResumes, WPutTimesOut
<1>2. PICK es : es = w[g].waiting
  OBVIOUS
<1>3. es \in Seq(Events) /\ es # <<>> /\ Len(es) <= 3
  BY <1>1, <1>2 DEF Inv, Types, Waits, Watcher
<1>4. /\ Head(es) \in Events /\ Head(es) = es[1]
      /\ Tail(es) \in Seq(Events) /\ Len(Tail(es)) = Len(es) - 1
      /\ \A i \in 1..Len(Tail(es)) : Tail(es)[i] = es[i + 1]
  <2>1. Head(es) \in Events /\ Tail(es) \in Seq(Events) /\ Len(Tail(es)) = Len(es) - 1
        /\ \A i \in 1..Len(Tail(es)) : Tail(es)[i] = es[i + 1]
    BY <1>3, HeadTailProperties
  <2>2. Head(es) = es[1]
    BY <1>3
  <2> QED BY <2>1, <2>2
<1>5. Len(es) \in Nat \ {0} /\ Last(es) \in Events /\ Last(es) = es[Len(es)]
  <2>1. Len(es) \in Nat \ {0}
    BY <1>3, EmptySeq
  <2> QED BY <1>3, <2>1 DEF Last
<1>6. queue[g] \in Queues
  BY PipeSide DEF Pipe
<1>7. PICK q, degr, r : /\ r = EnqueueAll([queue |-> q, degraded |-> degr, waiting |-> <<>>],
                                          Tail(es))
                        /\ q \in Queues /\ EndsIn(q, Head(es))
                        /\ Enqueued(g, r, Last(es), w[g].delay)
  <2>0. queue[g] \in Seq(Events) /\ Len(queue[g]) <= QueueMax /\ Len(queue[g]) \in Nat
    BY <1>6, LenProperties DEF Queues
  <2>1. CASE WPutResumes(g)
    <3>1. ~IsFull(queue[g]) /\ Enqueued(g, PutReturns(Pipe(g)), Last(es), w[g].delay)
      BY <1>2, <2>1 DEF WPutResumes
    <3>2. PICK q : q = Append(queue[g], Head(es))
      OBVIOUS
    <3>3. q \in Seq(Events) /\ EndsIn(q, Head(es)) /\ Len(q) = Len(queue[g]) + 1
      BY <1>4, <2>0, <3>2, AppendEndsIn, AppendProperties
    <3>4. Len(q) <= QueueMax
      BY <2>0, <3>1, <3>3, QueueMaxAssumption DEF IsFull
    <3>5. PutReturns(Pipe(g)) =
            EnqueueAll([queue |-> q, degraded |-> degraded, waiting |-> <<>>], Tail(es))
      BY <1>2, <3>2 DEF PutReturns, Pipe
    <3> QED BY <3>1, <3>3, <3>4, <3>5 DEF Queues
  <2>2. CASE WPutTimesOut(g)
    <3>1. Enqueued(g, PutGivesUp(Pipe(g)), Last(es), w[g].delay)
      BY <1>2, <2>2 DEF WPutTimesOut
    <3>2. PICK q : q = Displace(queue[g], Head(es))
      OBVIOUS
    <3>3. q \in Seq(Events) /\ EndsIn(q, Head(es)) /\ Len(q) <= QueueMax
      BY <1>4, <2>0, <3>2, DisplaceEndsIn
    <3>4. PutGivesUp(Pipe(g)) =
            EnqueueAll([queue |-> q, degraded |-> TRUE, waiting |-> <<>>], Tail(es))
      BY <1>2, <3>2 DEF PutGivesUp, Pipe
    <3> QED BY <3>1, <3>3, <3>4 DEF Queues
  <2> QED BY <2>1, <2>2
<1>8. UNCHANGED u
  BY <1>7 DEF Enqueued
<1>9. r.queue \in Queues /\ (r.waiting = <<>> => EndsIn(r.queue, Last(es)))
  <2>1. PICK before : before = [queue |-> q, degraded |-> degr, waiting |-> <<>>]
    OBVIOUS
  <2>2. before.queue = q /\ Side(before) /\ r = EnqueueAll(before, Tail(es))
    BY <1>7, <2>1 DEF Side
  <2>3. CASE Len(es) = 1
    <3>1. r = before
      <4>1. Len(Tail(es)) = 0
        BY <1>4, <2>3
      <4> QED BY <2>2, <4>1 DEF EnqueueAll
    <3>2. Last(es) = Head(es)
      BY <1>4, <1>5, <2>3
    <3> QED BY <1>7, <2>2, <3>1, <3>2
  <2>4. CASE Len(es) # 1
    <3>1. Len(Tail(es)) \in 1..3 /\ Tail(es)[Len(Tail(es))] = Last(es)
      BY <1>3, <1>4, <1>5, <2>4
    <3>2. r.queue \in Queues /\ (r.waiting = <<>> => EndsIn(r.queue, Tail(es)[Len(Tail(es))]))
      BY <1>4, <1>7, <2>2, <3>1, EnqueueAllFills
    <3> QED BY <3>1, <3>2
  <2> QED BY <2>3, <2>4
<1> QED BY <1>1, <1>5, <1>7, <1>8, <1>9, EnqueuedSteps

(* A watcher that ends in such a step has left the sentinel.                *)
LEMMA SteppedBoth ==
  ASSUME Both, NEW g \in Gens, Stepped(g), Inv'
  PROVE  Both'
<1>0. Inv /\ Whole /\ SentinelKept /\ Tasks
  BY DEF Both, Whole
<1>1. /\ w[g].pc # "done" /\ \A h \in Gens \ {g} : w'[h] = w[h]
      /\ UNCHANGED <<stopSet, gen, task, d, u, overlapped>>
  BY DEF Stepped
<1>2. PICK q \in Queues : /\ queue' = [queue EXCEPT ![g] = q]
                          /\ w'[g].pc = "done" => EndsIn(q, "END")
  BY DEF Stepped
<1>3. g \in 0..MaxStarts /\ \A h \in Gens : h \in 0..MaxStarts
  BY DEF Gens
<1>4. Tasks' /\ queue'[g] = q /\ \A h \in Gens \ {g} : queue'[h] = queue[h]
  BY <1>0, <1>1, <1>2, <1>3 DEF Tasks
<1>5. Whole'
  BY <1>0, <1>1, <1>4, MovesOn
<1>6. SentinelKept'
  <2> SUFFICES ASSUME NEW h \in Gens, w'[h].pc = "done", ~w'[h].cancel, ~overlapped
               PROVE  d[h].pc = "done" \/ \E i \in 1..Len(queue'[h]) : queue'[h][i] = "END"
    BY <1>1 DEF SentinelKept, EndedItself
  <2>1. CASE h # g
    BY <1>0, <1>1, <1>4, <2>1 DEF SentinelKept, EndedItself
  <2>2. CASE h = g
    <3>1. q # <<>> /\ q[Len(q)] = "END" /\ q \in Seq(Events)
      BY <1>2, <2>2 DEF EndsIn, Queues
    <3>2. Len(q) \in 1..Len(q)
      BY <3>1, EmptySeq
    <3> QED BY <1>4, <2>2, <3>1, <3>2
  <2> QED BY <2>1, <2>2
<1> QED BY <1>5, <1>6 DEF Both

(* A watcher goes on, or ends, without a word.                              *)
LEMMA SilentBoth ==
  ASSUME Both, NEW g \in Gens, WBackoffEnds(g) \/ WCancelled(g), Inv'
  PROVE  Both'
<1>0. Inv /\ Whole /\ SentinelKept /\ Tasks
  BY DEF Both, Whole
<1>1. UNCHANGED <<stopSet, gen, task, queue, d, u, overlapped>>
  BY DEF WBackoffEnds, WCancelled, selfVars, history
<1>2. PICK pc, delay : /\ w' = Moved(g, pc, <<>>, delay) /\ w[g].pc # "done"
                       /\ pc = "connect" \/ (pc = "done" /\ w[g].cancel)
  BY DEF WBackoffEnds, WCancelled, Live
<1>3. w'[g].pc = pc /\ w'[g].cancel = w[g].cancel /\ \A h \in Gens \ {g} : w'[h] = w[h]
  <2>1. w \in [Gens -> Watcher]
    BY <1>0 DEF Inv, Types
  <2>2. PICK still : still = <<>>
    OBVIOUS
  <2>3. /\ w'[g] = [pc |-> pc, cancel |-> w[g].cancel, waiting |-> still, delay |-> delay]
        /\ \A h \in Gens \ {g} : w'[h] = w[h]
    BY <1>2, <2>1, <2>2, MovedTo
  <2> QED BY <2>3
<1>4. Whole'
  <2>1. Tasks'
    BY <1>0, <1>1 DEF Tasks
  <2>2. \A h \in Gens : w[h].pc = "done" => w'[h].pc = "done"
    BY <1>2, <1>3
  <2> QED BY <1>0, <1>1, <2>1, <2>2, MovesOn
<1>5. SentinelKept'
  <2>1. \A h \in Gens : EndedItself(h)' => EndedItself(h)
    BY <1>2, <1>3 DEF EndedItself
  <2> QED BY <1>0, <1>1, <2>1 DEF SentinelKept
<1> QED BY <1>4, <1>5 DEF Both

-----------------------------------------------------------------------------
(* The dispatcher's steps.                                                  *)

(* Dispatched changes one dispatcher.                                       *)
LEMMA DispatchedTo ==
  ASSUME d \in [Gens -> Dispatcher], NEW g \in Gens, NEW pc, NEW hand, NEW q
  PROVE  /\ Dispatched(g, pc, hand, q)[g] =
              [pc |-> pc, cancel |-> d[g].cancel, hand |-> hand, q |-> q,
               waitW |-> 0, waitD |-> 0]
         /\ \A h \in Gens \ {g} : Dispatched(g, pc, hand, q)[h] = d[h]
  BY DEF Dispatched

(* Dispatched keeps the type of the dispatchers.                            *)
LEMMA DispatchedTyped ==
  ASSUME d \in [Gens -> Dispatcher], NEW g \in Gens,
         NEW pc \in {"get", "emit", "refresh", "done"},
         NEW hand \in Events \cup {"NONE", "REFRESH"}, NEW q \in 0..MaxStarts
  PROVE  Dispatched(g, pc, hand, q) \in [Gens -> Dispatcher]
<1>1. 0 \in 0..MaxStarts
  BY StreamAssumption
<1> QED BY <1>1 DEF Dispatched, Dispatcher

(* Where the dispatcher comes to, and with which event in hand.             *)
Dispatches(g, pc, hand, q) ==
  /\ d' = Dispatched(g, pc, hand, q)
  /\ pc \in {"get", "emit", "refresh", "done"}
  /\ hand \in Events \cup {"NONE", "REFRESH"} /\ q \in 0..MaxStarts
  /\ pc = "get" => q = gen
  /\ d[g].pc \notin {"none", "done"}
  /\ UNCHANGED <<stopSet, gen, task, w, u, overlapped>>

(* A dispatcher that goes on is still the newest, at its own queue.         *)
LEMMA DispatchesWhole ==
  ASSUME Inv, Whole, NEW g \in Gens, NEW pc, NEW hand, NEW q, Dispatches(g, pc, hand, q),
         queue' \in [0..MaxStarts -> Queues]
  PROVE  /\ Whole' /\ d'[g].pc = pc
         /\ \A h \in Gens : d[h].pc = "done" => d'[h].pc = "done"
<1>1. /\ d' = Dispatched(g, pc, hand, q)
      /\ pc \in {"get", "emit", "refresh", "done"}
      /\ hand \in Events \cup {"NONE", "REFRESH"} /\ q \in 0..MaxStarts
      /\ pc = "get" => q = gen
      /\ d[g].pc \notin {"none", "done"}
      /\ UNCHANGED <<stopSet, gen, task, w, u, overlapped>>
  BY DEF Dispatches
<1>2. d \in [Gens -> Dispatcher] /\ Tasks
  BY DEF Whole, Tasks
<1>3. /\ d'[g] = [pc |-> pc, cancel |-> d[g].cancel, hand |-> hand, q |-> q,
                  waitW |-> 0, waitD |-> 0]
      /\ \A h \in Gens \ {g} : d'[h] = d[h]
  BY <1>1, <1>2, DispatchedTo
<1>4. d' \in [Gens -> Dispatcher]
  BY <1>1, <1>2, DispatchedTyped
<1>5. Tasks'
  BY <1>1, <1>2, <1>4 DEF Tasks
<1>6. \A h \in Gens : /\ d[h].pc = "done" => d'[h].pc = "done"
                      /\ d'[h].pc = "none" <=> d[h].pc = "none"
                      /\ d[h].pc = "none" => d'[h] = d[h]
                      /\ d'[h].pc = "get" => \/ d[h].pc = "get" /\ d'[h].q = d[h].q
                                             \/ d[h].pc \notin {"none", "done"} /\ d'[h].q = gen
  BY <1>1, <1>3
<1> QED BY <1>1, <1>3, <1>5, <1>6, MovesOn

(* The queue is left alone.                                                 *)
LEMMA QuietBoth ==
  ASSUME Both, Inv', NEW g \in Gens,
         DEmitEnds(g) \/ DRefreshed(g) \/ DCancelled(g) \/ LStopReturns(g)
  PROVE  Both'
<1>0. Inv /\ Whole /\ SentinelKept /\ Tasks /\ d[g] \in Dispatcher /\ gen \in 0..MaxStarts
  BY DEF Both, Whole, Tasks, Inv, Types
<1>1. UNCHANGED <<stopSet, gen, task, w, u, overlapped, queue>>
  BY DEF DEmitEnds, DRefreshed, DCancelled, LStopReturns, selfVars, history
<1>2. d[g].hand \in Events \cup {"NONE", "REFRESH"} /\ d[g].q \in 0..MaxStarts
      /\ "CONFIGCHANGE" \in Events
  BY <1>0 DEF Dispatcher, Events
<1>3. PICK pc, hand, q : Dispatches(g, pc, hand, q)
  <2>1. CASE DEmitEnds(g)
    <3>1. \/ d' = Dispatched(g, "done", "NONE", d[g].q)
          \/ d' = Dispatched(g, "refresh", "CONFIGCHANGE", d[g].q)
          \/ d' = Dispatched(g, "get", "NONE", gen)
      BY <2>1 DEF DEmitEnds
    <3>2. d[g].pc = "emit"
      BY <2>1 DEF DEmitEnds
    <3>3. CASE d' = Dispatched(g, "done", "NONE", d[g].q)
      <4>1. Dispatches(g, "done", "NONE", d[g].q)
        BY <1>1, <1>2, <3>2, <3>3 DEF Dispatches
      <4> QED BY <4>1
    <3>4. CASE d' = Dispatched(g, "refresh", "CONFIGCHANGE", d[g].q)
      <4>1. Dispatches(g, "refresh", "CONFIGCHANGE", d[g].q)
        BY <1>1, <1>2, <3>2, <3>4 DEF Dispatches
      <4> QED BY <4>1
    <3>5. CASE d' = Dispatched(g, "get", "NONE", gen)
      <4>1. Dispatches(g, "get", "NONE", gen)
        BY <1>0, <1>1, <1>2, <3>2, <3>5 DEF Dispatches
      <4> QED BY <4>1
    <3> QED BY <3>1, <3>3, <3>4, <3>5
  <2>2. CASE DRefreshed(g)
    <3>1. Dispatches(g, "emit", "REFRESH", d[g].q)
      BY <1>1, <1>2, <2>2 DEF DRefreshed, Dispatches
    <3> QED BY <3>1
  <2>3. CASE DCancelled(g)
    <3>1. d[g].pc \notin {"none", "done"}
      BY <1>0, <2>3 DEF DCancelled, Whole, Started
    <3>2. Dispatches(g, "done", "NONE", d[g].q)
      BY <1>1, <1>2, <2>3, <3>1 DEF DCancelled, Dispatches
    <3> QED BY <3>2
  <2>4. CASE LStopReturns(g)
    <3>1. Dispatches(g, "emit", d[g].hand, d[g].q)
      BY <1>1, <1>2, <2>4 DEF LStopReturns, Dispatches
    <3> QED BY <3>1
  <2> QED BY <2>1, <2>2, <2>3, <2>4
<1>4. queue' \in [0..MaxStarts -> Queues]
  BY <1>0, <1>1 DEF Tasks
<1>5. Whole' /\ \A h \in Gens : d[h].pc = "done" => d'[h].pc = "done"
  BY <1>0, <1>3, <1>4, DispatchesWhole
<1>6. SentinelKept'
  BY <1>0, <1>1, <1>5 DEF SentinelKept, EndedItself
<1> QED BY <1>5, <1>6 DEF Both

(* The dispatcher takes an event: the sentinel it takes is its last.        *)
LEMMA GetBoth ==
  ASSUME Both, Inv', NEW g \in Gens, DGet(g)
  PROVE  Both'
<1>0. Inv /\ Whole /\ SentinelKept /\ Tasks /\ d[g] \in Dispatcher /\ OwnQueue
  BY DEF Both, Whole, Tasks
<1>1. PICK q \in 0..MaxStarts : q = d[g].q
  BY <1>0 DEF Dispatcher
<1>2. PICK s \in Queues : s = queue[q]
  BY <1>0 DEF Tasks
<1>3. /\ d[g].pc = "get" /\ s # <<>> /\ queue' = [queue EXCEPT ![q] = Tail(s)]
      /\ UNCHANGED <<stopSet, gen, task, w, u, overlapped>>
      /\ \/ Head(s) = "END" /\ d' = Dispatched(g, "done", "NONE", q)
         \/ d' = Dispatched(g, "done", "NONE", q)
         \/ Head(s) # "END" /\ d' = Dispatched(g, "emit", Head(s), q)
  BY <1>1, <1>2 DEF DGet, selfVars, history
<1>4. s \in Seq(Events) /\ Len(s) <= QueueMax /\ Len(s) \in Nat
  BY LenProperties DEF Queues
<1>5. /\ Head(s) \in Events /\ Tail(s) \in Seq(Events) /\ Len(Tail(s)) = Len(s) - 1
      /\ \A i \in 1..Len(Tail(s)) : Tail(s)[i] = s[i + 1]
      /\ Head(s) = s[1]
  <2>1. /\ Head(s) \in Events /\ Tail(s) \in Seq(Events) /\ Len(Tail(s)) = Len(s) - 1
        /\ \A i \in 1..Len(Tail(s)) : Tail(s)[i] = s[i + 1]
    BY <1>3, <1>4, HeadTailProperties
  <2>2. Head(s) = s[1]
    BY <1>3
  <2> QED BY <2>1, <2>2
<1>6. Tail(s) \in Queues
  BY <1>4, <1>5, QueueMaxAssumption DEF Queues
<1>7. /\ queue' \in [0..MaxStarts -> Queues]
      /\ queue'[q] = Tail(s) /\ \A h \in (0..MaxStarts) \ {q} : queue'[h] = queue[h]
  BY <1>0, <1>3, <1>6 DEF Tasks
<1>8. PICK pc, hand : /\ Dispatches(g, pc, hand, q)
                      /\ pc = "done" \/ Head(s) # "END"
  <2>1. CASE d' = Dispatched(g, "done", "NONE", q)
    <3>1. Dispatches(g, "done", "NONE", q)
      BY <1>3, <2>1 DEF Dispatches
    <3> QED BY <3>1
  <2>2. CASE Head(s) # "END" /\ d' = Dispatched(g, "emit", Head(s), q)
    <3>1. PICK hand : hand = Head(s)
      OBVIOUS
    <3>2. Dispatches(g, "emit", hand, q)
      BY <1>3, <1>5, <2>2, <3>1 DEF Dispatches
    <3> QED BY <2>2, <3>2
  <2> QED BY <1>3, <2>1, <2>2
<1>9. /\ Whole' /\ d'[g].pc = pc
      /\ \A h \in Gens : d[h].pc = "done" => d'[h].pc = "done"
  BY <1>0, <1>7, <1>8, DispatchesWhole
<1>10. SentinelKept'
  <2> SUFFICES ASSUME NEW h \in Gens, EndedItself(h), ~overlapped
               PROVE  d'[h].pc = "done" \/ \E i \in 1..Len(queue'[h]) : queue'[h][i] = "END"
    BY <1>3 DEF SentinelKept, EndedItself
  <2>1. d[h].pc = "done" \/ \E i \in 1..Len(queue[h]) : queue[h][i] = "END"
    BY <1>0 DEF SentinelKept
  <2>2. q = g
    BY <1>0, <1>1, <1>3 DEF OwnQueue
  <2>3. h \in 0..MaxStarts
    BY DEF Gens
  <2>4. CASE h # g
    BY <1>7, <1>9, <2>1, <2>2, <2>3, <2>4
  <2>5. CASE h = g
    <3>1. CASE pc = "done"
      BY <1>9, <2>5, <3>1
    <3>2. CASE Head(s) # "END"
      <4>1. PICK i \in 1..Len(s) : s[i] = "END"
        BY <1>2, <1>3, <2>1, <2>2, <2>5
      <4>2. i # 1
        BY <1>5, <3>2, <4>1
      <4>3. i - 1 \in 1..Len(Tail(s)) /\ Tail(s)[i - 1] = s[(i - 1) + 1] /\ (i - 1) + 1 = i
        BY <1>4, <1>5, <4>2
      <4> QED BY <1>7, <2>2, <2>5, <4>1, <4>3
    <3> QED BY <1>8, <3>1, <3>2
  <2> QED BY <2>4, <2>5
<1> QED BY <1>9, <1>10 DEF Both

-----------------------------------------------------------------------------
(* start() and stop().                                                      *)

(* start(): unless calls overlap, every task before the new ones has ended. *)
LEMMA StartBoth ==
  ASSUME Both, Inv', Start
  PROVE  Both'
<1>0. Inv /\ Whole /\ SentinelKept /\ Tasks
  BY DEF Both, Whole
<1>1. /\ gen' = gen + 1 /\ task' = gen + 1 /\ gen < MaxStarts /\ u' = u
      /\ queue' = [queue EXCEPT ![gen + 1] = <<>>]
      /\ w' = Moved(gen + 1, "connect", <<>>, ReconnectDelay)
      /\ d' = Dispatched(gen + 1, "get", "NONE", gen + 1)
      /\ overlapped' = (overlapped \/ ~AllDone)
  BY DEF Start
<1>2. gen + 1 \in Gens /\ gen \in Nat
  BY <1>0, <1>1, StreamAssumption DEF Inv, Types, Gens
<1>3. PICK n \in Gens : n = gen + 1
  BY <1>2
<1>4. d[n].pc = "none"
  BY <1>0, <1>2, <1>3 DEF Whole, Started
<1>5. /\ w'[n].pc = "connect" /\ \A h \in Gens \ {n} : w'[h] = w[h]
  <2>1. w \in [Gens -> Watcher]
    BY <1>0 DEF Inv, Types
  <2>2. PICK waiting, delay : waiting = <<>> /\ delay = ReconnectDelay
    OBVIOUS
  <2>3. /\ w'[n] = [pc |-> "connect", cancel |-> w[n].cancel, waiting |-> waiting,
                    delay |-> delay]
        /\ \A h \in Gens \ {n} : w'[h] = w[h]
    BY <1>1, <1>3, <2>1, <2>2, MovedTo
  <2> QED BY <2>3
<1>6. /\ d'[n] = [pc |-> "get", cancel |-> d[n].cancel, hand |-> "NONE", q |-> n,
                  waitW |-> 0, waitD |-> 0]
      /\ \A h \in Gens \ {n} : d'[h] = d[h]
  BY <1>0, <1>1, <1>3, DispatchedTo DEF Tasks
<1>7. n \in 0..MaxStarts /\ \A h \in Gens : h \in 0..MaxStarts
  BY DEF Gens
<1>8. \A h \in Gens \ {n} : queue'[h] = queue[h]
  BY <1>0, <1>1, <1>3, <1>7 DEF Tasks
<1>9. Tasks'
  <2>1. <<>> \in Queues
    <3>1. <<>> \in Seq(Events) /\ Len(<<>>) = 0
      OBVIOUS
    <3> QED BY <3>1, QueueMaxAssumption DEF Queues
  <2>2. queue' \in [0..MaxStarts -> Queues]
    BY <1>0, <1>1, <1>3, <1>7, <2>1 DEF Tasks
  <2>3. d' \in [Gens -> Dispatcher]
    BY <1>0, <1>1, <1>3, <1>7, DispatchedTyped DEF Tasks
  <2>4. overlapped' \in BOOLEAN
    BY <1>0, <1>1 DEF Tasks
  <2> QED BY <1>0, <1>1, <2>2, <2>3, <2>4 DEF Tasks
<1>10. Started'
  BY <1>0, <1>1, <1>2, <1>3, <1>6 DEF Whole, Started, Gens
<1>11. Forgotten'
  BY <1>1, <1>2 DEF Forgotten
<1>12. \A g \in Gens : g # n => (Ended(g)' <=> Ended(g))
  BY <1>5, <1>6 DEF Ended
<1>13. Serial'
  <2> SUFFICES ASSUME ~overlapped', NEW g \in Gens, g < gen + 1 PROVE Ended(g)'
    BY <1>1 DEF Serial
  <2>1. g \in 1..gen /\ g # n /\ g # 0
    BY <1>2, <1>3 DEF Gens
  <2>2. Ended(g)
    BY <1>1, <2>1 DEF AllDone, WDone, DDone, Ended
  <2> QED BY <1>12, <2>1, <2>2
<1>14. OwnQueue'
  <2> SUFFICES ASSUME NEW g \in Gens, ~overlapped', d'[g].pc = "get"
               PROVE  d'[g].q = g
    BY DEF OwnQueue
  <2>1. ~overlapped
    BY <1>1
  <2>2. CASE g = n
    BY <1>6, <2>2
  <2>3. CASE g # n
    BY <1>0, <1>6, <2>1, <2>3 DEF Whole, OwnQueue
  <2> QED BY <2>2, <2>3
<1>15. Awaits'
  <2> SUFFICES ASSUME NEW x \in Users, u[x].pc = "stopping"
               PROVE  /\ u[x].upto <= gen + 1
                      /\ overlapped' \/ \A g \in Gens : g <= u[x].upto =>
                           (g = u[x].waitW /\ g = u[x].waitD) \/ Ended(g)'
    BY <1>1 DEF Awaits
  <2>1. /\ u[x].upto <= gen
        /\ overlapped \/ \A g \in Gens : g <= u[x].upto =>
                           (g = u[x].waitW /\ g = u[x].waitD) \/ Ended(g)
    BY <1>0 DEF Whole, Awaits
  <2>2. u[x].upto \in Nat
    BY <1>0 DEF Tasks, User
  <2>3. \A g \in Gens : g <= u[x].upto => g # n
    BY <1>2, <1>3, <2>1, <2>2 DEF Gens
  <2>4. u[x].upto <= gen + 1
    BY <1>2, <2>1, <2>2
  <2> QED BY <1>1, <1>12, <2>1, <2>3, <2>4
<1>16. SentinelKept'
  <2> SUFFICES ASSUME NEW h \in Gens, EndedItself(h)', ~overlapped'
               PROVE  d'[h].pc = "done" \/ \E i \in 1..Len(queue'[h]) : queue'[h][i] = "END"
    BY DEF SentinelKept
  <2>1. h # n /\ EndedItself(h) /\ ~overlapped
    BY <1>1, <1>5 DEF EndedItself
  <2>2. d[h].pc = "done" \/ \E i \in 1..Len(queue[h]) : queue[h][i] = "END"
    BY <1>0, <2>1 DEF SentinelKept
  <2> QED BY <1>6, <1>8, <2>1, <2>2
<1> QED BY <1>9, <1>10, <1>11, <1>13, <1>14, <1>15, <1>16 DEF Both, Whole

(* stop(), whoever calls it: `current` and the callers are told apart by    *)
(* what becomes of them.                                                    *)
Stops(current) ==
  /\ StopCalled(current)
  /\ d' \in [Gens -> Dispatcher]
  /\ \A h \in Gens : /\ d'[h].q = d[h].q
                     /\ d[h].pc = "none" => ~d'[h].cancel
                     /\ d'[h].pc = d[h].pc \/ (d[h].pc = "emit" /\ d'[h].pc = "stopping")
  /\ u' \in [Users -> User]
  /\ \A x \in Users : \/ u'[x] = u[x]
                      \/ /\ u'[x].pc = "stopping" /\ u'[x].upto = gen
                         /\ u'[x].waitW = task /\ u'[x].waitD = task

(* What stop() does to one dispatcher.                                      *)
LEMMA CancelDispatcherTo ==
  ASSUME Inv, Whole, NEW current, NEW h \in Gens, NEW n, n = CancelDispatcher(current)
  PROVE  /\ n[h] \in Dispatcher /\ n[h].pc = d[h].pc /\ n[h].q = d[h].q
         /\ d[h].pc = "none" => ~n[h].cancel
<1>1. d[h] \in Dispatcher
  BY DEF Whole, Tasks
<1>2. CASE h = task /\ h # current /\ ~DDone(h)
  <2>1. n[h] = [d[h] EXCEPT !.cancel = TRUE]
    BY <1>2 DEF CancelDispatcher
  <2>2. d[h].pc # "none"
    <3>1. ~(h > gen)
      BY <1>2 DEF Inv, Types, Gens
    <3> QED BY <3>1 DEF Whole, Started
  <2> QED BY <1>1, <2>1, <2>2 DEF Dispatcher
<1>3. CASE ~(h = task /\ h # current /\ ~DDone(h))
  <2>1. n[h] = d[h]
    BY <1>3 DEF CancelDispatcher
  <2> QED BY <1>1, <2>1 DEF Whole, Started
<1> QED BY <1>2, <1>3

(* stop() by a caller outside the stream.                                   *)
LEMMA UStopStops ==
  ASSUME Both, NEW x \in Users, UStop(x)
  PROVE  Stops(0)
<1>0. Inv /\ Whole /\ Tasks /\ task \in 0..MaxStarts /\ gen \in 0..MaxStarts
  BY StreamAssumption DEF Both, Whole, Inv, Types
<1>1. PICK n : n = CancelDispatcher(0)
  OBVIOUS
<1>2. /\ StopCalled(0) /\ d' = n
      /\ u' = [u EXCEPT ![x] = [pc |-> "stopping", waitW |-> task, waitD |-> task, upto |-> gen]]
  BY <1>1 DEF UStop
<1>3. \A h \in Gens : /\ n[h] \in Dispatcher /\ n[h].pc = d[h].pc /\ n[h].q = d[h].q
                      /\ d[h].pc = "none" => ~n[h].cancel
  BY <1>0, <1>1, CancelDispatcherTo
<1>4. d' \in [Gens -> Dispatcher]
  <2>1. n = [h \in Gens |-> n[h]]
    BY <1>1 DEF CancelDispatcher
  <2> QED BY <1>2, <1>3, <2>1
<1>5. u' \in [Users -> User]
  BY <1>0, <1>2 DEF Tasks, User
<1>6. \A y \in Users : \/ u'[y] = u[y]
                       \/ /\ u'[y].pc = "stopping" /\ u'[y].upto = gen
                          /\ u'[y].waitW = task /\ u'[y].waitD = task
  BY <1>0, <1>2 DEF Tasks
<1> QED BY <1>2, <1>3, <1>4, <1>5, <1>6 DEF Stops

(* stop() by a listener.                                                    *)
LEMMA LStopStops ==
  ASSUME Both, NEW g \in Gens, LStop(g)
  PROVE  Stops(g)
<1>0. Inv /\ Whole /\ Tasks /\ task \in 0..MaxStarts /\ d[g] \in Dispatcher
  BY StreamAssumption DEF Both, Whole, Inv, Types, Tasks
<1>1. PICK n : n = CancelDispatcher(g)
  OBVIOUS
<1>2. PICK waitD : waitD = IF task = g THEN 0 ELSE task
  OBVIOUS
<1>3. /\ StopCalled(g) /\ d[g].pc = "emit" /\ u' = u
      /\ d' = [n EXCEPT ![g] = [pc |-> "stopping", cancel |-> d[g].cancel, hand |-> d[g].hand,
                                q |-> d[g].q, waitW |-> task, waitD |-> waitD]]
  BY <1>1, <1>2 DEF LStop
<1>4. \A h \in Gens : /\ n[h] \in Dispatcher /\ n[h].pc = d[h].pc /\ n[h].q = d[h].q
                      /\ d[h].pc = "none" => ~n[h].cancel
  BY <1>0, <1>1, CancelDispatcherTo
<1>5. n \in [Gens -> Dispatcher]
  <2>1. n = [h \in Gens |-> n[h]]
    BY <1>1 DEF CancelDispatcher
  <2> QED BY <1>4, <2>1
<1>6. /\ d'[g] = [pc |-> "stopping", cancel |-> d[g].cancel, hand |-> d[g].hand,
                  q |-> d[g].q, waitW |-> task, waitD |-> waitD]
      /\ \A h \in Gens \ {g} : d'[h] = n[h]
  BY <1>3, <1>5
<1>7. d'[g] \in Dispatcher
  <2>1. waitD \in 0..MaxStarts
    BY <1>0, <1>2, StreamAssumption
  <2> QED BY <1>0, <1>6, <2>1 DEF Dispatcher
<1>8. d' \in [Gens -> Dispatcher]
  BY <1>3, <1>4, <1>5, <1>6, <1>7
<1>9. \A h \in Gens : /\ d'[h].q = d[h].q
                      /\ d[h].pc = "none" => ~d'[h].cancel
                      /\ d'[h].pc = d[h].pc \/ (d[h].pc = "emit" /\ d'[h].pc = "stopping")
  BY <1>3, <1>4, <1>6
<1> QED BY <1>0, <1>3, <1>8, <1>9 DEF Stops, Tasks

(* stop() awaits all that has not ended, and drops nothing from the queue.  *)
LEMMA StopsBoth ==
  ASSUME Both, Inv', NEW current, Stops(current)
  PROVE  Both'
<1>0. Inv /\ Whole /\ SentinelKept /\ Tasks
  BY DEF Both, Whole
<1>1. /\ stopSet' = TRUE /\ task' = 0 /\ gen' = gen
      /\ queue' = [queue EXCEPT ![gen] = PutNowait(@, "END")]
      /\ w' = [g \in Gens |-> IF g = task /\ ~WDone(g)
                              THEN [w[g] EXCEPT !.cancel = TRUE] ELSE w[g]]
      /\ overlapped' = (overlapped \/ (stopSet /\ ~AllDone))
  BY DEF Stops, StopCalled
<1>2. /\ d' \in [Gens -> Dispatcher]
      /\ \A h \in Gens : /\ d'[h].q = d[h].q
                         /\ d[h].pc = "none" => ~d'[h].cancel
                         /\ d'[h].pc = d[h].pc \/ (d[h].pc = "emit" /\ d'[h].pc = "stopping")
      /\ u' \in [Users -> User]
      /\ \A x \in Users : \/ u'[x] = u[x]
                          \/ /\ u'[x].pc = "stopping" /\ u'[x].upto = gen
                             /\ u'[x].waitW = task /\ u'[x].waitD = task
  BY DEF Stops
<1>3. \A g \in Gens : w[g] \in Watcher
  BY <1>0 DEF Inv, Types
<1>4. ASSUME NEW g \in Gens
      PROVE  /\ w'[g].pc = w[g].pc
             /\ w[g].cancel => w'[g].cancel
             /\ w[g].pc = "done" => w'[g] = w[g]
  <2>1. CASE g = task /\ ~WDone(g)
    <3>1. w'[g] = [w[g] EXCEPT !.cancel = TRUE] /\ w[g].pc # "done"
      BY <1>1, <2>1 DEF WDone
    <3> QED BY <1>3, <3>1 DEF Watcher
  <2>2. CASE ~(g = task /\ ~WDone(g))
    BY <1>1, <2>2
  <2> QED BY <2>1, <2>2
<1>5. \A g \in Gens : Ended(g)' <=> Ended(g)
  BY <1>2, <1>4 DEF Ended
<1>6. gen \in 0..MaxStarts /\ task \in {0, gen}
  BY <1>0 DEF Inv, Types
<1>7. PICK s \in Queues : s = queue[gen]
  BY <1>0, <1>6 DEF Tasks
<1>8. PICK t : t = PutNowait(s, "END")
  OBVIOUS
<1>9. t \in Queues /\ Len(s) <= Len(t) /\ \A i \in 1..Len(s) : t[i] = s[i]
  <2>1. s \in Seq(Events) /\ Len(s) <= QueueMax /\ Len(s) \in Nat /\ "END" \in Events
    BY LenProperties DEF Queues, Events
  <2>2. CASE IsFull(s)
    <3>1. t = s
      BY <1>8, <2>2 DEF PutNowait
    <3> QED BY <2>1, <3>1
  <2>3. CASE ~IsFull(s)
    <3>1. t = Append(s, "END")
      BY <1>8, <2>3 DEF PutNowait
    <3>2. /\ t \in Seq(Events) /\ Len(t) = Len(s) + 1
          /\ \A i \in 1..Len(s) : t[i] = s[i]
      BY <2>1, <3>1, AppendProperties
    <3>3. Len(t) <= QueueMax
      BY <2>1, <2>3, <3>2, QueueMaxAssumption DEF IsFull
    <3> QED BY <2>1, <3>2, <3>3 DEF Queues
  <2> QED BY <2>2, <2>3
<1>10. /\ queue' \in [0..MaxStarts -> Queues] /\ queue'[gen] = t
       /\ \A h \in (0..MaxStarts) \ {gen} : queue'[h] = queue[h]
  <2>1. queue' = [queue EXCEPT ![gen] = t]
    BY <1>1, <1>7, <1>8
  <2> QED BY <1>0, <1>6, <1>9, <2>1 DEF Tasks
<1>11. Tasks'
  <2>1. overlapped' \in BOOLEAN
    BY <1>0, <1>1 DEF Tasks
  <2> QED BY <1>2, <1>10, <2>1 DEF Tasks
<1>12. Started' /\ Forgotten' /\ Serial'
  <2>1. Started'
    BY <1>0, <1>1, <1>2 DEF Whole, Started
  <2>2. Forgotten'
    BY <1>1 DEF Forgotten
  <2>3. Serial'
    BY <1>0, <1>1, <1>5 DEF Whole, Serial
  <2> QED BY <2>1, <2>2, <2>3
<1>13. OwnQueue'
  BY <1>0, <1>1, <1>2 DEF Whole, OwnQueue
<1>14. Awaits'
  <2> SUFFICES ASSUME NEW x \in Users, u'[x].pc = "stopping"
               PROVE  /\ u'[x].upto <= gen
                      /\ overlapped' \/ \A g \in Gens : g <= u'[x].upto =>
                           (g = u'[x].waitW /\ g = u'[x].waitD) \/ Ended(g)'
    BY <1>1 DEF Awaits
  <2>1. CASE u'[x] = u[x]
    BY <1>0, <1>1, <1>5, <2>1 DEF Whole, Awaits
  <2>2. CASE u'[x].upto = gen /\ u'[x].waitW = task /\ u'[x].waitD = task
    <3> SUFFICES ASSUME ~overlapped', NEW g \in Gens, g <= gen, g # task
                 PROVE  Ended(g)'
      BY <1>6, <2>2
    <3>1. ~overlapped /\ (stopSet => AllDone)
      BY <1>1
    <3>2. CASE task = gen
      <4>1. g < gen
        BY <1>6, <3>2 DEF Gens
      <4> QED BY <1>0, <1>5, <3>1, <4>1 DEF Whole, Serial
    <3>3. CASE task = 0
      <4>1. stopSet
        BY <1>0, <3>3 DEF Whole, Forgotten, Gens
      <4>2. g \in 1..gen /\ g # 0
        BY <1>6 DEF Gens
      <4>3. Ended(g)
        BY <3>1, <4>1, <4>2 DEF AllDone, WDone, DDone, Ended
      <4> QED BY <1>5, <4>3
    <3> QED BY <1>6, <3>2, <3>3
  <2> QED BY <1>2, <2>1, <2>2
<1>15. SentinelKept'
  <2> SUFFICES ASSUME NEW h \in Gens, EndedItself(h)', ~overlapped'
               PROVE  d'[h].pc = "done" \/ \E i \in 1..Len(queue'[h]) : queue'[h][i] = "END"
    BY DEF SentinelKept
  <2>1. EndedItself(h) /\ ~overlapped /\ h \in 0..MaxStarts
    <3>1. w[h].pc = "done" /\ ~w[h].cancel
      BY <1>4 DEF EndedItself
    <3>2. h \in 0..MaxStarts
      BY DEF Gens
    <3>3. ~overlapped
      BY <1>1
    <3> QED BY <3>1, <3>2, <3>3 DEF EndedItself
  <2>2. d[h].pc = "done" \/ \E i \in 1..Len(queue[h]) : queue[h][i] = "END"
    BY <1>0, <2>1 DEF SentinelKept
  <2>3. CASE d[h].pc = "done"
    BY <1>2, <2>3
  <2>4. CASE \E i \in 1..Len(queue[h]) : queue[h][i] = "END"
    <3>1. CASE h = gen
      <4>1. PICK i \in 1..Len(s) : s[i] = "END"
        BY <1>7, <2>4, <3>1
      <4>2. i \in 1..Len(t) /\ t[i] = "END"
        <5>1. Len(s) \in Nat /\ Len(t) \in Nat
          BY <1>9, LenProperties DEF Queues
        <5> QED BY <1>9, <4>1, <5>1
      <4> QED BY <1>10, <3>1, <4>2
    <3>2. CASE h # gen
      BY <1>10, <2>1, <2>4, <3>2
    <3> QED BY <3>1, <3>2
  <2> QED BY <2>2, <2>3, <2>4
<1> QED BY <1>11, <1>12, <1>13, <1>14, <1>15 DEF Both, Whole

(* stop() returns.                                                          *)
LEMMA StopReturnsBoth ==
  ASSUME Both, Inv', NEW x \in Users, UStopReturns(x)
  PROVE  Both'
<1>0. Inv /\ Whole /\ SentinelKept /\ Tasks
  BY DEF Both, Whole
<1>1. /\ u' = [u EXCEPT ![x] = [pc |-> "idle", waitW |-> 0, waitD |-> 0, upto |-> 0]]
      /\ UNCHANGED <<stopSet, gen, task, queue, w, d, overlapped>>
  BY DEF UStopReturns, selfVars, history
<1>2. Tasks' /\ \A y \in Users : u'[y] = u[y] \/ u'[y].pc = "idle"
  <2>1. 0 \in 0..MaxStarts
    BY StreamAssumption
  <2> QED BY <1>0, <1>1, <2>1 DEF Tasks, User
<1>3. \A g : Ended(g)' <=> Ended(g)
  BY <1>1 DEF Ended
<1>4. Awaits'
  BY <1>0, <1>1, <1>2, <1>3 DEF Whole, Awaits
<1>5. Started' /\ Forgotten' /\ Serial' /\ OwnQueue'
  BY <1>0, <1>1, <1>3 DEF Whole, Started, Forgotten, Serial, OwnQueue
<1>6. SentinelKept'
  BY <1>0, <1>1 DEF SentinelKept, EndedItself
<1> QED BY <1>2, <1>4, <1>5, <1>6 DEF Both, Whole

(* Every step keeps the whole invariant, and so it always holds.            *)
LEMMA NextBoth == ASSUME Both, [Next]_vars PROVE Both'
<1>0. Inv' /\ Inv /\ Tasks
  BY NextInv DEF Both, Whole
<1>1. ASSUME NEW x \in Users, Call(x) PROVE Both'
  <2>1. CASE UStart(x)
    BY <1>0, <2>1, StartBoth DEF UStart
  <2>2. CASE UStop(x)
    BY <1>0, <2>2, UStopStops, StopsBoth
  <2>3. CASE UStopReturns(x)
    BY <1>0, <2>3, StopReturnsBoth
  <2> QED BY <1>1, <2>1, <2>2, <2>3 DEF Call
<1>2. ASSUME NEW g \in Gens, Network(g) PROVE Both'
  BY <1>0, <1>2, NetworkSteps, SteppedBoth
<1>3. ASSUME NEW g \in Gens, Timer(g) PROVE Both'
  BY <1>0, <1>3, PutSteps, SteppedBoth, SilentBoth DEF Timer
<1>4. ASSUME NEW g \in Gens, Cancellation(g) PROVE Both'
  BY <1>0, <1>4, SilentBoth, QuietBoth DEF Cancellation
<1>5. ASSUME NEW g \in Gens, Listener(g) PROVE Both'
  <2>1. CASE LStart(g)
    BY <1>0, <2>1, StartBoth DEF LStart
  <2>2. CASE LStop(g)
    BY <1>0, <2>2, LStopStops, StopsBoth
  <2> QED BY <1>5, <2>1, <2>2 DEF Listener
<1>6. ASSUME NEW g \in Gens, Dispatch(g) \/ LStopReturns(g) PROVE Both'
  BY <1>0, <1>6, GetBoth, QuietBoth DEF Dispatch
<1>7. CASE UNCHANGED vars
  <2>1. UNCHANGED <<stopSet, gen, task, queue, w, d, u, overlapped>>
    BY <1>7 DEF vars, selfVars, history
  <2>2. Whole'
    BY <2>1 DEF Both, Whole, Tasks, Started, Forgotten, Serial, OwnQueue, Awaits, Ended
  <2>3. SentinelKept'
    BY <2>1 DEF Both, SentinelKept, EndedItself
  <2> QED BY <1>0, <2>2, <2>3 DEF Both
<1> QED BY <1>1, <1>2, <1>3, <1>4, <1>5, <1>6, <1>7 DEF Next

(* The whole invariant of the specification.                                *)
LEMMA AlwaysBoth == Safe => []Both
  BY InitBoth, NextBoth, PTL DEF Safe

-----------------------------------------------------------------------------
(* A watcher that gave up on an authentication failure leaves a dispatcher  *)
(* that has ended or finds the sentinel, whatever the queue has dropped     *)
(* (events.py:348-350).                                                     *)
THEOREM SentinelStays == Safe => []SentinelKept
<1>1. Both => SentinelKept
  BY DEF Both
<1> QED BY <1>1, AlwaysBoth, PTL

(* A stop() that returns leaves no task of the generations it found,        *)
(* whoever else starts and stops the stream meanwhile (events.py:256-281).  *)
THEOREM StopLeavesNothing == Safe => StopIsComplete
<1> DEFINE A == \A x \in Users : u[x].pc = "stopping" /\ u'[x].pc = "idle" =>
                  overlapped \/ \A g \in 1..u[x].upto : WDone(g) /\ DDone(g)
<1>1. ASSUME Both, [Next]_vars PROVE A
  <2> SUFFICES ASSUME NEW x \in Users, u[x].pc = "stopping", u'[x].pc = "idle", ~overlapped,
                      NEW g \in 1..u[x].upto
               PROVE  WDone(g) /\ DDone(g)
    OBVIOUS
  <2>0. Inv /\ Whole /\ Tasks /\ Awaits
    BY <1>1 DEF Both, Whole
  <2>1. u' # u
    OBVIOUS
  <2>2. UStopReturns(x)
    <3>1. ASSUME NEW h \in Gens, Network(h) \/ Timer(h) PROVE FALSE
      <4>1. CASE Network(h) \/ WPutResumes(h) \/ WPutTimesOut(h)
        <5>1. Stepped(h)
          BY <2>0, <4>1, NetworkSteps, PutSteps
        <5> QED BY <2>1, <5>1 DEF Stepped
      <4>2. CASE WBackoffEnds(h)
        BY <2>1, <4>2 DEF WBackoffEnds
      <4> QED BY <3>1, <4>1, <4>2 DEF Timer
    <3>2. ASSUME NEW h \in Gens, Cancellation(h) \/ Listener(h) \/ LStopReturns(h) \/ Dispatch(h)
          PROVE  FALSE
      BY <2>1, <3>2 DEF Cancellation, Listener, LStopReturns, Dispatch, WCancelled, DCancelled,
                        LStart, Start, LStop, DGet, DEmitEnds, DRefreshed
    <3>3. ASSUME NEW y \in Users, Call(y) PROVE UStopReturns(x)
      <4>1. CASE UStart(y)
        BY <2>1, <4>1 DEF UStart, Start
      <4>2. CASE UStop(y)
        <5>1. u'[x] = u[x] \/ u'[x].pc = "stopping"
          BY <2>0, <4>2 DEF UStop, Tasks
        <5> QED BY <5>1
      <4>3. CASE UStopReturns(y)
        <5>1. x # y => u'[x] = u[x]
          BY <2>0, <4>3 DEF UStopReturns, Tasks
        <5> QED BY <4>3, <5>1
      <4> QED BY <3>3, <4>1, <4>2, <4>3 DEF Call
    <3>4. ~UNCHANGED vars
      BY <2>1 DEF vars
    <3> QED BY <1>1, <3>1, <3>2, <3>3, <3>4 DEF Next
  <2>3. WDone(u[x].waitW) /\ DDone(u[x].waitD)
    BY <2>2 DEF UStopReturns
  <2>4. u[x].upto \in 0..MaxStarts
    BY <2>0 DEF Tasks, User
  <2>5. g \in Gens /\ g <= u[x].upto
    <3>1. PICK n \in 0..MaxStarts : n = u[x].upto
      BY <2>4
    <3>2. g \in 1..n
      BY <3>1
    <3>3. g \in 1..MaxStarts /\ g <= n
      BY <3>2, StreamAssumption
    <3> QED BY <3>1, <3>3 DEF Gens
  <2>6. (g = u[x].waitW /\ g = u[x].waitD) \/ Ended(g)
    BY <2>0, <2>5 DEF Awaits
  <2> QED BY <2>3, <2>6 DEF Ended, WDone, DDone
<1>2. Safe => [][A]_vars
  <2> HIDE DEF A
  <2> QED BY <1>1, AlwaysBoth, PTL DEF Safe
<1> QED BY <1>2 DEF StopIsComplete

-----------------------------------------------------------------------------
(* Between two attempts the last word in the queue is DISCONNECTED, or it   *)
(* was the last that the listeners were told.                               *)

Gap(g) == Live(g) /\ w[g].pc = "backoff" /\ ~overlapped

Told(g) == \/ EndsIn(queue[g], "DISCONNECTED")
           \/ queue[g] = <<>> /\ view = "DISCONNECTED"

AllTold == \A g \in Gens : Gap(g) => Told(g)

(* An event is taken from before the last word, or it is the last word.     *)
LEMMA GetTells ==
  ASSUME Both, NEW h \in Gens, DGet(h), NEW g \in Gens, Gap(g), Told(g)
  PROVE  Told(g)'
<1>0. Inv /\ Tasks /\ Started /\ Serial /\ OwnQueue /\ RunningTruth
  BY DEF Both, Whole, Inv
<1>1. running /\ g = task /\ ~stopSet /\ ~overlapped
  BY <1>0 DEF Gap, RunningTruth
<1>2. g = gen
  BY <1>0, <1>1 DEF Inv, Types, Gens
<1>3. d[h].pc = "get" /\ queue[d[h].q] # <<>>
  BY DEF DGet
<1>4. h = g
  <2>1. ~(h < gen) /\ ~(h > gen)
    BY <1>0, <1>1, <1>3 DEF Serial, Ended, Started
  <2> QED BY <1>0, <1>2, <2>1 DEF Inv, Types, Gens
<1>5. d[h].q = g
  BY <1>0, <1>1, <1>3, <1>4 DEF OwnQueue
<1>6. g \in 0..MaxStarts
  BY DEF Gens
<1>7. PICK s \in Queues : s = queue[g]
  BY <1>0, <1>6 DEF Tasks
<1>8. s # <<>> /\ s[Len(s)] = "DISCONNECTED"
  BY <1>3, <1>5, <1>7 DEF Told, EndsIn
<1>9. /\ s \in Seq(Events) /\ Len(s) \in Nat \ {0}
      /\ Tail(s) \in Seq(Events) /\ Len(Tail(s)) = Len(s) - 1
      /\ \A i \in 1..Len(Tail(s)) : Tail(s)[i] = s[i + 1]
      /\ Head(s) = s[1]
  <2>1. s \in Seq(Events) /\ Len(s) \in Nat
    BY LenProperties DEF Queues
  <2>2. Len(s) # 0
    BY <1>8, <2>1, EmptySeq
  <2>3. /\ Tail(s) \in Seq(Events) /\ Len(Tail(s)) = Len(s) - 1
        /\ \A i \in 1..Len(Tail(s)) : Tail(s)[i] = s[i + 1]
    BY <1>8, <2>1, HeadTailProperties
  <2>4. Head(s) = s[1]
    BY <1>8, <2>1
  <2> QED BY <2>1, <2>2, <2>3, <2>4
<1>10. queue'[g] = Tail(s)
  <2>1. queue' = [queue EXCEPT ![g] = Tail(s)]
    BY <1>5, <1>7 DEF DGet
  <2> QED BY <1>0, <1>6, <2>1 DEF Tasks
<1>11. CASE Len(s) = 1
  <2>1. Head(s) = "DISCONNECTED"
    BY <1>8, <1>9, <1>11
  <2>2. view' = "DISCONNECTED"
    BY <1>1, <1>5, <1>7, <2>1 DEF DGet, Connectivity
  <2>3. Tail(s) = <<>>
    <3>1. PICK t \in Seq(Events) : t = Tail(s)
      BY <1>9
    <3>2. Len(t) = 0
      BY <1>9, <1>11, <3>1
    <3> QED BY <3>1, <3>2, EmptySeq
  <2> QED BY <1>10, <2>2, <2>3 DEF Told
<1>12. CASE Len(s) # 1
  <2>1. Len(Tail(s)) \in 1..Len(Tail(s)) /\ Len(Tail(s)) + 1 = Len(s)
    BY <1>9, <1>12
  <2>2. Tail(s)[Len(Tail(s))] = "DISCONNECTED"
    BY <1>8, <1>9, <2>1
  <2>3. Tail(s) # <<>>
    <3>1. PICK t \in Seq(Events) : t = Tail(s)
      BY <1>9
    <3>2. Len(t) # 0
      BY <1>9, <1>12, <3>1
    <3> QED BY <3>1, <3>2, EmptySeq
  <2> QED BY <1>10, <2>2, <2>3 DEF Told, EndsIn
<1> QED BY <1>11, <1>12

(* Every step keeps it.                                                     *)
LEMMA NextTells ==
  ASSUME Both, Inv', AllTold, [Next]_vars
  PROVE  AllTold'
<1> SUFFICES ASSUME NEW g \in Gens, Gap(g)' PROVE Told(g)'
  BY DEF AllTold
<1>0. Inv /\ Tasks /\ RunningTruth' /\ \A h \in Gens : h \in 0..MaxStarts
  BY DEF Both, Whole, Inv, Gens
<1>1. running' /\ g = task' /\ w'[g].pc = "backoff"
  BY <1>0 DEF Gap, RunningTruth
<1>2. ASSUME UNCHANGED <<queue, view, overlapped>>, w'[g] = w[g]
      PROVE  Told(g)'
  <2>1. Told(g)
    BY <1>2 DEF AllTold, Gap, Live
  <2> QED BY <1>2, <2>1 DEF Told, EndsIn
<1>3. ~Start
  <2> SUFFICES ASSUME Start PROVE FALSE
    OBVIOUS
  <2>1. g = gen + 1 /\ w' = Moved(gen + 1, "connect", <<>>, ReconnectDelay)
    BY <1>1 DEF Start
  <2>2. PICK waiting, delay : waiting = <<>> /\ delay = ReconnectDelay
    OBVIOUS
  <2>3. w'[g] = [pc |-> "connect", cancel |-> w[g].cancel, waiting |-> waiting, delay |-> delay]
    BY <1>0, <2>1, <2>2, MovedTo DEF Inv, Types
  <2> QED BY <1>1, <2>3
<1>4. ASSUME NEW current PROVE ~StopCalled(current)
  BY <1>1 DEF StopCalled
<1>5. ASSUME NEW h \in Gens, Stepped(h) PROVE Told(g)'
  <2>1. PICK q \in Queues : /\ queue' = [queue EXCEPT ![h] = q]
                            /\ w'[h].pc = "backoff" => EndsIn(q, "DISCONNECTED")
    BY <1>5 DEF Stepped
  <2>2. /\ \A i \in Gens \ {h} : w'[i] = w[i] /\ queue'[i] = queue[i]
        /\ queue'[h] = q /\ UNCHANGED <<overlapped, view>>
    BY <1>0, <1>5, <2>1 DEF Stepped, Tasks
  <2>3. CASE g = h
    BY <1>1, <2>1, <2>2, <2>3 DEF Told
  <2>4. CASE g # h
    <3>1. Told(g)
      BY <2>2, <2>4 DEF AllTold, Gap, Live
    <3> QED BY <2>2, <2>4, <3>1 DEF Told, EndsIn
  <2> QED BY <2>3, <2>4
<1>6. ASSUME NEW h \in Gens, WBackoffEnds(h) \/ WCancelled(h) PROVE Told(g)'
  <2>1. PICK pc, delay : /\ w' = Moved(h, pc, <<>>, delay) /\ pc \in {"connect", "done"}
                         /\ UNCHANGED <<queue, view, overlapped>>
    BY <1>6 DEF WBackoffEnds, WCancelled, history
  <2>2. PICK waiting : waiting = <<>>
    OBVIOUS
  <2>3. /\ w'[h] = [pc |-> pc, cancel |-> w[h].cancel, waiting |-> waiting, delay |-> delay]
        /\ \A i \in Gens \ {h} : w'[i] = w[i]
    BY <1>0, <2>1, <2>2, MovedTo DEF Inv, Types
  <2>4. g # h
    BY <1>1, <2>1, <2>3
  <2> QED BY <1>2, <2>1, <2>3, <2>4
<1>7. ASSUME NEW h \in Gens, DGet(h) PROVE Told(g)'
  <2>1. Gap(g)
    BY <1>7 DEF DGet, Gap, Live, history
  <2> QED BY <1>7, <2>1, GetTells DEF AllTold
<1>8. ASSUME NEW h \in Gens,
             DEmitEnds(h) \/ DRefreshed(h) \/ DCancelled(h) \/ LStopReturns(h)
      PROVE  Told(g)'
  <2>1. UNCHANGED <<queue, view, overlapped, w>>
    BY <1>8 DEF DEmitEnds, DRefreshed, DCancelled, LStopReturns, history
  <2> QED BY <1>2, <2>1
<1>9. ASSUME NEW x \in Users, Call(x) PROVE Told(g)'
  <2>1. UStopReturns(x)
    BY <1>3, <1>4, <1>9 DEF Call, UStart, UStop
  <2>2. UNCHANGED <<queue, view, overlapped, w>>
    BY <2>1 DEF UStopReturns, history
  <2> QED BY <1>2, <2>2
<1>10. ASSUME NEW h \in Gens, Network(h) \/ Timer(h) PROVE Told(g)'
  BY <1>0, <1>5, <1>6, <1>10, NetworkSteps, PutSteps DEF Timer
<1>11. ASSUME NEW h \in Gens,
              Cancellation(h) \/ Listener(h) \/ LStopReturns(h) \/ Dispatch(h)
       PROVE  Told(g)'
  BY <1>3, <1>4, <1>6, <1>7, <1>8, <1>11 DEF Cancellation, Listener, LStart, LStop, Dispatch
<1>12. CASE UNCHANGED vars
  <2>1. UNCHANGED <<queue, view, overlapped, w>>
    BY <1>12 DEF vars, history
  <2> QED BY <1>2, <2>1
<1> QED BY <1>9, <1>10, <1>11, <1>12 DEF Next

(* The last word is what the listeners believe in the end.                  *)
LEMMA LastWord ==
  ASSUME NEW q \in Seq(Events), EndsIn(q, "DISCONNECTED")
  PROVE  FinalView(q) = "DISCONNECTED"
<1> DEFINE C == {i \in 1..Len(q) : q[i] \in Connectivity}
           Latest(i) == \A j \in C : j <= i
<1>1. Len(q) \in Nat \ {0} /\ q[Len(q)] = "DISCONNECTED"
  <2>1. Len(q) \in Nat /\ Len(q) # 0
    BY LenProperties, EmptySeq DEF EndsIn
  <2> QED BY <2>1 DEF EndsIn
<1>2. Len(q) \in C /\ \A i \in C : i \in Nat /\ i <= Len(q)
  BY <1>1 DEF Connectivity
<1>3. PICK m : m = CHOOSE i \in C : Latest(i)
  OBVIOUS
<1>4. m \in C /\ Latest(m)
  <2>1. \E i \in C : Latest(i)
    BY <1>2
  <2> HIDE DEF C, Latest
  <2> QED BY <1>3, <2>1
<1>5. m = Len(q)
  <2>1. m \in Nat /\ m <= Len(q) /\ Len(q) <= m
    BY <1>2, <1>4
  <2> QED BY <1>1, <2>1
<1>6. C # {}
  BY <1>2
<1>7. FinalView(q) = IF C = {} THEN view ELSE q[m]
  BY <1>3 DEF FinalView
<1> QED BY <1>1, <1>5, <1>6, <1>7

(* While the stream is down between two attempts, the listeners have been   *)
(* told, or will be by what is queued, however much a full queue drops      *)
(* (events.py:314-321, 355-369).                                            *)
THEOREM OutagesAreAnnounced == Safe => []OutageAnnounced
<1>1. Init => AllTold
  BY DEF Init, AllTold, Gap, Live
<1>2. Both /\ Both' /\ AllTold /\ [Next]_vars => AllTold'
  BY NextTells DEF Both
<1>3. Both /\ AllTold => OutageAnnounced
  <2> SUFFICES ASSUME Both, NEW g \in Gens, Told(g)
               PROVE  FinalView(queue[g]) = "DISCONNECTED"
    BY DEF OutageAnnounced, AllTold, Gap
  <2>1. CASE EndsIn(queue[g], "DISCONNECTED")
    <3>1. queue[g] \in Seq(Events)
      BY DEF Both, Whole, Tasks, Queues, Gens
    <3> QED BY <2>1, <3>1, LastWord
  <2>2. CASE queue[g] = <<>> /\ view = "DISCONNECTED"
    <3>1. Len(queue[g]) = 0
      BY <2>2
    <3>2. {i \in 1..Len(queue[g]) : queue[g][i] \in Connectivity} = {}
      BY <3>1
    <3> QED BY <2>2, <3>2 DEF FinalView
  <2> QED BY <2>1, <2>2 DEF Told
<1> QED BY <1>1, <1>2, <1>3, AlwaysBoth, PTL DEF Safe

-----------------------------------------------------------------------------
(* The types that no other invariant needs.                                 *)

Rest ==
  /\ degraded \in BOOLEAN /\ net \in 0..MaxNet
  /\ view \in Connectivity \cup {"NONE"}

(* _enqueue leaves a flag a flag.                                           *)
LEMMA EnqueueFlag ==
  ASSUME NEW r, Side(r), r.degraded \in BOOLEAN, NEW e \in Events, NEW n, n = Enqueue(r, e)
  PROVE  Side(n) /\ n.degraded \in BOOLEAN
<1>1. n.degraded = r.degraded \/ n.degraded = FALSE
  BY DEF Enqueue, Side
<1> QED BY <1>1, EnqueueEnds

(* So do several puts.                                                      *)
LEMMA EnqueueAllFlag ==
  ASSUME NEW r, Side(r), r.degraded \in BOOLEAN, NEW es \in Seq(Events), Len(es) \in 0..3
  PROVE  EnqueueAll(r, es).degraded \in BOOLEAN
<1>0. \A i \in 1..Len(es) : es[i] \in Events
  BY ElementOfSeq
<1>1. CASE Len(es) = 0
  <2>1. EnqueueAll(r, es) = r
    BY <1>1 DEF EnqueueAll
  <2> QED BY <2>1
<1>2. CASE Len(es) \in 1..3
  <2>1. PICK r1 : r1 = Enqueue(r, es[1])
    OBVIOUS
  <2>2. Side(r1) /\ r1.degraded \in BOOLEAN
    BY <1>0, <1>2, <2>1, EnqueueFlag
  <2>3. CASE Len(es) = 1
    <3>1. EnqueueAll(r, es) = r1
      BY <2>1, <2>3 DEF EnqueueAll
    <3> QED BY <2>2, <3>1
  <2>4. CASE Len(es) \in 2..3
    <3>1. PICK r2 : r2 = Enqueue(r1, es[2])
      OBVIOUS
    <3>2. Side(r2) /\ r2.degraded \in BOOLEAN
      BY <1>0, <2>2, <2>4, <3>1, EnqueueFlag
    <3>3. CASE Len(es) = 2
      <4>1. EnqueueAll(r, es) = r2
        BY <2>1, <3>1, <3>3 DEF EnqueueAll
      <4> QED BY <3>2, <4>1
    <3>4. CASE Len(es) = 3
      <4>1. PICK r3 : r3 = Enqueue(r2, es[3])
        OBVIOUS
      <4>2. EnqueueAll(r, es) = r3
        BY <2>1, <3>1, <3>4, <4>1 DEF EnqueueAll
      <4>3. r3.degraded \in BOOLEAN
        BY <1>0, <3>2, <3>4, <4>1, EnqueueFlag
      <4> QED BY <4>2, <4>3
    <3> QED BY <2>4, <3>3, <3>4
  <2> QED BY <1>2, <2>3, <2>4
<1> QED BY <1>1, <1>2

(* Every step keeps these types.                                            *)
LEMMA NextRest == ASSUME Both, Rest, [Next]_vars PROVE Rest'
<1>0. Inv /\ Tasks /\ Types /\ Waits
  BY DEF Both, Whole, Inv
<1>1. ASSUME NEW g \in Gens, Network(g) PROVE Rest'
  <2>1. PICK es, delay : es \in Seq(Events) /\ Len(es) \in 1..3 /\ Announce(g, es, delay)
    BY <1>1, NetworkAnnounces
  <2>2. PICK before : before = Pipe(g)
    OBVIOUS
  <2>3. Side(before) /\ before.degraded = degraded
    BY <1>0, <2>2, PipeSide DEF Pipe
  <2>4. degraded' = EnqueueAll(before, es).degraded /\ UNCHANGED view
    BY <2>1, <2>2 DEF Announce, Enqueued, history
  <2>5. degraded' \in BOOLEAN
    BY <2>1, <2>3, <2>4, EnqueueAllFlag DEF Rest
  <2>6. net < MaxNet /\ net' = net + 1
    BY <1>1 DEF Network, WConnects, WRejected, WConnectFails, WLine, WEof, WDrops, FromNetwork
  <2>7. net' \in 0..MaxNet
    BY <2>6, StreamAssumption DEF Rest
  <2> QED BY <2>4, <2>5, <2>7 DEF Rest
<1>2. ASSUME NEW g \in Gens, WPutResumes(g) \/ WPutTimesOut(g) PROVE Rest'
  <2>1. PICK es : es = w[g].waiting
    OBVIOUS
  <2>2. es \in Seq(Events) /\ es # <<>> /\ Len(es) <= 3
    BY <1>0, <1>2, <2>1 DEF WPutResumes, WPutTimesOut, Types, Waits, Watcher
  <2>3. Tail(es) \in Seq(Events) /\ Len(Tail(es)) \in 0..3
    <3>1. Tail(es) \in Seq(Events) /\ Len(Tail(es)) = Len(es) - 1
      BY <2>2, HeadTailProperties
    <3>2. Len(es) \in Nat /\ Len(es) # 0
      BY <2>2, EmptySeq
    <3> QED BY <2>2, <3>1, <3>2
  <2>4. \E q, degr : /\ degraded' = EnqueueAll([queue |-> q, degraded |-> degr,
                                                waiting |-> <<>>], Tail(es)).degraded
                     /\ degr = degraded \/ degr = TRUE
    <3>1. CASE WPutResumes(g)
      BY <2>1, <3>1 DEF WPutResumes, Enqueued, PutReturns, Pipe
    <3>2. CASE WPutTimesOut(g)
      BY <2>1, <3>2 DEF WPutTimesOut, Enqueued, PutGivesUp, Pipe
    <3> QED BY <1>2, <3>1, <3>2
  <2>5. PICK q, degr : /\ degraded' = EnqueueAll([queue |-> q, degraded |-> degr,
                                                  waiting |-> <<>>], Tail(es)).degraded
                       /\ degr = degraded \/ degr = TRUE
    BY <2>4
  <2>6. PICK before : before = [queue |-> q, degraded |-> degr, waiting |-> <<>>]
    OBVIOUS
  <2>7. Side(before) /\ before.degraded = degr /\ degr \in BOOLEAN
    <3>1. <<>> \in Seq(Events)
      OBVIOUS
    <3> QED BY <2>5, <2>6, <3>1 DEF Side, Rest
  <2>8. degraded' \in BOOLEAN
    BY <2>3, <2>5, <2>6, <2>7, EnqueueAllFlag
  <2>9. UNCHANGED <<net, view>>
    BY <1>2 DEF WPutResumes, WPutTimesOut, Enqueued, history
  <2> QED BY <2>8, <2>9 DEF Rest
<1>3. ASSUME NEW g \in Gens, DGet(g) PROVE Rest'
  <2>1. PICK event : /\ UNCHANGED <<net, degraded>>
                     /\ view' = view \/ (event \in Connectivity /\ view' = event)
    BY <1>3 DEF DGet, history
  <2> QED BY <2>1 DEF Rest
<1>4. ASSUME UNCHANGED <<net, view>>, degraded' = degraded \/ degraded' = FALSE
      PROVE  Rest'
  BY <1>4 DEF Rest
<1>5. ASSUME NEW x \in Users, Call(x) PROVE Rest'
  BY <1>4, <1>5 DEF Call, UStart, Start, UStop, StopCalled, UStopReturns, history
<1>6. ASSUME NEW g \in Gens, \/ WBackoffEnds(g) \/ WCancelled(g)
                             \/ Listener(g) \/ LStopReturns(g)
      PROVE  Rest'
  BY <1>4, <1>6 DEF WBackoffEnds, WCancelled, Listener, LStart, Start, LStop, StopCalled,
                    LStopReturns, history
<1>7. ASSUME NEW g \in Gens, DEmitEnds(g) \/ DRefreshed(g) \/ DCancelled(g) PROVE Rest'
  BY <1>4, <1>7 DEF DEmitEnds, DRefreshed, DCancelled, history
<1>8. CASE UNCHANGED vars
  BY <1>4, <1>8 DEF vars, history
<1> QED BY <1>1, <1>2, <1>3, <1>5, <1>6, <1>7, <1>8 DEF Next, Timer, Cancellation, Dispatch

(* Every variable keeps its type, and every queue its bound, in any run.    *)
THEOREM TypeCorrect == Safe => []TypeOK
<1>1. ASSUME Init PROVE Rest
  <2>1. degraded = FALSE /\ net = 0 /\ view = "NONE"
    BY <1>1 DEF Init
  <2>2. 0 \in 0..MaxNet
    BY StreamAssumption
  <2> QED BY <2>1, <2>2 DEF Rest
<1>2. Both /\ Rest /\ [Next]_vars => Rest'
  BY NextRest
<1>3. Both /\ Rest => TypeOK
  BY DEF Both, Inv, Types, Whole, Tasks, Queues, Rest, TypeOK
<1> QED BY <1>1, <1>2, <1>3, AlwaysBoth, PTL DEF Safe
=============================================================================
