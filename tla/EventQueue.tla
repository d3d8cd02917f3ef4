----------------------------- MODULE EventQueue -----------------------------
(* The bounded asyncio.Queue between the stream reader and the dispatcher,  *)
(* and EventStream._enqueue, the only way an event gets into it             *)
(* (aiosecspy/events.py).                                                   *)
(*                                                                          *)
(* The reader's side of the queue is a record                               *)
(*    queue     the events in the asyncio.Queue, oldest first               *)
(*    degraded  EventStream._queue_degraded                                 *)
(*    waiting   what the reader still has to enqueue: its head is the event *)
(*              of the suspended Queue.put(), the rest follows when that    *)
(*              returns.  <<>> when the reader is not suspended in a put.   *)
EXTENDS Integers, Sequences

CONSTANT QueueMax       \* const.EVENT_QUEUE_MAXSIZE

\* asyncio.Queue(maxsize=0) would be unbounded; the code never asks for it.
ASSUME QueueMaxAssumption == QueueMax \in Nat \ {0}

(* Mutant: off by one.                                                      *)
IsOverfull(q) == Len(q) > QueueMax

IsFull(q) == Len(q) >= QueueMax

(* with suppress(QueueFull): put_nowait(e) *)
PutNowait(q, e) == IF IsFull(q) THEN q ELSE Append(q, e)

(* Mutant: makes room by dropping the newest event.                         *)
WithoutNewest(q) == IF q = <<>> THEN q ELSE SubSeq(q, 1, Len(q) - 1)

(* with suppress(QueueEmpty): get_nowait() *)
WithoutOldest(q) == IF q = <<>> THEN q ELSE Tail(q)

(* Mutant: forgets to make room.                                            *)
PutIfRoom(q, e) == PutNowait(q, e)

(* The end of _enqueue: make room by dropping the oldest event, then put.   *)
Displace(q, e) == PutNowait(WithoutOldest(q), e)

(* What the reader does with event e: join the events behind a suspended    *)
(* put, put it at once, suspend, or, degraded, displace the oldest.         *)
Enqueue(r, e) ==
  IF r.waiting # <<>>
  THEN [r EXCEPT !.waiting = Append(@, e)]
  ELSE IF ~IsFull(r.queue)
       THEN [r EXCEPT !.queue = Append(@, e), !.degraded = FALSE]
       ELSE IF r.degraded
            THEN [r EXCEPT !.queue = Displace(@, e)]
            ELSE [r EXCEPT !.waiting = <<e>>]

(* At most two events follow a suspended put (AUTHFAIL's, see EventStream). *)
EnqueueAll(r, es) ==
  CASE Len(es) = 0 -> r
    [] Len(es) = 1 -> Enqueue(r, es[1])
    [] Len(es) = 2 -> Enqueue(Enqueue(r, es[1]), es[2])
    [] Len(es) = 3 -> Enqueue(Enqueue(Enqueue(r, es[1]), es[2]), es[3])

(* The suspended put went through, because the queue has room again.        *)
PutReturns(r) ==
  EnqueueAll([queue |-> Append(r.queue, Head(r.waiting)),
              degraded |-> r.degraded, waiting |-> <<>>],
             Tail(r.waiting))

(* wait_for gave the suspended put up: degraded mode.  The dispatcher may   *)
(* have drained the queue between the timer and the reader's next step, so  *)
(* the queue this finds can have any length.                                *)
PutGivesUp(r) ==
  EnqueueAll([queue |-> Displace(r.queue, Head(r.waiting)),
              degraded |-> TRUE, waiting |-> <<>>],
             Tail(r.waiting))
=============================================================================
