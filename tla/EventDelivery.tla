--------------------------- MODULE EventDelivery ---------------------------
(* The data plane of one started EventStream (aiosecspy/events.py): the     *)
(* reader turns wire lines into events and enqueues them; the dispatcher    *)
(* takes them off the queue, runs the listeners and re-reads ++systemInfo   *)
(* after a CONFIGCHANGE.  Starting, stopping and reconnecting are in        *)
(* EventStream.                                                             *)
(*                                                                          *)
(* An event is its arrival number and whether it is a CONFIGCHANGE; nothing *)
(* else about it decides how it is delivered.                               *)
EXTENDS EventQueue, FiniteSets

CONSTANTS MaxEvents,              \* bound on the wire lines of a run
          RefreshOnConfigChange   \* start(refresh_on_config_change=...)

ASSUME DeliveryAssumption ==
  /\ MaxEvents \in Nat
  /\ RefreshOnConfigChange \in BOOLEAN

VARIABLES
  queue, degraded, waiting,   \* as in EventQueue
  dpc,        \* where the dispatcher is suspended
  inHand,     \* the event it is delivering
  \* History, for the properties only:
  sent,       \* events that arrived so far, numbered 1..sent
  configs,    \* the numbers of those that are CONFIGCHANGEs
  taken,      \* number of the event last taken off the queue
  delivered,  \* numbers of the events of which every listener call is over
  lost,       \* numbers of the events dropped
  refreshed   \* number of the CONFIGCHANGE of the last refresh started

reader == <<queue, degraded, waiting>>
history == <<sent, configs, taken, delivered, lost, refreshed>>
vars == <<queue, degraded, waiting, dpc, inHand, history>>

Event == [n : 1..MaxEvents, config : BOOLEAN]
NoEvent == [n |-> 0, config |-> FALSE]

TypeOK ==
  /\ queue \in Seq(Event)
  /\ Len(queue) <= QueueMax
  /\ degraded \in BOOLEAN
  /\ waiting \in Seq(Event)
  /\ Len(waiting) <= 1
  /\ dpc \in {"get", "emit", "refresh", "report"}
  /\ inHand \in Event \cup {NoEvent}
  /\ sent \in 0..MaxEvents
  /\ configs \subseteq 1..MaxEvents
  /\ taken \in 0..MaxEvents
  /\ delivered \subseteq 1..MaxEvents
  /\ lost \subseteq 1..MaxEvents
  /\ refreshed \in 0..MaxEvents

(* start(): a new queue, not degraded, a dispatcher at its first get().     *)
Init ==
  /\ queue = <<>>
  /\ degraded = FALSE
  /\ waiting = <<>>
  /\ dpc = "get"
  /\ inHand = NoEvent
  /\ sent = 0
  /\ configs = {}
  /\ taken = 0
  /\ delivered = {}
  /\ lost = {}
  /\ refreshed = 0

ReaderState == [queue |-> queue, degraded |-> degraded, waiting |-> waiting]

(* The reader's state becomes r; the events no longer queued were dropped.  *)
ReaderBecomes(r) ==
  /\ queue' = r.queue
  /\ degraded' = r.degraded
  /\ waiting' = r.waiting
  /\ lost' = lost \cup ({queue[i].n : i \in 1..Len(queue)} \
                        {r.queue[i].n : i \in 1..Len(r.queue)})

-----------------------------------------------------------------------------
(* The reader.                                                              *)

(* _handle_line of a complete line: parse, fold into the camera state (see  *)
(* CameraState), enqueue.  A line too short for a header changes nothing.   *)
HandleLine(config) ==
  /\ waiting = <<>>
  /\ sent < MaxEvents
  /\ sent' = sent + 1
  /\ configs' = IF config THEN configs \cup {sent + 1} ELSE configs
  /\ ReaderBecomes(Enqueue(ReaderState, [n |-> sent + 1, config |-> config]))
  /\ UNCHANGED <<dpc, inHand, taken, delivered, refreshed>>

PutResumes ==
  /\ waiting # <<>>
  /\ ~IsFull(queue)
  /\ ReaderBecomes(PutReturns(ReaderState))
  /\ UNCHANGED <<dpc, inHand, sent, configs, taken, delivered, refreshed>>

(* Mutant: the put has no timeout.                                          *)
PutWaitsForRoom ==
  /\ waiting # <<>>
  /\ ~IsFull(queue)
  /\ ReaderBecomes(PutGivesUp(ReaderState))
  /\ UNCHANGED <<dpc, inHand, sent, configs, taken, delivered, refreshed>>

PutTimesOut ==
  /\ waiting # <<>>
  /\ ReaderBecomes(PutGivesUp(ReaderState))
  /\ UNCHANGED <<dpc, inHand, sent, configs, taken, delivered, refreshed>>

-----------------------------------------------------------------------------
(* The dispatcher.  Each action runs up to the next point where it can be   *)
(* suspended: an empty queue, a listener, the refresh's HTTP request.       *)

(* Mutant: a backlog is skipped for its newest event.                       *)
GetNewest ==
  /\ dpc = "get"
  /\ queue # <<>>
  /\ inHand' = queue[Len(queue)]
  /\ queue' = <<>>
  /\ taken' = queue[Len(queue)].n
  /\ dpc' = "emit"
  /\ UNCHANGED <<degraded, waiting, sent, configs, delivered, lost, refreshed>>

(* queue.get() returns and _emit calls the listeners.                       *)
Get ==
  /\ dpc = "get"
  /\ queue # <<>>
  /\ inHand' = Head(queue)
  /\ queue' = Tail(queue)
  /\ taken' = Head(queue).n
  /\ dpc' = "emit"
  /\ UNCHANGED <<degraded, waiting, sent, configs, delivered, lost, refreshed>>

(* Mutant: leaves the refresh to the CONFIGCHANGE of a later event.         *)
EmittedCoalescing ==
  /\ dpc = "emit"
  /\ delivered' = delivered \cup {inHand.n}
  /\ IF inHand.config /\ RefreshOnConfigChange /\ queue = <<>>
     THEN dpc' = "refresh" /\ refreshed' = inHand.n /\ UNCHANGED inHand
     ELSE dpc' = "get" /\ inHand' = NoEvent /\ UNCHANGED refreshed
  /\ UNCHANGED <<reader, sent, configs, taken, lost>>

(* The last listener returned or raised.                                    *)
Emitted ==
  /\ dpc = "emit"
  /\ delivered' = delivered \cup {inHand.n}
  /\ IF inHand.config /\ RefreshOnConfigChange
     THEN dpc' = "refresh" /\ refreshed' = inHand.n /\ UNCHANGED inHand
     ELSE dpc' = "get" /\ inHand' = NoEvent /\ UNCHANGED refreshed
  /\ UNCHANGED <<reader, sent, configs, taken, lost>>

(* Mutant: retries a failing refresh for ever.                              *)
RefreshRetries == dpc = "refresh" /\ UNCHANGED vars

(* client.refresh() returned or failed; REFRESH or REFRESHFAIL goes to the  *)
(* listeners, past the queue.                                               *)
Refreshed ==
  /\ dpc = "refresh"
  /\ dpc' = "report"
  /\ UNCHANGED <<reader, inHand, history>>

Reported ==
  /\ dpc = "report"
  /\ dpc' = "get"
  /\ inHand' = NoEvent
  /\ UNCHANGED <<reader, history>>

Dispatch == Get \/ Emitted \/ Refreshed \/ Reported

Next ==
  \/ \E config \in BOOLEAN : HandleLine(config)
  \/ PutResumes
  \/ PutTimesOut
  \/ Dispatch

Safe == Init /\ [][Next]_vars

(* asyncio runs a due timer and resumes a put that has room; a listener may *)
(* still hang for ever.                                                     *)
Spec == Safe /\ WF_vars(PutResumes \/ PutTimesOut)

(* Every listener and every refresh returns (requests have a timeout).      *)
ListenersReturn == WF_vars(Dispatch)

-----------------------------------------------------------------------------
(* Properties.                                                              *)

Backlog == queue \o waiting

(* The events still to be delivered, the one of a suspended put included,   *)
(* are always the newest ones without a gap: overflow, whenever it strikes, *)
(* only ever cuts the oldest (README.md:78-81).                             *)
BacklogIsNewest ==
  \A i \in 1..Len(Backlog) : Backlog[i].n = sent - Len(Backlog) + i

BacklogNumbers == {Backlog[i].n : i \in 1..Len(Backlog)}

(* The event of which the listeners are being called.                       *)
InEmission == IF dpc = "emit" THEN {inHand.n} ELSE {}

(* No event vanishes and none is counted twice: each one that arrived is    *)
(* waiting, or the listeners are being called with it, or all of them have  *)
(* been, or it was dropped by an overflow (events.py:315), and only one of  *)
(* these is true of it.                                                     *)
EveryEventAccounted ==
  LET fates == <<BacklogNumbers, InEmission, delivered, lost>>
  IN /\ BacklogNumbers \cup InEmission \cup delivered \cup lost = 1..sent
     /\ \A i, j \in 1..4 : i # j => fates[i] \cap fates[j] = {}

(* The listeners get events in the order of arrival and none twice.         *)
DeliveredInOrder == [][taken' # taken => taken' > taken]_vars

(* Once the listeners are done with a CONFIGCHANGE, a refresh has been      *)
(* started after it arrived, unless that event was dropped.                 *)
RefreshOwed ==
  RefreshOnConfigChange =>
    \A c \in configs :
      (c <= taken /\ ~(dpc = "emit" /\ inHand.n = c)) =>
        c <= refreshed \/ c \in lost

(* A suspended put always ends, even if a listener never returns: "a slow   *)
(* or hung listener can no longer stall stream reads" (CHANGELOG.md:23-25). *)
ReaderNeverStalls == (waiting # <<>>) ~> (waiting = <<>>)

(* When listeners return, every event that arrives is followed by the       *)
(* delivery of that event or of a newer one: an overflow never leaves the   *)
(* listeners behind for good.                                               *)
ListenersCatchUp ==
  ListenersReturn => \A n \in 1..MaxEvents : (sent >= n) ~> (taken >= n)

(* The queue, the suspended put and the dispatcher's get() together are a   *)
(* lossy FIFO that holds one event more than the asyncio.Queue.             *)
Fifo == INSTANCE LossyFifo WITH Capacity <- QueueMax + 1, pending <- BacklogNumbers

ImplementsFifo == Fifo!Spec
=============================================================================
