---------------------------- MODULE EventStream ----------------------------
(* The life cycle of aiosecspy's EventStream (aiosecspy/events.py): start() *)
(* creates a watcher task that connects, reads and reconnects, and a        *)
(* dispatcher task that runs the listeners; stop() ends both.  Callers and  *)
(* listeners may call start() and stop() at any point the event loop lets   *)
(* them.                                                                    *)
(*                                                                          *)
(* All code runs on one asyncio loop, so a step is everything a task does   *)
(* between two suspensions.  The n-th effective start() creates generation  *)
(* n: queue n, watcher n and dispatcher n.  Generation 0 is the queue that  *)
(* __init__ creates.                                                        *)
EXTENDS EventQueue, FiniteSets

CONSTANTS Users,          \* tasks outside the stream that call start()/stop()
          MaxStarts,      \* bound on the effective start() calls
          MaxNet,         \* bound on what the network does in a run
          ReconnectDelay, \* start(reconnect_delay=...), in any unit
          MaxDelay        \* const.EVENT_RECONNECT_MAX_DELAY

ASSUME StreamAssumption ==
  /\ MaxStarts \in Nat
  /\ MaxNet \in Nat
  /\ ReconnectDelay \in Nat \ {0}
  /\ MaxDelay \in Nat
  /\ ReconnectDelay <= MaxDelay

VARIABLES
  stopSet,    \* self._stop
  running,    \* self.running
  gen,        \* self._queue is queue number gen
  task,       \* self._task and self._dispatch_task: generation, 0 for None
  resp,       \* self._resp: generation of the watcher that set it, 0 for None
  queue,      \* the queues
  degraded,   \* self._queue_degraded
  w,          \* the watcher tasks
  d,          \* the dispatcher tasks
  u,          \* the calls of stop() by Users
  net,        \* network happenings so far
  \* History, for the properties only:
  view,       \* last connectivity event handed to the listeners
  overlapped  \* there was a start() or stop() before the tasks of an earlier
              \* generation, or those that another stop() awaits, had ended

selfVars == <<stopSet, running, gen, task>>
history == <<view, overlapped>>
vars == <<selfVars, resp, queue, degraded, w, d, u, net, history>>

Gens == 1..MaxStarts

(* What the queue can hold; END is the None sentinel.                       *)
Events == {"CONNECTED", "DISCONNECTED", "AUTHFAIL", "LINE", "CONFIGCHANGE", "END"}
Connectivity == {"CONNECTED", "DISCONNECTED"}

(* A watcher: where it is suspended, whether cancel() was called, the       *)
(* events of a suspended _enqueue, and the local variable delay.            *)
Watcher == [pc : {"none", "connect", "stream", "put", "backoff", "done"},
            cancel : BOOLEAN, waiting : Seq(Events), delay : ReconnectDelay..MaxDelay]

(* A dispatcher: where it is suspended, whether cancel() was called, the    *)
(* event of the current _emit, the queue it called get() on, and the tasks  *)
(* that a stop() inside one of its listeners gathers.                       *)
Dispatcher == [pc : {"none", "get", "emit", "stopping", "refresh", "done"},
               cancel : BOOLEAN, hand : Events \cup {"NONE", "REFRESH"},
               q : 0..MaxStarts, waitW : 0..MaxStarts, waitD : 0..MaxStarts]

(* A caller: whether it is in stop(), the tasks that this gathers, and, as   *)
(* history, the generation there was when it was called.                    *)
User == [pc : {"idle", "stopping"}, waitW : 0..MaxStarts, waitD : 0..MaxStarts,
         upto : 0..MaxStarts]

TypeOK ==
  /\ stopSet \in BOOLEAN /\ running \in BOOLEAN /\ degraded \in BOOLEAN
  /\ gen \in 0..MaxStarts
  /\ task \in {0, gen}
  /\ resp \in 0..MaxStarts
  /\ queue \in [0..MaxStarts -> Seq(Events)]
  /\ \A g \in 0..MaxStarts : Len(queue[g]) <= QueueMax
  /\ w \in [Gens -> Watcher]
  /\ d \in [Gens -> Dispatcher]
  /\ u \in [Users -> User]
  /\ net \in 0..MaxNet
  /\ view \in Connectivity \cup {"NONE"}
  /\ overlapped \in BOOLEAN

Init ==
  /\ stopSet = FALSE /\ running = FALSE /\ degraded = FALSE
  /\ gen = 0 /\ task = 0 /\ resp = 0
  /\ queue = [g \in 0..MaxStarts |-> <<>>]
  /\ w = [g \in Gens |-> [pc |-> "none", cancel |-> FALSE, waiting |-> <<>>,
                          delay |-> ReconnectDelay]]
  /\ d = [g \in Gens |-> [pc |-> "none", cancel |-> FALSE, hand |-> "NONE",
                          q |-> 0, waitW |-> 0, waitD |-> 0]]
  /\ u = [x \in Users |-> [pc |-> "idle", waitW |-> 0, waitD |-> 0, upto |-> 0]]
  /\ net = 0
  /\ view = "NONE" /\ overlapped = FALSE

(* task.done(); 0 stands for no task.                                       *)
WDone(g) == g # 0 => w[g].pc = "done"
DDone(g) == g # 0 => d[g].pc = "done"
AllDone == \A g \in 1..gen : WDone(g) /\ DDone(g)

-----------------------------------------------------------------------------
(* w after watcher g has come to pc.                                        *)
Moved(g, pc, waiting, delay) ==
  [w EXCEPT ![g] = [pc |-> pc, cancel |-> w[g].cancel, waiting |-> waiting, delay |-> delay]]

(* d after dispatcher g has come to pc, where it does not await a stop().   *)
Dispatched(g, pc, hand, q) ==
  [d EXCEPT ![g] = [pc |-> pc, cancel |-> d[g].cancel, hand |-> hand, q |-> q,
                    waitW |-> 0, waitD |-> 0]]

-----------------------------------------------------------------------------
(* start() and stop().                                                      *)

(* start() with an open session; with a live watcher it changes nothing,    *)
(* without a session it raises before it changes anything.                  *)
Start ==
  /\ gen < MaxStarts
  /\ WDone(task)
  /\ stopSet' = FALSE
  /\ running' = TRUE
  /\ gen' = gen + 1
  /\ task' = gen + 1
  /\ queue' = [queue EXCEPT ![gen + 1] = <<>>]
  /\ degraded' = FALSE
  /\ w' = Moved(gen + 1, "connect", <<>>, ReconnectDelay)
  /\ d' = Dispatched(gen + 1, "get", "NONE", gen + 1)
  /\ overlapped' = (overlapped \/ ~AllDone)
  /\ UNCHANGED <<resp, u, net, view>>

(* stop() up to its gather, called by dispatcher `current` (0: by another   *)
(* task).  Closing the response needs no step of its own: the watcher that  *)
(* reads it is cancelled too, and the cancellation wins.                    *)
StopCalled(current) ==
  /\ stopSet' = TRUE
  /\ running' = FALSE
  /\ task' = 0
  /\ queue' = [queue EXCEPT ![gen] = PutNowait(@, "END")]
  /\ w' = [g \in Gens |-> IF g = task /\ ~WDone(g)
                          THEN [w[g] EXCEPT !.cancel = TRUE] ELSE w[g]]
  /\ overlapped' = (overlapped \/ (stopSet /\ ~AllDone))
  /\ UNCHANGED <<gen, resp, degraded, net, view>>

(* Mutant: stop() leaves the dispatcher to the sentinel.                    *)
SignalDispatcher(current) == d

(* d after stop() by dispatcher `current` cancelled the dispatcher.         *)
CancelDispatcher(current) ==
  [g \in Gens |-> IF g = task /\ g # current /\ ~DDone(g)
                  THEN [d[g] EXCEPT !.cancel = TRUE] ELSE d[g]]

UStart(x) == u[x].pc = "idle" /\ Start

(* Mutant: stop() gathers the watcher only.                                 *)
UStopGathersWatcher(x) ==
  /\ u[x].pc = "idle"
  /\ StopCalled(0)
  /\ d' = CancelDispatcher(0)
  /\ u' = [u EXCEPT ![x] = [pc |-> "stopping", waitW |-> task, waitD |-> 0, upto |-> gen]]

UStop(x) ==
  /\ u[x].pc = "idle"
  /\ StopCalled(0)
  /\ d' = CancelDispatcher(0)
  /\ u' = [u EXCEPT ![x] = [pc |-> "stopping", waitW |-> task, waitD |-> task, upto |-> gen]]

UStopReturns(x) ==
  /\ u[x].pc = "stopping"
  /\ WDone(u[x].waitW) /\ DDone(u[x].waitD)
  /\ u' = [u EXCEPT ![x] = [pc |-> "idle", waitW |-> 0, waitD |-> 0, upto |-> 0]]
  /\ UNCHANGED <<selfVars, resp, queue, degraded, w, d, net, history>>

(* A listener that dispatcher g is running calls start() or awaits stop().  *)
LStart(g) == d[g].pc = "emit" /\ ~d[g].cancel /\ Start

(* Mutant: stop() also gathers the task that called it.                     *)
LStopGathersItself(g) ==
  /\ d[g].pc = "emit" /\ ~d[g].cancel
  /\ StopCalled(g)
  /\ d' = [CancelDispatcher(g) EXCEPT ![g] =
             [pc |-> "stopping", cancel |-> d[g].cancel, hand |-> d[g].hand, q |-> d[g].q,
              waitW |-> task, waitD |-> task]]
  /\ UNCHANGED u

LStop(g) ==
  /\ d[g].pc = "emit" /\ ~d[g].cancel
  /\ StopCalled(g)
  /\ d' = [CancelDispatcher(g) EXCEPT ![g] =
             [pc |-> "stopping", cancel |-> d[g].cancel, hand |-> d[g].hand, q |-> d[g].q,
              waitW |-> task, waitD |-> IF task = g THEN 0 ELSE task]]
  /\ UNCHANGED u

LStopReturns(g) ==
  /\ d[g].pc = "stopping" /\ ~d[g].cancel
  /\ WDone(d[g].waitW) /\ DDone(d[g].waitD)
  /\ d' = Dispatched(g, "emit", d[g].hand, d[g].q)
  /\ UNCHANGED <<selfVars, resp, queue, degraded, w, u, net, history>>

-----------------------------------------------------------------------------
(* The watcher.  stop() cancels it in the step that sets _stop, so the      *)
(* loop's own tests of _stop never find it set and are not modelled.        *)

Live(g) == w[g].pc \notin {"none", "done"} /\ ~w[g].cancel

(* Where the watcher goes on once its last event is in the queue.           *)
After(event) ==
  CASE event = "DISCONNECTED" -> "backoff"
    [] event = "END" -> "done"
    [] OTHER -> "stream"

Last(es) == es[Len(es)]

(* Inside _run_once's try: the response is held.                            *)
InResponse(g) ==
  w[g].pc = "stream" \/ (w[g].pc = "put" /\ After(Last(w[g].waiting)) = "stream")

(* The watcher's enqueuing has come to r; `last` is the last event of it.   *)
Enqueued(g, r, last, delay) ==
  LET pc == IF r.waiting # <<>> THEN "put" ELSE After(last)
  IN  /\ queue' = [queue EXCEPT ![g] = r.queue]
      /\ degraded' = r.degraded
      /\ w' = Moved(g, pc, r.waiting, delay)
      /\ running' = (running /\ pc # "done")
      /\ UNCHANGED <<stopSet, gen, task, d, u, history>>

Pipe(g) == [queue |-> queue[g], degraded |-> degraded, waiting |-> w[g].waiting]

Announce(g, es, delay) == Enqueued(g, EnqueueAll(Pipe(g), es), Last(es), delay)

FromNetwork(g, pc) ==
  /\ Live(g)
  /\ w[g].pc = pc
  /\ net < MaxNet
  /\ net' = net + 1

(* The response is a 2xx.  A cancelled predecessor has run its finally by   *)
(* now: it was put on the loop's ready queue before this watcher was.       *)
WConnects(g) ==
  /\ FromNetwork(g, "connect")
  /\ \A h \in 1..(g - 1) : ~InResponse(h)
  /\ resp' = g
  /\ Announce(g, <<"CONNECTED">>, w[g].delay)

(* 401 or 403: report, end the dispatcher with the sentinel, and return.    *)
WRejected(g) ==
  /\ FromNetwork(g, "connect")
  /\ Announce(g, <<"AUTHFAIL", "DISCONNECTED", "END">>, w[g].delay)
  /\ UNCHANGED resp

(* No session, no connection, or another error status.                      *)
WConnectFails(g) ==
  /\ FromNetwork(g, "connect")
  /\ Announce(g, <<"DISCONNECTED">>, w[g].delay)
  /\ UNCHANGED resp

(* A complete line (see EventDelivery and LineReader).                      *)
WLine(g, event) ==
  /\ FromNetwork(g, "stream")
  /\ Announce(g, <<event>>, w[g].delay)
  /\ UNCHANGED resp

(* Mutant: a clean end of the stream is not announced (CHANGELOG.md:55-56). *)
WEofSilent(g) ==
  /\ FromNetwork(g, "stream")
  /\ resp' = 0
  /\ w' = [w EXCEPT ![g].pc = "backoff", ![g].delay = ReconnectDelay]
  /\ UNCHANGED <<selfVars, queue, degraded, d, u, history>>

(* The server ends the stream; the only way back to the initial delay.      *)
WEof(g) ==
  /\ FromNetwork(g, "stream")
  /\ resp' = 0
  /\ Announce(g, <<"DISCONNECTED">>, ReconnectDelay)

(* Read timeout, transport error, a flood without a line break.             *)
WDrops(g) ==
  /\ FromNetwork(g, "stream")
  /\ resp' = 0
  /\ Announce(g, <<"DISCONNECTED">>, w[g].delay)

WPutResumes(g) ==
  /\ Live(g) /\ w[g].pc = "put"
  /\ ~IsFull(queue[g])
  /\ Enqueued(g, PutReturns(Pipe(g)), Last(w[g].waiting), w[g].delay)
  /\ UNCHANGED <<resp, net>>

WPutTimesOut(g) ==
  /\ Live(g) /\ w[g].pc = "put"
  /\ Enqueued(g, PutGivesUp(Pipe(g)), Last(w[g].waiting), w[g].delay)
  /\ UNCHANGED <<resp, net>>

(* Mutant: the delay is not capped.                                         *)
WBackoffUncapped(g) ==
  /\ Live(g) /\ w[g].pc = "backoff"
  /\ w' = [w EXCEPT ![g].pc = "connect", ![g].delay = 2 * @]
  /\ UNCHANGED <<selfVars, resp, queue, degraded, d, u, net, history>>

(* The wait for _stop times out; jitter only scales how long that takes.    *)
WBackoffEnds(g) ==
  /\ Live(g) /\ w[g].pc = "backoff"
  /\ LET delay == 2 * w[g].delay
     IN  w' = Moved(g, "connect", <<>>, IF delay < MaxDelay THEN delay ELSE MaxDelay)
  /\ UNCHANGED <<selfVars, resp, queue, degraded, d, u, net, history>>

(* Mutant: the watcher clears `running` however it ends.                    *)
WCancelledClearsRunning(g) ==
  /\ w[g].cancel /\ w[g].pc # "done"
  /\ w' = [w EXCEPT ![g].pc = "done", ![g].waiting = <<>>]
  /\ resp' = IF InResponse(g) THEN 0 ELSE resp
  /\ running' = FALSE
  /\ UNCHANGED <<stopSet, gen, task, queue, degraded, d, u, net, history>>

(* Mutant: _resp is not cleared in a finally.                               *)
WCancelledKeepsResponse(g) ==
  /\ w[g].cancel /\ w[g].pc # "done"
  /\ w' = [w EXCEPT ![g].pc = "done", ![g].waiting = <<>>]
  /\ UNCHANGED <<selfVars, resp, queue, degraded, d, u, net, history>>

(* CancelledError surfaces where the watcher is suspended.                  *)
WCancelled(g) ==
  /\ w[g].cancel /\ w[g].pc # "done"
  /\ w' = Moved(g, "done", <<>>, w[g].delay)
  /\ resp' = IF InResponse(g) THEN 0 ELSE resp
  /\ UNCHANGED <<selfVars, queue, degraded, d, u, net, history>>

-----------------------------------------------------------------------------
(* The dispatcher.                                                          *)

(* queue.get() returns: the sentinel, or _stop, ends the dispatcher; else   *)
(* the listeners are called.                                                *)
DGet(g) ==
  LET q == d[g].q  event == Head(queue[q])
  IN  /\ d[g].pc = "get" /\ ~d[g].cancel
      /\ queue[q] # <<>>
      /\ queue' = [queue EXCEPT ![q] = Tail(@)]
      /\ IF event = "END" \/ stopSet
         THEN d' = Dispatched(g, "done", "NONE", q) /\ UNCHANGED history
         ELSE /\ d' = Dispatched(g, "emit", event, q)
              /\ view' = IF event \in Connectivity THEN event ELSE view
              /\ UNCHANGED overlapped
      /\ UNCHANGED <<selfVars, resp, degraded, w, u, net>>

(* The last listener returns.  After a REFRESH or REFRESHFAIL, which does   *)
(* not come from the queue, _stop is not looked at before the next get();   *)
(* and get() is called on whatever self._queue is by then.                  *)
DEmitEnds(g) ==
  /\ d[g].pc = "emit" /\ ~d[g].cancel
  /\ d' = IF d[g].hand # "REFRESH" /\ stopSet
          THEN Dispatched(g, "done", "NONE", d[g].q)
          ELSE IF d[g].hand = "CONFIGCHANGE"
               THEN Dispatched(g, "refresh", "CONFIGCHANGE", d[g].q)
               ELSE Dispatched(g, "get", "NONE", gen)
  /\ UNCHANGED <<selfVars, resp, queue, degraded, w, u, net, history>>

(* client.refresh() returned or failed; the outcome goes to the listeners.  *)
DRefreshed(g) ==
  /\ d[g].pc = "refresh" /\ ~d[g].cancel
  /\ d' = Dispatched(g, "emit", "REFRESH", d[g].q)
  /\ UNCHANGED <<selfVars, resp, queue, degraded, w, u, net, history>>

DCancelled(g) ==
  /\ d[g].cancel /\ d[g].pc # "done"
  /\ d' = Dispatched(g, "done", "NONE", d[g].q)
  /\ UNCHANGED <<selfVars, resp, queue, degraded, w, u, net, history>>

-----------------------------------------------------------------------------
Call(x) == UStart(x) \/ UStop(x) \/ UStopReturns(x)

Network(g) ==
  \/ WConnects(g) \/ WRejected(g) \/ WConnectFails(g)
  \/ \E event \in {"LINE", "CONFIGCHANGE"} : WLine(g, event)
  \/ WEof(g) \/ WDrops(g)

Timer(g) == WPutResumes(g) \/ WPutTimesOut(g) \/ WBackoffEnds(g)

Cancellation(g) == WCancelled(g) \/ DCancelled(g)

Listener(g) == LStart(g) \/ LStop(g)

Dispatch(g) == DGet(g) \/ DEmitEnds(g) \/ DRefreshed(g)

Next ==
  \/ \E x \in Users : Call(x)
  \/ \E g \in Gens : Network(g) \/ Timer(g) \/ Cancellation(g)
                     \/ Listener(g) \/ LStopReturns(g) \/ Dispatch(g)

Safe == Init /\ [][Next]_vars

(* asyncio delivers cancellations and wakes gathers whose tasks are done.   *)
Spec ==
  /\ Safe
  /\ \A g \in Gens : WF_vars(Cancellation(g)) /\ WF_vars(LStopReturns(g))
  /\ \A x \in Users : WF_vars(UStopReturns(x))

(* Also, put timeouts fire, and listeners and refreshes return.             *)
ListenersReturn ==
  \A g \in Gens : WF_vars(WPutResumes(g) \/ WPutTimesOut(g)) /\ WF_vars(Dispatch(g))

-----------------------------------------------------------------------------
(* Properties.                                                              *)

(* `running` tells the truth however starts, stops, cancellations and       *)
(* authentication failures interleave: it is set exactly while the current  *)
(* task is a watcher that nobody has stopped.                               *)
RunningTruth ==
  /\ \A g \in Gens : Live(g) <=> (running /\ g = task)
  /\ running => task # 0 /\ ~stopSet

(* self._resp is the response that a live watcher reads, so that stop() can *)
(* abort the read, and never one that a cancelled predecessor left behind   *)
(* once that has ended ("Held so stop() can abort a read", events.py:389).  *)
ResponseHeld ==
  /\ \A g \in Gens : Live(g) /\ InResponse(g) => resp = g
  /\ resp # 0 => InResponse(resp)

(* Listeners' view of the connection once queue q has been delivered.       *)
FinalView(q) ==
  LET C == {i \in 1..Len(q) : q[i] \in Connectivity}
  IN  IF C = {} THEN view ELSE q[CHOOSE i \in C : \A j \in C : j <= i]

(* Between two attempts the listeners have been told, or will be by what    *)
(* is queued, that the stream is down: no burst and no stuck listener       *)
(* makes the gap disappear (README.md:89, CHANGELOG.md:55-56).              *)
OutageAnnounced ==
  \A g \in Gens : Live(g) /\ w[g].pc = "backoff" /\ ~overlapped =>
    FinalView(queue[g]) = "DISCONNECTED"

(* A watcher that ended by itself, on an authentication failure, leaves a   *)
(* dispatcher that has ended or will find the sentinel: the sentinel is     *)
(* never lost to an overflow (events.py:348-350).                           *)
EndedItself(g) == w[g].pc = "done" /\ ~w[g].cancel

SentinelKept ==
  \A g \in Gens : EndedItself(g) /\ ~overlapped =>
    d[g].pc = "done" \/ \E i \in 1..Len(queue[g]) : queue[g][i] = "END"

(* stop() waits for everything: when it returns no task that the stream had *)
(* when it was called is left, however it was caught (events.py:256),       *)
(* whoever starts anew meanwhile, unless calls overlapped.                  *)
StopIsComplete ==
  [][\A x \in Users : u[x].pc = "stopping" /\ u'[x].pc = "idle" =>
       overlapped \/ \A g \in 1..u[x].upto : WDone(g) /\ DDone(g)]_vars

(* stop() always returns, even with a hung listener, a silent server and a  *)
(* full queue, whoever else calls start() and stop(); one that a listener   *)
(* awaits does not wait for the dispatcher that runs the listener           *)
(* (events.py:258, 275).                                                    *)
StopReturns ==
  /\ \A x \in Users : (u[x].pc = "stopping") ~> (u[x].pc = "idle")
  /\ \A g \in Gens : (d[g].pc = "stopping") ~> (d[g].pc # "stopping")

(* A rejected login ends the dispatcher too, when listeners return          *)
(* (events.py:348-350, tests/test_events.py:197-199).                       *)
AuthEndsDispatcher ==
  ListenersReturn => \A g \in Gens : EndedItself(g) ~> (d[g].pc = "done" \/ overlapped)

(* Listeners that return do hear of an outage, unless the stream is stopped *)
(* or has already moved on to another attempt.                              *)
OutageHeard ==
  ListenersReturn =>
    \A g \in Gens : (Live(g) /\ w[g].pc = "backoff") ~>
      (view = "DISCONNECTED" \/ ~Live(g) \/ w[g].pc # "backoff" \/ overlapped)

(* README.md:78-79, CHANGELOG.md:23: one dispatcher runs the listeners.     *)
SerialDispatch ==
  \A g, h \in Gens : d[g].pc \in {"emit", "stopping"} /\ d[h].pc \in {"emit", "stopping"} => g = h
=============================================================================
