----------------------------- MODULE Listeners -----------------------------
(* The listeners of an EventStream (aiosecspy/events.py): add_listener, the *)
(* unsubscribe functions it returns, and _emit, composed with the event     *)
(* delivery they are a part of.  An emission is a sequence of listener      *)
(* calls.  Each may suspend, so between two of them the reader runs and     *)
(* listeners come and go, the running one included.                         *)
EXTENDS EventDelivery

CONSTANTS Callbacks,     \* the callables an application registers
          MaxTimes       \* bound on the registrations of one callable

ASSUME ListenersAssumption == MaxTimes \in Nat

(* What one call of add_listener made: its unsubscribe function.            *)
Registration == Callbacks \X (1..MaxTimes)
CallbackOf(r) == r[1]

VARIABLES
  callbacks,   \* EventStream._callbacks, equal entries included
  copy,        \* list(self._callbacks), over which _emit iterates
  at,          \* the position of the listener that runs, 0 between emissions
  dead,        \* the dispatcher task has ended by an exception
  unsub,       \* what became of each registration
  \* History, for the properties only:
  calls,       \* how often each callable was called in this emission
  atStart,     \* the registrations in force when it began
  doubled      \* the callables of which an unsubscribe was called twice

registry == <<callbacks, unsub, doubled>>
emission == <<copy, at, calls, atStart>>
allVars == <<vars, registry, emission, dead>>

InForce == {r \in Registration : unsub[r] = "live"}

TypeInvariant ==
  /\ TypeOK
  /\ callbacks \in Seq(Callbacks)
  /\ copy \in Seq(Callbacks)
  /\ at \in 0..(Len(copy) + 1)
  /\ at = 0 <=> dpc \in {"get", "refresh"}
  /\ dead \in BOOLEAN
  /\ unsub \in [Registration -> {"none", "live", "called"}]
  /\ calls \in [Callbacks -> Nat]
  /\ atStart \subseteq Registration
  /\ doubled \subseteq Callbacks

NoCalls == [cb \in Callbacks |-> 0]

(* No listener is registered yet: they are added below.                     *)
ListenersInit ==
  /\ Init
  /\ callbacks = <<>> /\ copy = <<>> /\ at = 0 /\ dead = FALSE
  /\ unsub = [r \in Registration |-> "none"]
  /\ calls = NoCalls /\ atStart = {} /\ doubled = {}

-----------------------------------------------------------------------------
(* Registering.  Any task may, whenever the event loop runs it.             *)

(* add_listener.                                                            *)
AddListener(r) ==
  /\ unsub[r] # "live" /\ r \notin atStart
  /\ callbacks' = Append(callbacks, CallbackOf(r))
  /\ unsub' = [unsub EXCEPT ![r] = "live"]
  /\ UNCHANGED <<vars, emission, dead, doubled>>

(* Mutant: removes every registration of the callable.                      *)
WithoutEvery(cbs, cb) == SelectSeq(cbs, LAMBDA c : c # cb)

(* list.remove: the first equal entry, if there is one.                     *)
WithoutFirst(cbs, cb) ==
  LET found == {i \in 1..Len(cbs) : cbs[i] = cb}
      first == CHOOSE i \in found : \A j \in found : i <= j
  IN IF found = {} THEN cbs
     ELSE SubSeq(cbs, 1, first - 1) \o SubSeq(cbs, first + 1, Len(cbs))

(* _unsub.  Nothing keeps the application from calling it again.            *)
Unsubscribe(r) ==
  /\ unsub[r] # "none"
  /\ callbacks' = WithoutFirst(callbacks, CallbackOf(r))
  /\ unsub' = [unsub EXCEPT ![r] = "called"]
  /\ doubled' = IF unsub[r] = "called" THEN doubled \cup {CallbackOf(r)} ELSE doubled
  /\ UNCHANGED <<vars, emission, dead>>

-----------------------------------------------------------------------------
(* The dispatcher, with the calls of _emit one by one.                      *)

(* Mutant: iterates over the list that changes.                             *)
IteratesLive == callbacks

(* What the loop of _emit runs over.                                        *)
Iterates == copy

EmissionBegins ==
  /\ copy' = callbacks /\ at' = 1
  /\ calls' = NoCalls /\ atStart' = InForce

EmissionOver ==
  /\ copy' = <<>> /\ at' = 0
  /\ calls' = NoCalls /\ atStart' = {}

EmitBegins == Get /\ EmissionBegins /\ UNCHANGED <<registry, dead>>

ReportBegins == Refreshed /\ EmissionBegins /\ UNCHANGED <<registry, dead>>

(* A listener returned, or raised an exception that is logged.              *)
ListenerEnds ==
  /\ ~dead
  /\ at \in 1..Len(Iterates)
  /\ at' = at + 1
  /\ calls' = [calls EXCEPT ![Iterates[at]] = @ + 1]
  /\ UNCHANGED <<vars, registry, copy, atStart, dead>>

(* A listener raised CancelledError, because a task that it awaited was     *)
(* cancelled: _emit and _dispatch_loop let it through.                      *)
ListenerCancelled ==
  /\ ~dead
  /\ at \in 1..Len(Iterates)
  /\ dead' = TRUE
  /\ UNCHANGED <<vars, registry, emission>>

EmitOver ==
  /\ at > Len(Iterates)
  /\ Emitted /\ EmissionOver /\ UNCHANGED <<registry, dead>>

ReportOver ==
  /\ at > Len(Iterates)
  /\ Reported /\ EmissionOver /\ UNCHANGED <<registry, dead>>

ReaderStep ==
  /\ (\E config \in BOOLEAN : HandleLine(config)) \/ PutResumes \/ PutTimesOut
  /\ UNCHANGED <<registry, emission, dead>>

ListenersNext ==
  \/ ReaderStep
  \/ \E r \in Registration : AddListener(r) \/ Unsubscribe(r)
  \/ EmitBegins \/ ReportBegins
  \/ ListenerEnds \/ ListenerCancelled
  \/ EmitOver \/ ReportOver

ListenersSafe == ListenersInit /\ [][ListenersNext]_allVars

(* As in EventDelivery.                                                     *)
ListenersSpec == ListenersSafe /\ WF_vars(PutResumes \/ PutTimesOut)

-----------------------------------------------------------------------------
(* Properties.                                                              *)

Times(cbs, cb) == Cardinality({i \in 1..Len(cbs) : cbs[i] = cb})
Of(rs, cb) == Cardinality({r \in rs : CallbackOf(r) = cb})

(* Unsubscribing undoes the registration it belongs to and no other: a      *)
(* callable is listed as often as it is subscribed, unless one of its       *)
(* unsubscribe functions was called twice.                                  *)
RegistryMatches ==
  \A cb \in Callbacks \ doubled : Times(callbacks, cb) = Of(InForce, cb)

(* However the registry changes during an emission, whoever stays           *)
(* subscribed gets the event, nobody gets it twice for one registration,    *)
(* and whoever subscribes meanwhile gets the next one.                      *)
HeardInFull ==
  [][at # 0 /\ at' = 0 =>
       \A cb \in Callbacks \ doubled :
         calls[cb] \in Of(atStart \cap InForce, cb)..Of(atStart, cb)]_allVars

(* Every listener call comes to an end, by whatever exception.              *)
CallsEnd ==
  WF_allVars(\/ EmitBegins \/ ReportBegins \/ EmitOver \/ ReportOver
             \/ ListenerEnds \/ ListenerCancelled)

(* "A listener that raises is logged and skipped; it never takes down the   *)
(* stream" (README.md:93): as long as calls end, events are delivered.      *)
RaisingIsSkipped ==
  CallsEnd => \A n \in 1..MaxEvents : (sent >= n) ~> (taken >= n)
=============================================================================
