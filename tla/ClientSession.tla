--------------------------- MODULE ClientSession ---------------------------
(* Who creates and who closes the aiohttp session of a SecSpyClient         *)
(* (aiosecspy/client.py): open(), close(), async with, and events.start(),  *)
(* called by several tasks.  open() suspends in its refresh, close() in     *)
(* events.stop() and in the session's own close().                          *)
EXTENDS Integers, FiniteSets

CONSTANTS Callers,      \* tasks that use the client
          MaxSessions   \* bound on the sessions of a run

ASSUME SessionAssumption == MaxSessions \in Nat \ {0}

VARIABLES
  session,    \* self._session: its number, 0 for None
  owns,       \* self._owns_session
  made,       \* sessions there have been, numbered 1..made
  closed,     \* those that are closed
  stream,     \* the event stream's tasks are there
  call,       \* where each caller is suspended
  borrowed,   \* SecSpyClient(session=...): session 1 is the caller's
  clashed     \* history: a caller opened or started while another was closing

clientVars == <<session, owns, stream>>
vars == <<clientVars, made, closed, call, borrowed, clashed>>

(* req: the session of the refresh in open(), or the one that close() is    *)
(* closing; with: inside (or on the way into or out of) an async with.      *)
Call == [pc : {"idle", "opening", "body", "stopping", "closing"},
         req : 0..MaxSessions, with : BOOLEAN]
Idle == [pc |-> "idle", req |-> 0, with |-> FALSE]

IsOpen(n) == n # 0 /\ n \notin closed

(* A closed session of the client is only current until its close() has     *)
(* come back.                                                               *)
TypeOK ==
  /\ session \in 0..made
  /\ owns \in BOOLEAN /\ stream \in BOOLEAN
  /\ made \in 0..MaxSessions
  /\ closed \subseteq 1..made
  /\ call \in [Callers -> Call]
  /\ borrowed \in BOOLEAN /\ clashed \in BOOLEAN
  /\ ~clashed /\ owns /\ session \in closed => \E x \in Callers : call[x].pc = "closing"

Init ==
  /\ borrowed \in BOOLEAN
  /\ made = IF borrowed THEN 1 ELSE 0
  /\ session = made
  /\ owns = ~borrowed
  /\ closed = {}
  /\ stream = FALSE
  /\ call = [x \in Callers |-> Idle]
  /\ clashed = FALSE

InCall(x) == call[x].pc \notin {"idle", "body"}

(* History, for the calls that rely on the client's session.                *)
MayClash ==
  clashed' = (clashed \/ \E y \in Callers : call[y].pc \in {"stopping", "closing"})

(* Mutant: an open session is replaced as well.                             *)
OpenAnew(x, with) ==
  /\ call[x].pc = "idle"
  /\ made < MaxSessions
  /\ made' = made + 1 /\ session' = made + 1 /\ owns' = TRUE
  /\ call' = [call EXCEPT ![x] = [pc |-> "opening", req |-> session', with |-> with]]
  /\ MayClash
  /\ UNCHANGED <<closed, stream, borrowed>>

(* Mutant: open() takes the session it was given for its own.               *)
OpenAdopts(x, with) ==
  /\ call[x].pc = "idle"
  /\ IF IsOpen(session)
     THEN owns' = TRUE /\ UNCHANGED <<session, made>>
     ELSE /\ made < MaxSessions
          /\ made' = made + 1 /\ session' = made + 1 /\ owns' = TRUE
  /\ call' = [call EXCEPT ![x] = [pc |-> "opening", req |-> session', with |-> with]]
  /\ MayClash
  /\ UNCHANGED <<closed, stream, borrowed>>

(* open(), or __aenter__(), up to the request of its refresh().             *)
Open(x, with) ==
  /\ call[x].pc = "idle"
  /\ IF IsOpen(session)
     THEN UNCHANGED <<session, owns, made>>
     ELSE /\ made < MaxSessions
          /\ made' = made + 1 /\ session' = made + 1 /\ owns' = TRUE
  /\ call' = [call EXCEPT ![x] = [pc |-> "opening", req |-> session', with |-> with]]
  /\ MayClash
  /\ UNCHANGED <<closed, stream, borrowed>>

(* The refresh has come back.                                               *)
Opened(x) ==
  /\ call[x].pc = "opening" /\ IsOpen(call[x].req)
  /\ call' = [call EXCEPT ![x] = IF call[x].with THEN [@ EXCEPT !.pc = "body", !.req = 0]
                                                  ELSE Idle]
  /\ UNCHANGED <<clientVars, made, closed, borrowed, clashed>>

(* The refresh has failed: open() raises, the block is not entered.         *)
OpenFails(x) ==
  /\ call[x].pc = "opening"
  /\ call' = [call EXCEPT ![x] = Idle]
  /\ UNCHANGED <<clientVars, made, closed, borrowed, clashed>>

(* events.start(); without a session it raises.                             *)
StartStream(x) ==
  /\ ~InCall(x)
  /\ session # 0
  /\ stream' = TRUE
  /\ MayClash
  /\ UNCHANGED <<session, owns, made, closed, call, borrowed>>

(* Mutant: close() forgets the session without closing it.                  *)
ForgetSession(x) ==
  /\ session' = IF owns THEN 0 ELSE session
  /\ call' = [call EXCEPT ![x] = Idle]
  /\ UNCHANGED closed

(* close() after events.stop(): closing a closed session does not suspend.  *)
CloseSession(x) ==
  IF ~owns \/ session = 0
  THEN call' = [call EXCEPT ![x] = Idle] /\ UNCHANGED <<session, closed>>
  ELSE IF session \in closed
       THEN session' = 0 /\ call' = [call EXCEPT ![x] = Idle] /\ UNCHANGED closed
       ELSE /\ closed' = closed \cup {session}
            /\ call' = [call EXCEPT ![x] = [pc |-> "closing", req |-> session, with |-> @.with]]
            /\ UNCHANGED session

(* Mutant: close() leaves the event stream running.                         *)
CloseOnly(x) ==
  /\ call[x].pc \in {"idle", "body"}
  /\ CloseSession(x)
  /\ UNCHANGED <<owns, stream, made, borrowed, clashed>>

(* close(), or __aexit__() at the end of the block.  events.stop() suspends *)
(* if there are tasks to wait for.                                          *)
Close(x) ==
  /\ call[x].pc \in {"idle", "body"}
  /\ stream' = FALSE
  /\ IF stream
     THEN call' = [call EXCEPT ![x].pc = "stopping"] /\ UNCHANGED <<session, closed>>
     ELSE CloseSession(x)
  /\ UNCHANGED <<owns, made, borrowed, clashed>>

StreamStopped(x) ==
  /\ call[x].pc = "stopping"
  /\ CloseSession(x)
  /\ UNCHANGED <<owns, stream, made, borrowed, clashed>>

(* Mutant: the closed session stays the client's.                           *)
SessionStays(x) ==
  /\ call[x].pc = "closing"
  /\ call' = [call EXCEPT ![x] = Idle]
  /\ UNCHANGED <<clientVars, made, closed, borrowed, clashed>>

(* The session's close() has come back: self._session = None.               *)
SessionClosed(x) ==
  /\ call[x].pc = "closing"
  /\ session' = 0
  /\ call' = [call EXCEPT ![x] = Idle]
  /\ UNCHANGED <<owns, stream, made, closed, borrowed, clashed>>

(* Its owner closes the borrowed session.                                   *)
OwnerCloses ==
  /\ borrowed /\ 1 \notin closed
  /\ closed' = closed \cup {1}
  /\ UNCHANGED <<clientVars, made, call, borrowed, clashed>>

Next ==
  \/ \E x \in Callers :
       \/ \E with \in BOOLEAN : Open(x, with)
       \/ Opened(x) \/ OpenFails(x) \/ StartStream(x)
       \/ Close(x) \/ StreamStopped(x) \/ SessionClosed(x)
  \/ OwnerCloses

Spec == Init /\ [][Next]_vars

-----------------------------------------------------------------------------
(* Properties.                                                              *)

OwnSessions == IF borrowed THEN 2..made ELSE 1..made

(* No session that open() made is forgotten: it is closed, or still the     *)
(* client's, so that close() will close it (client.py:300).  Not so when a  *)
(* caller opens while another closes: its new session is overwritten with   *)
(* None when the closing comes back (client.py:308).                        *)
NoSessionLeaked == ~clashed => \A n \in OwnSessions : n \in closed \/ n = session

(* The session that the caller passed in is left open, whatever opens,      *)
(* failures and closes happen, even after the client had to make one of its *)
(* own (README.md:40-42): only its owner's step closes it.                  *)
BorrowedLeftOpen ==
  [][borrowed /\ 1 \in closed' \ closed => UNCHANGED call]_vars

(* A running event stream has an open session to connect with, unless its   *)
(* owner has closed that, or the stream was started during a close().       *)
StreamHasSession ==
  ~clashed /\ stream => IsOpen(session) \/ (borrowed /\ session = 1)

(* When a caller is done with an async with block or close(), none of the   *)
(* client's own sessions is open: also when several closes overlap, or a    *)
(* close and an open whose refresh is still under way.                      *)
Released(x) == call[x].pc \in {"closing", "body", "stopping"} /\ call'[x].pc = "idle"

CloseReleases ==
  [][~clashed => \A x \in Callers : Released(x) => OwnSessions \subseteq closed']_vars

(* README.md:40: async with creates and owns the session.  A task that has  *)
(* left the block, or failed to enter it, leaves no session open, if it is  *)
(* the only one to use the client.                                          *)
BlockLeft(x) == call[x].with /\ ~call'[x].with

WithReleases ==
  [][\A x \in Callers : BlockLeft(x) /\ Callers = {x} => OwnSessions \subseteq closed']_vars
=============================================================================
