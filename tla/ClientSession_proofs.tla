------------------------ MODULE ClientSession_proofs ------------------------
(* Theorems about ClientSession, for any number of callers and sessions.    *)
EXTENDS ClientSession, TLAPS

-----------------------------------------------------------------------------
(* The inductive invariant.                                                 *)

Types ==
  /\ made \in 0..MaxSessions /\ session \in 0..made
  /\ closed \subseteq 1..made
  /\ owns \in BOOLEAN /\ stream \in BOOLEAN
  /\ borrowed \in BOOLEAN /\ clashed \in BOOLEAN
  /\ call \in [Callers -> Call]

(* The client owns every session but the borrowed one, and never comes back *)
(* to that once it had to make one of its own.                              *)
Ownership ==
  /\ borrowed => made >= 1
  /\ owns => ~(borrowed /\ session = 1)
  /\ ~owns => borrowed /\ session = 1 /\ made = 1

(* What a caller in close() may rely on if no other one opens or starts:    *)
(* the stream stays down, the session that is being closed stays closed.    *)
Closing ==
  \A x \in Callers :
    /\ call[x].pc = "closing" => owns
    /\ ~clashed /\ call[x].pc \in {"stopping", "closing"} => ~stream
    /\ ~clashed /\ call[x].pc = "closing" => session = 0 \/ session \in closed

(* A session of the client that is closed is still current only while its   *)
(* close() is under way.                                                    *)
ClosedIsClosing ==
  ~clashed /\ owns /\ session \in closed => \E x \in Callers : call[x].pc = "closing"

Inv ==
  /\ Types /\ Ownership /\ Closing /\ ClosedIsClosing
  /\ NoSessionLeaked /\ StreamHasSession

LEMMA InvTypeOK == Inv => TypeOK
  BY DEF Inv, Types, ClosedIsClosing, TypeOK

LEMMA InitInv == Init => Inv
<1> SUFFICES ASSUME Init PROVE Inv
  OBVIOUS
<1>0. MaxSessions \in Nat /\ MaxSessions >= 1
  BY SessionAssumption
<1>1. /\ borrowed \in BOOLEAN /\ (borrowed => made = 1) /\ (~borrowed => made = 0)
      /\ session = made /\ (owns <=> ~borrowed) /\ owns \in BOOLEAN
      /\ closed = {} /\ stream = FALSE /\ clashed = FALSE
  BY DEF Init
<1>2. call \in [Callers -> Call] /\ \A x \in Callers : call[x].pc = "idle"
  <2>1. Idle \in Call /\ Idle.pc = "idle"
    BY <1>0 DEF Idle, Call
  <2> QED BY <2>1 DEF Init
<1>3. Types
  <2>1. made \in 0..MaxSessions /\ session \in 0..made /\ closed \subseteq 1..made
    BY <1>0, <1>1
  <2> QED BY <1>1, <1>2, <2>1 DEF Types
<1>4. Ownership
  BY <1>1 DEF Ownership
<1>5. Closing /\ ClosedIsClosing /\ StreamHasSession
  BY <1>1, <1>2 DEF Closing, ClosedIsClosing, StreamHasSession
<1>6. NoSessionLeaked
  BY <1>1 DEF NoSessionLeaked, OwnSessions
<1> QED BY <1>3, <1>4, <1>5, <1>6 DEF Inv

(* How the callers' places change: only x's does.                           *)
LEMMA CallChanges ==
  ASSUME Types, NEW x \in Callers, NEW c \in Call, call' = [call EXCEPT ![x] = c]
  PROVE  /\ call' \in [Callers -> Call]
         /\ call'[x] = c
         /\ \A y \in Callers : y # x => call'[y] = call[y]
  BY DEF Types

LEMMA OpenInv ==
  ASSUME Inv, NEW x \in Callers, NEW with \in BOOLEAN, Open(x, with)
  PROVE  Inv'
<1> DEFINE c == [pc |-> "opening", req |-> session', with |-> with]
<1>0. /\ MaxSessions \in Nat /\ made \in 0..MaxSessions /\ session \in 0..made
      /\ closed \subseteq 1..made /\ Types
  BY SessionAssumption DEF Inv, Types
<1>1. /\ call[x].pc = "idle" /\ call' = [call EXCEPT ![x] = c] /\ MayClash
      /\ UNCHANGED <<closed, stream, borrowed>>
      /\ \/ IsOpen(session) /\ UNCHANGED <<session, owns, made>>
         \/ /\ ~IsOpen(session) /\ made < MaxSessions
            /\ made' = made + 1 /\ session' = made + 1 /\ owns' = TRUE
  BY DEF Open
<1>2. Types' /\ \A y \in Callers : y # x => call'[y] = call[y]
  <2>1. made' \in 0..MaxSessions /\ session' \in 0..made' /\ closed' \subseteq 1..made'
    BY <1>0, <1>1
  <2>2. c \in Call
    BY <2>1, <1>0 DEF Call
  <2>3. owns' \in BOOLEAN /\ clashed' \in BOOLEAN
    BY <1>1, <1>0 DEF Types, MayClash
  <2> HIDE DEF c
  <2>4. call' \in [Callers -> Call] /\ \A y \in Callers : y # x => call'[y] = call[y]
    BY <1>0, <1>1, <2>2, CallChanges
  <2> QED BY <1>0, <1>1, <2>1, <2>3, <2>4 DEF Types
<1>3. call'[x].pc = "opening"
  BY <1>0, <1>1 DEF Types
<1>4. \A y \in Callers : call'[y].pc \in {"stopping", "closing"} =>
        y # x /\ call'[y] = call[y] /\ clashed'
  BY <1>1, <1>2, <1>3 DEF MayClash
<1>5. ~clashed' => ~clashed
  BY <1>1 DEF MayClash
<1>6. Ownership'
  BY <1>0, <1>1 DEF Inv, Ownership
<1>7. Closing'
  <2>1. \A y \in Callers : call'[y].pc = "closing" => owns'
    BY <1>1, <1>4 DEF Inv, Closing
  <2> QED BY <1>4, <2>1 DEF Closing
<1>8. session' \notin closed'
  BY <1>0, <1>1 DEF IsOpen
<1>9. NoSessionLeaked'
  <2> SUFFICES ASSUME ~clashed', NEW n \in OwnSessions' PROVE n \in closed' \/ n = session'
    BY DEF NoSessionLeaked
  <2>1. CASE UNCHANGED <<session, made>>
    BY <1>1, <1>5, <2>1 DEF Inv, NoSessionLeaked, OwnSessions
  <2>2. CASE ~IsOpen(session) /\ made' = made + 1 /\ session' = made + 1
    <3>1. n \in OwnSessions \/ n = session'
      BY <1>0, <1>1, <2>2 DEF OwnSessions
    <3>2. n \in OwnSessions => n \in closed \/ n = session
      BY <1>5 DEF Inv, NoSessionLeaked
    <3>3. n \in OwnSessions => n # 0
      BY <1>0 DEF OwnSessions
    <3> QED BY <1>1, <2>2, <3>1, <3>2, <3>3 DEF IsOpen
  <2> QED BY <1>1, <2>1, <2>2
<1>10. StreamHasSession'
  <2>1. IsOpen(session)' \/ UNCHANGED session
    BY <1>0, <1>1, <1>8 DEF IsOpen
  <2> QED BY <1>1, <1>5, <2>1 DEF Inv, StreamHasSession, IsOpen
<1> QED BY <1>2, <1>6, <1>7, <1>8, <1>9, <1>10 DEF Inv, ClosedIsClosing

(* A step that changes nothing but where caller x is, and not to or from    *)
(* the end of a close().                                                    *)
LEMMA MoveInv ==
  ASSUME Inv, NEW x \in Callers, NEW c \in Call, call' = [call EXCEPT ![x] = c],
         UNCHANGED <<session, owns, made, closed, stream, borrowed, clashed>>,
         call[x].pc # "closing", c.pc \notin {"stopping", "closing"}
  PROVE  Inv'
<1>1. /\ call' \in [Callers -> Call] /\ call'[x] = c
      /\ \A y \in Callers : y # x => call'[y] = call[y]
  BY CallChanges DEF Inv
<1>2. Types' /\ Ownership' /\ NoSessionLeaked' /\ StreamHasSession'
  BY <1>1 DEF Inv, Types, Ownership, NoSessionLeaked, OwnSessions, StreamHasSession, IsOpen
<1>3. Closing'
  BY <1>1 DEF Inv, Closing
<1>4. ClosedIsClosing'
  BY <1>1 DEF Inv, ClosedIsClosing
<1> QED BY <1>2, <1>3, <1>4 DEF Inv

LEMMA IdleCall == Idle \in Call
  BY SessionAssumption DEF Idle, Call

(* Every way through the end of a close(): nothing to close, a session that *)
(* is closed already, and one that is open.                                 *)
LEMMA CloseSessionInv ==
  ASSUME Inv, NEW x \in Callers, CloseSession(x), call[x].pc # "closing",
         stream' \in BOOLEAN, ~clashed => stream' = FALSE,
         UNCHANGED <<owns, made, borrowed, clashed>>
  PROVE  Inv'
<1>0. /\ MaxSessions \in Nat /\ made \in 0..MaxSessions /\ session \in 0..made
      /\ closed \subseteq 1..made /\ Types /\ 0 \notin closed
  BY SessionAssumption DEF Inv, Types
<1>1. StreamHasSession'
  BY DEF StreamHasSession
<1>2. CASE /\ ~owns \/ session = 0 \/ session \in closed
           /\ call' = [call EXCEPT ![x] = Idle] /\ closed' = closed
           /\ session' = session \/ session' = 0
           /\ session' = session => ~owns \/ session = 0
           /\ session' # session => owns /\ session \in closed
  <2>1. /\ call' \in [Callers -> Call] /\ call'[x].pc = "idle"
        /\ \A y \in Callers : y # x => call'[y] = call[y]
    BY <1>0, <1>2, CallChanges, IdleCall DEF Idle
  <2>2. Types'
    <3>1. made' \in 0..MaxSessions /\ session' \in 0..made' /\ closed' \subseteq 1..made'
      BY <1>0, <1>2
    <3> QED BY <1>0, <2>1, <3>1 DEF Types
  <2>3. Ownership'
    BY <1>2 DEF Inv, Ownership
  <2>4. Closing'
    BY <1>2, <2>1 DEF Inv, Closing
  <2>5. ClosedIsClosing'
    BY <1>0, <1>2 DEF ClosedIsClosing
  <2>6. NoSessionLeaked'
    BY <1>2 DEF Inv, NoSessionLeaked, OwnSessions
  <2> QED BY <1>1, <2>2, <2>3, <2>4, <2>5, <2>6 DEF Inv
<1>3. CASE /\ owns /\ session # 0 /\ session \notin closed
           /\ closed' = closed \cup {session} /\ session' = session
           /\ call' = [call EXCEPT ![x] = [pc |-> "closing", req |-> session, with |-> @.with]]
  <2>1. /\ call' \in [Callers -> Call] /\ call'[x].pc = "closing"
        /\ \A y \in Callers : y # x => call'[y] = call[y]
    <3> DEFINE c == [pc |-> "closing", req |-> session, with |-> call[x].with]
    <3>1. call[x] \in Call
      BY <1>0 DEF Types
    <3>2. call' = [call EXCEPT ![x] = c]
      BY <1>3
    <3>3. c \in Call /\ c.pc = "closing"
      BY <1>0, <3>1 DEF Call
    <3> HIDE DEF c
    <3> QED BY <1>0, <3>2, <3>3, CallChanges
  <2>2. Types'
    <3>1. made' \in 0..MaxSessions /\ session' \in 0..made' /\ closed' \subseteq 1..made'
      BY <1>0, <1>3
    <3> QED BY <1>0, <2>1, <3>1 DEF Types
  <2>3. Ownership' /\ Closing' /\ ClosedIsClosing'
    BY <1>3, <2>1 DEF Inv, Ownership, Closing, ClosedIsClosing
  <2>4. NoSessionLeaked'
    BY <1>3 DEF Inv, NoSessionLeaked, OwnSessions
  <2> QED BY <1>1, <2>2, <2>3, <2>4 DEF Inv
<1> QED BY <1>0, <1>2, <1>3 DEF CloseSession

LEMMA CloseInv ==
  ASSUME Inv, NEW x \in Callers, Close(x)
  PROVE  Inv'
<1>1. CASE ~stream
  BY <1>1, CloseSessionInv DEF Close
<1>2. CASE stream
  <2>1. /\ call' = [call EXCEPT ![x].pc = "stopping"] /\ stream' = FALSE
        /\ call[x].pc \in {"idle", "body"}
        /\ UNCHANGED <<session, closed, owns, made, borrowed, clashed>>
    BY <1>2 DEF Close
  <2>2. /\ call' \in [Callers -> Call] /\ call'[x].pc = "stopping"
        /\ \A y \in Callers : y # x => call'[y] = call[y]
    BY <2>1 DEF Inv, Types, Call
  <2>3. Types' /\ Ownership' /\ NoSessionLeaked' /\ StreamHasSession'
    BY <2>1, <2>2 DEF Inv, Types, Ownership, NoSessionLeaked, OwnSessions, StreamHasSession
  <2>4. Closing' /\ ClosedIsClosing'
    BY <2>1, <2>2 DEF Inv, Closing, ClosedIsClosing
  <2> QED BY <2>3, <2>4 DEF Inv
<1> QED BY <1>1, <1>2

LEMMA StartStreamInv ==
  ASSUME Inv, NEW x \in Callers, StartStream(x)
  PROVE  Inv'
<1>1. /\ session # 0 /\ stream' = TRUE /\ MayClash
      /\ UNCHANGED <<session, owns, made, closed, call, borrowed>>
  BY DEF StartStream
<1>2. ~clashed' => ~clashed /\ \A y \in Callers : call[y].pc \notin {"stopping", "closing"}
  BY <1>1 DEF MayClash
<1>3. clashed' \in BOOLEAN
  BY <1>1 DEF MayClash, Inv, Types
<1>4. Types' /\ Ownership'
  BY <1>1, <1>3 DEF Inv, Types, Ownership
<1>5. Closing' /\ ClosedIsClosing' /\ NoSessionLeaked'
  BY <1>1, <1>2 DEF Inv, Closing, ClosedIsClosing, NoSessionLeaked, OwnSessions
<1>6. StreamHasSession'
  BY <1>1, <1>2 DEF Inv, ClosedIsClosing, Ownership, StreamHasSession, IsOpen
<1> QED BY <1>4, <1>5, <1>6 DEF Inv

LEMMA SessionClosedInv ==
  ASSUME Inv, NEW x \in Callers, SessionClosed(x)
  PROVE  Inv'
<1>0. made \in Nat /\ 0 \notin closed /\ Types
  BY SessionAssumption DEF Inv, Types
<1>1. /\ call[x].pc = "closing" /\ session' = 0 /\ call' = [call EXCEPT ![x] = Idle]
      /\ UNCHANGED <<owns, stream, made, closed, borrowed, clashed>>
  BY DEF SessionClosed
<1>2. /\ call' \in [Callers -> Call] /\ call'[x].pc = "idle"
      /\ \A y \in Callers : y # x => call'[y] = call[y]
  BY <1>0, <1>1, CallChanges, IdleCall DEF Idle
<1>3. owns /\ (~clashed => ~stream /\ (session = 0 \/ session \in closed))
  BY <1>1 DEF Inv, Closing
<1>4. Types'
  BY <1>0, <1>1, <1>2 DEF Types
<1>5. Ownership' /\ Closing'
  BY <1>1, <1>2, <1>3 DEF Inv, Ownership, Closing
<1>6. ClosedIsClosing' /\ StreamHasSession'
  BY <1>0, <1>1, <1>3 DEF ClosedIsClosing, StreamHasSession
<1>7. NoSessionLeaked'
  <2>1. \A n \in OwnSessions : n # 0
    BY <1>0 DEF OwnSessions
  <2> QED BY <1>1, <1>3, <2>1 DEF Inv, NoSessionLeaked, OwnSessions
<1> QED BY <1>4, <1>5, <1>6, <1>7 DEF Inv

LEMMA OwnerClosesInv ==
  ASSUME Inv, OwnerCloses
  PROVE  Inv'
<1>1. /\ borrowed /\ closed' = closed \cup {1}
      /\ UNCHANGED <<session, owns, stream, made, call, borrowed, clashed>>
  BY DEF OwnerCloses, clientVars
<1>2. made >= 1 /\ (owns => session # 1) /\ made \in Nat
  BY <1>1, SessionAssumption DEF Inv, Ownership, Types
<1>3. Types' /\ Ownership'
  BY <1>1, <1>2 DEF Inv, Types, Ownership
<1>4. Closing' /\ ClosedIsClosing' /\ NoSessionLeaked'
  BY <1>1, <1>2 DEF Inv, Closing, ClosedIsClosing, NoSessionLeaked, OwnSessions
<1>5. StreamHasSession'
  BY <1>1 DEF Inv, StreamHasSession, IsOpen
<1> QED BY <1>3, <1>4, <1>5 DEF Inv

LEMMA NextInv == Inv /\ [Next]_vars => Inv'
<1> SUFFICES ASSUME Inv, [Next]_vars PROVE Inv'
  OBVIOUS
<1>1. ASSUME NEW x \in Callers, Opened(x) PROVE Inv'
  <2> DEFINE c == IF call[x].with THEN [call[x] EXCEPT !.pc = "body", !.req = 0] ELSE Idle
  <2>1. /\ call[x].pc = "opening" /\ call' = [call EXCEPT ![x] = c]
        /\ UNCHANGED <<session, owns, made, closed, stream, borrowed, clashed>>
    BY <1>1 DEF Opened, clientVars
  <2>2. c \in Call /\ c.pc \in {"body", "idle"}
    BY IdleCall, SessionAssumption DEF Inv, Types, Call, Idle
  <2> HIDE DEF c
  <2> QED BY <2>1, <2>2, MoveInv
<1>2. ASSUME NEW x \in Callers, OpenFails(x) PROVE Inv'
  BY <1>2, IdleCall, MoveInv DEF OpenFails, clientVars, Idle
<1>3. ASSUME NEW x \in Callers, StreamStopped(x) PROVE Inv'
  <2>1. call[x].pc = "stopping" /\ CloseSession(x)
        /\ UNCHANGED <<owns, stream, made, borrowed, clashed>>
    BY <1>3 DEF StreamStopped
  <2>2. stream' \in BOOLEAN /\ (~clashed => stream' = FALSE)
    BY <2>1 DEF Inv, Types, Closing
  <2> QED BY <2>1, <2>2, CloseSessionInv
<1>4. CASE UNCHANGED vars
  BY <1>4 DEF vars, clientVars, Inv, Types, Ownership, Closing, ClosedIsClosing,
              NoSessionLeaked, OwnSessions, StreamHasSession, IsOpen
<1> QED BY <1>1, <1>2, <1>3, <1>4, OpenInv, StartStreamInv, CloseInv, SessionClosedInv,
           OwnerClosesInv DEF Next

-----------------------------------------------------------------------------
(* The theorems.                                                            *)

LEMMA AlwaysInv == Spec => []Inv
  BY InitInv, NextInv, PTL DEF Spec

(* The types; and a closed session of the client's own is current only      *)
(* until its close() has come back (client.py:300-308).                     *)
THEOREM TypeCorrect == Spec => []TypeOK
  BY AlwaysInv, InvTypeOK, PTL

(* No session that open() made is forgotten (client.py:295-308), however    *)
(* many callers open and close it and at whatever point they suspend.       *)
THEOREM NothingLeaked == Spec => []NoSessionLeaked
<1>1. Inv => NoSessionLeaked
  BY DEF Inv
<1> QED BY <1>1, AlwaysInv, PTL

(* A running event stream has an open session to connect with.              *)
THEOREM StreamFed == Spec => []StreamHasSession
<1>1. Inv => StreamHasSession
  BY DEF Inv
<1> QED BY <1>1, AlwaysInv, PTL

(* What the end of a close() closes is a session the client owns.           *)
LEMMA ClosesOnlyOwn ==
  ASSUME Inv, borrowed, NEW x \in Callers, CloseSession(x), 1 \in closed' \ closed
  PROVE  FALSE
<1>1. closed' = closed \/ (owns /\ closed' = closed \cup {session})
  BY DEF CloseSession
<1>2. owns => session # 1
  BY DEF Inv, Ownership
<1> QED BY <1>1, <1>2

(* The session that the caller passed in is closed by its owner only        *)
(* (README.md:40-42).                                                       *)
THEOREM BorrowedKept == Spec => BorrowedLeftOpen
<1>1. Inv /\ [Next]_vars => [borrowed /\ 1 \in closed' \ closed => UNCHANGED call]_vars
  <2> SUFFICES ASSUME Inv, [Next]_vars, borrowed, 1 \in closed' \ closed
               PROVE  UNCHANGED call
    OBVIOUS
  <2>1. CASE OwnerCloses
    BY <2>1 DEF OwnerCloses
  <2>2. ASSUME NEW x \in Callers, Close(x) PROVE FALSE
    BY <2>2, ClosesOnlyOwn DEF Close
  <2>3. ASSUME NEW x \in Callers, StreamStopped(x) PROVE FALSE
    BY <2>3, ClosesOnlyOwn DEF StreamStopped
  <2>4. ASSUME NEW x \in Callers,
               \/ \E with \in BOOLEAN : Open(x, with)
               \/ Opened(x) \/ OpenFails(x) \/ StartStream(x) \/ SessionClosed(x)
        PROVE  FALSE
    BY <2>4 DEF Open, Opened, OpenFails, StartStream, SessionClosed
  <2>5. CASE UNCHANGED vars
    BY <2>5 DEF vars
  <2> QED BY <2>1, <2>2, <2>3, <2>4, <2>5 DEF Next
<1> QED BY <1>1, AlwaysInv, PTL DEF Spec, BorrowedLeftOpen

(* Nobody closes, or has nothing to close, unless every session of the      *)
(* client's own is closed.                                                  *)
LEMMA NothingOpen ==
  ASSUME Inv, ~clashed, ~owns \/ session = 0 \/ session \in closed
  PROVE  OwnSessions \subseteq closed
<1>0. made \in Nat
  BY SessionAssumption DEF Inv, Types
<1>1. CASE ~owns
  BY <1>0, <1>1 DEF Inv, Ownership, OwnSessions
<1>2. CASE session = 0 \/ session \in closed
  BY <1>0, <1>2 DEF Inv, NoSessionLeaked, OwnSessions
<1> QED BY <1>1, <1>2

LEMMA CloseSessionReleases ==
  ASSUME Inv, ~clashed, NEW x \in Callers, CloseSession(x), call'[x].pc = "idle",
         UNCHANGED <<made, borrowed>>
  PROVE  OwnSessions \subseteq closed'
<1>1. call \in [Callers -> Call]
  BY DEF Inv, Types
<1>2. (~owns \/ session = 0 \/ session \in closed) /\ closed' = closed
  BY <1>1 DEF CloseSession
<1> QED BY <1>2, NothingOpen

(* When close() or the async with block is left, none of the client's own   *)
(* sessions is open (client.py:300-308), whoever else is closing it.        *)
THEOREM ClosesRelease == Spec => CloseReleases
<1>1. Inv /\ [Next]_vars
        => [~clashed => \A x \in Callers : Released(x) => OwnSessions \subseteq closed']_vars
  <2> SUFFICES ASSUME Inv, [Next]_vars, ~clashed, NEW x \in Callers, Released(x)
               PROVE  OwnSessions \subseteq closed'
    OBVIOUS
  <2>1. call \in [Callers -> Call] /\ call'[x] # call[x] /\ call'[x].pc = "idle"
        /\ call[x].pc \in {"closing", "body", "stopping"}
    BY DEF Inv, Types, Released
  <2>2. CASE Close(x) \/ StreamStopped(x)
    <3>1. CASE CloseSession(x)
      BY <2>1, <2>2, <3>1, CloseSessionReleases DEF Close, StreamStopped
    <3>2. CASE call' = [call EXCEPT ![x].pc = "stopping"]
      BY <2>1, <3>2 DEF Call
    <3> QED BY <2>2, <3>1, <3>2 DEF Close, StreamStopped
  <2>3. CASE SessionClosed(x)
    <3>1. owns /\ (session = 0 \/ session \in closed) /\ closed' = closed
      BY <2>3 DEF SessionClosed, Inv, Closing
    <3> QED BY <3>1, NothingOpen
  <2>4. ASSUME NEW y \in Callers, y # x,
               \/ \E with \in BOOLEAN : Open(y, with)
               \/ Opened(y) \/ OpenFails(y) \/ SessionClosed(y)
        PROVE  FALSE
    BY <2>1, <2>4 DEF Open, Opened, OpenFails, SessionClosed
  <2>5. ASSUME NEW y \in Callers, y # x, Close(y) \/ StreamStopped(y)
        PROVE  FALSE
    BY <2>1, <2>5 DEF Close, StreamStopped, CloseSession
  <2>6. ASSUME NEW y \in Callers, StartStream(y) PROVE FALSE
    BY <2>1, <2>6 DEF StartStream
  <2>7. CASE OwnerCloses \/ UNCHANGED vars
    BY <2>1, <2>7 DEF OwnerCloses, vars
  <2>8. CASE (\E with \in BOOLEAN : Open(x, with)) \/ Opened(x) \/ OpenFails(x)
    BY <2>1, <2>8 DEF Open, Opened, OpenFails
  <2> QED BY <2>2, <2>3, <2>4, <2>5, <2>6, <2>7, <2>8 DEF Next
<1> QED BY <1>1, AlwaysInv, PTL DEF Spec, CloseReleases
=============================================================================
