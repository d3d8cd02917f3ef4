---------------------------- MODULE CameraState ----------------------------
(* Who writes client.cameras, and when: the event stream's reader folds     *)
(* wire events in (events.py _apply_event), refresh() replaces every camera *)
(* (client.py), and the arm and schedule commands mirror what the server    *)
(* has confirmed.  Refreshes and commands suspend on their HTTP request, so *)
(* everything else can happen between the server's answer and the moment    *)
(* the client uses it.                                                      *)
(*                                                                          *)
(* A camera is reduced to one field of each kind:                           *)
(*    mode      reported by ++systemInfo, the stream and the arm commands   *)
(*              (mode_c, mode_m, mode_a; connected too, without commands)   *)
(*    motion    known from the stream only (motion_active, the scores, ...) *)
(*    schedule  reported by ++systemInfo and the schedule commands (the     *)
(*              schedules and their overrides, three fields each)           *)
(* trigger_motion and set_schedule_preset leave the client as it is: for it *)
(* they are the server's own Motion and OtherArms.                          *)
EXTENDS Integers, Sequences, FiniteSets

CONSTANTS Cams,       \* camera numbers
          Callers,    \* tasks that call refresh() and the commands
          Kinds,      \* the calls they make
          Others,     \* other clients and schedules arm and disarm cameras too
          Gaps,       \* the event stream may be down for a while
          Relist,     \* cameras may leave and enter the server's list
          MaxWire     \* bound on the events under way

ASSUME CameraAssumption ==
  /\ Kinds \subseteq {"refresh", "toggle", "continuous", "schedule"}
  /\ {Others, Gaps, Relist} \subseteq BOOLEAN
  /\ MaxWire \in Nat
  /\ Cams # {}

VARIABLES
  server,     \* the server's cameras
  listed,     \* those in its ++systemInfo
  wire,       \* events sent and not yet read, oldest first
  attached,   \* the event stream is connected
  loaded,     \* client.info is not None
  known,      \* keys of client.cameras
  local,      \* client.cameras, for the cameras in known
  call,       \* the call each caller has in progress
  doubt,      \* history: what the client has missed, or may have overwritten
  healing     \* history: cameras whose mode the refresh under way will settle

serverVars == <<server, listed>>
clientVars == <<loaded, known, local>>
history == <<doubt, healing>>
vars == <<serverVars, wire, attached, clientVars, call, history>>

Camera == [mode : BOOLEAN, motion : BOOLEAN, schedule : BOOLEAN]
WireEvent == [cam : Cams, field : {"mode", "motion"}, value : BOOLEAN]

(* A call: what it asks, whether the server has answered, and the answer.   *)
(* "fallback" is the set_schedule that toggle_continuous resorts to.        *)
Answers == {"none", "OK", "404", "failed"}
Call == [pc : {"idle", "sent", "answered"},
         kind : {"none", "refresh", "toggle", "continuous", "schedule", "fallback"},
         cam : Cams, value : BOOLEAN, answer : Answers,
         listed : SUBSET Cams, cameras : [Cams -> Camera]]

Blank == [mode |-> FALSE, motion |-> FALSE, schedule |-> FALSE]

(* A camera that is not in client.cameras has left nothing behind.          *)
TypeOK ==
  /\ server \in [Cams -> Camera]
  /\ listed \subseteq Cams
  /\ wire \in Seq(WireEvent)
  /\ attached \in BOOLEAN
  /\ loaded \in BOOLEAN
  /\ known \subseteq Cams /\ (~loaded => known = {})
  /\ local \in [Cams -> Camera]
  /\ \A c \in Cams \ known : local[c] = Blank
  /\ call \in [Callers -> Call]
  /\ doubt \subseteq Cams \X {"mode", "motion"}
  /\ healing \subseteq Cams

NoCams == [c \in Cams |-> Blank]
Idle == [pc |-> "idle", kind |-> "none", cam |-> CHOOSE c \in Cams : TRUE, value |-> FALSE,
         answer |-> "none", listed |-> {}, cameras |-> NoCams]

(* After start(), on a quiet server; open() or a refresh has loaded info,   *)
(* or has failed (or the session is a borrowed one, which needs no open()). *)
Init ==
  /\ server \in [Cams -> {m \in Camera : ~m.motion}]
  /\ listed = Cams
  /\ wire = <<>>
  /\ attached = TRUE
  /\ loaded \in BOOLEAN
  /\ known = IF loaded THEN listed ELSE {}
  /\ local = IF loaded THEN server ELSE NoCams
  /\ call = [x \in Callers |-> Idle]
  /\ doubt = {}
  /\ healing = {}

Calling(x) == call[x].pc # "idle"

-----------------------------------------------------------------------------
(* History.  The client cannot learn of a change from a stream that is down *)
(* or about a camera it does not know, and a call under way may undo what   *)
(* the stream has told: D is then in doubt, and no refresh that has begun   *)
(* settles it.                                                              *)

Doubt(D) ==
  /\ doubt' = doubt \cup D
  /\ healing' = {c \in healing : <<c, "mode">> \notin D}

(* The server changes field f of camera c, by a call of X or on its own.    *)
Changes(c, f, X) ==
  Doubt(IF ~attached \/ (f = "mode" /\ \E x \in Callers \ X : Calling(x))
        THEN {<<c, f>>} ELSE {})

-----------------------------------------------------------------------------
(* The server (external), as the client relies on it: a change of a mode or *)
(* of motion goes to the stream's connections; ++systemInfo does not report *)
(* motion.                                                                  *)

Sends(cam, field, value) ==
  IF attached
  THEN /\ Len(wire) < MaxWire
       /\ wire' = Append(wire, [cam |-> cam, field |-> field, value |-> value])
  ELSE UNCHANGED wire

Motion(c) ==
  /\ server' = [server EXCEPT ![c].motion = ~@]
  /\ Sends(c, "motion", ~server[c].motion)
  /\ Changes(c, "motion", {})
  /\ UNCHANGED <<listed, attached, clientVars, call>>

OtherArms(c) ==
  /\ Others
  /\ server' = [server EXCEPT ![c].mode = ~@]
  /\ Sends(c, "mode", ~server[c].mode)
  /\ Changes(c, "mode", {})
  /\ UNCHANGED <<listed, attached, clientVars, call>>

Relists(c) ==
  /\ Relist
  /\ listed' = IF c \in listed THEN listed \ {c} ELSE listed \cup {c}
  /\ UNCHANGED <<server, wire, attached, clientVars, call, history>>

Answered(x, answer) == [call[x] EXCEPT !.pc = "answered", !.answer = answer]

AnswersRefresh(x) ==
  /\ call[x].pc = "sent" /\ call[x].kind = "refresh"
  /\ call' = [call EXCEPT ![x] =
                [Answered(x, "OK") EXCEPT
                   !.listed = listed,
                   !.cameras = [c \in Cams |-> [server[c] EXCEPT !.motion = FALSE]]]]
  /\ UNCHANGED <<serverVars, wire, attached, clientVars, history>>

(* What a command does to a camera; the fallback's 24/7 schedule also arms  *)
(* or disarms it.                                                           *)
Commanded(camera, kind, v) ==
  [camera EXCEPT !.mode = IF kind = "schedule" THEN camera.mode ELSE v,
                 !.schedule = IF kind \in {"schedule", "fallback"} THEN v ELSE camera.schedule]

Executes(x) ==
  LET c == call[x].cam  v == call[x].value
  IN  /\ call[x].pc = "sent" /\ call[x].kind \in {"toggle", "continuous", "schedule", "fallback"}
      /\ server' = [server EXCEPT ![c] = Commanded(server[c], call[x].kind, v)]
      /\ IF call[x].kind = "schedule" THEN UNCHANGED <<wire, history>>
         ELSE Sends(c, "mode", v) /\ Changes(c, "mode", {x})
      /\ call' = [call EXCEPT ![x] = Answered(x, "OK")]
      /\ UNCHANGED <<listed, attached, clientVars>>

(* An error status, or a build without ++ssControlContinuous.               *)
Refuses(x) ==
  /\ call[x].pc = "sent"
  /\ \/ call' = [call EXCEPT ![x] = Answered(x, "failed")]
     \/ call[x].kind = "continuous" /\ call' = [call EXCEPT ![x] = Answered(x, "404")]
  /\ UNCHANGED <<serverVars, wire, attached, clientVars, history>>

(* The answer is lost or late, or the request never arrives: RequestError.  *)
(* A request that was given up is not executed afterwards.                  *)
TimesOut(x) ==
  /\ call[x].pc # "idle"
  /\ call' = [call EXCEPT ![x] = Idle]
  /\ UNCHANGED <<serverVars, wire, attached, clientVars, history>>

-----------------------------------------------------------------------------
(* The event stream.                                                        *)

(* _apply_event; an event of an unknown camera is dropped.  (History: what  *)
(* the stream has told stands, unless a call may still overwrite it.)       *)
ApplyEvent ==
  /\ wire # <<>>
  /\ LET e == Head(wire)
         told == e.field = "motion" \/ \A x \in Callers : ~Calling(x)
     IN  IF e.cam \notin known
         THEN UNCHANGED local /\ Doubt({<<e.cam, e.field>>})
         ELSE /\ local' = IF e.field = "mode" THEN [local EXCEPT ![e.cam].mode = e.value]
                          ELSE [local EXCEPT ![e.cam].motion = e.value]
              /\ doubt' = IF told THEN doubt \ {<<e.cam, e.field>>} ELSE doubt
              /\ UNCHANGED healing
  /\ wire' = Tail(wire)
  /\ UNCHANGED <<serverVars, attached, loaded, known, call>>

Detaches ==
  /\ Gaps /\ attached
  /\ attached' = FALSE
  /\ wire' = <<>>
  /\ Doubt({<<wire[i].cam, wire[i].field>> : i \in DOMAIN wire})
  /\ UNCHANGED <<serverVars, clientVars, call>>

(* The watcher reconnects: it enqueues CONNECTED and reads on.              *)
Attaches ==
  /\ ~attached
  /\ attached' = TRUE
  /\ UNCHANGED <<serverVars, wire, clientVars, call, history>>

-----------------------------------------------------------------------------
(* The client's calls.                                                      *)

Refresh(x) ==
  /\ ~Calling(x) /\ "refresh" \in Kinds
  /\ call' = [call EXCEPT ![x] = [Idle EXCEPT !.pc = "sent", !.kind = "refresh"]]
  /\ healing' = IF \E y \in Callers : Calling(y) THEN {} ELSE Cams
  /\ UNCHANGED <<serverVars, wire, attached, clientVars, doubt>>

(* Mutant: mirrors the command before the server has confirmed it.          *)
CommandMirroredFirst(x, kind, c, v) ==
  /\ ~Calling(x) /\ kind \in Kinds
  /\ local' = IF c \in known /\ kind # "schedule" THEN [local EXCEPT ![c].mode = v] ELSE local
  /\ call' = [call EXCEPT ![x] = [Idle EXCEPT !.pc = "sent", !.kind = kind,
                                              !.cam = c, !.value = v]]
  /\ UNCHANGED <<serverVars, wire, attached, loaded, known, history>>

(* toggle_motion, toggle_actions ("toggle"), toggle_continuous, and         *)
(* set_schedule or set_schedule_override, which mirror a field each.        *)
Command(x, kind, c, v) ==
  /\ ~Calling(x) /\ kind \in Kinds
  /\ call' = [call EXCEPT ![x] = [Idle EXCEPT !.pc = "sent", !.kind = kind,
                                              !.cam = c, !.value = v]]
  /\ UNCHANGED <<serverVars, wire, attached, clientVars, history>>

(* Mutant: the new cameras start without runtime state.                     *)
MotionForgotten(c) == FALSE

(* The runtime state of the cameras of a refresh's answer: that of the      *)
(* cameras they replace, as it is now (copy_runtime_state).                 *)
Motions(c) == IF c \in known THEN local[c].motion ELSE FALSE

(* History: the modes are the server's again, a camera that is gone takes   *)
(* its runtime state with it.                                               *)
Settles(x) ==
  doubt' = (doubt \ {<<c, "mode">> : c \in healing \cap call[x].listed})
           \cup {<<c, "motion">> : c \in known \ call[x].listed}

(* Mutant: the answer is merged into client.cameras, nothing is removed.    *)
RefreshMerges(x) ==
  /\ call[x].pc = "answered" /\ call[x].kind = "refresh" /\ call[x].answer = "OK"
  /\ loaded' = TRUE /\ known' = call[x].listed
  /\ local' = [c \in Cams |-> IF c \in call[x].listed
                              THEN [call[x].cameras[c] EXCEPT !.motion = Motions(c)]
                              ELSE local[c]]
  /\ call' = [call EXCEPT ![x] = Idle]
  /\ Settles(x)
  /\ UNCHANGED <<serverVars, wire, attached, healing>>

RefreshReturns(x) ==
  /\ call[x].pc = "answered" /\ call[x].kind = "refresh" /\ call[x].answer = "OK"
  /\ loaded' = TRUE /\ known' = call[x].listed
  /\ local' = [c \in Cams |-> IF c \in call[x].listed
                              THEN [call[x].cameras[c] EXCEPT !.motion = Motions(c)]
                              ELSE Blank]
  /\ call' = [call EXCEPT ![x] = Idle]
  /\ Settles(x)
  /\ UNCHANGED <<serverVars, wire, attached, healing>>

CommandReturns(x) ==
  LET c == call[x].cam  v == call[x].value  kind == call[x].kind
  IN  /\ call[x].pc = "answered" /\ kind # "refresh" /\ call[x].answer = "OK"
      /\ local' = IF c \notin known THEN local
                  ELSE [local EXCEPT ![c] = Commanded(local[c], kind, v)]
      /\ call' = [call EXCEPT ![x] = Idle]
      /\ UNCHANGED <<serverVars, wire, attached, loaded, known, history>>

(* Mutant: toggle_continuous falls back after any failure.                  *)
FallsBackAlways(x) ==
  /\ call[x].pc = "answered" /\ call[x].kind = "continuous" /\ call[x].answer # "OK" /\ loaded
  /\ call' = [call EXCEPT ![x] = [@ EXCEPT !.pc = "sent", !.kind = "fallback"]]
  /\ UNCHANGED <<serverVars, wire, attached, clientVars, history>>

(* toggle_continuous goes on to set_schedule, only after a 404 (the answer  *)
(* that stays with the call until the schedule has been set), and only if   *)
(* info can tell which schedule is the 24/7 one (_always_schedule_id).      *)
FallsBack(x) ==
  /\ call[x].pc = "answered" /\ call[x].answer = "404" /\ loaded
  /\ call' = [call EXCEPT ![x] = [@ EXCEPT !.pc = "sent", !.kind = "fallback"]]
  /\ UNCHANGED <<serverVars, wire, attached, clientVars, history>>

CallFails(x) ==
  /\ call[x].pc = "answered"
  /\ call[x].answer = "failed" \/ (call[x].answer = "404" /\ ~loaded)
  /\ call' = [call EXCEPT ![x] = Idle]
  /\ UNCHANGED <<serverVars, wire, attached, clientVars, history>>

-----------------------------------------------------------------------------
World(c) == Motion(c) \/ OtherArms(c) \/ Relists(c)

Answer(x) == AnswersRefresh(x) \/ Executes(x) \/ Refuses(x) \/ TimesOut(x)

Caller(x) ==
  \/ Refresh(x)
  \/ \E c \in Cams, v \in BOOLEAN, kind \in {"toggle", "continuous", "schedule"} :
        Command(x, kind, c, v)
  \/ RefreshReturns(x) \/ CommandReturns(x) \/ FallsBack(x) \/ CallFails(x)

Next ==
  \/ \E c \in Cams : World(c)
  \/ ApplyEvent \/ Detaches \/ Attaches
  \/ \E x \in Callers : Answer(x) \/ Caller(x)

Spec == Init /\ [][Next]_vars

-----------------------------------------------------------------------------
(* Properties.                                                              *)

(* The value field f of camera c has once the events under way are applied. *)
Eventually(f, c) ==
  LET E == {i \in 1..Len(wire) : wire[i].cam = c /\ wire[i].field = f}
  IN  IF E = {} THEN local[c][f] ELSE wire[CHOOSE i \in E : \A j \in E : j <= i].value

(* Whatever refreshes and commands are answered late, lost or refused, the  *)
(* motion state is what the stream says: no refresh blanks it out or brings *)
(* back an old one (README.md:106-108).  Excepted: what the stream could    *)
(* not tell, until its next word about that camera.                         *)
MotionIsLive ==
  \A c \in known : <<c, "motion">> \notin doubt => Eventually("motion", c) = server[c].motion

(* No call under way, no unread event, the stream up.                       *)
Settled == attached /\ wire = <<>> /\ \A x \in Callers : ~Calling(x)

(* When the dust has settled client.cameras has the server's arm modes,     *)
(* whatever calls have overlapped, failed or been given up.  Excepted: a    *)
(* change that the stream could not tell, or that came between the request  *)
(* of a call and its end, until an event or an undisturbed refresh.         *)
SettledModes ==
  Settled => \A c \in known : <<c, "mode">> \notin doubt => local[c].mode = server[c].mode

(* Arm modes "all update the moment the matching event arrives.  Reading    *)
(* client.cameras is therefore always live state" (README.md:72-76): where  *)
(* client.cameras has the server's mode, every event having been applied,   *)
(* no step puts an older one in its place and leaves it there.              *)
ModesAreLive ==
  [][\A c \in known : wire = <<>> /\ local[c].mode = server[c].mode /\ Settled' =>
        local'[c].mode = server'[c].mode]_vars

(* A schedule is only rewritten for a caller of set_schedule, or of a       *)
(* toggle_continuous that the server answered with a 404: "a broken network *)
(* never silently rewrites a camera's schedule" (client.py:447-450).        *)
MayReschedule(x, c) ==
  /\ call[x].cam = c
  /\ call[x].kind = "schedule" \/ (call[x].kind = "fallback" /\ call[x].answer = "404")

NoSilentReschedule ==
  [][\A c \in Cams : server'[c].schedule # server[c].schedule =>
       \E x \in Callers : MayReschedule(x, c)]_vars
=============================================================================
