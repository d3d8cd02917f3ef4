------------------------- MODULE CameraState_proofs -------------------------
(* Theorems about CameraState, for any cameras, callers and kinds of calls, *)
(* and any number of events under way.                                      *)
EXTENDS CameraState, WellFoundedInduction, TLAPS

-----------------------------------------------------------------------------
(* Types.                                                                   *)

(* A non-empty set of positions has a last one.                             *)
LEMMA LastOne ==
  ASSUME NEW n \in Nat, NEW E \in SUBSET (1..n), E # {}
  PROVE  \E i \in E : \A j \in E : j <= i
<1> DEFINE T == {n - i : i \in E}
           R == OpToRel(<, Nat)
<1>1. T \subseteq Nat /\ T # {}
  <2>1. \A i \in E : n - i \in T /\ n - i \in Nat
    OBVIOUS
  <2>2. PICK i \in E : TRUE
    OBVIOUS
  <2> QED BY <2>1, <2>2
<1>2. IsWellFoundedOn(R, Nat)
  BY NatLessThanWellFounded
<1>3. \A x, y \in Nat : <<y, x>> \in R <=> y < x
  BY DEF OpToRel
<1> HIDE DEF T, R
<1>4. PICK t \in T : \A s \in T : <<s, t>> \notin R
  BY <1>1, <1>2, WFMin
<1>5. PICK i \in E : t = n - i
  BY DEF T
<1>6. \A j \in E : n - j \in T /\ n - j \in Nat
  BY <1>1 DEF T
<1>7. \A j \in E : ~(n - j < n - i)
  BY <1>1, <1>3, <1>4, <1>5, <1>6
<1> QED BY <1>5, <1>7

LEMMA BlankTyped == Blank \in Camera /\ Blank.motion = FALSE /\ NoCams \in [Cams -> Camera]
  BY DEF Blank, Camera, NoCams

LEMMA IdleTyped == Idle \in Call /\ Idle.pc = "idle" /\ Idle.kind = "none"
  BY CameraAssumption, BlankTyped DEF Call, Idle, Answers

LEMMA AnsweredTyped ==
  ASSUME NEW x \in Callers, call \in [Callers -> Call], NEW a \in Answers
  PROVE  Answered(x, a) \in Call /\ Answered(x, a).pc = "answered"
  BY DEF Call, Answered

(* What a server that is listed answers.                                    *)
LEMMA AnswerTyped ==
  ASSUME NEW r \in Call, NEW L \in SUBSET Cams, NEW M \in [Cams -> Camera]
  PROVE  /\ [r EXCEPT !.listed = L, !.cameras = M] \in Call
         /\ [r EXCEPT !.listed = L, !.cameras = M].pc = r.pc
  BY DEF Call

LEMMA CommandedTyped ==
  ASSUME NEW r \in Camera, NEW kind, NEW v \in BOOLEAN
  PROVE  /\ Commanded(r, kind, v) \in Camera
         /\ Commanded(r, kind, v).motion = r.motion
         /\ kind \notin {"schedule", "fallback"} => Commanded(r, kind, v).schedule = r.schedule
         /\ Commanded(r, kind, v).mode = IF kind = "schedule" THEN r.mode ELSE v
<1> DEFINE m == IF kind = "schedule" THEN r.mode ELSE v
           s == IF kind \in {"schedule", "fallback"} THEN v ELSE r.schedule
<1>1. m \in BOOLEAN /\ s \in BOOLEAN /\ (kind \notin {"schedule", "fallback"} => s = r.schedule)
      /\ m = IF kind = "schedule" THEN r.mode ELSE v
  BY DEF Camera
<1>2. Commanded(r, kind, v) = [r EXCEPT !.mode = m, !.schedule = s]
  BY DEF Commanded
<1> HIDE DEF m, s
<1> QED BY <1>1, <1>2 DEF Camera

LEMMA MotionSet ==
  ASSUME NEW r \in Camera, NEW m \in BOOLEAN
  PROVE  /\ [r EXCEPT !.motion = m] \in Camera /\ [r EXCEPT !.motion = m].motion = m
         /\ [r EXCEPT !.motion = m].schedule = r.schedule /\ [r EXCEPT !.motion = m].mode = r.mode
  BY DEF Camera

LEMMA ModeSet ==
  ASSUME NEW r \in Camera, NEW m \in BOOLEAN
  PROVE  /\ [r EXCEPT !.mode = m] \in Camera /\ [r EXCEPT !.mode = m].motion = r.motion
         /\ [r EXCEPT !.mode = m].schedule = r.schedule /\ [r EXCEPT !.mode = m].mode = m
  BY DEF Camera

LEMMA FallbackTyped ==
  ASSUME NEW r \in Call
  PROVE  LET n == [r EXCEPT !.pc = "sent", !.kind = "fallback"]
         IN  n \in Call /\ n.answer = r.answer
  BY DEF Call

LEMMA RefreshTyped ==
  LET r == [Idle EXCEPT !.pc = "sent", !.kind = "refresh"]
  IN  r \in Call /\ r.kind = "refresh"
  BY IdleTyped DEF Call

-----------------------------------------------------------------------------
(* The invariant.                                                           *)

Tells(i, c) == i \in 1..Len(wire) /\ wire[i].cam = c /\ wire[i].field = "motion"

(* The last event under way about a camera's motion tells the truth.        *)
LastTells ==
  \A c \in Cams : \A i \in 1..Len(wire) :
     Tells(i, c) /\ (\A j \in 1..Len(wire) : Tells(j, c) => j <= i)
       => wire[i].value = server[c].motion

(* Without one the client knows it: FALSE for a camera it does not know,    *)
(* which is what that camera will begin with when a refresh brings it.      *)
NoneLeft ==
  \A c \in Cams : (\A i \in 1..Len(wire) : ~Tells(i, c)) /\ <<c, "motion">> \notin doubt
       => local[c].motion = server[c].motion

Detached == ~attached => wire = <<>>

Fallbacks ==
  \A x \in Callers : call[x].pc = "sent" /\ call[x].kind = "fallback" => call[x].answer = "404"

Inv == TypeOK /\ LastTells /\ NoneLeft /\ Detached /\ Fallbacks

-----------------------------------------------------------------------------
(* Types are kept, action by action.                                        *)

LEMMA DoubtTyped ==
  ASSUME TypeOK, NEW D \in SUBSET (Cams \X {"mode", "motion"}), Doubt(D)
  PROVE  /\ doubt' \subseteq Cams \X {"mode", "motion"} /\ healing' \subseteq Cams
         /\ doubt' = doubt \cup D
  BY DEF TypeOK, Doubt

LEMMA ChangesTyped ==
  ASSUME TypeOK, NEW c \in Cams, NEW f \in {"mode", "motion"}, NEW X, Changes(c, f, X)
  PROVE  /\ doubt' \subseteq Cams \X {"mode", "motion"} /\ healing' \subseteq Cams
         /\ doubt \subseteq doubt'
         /\ ~attached => <<c, f>> \in doubt'
<1> DEFINE D == IF ~attached \/ (f = "mode" /\ \E x \in Callers \ X : Calling(x))
                THEN {<<c, f>>} ELSE {}
<1>1. D \in SUBSET (Cams \X {"mode", "motion"}) /\ (~attached => <<c, f>> \in D)
  OBVIOUS
<1>2. Doubt(D)
  BY DEF Changes
<1> HIDE DEF D
<1> QED BY <1>1, <1>2, DoubtTyped

LEMMA SendsTyped ==
  ASSUME TypeOK, NEW c \in Cams, NEW f \in {"mode", "motion"}, NEW v \in BOOLEAN, Sends(c, f, v)
  PROVE  wire' \in Seq(WireEvent)
<1>1. [cam |-> c, field |-> f, value |-> v] \in WireEvent
  BY DEF WireEvent
<1> QED BY <1>1 DEF TypeOK, Sends

LEMMA MotionType == ASSUME TypeOK, NEW c \in Cams, Motion(c) PROVE TypeOK'
<1>1. server[c] \in Camera /\ server[c].motion \in BOOLEAN
  BY DEF TypeOK, Camera
<1>2. server' \in [Cams -> Camera]
  BY <1>1, MotionSet DEF Motion, TypeOK
<1>3. wire' \in Seq(WireEvent)
  BY <1>1, SendsTyped DEF Motion
<1>4. doubt' \subseteq Cams \X {"mode", "motion"} /\ healing' \subseteq Cams
  BY ChangesTyped DEF Motion
<1> QED BY <1>2, <1>3, <1>4 DEF TypeOK, Motion, clientVars

LEMMA OtherArmsType == ASSUME TypeOK, NEW c \in Cams, OtherArms(c) PROVE TypeOK'
<1>1. server[c] \in Camera /\ server[c].mode \in BOOLEAN
  BY DEF TypeOK, Camera
<1>2. server' \in [Cams -> Camera]
  BY <1>1, ModeSet DEF OtherArms, TypeOK
<1>3. wire' \in Seq(WireEvent)
  BY <1>1, SendsTyped DEF OtherArms
<1>4. doubt' \subseteq Cams \X {"mode", "motion"} /\ healing' \subseteq Cams
  BY ChangesTyped DEF OtherArms
<1> QED BY <1>2, <1>3, <1>4 DEF TypeOK, OtherArms, clientVars

(* A step that changes the call of x only.                                  *)
LEMMA CallType ==
  ASSUME TypeOK, NEW x \in Callers, NEW r \in Call, call' = [call EXCEPT ![x] = r],
         UNCHANGED <<serverVars, wire, attached, clientVars, doubt>>, healing' \subseteq Cams
  PROVE  TypeOK'
  BY DEF TypeOK, serverVars, clientVars

LEMMA AnswersRefreshCall ==
  ASSUME TypeOK, NEW x \in Callers, AnswersRefresh(x)
  PROVE  \E r \in Call : r.pc = "answered" /\ call' = [call EXCEPT ![x] = r]
<1> DEFINE M == [c \in Cams |-> [server[c] EXCEPT !.motion = FALSE]]
<1>1. M \in [Cams -> Camera]
  BY MotionSet DEF TypeOK
<1>2. Answered(x, "OK") \in Call /\ Answered(x, "OK").pc = "answered"
  BY AnsweredTyped DEF TypeOK, Answers
<1>3. listed \in SUBSET Cams
  BY DEF TypeOK
<1>4. call' = [call EXCEPT ![x] = [Answered(x, "OK") EXCEPT !.listed = listed, !.cameras = M]]
  BY DEF AnswersRefresh
<1> HIDE DEF M
<1> QED BY <1>1, <1>2, <1>3, <1>4, AnswerTyped

LEMMA ExecutesType == ASSUME TypeOK, NEW x \in Callers, Executes(x) PROVE TypeOK'
<1> DEFINE c == call[x].cam
           v == call[x].value
<1>1. c \in Cams /\ v \in BOOLEAN /\ server[c] \in Camera
  BY DEF TypeOK, Call
<1>2. server' = [server EXCEPT ![c] = Commanded(server[c], call[x].kind, v)]
  BY DEF Executes
<1>3. call' = [call EXCEPT ![x] = Answered(x, "OK")] /\ Answered(x, "OK") \in Call
  BY AnsweredTyped DEF Executes, TypeOK, Answers
<1>4. \/ UNCHANGED <<wire, history>>
      \/ Sends(c, "mode", v) /\ Changes(c, "mode", {x})
  BY DEF Executes
<1>5. UNCHANGED <<listed, attached, clientVars>>
  BY DEF Executes
<1> HIDE DEF c, v
<1>6. server' \in [Cams -> Camera]
  BY <1>1, <1>2, CommandedTyped DEF TypeOK
<1>7. call' \in [Callers -> Call]
  BY <1>3 DEF TypeOK
<1>8. wire' \in Seq(WireEvent) /\ doubt' \subseteq Cams \X {"mode", "motion"} /\ healing' \subseteq Cams
  BY <1>1, <1>4, SendsTyped, ChangesTyped DEF history, TypeOK
<1> QED BY <1>5, <1>6, <1>7, <1>8 DEF TypeOK, clientVars

LEMMA ApplyEventType == ASSUME TypeOK, ApplyEvent PROVE TypeOK'
<1> DEFINE e == Head(wire)
<1>1. wire # <<>> /\ wire' = Tail(wire) /\ wire \in Seq(WireEvent)
      /\ UNCHANGED <<serverVars, attached, loaded, known, call>>
  BY DEF ApplyEvent, TypeOK
<1>2. e \in WireEvent /\ wire' \in Seq(WireEvent)
  BY <1>1
<1>3. e.cam \in Cams /\ e.field \in {"mode", "motion"} /\ e.value \in BOOLEAN
  BY <1>2 DEF WireEvent
<1>4. CASE e.cam \notin known
  <2>1. UNCHANGED local /\ Doubt({<<e.cam, e.field>>})
    BY <1>4 DEF ApplyEvent
  <2>2. doubt' \subseteq Cams \X {"mode", "motion"} /\ healing' \subseteq Cams
    BY <1>3, <2>1, DoubtTyped
  <2> QED BY <1>1, <1>2, <2>1, <2>2 DEF TypeOK, serverVars
<1>5. CASE e.cam \in known
  <2>1. local' = (IF e.field = "mode" THEN [local EXCEPT ![e.cam].mode = e.value]
                  ELSE [local EXCEPT ![e.cam].motion = e.value])
        /\ doubt' \subseteq doubt /\ UNCHANGED healing
    BY <1>5 DEF ApplyEvent
  <2>2. local \in [Cams -> Camera] /\ \A c \in Cams \ known : local[c] = Blank
    BY DEF TypeOK
  <2> HIDE DEF e
  <2>3. local' \in [Cams -> Camera] /\ \A c \in Cams \ known : local'[c] = Blank
    BY <1>3, <1>5, <2>1, <2>2, MotionSet, ModeSet
  <2> QED BY <1>1, <1>2, <2>1, <2>3 DEF TypeOK, serverVars
<1> QED BY <1>4, <1>5

LEMMA DetachesType == ASSUME TypeOK, Detaches PROVE TypeOK'
<1> DEFINE D == {<<wire[i].cam, wire[i].field>> : i \in DOMAIN wire}
<1>1. \A i \in DOMAIN wire : wire[i] \in WireEvent
  BY DEF TypeOK
<1>2. D \in SUBSET (Cams \X {"mode", "motion"})
  BY <1>1 DEF WireEvent
<1>3. Doubt(D)
  BY DEF Detaches
<1> HIDE DEF D
<1>4. doubt' \subseteq Cams \X {"mode", "motion"} /\ healing' \subseteq Cams
  BY <1>2, <1>3, DoubtTyped
<1>5. <<>> \in Seq(WireEvent)
  OBVIOUS
<1> QED BY <1>4, <1>5 DEF Detaches, TypeOK, serverVars, clientVars

LEMMA RefreshReturnsType == ASSUME TypeOK, NEW x \in Callers, RefreshReturns(x) PROVE TypeOK'
<1>1. call[x] \in Call /\ call[x].listed \subseteq Cams /\ call[x].cameras \in [Cams -> Camera]
  BY DEF TypeOK, Call
<1>2. \A c \in Cams : Motions(c) \in BOOLEAN
  BY DEF TypeOK, Camera, Motions
<1>3. local' = [c \in Cams |-> IF c \in call[x].listed
                              THEN [call[x].cameras[c] EXCEPT !.motion = Motions(c)]
                              ELSE Blank]
      /\ known' = call[x].listed /\ loaded' = TRUE
  BY DEF RefreshReturns
<1>4. local' \in [Cams -> Camera] /\ \A c \in Cams \ known' : local'[c] = Blank
  BY <1>1, <1>2, <1>3, MotionSet, BlankTyped
<1>5. doubt' \subseteq Cams \X {"mode", "motion"}
  BY <1>1 DEF RefreshReturns, Settles, TypeOK
<1>6. call' \in [Callers -> Call]
  BY IdleTyped DEF RefreshReturns, TypeOK
<1> QED BY <1>1, <1>3, <1>4, <1>5, <1>6 DEF RefreshReturns, TypeOK, serverVars

LEMMA CommandReturnsType == ASSUME TypeOK, NEW x \in Callers, CommandReturns(x) PROVE TypeOK'
<1> DEFINE c == call[x].cam
           v == call[x].value
<1>1. c \in Cams /\ v \in BOOLEAN /\ local[c] \in Camera
  BY DEF TypeOK, Call
<1>2. local' = IF c \notin known THEN local
               ELSE [local EXCEPT ![c] = Commanded(local[c], call[x].kind, v)]
  BY DEF CommandReturns
<1>3. call' \in [Callers -> Call]
  BY IdleTyped DEF CommandReturns, TypeOK
<1>4. UNCHANGED <<serverVars, wire, attached, loaded, known, history>>
  BY DEF CommandReturns
<1> HIDE DEF c, v
<1>5. local' \in [Cams -> Camera] /\ \A d \in Cams \ known : local'[d] = Blank
  BY <1>1, <1>2, CommandedTyped DEF TypeOK
<1> QED BY <1>3, <1>4, <1>5 DEF TypeOK, serverVars, history

(* The steps that move a call and nothing else.                             *)
CallStep(x) ==
  \/ AnswersRefresh(x) \/ Refuses(x) \/ TimesOut(x) \/ Refresh(x) \/ FallsBack(x) \/ CallFails(x)
  \/ \E c \in Cams, v \in BOOLEAN, kind \in {"toggle", "continuous", "schedule"} :
        Command(x, kind, c, v)

LEMMA CallStepIs ==
  ASSUME TypeOK, NEW x \in Callers, CallStep(x)
  PROVE  \E r \in Call :
           /\ call' = [call EXCEPT ![x] = r]
           /\ r.pc = "sent" /\ r.kind = "fallback" => r.answer = "404"
           /\ UNCHANGED <<serverVars, wire, attached, clientVars, doubt>>
           /\ healing' \subseteq Cams
<1>0. call \in [Callers -> Call] /\ call[x] \in Call /\ healing \subseteq Cams
  BY DEF TypeOK
<1>1. CASE AnswersRefresh(x)
  BY <1>0, <1>1, AnswersRefreshCall DEF AnswersRefresh, history
<1>2. CASE Refuses(x)
  <2>1. \A a \in Answers : Answered(x, a) \in Call /\ Answered(x, a).pc = "answered"
    BY <1>0, AnsweredTyped
  <2>2. \E a \in Answers : call' = [call EXCEPT ![x] = Answered(x, a)]
    BY <1>2 DEF Refuses, Answers
  <2>3. UNCHANGED <<serverVars, wire, attached, clientVars, history>>
    BY <1>2 DEF Refuses
  <2> QED BY <1>0, <2>1, <2>2, <2>3 DEF history
<1>3. CASE TimesOut(x)
  BY <1>0, <1>3, IdleTyped DEF TimesOut, history
<1>4. CASE Refresh(x)
  BY <1>0, <1>4, RefreshTyped DEF Refresh
<1>5. CASE FallsBack(x)
  <2> DEFINE r == [call[x] EXCEPT !.pc = "sent", !.kind = "fallback"]
  <2>1. r \in Call /\ r.answer = "404"
    BY <1>0, <1>5, FallbackTyped DEF FallsBack
  <2>2. call' = [call EXCEPT ![x] = r] /\ UNCHANGED <<serverVars, wire, attached, clientVars, history>>
    BY <1>5 DEF FallsBack
  <2> HIDE DEF r
  <2> QED BY <1>0, <2>1, <2>2 DEF history
<1>6. CASE CallFails(x)
  BY <1>0, <1>6, IdleTyped DEF CallFails, history
<1>7. CASE \E c \in Cams, v \in BOOLEAN, kind \in {"toggle", "continuous", "schedule"} :
             Command(x, kind, c, v)
  <2>1. PICK c \in Cams, v \in BOOLEAN, kind \in {"toggle", "continuous", "schedule"} :
          Command(x, kind, c, v)
    BY <1>7
  <2> DEFINE r == [Idle EXCEPT !.pc = "sent", !.kind = kind, !.cam = c, !.value = v]
  <2>2. r \in Call /\ r.kind = kind
    <3>1. Idle \in Call
      BY IdleTyped
    <3> QED BY <3>1 DEF Call
  <2>3. call' = [call EXCEPT ![x] = r] /\ UNCHANGED <<serverVars, wire, attached, clientVars, history>>
    BY <2>1 DEF Command
  <2> HIDE DEF r
  <2> QED BY <1>0, <2>2, <2>3 DEF history
<1> QED BY <1>1, <1>2, <1>3, <1>4, <1>5, <1>6, <1>7 DEF CallStep

(* The shapes of a step.                                                    *)
LEMMA Steps ==
  ASSUME Next
  PROVE  \/ \E c \in Cams : Motion(c) \/ OtherArms(c) \/ Relists(c)
         \/ ApplyEvent \/ Detaches \/ Attaches
         \/ \E x \in Callers :
              CallStep(x) \/ Executes(x) \/ RefreshReturns(x) \/ CommandReturns(x)
  BY DEF Next, World, Answer, Caller, CallStep

LEMMA NextType == TypeOK /\ [Next]_vars => TypeOK'
<1> SUFFICES ASSUME TypeOK, [Next]_vars PROVE TypeOK'
  OBVIOUS
<1>1. ASSUME NEW c \in Cams, Motion(c) PROVE TypeOK'
  BY <1>1, MotionType
<1>2. ASSUME NEW c \in Cams, OtherArms(c) PROVE TypeOK'
  BY <1>2, OtherArmsType
<1>3. ASSUME NEW c \in Cams, Relists(c) PROVE TypeOK'
  BY <1>3 DEF Relists, TypeOK, clientVars, history
<1>4. CASE ApplyEvent
  BY <1>4, ApplyEventType
<1>5. CASE Detaches
  BY <1>5, DetachesType
<1>6. CASE Attaches
  BY <1>6 DEF Attaches, TypeOK, serverVars, clientVars, history
<1>7. ASSUME NEW x \in Callers, CallStep(x) PROVE TypeOK'
  BY <1>7, CallStepIs, CallType
<1>8. ASSUME NEW x \in Callers, Executes(x) PROVE TypeOK'
  BY <1>8, ExecutesType
<1>9. ASSUME NEW x \in Callers, RefreshReturns(x) PROVE TypeOK'
  BY <1>9, RefreshReturnsType
<1>10. ASSUME NEW x \in Callers, CommandReturns(x) PROVE TypeOK'
  BY <1>10, CommandReturnsType
<1>11. CASE UNCHANGED vars
  BY <1>11 DEF vars, TypeOK, serverVars, clientVars, history
<1> QED BY <1>1, <1>2, <1>3, <1>4, <1>5, <1>6, <1>7, <1>8, <1>9, <1>10, <1>11, Steps

-----------------------------------------------------------------------------
(* The rest of the invariant.                                               *)

(* A step of the calls, or of the client's copy: the wire and the server's  *)
(* motion stay, and so does the client's, except for a camera in doubt.     *)
LEMMA Quiet ==
  ASSUME LastTells, NoneLeft, wire' = wire,
         \A c \in Cams : server'[c].motion = server[c].motion,
         \A c \in Cams : local'[c].motion = local[c].motion \/ <<c, "motion">> \in doubt',
         \A c \in Cams : <<c, "motion">> \in doubt => <<c, "motion">> \in doubt'
  PROVE  LastTells' /\ NoneLeft'
  BY DEF LastTells, NoneLeft, Tells

(* An event about a mode is sent.                                           *)
LEMMA ModeSent ==
  ASSUME TypeOK, LastTells, NoneLeft, NEW c \in Cams, NEW v \in BOOLEAN, Sends(c, "mode", v),
         \A d \in Cams : server'[d].motion = server[d].motion,
         local' = local, doubt \subseteq doubt'
  PROVE  LastTells' /\ NoneLeft'
<1>1. CASE ~attached
  <2>1. wire' = wire
    BY <1>1 DEF Sends
  <2> QED BY <2>1, Quiet
<1>2. CASE attached
  <2>0. PICK n \in Nat : n = Len(wire)
    BY DEF TypeOK
  <2> DEFINE e == [cam |-> c, field |-> "mode", value |-> v]
  <2>1. wire' = Append(wire, e) /\ wire \in Seq(WireEvent) /\ e \in WireEvent
    BY <1>2 DEF Sends, TypeOK, WireEvent
  <2>2. Len(wire) = n /\ Len(wire') = n + 1 /\ wire'[n + 1] = e
        /\ \A i \in 1..n : wire'[i] = wire[i]
    BY <2>0, <2>1
  <2>3. e.field # "motion"
    OBVIOUS
  <2> HIDE DEF e
  <2>4. \A d \in Cams : ~Tells(n + 1, d)' /\ \A i \in 1..n : Tells(i, d)' <=> Tells(i, d)
    BY <2>2, <2>3 DEF Tells
  <2>5. \A d \in Cams, i \in 1..(n + 1) : Tells(i, d)' <=> i \in 1..n /\ Tells(i, d)
    BY <2>2, <2>3 DEF Tells
  <2>6. LastTells'
    <3> SUFFICES ASSUME NEW d \in Cams, NEW i \in 1..Len(wire'), Tells(i, d)',
                        \A j \in 1..Len(wire') : Tells(j, d)' => j <= i
                 PROVE  wire'[i].value = server'[d].motion
      BY DEF LastTells
    <3>1. i \in 1..n /\ Tells(i, d) /\ \A j \in 1..n : Tells(j, d) => j <= i
      BY <2>2, <2>5
    <3> QED BY <3>1, <2>2 DEF LastTells
  <2>7. NoneLeft'
    BY <2>2, <2>5 DEF NoneLeft
  <2> QED BY <2>6, <2>7
<1> QED BY <1>1, <1>2 DEF TypeOK

LEMMA MotionInv ==
  ASSUME TypeOK, LastTells, NoneLeft, Detached, NEW c \in Cams, Motion(c)
  PROVE  LastTells' /\ NoneLeft'
<1> DEFINE v == ~server[c].motion
<1>0. server[c] \in Camera /\ v \in BOOLEAN
  BY DEF TypeOK, Camera
<1>1. Sends(c, "motion", v) /\ local' = local
  BY DEF Motion, clientVars
<1>2. doubt \subseteq doubt' /\ (~attached => <<c, "motion">> \in doubt')
  BY ChangesTyped DEF Motion
<1>3. server'[c].motion = v /\ \A d \in Cams \ {c} : server'[d] = server[d]
  BY <1>0, MotionSet DEF Motion, TypeOK
<1> HIDE DEF v
<1>4. CASE ~attached
  <2>1. wire' = <<>>
    BY <1>1, <1>4 DEF Sends, Detached
  <2>2. wire = <<>>
    BY <1>4 DEF Detached
  <2> QED BY <1>1, <1>2, <1>3, <1>4, <2>1, <2>2 DEF LastTells, NoneLeft, Tells
<1>5. CASE attached
  <2>0. PICK n \in Nat : n = Len(wire)
    BY DEF TypeOK
  <2> DEFINE e == [cam |-> c, field |-> "motion", value |-> v]
  <2>1. wire' = Append(wire, e) /\ wire \in Seq(WireEvent) /\ e \in WireEvent
    BY <1>0, <1>1, <1>5 DEF Sends, TypeOK, WireEvent
  <2>2. Len(wire) = n /\ Len(wire') = n + 1 /\ wire'[n + 1] = e
        /\ \A i \in 1..n : wire'[i] = wire[i]
    BY <2>0, <2>1
  <2>3. e.field = "motion" /\ e.cam = c /\ e.value = v
    OBVIOUS
  <2> HIDE DEF e
  <2>4. Tells(n + 1, c)' /\ \A d \in Cams \ {c} : ~Tells(n + 1, d)'
    BY <2>2, <2>3 DEF Tells
  <2>5. \A d \in Cams, i \in 1..n : Tells(i, d)' <=> Tells(i, d)
    BY <2>2 DEF Tells
  <2>6. LastTells'
    <3> SUFFICES ASSUME NEW d \in Cams, NEW i \in 1..Len(wire'), Tells(i, d)',
                        \A j \in 1..Len(wire') : Tells(j, d)' => j <= i
                 PROVE  wire'[i].value = server'[d].motion
      BY DEF LastTells
    <3>1. CASE d = c
      <4>1. i = n + 1
        BY <2>2, <2>4, <3>1
      <4> QED BY <1>3, <2>2, <2>3, <3>1, <4>1
    <3>2. CASE d # c
      <4>1. i \in 1..n
        BY <2>2, <2>4, <3>2
      <4>2. Tells(i, d) /\ \A j \in 1..n : Tells(j, d) => j <= i
        BY <2>2, <2>5, <4>1
      <4> QED BY <1>3, <2>2, <3>2, <4>1, <4>2 DEF LastTells
    <3> QED BY <3>1, <3>2
  <2>7. NoneLeft'
    <3> SUFFICES ASSUME NEW d \in Cams, \A i \in 1..Len(wire') : ~Tells(i, d)',
                        <<d, "motion">> \notin doubt'
                 PROVE  local'[d].motion = server'[d].motion
      BY DEF NoneLeft
    <3>1. d # c
      BY <2>2, <2>4
    <3>2. \A i \in 1..n : ~Tells(i, d)
      BY <2>2, <2>5
    <3> QED BY <1>1, <1>2, <1>3, <2>2, <3>1, <3>2 DEF NoneLeft
  <2> QED BY <2>6, <2>7
<1> QED BY <1>4, <1>5 DEF TypeOK

LEMMA ApplyInv ==
  ASSUME TypeOK, LastTells, NoneLeft, ApplyEvent
  PROVE  LastTells' /\ NoneLeft'
<1>0. PICK n \in Nat : n = Len(wire)
  BY DEF TypeOK
<1>1. wire # <<>> /\ wire' = Tail(wire) /\ wire \in Seq(WireEvent) /\ UNCHANGED server
  BY DEF ApplyEvent, TypeOK, serverVars
<1>2. PICK e \in WireEvent : e = Head(wire)
  BY <1>1
<1>3. n > 0 /\ Len(wire') = n - 1 /\ e = wire[1]
      /\ \A i \in 1..(n - 1) : wire'[i] = wire[i + 1]
  BY <1>0, <1>1, <1>2
<1>4. e.cam \in Cams /\ e.field \in {"mode", "motion"} /\ e.value \in BOOLEAN
  BY DEF WireEvent
<1>5. \A d \in Cams, i \in 1..(n - 1) : Tells(i, d)' <=> Tells(i + 1, d)
  BY <1>0, <1>3 DEF Tells
<1>6. LastTells'
  <2> SUFFICES ASSUME NEW d \in Cams, NEW i \in 1..Len(wire'), Tells(i, d)',
                      \A j \in 1..Len(wire') : Tells(j, d)' => j <= i
               PROVE  wire'[i].value = server'[d].motion
    BY DEF LastTells
  <2>1. i \in 1..(n - 1) /\ i + 1 \in 1..n /\ Tells(i + 1, d)
    BY <1>3, <1>5
  <2>2. \A j \in 1..n : Tells(j, d) => j <= i + 1
    <3> SUFFICES ASSUME NEW j \in 1..n, Tells(j, d), j # 1 PROVE j <= i + 1
      BY <2>1
    <3>1. j - 1 \in 1..(n - 1) /\ (j - 1) + 1 = j
      OBVIOUS
    <3>2. Tells(j - 1, d)'
      BY <1>5, <3>1
    <3> QED BY <1>3, <2>1, <3>1, <3>2
  <2> QED BY <1>0, <1>1, <1>3, <2>1, <2>2 DEF LastTells
<1>7. NoneLeft'
  <2> SUFFICES ASSUME NEW d \in Cams, \A i \in 1..Len(wire') : ~Tells(i, d)',
                      <<d, "motion">> \notin doubt'
               PROVE  local'[d].motion = server[d].motion
    BY <1>1 DEF NoneLeft
  <2>1. \A j \in 1..n : Tells(j, d) => j = 1
    <3> SUFFICES ASSUME NEW j \in 1..n, Tells(j, d), j # 1 PROVE FALSE
      OBVIOUS
    <3>1. j - 1 \in 1..(n - 1) /\ (j - 1) + 1 = j
      OBVIOUS
    <3> QED BY <1>3, <1>5, <3>1
  <2>2. Tells(1, d) <=> e.cam = d /\ e.field = "motion"
    BY <1>0, <1>3 DEF Tells
  <2>3. CASE Tells(1, d)
    <3>1. e.value = server[d].motion
      BY <1>0, <1>3, <2>1, <2>3 DEF LastTells
    <3>2. d \in known
      <4> SUFFICES ASSUME d \notin known PROVE FALSE
        OBVIOUS
      <4>1. Doubt({<<d, "motion">>})
        BY <1>2, <2>2, <2>3 DEF ApplyEvent
      <4> QED BY <4>1 DEF Doubt
    <3>3. local' = [local EXCEPT ![d].motion = e.value]
      BY <1>2, <2>2, <2>3, <3>2 DEF ApplyEvent
    <3>4. local'[d].motion = e.value
      BY <1>4, <3>3, MotionSet DEF TypeOK
    <3> QED BY <3>1, <3>4
  <2>4. CASE ~Tells(1, d)
    <3>1. \A j \in 1..n : ~Tells(j, d)
      BY <2>1, <2>4
    <3>2. <<d, "motion">> \notin doubt
      <4>1. CASE e.cam \notin known
        BY <1>2, <4>1 DEF ApplyEvent, Doubt
      <4>2. CASE e.cam \in known
        <5>1. doubt' = doubt \/ doubt' = doubt \ {<<e.cam, e.field>>}
          BY <1>2, <4>2 DEF ApplyEvent
        <5> QED BY <2>2, <2>4, <5>1
      <4> QED BY <4>1, <4>2
    <3>3. local[d].motion = server[d].motion
      BY <1>0, <3>1, <3>2 DEF NoneLeft
    <3>4. local'[d].motion = local[d].motion
      <4>1. local \in [Cams -> Camera]
        BY DEF TypeOK
      <4>2. local' = local \/ local' = [local EXCEPT ![e.cam].mode = e.value]
            \/ (local' = [local EXCEPT ![e.cam].motion = e.value] /\ e.field = "motion")
        BY <1>2, <1>4 DEF ApplyEvent
      <4>3. CASE local' = [local EXCEPT ![e.cam].mode = e.value]
        <5>1. local'[d] = IF d = e.cam THEN [local[d] EXCEPT !.mode = e.value] ELSE local[d]
          BY <4>1, <4>3
        <5> QED BY <1>4, <4>1, <5>1, ModeSet
      <4>4. CASE local' = [local EXCEPT ![e.cam].motion = e.value] /\ e.field = "motion"
        BY <2>2, <2>4, <4>1, <4>4
      <4> QED BY <4>2, <4>3, <4>4
    <3> QED BY <3>3, <3>4
  <2> QED BY <2>3, <2>4
<1> QED BY <1>6, <1>7

LEMMA DetachInv ==
  ASSUME TypeOK, LastTells, NoneLeft, Detaches
  PROVE  LastTells' /\ NoneLeft'
<1> DEFINE D == {<<wire[i].cam, wire[i].field>> : i \in DOMAIN wire}
<1>1. wire' = <<>> /\ UNCHANGED <<server, local>> /\ doubt' = doubt \cup D
  BY DEF Detaches, Doubt, serverVars, clientVars
<1>2. \A c \in Cams, i \in 1..Len(wire) : Tells(i, c) => <<c, "motion">> \in D
  BY DEF TypeOK, Tells
<1> HIDE DEF D
<1> QED BY <1>1, <1>2 DEF LastTells, NoneLeft, Tells

LEMMA RefreshReturnsInv ==
  ASSUME TypeOK, LastTells, NoneLeft, NEW x \in Callers, RefreshReturns(x)
  PROVE  LastTells' /\ NoneLeft'
<1>1. call[x].cameras \in [Cams -> Camera] /\ call[x].listed \subseteq Cams
  BY DEF TypeOK, Call
<1>2. UNCHANGED <<server, wire>>
  BY DEF RefreshReturns, serverVars
<1>3. local' = [c \in Cams |-> IF c \in call[x].listed
                              THEN [call[x].cameras[c] EXCEPT !.motion = Motions(c)]
                              ELSE Blank]
  BY DEF RefreshReturns
<1>4. doubt' = (doubt \ {<<c, "mode">> : c \in healing \cap call[x].listed})
               \cup {<<c, "motion">> : c \in known \ call[x].listed}
  BY DEF RefreshReturns, Settles
<1>5. \A c \in Cams : <<c, "motion">> \in doubt => <<c, "motion">> \in doubt'
  BY <1>4
<1>6. \A c \in Cams : Motions(c) \in BOOLEAN /\ Motions(c) = local[c].motion
  <2> SUFFICES ASSUME NEW c \in Cams
               PROVE  Motions(c) \in BOOLEAN /\ Motions(c) = local[c].motion
    OBVIOUS
  <2>1. local[c] \in Camera /\ (c \notin known => local[c] = Blank)
    BY DEF TypeOK
  <2> QED BY <2>1, BlankTyped DEF Motions, Camera
<1>7. \A c \in Cams : local'[c].motion = local[c].motion \/ <<c, "motion">> \in doubt'
  <2> SUFFICES ASSUME NEW c \in Cams, <<c, "motion">> \notin doubt'
               PROVE  local'[c].motion = local[c].motion
    OBVIOUS
  <2>1. CASE c \in call[x].listed
    BY <1>1, <1>3, <1>6, <2>1, MotionSet
  <2>2. CASE c \notin call[x].listed
    <3>1. c \notin known
      BY <1>4, <2>2
    <3>2. local[c] = Blank /\ local'[c] = Blank
      BY <1>3, <2>2, <3>1 DEF TypeOK
    <3> QED BY <3>2
  <2> QED BY <2>1, <2>2
<1> QED BY <1>2, <1>5, <1>7, Quiet

LEMMA ExecutesInv ==
  ASSUME TypeOK, LastTells, NoneLeft, NEW x \in Callers, Executes(x)
  PROVE  LastTells' /\ NoneLeft'
<1>1. PICK c \in Cams, v \in BOOLEAN : c = call[x].cam /\ v = call[x].value
  BY DEF TypeOK, Call
<1>2. server' = [server EXCEPT ![c] = Commanded(server[c], call[x].kind, v)]
      /\ UNCHANGED local
  BY <1>1 DEF Executes, clientVars
<1>3. \A d \in Cams : server'[d].motion = server[d].motion
  BY <1>2, CommandedTyped DEF TypeOK
<1>4. CASE UNCHANGED <<wire, history>>
  BY <1>2, <1>3, <1>4, Quiet DEF history
<1>5. CASE Sends(c, "mode", v) /\ Changes(c, "mode", {x})
  <2>1. doubt \subseteq doubt'
    BY <1>5, ChangesTyped
  <2> QED BY <1>2, <1>3, <1>5, <2>1, ModeSent
<1>6. UNCHANGED <<wire, history>> \/ (Sends(c, "mode", v) /\ Changes(c, "mode", {x}))
  BY <1>1 DEF Executes
<1> QED BY <1>4, <1>5, <1>6

LEMMA OtherArmsInv ==
  ASSUME TypeOK, LastTells, NoneLeft, NEW c \in Cams, OtherArms(c)
  PROVE  LastTells' /\ NoneLeft'
<1>1. server[c] \in Camera /\ server[c].mode \in BOOLEAN
  BY DEF TypeOK, Camera
<1>2. PICK v \in BOOLEAN : v = ~server[c].mode
  BY <1>1
<1>3. server' = [server EXCEPT ![c].mode = v] /\ UNCHANGED local /\ Sends(c, "mode", v)
  BY <1>2 DEF OtherArms, clientVars
<1>4. \A d \in Cams : server'[d].motion = server[d].motion
  BY <1>3, ModeSet DEF TypeOK
<1>5. doubt \subseteq doubt'
  BY ChangesTyped DEF OtherArms
<1> QED BY <1>3, <1>4, <1>5, ModeSent

LEMMA CommandReturnsInv ==
  ASSUME TypeOK, LastTells, NoneLeft, NEW x \in Callers, CommandReturns(x)
  PROVE  LastTells' /\ NoneLeft'
<1>1. PICK c \in Cams, v \in BOOLEAN : c = call[x].cam /\ v = call[x].value
  BY DEF TypeOK, Call
<1>2. local' = (IF c \notin known THEN local
                ELSE [local EXCEPT ![c] = Commanded(local[c], call[x].kind, v)])
      /\ UNCHANGED <<server, wire, doubt>>
  BY <1>1 DEF CommandReturns, serverVars, history
<1>3. \A d \in Cams : local'[d].motion = local[d].motion
  BY <1>2, CommandedTyped DEF TypeOK
<1> QED BY <1>2, <1>3, Quiet

LEMMA RestInv ==
  ASSUME TypeOK, Detached, Fallbacks, Next
  PROVE  Detached' /\ Fallbacks'
<1>0. call \in [Callers -> Call]
  BY DEF TypeOK
<1>1. ASSUME NEW c \in Cams, Motion(c) PROVE Detached' /\ Fallbacks'
  BY <1>1 DEF Motion, Sends, Detached, Fallbacks
<1>2. ASSUME NEW c \in Cams, OtherArms(c) PROVE Detached' /\ Fallbacks'
  BY <1>2 DEF OtherArms, Sends, Detached, Fallbacks
<1>3. ASSUME NEW c \in Cams, Relists(c) PROVE Detached' /\ Fallbacks'
  BY <1>3 DEF Relists, Detached, Fallbacks
<1>4. CASE ApplyEvent
  BY <1>4 DEF ApplyEvent, Detached, Fallbacks
<1>5. CASE Detaches
  BY <1>5 DEF Detaches, Detached, Fallbacks
<1>6. CASE Attaches
  BY <1>6 DEF Attaches, Detached, Fallbacks
<1>7. ASSUME NEW x \in Callers, CallStep(x) PROVE Detached' /\ Fallbacks'
  BY <1>0, <1>7, CallStepIs DEF Detached, Fallbacks
<1>8. ASSUME NEW x \in Callers, Executes(x) PROVE Detached' /\ Fallbacks'
  <2>1. Answered(x, "OK").pc = "answered"
    BY AnsweredTyped DEF TypeOK, Answers
  <2>2. call' = [call EXCEPT ![x] = Answered(x, "OK")] /\ attached' = attached
        /\ (wire' = wire \/ Sends(call[x].cam, "mode", call[x].value))
    BY <1>8 DEF Executes
  <2> QED BY <1>0, <2>1, <2>2 DEF Detached, Fallbacks, Sends
<1>9. ASSUME NEW x \in Callers, RefreshReturns(x) \/ CommandReturns(x)
      PROVE  Detached' /\ Fallbacks'
  BY <1>0, <1>9, IdleTyped DEF RefreshReturns, CommandReturns, Detached, Fallbacks
<1> QED BY <1>1, <1>2, <1>3, <1>4, <1>5, <1>6, <1>7, <1>8, <1>9, Steps

LEMMA InitInv == Init => Inv
<1> SUFFICES ASSUME Init PROVE Inv
  OBVIOUS
<1>1. \A c \in Cams : server[c] \in Camera /\ server[c].motion = FALSE
  BY DEF Init
<1>2. server \in [Cams -> Camera]
  BY DEF Init
<1>3. local \in [Cams -> Camera] /\ \A c \in Cams : local[c].motion = FALSE
  BY <1>1, <1>2, BlankTyped DEF Init, NoCams
<1>4. \A c \in Cams \ known : local[c] = Blank
  BY DEF Init, NoCams
<1>5. call \in [Callers -> Call] /\ \A x \in Callers : call[x].pc = "idle"
  BY IdleTyped DEF Init
<1>6. wire \in Seq(WireEvent) /\ 1..Len(wire) = {}
  BY DEF Init
<1>7. TypeOK
  BY <1>2, <1>3, <1>4, <1>5, <1>6 DEF Init, TypeOK
<1>8. LastTells /\ NoneLeft
  BY <1>1, <1>3, <1>6 DEF LastTells, NoneLeft
<1>9. Detached /\ Fallbacks
  BY <1>5 DEF Init, Detached, Fallbacks
<1> QED BY <1>7, <1>8, <1>9 DEF Inv

LEMMA NextInv == Inv /\ [Next]_vars => Inv'
<1> SUFFICES ASSUME Inv, [Next]_vars PROVE Inv'
  OBVIOUS
<1>0. TypeOK /\ LastTells /\ NoneLeft /\ Detached /\ Fallbacks
  BY DEF Inv
<1>1. TypeOK'
  BY <1>0, NextType
<1>2. CASE Next
  <2>1. Detached' /\ Fallbacks'
    BY <1>0, <1>2, RestInv
  <2>2. ASSUME NEW c \in Cams, Motion(c) PROVE LastTells' /\ NoneLeft'
    BY <1>0, <2>2, MotionInv
  <2>3. ASSUME NEW c \in Cams, OtherArms(c) PROVE LastTells' /\ NoneLeft'
    BY <1>0, <2>3, OtherArmsInv
  <2>4. ASSUME NEW c \in Cams, Relists(c) PROVE LastTells' /\ NoneLeft'
    BY <1>0, <2>4, Quiet DEF Relists, clientVars, history
  <2>5. ASSUME ApplyEvent PROVE LastTells' /\ NoneLeft'
    BY <1>0, <2>5, ApplyInv
  <2>6. ASSUME Detaches PROVE LastTells' /\ NoneLeft'
    BY <1>0, <2>6, DetachInv
  <2>7. ASSUME Attaches PROVE LastTells' /\ NoneLeft'
    BY <1>0, <2>7, Quiet DEF Attaches, serverVars, clientVars, history
  <2>8. ASSUME NEW x \in Callers, CallStep(x) PROVE LastTells' /\ NoneLeft'
    BY <1>0, <2>8, CallStepIs, Quiet DEF serverVars, clientVars
  <2>9. ASSUME NEW x \in Callers, Executes(x) PROVE LastTells' /\ NoneLeft'
    BY <1>0, <2>9, ExecutesInv
  <2>10. ASSUME NEW x \in Callers, RefreshReturns(x) PROVE LastTells' /\ NoneLeft'
    BY <1>0, <2>10, RefreshReturnsInv
  <2>11. ASSUME NEW x \in Callers, CommandReturns(x) PROVE LastTells' /\ NoneLeft'
    BY <1>0, <2>11, CommandReturnsInv
  <2>12. LastTells' /\ NoneLeft'
    BY <1>2, <2>2, <2>3, <2>4, <2>5, <2>6, <2>7, <2>8, <2>9, <2>10, <2>11, Steps
  <2> QED BY <1>1, <2>1, <2>12 DEF Inv
<1>3. CASE UNCHANGED vars
  <2>1. UNCHANGED <<server, wire, local, doubt, attached, call>>
    BY <1>3 DEF vars, serverVars, clientVars, history
  <2> QED BY <1>0, <1>1, <2>1 DEF Inv, LastTells, NoneLeft, Tells, Detached, Fallbacks
<1> QED BY <1>2, <1>3

LEMMA AlwaysInv == Spec => []Inv
  BY InitInv, NextInv, PTL DEF Spec

-----------------------------------------------------------------------------
(* The arm modes.                                                           *)

TellsMode(i, c) == i \in 1..Len(wire) /\ wire[i].cam = c /\ wire[i].field = "mode"

(* The last event under way about a camera's mode tells the truth.          *)
LastTellsMode ==
  \A c \in Cams : \A i \in 1..Len(wire) :
     TellsMode(i, c) /\ (\A j \in 1..Len(wire) : TellsMode(j, c) => j <= i)
       => wire[i].value = server[c].mode

Silent(c) == \A i \in 1..Len(wire) : ~TellsMode(i, c)

(* Without one the client has been told, whatever calls are under way.      *)
ModeTold ==
  \A c \in known : <<c, "mode">> \notin doubt /\ Silent(c) => local[c].mode = server[c].mode

(* A call that the server has answered, which may still write a mode.       *)
Replied(y) == call[y].pc = "answered" /\ call[y].answer = "OK"
Confirmed(y, c) == Replied(y) /\ call[y].kind \notin {"refresh", "schedule"} /\ call[y].cam = c
Fetched(y) == Replied(y) /\ call[y].kind = "refresh"
Refreshing(y) == Calling(y) /\ call[y].kind = "refresh"

(* What it will write is true, or the camera is in doubt.                   *)
Returning ==
  \A c \in Cams : <<c, "mode">> \notin doubt =>
    \A y \in Callers : /\ Confirmed(y, c) => call[y].value = server[c].mode
                       /\ Fetched(y) => call[y].cameras[c].mode = server[c].mode

(* The refresh that ends a doubt is the only one under way; it writes the   *)
(* server's mode, and no command will write another after it.               *)
Heals ==
  \A x \in Callers : Refreshing(x) =>
    /\ \A y \in Callers : Refreshing(y) /\ y # x => healing = {}
    /\ \A c \in healing : /\ Fetched(x) => call[x].cameras[c].mode = server[c].mode
                          /\ \A y \in Callers : ~Confirmed(y, c)

Modes == LastTellsMode /\ ModeTold /\ Returning /\ Heals

LEMMA ModeOf == TypeOK => \A c \in Cams : server[c] \in Camera /\ local[c] \in Camera
                                          /\ server[c].mode \in BOOLEAN /\ local[c].mode \in BOOLEAN
  BY DEF TypeOK, Camera

(* An event is sent, about a mode if f is that.                             *)
LEMMA Sent ==
  ASSUME TypeOK, Detached, LastTellsMode, NEW c \in Cams, NEW f \in {"mode", "motion"},
         NEW v \in BOOLEAN, Sends(c, f, v),
         f = "mode" => server'[c].mode = v,
         \A d \in Cams : server'[d].mode = server[d].mode \/ (f = "mode" /\ d = c)
  PROVE  /\ LastTellsMode'
         /\ \A d \in Cams : Silent(d)' => Silent(d) /\ ~(attached /\ f = "mode" /\ d = c)
<1>1. CASE ~attached
  <2>1. wire = <<>> /\ wire' = <<>>
    BY <1>1 DEF Sends, Detached
  <2> QED BY <1>1, <2>1 DEF LastTellsMode, TellsMode, Silent
<1>2. CASE attached
  <2>0. PICK n \in Nat : n = Len(wire)
    BY DEF TypeOK
  <2>1. PICK e : e = [cam |-> c, field |-> f, value |-> v]
    OBVIOUS
  <2>2. wire' = Append(wire, e) /\ wire \in Seq(WireEvent) /\ e \in WireEvent
    BY <1>2, <2>1 DEF Sends, TypeOK, WireEvent
  <2>3. Len(wire) = n /\ Len(wire') = n + 1 /\ wire'[n + 1] = e
        /\ \A i \in 1..n : wire'[i] = wire[i]
    BY <2>0, <2>2
  <2>4. e.cam = c /\ e.field = f /\ e.value = v
    BY <2>1
  <2>5. \A d \in Cams : TellsMode(n + 1, d)' <=> (d = c /\ f = "mode")
    BY <2>3, <2>4 DEF TellsMode
  <2>6. \A d \in Cams, i \in 1..n : TellsMode(i, d)' <=> TellsMode(i, d)
    BY <2>3 DEF TellsMode
  <2>7. LastTellsMode'
    <3> SUFFICES ASSUME NEW d \in Cams, NEW i \in 1..Len(wire'), TellsMode(i, d)',
                        \A j \in 1..Len(wire') : TellsMode(j, d)' => j <= i
                 PROVE  wire'[i].value = server'[d].mode
      BY DEF LastTellsMode
    <3>1. CASE d = c /\ f = "mode"
      <4>1. i = n + 1
        BY <2>3, <2>5, <3>1
      <4> QED BY <2>3, <2>4, <3>1, <4>1
    <3>2. CASE ~(d = c /\ f = "mode")
      <4>1. i \in 1..n
        BY <2>3, <2>5, <3>2
      <4>2. TellsMode(i, d) /\ \A j \in 1..n : TellsMode(j, d) => j <= i
        BY <2>3, <2>6, <4>1
      <4> QED BY <2>3, <3>2, <4>1, <4>2 DEF LastTellsMode
    <3> QED BY <3>1, <3>2
  <2>8. ASSUME NEW d \in Cams, Silent(d)' PROVE Silent(d) /\ ~(f = "mode" /\ d = c)
    BY <2>3, <2>5, <2>6, <2>8 DEF Silent
  <2> QED BY <2>7, <2>8
<1> QED BY <1>1, <1>2 DEF TypeOK

(* The first event under way is read.                                       *)
LEMMA Read ==
  ASSUME TypeOK, LastTellsMode, wire # <<>>, wire' = Tail(wire), server' = server,
         NEW e \in WireEvent, e = Head(wire)
  PROVE  /\ LastTellsMode'
         /\ \A d \in Cams : Silent(d)' =>
              IF e.cam = d /\ e.field = "mode" THEN e.value = server[d].mode ELSE Silent(d)
<1>0. PICK n \in Nat : n = Len(wire)
  BY DEF TypeOK
<1>1. wire \in Seq(WireEvent)
  BY DEF TypeOK
<1>2. n > 0 /\ Len(wire') = n - 1 /\ e = wire[1] /\ \A i \in 1..(n - 1) : wire'[i] = wire[i + 1]
  BY <1>0, <1>1
<1>3. \A d \in Cams, i \in 1..(n - 1) : TellsMode(i, d)' <=> TellsMode(i + 1, d)
  BY <1>0, <1>2 DEF TellsMode
<1>4. \A j \in 1..n : j # 1 => j - 1 \in 1..(n - 1) /\ (j - 1) + 1 = j
  OBVIOUS
<1>5. LastTellsMode'
  <2> SUFFICES ASSUME NEW d \in Cams, NEW i \in 1..Len(wire'), TellsMode(i, d)',
                      \A j \in 1..Len(wire') : TellsMode(j, d)' => j <= i
               PROVE  wire'[i].value = server'[d].mode
    BY DEF LastTellsMode
  <2>1. i \in 1..(n - 1) /\ i + 1 \in 1..n /\ TellsMode(i + 1, d)
    BY <1>2, <1>3
  <2>2. \A j \in 1..n : TellsMode(j, d) => j <= i + 1
    <3> SUFFICES ASSUME NEW j \in 1..n, TellsMode(j, d), j # 1 PROVE j <= i + 1
      BY <2>1
    <3>1. TellsMode(j - 1, d)'
      BY <1>3, <1>4
    <3> QED BY <1>2, <1>4, <2>1, <3>1
  <2> QED BY <1>0, <1>2, <2>1, <2>2 DEF LastTellsMode
<1>6. ASSUME NEW d \in Cams, Silent(d)'
      PROVE  IF e.cam = d /\ e.field = "mode" THEN e.value = server[d].mode ELSE Silent(d)
  <2>1. \A j \in 1..n : TellsMode(j, d) => j = 1
    <3> SUFFICES ASSUME NEW j \in 1..n, TellsMode(j, d), j # 1 PROVE FALSE
      OBVIOUS
    <3>1. j - 1 \in 1..(n - 1) /\ TellsMode(j - 1, d)'
      BY <1>3, <1>4
    <3>2. \A i \in 1..Len(wire') : ~TellsMode(i, d)'
      BY <1>6 DEF Silent
    <3> QED BY <1>2, <3>1, <3>2
  <2>2. TellsMode(1, d) <=> e.cam = d /\ e.field = "mode"
    BY <1>0, <1>2 DEF TellsMode
  <2>3. CASE TellsMode(1, d)
    <3>1. e.value = server[d].mode
      BY <1>0, <1>2, <2>1, <2>3 DEF LastTellsMode
    <3> QED BY <2>2, <2>3, <3>1
  <2>4. CASE ~TellsMode(1, d)
    BY <1>0, <2>1, <2>2, <2>4 DEF Silent
  <2> QED BY <2>3, <2>4
<1> QED BY <1>5, <1>6

(* A mode changes while nobody is calling, or the camera is in doubt and    *)
(* out of the refresh's reach.                                              *)
LEMMA Disturbed ==
  ASSUME TypeOK, NEW c \in Cams, NEW f \in {"mode", "motion"}, NEW X, Changes(c, f, X)
  PROVE  /\ doubt \subseteq doubt' /\ healing' \subseteq healing
         /\ f = "mode" => \/ <<c, "mode">> \in doubt' /\ c \notin healing'
                          \/ attached /\ \A x \in Callers \ X : ~Calling(x)
<1>1. CASE ~attached \/ (f = "mode" /\ \E x \in Callers \ X : Calling(x))
  BY <1>1 DEF Changes, Doubt
<1>2. CASE ~(~attached \/ (f = "mode" /\ \E x \in Callers \ X : Calling(x)))
  BY <1>2 DEF Changes, Doubt
<1> QED BY <1>1, <1>2

LEMMA MotionModes ==
  ASSUME TypeOK, Detached, Modes, NEW c \in Cams, Motion(c) PROVE Modes'
<1> DEFINE v == ~server[c].motion
<1>1. server[c] \in Camera /\ v \in BOOLEAN
  BY DEF TypeOK, Camera
<1>2. server' = [server EXCEPT ![c].motion = v] /\ Sends(c, "motion", v)
      /\ UNCHANGED <<known, local, call>>
  BY DEF Motion, clientVars
<1>3. \A d \in Cams : server'[d].mode = server[d].mode
  BY <1>1, <1>2, MotionSet DEF TypeOK
<1> HIDE DEF v
<1>4. LastTellsMode' /\ \A d \in Cams : Silent(d)' => Silent(d)
  BY <1>1, <1>2, <1>3, Sent DEF Modes
<1>5. doubt \subseteq doubt' /\ healing' \subseteq healing
  BY Disturbed DEF Motion
<1>6. known \subseteq Cams /\ healing \subseteq Cams
  BY DEF TypeOK
<1>7. ModeTold'
  BY <1>2, <1>3, <1>4, <1>5, <1>6 DEF Modes, ModeTold
<1>8. Returning'
  BY <1>2, <1>3, <1>5 DEF Modes, Returning, Confirmed, Fetched, Replied
<1>9. Heals'
  BY <1>2, <1>3, <1>5, <1>6 DEF Modes, Heals, Confirmed, Fetched, Replied, Refreshing, Calling
<1> QED BY <1>4, <1>7, <1>8, <1>9 DEF Modes

LEMMA OtherArmsModes ==
  ASSUME TypeOK, Detached, Modes, NEW c \in Cams, OtherArms(c) PROVE Modes'
<1> DEFINE v == ~server[c].mode
<1>1. server[c] \in Camera /\ v \in BOOLEAN
  BY DEF TypeOK, Camera
<1>2. server' = [server EXCEPT ![c].mode = v] /\ Sends(c, "mode", v)
      /\ UNCHANGED <<known, local, call>>
  BY DEF OtherArms, clientVars
<1>3. server'[c].mode = v /\ \A d \in Cams : d # c => server'[d].mode = server[d].mode
  BY <1>1, <1>2, ModeSet DEF TypeOK
<1> HIDE DEF v
<1>4. LastTellsMode' /\ \A d \in Cams : Silent(d)' => Silent(d) /\ ~(attached /\ d = c)
  BY <1>1, <1>2, <1>3, Sent DEF Modes
<1>5. /\ doubt \subseteq doubt' /\ healing' \subseteq healing
      /\ \/ <<c, "mode">> \in doubt' /\ c \notin healing'
         \/ attached /\ \A x \in Callers : ~Calling(x)
  BY Disturbed DEF OtherArms
<1>6. known \subseteq Cams /\ healing \subseteq Cams
  BY DEF TypeOK
<1>7. ModeTold'
  BY <1>2, <1>3, <1>4, <1>5, <1>6 DEF Modes, ModeTold
<1>8. Returning'
  BY <1>2, <1>3, <1>5 DEF Modes, Returning, Confirmed, Fetched, Replied, Calling
<1>9. Heals'
  BY <1>2, <1>3, <1>5, <1>6 DEF Modes, Heals, Confirmed, Fetched, Replied, Refreshing, Calling
<1> QED BY <1>4, <1>7, <1>8, <1>9 DEF Modes

LEMMA DetachesModes == ASSUME TypeOK, Modes, Detaches PROVE Modes'
<1> DEFINE D == {<<wire[i].cam, wire[i].field>> : i \in DOMAIN wire}
<1>1. Doubt(D) /\ wire' = <<>> /\ UNCHANGED <<server, known, local, call>>
  BY DEF Detaches, serverVars, clientVars
<1>2. \A c \in Cams : <<c, "mode">> \notin D => Silent(c)
  BY DEF TypeOK, Silent, TellsMode
<1>3. doubt' = doubt \cup D /\ healing' \subseteq healing
  BY <1>1 DEF Doubt
<1> HIDE DEF D
<1>4. known \subseteq Cams /\ healing \subseteq Cams
  BY DEF TypeOK
<1>5. LastTellsMode' /\ ModeTold'
  BY <1>1, <1>2, <1>3, <1>4 DEF Modes, LastTellsMode, ModeTold, TellsMode
<1>6. Returning'
  BY <1>1, <1>3 DEF Modes, Returning, Confirmed, Fetched, Replied
<1>7. Heals'
  BY <1>1, <1>3, <1>4 DEF Modes, Heals, Confirmed, Fetched, Replied, Refreshing, Calling
<1> QED BY <1>5, <1>6, <1>7 DEF Modes

LEMMA ApplyModes == ASSUME TypeOK, Modes, ApplyEvent PROVE Modes'
<1>1. wire # <<>> /\ wire' = Tail(wire) /\ wire \in Seq(WireEvent)
      /\ UNCHANGED <<server, known, call>>
  BY DEF ApplyEvent, TypeOK, serverVars
<1>2. PICK e \in WireEvent : e = Head(wire)
  BY <1>1
<1>3. e.cam \in Cams /\ e.field \in {"mode", "motion"} /\ e.value \in BOOLEAN
  BY DEF WireEvent
<1>4. /\ LastTellsMode'
      /\ \A d \in Cams : Silent(d)' =>
           IF e.cam = d /\ e.field = "mode" THEN e.value = server[d].mode ELSE Silent(d)
  BY <1>1, <1>2, Read DEF Modes
<1>5. known \subseteq Cams /\ healing \subseteq Cams
  BY DEF TypeOK
<1>6. CASE e.cam \notin known
  <2>1. local' = local /\ doubt \subseteq doubt' /\ healing' \subseteq healing
    BY <1>2, <1>6 DEF ApplyEvent, Doubt
  <2>2. ModeTold'
    BY <1>1, <1>4, <1>5, <1>6, <2>1 DEF Modes, ModeTold
  <2>3. Returning'
    BY <1>1, <2>1 DEF Modes, Returning, Confirmed, Fetched, Replied
  <2>4. Heals'
    BY <1>1, <1>5, <2>1 DEF Modes, Heals, Confirmed, Fetched, Replied, Refreshing, Calling
  <2> QED BY <1>4, <2>2, <2>3, <2>4 DEF Modes
<1>7. CASE e.cam \in known
  <2>1. /\ local' = (IF e.field = "mode" THEN [local EXCEPT ![e.cam].mode = e.value]
                     ELSE [local EXCEPT ![e.cam].motion = e.value])
        /\ healing' = healing
        /\ doubt' = (IF e.field = "motion" \/ \A x \in Callers : ~Calling(x)
                     THEN doubt \ {<<e.cam, e.field>>} ELSE doubt)
    BY <1>2, <1>7 DEF ApplyEvent
  <2>2. \A d \in Cams : <<d, "mode">> \in doubt /\ <<d, "mode">> \notin doubt'
                          => e.cam = d /\ e.field = "mode" /\ \A x \in Callers : ~Calling(x)
    BY <2>1
  <2>3. \A d \in Cams : local'[d].mode = IF e.field = "mode" /\ d = e.cam THEN e.value
                                         ELSE local[d].mode
    BY <1>3, <2>1, MotionSet, ModeSet DEF TypeOK
  <2>4. ModeTold'
    <3> SUFFICES ASSUME NEW d \in known, <<d, "mode">> \notin doubt', Silent(d)'
                 PROVE  local'[d].mode = server[d].mode
      BY <1>1 DEF ModeTold
    <3>1. CASE e.field = "mode" /\ d = e.cam
      BY <1>4, <1>5, <2>3, <3>1
    <3>2. CASE ~(e.field = "mode" /\ d = e.cam)
      <4>1. <<d, "mode">> \notin doubt /\ Silent(d)
        BY <1>4, <1>5, <2>2, <3>2
      <4> QED BY <1>5, <2>3, <3>2, <4>1 DEF Modes, ModeTold
    <3> QED BY <3>1, <3>2
  <2>5. Returning'
    BY <1>1, <2>2 DEF Modes, Returning, Confirmed, Fetched, Replied, Calling
  <2>6. Heals'
    BY <1>1, <2>1 DEF Modes, Heals, Confirmed, Fetched, Replied, Refreshing, Calling
  <2> QED BY <1>4, <2>4, <2>5, <2>6 DEF Modes
<1> QED BY <1>6, <1>7

(* What a step of a call makes of it.                                       *)
LEMMA CallBecomes ==
  ASSUME TypeOK, NEW x \in Callers, CallStep(x)
  PROVE  \E r \in Call :
           /\ call' = [call EXCEPT ![x] = r]
           /\ \/ /\ r.pc = "sent" /\ r.kind = "refresh"
                 /\ healing' = IF \E y \in Callers : Calling(y) THEN {} ELSE Cams
              \/ /\ healing' = healing
                 /\ r.pc # "idle" /\ r.kind = "refresh" => Refreshing(x)
                 /\ r.pc = "answered" /\ r.answer = "OK" =>
                      r.kind = "refresh" /\ \A c \in Cams : r.cameras[c].mode = server[c].mode
<1>0. call \in [Callers -> Call] /\ call[x] \in Call
  BY DEF TypeOK
<1>1. CASE AnswersRefresh(x)
  <2>1. PICK M : M = [c \in Cams |-> [server[c] EXCEPT !.motion = FALSE]]
    OBVIOUS
  <2>2. M \in [Cams -> Camera] /\ \A c \in Cams : M[c].mode = server[c].mode
    BY <2>1, MotionSet DEF TypeOK
  <2>3. PICK a : a = [Answered(x, "OK") EXCEPT !.listed = listed, !.cameras = M]
    OBVIOUS
  <2>4. call' = [call EXCEPT ![x] = a] /\ healing' = healing /\ Refreshing(x)
    BY <1>1, <2>1, <2>3 DEF AnswersRefresh, history, Refreshing, Calling
  <2>5. Answered(x, "OK") \in Call /\ Answered(x, "OK").kind = call[x].kind
    BY <1>0 DEF Answered, Call, Answers
  <2>6. a \in Call /\ a.kind = call[x].kind /\ a.cameras = M
    BY <2>2, <2>3, <2>5 DEF Call, TypeOK
  <2> QED BY <2>2, <2>4, <2>6 DEF Refreshing
<1>2. CASE Refuses(x)
  <2>1. \A a \in Answers : /\ Answered(x, a) \in Call /\ Answered(x, a).kind = call[x].kind
                           /\ Answered(x, a).answer = a
    BY <1>0 DEF Answered, Call
  <2>2. PICK a \in Answers : a # "OK" /\ call' = [call EXCEPT ![x] = Answered(x, a)]
    BY <1>2 DEF Refuses, Answers
  <2>3. healing' = healing /\ call[x].pc = "sent"
    BY <1>2 DEF Refuses, history
  <2>4. PICK r : r = Answered(x, a)
    OBVIOUS
  <2>5. r \in Call /\ r.kind = call[x].kind /\ r.answer # "OK"
    BY <2>1, <2>2, <2>4
  <2>6. r.kind = "refresh" => Refreshing(x)
    BY <2>3, <2>5 DEF Refreshing, Calling
  <2> QED BY <2>2, <2>3, <2>4, <2>5, <2>6
<1>3. CASE TimesOut(x)
  BY <1>3, IdleTyped DEF TimesOut, history
<1>4. CASE Refresh(x)
  <2>1. PICK r : r = [Idle EXCEPT !.pc = "sent", !.kind = "refresh"]
    OBVIOUS
  <2>2. r \in Call /\ r.pc = "sent" /\ r.kind = "refresh"
    BY <2>1, IdleTyped DEF Call
  <2> QED BY <1>4, <2>1, <2>2 DEF Refresh
<1>5. CASE FallsBack(x)
  <2>1. PICK r : r = [call[x] EXCEPT !.pc = "sent", !.kind = "fallback"]
    OBVIOUS
  <2>2. r \in Call /\ r.pc = "sent" /\ r.kind = "fallback"
    BY <1>0, <2>1 DEF Call
  <2>3. call' = [call EXCEPT ![x] = r] /\ healing' = healing
    BY <1>5, <2>1 DEF FallsBack, history
  <2> QED BY <2>2, <2>3
<1>6. CASE CallFails(x)
  BY <1>6, IdleTyped DEF CallFails, history
<1>7. CASE \E c \in Cams, v \in BOOLEAN, kind \in {"toggle", "continuous", "schedule"} :
             Command(x, kind, c, v)
  <2>1. PICK c \in Cams, v \in BOOLEAN, kind \in {"toggle", "continuous", "schedule"} :
          Command(x, kind, c, v)
    BY <1>7
  <2>2. PICK r : r = [Idle EXCEPT !.pc = "sent", !.kind = kind, !.cam = c, !.value = v]
    OBVIOUS
  <2>3. r \in Call /\ r.kind = kind /\ r.pc = "sent"
    BY <2>2, IdleTyped DEF Call
  <2>4. call' = [call EXCEPT ![x] = r] /\ healing' = healing
    BY <2>1, <2>2 DEF Command, history
  <2> QED BY <2>3, <2>4
<1> QED BY <1>1, <1>2, <1>3, <1>4, <1>5, <1>6, <1>7 DEF CallStep

LEMMA CallModes == ASSUME TypeOK, Modes, NEW x \in Callers, CallStep(x) PROVE Modes'
<1>1. UNCHANGED <<server, wire, known, local, doubt>>
  BY CallStepIs DEF serverVars, clientVars
<1>2. PICK r \in Call :
        /\ call' = [call EXCEPT ![x] = r]
        /\ \/ /\ r.pc = "sent" /\ r.kind = "refresh"
              /\ healing' = IF \E y \in Callers : Calling(y) THEN {} ELSE Cams
           \/ /\ healing' = healing
              /\ r.pc # "idle" /\ r.kind = "refresh" => Refreshing(x)
              /\ r.pc = "answered" /\ r.answer = "OK" =>
                   r.kind = "refresh" /\ \A c \in Cams : r.cameras[c].mode = server[c].mode
  BY CallBecomes
<1>3. call'[x] = r /\ \A y \in Callers : y # x => call'[y] = call[y]
  BY <1>2 DEF TypeOK
<1>4. LastTellsMode' /\ ModeTold'
  BY <1>1 DEF Modes, LastTellsMode, ModeTold, Silent, TellsMode
<1>5. Returning'
  BY <1>1, <1>2, <1>3 DEF Modes, Returning, Confirmed, Fetched, Replied
<1>6. ASSUME r.pc = "sent", r.kind = "refresh",
             healing' = IF \E y \in Callers : Calling(y) THEN {} ELSE Cams
      PROVE  Heals'
  <2>1. CASE \E y \in Callers : Calling(y)
    <3>1. healing' = {}
      BY <1>6, <2>1
    <3> QED BY <3>1 DEF Heals
  <2>2. CASE \A y \in Callers : ~Calling(y)
    <3>1. \A y \in Callers : ~Replied(y)' /\ (Refreshing(y)' => y = x)
      BY <1>3, <1>6, <2>2 DEF Replied, Refreshing, Calling
    <3>2. \A y \in Callers : ~Fetched(y)' /\ \A c : ~Confirmed(y, c)'
      BY <3>1 DEF Fetched, Confirmed
    <3> QED BY <3>1, <3>2 DEF Heals
  <2> QED BY <2>1, <2>2
<1>7. ASSUME healing' = healing,
             r.pc # "idle" /\ r.kind = "refresh" => Refreshing(x),
             r.pc = "answered" /\ r.answer = "OK" =>
               r.kind = "refresh" /\ \A c \in Cams : r.cameras[c].mode = server[c].mode
      PROVE  Heals'
  <2>1. healing \subseteq Cams
    BY DEF TypeOK
  <2>2. \A y \in Callers : Refreshing(y)' => Refreshing(y)
    BY <1>3, <1>7 DEF Refreshing, Calling
  <2>3. \A y \in Callers, c \in Cams : Confirmed(y, c)' => Confirmed(y, c)
    BY <1>3, <1>7 DEF Confirmed, Replied
  <2>4. \A y \in Callers : Fetched(y)' =>
          \/ Fetched(y) /\ call'[y] = call[y]
          \/ \A c \in Cams : call'[y].cameras[c].mode = server[c].mode
    BY <1>3, <1>7 DEF Fetched, Replied
  <2> SUFFICES ASSUME NEW z \in Callers, Refreshing(z)'
               PROVE  /\ \A y \in Callers : Refreshing(y)' /\ y # z => healing' = {}
                      /\ \A d \in healing' :
                           /\ Fetched(z)' => call'[z].cameras[d].mode = server'[d].mode
                           /\ \A y \in Callers : ~Confirmed(y, d)'
    BY DEF Heals
  <2>5. \A y \in Callers : Refreshing(y)' /\ y # z => healing' = {}
    BY <1>7, <2>2 DEF Modes, Heals
  <2>6. ASSUME NEW d \in healing'
        PROVE  /\ Fetched(z)' => call'[z].cameras[d].mode = server'[d].mode
               /\ \A y \in Callers : ~Confirmed(y, d)'
    BY <1>1, <1>7, <2>1, <2>2, <2>3, <2>4, <2>6 DEF Modes, Heals
  <2> QED BY <2>5, <2>6
<1> QED BY <1>2, <1>4, <1>5, <1>6, <1>7 DEF Modes

LEMMA ExecutesModes ==
  ASSUME TypeOK, Detached, Modes, NEW x \in Callers, Executes(x) PROVE Modes'
<1>1. PICK c \in Cams, v \in BOOLEAN : c = call[x].cam /\ v = call[x].value
  BY DEF TypeOK, Call
<1>2. PICK kind : kind = call[x].kind /\ kind # "refresh"
  BY DEF Executes
<1>3. server' = [server EXCEPT ![c] = Commanded(server[c], kind, v)]
      /\ UNCHANGED <<known, local>>
  BY <1>1, <1>2 DEF Executes, clientVars
<1>4. /\ server'[c].mode = (IF kind = "schedule" THEN server[c].mode ELSE v)
      /\ \A d \in Cams : d # c => server'[d].mode = server[d].mode
  BY <1>3, CommandedTyped DEF TypeOK
<1>5. PICK r \in Call : r = Answered(x, "OK")
  BY AnsweredTyped DEF TypeOK, Answers
<1>6. r.kind = kind /\ r.cam = c /\ r.value = v
  BY <1>1, <1>2, <1>5 DEF Answered, TypeOK, Call
<1>7. call'[x] = r /\ \A y \in Callers : y # x => call'[y] = call[y]
  BY <1>5 DEF Executes, TypeOK
<1>8. known \subseteq Cams /\ healing \subseteq Cams
  BY DEF TypeOK
<1>9. CASE kind = "schedule"
  <2>1. UNCHANGED <<wire, doubt, healing>>
    BY <1>2, <1>9 DEF Executes, history
  <2>2. \A d \in Cams : server'[d].mode = server[d].mode
    BY <1>4, <1>9
  <2>3. \A y \in Callers : /\ Fetched(y)' => Fetched(y) /\ call'[y] = call[y]
                           /\ Refreshing(y)' => Refreshing(y)
    BY <1>2, <1>6, <1>7 DEF Fetched, Replied, Refreshing, Calling
  <2>4. \A y \in Callers, d \in Cams : Confirmed(y, d)' => Confirmed(y, d) /\ call'[y] = call[y]
    BY <1>6, <1>7, <1>9 DEF Confirmed, Replied
  <2>5. LastTellsMode' /\ ModeTold'
    BY <1>3, <1>8, <2>1, <2>2 DEF Modes, LastTellsMode, ModeTold, Silent, TellsMode
  <2>6. Returning'
    BY <2>1, <2>2, <2>3, <2>4 DEF Modes, Returning
  <2>7. Heals'
    BY <1>8, <2>1, <2>2, <2>3, <2>4 DEF Modes, Heals
  <2> QED BY <2>5, <2>6, <2>7 DEF Modes
<1>10. CASE kind # "schedule"
  <2>1. Sends(c, "mode", v) /\ Changes(c, "mode", {x})
    BY <1>1, <1>2, <1>10 DEF Executes
  <2>2. LastTellsMode' /\ \A d \in Cams : Silent(d)' => Silent(d) /\ ~(attached /\ d = c)
    BY <1>4, <1>10, <2>1, Sent DEF Modes
  <2>3. /\ doubt \subseteq doubt' /\ healing' \subseteq healing
        /\ \/ <<c, "mode">> \in doubt' /\ c \notin healing'
           \/ attached /\ \A y \in Callers \ {x} : ~Calling(y)
    BY <2>1, Disturbed
  <2>4. \A y \in Callers : /\ Fetched(y)' => Fetched(y) /\ call'[y] = call[y] /\ y # x
                           /\ Refreshing(y)' => Refreshing(y) /\ y # x
    BY <1>2, <1>6, <1>7 DEF Fetched, Replied, Refreshing, Calling
  <2>5. \A y \in Callers, d \in Cams : Confirmed(y, d)' =>
          IF y = x THEN d = c /\ call'[y].value = v ELSE Confirmed(y, d) /\ call'[y] = call[y]
    BY <1>6, <1>7 DEF Confirmed, Replied
  <2>6. \A y \in Callers, d \in Cams : Confirmed(y, d) \/ Fetched(y) \/ Refreshing(y) => Calling(y)
    BY DEF Confirmed, Fetched, Refreshing, Replied, Calling
  <2>7. ModeTold'
    BY <1>3, <1>4, <1>8, <2>2, <2>3 DEF Modes, ModeTold
  <2>8. Returning'
    <3> SUFFICES ASSUME NEW d \in Cams, <<d, "mode">> \notin doubt', NEW y \in Callers
                 PROVE  /\ Confirmed(y, d)' => call'[y].value = server'[d].mode
                        /\ Fetched(y)' => call'[y].cameras[d].mode = server'[d].mode
      BY DEF Returning
    <3>1. CASE d = c
      BY <1>4, <1>10, <2>3, <2>4, <2>5, <2>6, <3>1
    <3>2. CASE d # c
      BY <1>4, <2>3, <2>4, <2>5, <3>2 DEF Modes, Returning
    <3> QED BY <3>1, <3>2
  <2>9. Heals'
    <3> SUFFICES ASSUME NEW z \in Callers, Refreshing(z)'
                 PROVE  /\ \A y \in Callers : Refreshing(y)' /\ y # z => healing' = {}
                        /\ \A d \in healing' :
                             /\ Fetched(z)' => call'[z].cameras[d].mode = server'[d].mode
                             /\ \A y \in Callers : ~Confirmed(y, d)'
      BY DEF Heals
    <3>1. z # x /\ Refreshing(z) /\ c \notin healing'
      BY <2>3, <2>4, <2>6
    <3>2. \A y \in Callers : Refreshing(y)' /\ y # z => healing' = {}
      BY <2>3, <2>4, <3>1 DEF Modes, Heals
    <3>3. ASSUME NEW d \in healing'
          PROVE  /\ Fetched(z)' => call'[z].cameras[d].mode = server'[d].mode
                 /\ \A y \in Callers : ~Confirmed(y, d)'
      BY <1>4, <1>8, <2>3, <2>4, <2>5, <3>1 DEF Modes, Heals
    <3> QED BY <3>2, <3>3
  <2> QED BY <2>2, <2>7, <2>8, <2>9 DEF Modes
<1> QED BY <1>9, <1>10

(* A call ends.                                                             *)
LEMMA Ended ==
  ASSUME TypeOK, NEW x \in Callers, call' = [call EXCEPT ![x] = Idle]
  PROVE  /\ \A y \in Callers : /\ Fetched(y)' => y # x /\ Fetched(y) /\ call'[y] = call[y]
                               /\ Refreshing(y)' => y # x /\ Refreshing(y)
         /\ \A y \in Callers, d \in Cams :
              Confirmed(y, d)' => y # x /\ Confirmed(y, d) /\ call'[y] = call[y]
<1>1. call'[x].pc = "idle" /\ \A y \in Callers : y # x => call'[y] = call[y]
  BY IdleTyped DEF TypeOK
<1> QED BY <1>1 DEF Fetched, Confirmed, Refreshing, Replied, Calling

LEMMA RefreshReturnsModes ==
  ASSUME TypeOK, Modes, NEW x \in Callers, RefreshReturns(x) PROVE Modes'
<1>1. call[x].cameras \in [Cams -> Camera] /\ call[x].listed \subseteq Cams /\ healing \subseteq Cams
  BY DEF TypeOK, Call
<1>2. Fetched(x) /\ Refreshing(x)
  BY DEF RefreshReturns, Fetched, Replied, Refreshing, Calling
<1>3. UNCHANGED <<server, wire, healing>> /\ known' = call[x].listed
      /\ call' = [call EXCEPT ![x] = Idle]
  BY DEF RefreshReturns, serverVars
<1>4. \A d \in Cams : Motions(d) \in BOOLEAN
  BY DEF TypeOK, Camera, Motions
<1>5. local' = [c \in Cams |-> IF c \in call[x].listed
                              THEN [call[x].cameras[c] EXCEPT !.motion = Motions(c)]
                              ELSE Blank]
  BY DEF RefreshReturns
<1>6. \A d \in known' : local'[d].mode = call[x].cameras[d].mode
  <2> SUFFICES ASSUME NEW d \in known' PROVE local'[d].mode = call[x].cameras[d].mode
    OBVIOUS
  <2>1. d \in Cams /\ local'[d] = [call[x].cameras[d] EXCEPT !.motion = Motions(d)]
    BY <1>1, <1>3, <1>5
  <2> QED BY <1>1, <1>4, <2>1, MotionSet
<1>7. \A d \in Cams : <<d, "mode">> \notin doubt' => <<d, "mode">> \notin doubt \/ d \in healing
  BY DEF RefreshReturns, Settles
<1>8. \A d \in Cams : <<d, "mode">> \notin doubt' => call[x].cameras[d].mode = server[d].mode
  BY <1>2, <1>7 DEF Modes, Returning, Heals
<1>9. /\ \A y \in Callers : /\ Fetched(y)' => y # x /\ Fetched(y) /\ call'[y] = call[y]
                            /\ Refreshing(y)' => y # x /\ Refreshing(y)
      /\ \A y \in Callers, d \in Cams :
           Confirmed(y, d)' => y # x /\ Confirmed(y, d) /\ call'[y] = call[y]
  BY <1>3, Ended
<1>10. UNCHANGED <<server, healing>>
  BY <1>3
<1>11. LastTellsMode' /\ ModeTold'
  BY <1>1, <1>3, <1>6, <1>8 DEF Modes, LastTellsMode, ModeTold, TellsMode
<1>12. Returning'
  <2> SUFFICES ASSUME NEW d \in Cams, <<d, "mode">> \notin doubt', NEW y \in Callers
               PROVE  /\ Confirmed(y, d)' => call'[y].value = server[d].mode
                      /\ Fetched(y)' => call'[y].cameras[d].mode = server[d].mode
    BY <1>3 DEF Returning
  <2>1. CASE <<d, "mode">> \notin doubt
    BY <1>9, <2>1 DEF Modes, Returning
  <2>2. CASE d \in healing
    <3>1. ~Confirmed(y, d) /\ (y # x => ~Refreshing(y))
      BY <1>2, <2>2 DEF Modes, Heals
    <3>2. Fetched(y) => Refreshing(y)
      BY DEF Fetched, Replied, Refreshing, Calling
    <3> QED BY <1>9, <3>1, <3>2
  <2> QED BY <1>7, <2>1, <2>2
<1>13. Heals'
  BY <1>1, <1>9, <1>10 DEF Modes, Heals
<1> QED BY <1>11, <1>12, <1>13 DEF Modes

LEMMA CommandReturnsModes ==
  ASSUME TypeOK, Modes, NEW x \in Callers, CommandReturns(x) PROVE Modes'
<1>1. PICK c \in Cams, v \in BOOLEAN : c = call[x].cam /\ v = call[x].value
  BY DEF TypeOK, Call
<1>2. PICK kind : kind = call[x].kind
  OBVIOUS
<1>3. /\ local' = (IF c \notin known THEN local
                   ELSE [local EXCEPT ![c] = Commanded(local[c], kind, v)])
      /\ UNCHANGED <<server, wire, known, doubt, healing>>
      /\ call' = [call EXCEPT ![x] = Idle]
  BY <1>1, <1>2 DEF CommandReturns, serverVars, history
<1>4. kind # "schedule" => Confirmed(x, c)
  BY <1>1, <1>2 DEF CommandReturns, Confirmed, Replied
<1>5. known \subseteq Cams /\ healing \subseteq Cams
  BY DEF TypeOK
<1>6. \A d \in Cams : \/ local'[d].mode = local[d].mode
                      \/ local'[d].mode = v /\ d = c /\ Confirmed(x, c)
  BY <1>3, <1>4, CommandedTyped DEF TypeOK
<1>7. LastTellsMode'
  BY <1>3 DEF Modes, LastTellsMode, TellsMode
<1>8. ModeTold'
  <2> SUFFICES ASSUME NEW d \in known, <<d, "mode">> \notin doubt, Silent(d)
               PROVE  local'[d].mode = server[d].mode
    BY <1>3 DEF ModeTold, Silent, TellsMode
  <2>1. local[d].mode = server[d].mode
    BY DEF Modes, ModeTold
  <2>2. Confirmed(x, d) => call[x].value = server[d].mode
    BY <1>5 DEF Modes, Returning
  <2> QED BY <1>1, <1>5, <1>6, <2>1, <2>2
<1>9. /\ \A y \in Callers : /\ Fetched(y)' => y # x /\ Fetched(y) /\ call'[y] = call[y]
                            /\ Refreshing(y)' => y # x /\ Refreshing(y)
      /\ \A y \in Callers, d \in Cams :
           Confirmed(y, d)' => y # x /\ Confirmed(y, d) /\ call'[y] = call[y]
  BY <1>3, Ended
<1>10. UNCHANGED <<server, doubt, healing>>
  BY <1>3
<1>11. Returning'
  BY <1>9, <1>10 DEF Modes, Returning
<1>12. Heals'
  BY <1>5, <1>9, <1>10 DEF Modes, Heals
<1> QED BY <1>7, <1>8, <1>11, <1>12 DEF Modes

LEMMA InitModes == Init => Modes
<1> SUFFICES ASSUME Init PROVE Modes
  OBVIOUS
<1>1. wire = <<>> /\ 1..Len(wire) = {}
  BY DEF Init
<1>2. \A y \in Callers : call[y].pc = "idle"
  BY IdleTyped DEF Init
<1>3. \A c \in known : local[c] = server[c]
  BY DEF Init
<1> QED BY <1>1, <1>2, <1>3 DEF Modes, LastTellsMode, ModeTold, Returning, Heals, Confirmed,
                                Fetched, Replied, Refreshing, Calling

LEMMA NextModes == Inv /\ Modes /\ [Next]_vars => Modes'
<1> SUFFICES ASSUME Inv, Modes, [Next]_vars PROVE Modes'
  OBVIOUS
<1>0. TypeOK /\ Detached
  BY DEF Inv
<1>1. ASSUME UNCHANGED <<server, wire, known, local, call, doubt, healing>> PROVE Modes'
  BY <1>1 DEF Modes, LastTellsMode, ModeTold, Silent, TellsMode, Returning, Heals, Confirmed,
              Fetched, Replied, Refreshing, Calling
<1>2. ASSUME NEW c \in Cams, Motion(c) PROVE Modes'
  BY <1>0, <1>2, MotionModes
<1>3. ASSUME NEW c \in Cams, OtherArms(c) PROVE Modes'
  BY <1>0, <1>3, OtherArmsModes
<1>4. ASSUME NEW c \in Cams, Relists(c) PROVE Modes'
  BY <1>1, <1>4 DEF Relists, clientVars, history
<1>5. ASSUME ApplyEvent PROVE Modes'
  BY <1>0, <1>5, ApplyModes
<1>6. ASSUME Detaches PROVE Modes'
  BY <1>0, <1>6, DetachesModes
<1>7. ASSUME Attaches PROVE Modes'
  BY <1>1, <1>7 DEF Attaches, serverVars, clientVars, history
<1>8. ASSUME NEW x \in Callers, CallStep(x) PROVE Modes'
  BY <1>0, <1>8, CallModes
<1>9. ASSUME NEW x \in Callers, Executes(x) PROVE Modes'
  BY <1>0, <1>9, ExecutesModes
<1>10. ASSUME NEW x \in Callers, RefreshReturns(x) PROVE Modes'
  BY <1>0, <1>10, RefreshReturnsModes
<1>11. ASSUME NEW x \in Callers, CommandReturns(x) PROVE Modes'
  BY <1>0, <1>11, CommandReturnsModes
<1>12. ASSUME UNCHANGED vars PROVE Modes'
  BY <1>1, <1>12 DEF vars, serverVars, clientVars, history
<1> QED BY <1>2, <1>3, <1>4, <1>5, <1>6, <1>7, <1>8, <1>9, <1>10, <1>11, <1>12, Steps

LEMMA AlwaysModes == Spec => [](Inv /\ Modes)
  BY InitInv, NextInv, InitModes, NextModes, PTL DEF Spec

-----------------------------------------------------------------------------
(* Theorems.                                                                *)

(* The types; a camera that is not in client.cameras has left nothing.      *)
THEOREM TypeCorrect == Spec => []TypeOK
<1>1. Inv => TypeOK
  BY DEF Inv
<1> QED BY <1>1, AlwaysInv, PTL

(* What the events under way leave of a field.                              *)
LEMMA LastWord ==
  ASSUME TypeOK, NEW c \in Cams, NEW f \in {"mode", "motion"}
  PROVE  \/ /\ \A i \in 1..Len(wire) : ~(wire[i].cam = c /\ wire[i].field = f)
            /\ Eventually(f, c) = local[c][f]
         \/ \E i \in 1..Len(wire) :
              /\ wire[i].cam = c /\ wire[i].field = f
              /\ \A j \in 1..Len(wire) : wire[j].cam = c /\ wire[j].field = f => j <= i
              /\ Eventually(f, c) = wire[i].value
<1>1. PICK n \in Nat : n = Len(wire)
  BY DEF TypeOK
<1> DEFINE E == {i \in 1..n : wire[i].cam = c /\ wire[i].field = f}
           last == CHOOSE i \in E : \A j \in E : j <= i
<1>2. CASE E = {}
  <2>1. Eventually(f, c) = local[c][f]
    BY <1>1, <1>2 DEF Eventually
  <2>2. \A i \in 1..n : ~(wire[i].cam = c /\ wire[i].field = f)
    BY <1>2
  <2> QED BY <1>1, <2>1, <2>2
<1>3. CASE E # {}
  <2>1. \E i \in E : \A j \in E : j <= i
    BY <1>3, LastOne
  <2>2. last \in E /\ \A j \in E : j <= last
    BY <2>1
  <2>3. Eventually(f, c) = wire[last].value
    BY <1>1, <1>3 DEF Eventually
  <2> HIDE DEF last
  <2> QED BY <1>1, <2>2, <2>3
<1> QED BY <1>2, <1>3

(* However many refreshes and commands overlap, fail, or come back late and *)
(* out of order, the motion state of client.cameras, with the events still  *)
(* unread, is the server's, but for what the stream could not tell.         *)
THEOREM MotionStaysLive == Spec => []MotionIsLive
<1>1. Inv => MotionIsLive
  <2> SUFFICES ASSUME Inv, NEW c \in known, <<c, "motion">> \notin doubt
               PROVE  Eventually("motion", c) = server[c].motion
    BY DEF MotionIsLive
  <2>1. TypeOK /\ c \in Cams /\ LastTells /\ NoneLeft
    BY DEF Inv, TypeOK
  <2> QED BY <2>1, LastWord DEF LastTells, NoneLeft, Tells
<1> QED BY <1>1, AlwaysInv, PTL

(* The same of the modes, at any moment and not only when the dust has      *)
(* settled: with the events still unread they are the server's, whatever    *)
(* calls are under way, but for what the history variable excepts.          *)
THEOREM ModesConverge ==
  Spec => [](\A c \in known : <<c, "mode">> \notin doubt => Eventually("mode", c) = server[c].mode)
<1> DEFINE Converging ==
      \A c \in known : <<c, "mode">> \notin doubt => Eventually("mode", c) = server[c].mode
<1>1. Inv /\ Modes => Converging
  <2> SUFFICES ASSUME Inv, Modes, NEW c \in known, <<c, "mode">> \notin doubt
               PROVE  Eventually("mode", c) = server[c].mode
    OBVIOUS
  <2>1. TypeOK /\ c \in Cams
    BY DEF Inv, TypeOK
  <2> QED BY <2>1, LastWord DEF Modes, LastTellsMode, ModeTold, Silent, TellsMode
<1>2. Spec => []Converging
  BY <1>1, AlwaysModes, PTL
<1> QED BY <1>2

(* However refreshes and commands overlap, fail, or come back late, for any *)
(* cameras and callers: when the dust has settled client.cameras has the    *)
(* server's arm modes, but for what the history variable excepts.           *)
THEOREM ModesSettle == Spec => []SettledModes
<1>1. Inv /\ Modes => SettledModes
  BY DEF Modes, ModeTold, Silent, SettledModes, Settled
<1> QED BY <1>1, AlwaysModes, PTL

(* However calls overlap, fail or are given up, and whatever the client     *)
(* knows, a camera's schedule is rewritten for a set_schedule or after a    *)
(* 404 only.                                                                *)
THEOREM SchedulesAreSafe == Spec => NoSilentReschedule
<1> DEFINE Asked == \A c \in Cams : server'[c].schedule # server[c].schedule =>
                      \E x \in Callers : MayReschedule(x, c)
<1>1. Inv /\ [Next]_vars => [Asked]_vars
  <2> SUFFICES ASSUME Inv, Next, NEW c \in Cams, server'[c].schedule # server[c].schedule
               PROVE  \E x \in Callers : MayReschedule(x, c)
    OBVIOUS
  <2>0. server \in [Cams -> Camera] /\ TypeOK
    BY DEF Inv, TypeOK
  <2>1. ASSUME NEW d \in Cams, Motion(d) \/ OtherArms(d) \/ Relists(d)
        PROVE  server'[c].schedule = server[c].schedule
    <3>1. server[d] \in Camera /\ server[d].motion \in BOOLEAN /\ server[d].mode \in BOOLEAN
      BY <2>0 DEF Camera
    <3>2. \/ server' = server
          \/ server' = [server EXCEPT ![d].motion = ~server[d].motion]
          \/ server' = [server EXCEPT ![d].mode = ~server[d].mode]
      BY <2>1 DEF Motion, OtherArms, Relists
    <3>3. ASSUME NEW r \in Camera, server' = [server EXCEPT ![d] = r], r.schedule = server[d].schedule
          PROVE  server'[c].schedule = server[c].schedule
      BY <2>0, <3>3
    <3> QED BY <3>1, <3>2, <3>3, MotionSet, ModeSet
  <2>2. ASSUME ApplyEvent \/ Detaches \/ Attaches PROVE server' = server
    BY <2>2 DEF ApplyEvent, Detaches, Attaches, serverVars
  <2>3. ASSUME NEW x \in Callers, CallStep(x) PROVE server' = server
    BY <2>0, <2>3, CallStepIs DEF serverVars
  <2>4. ASSUME NEW x \in Callers, RefreshReturns(x) \/ CommandReturns(x) PROVE server' = server
    BY <2>4 DEF RefreshReturns, CommandReturns, serverVars
  <2>5. PICK x \in Callers : Executes(x)
    BY <2>1, <2>2, <2>3, <2>4, Steps
  <2>6. PICK d \in Cams, v \in BOOLEAN : d = call[x].cam /\ v = call[x].value
    BY <2>0 DEF TypeOK, Call
  <2>7. server' = [server EXCEPT ![d] = Commanded(server[d], call[x].kind, v)]
        /\ call[x].pc = "sent"
    BY <2>5, <2>6 DEF Executes
  <2>8. d = c
    BY <2>0, <2>7
  <2>9. call[x].kind \in {"schedule", "fallback"}
    BY <2>0, <2>7, <2>8, CommandedTyped
  <2> QED BY <2>6, <2>7, <2>8, <2>9 DEF Inv, Fallbacks, MayReschedule
<1>2. Spec => [][Next]_vars
  BY DEF Spec
<1>3. Spec => [][Asked]_vars
  BY <1>1, <1>2, AlwaysInv, PTL
<1> QED BY <1>3 DEF NoSilentReschedule
=============================================================================
