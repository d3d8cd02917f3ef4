---------------------------- MODULE CameraEvents ----------------------------
(* What the wire lines of one camera make of the fields that only the event *)
(* stream maintains: parse_event_line and _apply_event (aiosecspy/          *)
(* events.py), and copy_runtime_state on a refresh (aiosecspy/models.py).   *)
(* CameraState says when this happens, and models a single field.           *)
EXTENDS Integers, Sequences, FiniteSets

CONSTANTS Scores,       \* the values in CLASSIFY lines
          Masks,        \* the bitmasks in TRIGGER lines
          Zones,        \* the server's offsets from UTC, in hours
          BAD,          \* a token that int() refuses
          MaxPairs      \* bound on the label/value pairs of a CLASSIFY line

ASSUME EventsAssumption ==
  /\ Scores \subseteq Int
  /\ Masks \subseteq Nat
  /\ Zones \subseteq Int
  /\ BAD \notin Int
  /\ MaxPairs \in Nat

ABSENT == -99           \* CLASSIFY_ABSENT

Labels == <<"human", "vehicle", "animal">>
LabelSet == {"human", "vehicle", "animal"}
Classes == [LabelSet -> Scores \cup {ABSENT}]

Versions == {5, 6}      \* an unreadable version, 0, is treated like 5

(* TriggerReason, in the order of the enumeration.                          *)
Flags == <<1, 2, 4, 8, 16, 32, 64, 128, 256, 512, 1024, 2048, 4096, 8192,
           16384, 32768, 65536>>
HOMEKIT == 512
ANIMAL == 1024

VARIABLES
  zone,       \* the server's offset from UTC
  version,    \* the major version that the server runs
  major,      \* info.major_version
  gmt,        \* info.gmt_offset_seconds, in hours
  cam,        \* the fields of the Camera with number CAMERA
  \* History, for the properties only:
  lastMask,   \* mask of the last TRIGGER_M or MOTION, and the versions in whose
              \* meaning the client may have read it
  mentioned,  \* labels with a readable value in the last CLASSIFY
  fresh       \* what of the server has not changed since the last refresh

server == <<zone, version>>
info == <<major, gmt>>
history == <<lastMask, mentioned, fresh>>
vars == <<server, info, cam, history>>

(* SecuritySpy counts cameras from 0.                                       *)
CAMERA == 0
NOBODY == -1            \* camera_number None

Skews == {z - g : z \in Zones, g \in Zones}

(* when: last_motion_time, as the hours by which it is later than the       *)
(* moment that it should tell.                                              *)
Camera == [active : BOOLEAN, when : [known : BOOLEAN, skew : Skews], connected : BOOLEAN,
           reasons : Seq({Flags[i] : i \in DOMAIN Flags}),
           score : Classes, object : LabelSet \cup {"None"}]

TypeOK ==
  /\ zone \in Zones /\ gmt \in Zones
  /\ version \in Versions /\ major \in Versions
  /\ fresh \subseteq {"zone", "version"}
  /\ cam \in Camera
  /\ \A i, j \in DOMAIN cam.reasons : i # j => cam.reasons[i] # cam.reasons[j]
  /\ lastMask \in [mask : {0} \cup Masks, versions : SUBSET Versions]
  /\ mentioned \subseteq LabelSet

NoClasses == [l \in LabelSet |-> ABSENT]
Never == [known |-> FALSE, skew |-> 0]
NewCamera == [active |-> FALSE, when |-> Never, connected |-> TRUE, reasons |-> <<>>,
              score |-> NoClasses, object |-> "None"]

(* After the first refresh.                                                 *)
Init ==
  /\ zone \in Zones /\ gmt = zone
  /\ version \in Versions /\ major = version
  /\ fresh = {"zone", "version"}
  /\ cam = NewCamera
  /\ lastMask = [mask |-> 0, versions |-> {version}]
  /\ mentioned = {}

-----------------------------------------------------------------------------
(* parse_event_line.                                                        *)

(* A line's header.  stamp: it is a time.  camera: the field as it comes,   *)
(* "X" for the server.  A line with fewer than four fields has none: it is  *)
(* an UNKNOWN event of nobody.                                              *)
Header == [stamp : BOOLEAN, camera : {"0", "CAM0", "1", "X", "north"}]

(* Mutant: a line without a camera number gets 0 as a default.              *)
CameraNumberOrZero(h) == IF h.camera = "1" THEN 1 ELSE 0

CameraNumber(h) ==
  CASE h.camera \in {"0", "CAM0"} -> 0
    [] h.camera = "1" -> 1
    [] OTHER -> NOBODY

(* The stamp is read as one of the zone that the client knows of.  Instead  *)
(* of an unreadable one the client's clock is taken, which needs no zone.   *)
When(h) == [known |-> TRUE, skew |-> IF h.stamp THEN zone - gmt ELSE 0]

(* The name that a line begins its message with.  The stream's own names    *)
(* are not wire events; neither is a name nobody knows.  NULL stands for    *)
(* FILE, ERROR and CONFIGCHANGE too, ARM_M for the events of CameraState.   *)
Names == {"MOTION", "TRIGGER_M", "TRIGGER_A", "MOTION_END", "ONLINE", "OFFLINE",
          "CLASSIFY", "NULL", "ARM_M", "DISCONNECTED", "NO_SUCH"}
KnownEventTypes == Names \ {"DISCONNECTED", "NO_SUCH"}

EventType(name) == IF name \in KnownEventTypes THEN name ELSE "UNKNOWN"

(* A CLASSIFY line's pairs, left to right; a label may be unknown or come   *)
(* twice, a value may be no number.  A trailing label is ignored.           *)
Pair == [label : LabelSet \cup {"other"}, value : Scores \cup {BAD}]
Pairs == UNION {[1..n -> Pair] : n \in 0..MaxPairs}

Valued(pairs, l) == {i \in DOMAIN pairs : pairs[i].label = l /\ pairs[i].value # BAD}

(* Mutant: a class that a line does not mention keeps its score.            *)
ScoresKept(pairs) ==
  [l \in LabelSet |-> LET I == Valued(pairs, l)
                      IN  IF I = {} THEN cam.score[l]
                          ELSE pairs[CHOOSE i \in I : \A j \in I : j <= i].value]

ParseClassify(pairs) ==
  [l \in LabelSet |-> LET I == Valued(pairs, l)
                      IN  IF I = {} THEN ABSENT
                          ELSE pairs[CHOOSE i \in I : \A j \in I : j <= i].value]

HasBit(mask, flag) == (mask \div flag) % 2 = 1

(* The version is that of the last refresh, whatever the server now runs.   *)
Legacy == major < 6

(* v5 has ANIMAL where v6 has HOMEKIT.                                      *)
Renumbered(flag) == IF Legacy /\ flag = HOMEKIT THEN ANIMAL ELSE flag

(* Mutant: on a v5 server ANIMAL stays, too.                                *)
ReasonsTwice(mask) ==
  LET upTo[n \in 0..Len(Flags)] ==
        IF n = 0 THEN <<>>
        ELSE IF ~HasBit(mask, Flags[n]) THEN upTo[n - 1]
        ELSE Append(upTo[n - 1], Renumbered(Flags[n]))
  IN  upTo[Len(Flags)]

(* The flags of the mask, in order.                                         *)
ParseTriggerReasons(mask) ==
  LET upTo[n \in 0..Len(Flags)] ==
        IF n = 0 THEN <<>>
        ELSE IF ~HasBit(mask, Flags[n]) \/ (Legacy /\ Flags[n] = ANIMAL) THEN upTo[n - 1]
        ELSE Append(upTo[n - 1], Renumbered(Flags[n]))
  IN  upTo[Len(Flags)]

(* A TRIGGER line without exactly one readable mask has no reasons.         *)
Reasons(mask) == IF mask = BAD THEN <<>> ELSE ParseTriggerReasons(mask)

-----------------------------------------------------------------------------
(* _apply_event.                                                            *)

(* The line tells of the camera, in whatever form.                          *)
Tells(h) == h.camera \in {"0", "CAM0"}

(* client.cameras has the camera.                                           *)
Concerns(h) == CameraNumber(h) = CAMERA

Apply(h, changed) == cam' = IF Concerns(h) THEN changed ELSE cam

(* A line of any name that the camera does not react to.                    *)
Ignored(name) ==
  /\ EventType(name) \in {"TRIGGER_A", "NULL", "ARM_M", "UNKNOWN"}
  /\ UNCHANGED vars

(* MOTION carries no mask, so it empties the reasons.                       *)
MotionSeen(h, name, mask) ==
  /\ EventType(name) \in {"MOTION", "TRIGGER_M"}
  /\ name = "MOTION" => mask = BAD
  /\ Apply(h, [cam EXCEPT !.active = TRUE, !.when = When(h), !.reasons = Reasons(mask)])
  /\ lastMask' = IF ~Tells(h) THEN lastMask
                 ELSE [mask |-> IF mask = BAD THEN 0 ELSE mask,
                       versions |-> IF "version" \in fresh THEN {version} ELSE Versions]
  /\ UNCHANGED <<server, info, mentioned, fresh>>

MotionEnds(h) ==
  /\ Apply(h, [cam EXCEPT !.active = FALSE])
  /\ UNCHANGED <<server, info, history>>

Connection(h, name) ==
  /\ EventType(name) \in {"ONLINE", "OFFLINE"}
  /\ Apply(h, [cam EXCEPT !.connected = (name = "ONLINE")])
  /\ UNCHANGED <<server, info, history>>

(* max() of the classes with a score of 0 or more: the first one wins a tie.*)
Before(l, k) ==
  \E i, j \in DOMAIN Labels : Labels[i] = l /\ Labels[j] = k /\ i < j

TopClass(score) ==
  LET present == {l \in LabelSet : score[l] >= 0}
  IN  IF present = {} THEN "None"
      ELSE CHOOSE l \in present : \A k \in present \ {l} :
             score[l] > score[k] \/ (score[l] = score[k] /\ Before(l, k))

Classified(h, pairs) ==
  /\ LET score == ParseClassify(pairs)
     IN  Apply(h, [cam EXCEPT !.score = score, !.object = TopClass(score), !.when = When(h)])
  /\ mentioned' = IF Tells(h) THEN {l \in LabelSet : Valued(pairs, l) # {}} ELSE mentioned
  /\ UNCHANGED <<server, info, lastMask, fresh>>

-----------------------------------------------------------------------------
(* The server's clock changes, for the season or by hand.                   *)
ClockChanges ==
  /\ zone' \in Zones \ {zone}
  /\ fresh' = fresh \ {"zone"}
  /\ UNCHANGED <<version, info, cam, lastMask, mentioned>>

(* The server is upgraded, and the stream comes back before any refresh.    *)
Upgrades ==
  /\ version = 5 /\ version' = 6
  /\ fresh' = fresh \ {"version"}
  /\ UNCHANGED <<zone, info, cam, lastMask, mentioned>>

(* Mutant: copy_runtime_state forgets the object.                           *)
CopyWithoutObject(other, online) ==
  [NewCamera EXCEPT !.connected = online, !.active = other.active, !.score = other.score,
                    !.when = other.when, !.reasons = other.reasons]

CopyRuntimeState(other, online) ==
  [NewCamera EXCEPT !.connected = online, !.active = other.active, !.object = other.object,
                    !.score = other.score, !.when = other.when, !.reasons = other.reasons]

(* Mutant: keeps the offset of the first refresh.                           *)
RefreshedKeepingOffset(online) ==
  /\ major' = version
  /\ cam' = CopyRuntimeState(cam, online)
  /\ fresh' = {"zone", "version"}
  /\ UNCHANGED <<server, gmt, lastMask, mentioned>>

(* A refresh makes a new Camera, and a new ServerInfo with the version and  *)
(* the zone that the server now has.                                        *)
Refreshed(online) ==
  /\ major' = version /\ gmt' = zone
  /\ cam' = CopyRuntimeState(cam, online)
  /\ fresh' = {"zone", "version"}
  /\ UNCHANGED <<server, lastMask, mentioned>>

Next ==
  \/ \E name \in Names : Ignored(name)
  \/ \E h \in Header : MotionEnds(h) \/ \E name \in Names : Connection(h, name)
  \/ \E h \in Header, name \in Names, mask \in Masks \cup {BAD} : MotionSeen(h, name, mask)
  \/ \E h \in Header, pairs \in Pairs : Classified(h, pairs)
  \/ \E online \in BOOLEAN : Refreshed(online)
  \/ ClockChanges
  \/ Upgrades

Spec == Init /\ [][Next]_vars

-----------------------------------------------------------------------------
(* Properties.                                                              *)

(* event_object and the scores always tell the same story, whatever partial *)
(* or garbled CLASSIFY lines and refreshes come: the object has a present   *)
(* score that none exceeds, and is only missing when no class is present.   *)
ObjectIsTopClass ==
  LET present == {l \in LabelSet : cam.score[l] >= 0}
  IN  IF cam.object = "None" THEN present = {}
      ELSE cam.object \in present /\ \A l \in present : cam.score[l] <= cam.score[cam.object]

(* The reasons are those of the last motion that a line told of this camera *)
(* (number 0, with or without prefix), in the meaning the bits had for the  *)
(* server that sent them: bit 512 is Animal before v6, and HomeKit and      *)
(* Animal from there (README.md:136-137), none twice.  The lines that an    *)
(* upgraded server sends before the next refresh may be read in the meaning *)
(* of either version, all bits of a line in the same.                       *)
Meaning(bit, v) ==
  IF v >= 6 THEN bit ELSE IF bit = HOMEKIT THEN ANIMAL ELSE bit

MeaningfulBits(mask, v) ==
  {Flags[i] : i \in {i \in DOMAIN Flags :
     HasBit(mask, Flags[i]) /\ (v >= 6 \/ Flags[i] # ANIMAL)}}

ReasonsOfLastMotion ==
  \E v \in lastMask.versions :
    {cam.reasons[i] : i \in DOMAIN cam.reasons} =
      {Meaning(bit, v) : bit \in MeaningfulBits(lastMask.mask, v)}

(* "A stale detection never lingers" (events.py:468-470): whatever else     *)
(* happened since, only the classes of the last CLASSIFY line have scores.  *)
NoStaleScores == \A l \in LabelSet : cam.score[l] # ABSENT => l \in mentioned

(* Whatever the camera is said to have seen, there is a time for it, which  *)
(* is the moment it was seen: refreshes keep it, and a change of the        *)
(* server's zone falsifies it until the next refresh only ("consumers never *)
(* have to guess which clock `when` belongs to", events.py:80-82).          *)
DetectionTimes ==
  [][/\ cam'.active \/ cam'.reasons # <<>> \/ cam'.object # "None" => cam'.when.known
     /\ "zone" \in fresh /\ cam'.when # cam.when => cam'.when.skew = 0]_vars
=============================================================================
