----------------------------- MODULE Recordings -----------------------------
(* The recordings calls of the client (aiosecspy/client.py):                *)
(* list_motion_files, download_file and download_latest_motion_recording,   *)
(* composed with the HTTP requests they make.  The server lists by dates of *)
(* its own clock; the client works them out from the clock of its machine,  *)
(* by the UTC offset that its last refresh told, and sends them before the  *)
(* server looks.                                                            *)
EXTENDS Request, Sequences

CONSTANTS Cams,        \* camera numbers
          Zones,       \* UTC offsets the server's clock may be set to
          Skews,       \* by how much the client's clock may be ahead of it
          MaxNow,      \* bound on the time
          MaxClips     \* bound on the recordings made

ASSUME RecordingsAssumption ==
  /\ Zones \subseteq Nat /\ 0 \in Zones /\ Skews \subseteq Int
  /\ MaxNow \in Nat \ {0} /\ MaxClips \in Nat

(* Time and offsets are in half days.                                       *)
Date(t, z) == (t + z) \div 2

Every == "every camera"
Clip == [cam : Cams, at : 0..MaxNow]
Query == [asked : Cams \cup {Every}, days : {1, 2, 7}, limit : {1, 5}, latest : BOOLEAN]

VARIABLES
  now, zone, clips,   \* the server's clock, its offset, its recordings
  made,               \* how many there have been
  skew,               \* by how much the client's clock is ahead of the server's
  info,               \* client.info as far as a query uses it
  step,               \* what the task is at
  query, window,      \* its call and the parameters it has sent
  files,              \* the feed it gets, then the recordings read off it
  due                 \* history: the recordings the caller may expect to be listed

server == <<now, zone, clips, made>>
client == <<skew, info, step, query, window, files>>
allVars == <<vars, server, client, due>>

(* The call waits for a response: to any other request, to ++download, or   *)
(* to ++getfile.                                                            *)
Waiting == step \in {"other", "list", "file"}

TypeInvariant ==
  /\ TypeOK
  /\ now \in 0..MaxNow /\ zone \in Zones /\ clips \subseteq Clip /\ made \in 0..MaxClips
  /\ \A k \in clips : k.at <= now
  /\ skew \in Skews /\ info \in [gmt : Zones, cameras : {{}, Cams}]
  /\ step \in {"other", "idle", "list", "file", "returned", "nothing", "raised"}
  /\ query \in Query
  /\ window \in [from : Int, to : Int, cams : SUBSET Cams]
  /\ files \in Seq(Clip)
  /\ step \in {"file", "returned", "nothing"} => Len(files) <= query.limit
  /\ due \subseteq Clip
  /\ step = "file" => files # <<>> /\ query.latest

(* A request of another call, or a client about to make the call below.     *)
RecordingsInit ==
  /\ Init
  /\ now = 1 /\ zone \in Zones /\ clips = {} /\ made = 0
  /\ skew \in Skews /\ info = [gmt |-> 0, cameras |-> {}]
  /\ query = [asked |-> Every, days |-> 1, limit |-> 1, latest |-> FALSE]
  /\ window = [from |-> 0, to |-> 0, cams |-> {}]
  /\ files = <<>> /\ due = {}
  /\ \/ step = "other"
     \/ step = "idle" /\ ~expectOk /\ status = 200 /\ body = 0

-----------------------------------------------------------------------------
(* The server (external), and the refreshes of other tasks.  What happens   *)
(* while a body is read matters to the next request only, and happens then. *)

Meanwhile == step = "idle" \/ (step \in {"list", "file"} /\ outcome = "headers")

Captures(c) ==
  /\ Meanwhile /\ made < MaxClips
  /\ clips' = clips \cup {[cam |-> c, at |-> now]} /\ made' = made + 1
  /\ UNCHANGED <<vars, now, zone, client, due>>

(* The oldest recordings make room for new ones, and users delete any.      *)
Deletes(k) ==
  /\ Meanwhile
  /\ clips' = clips \ {k}
  /\ due' = IF step = "list" THEN due \ {k} ELSE due
  /\ UNCHANGED <<vars, now, zone, made, client>>

Ticks ==
  /\ Meanwhile /\ now < MaxNow
  /\ now' = now + 1
  /\ UNCHANGED <<vars, zone, clips, made, client, due>>

(* Summer time, or a user.  It moves the dates of all recordings.           *)
ClockChanges ==
  /\ Meanwhile
  /\ zone' \in Zones \ {zone}
  /\ due' = IF step = "list" THEN {} ELSE due
  /\ UNCHANGED <<vars, now, clips, made, client>>

Refreshes ==
  /\ Meanwhile
  /\ info' = [gmt |-> zone, cameras |-> Cams]
  /\ UNCHANGED <<vars, server, skew, step, query, window, files, due>>

(* The client's machine is set right, or wrong.  It matters to the next     *)
(* call only.                                                               *)
ClientClockSet ==
  /\ step = "idle"
  /\ skew' \in Skews \ {skew}
  /\ UNCHANGED <<vars, server, info, step, query, window, files, due>>

(* What ++download is assumed to send when it looks for the recordings S:   *)
(* each once, newest first, all of them or at least the n newest.  The      *)
(* client does not check it, and download_latest relies on the first.       *)
Listings(S, n) ==
  {s \in UNION {[1..m -> S] : m \in 0..MaxClips} :
     /\ \A i, j \in DOMAIN s : i < j => s[i] # s[j] /\ s[i].at >= s[j].at
     /\ \A k \in S : \/ \E i \in DOMAIN s : s[i] = k
                     \/ Len(s) >= n /\ \A i \in DOMAIN s : s[i].at >= k.at}

(* It looks for nothing without a cameraNum.                                *)
Feeds ==
  Listings({k \in clips : k.cam \in window.cams
                          /\ Date(k.at, zone) \in window.from..window.to}, query.limit)

-----------------------------------------------------------------------------
(* The client.                                                              *)

(* _request, not a command: any uncompressed response may come.             *)
Sends ==
  /\ expectOk' = FALSE /\ saysOk' = FALSE
  /\ status' \in Statuses /\ body' \in 0..MaxBody
  /\ declared' \in {Undeclared, body'}
  /\ arrived' = 0 /\ got' = 0 /\ outcome' = "headers"

(* Mutant: takes the date from the machine's clock, in UTC.                 *)
TodayInUtc == Date(now + skew, 0)

(* datetime.now(self.server_timezone).date()                                *)
Today == Date(now + skew, info.gmt)

(* The cameraNum parameters.                                                *)
Asked(q) == IF q.asked = Every THEN info.cameras ELSE {q.asked}

(* list_motion_files, and download_latest_motion_recording, which calls it  *)
(* with a week and five.  (History: what the caller can expect are all      *)
(* recordings of these days, provided that the client knows the server's    *)
(* offset and, to ask for all of them, its cameras, and that its clock is   *)
(* not wrong by so much that it has another date.)                          *)
Lists(q) ==
  /\ step = "idle" /\ step' = "list"
  /\ q.latest => q.asked # Every /\ q.days = 7 /\ q.limit = 5
  /\ query' = q
  /\ window' = [from |-> Today - (q.days - 1), to |-> Today, cams |-> Asked(q)]
  /\ due' = IF /\ info.gmt = zone /\ Asked(q) # {}
               /\ Date(now + skew, zone) = Date(now, zone)
            THEN {k \in clips : /\ q.asked \in {k.cam, Every}
                                /\ Date(k.at, zone) > Date(now, zone) - q.days}
            ELSE {}
  /\ Sends
  /\ UNCHANGED <<server, skew, info, files>>

(* The request goes on; the server looks when it answers.  A recording that *)
(* has been deleted is a 404.                                               *)
Answers ==
  /\ step \in {"list", "file"} /\ Headers
  /\ step = "file" => (Head(files) \in clips <=> status # 404)
  /\ files' \in IF step = "list" THEN Feeds ELSE {files}
  /\ UNCHANGED <<server, skew, info, step, query, window, due>>

Reads ==
  /\ Waiting /\ (Arrives \/ Read \/ Eof \/ Fails \/ (step = "other" /\ Headers))
  /\ UNCHANGED <<server, client, due>>

(* The entries in the order of the feed, results[:limit].                   *)
ParseFileFeed(feed, limit) == SubSeq(feed, 1, Least(limit, Len(feed)))

(* The feed is parsed; without a byte it is no XML (ResponseParseError).    *)
(* download_latest goes on to the first entry.                              *)
Listed ==
  /\ step = "list" /\ outcome = "body"
  /\ files' = IF body > 0 THEN ParseFileFeed(files, query.limit) ELSE files
  /\ \/ body > 0 /\ query.latest /\ files' # <<>> /\ step' = "file" /\ Sends
     \/ body > 0 /\ query.latest /\ files' = <<>> /\ step' = "nothing" /\ UNCHANGED vars
     \/ body > 0 /\ ~query.latest /\ step' = "returned" /\ UNCHANGED vars
     \/ body = 0 /\ step' = "raised" /\ UNCHANGED vars
  /\ UNCHANGED <<server, skew, info, query, window, due>>

Downloaded ==
  /\ step = "file" /\ outcome = "body"
  /\ step' = "returned"
  /\ UNCHANGED <<vars, server, skew, info, query, window, files, due>>

Raises ==
  /\ Waiting /\ outcome \in Errors
  /\ step' = "raised"
  /\ UNCHANGED <<vars, server, skew, info, query, window, files, due>>

World ==
  \/ \E c \in Cams : Captures(c)
  \/ \E k \in clips : Deletes(k)
  \/ Ticks \/ ClockChanges \/ Refreshes \/ ClientClockSet

RecordingsNext ==
  \/ World
  \/ \E q \in Query : Lists(q)
  \/ Answers \/ Reads \/ Listed \/ Downloaded \/ Raises

RecordingsSpec == RecordingsInit /\ [][RecordingsNext]_allVars

-----------------------------------------------------------------------------
(* Properties.                                                              *)

(* "days counts back from today in the server's timezone" (client.py:688):  *)
(* whatever the offset, whether midnight passes, recordings are made and    *)
(* deleted while the request is under way, a list lacks no recording that   *)
(* was there when the caller asked, except for newer ones when it is full;  *)
(* the latest is no older than any of them; and there are none only if there*)
(* were none.  Assumed: the order of the server's feed (Listings).          *)
NewestAreListed ==
  /\ step = "returned" =>
       \A k \in due : \/ \E i \in DOMAIN files : files[i] = k
                      \/ /\ Len(files) = query.limit
                         /\ \A i \in DOMAIN files : files[i].at >= k.at
  /\ step = "nothing" => due = {}
=============================================================================
