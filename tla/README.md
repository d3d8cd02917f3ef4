# TLA+ verification of aiosecspy

aiosecspy is an asyncio client for SecuritySpy, an NVR for macOS.  It does three
things that are hard to get right: it reads an endless event stream and hands
its events to listeners that may be slow, it keeps a local copy of the cameras
current from three sources at once (the stream, `refresh()`, the arm commands),
and it owns tasks and an HTTP session that callers may open, stop and close at
any moment.  The modules here model these parts, TLC checks them on small
instances, and TLAPS proves what matters most for every size.

Paths without a directory (`events.py:294`) are in `src/aiosecspy/`; README.md and
CHANGELOG.md are the repository's own, at the root of `src/`.

Contents: [the system](#the-system), [the modules](#the-modules),
[the runs](#the-runs), [fairness](#fairness), [proofs](#proofs),
[divergences](#divergences), [not modelled](#not-modelled), [plan](#plan).

## The system

All code runs on one asyncio event loop, so between two `await`s nothing else
runs: a step of a model is what a task does from one suspension to the next.
The tasks are the callers' (any number), the stream's watcher and the stream's
dispatcher.

| component | state it keeps | operations | talks to |
|---|---|---|---|
| line reassembly (`_read_stream`, `_handle_line`) | `buffer`, the response | read a chunk, drain the complete lines, drop a flood | the server; event parsing |
| event parsing and runtime fields (`parse_event_line`, `_apply_event`, `Camera.copy_runtime_state`) | the stream-only fields of each `Camera` | fold a line into a camera; carry the fields over a refresh | line reassembly before it, event queue after it |
| event queue and delivery (`_enqueue`, `_dispatch_loop`, `_emit`, `_refresh_client`) | `_queue`, `_queue_degraded`, the suspended put | put at once, suspend, give up after a timeout, displace the oldest; get, call listeners, refresh on CONFIGCHANGE | reader to dispatcher; listeners; `refresh()` |
| event stream life cycle (`start`, `stop`, `_watch_loop`, `_run_once`) | `_stop`, `running`, `_task`, `_dispatch_task`, `_resp`, the back-off delay | start, stop (from outside or from a listener), connect, reconnect, give up on 401/403 | creates and cancels the two tasks |
| listener registry (`add_listener`, its unsubscribe functions, the loop of `_emit`) | `_callbacks` | add, unsubscribe, call the listeners of one event | the dispatcher calls it; applications at any moment |
| camera state (`refresh`, `toggle_*`, `set_schedule`) | `client.cameras`, `client.info` | replace all cameras, mirror a confirmed command | the server; the stream writes the same objects |
| client session (`open`, `close`, `async with`) | `_session`, `_owns_session` | make, borrow, close | the stream and every request use it |
| HTTP requests (`_request`, `_read_response`, `_read_capped`) | nothing that outlives the call | send, read up to a cap, judge | the server |
| recordings (`list_motion_files`, `download_file`, `download_latest_motion_recording`) | nothing of its own; it reads the UTC offset and the cameras of `client.info` | `++download` for a list, then `++getfile` for its first entry | HTTP requests; refreshes and the server's clock change what it rests on |
| PTZ, images, URLs, `systeminfo.py`, `util.py` | nothing | one request each, parsing, formatting | HTTP requests |

### What is hard

* **Back-pressure.** The reader must not stall behind a hung listener
  (CHANGELOG.md:23-25), so a put that does not get room within
  `EVENT_QUEUE_PUT_TIMEOUT` gives up and displaces the oldest event, and from
  then on (degraded) every put on a full queue displaces at once.  The timer and the
  dispatcher race for the same queue; a CONFIGCHANGE, an AUTHFAIL, the sentinel
  that ends the dispatcher go through that queue like any event.
* **Life cycle.** `stop()` sets a flag, puts a sentinel, closes the response,
  cancels both tasks and waits; a listener may call it, in which case it must not
  wait for itself.  The watcher may end by itself.  `start()` may come while tasks
  of the previous generation are still ending.
* **A registry that changes under the loop.** A listener may suspend, so listeners come and go,
  the running one included, between two calls for the same event; equal callbacks may be registered twice.
* **Stale answers.** `refresh()` and the commands suspend on HTTP.  Between the
  moment the server composes the answer and the moment the client uses it,
  the stream may have moved on.  Event times and the dates of a recordings query are worked out from the
  UTC offset of the last refresh.
* **Partial failure.** `toggle_continuous` falls back to another request;
  `open()` makes a session and may then fail; a response may be too large, cut
  short, or an error whose text matters.

`PROJECT.json` lists every such hazard with its line and the properties that
watch it.

### What makes each component correct

| component | properties |
|---|---|
| event delivery | overflow cuts the oldest events only, and without a gap; nothing vanishes; order is kept; a delivered CONFIGCHANGE is followed by a refresh that begins after it arrived; the reader never stalls; listeners that return reach the newest events |
| listener registry | unsubscribing undoes one registration; whoever stays subscribed hears an event once per registration, whoever comes later does not |
| life cycle | `running` and `_resp` are true; outages are announced; `stop()` returns and leaves nothing behind; a rejected login ends both tasks |
| line reassembly | the lines are those of the bytes, however they are chunked; none is held back; only floods are dropped |
| parsing and runtime fields | scores, object, reasons and time of a camera agree with one another and with the last lines, across refreshes, server upgrades and changes of its zone |
| camera state | motion stays what the stream says; modes settle on the server's; no schedule is rewritten without being asked |
| client session | own sessions are closed, borrowed ones are not; none is closed under a running stream |
| HTTP requests | a body is whole, within the cap and of a good status; refusals are exact; a command succeeds only when the server says so |
| recordings | no recording that the caller may expect is missing from a list, whatever the server does meanwhile |

## The modules

`EventQueue` is the part that two modules share; `EventDelivery` and `EventStream`
extend it.  `LossyFifo` is the abstract specification that `EventDelivery` implements,
and `Listeners` composes `EventDelivery` with the registry: it implements it in turn.  `Recordings`
is composed of `Request`s.  The other modules stand alone: each abstracts its neighbours to what they can
do to it.  `CameraState` takes the stream as a FIFO of single-field events, which is
what `LineReader`, `CameraEvents` and the reader's side of `EventDelivery` add up to
(the fold into the camera happens in the reader, before the queue).

| module | models | correspondence |
|---|---|---|
| `EventQueue` | `_enqueue` and the `asyncio.Queue` | The reader's side is a record of `queue`, `degraded` (`_queue_degraded`) and `waiting` (the event of the suspended `put`, with those the watcher enqueues right after it).  `Enqueue`, `PutReturns` and `PutGivesUp` are the ways through `_enqueue`. |
| `EventDelivery` | one started stream's data plane | Reader: `HandleLine`, `PutResumes`, `PutTimesOut`.  Dispatcher: `Get`, `Emitted`, `Refreshed`, `Reported`, each up to the next suspension.  `sent`, `configs`, `taken`, `delivered` (every listener call for them is over), `lost`, `refreshed` are history. |
| `Listeners` | `add_listener`, `_unsub`, `_emit`, with `EventDelivery` | `callbacks` is `_callbacks`, equal entries included; `copy` the list that `_emit` runs over and `at` its place in it; `unsub` what became of each registration's unsubscribe function; `dead` says that the dispatcher task ended by an exception.  Every action of `EventDelivery` is there, with the emission between `Get` and `Emitted`, and between `Refreshed` and `Reported`, as single listener calls (`ListenerEnds`, `ListenerCancelled`).  `calls`, `atStart`, `doubled` are history. |
| `LossyFifo` | what delivery promises | Arrivals are numbered; a bounded set of pending numbers; overflow drops the smallest. |
| `EventStream` | the life cycle | The n-th effective `start()` makes generation n: `queue[n]`, watcher `w[n]`, dispatcher `d[n]`.  `task` is both `_task` and `_dispatch_task` (they are set and cleared together).  U actions are callers', L actions listeners', W the watcher's, D the dispatcher's.  `cancel` of a task says that `cancel()` was called and CancelledError is still to surface. |
| `LineReader` | `_read_stream` | Bytes are line ends, spaces and others.  `ReadChunk` takes any part of what has arrived; `HandleLine` is the drain loop from one suspension (in `_enqueue`) to the next. |
| `CameraEvents` | `parse_event_line`, `_apply_event`, `copy_runtime_state` | One camera's runtime fields under any sequence of wire lines and refreshes.  A line is its header (is the stamp a time, what is in the camera field), its name and its message; its time and its bits are read with the `gmt` and the `major` version of the last refresh, while the server has `zone` and `version`.  A time is kept as its distance from the moment it should tell. |
| `CameraState`, `MCCameraState` | the writers of `client.cameras` | A call is sent, answered by the server (external) and used by the client, three steps.  A camera has one field of each kind: `mode` (systemInfo, stream, commands), `motion` (stream only), `schedule` (systemInfo, commands).  `loaded` says that a refresh has ever succeeded.  `doubt` and `healing` are history: which fields the client could not have learnt, or may have overwritten.  `MCCameraState` adds the symmetry of the callers. |
| `ClientSession` | `open`, `close`, `async with`, `events.start()` as seen by the session | Sessions are numbered; `owns` is `_owns_session`; a caller is suspended in `open()`'s refresh, in `events.stop()` or in the session's own `close()`. |
| `Request` | `_request`, `_read_response`, `_read_capped` | Lengths instead of bytes; the body arrives in any pieces. |
| `Recordings` | `list_motion_files`, `download_file`, `download_latest_motion_recording`, each request a `Request` | Time and UTC offsets are in half days, so that midnight is at different moments in two zones.  The server (external) has a clock, an offset (`zone`) and `clips`, and answers with any feed that `Listings` allows; the client has what `info` told it, and a clock of its own that is `skew` ahead of the server's.  `window` is what the query sent, `due` (history) what its caller may expect. |

Operators called mutants (their comment begins with "Mutant:") are plausible bugs of a
definition below them.  Nothing in the specifications uses them: `PROJECT.json` pairs
each with the property that must catch it.

### What is abstracted

* An event of the queue is its arrival number and whether it is a CONFIGCHANGE
  (`EventDelivery`), or one of five kinds (`EventStream`).
* Time: a timer is an action that may happen whenever the thing it guards is under
  way.  Back-off delays are numbers, doubled and capped; jitter scales them and is left
  out.
* `stop()` and the watcher's own tests of `_stop`: `stop()` cancels the watcher in
  the step that sets `_stop`, and the cancellation surfaces before any such test.
* Closing the response in `stop()`: the watcher that reads it is cancelled in the same step.
* Ready-queue order: the model lets ready tasks run in any order, except that a
  cancelled watcher's `finally` comes before its successor's connection succeeds
  (`WConnects`): the former is already on the ready queue when the latter task is created.
* A listener call that is under way is the time between two steps; what the listener does to the stream
  is in `EventStream`, what it does to the registry is in `Listeners`.
* Recordings: the shapes of a feed's XML are the list of recordings it holds; the file is its body.  `_parse_file_feed` keeps
  the order of the feed; that the server lists each recording once, the newest first, and leaves none out below the
  limit is an assumption on the server (`Listings`, external).

## The runs

| run | question | instance |
|---|---|---|
| `delivery` (`Listeners`) | Which events wait, are with the listeners, delivered or dropped, in what order; refresh on CONFIGCHANGE; refinement of `LossyFifo`; progress | queue of 2, 4 events, one callback; 14 500 states |
| `listeners` (`Listeners`) | Who is subscribed, and who hears an event, while listeners come and go? | two callbacks, each registered up to twice, queue of 1, 2 events; 1.9 million states |
| `stream` | Do flags, announcements and `stop()` stay true under any starts and stops; do `stop()` and a rejected login end what they must, are outages heard? | queue of 1, 2 generations, 3 network happenings, delays 1 to 2; 257 000 states |
| `lines` | Are the lines those of the bytes? | 6 bytes of 3 kinds on each of 2 connections, cap 3, one header space |
| `camera_events` | Do a camera's runtime fields agree? | scores 0 and 70, two masks besides 0, up to 2 pairs per CLASSIFY, an upgrade from version 5 to 6, offsets 1 and 2 |
| `camera` | Who wins among stream, refreshes and commands? | 1 camera, 2 callers, 2 events under way |
| `session` | Who closes which session, with overlapping calls? | 2 callers, 4 sessions, own and borrowed |
| `request` (`Recordings`) | Whole bodies, exact refusals, right verdicts, complete lists of recordings | cap 2, bodies up to 4, one camera, offsets 0 and half a day, the client's clock right or half a day ahead, 2 recordings in 3 half days; 13.8 million states |
| `listener_cancelled`, `stream_two_dispatchers`, `camera_stale`, `session_enter_fails` | statements of the documentation that the code does not keep | see [divergences](#divergences) |

### What the passing runs show

`delivery`: `BacklogIsNewest` and `EveryEventAccounted` relate the queue, the suspended
put, the dispatcher and the history: whichever of timer and dispatcher wins the
race at `events.py:304`, what is left to deliver is a suffix of what arrived, and each event that arrived
is waiting, with the listeners, delivered or dropped, and only one of these.  `RefreshOwed` is about the
one event with a consequence.  `ImplementsFifo` is the order, as a
refinement: the queue and the put together are a FIFO of `QueueMax + 1`, so listeners see events in order and once.
`ReaderNeverStalls` needs no assumption on listeners; `ListenersCatchUp` assumes they return.

`listeners`: however adding and unsubscribing fall between two calls of
an emission, `_callbacks` has everyone as often as they are subscribed (`RegistryMatches`), and everyone who was there at its
start and still is at its end is called once per registration, nobody more often (`HeardInFull`): in particular no
listener is skipped because the one before it unsubscribed itself.  The exception is a callback of which an unsubscribe
function was called twice (`doubled`).

`stream`: `RunningTruth` and `ResponseHeld` hold without any restriction, also when
generations overlap.  `OutageAnnounced`, `SentinelKept` and `StopIsComplete` except runs in
which a start or a second stop came before the tasks of an earlier call had ended
(`overlapped`, a history variable): what goes wrong then is shown by `stream_two_dispatchers` and
told below.  `StopReturns` holds in every run, overlapping calls and hung
listeners included, for the callers' stops and the listeners' own.

`lines`: `Reassembled` compares with the definition of the lines of a byte string,
written without a buffer.  `FloodsAreFloods` says that the size cap is applied to what
really is one unterminated line (events.py:409-411).

`camera_events`: any order of lines, many of them garbled or about another camera or the whole server, with refreshes,
server upgrades and changes of its zone in between: the object has the top score, no score outlives the line that gave it,
the reasons are those of the last motion, in the meaning of the version that sent them (in that of one version or the other,
if the server was upgraded after the last refresh), and whatever was detected has a time, which is the right one unless the zone has changed since the last refresh (`DetectionTimes`).

`camera`: `MotionIsLive` holds although refreshes overlap, fail and come back out of order,
because `copy_runtime_state` copies what is there when the answer is used, not when it was
requested.  `SettledModes` holds for every change that the stream told and no call
could have overwritten; the exceptions (`doubt`) are the stale answers told below.
`NoSilentReschedule` is the promise of client.py:447-450.

`session`: two callers whose opens, closes, blocks and stream starts overlap, with own and borrowed
sessions.  The one exception is a caller that opens or starts while another closes (`clashed`).

`request`: a body that is returned is all of it; a body of exactly the cap is
accepted, one byte more is refused, whether the length was declared or not, and a command that returns was answered with OK
(`BodyIsWhole`); a refusal for size means that the body is over the cap, and "unsupported" means the 404 of a command
(`RefusalsAreExact`).  `NewestAreListed` compares a list with what its caller could see
when asking: midnight, new recordings, deletions, refreshes and changes of both clocks while the request is under
way take nothing away, except the oldest from a full list.  It speaks of callers whose client has the server's offset and
whose own clock gives the server's date.

### The bounds, and why they are enough

* `QueueMax = 2` (`delivery`): an overflow needs a full queue, and a displacement that leaves something
  behind needs two.  Four events fill the queue, suspend a put and displace in degraded mode; the listener calls
  multiply the states, and the theorems remove the bound.
* Two callbacks with two registrations each (`listeners`): equal entries are what `list.remove` can confuse, and an entry before
  another is what a loop over a changing list can skip.  An event under way and one waiting are enough for both.
* `MaxStarts = 2`: all interference is between a generation and its successor.  One caller outside the stream (`Users`): the
  listeners are others, and `StopLeavesNothing` holds for any number of them.
  `MaxNet = 3`: connect, one line, one end.  `QueueMax = 1` (`stream`): every announcement then overflows the queue, and a rejected
  login enqueues three items at once.  Delays 1 to 2: one doubling that is capped and one that is not.
* `MaxLine = 3`, six bytes: a line longer than the cap within one chunk, a flood, two lines in
  a chunk, a partial line at the end of the first connection.
* One camera: no operation relates two cameras except the replacement of all by `refresh()`.
  `MaxWire = 2`: a change and its opposite under way at once.  `Kinds` of the `camera` run has
  no "toggle": a toggle is a "continuous" without the fallback.  `camera_stale` needs nothing but refreshes.
* `Zones = {0, 1}` and `Skews = {0, 1}` half days, `MaxNow = 3`: midnight comes at different moments for client and server, and passes while a
  request is under way.  Two recordings: one is newer than the other; limits of 1 and 5 are a full and an unfilled list.
  One camera: `info.cameras` is all or none.
* Cap 2, bodies up to 4: below, at, one over and well over the cap, in up to four pieces.
* Masks 1536 (both bits that depend on the version) and 98817 (one of them among the
  lowest and the highest bits); two pairs: the same label twice, or two labels.
* Four sessions: the borrowed one, two that replace closed ones, one more.
* Deadlock is checked in `camera` and `camera_events`, which never end.  The others stop at
  their bounds (`MaxEvents`, `MaxNet`, `MaxBytes`, `MaxSessions`) or are finite by nature
  (`request`), so it is switched off there; in `stream` and `delivery` (`listeners` is a second instance of its module) the liveness properties say what must not be left waiting.

## Fairness

* `EventDelivery!Spec`: weak fairness of `PutResumes \/ PutTimesOut`.  asyncio runs a due timer, and wakes
  a put that has room.  Nothing is assumed of listeners.  `Listeners!ListenersSpec` has the same.
* `EventStream!Spec`: weak fairness of each cancellation (asyncio throws CancelledError where the task is
  suspended; no code here swallows it: `_emit` re-raises it at events.py:289) and of the return of
  each gather whose tasks are done.  Nothing is assumed of listeners, of the network or of
  callers.  The cancellation of a dispatcher assumes that a listener lets CancelledError through.
* `CallsEnd` (`Listeners`), the premise of `RaisingIsSkipped`: every listener call ends, by whatever exception, and the
  dispatcher goes on.  The run shows that this is not enough for events to be delivered.
* `ListenersReturn` in `EventDelivery` and `EventStream` is a premise of the properties that need it (`ListenersCatchUp`,
  `AuthEndsDispatcher`, `OutageHeard`): listeners and refreshes return.  Refreshes do, as requests have a
  timeout; listeners are the application's.
* The other modules have safety properties only.

## Proofs

Eight modules hold theorems.  Each holds for every value of the constants, under the assumptions
that the component's module names and no others: `QueueMax` and `MaxSessions` positive, the other bounds naturals; a
positive line cap and at least one connection for `LineReader`; a bound on the time of at least 1, and an offset of 0 among
the others, for `Recordings` (where its clock and the client's offset begin); a reconnect delay between 1 and its cap for `EventStream`; integers for scores,
masks and offsets.

| module | theorem | statement |
|---|---|---|
| `EventDelivery_proofs` | `TypeCorrect` | `Safe => []TypeOK`, the bound on the queue included |
| | `BacklogNewest` | `Safe => []BacklogIsNewest` |
| | `InOrder` | `Safe => DeliveredInOrder` |
| | `ImplementsLossyFifo` | `Safe => ImplementsFifo`: `EventDelivery` implements `LossyFifo` |
| | `AllAccounted` | `Safe => []EveryEventAccounted` |
| | `ConfigChangesRefresh` | `Safe => []RefreshOwed` |
| `ClientSession_proofs` | `TypeCorrect` | `Spec => []TypeOK` |
| | `NothingLeaked` | `Spec => []NoSessionLeaked` |
| | `StreamFed` | `Spec => []StreamHasSession` |
| | `BorrowedKept` | `Spec => BorrowedLeftOpen` |
| | `ClosesRelease` | `Spec => CloseReleases` |
| `Recordings_proofs` | `TypeCorrect` | `Spec => []TypeOK` (of `Request`, as the next two) |
| | `BodyReturnedIsWhole` | `Spec => []BodyIsWhole` |
| | `RefusalsExact` | `Spec => []RefusalsAreExact` |
| | `RecordingsTypeCorrect` | `RecordingsSpec => []TypeInvariant` |
| | `RequestsStayExact` | `RecordingsSpec => [](BodyIsWhole /\ RefusalsAreExact)` |
| | `NewestListed` | `RecordingsSpec => []NewestAreListed` |
| `Listeners_proofs` | `ListenersDeliver` | `ListenersSafe => Safe`: `Listeners` implements `EventDelivery` |
| | `DeliveryKept` | so what `EventDelivery_proofs` proves, the refinement of `LossyFifo` included, holds with the listener calls in detail |
| | `ListenersTypeCorrect` | `ListenersSafe => []TypeInvariant` |
| | `RegistryIsRight` | `ListenersSafe => []RegistryMatches` |
| | `EmissionsAreFull` | `ListenersSafe => HeardInFull` |
| `EventStream_proofs` | `RunningIsTrue` | `Safe => []RunningTruth` |
| | `ResponseIsHeld` | `Safe => []ResponseHeld` |
| | `SentinelStays` | `Safe => []SentinelKept` |
| | `StopLeavesNothing` | `Safe => StopIsComplete` |
| | `OutagesAreAnnounced` | `Safe => []OutageAnnounced` |
| | `TypeCorrect` | `Safe => []TypeOK` |
| `LineReader_proofs` | `TypeCorrect` | `Spec => []TypeOK` |
| | `NothingHeldBack` | `Spec => []NoLineHeldBack` |
| | `OnlyFloodsDropped` | `Spec => []FloodsAreFloods` |
| | `NothingLostOrMixed` | `Spec => []Reassembled` |
| `CameraEvents_proofs` | `TypeCorrect` | `Spec => []TypeOK` |
| | `ReasonsAreOfLastMotion` | `Spec => []ReasonsOfLastMotion` |
| | `ObjectAgrees` | `Spec => []ObjectIsTopClass` |
| | `ScoresAreFresh` | `Spec => []NoStaleScores` |
| | `TimesAreRight` | `Spec => DetectionTimes` |
| `CameraState_proofs` | `TypeCorrect` | `Spec => []TypeOK` |
| | `MotionStaysLive` | `Spec => []MotionIsLive` |
| | `ModesSettle` | `Spec => []SettledModes` |
| | `ModesConverge` | the stronger form: at any moment, with the events still unread, the modes are the server's |
| | `SchedulesAreSafe` | `Spec => NoSilentReschedule` |

**Event delivery.**  `BacklogIsNewest` is not inductive: to know that a delivered number exceeds the last one, one
needs that the backlog starts after `taken`.  The invariant `Inv` adds this (`taken` is at
most `sent` less the length of the backlog) and `HandHeld` (what is being emitted is an event) to `TypeOK` and the numbering.  The lemmas
`DisplaceCases`, `EnqueueCases`, `PutReturnsCase`, `PutGivesUpCase` reduce `_enqueue` to the few shapes
its result can have; `TailAppend` is the fact on sequences behind all of them: dropping the head
and appending the next number keeps a contiguous interval.

With `Inv` the backlog is the interval of numbers from `First` to `sent`, so the refinement mapping is an interval
too (`Pending`), and every step has one of four shapes for it: an arrival that loses nothing, an arrival that loses the
oldest, a delivery, and a step that `LossyFifo` does not see.  The same shapes carry `AllAccounted`
and `ConfigChangesRefresh` (with: the CONFIGCHANGEs are among what has
arrived, and what the dispatcher has taken).  For the former, `Fates` says that the events older than `First` are exactly those in
emission, delivered and dropped, each in one of the three; that a taken event stays in the dispatcher's hand until its last
listener call is over is what keeps the first two apart.

**Client session.**  The properties need three facts about the code that they do not say themselves, and `Inv` adds them:
`Ownership` (`_owns_session` is false only while the borrowed session is the current and only one, and the client never
returns to that one), `Closing` (a caller inside `close()` finds the stream down and the session it closes closed or
forgotten, unless someone opened or started meanwhile) and `ClosedIsClosing`.  There is a lemma for each kind of
step: `OpenInv`, `CloseSessionInv` (all three ways through the end of `close()`), `CloseInv`, `StartStreamInv`,
`SessionClosedInv`, `OwnerClosesInv`, and `MoveInv` for the steps that only move a caller.  `NothingOpen` is what
`ClosesRelease` rests on: whoever has nothing to close finds everything closed.

**Requests and recordings.**  The invariant adds `Within`: a read that goes on has not passed the cap.  Therefore the limit of
`read()` is never 0, and an empty piece means the end of the body (`PieceFits`).
A recordings call is a sequence of requests, so their invariant is part of its own (`SendsInv` begins the next one).  What the
caller may expect must be followed through the request: until the server looks, `WillBeFound` says that the window which the
client has sent takes in all of it, whatever the clocks do (`Asks`: with the server's offset and date, and as dates do not run backwards);
from then on `Found` says that the feed holds it or is full of newer ones.  The feed is any that `Listings` allows, which is
assumed of the server: each recording once, newest first, none left out before the limit.  A server may send more than it was asked
for; the client takes the head of the feed, and `ParsedIs` is that this cuts off the oldest only.

**Listeners.**  `ListenersDeliver` needs no invariant: each step is one of `EventDelivery` or leaves its
variables alone.  `RegistryMatches` is inductive with the types of the registry; its core is `WithoutFirst`, which
lowers the count of one callback by one.  `HeardInFull` needs `Emitting` in addition: the copy holds each callback as often as
it was subscribed at the start, and was called as often as the loop has passed it.  At the end it has passed the whole copy.

**The life cycle.**  `RunningTruth` and `ResponseHeld` are not inductive.  `Inv` adds `Waits` (a watcher is suspended in a put
exactly while events wait, at most three), `Unborn` (watchers exist once they are started, and are not cancelled before) and
`OneResponse`.  Whether a watcher that is suspended in a put still holds its response hangs on the last event it puts;
`EnqueueAllEnds` says that what remains waiting ends with that one, so `SpokenInv` can treat all announcements
alike.  The argument for `_resp` is `WConnects`: no predecessor is inside a response any more.

The other three say something only as long as calls do not overlap, and `Whole` is what that buys: all but the newest generation
has ended (`Serial`), so the dispatcher that waits does so at its own queue (`OwnQueue`), and what a `stop()` does not
await had ended before (`Awaits`; `Forgotten` is why a second `stop()` finds `_stop` set).  `StopLeavesNothing` is `Awaits`
in the step of `UStopReturns`.  For the other two, `EnqueueAllFills` says that whatever is displaced, a queue ends with the
last event that was put; so a watcher that ends has left the sentinel, and one that backs off has left DISCONNECTED, which
`AllTold` follows until a listener has it.  `StopsBoth` shows that `stop()` drops nothing from a queue: with a full one
it puts no sentinel.

**Lines.**  `Inv` says that the buffer is the end of what was read (`EndOf`), and for each place of the reader
whether a line end is in it (`Place`).  What follows the first line end of a buffer is again the end of what was read.

`Reassembled` is about a recursive function of the bytes, `LinesUpTo`.  The induction is over the prefixes of a byte string: the library's
induction theorem takes an operator and is out of reach, but a set of naturals that holds 0 and with each number the next is all
of them, which the least element of a well-founded order gives (`SetInduction`).  With it the function exists
(`LinesUpToIs`), is blind to what comes after (`SamePrefix`), and yields one line more where a string goes on with one
(`LinesContinue`).  `Handed`, the invariant, says that the buffer begins where a line does, and that the lines handed on are those up to there.

**Runtime fields.**  `Agree` (the object is `TopClass` of the scores), `Seen` (whatever was seen has a time) and `Offset` (a
fresh `info` has the server's zone and version) are inductive with `NoStaleScores`; `TopIsTop` says that `TopClass` chooses a top class.
The reasons are a recursive function over the flags.  As above, by induction over their positions it exists, repeats none and
holds exactly the meanings of the mask's bits (with `Flags` being what it is: HOMEKIT and ANIMAL once each); `Told` then says that
the reasons are those of the last motion.

**Camera state.**  `MotionIsLive` speaks of the last event under way, if there is one.  `LastTells` says that this event has the
server's value, and `NoneLeft` that without any the local value is the server's, also for a camera
that is not listed, whose value is that of a new `Camera`; `Detached` that nothing is under way while the stream is down.
A refresh neither reads nor writes motion except to copy it, hence no history of calls is needed.  `Fallbacks` (a
fallback has the 404 it came from) gives `NoSilentReschedule`.

The modes are written by calls too, and their invariant, `Modes`, follows what each call will write.  Outside `doubt`, the last
event under way has the server's mode (`LastTellsMode`), without one the local mode is the server's (`ModeTold`), and whatever
answer is still to be used has it as well (`Returning`): a change that comes between an answer and its use puts the camera in doubt.
A doubt ends in two ways.  An event ends it when no call is under way, and then there is nothing `Returning` could be wrong about.  A refresh
ends it for the cameras in `healing`, and `Heals` is what makes that right: it began alone, no other refresh is under way, no
confirmed command of such a camera is still to return, and nothing has changed its mode since the answer.  `ModesConverge` follows at any
moment, `SettledModes` is its case of an empty wire.

Model-checked only: all liveness (`ReaderNeverStalls`, `ListenersCatchUp`, `StopReturns`, `AuthEndsDispatcher`, `OutageHeard`), which rests on
fairness and so on ENABLED, beyond this prover.  Every safety property of a passing run is a theorem.

## Divergences

Four runs show that a statement of the documentation or of a comment is not kept.

* `listener_cancelled` (`RaisingIsSkipped`): `_emit` re-raises every CancelledError (events.py:289), also that of a task or future which
  the listener awaited and somebody else cancelled.  The dispatcher ends, nothing is delivered any more, and `running` stays
  True.  README.md:93 says that a listener that raises is logged and skipped.
* `stream_two_dispatchers` (`SerialDispatch`): `start()` does not look at the previous dispatcher.  When the
  watcher has ended on AUTHFAIL and a listener is still busy, a new `start()`, the reaction that
  README.md:90 suggests, makes a second dispatcher; the first one's next `get()` is on the new queue
  (events.py:326 reads `self._queue` anew), so two dispatchers run listeners concurrently and may deliver
  out of order.  Its sentinel stays in the old queue.  `stop()` and `start()` from inside a listener have the same
  effect.
* `camera_stale` (`ModesAreLive`): a refresh that the server answered before an arm event, and that is used after the
  stream has applied it, replaces the camera and with it the new mode (client.py:415; README.md:72-76).  It stays old until the next
  event or refresh.
* `session_enter_fails` (`WithReleases`): `async with` whose refresh fails leaves the session it made open.

Others were met while modelling.  The properties except them by name, and no run is spent on them:

* The put timeout can fire in the loop iteration in which the dispatcher made room: `_enqueue`
  then drops the oldest event although the queue is no longer full (events.py:304-318; const.py:156-160 speaks of a
  stuck listener).  `PutTimesOut` has no guard on the queue for that reason.
* A CONFIGCHANGE dropped by an overflow is followed by no refresh (events.py:332; README.md:48).  `RefreshOwed`
  excepts dropped events.
* A second `stop()` during a first one returns at once, as the first has already cleared the tasks
  (events.py:273; "wait for them to exit", events.py:256).  `StopIsComplete` excepts overlapping calls.
* CONNECTED may be displaced while the stream stays attached (events.py:396; README.md:88).
* The answer of a toggle, used after a newer event of the stream, overwrites that event's mode
  (client.py:433).  Modes that changed while the stream was down stay wrong after it has reconnected
  (events.py:396).  Motion events of a camera that the last answer did not list are dropped, and the camera comes
  back without them (events.py:448).  All three are in `doubt`.
* An `open()` during the await of a `close()` makes a session that the `close()` then forgets (client.py:304).
  `NoSessionLeaked` excepts it (`clashed`).
* Calling an unsubscribe function a second time removes another registration of the same callback, if there is one
  (events.py:220).  `RegistryMatches` and `HeardInFull` except such callbacks (`doubled`).
* A list of recordings before the first refresh, after a change of the server's clock that no refresh has told of, or with a client
  machine whose own clock gives another date than the server's, may lack the
  recordings of a day at the edge of its window (client.py:698); before the first refresh a list of "every camera" is
  empty (client.py:708).  `due` excepts all of these.
* A recording that is deleted between the list and its download makes `download_latest_motion_recording` raise, although older
  ones are there (client.py:772).
* Event times are off by the change of the server's clock until the next refresh (events.py:430); `DetectionTimes` excepts
  times taken then (`fresh`).  Likewise the reason bits of an upgraded server are read in their old meaning until the next
  refresh (events.py:431), which `ReasonsOfLastMotion` excepts.

## Not modelled

* The id, the raw text and the error notes of an event line: conversions without state.
* Dates and UTC offsets as such: an offset is a number here.  (`parse_event_line` would raise for an offset of
  a day or more, events.py:83, which only a server that reports nonsense would have.)
* `systeminfo.py`, `util.py`, URL and credential formatting (the validation of a recording's href included), image and stream
  URLs, PTZ: pure functions or one request each; their unit tests look at concrete values, which suits them better.
* The shapes of XML that a recordings feed may have.
* Which id the 24/7 schedule has (`_always_schedule_id`): the model has the state that was asked for in place of the id.
* `trigger_motion` and `set_schedule_preset` change nothing locally; for the client they are the server's own steps.
* `running` and `_callbacks` written by applications from outside: not part of the interface.

## Plan

Done first, in this order: `EventQueue`, `EventDelivery` with `LossyFifo` and its proofs (the heart of the
library, refinement included), `EventStream`, then the three models that feed the camera state, then session and
request with their proofs.

Then `Listeners` (with two callbacks, which needed a run of its own) and `Recordings`, which compose two of them with their neighbours, and the proofs of
`CameraState`, `Listeners`, `LineReader`, `CameraEvents` and `EventStream`; at last the theorems about recursive definitions
(`Reassembled`, `ReasonsOfLastMotion`), about the modes, and about `Recordings`, whose server now answers with any feed that `Listings` allows,
in place of one sorted list.

Left:

1. Abstract specifications of `CameraState` (a register per field that a client reads with a delay) and of `LineReader`.
2. Several cameras in one `CameraState` run, if a smaller history allows it; the theorems cover any number.
