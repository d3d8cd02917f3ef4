-------------------------- MODULE Recordings_proofs --------------------------
(* Theorems about Request, for every cap and every size of body, and about  *)
(* Recordings, for any cameras, offsets, times and numbers of recordings.   *)
EXTENDS Recordings, SequenceTheorems, TLAPS

-----------------------------------------------------------------------------
(* Request.                                                                 *)

(* A read that is still going on has not come over the cap, which is why    *)
(* the limit of read() is never 0 and b"" means the end of the body; and    *)
(* what a server declares, it sends.                                        *)
Within ==
  /\ outcome = "headers" => got = 0
  /\ outcome = "reading" => got <= MaxBytes
  /\ declared <= body

Inv == TypeOK /\ Within /\ BodyIsWhole /\ RefusalsAreExact

LEMMA InitInv == Init => Inv
<1> SUFFICES ASSUME Init PROVE Inv
  OBVIOUS
<1>0. MaxBytes \in Nat /\ MaxBody \in Nat
  BY RequestAssumption
<1>1. body \in 0..MaxBody /\ declared \in {Undeclared} \cup 0..body
      /\ arrived = 0 /\ got = 0 /\ outcome = "headers"
  BY DEF Init
<1>2. saysOk \in BOOLEAN
  BY DEF Init
<1>3. declared \in {Undeclared} \cup 0..MaxBody /\ declared <= body
  BY <1>0, <1>1 DEF Undeclared
<1>4. arrived \in 0..body /\ got \in 0..arrived /\ got <= MaxBytes + 1
  BY <1>0, <1>1
<1>5. TypeOK
  BY <1>1, <1>2, <1>3, <1>4 DEF TypeOK, Init
<1> QED BY <1>0, <1>1, <1>3, <1>5 DEF Inv, Within, BodyIsWhole, RefusalsAreExact

(* Numbers, from the type invariant.                                        *)
LEMMA Sizes ==
  ASSUME TypeOK
  PROVE  /\ MaxBytes \in Nat /\ MaxBody \in Nat
         /\ body \in Nat /\ arrived \in Nat /\ got \in Nat /\ declared \in Int
         /\ got <= arrived /\ arrived <= body /\ body <= MaxBody /\ got <= MaxBytes + 1
  BY RequestAssumption DEF TypeOK, Undeclared

(* A piece never takes more than has arrived, nor more than one byte beyond *)
(* the cap; it is empty only if nothing is there to take.                   *)
LEMMA PieceFits ==
  ASSUME TypeOK, outcome = "reading" => got <= MaxBytes, outcome = "reading"
  PROVE  /\ Piece \in Nat /\ got + Piece <= arrived /\ got + Piece <= MaxBytes + 1
         /\ Piece = 0 => got = arrived
  BY Sizes DEF Piece, Least

LEMMA JudgedIs ==
  ASSUME TypeOK
  PROVE  /\ Judged \in {"body", "AuthenticationError", "UnsupportedError", "RequestError"}
         /\ Judged = "body" => status = 200 /\ (expectOk => saysOk)
         /\ Judged = "UnsupportedError" => expectOk /\ status = 404
  BY DEF Judged, TypeOK, Statuses

LEMMA NextInv == Inv /\ [Next]_vars => Inv'
<1> SUFFICES ASSUME Inv, [Next]_vars PROVE Inv'
  OBVIOUS
<1>0. TypeOK /\ Within /\ BodyIsWhole /\ RefusalsAreExact
  BY DEF Inv
<1>1. CASE Arrives
  <2>1. arrived' \in 0..body /\ got \in 0..arrived' /\ UNCHANGED <<response, got, outcome>>
    BY <1>0, <1>1, Sizes DEF Arrives
  <2> QED BY <1>0, <2>1 DEF Inv, TypeOK, Within, BodyIsWhole, RefusalsAreExact, response
<1>2. CASE Headers
  <2>1. UNCHANGED <<response, arrived, got>>
        /\ ((outcome' = "ResponseTooLargeError" /\ declared > MaxBytes) \/ outcome' = "reading")
    BY <1>2 DEF Headers
  <2>2. got = 0 /\ (outcome' = "ResponseTooLargeError" => body > MaxBytes)
    BY <1>0, <1>2, <2>1, Sizes DEF Headers, Within
  <2> QED BY <1>0, <2>1, <2>2, Sizes DEF Inv, TypeOK, Within, BodyIsWhole,
             RefusalsAreExact, response, Errors
<1>3. CASE Read
  <2>1. UNCHANGED <<response, arrived>> /\ got' = got + Piece /\ outcome = "reading"
        /\ \/ outcome' = "ResponseTooLargeError" /\ got' > MaxBytes
           \/ outcome' = "reading" /\ ~(got' > MaxBytes)
    BY <1>3 DEF Read
  <2>2. got' \in 0..arrived /\ got' <= MaxBytes + 1
        /\ (outcome' = "reading" => got' <= MaxBytes)
        /\ (outcome' = "ResponseTooLargeError" => body > MaxBytes)
    BY <1>0, <2>1, PieceFits, Sizes DEF Within
  <2> QED BY <1>0, <2>1, <2>2 DEF Inv, TypeOK, Within, BodyIsWhole, RefusalsAreExact, response, Errors
<1>4. CASE Eof
  <2>1. UNCHANGED <<response, arrived, got>> /\ outcome' = Judged /\ outcome = "reading"
        /\ Piece = 0 /\ arrived = body
    BY <1>4 DEF Eof
  <2>2. got = body /\ body <= MaxBytes
    BY <1>0, <2>1, PieceFits, Sizes DEF Within
  <2> QED BY <1>0, <2>1, <2>2, JudgedIs DEF Inv, TypeOK, Within, BodyIsWhole,
             RefusalsAreExact, response, Errors
<1>5. CASE Fails
  BY <1>0, <1>5 DEF Fails, Inv, TypeOK, Within, BodyIsWhole, RefusalsAreExact, response, Errors
<1>6. CASE UNCHANGED vars
  BY <1>0, <1>6 DEF Inv, TypeOK, Within, BodyIsWhole, RefusalsAreExact,
     vars, response
<1> QED BY <1>1, <1>2, <1>3, <1>4, <1>5, <1>6 DEF Next

LEMMA AlwaysInv == Spec => []Inv
  BY InitInv, NextInv, PTL DEF Spec

(* The types, and that no more than one byte beyond the cap is ever held    *)
(* (_read_capped, client.py:186).                                           *)
THEOREM TypeCorrect == Spec => []TypeOK
<1>1. Inv => TypeOK
  BY DEF Inv
<1> QED BY <1>1, AlwaysInv, PTL

(* A body that is returned is whole, within the cap and of a good status,   *)
(* into whatever pieces it was cut, and that of a command says OK.          *)
THEOREM BodyReturnedIsWhole == Spec => []BodyIsWhole
<1>1. Inv => BodyIsWhole
  BY DEF Inv
<1> QED BY <1>1, AlwaysInv, PTL

(* A response is refused for its size only if it is over the cap, and taken *)
(* for unsupported only on a 404.                                           *)
THEOREM RefusalsExact == Spec => []RefusalsAreExact
<1>1. Inv => RefusalsAreExact
  BY DEF Inv
<1> QED BY <1>1, AlwaysInv, PTL
-----------------------------------------------------------------------------
(* Recordings.                                                              *)

(* What the caller may expect is what the server will look for, as long as  *)
(* it has not looked.                                                       *)
WillBeFound ==
  step = "list" /\ outcome = "headers" =>
    \A k \in due : /\ k \in clips /\ k.cam \in window.cams
                   /\ Date(k.at, zone) \in window.from..window.to

(* Once it has, a recording is in the feed F, or enough newer ones are.     *)
InFeed(k, F) ==
  \/ \E i \in DOMAIN F : F[i] = k
  \/ Len(F) >= query.limit /\ \A i \in DOMAIN F : F[i].at >= k.at

NewestFirst(F) == \A i, j \in DOMAIN F : i < j => F[i].at >= F[j].at

Found ==
  (step = "list" /\ outcome \in {"reading", "body"}) \/ step \in {"file", "returned", "nothing"}
    => NewestFirst(files) /\ \A k \in due : InFeed(k, files)

RecInv ==
  /\ TypeInvariant /\ Inv
  /\ WillBeFound /\ Found
  /\ step \in {"idle", "nothing"} => files = <<>>

LEMMA DateTyped == ASSUME NEW t \in Int, NEW z \in Nat PROVE Date(t, z) \in Int
  BY DEF Date

(* A day is over when it is over: dates do not run backwards.               *)
LEMMA DateMonotone ==
  ASSUME NEW t \in Nat, NEW u \in Nat, NEW z \in Nat, t <= u
  PROVE  Date(t, z) <= Date(u, z)
  BY DEF Date

(* The numbers of a state.                                                  *)
LEMMA Clocks ==
  ASSUME TypeInvariant
  PROVE  /\ now \in Nat /\ zone \in Nat /\ info.gmt \in Nat /\ skew \in Int
         /\ info.cameras \in {{}, Cams}
         /\ \A k \in clips : k.at \in Nat /\ k.at <= now /\ k.cam \in Cams
<1>1. now \in 0..MaxNow /\ zone \in Zones /\ info \in [gmt : Zones, cameras : {{}, Cams}]
      /\ skew \in Skews
      /\ clips \subseteq Clip /\ \A k \in clips : k.at <= now
  BY DEF TypeInvariant
<1>2. MaxNow \in Nat /\ Zones \subseteq Nat /\ Skews \subseteq Int
  BY RecordingsAssumption
<1>3. /\ now \in Nat /\ zone \in Nat /\ info.gmt \in Nat /\ info.cameras \in {{}, Cams}
      /\ skew \in Int
  <2>1. now \in Nat
    BY <1>1, <1>2
  <2>2. info.gmt \in Zones /\ info.cameras \in {{}, Cams}
    BY <1>1
  <2> QED BY <1>1, <1>2, <2>1, <2>2
<1>4. \A k \in clips : k.at \in Nat /\ k.cam \in Cams
  BY <1>1, <1>2 DEF Clip
<1> QED BY <1>1, <1>3, <1>4

LEMMA QueryTyped ==
  ASSUME NEW q \in Query
  PROVE  /\ q.asked \in Cams \cup {Every} /\ q.days \in Nat /\ q.limit \in Nat /\ q.limit > 0
         /\ q.days > 0 /\ q.latest \in BOOLEAN
  BY DEF Query

LEMMA ClipTyped ==
  ASSUME NEW c \in Cams, NEW t \in 0..MaxNow
  PROVE  [cam |-> c, at |-> t] \in Clip /\ [cam |-> c, at |-> t].at = t
  BY DEF Clip

(* What a feed is.                                                          *)
LEMMA ListingIs ==
  ASSUME NEW S \in SUBSET Clip, NEW n \in Nat, NEW s \in Listings(S, n)
  PROVE  /\ s \in Seq(Clip) /\ NewestFirst(s)
         /\ \A k \in S : \/ \E i \in DOMAIN s : s[i] = k
                         \/ Len(s) >= n /\ \A i \in DOMAIN s : s[i].at >= k.at
<1>1. PICK m \in 0..MaxClips : s \in [1..m -> S]
  BY DEF Listings
<1>2. m \in Nat /\ s \in [1..m -> Clip]
  BY <1>1, RecordingsAssumption
<1>3. s \in Seq(Clip)
  BY <1>2
<1> QED BY <1>3 DEF Listings, NewestFirst

(* What the client reads off it: the n newest, if there are so many, and so *)
(* what was in the feed is there, or what replaced it is newer.             *)
LEMMA ParsedIs ==
  ASSUME NEW F \in Seq(Clip), NewestFirst(F), MaxNow \in Nat, query.limit \in Nat \ {0}
  PROVE  /\ ParseFileFeed(F, query.limit) \in Seq(Clip)
         /\ Len(ParseFileFeed(F, query.limit)) <= query.limit
         /\ NewestFirst(ParseFileFeed(F, query.limit))
         /\ \A k \in Clip : InFeed(k, F) => InFeed(k, ParseFileFeed(F, query.limit))
<1>1. PICK m \in Nat : m = Least(query.limit, Len(F))
  BY DEF Least
<1>2. m <= query.limit /\ m <= Len(F) /\ (m = query.limit \/ m = Len(F))
  BY <1>1 DEF Least
<1>3. PICK P : P = SubSeq(F, 1, m) /\ P = ParseFileFeed(F, query.limit)
  BY <1>1 DEF ParseFileFeed
<1>4. \A i \in 1..m : F[i] \in Clip
  BY <1>2
<1>5. P \in Seq(Clip) /\ Len(P) = m /\ \A i \in 1..m : P[i] = F[i]
  <2>1. m - 1 + 1 = m /\ (1 > m => m = 0) /\ \A i \in 1..m : 1 + i - 1 = i
    OBVIOUS
  <2>2. /\ SubSeq(F, 1, m) \in Seq(Clip)
        /\ Len(SubSeq(F, 1, m)) = IF 1 <= m THEN m - 1 + 1 ELSE 0
        /\ \A i \in 1..(m - 1 + 1) : SubSeq(F, 1, m)[i] = F[1 + i - 1]
    BY <1>4, SubSeqProperties
  <2> QED BY <1>3, <2>1, <2>2
<1>6. DOMAIN P = 1..m /\ DOMAIN F = 1..Len(F) /\ 1..m \subseteq DOMAIN F
  <2>1. PICK n \in Nat : n = Len(F) /\ DOMAIN F = 1..n
    OBVIOUS
  <2>2. 1..m \subseteq 1..n
    BY <1>2, <2>1
  <2> QED BY <1>5, <2>1, <2>2
<1>7. NewestFirst(P)
  <2> SUFFICES ASSUME NEW i \in 1..m, NEW j \in 1..m, i < j PROVE P[i].at >= P[j].at
    BY <1>6 DEF NewestFirst
  <2>1. i \in DOMAIN F /\ j \in DOMAIN F
    BY <1>2, <1>6
  <2>2. F[i].at >= F[j].at
    BY <2>1, Zenon DEF NewestFirst
  <2> QED BY <1>5, <2>2
<1>8. ASSUME NEW k \in Clip, InFeed(k, F) PROVE InFeed(k, P)
  <2>1. CASE \E i \in 1..m : F[i] = k
    BY <1>5, <1>6, <2>1 DEF InFeed
  <2>2. CASE ~\E i \in 1..m : F[i] = k
    <3>1. Len(P) >= query.limit
      <4>1. m = query.limit \/ Len(F) >= query.limit
        BY <1>2, <1>6, <1>8, <2>2 DEF InFeed
      <4> QED BY <1>2, <1>5, <4>1
    <3>2. ASSUME NEW i \in 1..m PROVE F[i].at >= k.at
      <4>1. CASE \E j \in DOMAIN F : F[j] = k
        <5>1. PICK j \in 1..Len(F) : F[j] = k
          BY <1>6, <4>1
        <5>2. i < j
          BY <2>2, <5>1
        <5>3. i \in DOMAIN F /\ j \in DOMAIN F
          BY <1>2, <1>6
        <5>4. F[i].at >= F[j].at
          BY <5>2, <5>3, Zenon DEF NewestFirst
        <5> QED BY <5>1, <5>4
      <4>2. CASE ~\E j \in DOMAIN F : F[j] = k
        <5>1. i \in DOMAIN F
          BY <1>2, <1>6
        <5> QED BY <1>8, <4>2, <5>1, Zenon DEF InFeed
      <4> QED BY <4>1, <4>2
    <3> QED BY <1>5, <1>6, <3>1, <3>2 DEF InFeed
  <2> QED BY <2>1, <2>2
<1> QED BY <1>2, <1>3, <1>5, <1>7, <1>8

(* A new request.                                                           *)
LEMMA SendsInv == ASSUME Sends PROVE Inv' /\ outcome' = "headers"
<1>0. MaxBytes \in Nat /\ MaxBody \in Nat
  BY RequestAssumption
<1>1. body' \in 0..MaxBody /\ declared' \in {Undeclared, body'} /\ status' \in Statuses
      /\ expectOk' = FALSE /\ saysOk' = FALSE /\ arrived' = 0 /\ got' = 0 /\ outcome' = "headers"
  BY DEF Sends
<1>2. declared' <= body' /\ declared' \in {Undeclared} \cup 0..MaxBody
  BY <1>0, <1>1 DEF Undeclared
<1>3. arrived' \in 0..body' /\ got' \in 0..arrived' /\ got' <= MaxBytes + 1
  BY <1>0, <1>1
<1>4. TypeOK'
  BY <1>1, <1>2, <1>3 DEF TypeOK
<1> QED BY <1>4, <1>1, <1>2, <1>3 DEF Inv, Within, BodyIsWhole, RefusalsAreExact

LEMMA SameInv == ASSUME Inv, UNCHANGED vars PROVE Inv'
  BY NextInv

-----------------------------------------------------------------------------
(* The steps of the world.                                                  *)

LEMMA CapturesInv == ASSUME RecInv, NEW c \in Cams, Captures(c) PROVE RecInv'
<1>1. UNCHANGED <<vars, now, zone, client, due>> /\ made < MaxClips /\ made' = made + 1
      /\ clips' = clips \cup {[cam |-> c, at |-> now]}
  BY DEF Captures
<1>2. Inv'
  BY <1>1, SameInv DEF RecInv
<1>3. now \in 0..MaxNow /\ made \in 0..MaxClips /\ MaxClips \in Nat /\ MaxNow \in Nat
  BY RecordingsAssumption DEF RecInv, TypeInvariant
<1>4. made' \in 0..MaxClips
  BY <1>1, <1>3
<1>5. clips' \subseteq Clip /\ \A k \in clips' : k.at <= now
  BY <1>1, <1>3, ClipTyped DEF RecInv, TypeInvariant
<1>6. TypeInvariant'
  BY <1>1, <1>2, <1>4, <1>5 DEF RecInv, TypeInvariant, Inv, client
<1>7. WillBeFound' /\ Found' /\ (step' \in {"idle", "nothing"} => files' = <<>>)
  BY <1>1 DEF RecInv, WillBeFound, Found, InFeed, client, vars
<1> QED BY <1>2, <1>6, <1>7 DEF RecInv

LEMMA DeletesInv == ASSUME RecInv, NEW k \in clips, Deletes(k) PROVE RecInv'
<1>1. UNCHANGED <<vars, now, zone, made, client>> /\ clips' = clips \ {k}
      /\ due' = IF step = "list" THEN due \ {k} ELSE due
  BY DEF Deletes
<1>2. Inv'
  BY <1>1, SameInv DEF RecInv
<1>3. TypeInvariant'
  BY <1>1, <1>2 DEF RecInv, TypeInvariant, Inv, client
<1>4. WillBeFound' /\ Found' /\ (step' \in {"idle", "nothing"} => files' = <<>>)
  BY <1>1 DEF RecInv, WillBeFound, Found, InFeed, client, vars
<1> QED BY <1>2, <1>3, <1>4 DEF RecInv

LEMMA TicksInv == ASSUME RecInv, Ticks PROVE RecInv'
<1>1. UNCHANGED <<vars, zone, clips, made, client, due>> /\ now < MaxNow /\ now' = now + 1
  BY DEF Ticks
<1>2. Inv'
  BY <1>1, SameInv DEF RecInv
<1>3. now \in 0..MaxNow /\ MaxNow \in Nat
  BY RecordingsAssumption DEF RecInv, TypeInvariant
<1>4. now' \in 0..MaxNow
  BY <1>1, <1>3
<1>5. \A k \in clips : k.at <= now'
  BY <1>1, <1>3, Clocks DEF RecInv
<1>6. TypeInvariant'
  BY <1>1, <1>2, <1>4, <1>5 DEF RecInv, TypeInvariant, Inv, client
<1>7. WillBeFound' /\ Found' /\ (step' \in {"idle", "nothing"} => files' = <<>>)
  BY <1>1 DEF RecInv, WillBeFound, Found, InFeed, client, vars
<1> QED BY <1>2, <1>6, <1>7 DEF RecInv

LEMMA ClockChangesInv == ASSUME RecInv, ClockChanges PROVE RecInv'
<1>1. UNCHANGED <<vars, now, clips, made, client>> /\ zone' \in Zones
      /\ due' = IF step = "list" THEN {} ELSE due
  BY DEF ClockChanges
<1>2. Inv'
  BY <1>1, SameInv DEF RecInv
<1>3. TypeInvariant'
  BY <1>1, <1>2 DEF RecInv, TypeInvariant, Inv, client
<1>4. WillBeFound' /\ Found' /\ (step' \in {"idle", "nothing"} => files' = <<>>)
  BY <1>1 DEF RecInv, WillBeFound, Found, InFeed, client, vars
<1> QED BY <1>2, <1>3, <1>4 DEF RecInv

LEMMA RefreshesInv == ASSUME RecInv, Refreshes PROVE RecInv'
<1>1. UNCHANGED <<vars, server, skew, step, query, window, files, due>>
      /\ info' = [gmt |-> zone, cameras |-> Cams]
  BY DEF Refreshes
<1>2. Inv'
  BY <1>1, SameInv DEF RecInv
<1>3. info' \in [gmt : Zones, cameras : {{}, Cams}]
  BY <1>1 DEF RecInv, TypeInvariant
<1>4. TypeInvariant'
  BY <1>1, <1>2, <1>3 DEF RecInv, TypeInvariant, Inv, server
<1>5. WillBeFound' /\ Found' /\ (step' \in {"idle", "nothing"} => files' = <<>>)
  BY <1>1 DEF RecInv, WillBeFound, Found, InFeed, server, vars
<1> QED BY <1>2, <1>4, <1>5 DEF RecInv

LEMMA ClientClockSetInv == ASSUME RecInv, ClientClockSet PROVE RecInv'
<1>1. UNCHANGED <<vars, server, info, step, query, window, files, due>> /\ skew' \in Skews
  BY DEF ClientClockSet
<1>2. Inv'
  BY <1>1, SameInv DEF RecInv
<1>3. TypeInvariant'
  BY <1>1, <1>2 DEF RecInv, TypeInvariant, Inv, server
<1>4. WillBeFound' /\ Found' /\ (step' \in {"idle", "nothing"} => files' = <<>>)
  BY <1>1 DEF RecInv, WillBeFound, Found, InFeed, server, vars
<1> QED BY <1>2, <1>3, <1>4 DEF RecInv

-----------------------------------------------------------------------------
(* The steps of the call.                                                   *)

(* With the offset of the server, and a clock that gives the same date, the *)
(* client asks for the days that the caller means, whenever the server      *)
(* looks.                                                                   *)
LEMMA Asks ==
  ASSUME TypeInvariant, NEW q \in Query, info.gmt = zone, Asked(q) # {},
         Date(now + skew, zone) = Date(now, zone),
         NEW k \in clips, q.asked \in {k.cam, Every}, Date(k.at, zone) > Date(now, zone) - q.days
  PROVE  k.cam \in Asked(q) /\ Date(k.at, zone) \in (Today - (q.days - 1))..Today
<1>1. now \in Nat /\ zone \in Nat /\ k.at \in Nat /\ k.at <= now /\ k.cam \in Cams
  BY Clocks
<1>2. k.cam \in Asked(q)
  <2>1. CASE q.asked = Every
    <3>1. Asked(q) = Cams
      BY <2>1, Clocks DEF Asked
    <3> QED BY <1>1, <3>1
  <2>2. CASE q.asked # Every
    BY <2>2 DEF Asked
  <2> QED BY <2>1, <2>2
<1>3. PICK d \in Int : d = Date(k.at, zone)
  BY <1>1, DateTyped
<1>4. PICK t \in Int : t = Date(now, zone) /\ t = Today
  BY <1>1, DateTyped DEF Today
<1>5. d <= t /\ d > t - q.days /\ q.days \in Nat
  BY <1>1, <1>3, <1>4, DateMonotone, QueryTyped
<1>6. d \in (t - (q.days - 1))..t
  BY <1>5
<1> QED BY <1>2, <1>3, <1>4, <1>6

LEMMA ListsInv == ASSUME RecInv, NEW q \in Query, Lists(q) PROVE RecInv'
<1>0. TypeInvariant
  BY DEF RecInv
<1>1. /\ step = "idle" /\ step' = "list" /\ query' = q /\ Sends
      /\ window' = [from |-> Today - (q.days - 1), to |-> Today, cams |-> Asked(q)]
      /\ UNCHANGED <<server, skew, info, files>>
  BY DEF Lists
<1>2. due' = IF /\ info.gmt = zone /\ Asked(q) # {}
                /\ Date(now + skew, zone) = Date(now, zone)
             THEN {k \in clips : /\ q.asked \in {k.cam, Every}
                                 /\ Date(k.at, zone) > Date(now, zone) - q.days}
             ELSE {}
  BY DEF Lists
<1>3. Inv' /\ outcome' = "headers"
  BY <1>1, SendsInv
<1>4. due' \subseteq clips
  BY <1>2
<1>5. Today \in Int
  BY <1>0, Clocks, DateTyped DEF Today
<1>6. Asked(q) \subseteq Cams
  BY <1>0, Clocks, QueryTyped DEF Asked
<1>7. window' \in [from : Int, to : Int, cams : SUBSET Cams]
  BY <1>1, <1>5, <1>6, QueryTyped
<1>8. files' \in Seq(Clip)
  BY <1>1 DEF RecInv, TypeInvariant
<1>9. TypeInvariant'
  BY <1>1, <1>3, <1>4, <1>7, <1>8 DEF RecInv, TypeInvariant, Inv, server
<1>10. WillBeFound'
  <2> SUFFICES ASSUME NEW k \in due'
               PROVE  /\ k \in clips' /\ k.cam \in (window').cams
                      /\ Date(k.at, zone') \in (window').from..(window').to
    BY DEF WillBeFound
  <2>1. /\ info.gmt = zone /\ Asked(q) # {} /\ Date(now + skew, zone) = Date(now, zone)
        /\ k \in clips /\ q.asked \in {k.cam, Every}
        /\ Date(k.at, zone) > Date(now, zone) - q.days
    BY <1>2
  <2>2. k.cam \in Asked(q) /\ Date(k.at, zone) \in (Today - (q.days - 1))..Today
    BY <1>0, <2>1, Asks
  <2> QED BY <1>1, <2>1, <2>2 DEF server
<1>11. Found' /\ step' \notin {"idle", "nothing"}
  BY <1>1, <1>3 DEF Found
<1> QED BY <1>3, <1>9, <1>10, <1>11 DEF RecInv

LEMMA AnswersInv == ASSUME RecInv, Answers PROVE RecInv'
<1>1. step \in {"list", "file"} /\ Headers /\ UNCHANGED <<server, skew, info, step, query, window, due>>
  BY DEF Answers
<1>2. Inv'
  BY <1>1, NextInv DEF RecInv, Next
<1>3. outcome = "headers" /\ outcome' # "headers"
  BY <1>1 DEF Headers
<1>4. CASE step = "list"
  <2>1. PICK S : S = {k \in clips : k.cam \in window.cams
                                    /\ Date(k.at, zone) \in window.from..window.to}
    OBVIOUS
  <2>2. S \in SUBSET Clip /\ files' \in Listings(S, query.limit)
    BY <1>4, <2>1 DEF Answers, Feeds, RecInv, TypeInvariant
  <2>3. query.limit \in Nat
    BY QueryTyped DEF RecInv, TypeInvariant
  <2>4. /\ files' \in Seq(Clip) /\ NewestFirst(files')
        /\ \A k \in S : \/ \E i \in DOMAIN files' : files'[i] = k
                        \/ Len(files') >= query.limit /\ \A i \in DOMAIN files' : files'[i].at >= k.at
    BY <2>2, <2>3, ListingIs
  <2>5. due \subseteq S
    BY <1>3, <1>4, <2>1 DEF RecInv, WillBeFound
  <2>6. TypeInvariant'
    BY <1>1, <1>2, <1>4, <2>4 DEF RecInv, TypeInvariant, Inv, server
  <2>7. Found'
    BY <1>1, <2>4, <2>5 DEF Found, InFeed
  <2>8. WillBeFound' /\ step' \notin {"idle", "nothing"}
    BY <1>1, <1>3 DEF WillBeFound
  <2> QED BY <1>2, <2>6, <2>7, <2>8 DEF RecInv
<1>5. CASE step = "file"
  <2>1. files' = files
    BY <1>5 DEF Answers
  <2>2. TypeInvariant'
    BY <1>1, <1>2, <1>5, <2>1 DEF RecInv, TypeInvariant, Inv, server
  <2>3. Found' /\ WillBeFound' /\ step' \notin {"idle", "nothing"}
    BY <1>1, <1>3, <1>5, <2>1 DEF RecInv, Found, InFeed, WillBeFound
  <2> QED BY <1>2, <2>2, <2>3 DEF RecInv
<1> QED BY <1>1, <1>4, <1>5

LEMMA ReadsInv == ASSUME RecInv, Reads PROVE RecInv'
<1>1. /\ Arrives \/ Read \/ Eof \/ Fails \/ (step = "other" /\ Headers)
      /\ UNCHANGED <<server, client, due>>
  BY DEF Reads
<1>2. Inv'
  BY <1>1, NextInv DEF RecInv, Next
<1>3. \/ step = "other"
      \/ outcome' = outcome
      \/ outcome = "reading" /\ outcome' # "headers"
      \/ outcome' = "RequestError"
  <2>1. Judged # "headers"
    BY JudgedIs DEF RecInv, Inv
  <2> QED BY <1>1, <2>1 DEF Arrives, Read, Eof, Fails
<1>4. TypeInvariant'
  BY <1>1, <1>2 DEF RecInv, TypeInvariant, Inv, server, client
<1>5. WillBeFound'
  BY <1>1, <1>3 DEF RecInv, WillBeFound, server, client
<1>6. Found' /\ (step' \in {"idle", "nothing"} => files' = <<>>)
  BY <1>1, <1>3 DEF RecInv, Found, InFeed, client
<1> QED BY <1>2, <1>4, <1>5, <1>6 DEF RecInv

LEMMA ListedInv == ASSUME RecInv, Listed PROVE RecInv'
<1>1. /\ step = "list" /\ outcome = "body"
      /\ UNCHANGED <<server, skew, info, query, window, due>>
      /\ files' = IF body > 0 THEN ParseFileFeed(files, query.limit) ELSE files
  BY DEF Listed
<1>2. \/ body > 0 /\ query.latest /\ files' # <<>> /\ step' = "file" /\ Sends
      \/ body > 0 /\ query.latest /\ files' = <<>> /\ step' = "nothing" /\ UNCHANGED vars
      \/ body > 0 /\ step' = "returned" /\ UNCHANGED vars
      \/ step' = "raised" /\ UNCHANGED vars
  BY DEF Listed
<1>3. Inv'
  BY <1>2, SendsInv, SameInv DEF RecInv
<1>4. /\ files \in Seq(Clip) /\ NewestFirst(files) /\ due \subseteq Clip
      /\ \A k \in due : InFeed(k, files)
  BY <1>1 DEF RecInv, Found, TypeInvariant
<1>5. query.limit \in Nat \ {0} /\ MaxNow \in Nat
  BY QueryTyped, RecordingsAssumption DEF RecInv, TypeInvariant
<1>6. PICK P : P = ParseFileFeed(files, query.limit)
  OBVIOUS
<1>7. /\ P \in Seq(Clip) /\ Len(P) <= query.limit /\ NewestFirst(P)
      /\ \A k \in due : InFeed(k, P)
  BY <1>4, <1>5, <1>6, ParsedIs
<1>8. files' \in Seq(Clip) /\ (body > 0 => files' = P)
  BY <1>1, <1>4, <1>6, <1>7
<1>9. TypeInvariant'
  BY <1>1, <1>2, <1>3, <1>7, <1>8 DEF RecInv, TypeInvariant, Inv, server
<1>10. Found'
  BY <1>1, <1>2, <1>7, <1>8 DEF Found, InFeed, NewestFirst
<1>11. WillBeFound' /\ (step' \in {"idle", "nothing"} => files' = <<>>)
  BY <1>1, <1>2 DEF WillBeFound
<1> QED BY <1>3, <1>9, <1>10, <1>11 DEF RecInv

(* The last steps.                                                          *)
LEMMA EndsInv == ASSUME RecInv, Downloaded \/ Raises PROVE RecInv'
<1>1. /\ UNCHANGED <<vars, server, skew, info, query, window, files, due>>
      /\ \/ step = "file" /\ step' = "returned"
         \/ step' = "raised"
  BY DEF Downloaded, Raises
<1>2. Inv'
  BY <1>1, SameInv DEF RecInv
<1>3. TypeInvariant'
  BY <1>1, <1>2 DEF RecInv, TypeInvariant, Inv, server
<1>4. Found' /\ WillBeFound' /\ step' \notin {"idle", "nothing"}
  BY <1>1 DEF RecInv, Found, InFeed, WillBeFound
<1> QED BY <1>2, <1>3, <1>4 DEF RecInv

LEMMA InitRec == RecordingsInit => RecInv
<1> SUFFICES ASSUME RecordingsInit PROVE RecInv
  OBVIOUS
<1>1. Inv
  BY InitInv DEF RecordingsInit
<1>2. files = <<>> /\ due = {} /\ clips = {} /\ step \in {"other", "idle"}
  BY DEF RecordingsInit
<1>3. now = 1 /\ 0 \in Zones /\ MaxClips \in Nat
  BY RecordingsAssumption DEF RecordingsInit
<1>4. now \in 0..MaxNow /\ made \in 0..MaxClips
  BY <1>3, RecordingsAssumption DEF RecordingsInit
<1>5. info \in [gmt : Zones, cameras : {{}, Cams}] /\ query \in Query /\ query.limit = 1
      /\ window \in [from : Int, to : Int, cams : SUBSET Cams]
  BY <1>3 DEF RecordingsInit, Query
<1>6. files \in Seq(Clip)
  BY <1>2
<1>7. TypeInvariant
  BY <1>1, <1>2, <1>4, <1>5, <1>6 DEF RecordingsInit, TypeInvariant, Inv
<1>8. WillBeFound /\ Found
  BY <1>2 DEF WillBeFound, Found
<1> QED BY <1>1, <1>2, <1>7, <1>8 DEF RecInv

LEMMA NextRec == RecInv /\ [RecordingsNext]_allVars => RecInv'
<1> SUFFICES ASSUME RecInv, [RecordingsNext]_allVars PROVE RecInv'
  OBVIOUS
<1>1. CASE World
  BY <1>1, CapturesInv, DeletesInv, TicksInv, ClockChangesInv, RefreshesInv,
     ClientClockSetInv DEF World
<1>2. ASSUME NEW q \in Query, Lists(q) PROVE RecInv'
  BY <1>2, ListsInv
<1>3. CASE Answers \/ Reads \/ Listed \/ Downloaded \/ Raises
  BY <1>3, AnswersInv, ReadsInv, ListedInv, EndsInv
<1>4. CASE UNCHANGED allVars
  <2>1. UNCHANGED <<vars, now, zone, clips, made, skew, info, step, query, window, files, due>>
    BY <1>4 DEF allVars, server, client
  <2>2. Inv'
    BY <2>1, SameInv DEF RecInv
  <2>3. TypeInvariant'
    BY <2>1, <2>2 DEF RecInv, TypeInvariant, Inv
  <2>4. Found' /\ WillBeFound'
    BY <2>1 DEF RecInv, Found, InFeed, WillBeFound, vars
  <2> QED BY <2>1, <2>2, <2>3, <2>4 DEF RecInv
<1> QED BY <1>1, <1>2, <1>3, <1>4 DEF RecordingsNext

LEMMA AlwaysRec == RecordingsSpec => []RecInv
  BY InitRec, NextRec, PTL DEF RecordingsSpec

(* The types, of the call and of the requests it is made of.                *)
THEOREM RecordingsTypeCorrect == RecordingsSpec => []TypeInvariant
<1>1. RecInv => TypeInvariant
  BY DEF RecInv
<1> QED BY <1>1, AlwaysRec, PTL

(* The requests keep their promises in whatever order the calls make them.  *)
THEOREM RequestsStayExact == RecordingsSpec => [](BodyIsWhole /\ RefusalsAreExact)
<1>1. RecInv => BodyIsWhole /\ RefusalsAreExact
  BY DEF RecInv, Inv
<1> QED BY <1>1, AlwaysRec, PTL

(* Whatever the offset of the server, and whatever happens to its clock and *)
(* its recordings while the call is under way, for any number of them, and  *)
(* however far the client's clock is off without giving another date: a     *)
(* list, and the latest, lacks none that the caller may expect, but for     *)
(* newer ones (client.py:691-712, 764-796).  It rests on the order of the   *)
(* server's feed, which the client does not check (Listings).               *)
THEOREM NewestListed == RecordingsSpec => []NewestAreListed
<1>1. RecInv => NewestAreListed
  <2> SUFFICES ASSUME RecInv PROVE NewestAreListed
    OBVIOUS
  <2>1. step = "returned" => Len(files) <= query.limit /\ \A k \in due : InFeed(k, files)
    BY DEF RecInv, Found, TypeInvariant
  <2>2. ASSUME step = "nothing" PROVE due = {}
    <3>1. files = <<>> /\ \A k \in due : InFeed(k, files)
      BY <2>2 DEF RecInv, Found
    <3>2. DOMAIN files = {} /\ Len(files) = 0
      BY <3>1
    <3>3. query.limit \in Nat /\ query.limit > 0
      BY QueryTyped DEF RecInv, TypeInvariant
    <3>4. ASSUME NEW k \in due PROVE FALSE
      BY <3>1, <3>2, <3>3 DEF InFeed
    <3> QED BY <3>4
  <2>3. Len(files) \in Nat /\ query.limit \in Nat
    BY QueryTyped DEF RecInv, TypeInvariant
  <2> QED BY <2>1, <2>2, <2>3 DEF NewestAreListed, InFeed
<1> QED BY <1>1, AlwaysRec, PTL
=============================================================================
