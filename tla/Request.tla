------------------------------ MODULE Request ------------------------------
(* One HTTP request of the client (aiosecspy/client.py): _request,          *)
(* _read_response and _read_capped.  The body is read piece by piece, up to *)
(* a cap, and only then is the status looked at.                            *)
EXTENDS Integers

CONSTANTS MaxBytes,     \* the cap: MAX_TEXT_RESPONSE_BYTES and the others
          MaxBody       \* bound on the bodies the server sends

ASSUME RequestAssumption ==
  /\ MaxBytes \in Nat
  /\ MaxBody \in Nat

(* 200: any below 400 (redirects are followed); 500: any other from there.  *)
Statuses == {200, 401, 403, 404, 500}
Undeclared == -1

VARIABLES
  expectOk,   \* a command, whose body has to say OK
  status,     \* of the response
  declared,   \* its content_length, or Undeclared
  body,       \* how many bytes the server sends (decoded)
  saysOk,     \* the whole body ends in OK
  arrived,    \* how many of them have arrived
  got,        \* length of the bytearray in _read_capped
  outcome     \* what the call has come to

response == <<expectOk, status, declared, body, saysOk>>
vars == <<response, arrived, got, outcome>>

Errors == {"AuthenticationError", "UnsupportedError", "RequestError",
           "ResponseTooLargeError"}

TypeOK ==
  /\ expectOk \in BOOLEAN /\ saysOk \in BOOLEAN
  /\ status \in Statuses
  /\ declared \in {Undeclared} \cup 0..MaxBody
  /\ body \in 0..MaxBody
  /\ arrived \in 0..body
  /\ got \in 0..arrived
  /\ got <= MaxBytes + 1
  /\ outcome \in {"headers", "reading", "body"} \cup Errors

(* The response that the request will get.  A compressed body has more      *)
(* bytes than its content_length says.                                      *)
Init ==
  /\ expectOk \in BOOLEAN
  /\ status \in Statuses
  /\ body \in 0..MaxBody
  /\ declared \in {Undeclared} \cup 0..body
  /\ saysOk \in (IF body = 0 THEN {FALSE} ELSE BOOLEAN)
  /\ arrived = 0 /\ got = 0
  /\ outcome = "headers"

Open == outcome \in {"headers", "reading"}

Arrives ==
  /\ Open /\ arrived < body
  /\ arrived' \in (arrived + 1)..body
  /\ UNCHANGED <<response, got, outcome>>

(* Mutant: off by one.                                                      *)
HeadersStrict ==
  /\ outcome = "headers"
  /\ outcome' = IF declared >= MaxBytes THEN "ResponseTooLargeError" ELSE "reading"
  /\ UNCHANGED <<response, arrived, got>>

(* The response's headers are in: the declared length is tested first.      *)
Headers ==
  /\ outcome = "headers"
  /\ outcome' = IF declared > MaxBytes THEN "ResponseTooLargeError" ELSE "reading"
  /\ UNCHANGED <<response, arrived, got>>

Least(m, n) == IF m < n THEN m ELSE n

(* Mutant: reads without a limit.                                           *)
PieceUnlimited == arrived - got

(* content.read(max_bytes + 1 - len(body)): what there is, up to one byte   *)
(* more than the cap.                                                       *)
Piece == Least(arrived - got, MaxBytes + 1 - got)

(* What _read_response makes of a whole body.                               *)
Judged ==
  CASE status \in {401, 403} -> "AuthenticationError"
    [] status = 404 -> IF expectOk THEN "UnsupportedError" ELSE "RequestError"
    [] status = 500 -> "RequestError"
    [] status = 200 -> IF expectOk /\ ~saysOk THEN "RequestError" ELSE "body"

(* Mutant: returns after the first piece (CHANGELOG.md:59-60).              *)
ReadsOnce ==
  /\ outcome = "reading" /\ (arrived > got \/ arrived = body)
  /\ got' = got + Piece
  /\ outcome' = IF got' > MaxBytes THEN "ResponseTooLargeError" ELSE Judged
  /\ UNCHANGED <<response, arrived>>

(* One turn of the loop that has bytes to take.                             *)
Read ==
  /\ outcome = "reading" /\ arrived > got
  /\ got' = got + Piece
  /\ outcome' = IF got' > MaxBytes THEN "ResponseTooLargeError" ELSE "reading"
  /\ UNCHANGED <<response, arrived>>

(* read() returns b"": all there is has been taken.                         *)
Eof ==
  /\ outcome = "reading" /\ Piece = 0 /\ arrived = body
  /\ outcome' = Judged
  /\ UNCHANGED <<response, arrived, got>>

(* ClientTimeout(total=...), a transport error, a body shorter than it was  *)
(* declared, the session closed under the request.                          *)
Fails ==
  /\ Open
  /\ outcome' = "RequestError"
  /\ UNCHANGED <<response, arrived, got>>

Next == Arrives \/ Headers \/ Read \/ Eof \/ Fails

Spec == Init /\ [][Next]_vars

-----------------------------------------------------------------------------
(* Properties.                                                              *)

(* A call that returns a body returns all of it, and never one over the cap *)
(* or of a response with an error status; a command's says that it was done *)
(* (toggle_continuous and the mirrored modes rest on it, client.py:426-466).*)
BodyIsWhole ==
  outcome = "body" => /\ got = body /\ body <= MaxBytes /\ status < 400
                      /\ expectOk => saysOk

(* A response is refused for its size only if it is over the cap (one of    *)
(* exactly MaxBytes bytes is not), and only a 404 makes a command           *)
(* unsupported: toggle_continuous then goes on to rewrite the schedule.     *)
RefusalsAreExact ==
  /\ outcome = "ResponseTooLargeError" => body > MaxBytes
  /\ outcome = "UnsupportedError" => expectOk /\ status = 404
=============================================================================
