----------------------------- MODULE LineReader -----------------------------
(* How the event stream's reader cuts the bytes of the ++eventStream        *)
(* response into CR-terminated lines (aiosecspy/events.py, _read_stream and *)
(* the length test of _handle_line).  The bytes come in chunks of any size, *)
(* a connection may end in the middle of a line, and the reader suspends    *)
(* while it hands a line on, so more bytes arrive meanwhile.                *)
EXTENDS Integers, Sequences

CONSTANTS MaxLine,        \* const.EVENT_MAX_LINE_BYTES
          HeaderSpaces,   \* _EVENT_HEADER_FIELDS - 1
          MaxBytes,       \* bound on the bytes of a connection
          MaxConnections  \* bound on the connections of a run

ASSUME ReaderAssumption ==
  /\ MaxLine \in Nat \ {0}
  /\ HeaderSpaces \in Nat
  /\ MaxBytes \in Nat
  /\ MaxConnections \in Nat \ {0}

(* Only line ends and spaces matter.                                        *)
CR == "CR"
Space == "space"
Bytes == {CR, Space, "other"}

VARIABLES
  stream,       \* the bytes that this connection has brought so far
  got,          \* how many of them the reader has taken, chunk by chunk
  buffer,       \* _read_stream's buffer
  pc,           \* where the reader is suspended
  connections,
  \* History, for the properties only:
  lines         \* the lines of this connection handed on to be parsed

vars == <<stream, got, buffer, pc, connections, lines>>

HasLine(b) == \E i \in 1..Len(b) : b[i] = CR

(* A reader that handles a line has one to handle.                          *)
TypeOK ==
  /\ stream \in Seq(Bytes) /\ Len(stream) <= MaxBytes
  /\ got \in 0..Len(stream)
  /\ buffer \in Seq(Bytes)
  /\ pc \in {"read", "drain", "ended", "flooded"}
  /\ pc = "drain" => HasLine(buffer)
  /\ connections \in 1..MaxConnections
  /\ lines \in Seq(Seq(Bytes))

Init ==
  /\ stream = <<>> /\ got = 0
  /\ buffer = <<>>
  /\ pc = "read"
  /\ connections = 1
  /\ lines = <<>>

Arrives(b) ==
  /\ pc \in {"read", "drain"}
  /\ Len(stream) < MaxBytes
  /\ stream' = Append(stream, b)
  /\ UNCHANGED <<got, buffer, pc, connections, lines>>

(* Mutant: the size cap comes before the complete lines are taken out.      *)
CapsChunk(b) == IF Len(b) > MaxLine THEN "flooded" ELSE IF HasLine(b) THEN "drain" ELSE "read"

(* Mutant: handles what there is without looking for a line end.            *)
DrainsUnchecked(b) == IF Len(b) > MaxLine THEN "flooded" ELSE "drain"

(* Where the reader goes on with buffer b: the cap is for what is left when *)
(* no complete line is.                                                     *)
Drained(b) ==
  IF HasLine(b) THEN "drain" ELSE IF Len(b) > MaxLine THEN "flooded" ELSE "read"

(* iter_any yields all the bytes that have arrived.                         *)
ReadChunk ==
  /\ pc = "read"
  /\ got < Len(stream)
  /\ got' = Len(stream)
  /\ buffer' = buffer \o SubSeq(stream, got + 1, Len(stream))
  /\ pc' = Drained(buffer')
  /\ UNCHANGED <<stream, connections, lines>>

FirstCR(b) == CHOOSE i \in 1..Len(b) : b[i] = CR /\ \A j \in 1..(i - 1) : b[j] # CR

Spaces(line) == Len(SelectSeq(line, LAMBDA b : b = Space))

(* del buffer[: idx + 1]                                                    *)
Rest(b) == SubSeq(b, FirstCR(b) + 1, Len(b))

(* Mutant: at most one line of a chunk is handled.                          *)
HandleOneLine ==
  LET line == SubSeq(buffer, 1, FirstCR(buffer) - 1)
  IN  /\ pc = "drain"
      /\ buffer' = Rest(buffer)
      /\ lines' = IF Spaces(line) < HeaderSpaces THEN lines ELSE Append(lines, line)
      /\ pc' = "read"
      /\ UNCHANGED <<stream, got, connections>>

(* One turn of the loop over complete lines: a line too short for an event  *)
(* header is skipped.                                                       *)
HandleLine ==
  LET line == SubSeq(buffer, 1, FirstCR(buffer) - 1)
  IN  /\ pc = "drain"
      /\ buffer' = Rest(buffer)
      /\ lines' = IF Spaces(line) < HeaderSpaces THEN lines ELSE Append(lines, line)
      /\ pc' = Drained(buffer')
      /\ UNCHANGED <<stream, got, connections>>

(* The response ends cleanly, all of it read, or breaks off.                *)
Ends ==
  /\ pc = "read"
  /\ pc' = "ended"
  /\ UNCHANGED <<stream, got, buffer, connections, lines>>

(* Mutant: the buffer outlives the connection.                              *)
ReconnectsMidLine ==
  /\ pc \in {"ended", "flooded"}
  /\ connections < MaxConnections
  /\ connections' = connections + 1
  /\ stream' = <<>> /\ got' = 0 /\ lines' = <<>>
  /\ pc' = "read"
  /\ UNCHANGED buffer

(* The next _run_once calls _read_stream anew.                              *)
Reconnects ==
  /\ pc \in {"ended", "flooded"}
  /\ connections < MaxConnections
  /\ connections' = connections + 1
  /\ stream' = <<>> /\ got' = 0 /\ buffer' = <<>> /\ lines' = <<>>
  /\ pc' = "read"

Next ==
  \/ \E b \in Bytes : Arrives(b)
  \/ ReadChunk
  \/ HandleLine
  \/ Ends
  \/ Reconnects

Spec == Init /\ [][Next]_vars

-----------------------------------------------------------------------------
(* Properties.                                                              *)

(* What stands between the line end at position k of byte sequence s and   *)
(* the one before.                                                          *)
LineAt(s, k) ==
  LET first == CHOOSE i \in 1..k : (i = 1 \/ s[i - 1] = CR) /\ \A j \in i..(k - 1) : s[j] # CR
  IN  SubSeq(s, first, k - 1)

(* For every position of s the lines that end there or before, those too    *)
(* short for an event header left out.                                      *)
LinesUpTo(s) ==
  LET upTo[k \in 0..Len(s)] ==
        IF k = 0 THEN <<>>
        ELSE IF s[k] # CR \/ Spaces(LineAt(s, k)) < HeaderSpaces THEN upTo[k - 1]
        ELSE Append(upTo[k - 1], LineAt(s, k))
  IN  upTo

LinesOf(s) == LinesUpTo(s)[Len(s)]

(* However the bytes were cut into chunks and whenever more arrived, the    *)
(* lines handed on, with those still in the buffer, are the lines of the    *)
(* bytes read on this connection: none is lost, repeated, merged or mixed   *)
(* with the rest of an earlier connection.                                  *)
Reassembled == lines \o LinesOf(buffer) = LinesOf(SubSeq(stream, 1, got))

(* The reader never waits for the network with a complete line in hand.     *)
NoLineHeldBack == pc = "read" => ~HasLine(buffer)

(* The connection is dropped for a flood only when the last MaxLine + 1     *)
(* bytes really hold no line end, never for a chunk of many short events    *)
(* (events.py:409-411), and what is buffered between chunks is capped       *)
(* (const.py:153-155).                                                      *)
FloodsAreFloods ==
  /\ pc = "flooded" => /\ got > MaxLine
                       /\ \A k \in (got - MaxLine)..got : stream[k] # CR
  /\ pc = "read" => Len(buffer) <= MaxLine
=============================================================================
