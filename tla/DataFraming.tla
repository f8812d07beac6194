---------------------------- MODULE DataFraming ----------------------------
(***************************************************************************)
(* The DATA byte-stream framing (src/parser.go DataLineReader, and the     *)
(* line loop of Engine.readData in src/storage.go).                        *)
(*                                                                         *)
(* A client sends a body as lines, each dot-stuffed (StuffLine) and ended  *)
(* with CR LF, then the terminator line "." CR LF.  The server reads the   *)
(* stream with bufio ReadBytes('\n'): a line is everything up to and       *)
(* including the next LF.  It stops at the first line IsTerminator         *)
(* accepts, and appends UnstuffLine of every other line to the body.  A    *)
(* stream that ends without an LF is an EOF error.  Before a line is      *)
(* unstuffed, readData checks it against MaxLineLength and the running     *)
(* total against MaxMessageSize, both on the line as read (stuffing dot    *)
(* and CR LF included), and returns an error on a breach.                  *)
(*                                                                         *)
(* Bytes are one-character strings; "CR" and "LF" stand for \r and \n.    *)
(***************************************************************************)
EXTENDS Naturals, Sequences, SequencesExt

CONSTANTS
    LineChars,   \* the bytes a body line may contain
    MaxLines,    \* bound on the number of body lines
    MaxLineLen,  \* bound on the length of a body line
    MayTruncate, \* the connection may end anywhere in the stream
    MaxLineLength,   \* Limits.MaxLineLength, 0 for no cap
    MaxMessageSize   \* Limits.MaxMessageSize, 0 for no cap

CR == "CR"
LF == "LF"
Dot == "."
CRLF == <<CR, LF>>

\* bytes.TrimSuffix(line, "\r\n") then bytes.TrimSuffix(line, "\n").
TrimSuffix(s, t) ==
    IF Len(t) <= Len(s) /\ SubSeq(s, Len(s) - Len(t) + 1, Len(s)) = t
    THEN SubSeq(s, 1, Len(s) - Len(t)) ELSE s

TrimLineEnd(line) == TrimSuffix(TrimSuffix(line, CRLF), <<LF>>)

IsTerminator(line) == TrimLineEnd(line) = <<Dot>>

\* Variant: every leading dot removed.
UnstuffLineAll(line) ==
    LET RECURSIVE Strip(_)
        Strip(s) == IF s /= <<>> /\ Head(s) = Dot THEN Strip(Tail(s)) ELSE s
    IN  Strip(line)

UnstuffLine(line) == IF line /= <<>> /\ Head(line) = Dot THEN Tail(line) ELSE line

StuffLine(line) == IF line /= <<>> /\ Head(line) = Dot THEN <<Dot>> \o line ELSE line

\* What the client puts on the wire for a body of lines.
Wire(lines) == FlattenSeq([i \in 1..Len(lines) |-> StuffLine(lines[i]) \o CRLF])
                   \o <<Dot>> \o CRLF

\* The body the spec says the server must reconstruct: every line with its
\* CR LF, the terminator stripped.
Body(lines) == FlattenSeq([i \in 1..Len(lines) |-> lines[i] \o CRLF])

\* Index of the first LF in s, 0 if none.
FirstLF(s) ==
    IF \E i \in 1..Len(s) : s[i] = LF
    THEN CHOOSE i \in 1..Len(s) : s[i] = LF /\ \A j \in 1..i - 1 : s[j] /= LF
    ELSE 0

Lines == SeqOf(SeqOf(LineChars, MaxLineLen), MaxLines)

VARIABLES
    lines,    \* the body the client sends
    wire,     \* bytes not yet read by the server
    data,     \* readData's buffer
    status,   \* "reading", "done" (terminator seen), "eof", or the limit
              \* errors "toolong" (ErrLineTooLong), "toolarge" (ErrMessageTooLarge)
    cut       \* the stream ended before the client sent all of it

vars == <<lines, wire, data, status, cut>>

\* Every prefix of the client's stream, the whole stream included.
Sent(ls) ==
    IF MayTruncate THEN {SubSeq(Wire(ls), 1, n) : n \in 0..Len(Wire(ls))}
    ELSE {Wire(ls)}

Init ==
    /\ lines \in Lines
    /\ wire \in Sent(lines)
    /\ cut = (wire /= Wire(lines))
    /\ data = <<>>
    /\ status = "reading"

\* One iteration of readData's loop: ReadBytes('\n') returns a line (the
\* next one of the stream, up to and including its LF), which is then
\* checked in the code's order.
NextLine == SubSeq(wire, 1, FirstLF(wire))

Consume == wire' = SubSeq(wire, FirstLF(wire) + 1, Len(wire))

\* The terminator ends the body.
ReadTerminator ==
    /\ status = "reading" /\ FirstLF(wire) > 0
    /\ IsTerminator(NextLine)
    /\ Consume /\ status' = "done"
    /\ UNCHANGED <<lines, data, cut>>

\* len(line) > MaxLineLength: ErrLineTooLong.
ReadLineTooLong ==
    /\ status = "reading" /\ FirstLF(wire) > 0
    /\ ~IsTerminator(NextLine)
    /\ MaxLineLength > 0 /\ Len(NextLine) > MaxLineLength
    /\ Consume /\ status' = "toolong"
    /\ UNCHANGED <<lines, data, cut>>

\* Variant: the size limit taken as reached at MaxMessageSize.
OverSizeAtLimit(line) == MaxMessageSize > 0 /\ Len(data) + Len(line) >= MaxMessageSize

\* buf.Len()+len(line) > MaxMessageSize: the unstuffed body so far plus
\* the line as read.
OverSize(line) == MaxMessageSize > 0 /\ Len(data) + Len(line) > MaxMessageSize

LineFits(line) == MaxLineLength = 0 \/ Len(line) <= MaxLineLength

\* ErrMessageTooLarge.
ReadTooLarge ==
    /\ status = "reading" /\ FirstLF(wire) > 0
    /\ ~IsTerminator(NextLine) /\ LineFits(NextLine)
    /\ OverSize(NextLine)
    /\ Consume /\ status' = "toolarge"
    /\ UNCHANGED <<lines, data, cut>>

\* buf.Write(reader.UnstuffLine(line)).
ReadBodyLine ==
    /\ status = "reading" /\ FirstLF(wire) > 0
    /\ ~IsTerminator(NextLine) /\ LineFits(NextLine)
    /\ ~OverSize(NextLine)
    /\ Consume /\ data' = data \o UnstuffLine(NextLine)
    /\ UNCHANGED <<lines, status, cut>>

ReadLine == ReadTerminator \/ ReadLineTooLong \/ ReadTooLarge \/ ReadBodyLine

\* ReadBytes hits the end of the stream before an LF.
ReadEOF ==
    /\ status = "reading"
    /\ FirstLF(wire) = 0
    /\ status' = "eof"
    /\ UNCHANGED <<lines, wire, data, cut>>

Next == ReadLine \/ ReadEOF

Spec == Init /\ [][Next]_vars

-----------------------------------------------------------------------------

\* Dot-stuffing round trip (spec 8.3): when readData returns, the body it
\* read is exactly the body the client stuffed and sent, and the
\* terminator it stopped at was the client's, so no byte of the stream is
\* left to be read as commands.  A stream cut short is never taken for a
\* complete body, and a complete one never ends in EOF.
RoundTrip ==
    /\ status = "eof" => cut
    /\ status = "done" => ~cut /\ data = Body(lines) /\ wire = <<>>

\* readData's limits (spec 5) refuse only what really breaks them: it
\* returns ErrLineTooLong only if the client sent a body line that, stuffed
\* and with its CR LF, is longer than MaxLineLength, and ErrMessageTooLarge
\* only if the body the client sent, stuffed, is longer than
\* MaxMessageSize, although the running check adds a line as read (its
\* stuffing dot included) to the unstuffed body read so far.
LimitsSound ==
    LET WireLine(l) == StuffLine(l) \o CRLF
    IN  /\ status = "toolong" =>
               \E k \in 1..Len(lines) : Len(WireLine(lines[k])) > MaxLineLength
        /\ status = "toolarge" =>
               Len(FlattenSeq([k \in 1..Len(lines) |-> WireLine(lines[k])])) > MaxMessageSize

=============================================================================
