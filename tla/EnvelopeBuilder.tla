-------------------------- MODULE EnvelopeBuilder --------------------------
(***************************************************************************)
(* StandardEnvelopeBuilder and its data writer (src/envelope_builder.go),  *)
(* with the bytes.Buffer that holds the body modelled as memory: a         *)
(* sequence of backing arrays, each with a capacity.  Finalize hands out   *)
(* b.data.Bytes(), a view of the current array; Reset keeps the array      *)
(* (bytes.Buffer.Reset retains its storage).                               *)
(*                                                                         *)
(* Every builder method is an action.  Caller says who calls them: "any"   *)
(* allows any order of the interface's calls on one builder, "engine"      *)
(* restricts them to the order the session engine uses (storage.go).       *)
(***************************************************************************)
EXTENDS Naturals, Sequences

CONSTANTS
    Bytes,            \* byte values
    SmallBufferSize,  \* bytes.Buffer's first allocation (64 bytes)
    MaxRecipients,    \* bound on AddRecipient calls per transaction
    MaxWrites,        \* bound on writer Write calls
    MaxWriters,       \* bound on DataWriter calls
    MaxEnvelopes,     \* bound on successful Finalize calls
    MaxTxns,          \* bound on NewStandardEnvelopeBuilder and Reset calls
    Caller            \* "any" or "engine"

ASSUME /\ SmallBufferSize \in Nat \ {0}
       /\ Caller \in {"any", "engine"}

Unset == "_"   \* an array byte nothing has written

VARIABLES
    mem,        \* the backing arrays, each a sequence of Bytes \cup {Unset}
    buf,        \* b.data: [arr |-> 0 (nil) or an index of mem, len |-> Nat]
    mailFrom,   \* b.mailFrom != nil
    rcpts,      \* len(b.recipients)
    dataWriter, \* b.dataWriter: 0 (nil) or an index of writers
    finalized,  \* b.finalized
    writers,    \* every writer handed out: [closed, txn]
    txn,        \* the transaction the builder currently holds (changes on Reset)
    written,    \* bytes written through the writers of the current txn
    envelopes,  \* every envelope Finalize returned: [arr, len, data]
    writes,     \* Write calls so far
    phase       \* the engine's progress through a transaction

vars == <<mem, buf, mailFrom, rcpts, dataWriter, finalized, writers, txn,
          written, envelopes, writes, phase>>

\* A Write argument: one or two bytes.
Chunks == {<<x>> : x \in Bytes} \cup {<<x, y>> : x, y \in Bytes}

\* buf.Bytes(), and the bytes a slice [arr, len] shows in memory m.
View(m, b) == IF b.arr = 0 THEN <<>> ELSE SubSeq(m[b.arr], 1, b.len)

Cap(m, b) == IF b.arr = 0 THEN 0 ELSE Len(m[b.arr])

Pad(n) == [i \in 1..n |-> Unset]

\* bytes.Buffer.Write(p): in place if the array has room (tryGrowByReslice);
\* otherwise a new array of SmallBufferSize for a nil buffer, or of
\* max(len + n, 2 * cap) (growSlice), holding the old bytes then p.
\* Returns <<mem', buf'>>.
BufferWrite(m, b, p) ==
    LET n == Len(p)
        c == Cap(m, b)
    IN  IF b.arr /= 0 /\ b.len + n <= c
        THEN <<[m EXCEPT ![b.arr] =
                   [i \in 1..c |-> IF i > b.len /\ i <= b.len + n
                                   THEN p[i - b.len] ELSE @[i]]],
               [b EXCEPT !.len = b.len + n]>>
        ELSE LET nc == IF b.arr = 0 /\ n <= SmallBufferSize THEN SmallBufferSize
                       ELSE IF b.len + n > 2 * c THEN b.len + n ELSE 2 * c
                 arr == View(m, b) \o p \o Pad(nc - b.len - n)
             IN  <<Append(m, arr), [arr |-> Len(m) + 1, len |-> b.len + n]>>

\* The order of calls storage.go makes on its builder: handleMAIL creates
\* one and calls SetMailFrom, handleRCPT adds recipients, handleDATA opens
\* the writer, writes the whole body once, closes it and finalizes, then
\* drops the builder; resetTransaction (RSET, HELO, EHLO, TLS) calls Reset
\* and drops it.
EngineProtocol ==
    { <<"none", "New", "new">>, <<"new", "SetMailFrom", "env">>,
      <<"env", "AddRecipient", "env">>, <<"new", "Reset", "none">>,
      <<"env", "Reset", "none">>, <<"env", "DataWriter", "open">>,
      <<"open", "Write", "wrote">>, <<"wrote", "Close", "closed">>,
      <<"closed", "Finalize", "none">> }

\* The caller makes call op: any call for "any"; for "engine", one the
\* protocol allows next (DATA needs a recipient: the gate allows it only
\* in RcptTo).
Calls(op) ==
    IF Caller = "any" THEN UNCHANGED phase
    ELSE /\ \E t \in EngineProtocol : t[1] = phase /\ t[2] = op /\ phase' = t[3]
         /\ op = "DataWriter" => rcpts > 0

NewBuilderState ==
    /\ txn < MaxTxns
    /\ mailFrom' = FALSE
    /\ rcpts' = 0
    /\ dataWriter' = 0
    /\ finalized' = FALSE
    /\ txn' = txn + 1
    /\ written' = <<>>

Init ==
    /\ mem = <<>>
    /\ buf = [arr |-> 0, len |-> 0]
    /\ mailFrom = FALSE
    /\ rcpts = 0
    /\ dataWriter = 0
    /\ finalized = FALSE
    /\ writers = <<>>
    /\ txn = 0
    /\ written = <<>>
    /\ envelopes = <<>>
    /\ writes = 0
    /\ phase = IF Caller = "engine" THEN "none" ELSE "new"

\* Variant: a factory that hands out the previous builder after Reset.
NewStandardEnvelopeBuilderReuses ==
    /\ Caller = "engine"
    /\ Calls("New")
    /\ NewBuilderState
    /\ buf' = [buf EXCEPT !.len = 0]
    /\ UNCHANGED <<mem, writers, envelopes, writes>>

\* NewStandardEnvelopeBuilder, in handleMAIL: a builder with a nil buffer.
\* (An "any" caller works on the one builder it was given.)
NewStandardEnvelopeBuilder ==
    /\ Caller = "engine"
    /\ Calls("New")
    /\ NewBuilderState
    /\ buf' = [arr |-> 0, len |-> 0]
    /\ UNCHANGED <<mem, writers, envelopes, writes>>

SetMailFrom ==
    /\ ~finalized
    /\ Calls("SetMailFrom")
    /\ mailFrom' = TRUE
    /\ UNCHANGED <<mem, buf, rcpts, dataWriter, finalized, writers, txn,
                   written, envelopes, writes>>

AddRecipient ==
    /\ ~finalized
    /\ rcpts < MaxRecipients
    /\ Calls("AddRecipient")
    /\ rcpts' = rcpts + 1
    /\ UNCHANGED <<mem, buf, mailFrom, dataWriter, finalized, writers, txn,
                   written, envelopes, writes>>

DataWriter ==
    /\ ~finalized
    /\ dataWriter = 0
    /\ Len(writers) < MaxWriters
    /\ Calls("DataWriter")
    /\ writers' = Append(writers, [closed |-> FALSE, txn |-> txn])
    /\ dataWriter' = Len(writers) + 1
    /\ UNCHANGED <<mem, buf, mailFrom, rcpts, finalized, txn, written,
                   envelopes, writes>>

\* envelopeDataWriter.Write: refuses only once the writer itself is
\* closed; it takes no lock and does not look at the builder.
Write ==
    \E w \in DOMAIN writers, p \in Chunks :
        LET r == BufferWrite(mem, buf, p)
        IN  /\ ~writers[w].closed
            /\ writes < MaxWrites
            /\ Calls("Write")
            /\ mem' = r[1]
            /\ buf' = r[2]
            /\ written' = IF writers[w].txn = txn THEN written \o p ELSE written
            /\ writes' = writes + 1
            /\ UNCHANGED <<mailFrom, rcpts, dataWriter, finalized, writers, txn,
                           envelopes>>

Close ==
    \E w \in DOMAIN writers :
        /\ Calls("Close")
        /\ Caller = "engine" => w = dataWriter
        /\ writers' = [writers EXCEPT ![w].closed = TRUE]
        /\ UNCHANGED <<mem, buf, mailFrom, rcpts, dataWriter, finalized, txn,
                       written, envelopes, writes>>

\* Finalize: the four checks in order, then an envelope whose data is
\* b.data.Bytes().  A refused call changes nothing.
FinalizeOK ==
    /\ ~finalized
    /\ mailFrom
    /\ rcpts > 0
    /\ dataWriter /= 0 => writers[dataWriter].closed

Finalize ==
    /\ Len(envelopes) < MaxEnvelopes
    /\ Calls("Finalize")
    /\ IF FinalizeOK
       THEN /\ finalized' = TRUE
            /\ envelopes' = Append(envelopes, [arr |-> buf.arr, len |-> buf.len,
                                               data |-> written])
       ELSE UNCHANGED <<finalized, envelopes>>
    /\ UNCHANGED <<mem, buf, mailFrom, rcpts, dataWriter, writers, txn,
                   written, writes>>

\* Reset: a fresh transaction on the same buffer, emptied (b.data.Reset()).
Reset ==
    /\ Calls("Reset")
    /\ NewBuilderState
    /\ buf' = [buf EXCEPT !.len = 0]
    /\ UNCHANGED <<mem, writers, envelopes, writes>>

Next ==
    \/ NewStandardEnvelopeBuilder \/ SetMailFrom \/ AddRecipient
    \/ DataWriter \/ Write \/ Close \/ Finalize \/ Reset

Spec == Init /\ [][Next]_vars

-----------------------------------------------------------------------------

\* A finalized envelope is immutable and its data is the bytes written
\* through its transaction's writer (spec 4.4): whatever calls follow,
\* Data() of every envelope Finalize returned still shows exactly those
\* bytes.  At risk from Finalize returning b.data.Bytes(), a view of an
\* array that Reset keeps and later writes reuse, and from writers that
\* outlive a Reset.
EnvelopeDataIntact ==
    \A i \in DOMAIN envelopes : View(mem, envelopes[i]) = envelopes[i].data


\* Spec 4.4 and the EnvelopeBuilder interface (storage.go): an envelope is
\* immutable once Finalize has returned it, so no later call on the
\* builder or on any writer changes Data() of an envelope already handed
\* out.  At risk from Finalize returning b.data.Bytes(), a view of the
\* builder's array, which Reset keeps for the next transaction's writes.
EnvelopeDataImmutable ==
    [][\A i \in DOMAIN envelopes : View(mem', envelopes[i]) = View(mem, envelopes[i])]_vars

=============================================================================
