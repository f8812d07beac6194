---------------------------- MODULE LegacyEngine ----------------------------
(***************************************************************************)
(* One SMTP session of the Engine in src/engine.go: the plain-reader       *)
(* variant of the session engine, with the same command gate and state    *)
(* machine as the deadline-aware one in src/storage.go but:               *)
(*   - reads have no deadline: only the peer going away ends a read;      *)
(*   - a failure while reading DATA aborts the machine and the session;   *)
(*   - STARTTLS enters StartTLS and replies 220, and nothing upgrades;    *)
(*   - Close() sets e.closed and aborts the machine, and does not close   *)
(*     the connection.                                                    *)
(*                                                                         *)
(* pc is the point of the session goroutine: "start", "loop", "read",     *)
(* "data" (ctx check of readData), "dataRead", "commit", "done".          *)
(* e.state.TLSActive is never set in this engine and is left out.         *)
(***************************************************************************)
EXTENDS Naturals, Sequences, StateMachine

CONSTANTS
    ConnKind,          \* "net" (NetConn) or "pipe" (PipeConn)
    TLSPolicy,         \* "Disabled", "Optional" or "Required"
    HasTLSProvider,    \* config.TLSProvider != nil
    Extensions,        \* enabled ExtensionSet flags
    MaxErrors,         \* Limits.MaxErrors (0 = unlimited)
    MaxRecipients,     \* Limits.MaxRecipients (0 = unlimited)
    MaxTransactions,   \* Limits.MaxTransactions (0 = unlimited)
    MaxMessageSize,    \* Limits.MaxMessageSize in size units
    MaxLineLength,     \* Limits.MaxLineLength in size units (0 = unlimited)
    SenderMayReject,   \* a SenderPolicy that can refuse a sender
    MailboxMayReject,  \* a Mailbox that can refuse a recipient
    HookVetoes,        \* an OnCommand hook that can veto a command
    StoreMayFail,      \* Storage.Store can fail
    BodyLines,         \* body lines the client may send: [len, dot]
    ErrCap             \* model bound on ConsecutiveErrors

ASSUME /\ ConnKind \in {"net", "pipe"}
       /\ TLSPolicy \in {"Disabled", "Optional", "Required"}
       /\ MaxMessageSize \in Nat \ {0}
       /\ {MaxErrors, MaxRecipients, MaxTransactions, MaxLineLength, ErrCap}
            \subseteq Nat

VARIABLES
    pc,          \* program point of the session goroutine
    sm,          \* e.sm.state
    st,          \* e.state.State
    env,         \* e.envelope: <<>> for nil, else <<recipient count>>
    buf,         \* readData's buffer length
    errs,        \* e.state.ConsecutiveErrors
    tx,          \* e.stats.TransactionCount
    stored,      \* envelopes Storage.Store accepted: [rcpts, size]
    reply,       \* code of the last response written (0: Response{})
    conn,        \* "open", or "eof" once the peer has gone
    cancelled,   \* the context passed to Run is done
    closeCalled, \* Close() has been called
    closed,      \* e.closed
    hooks,       \* OnDisconnect calls
    reason       \* reason passed to OnDisconnect

vars == <<pc, sm, st, env, buf, errs, tx, stored, reply, conn, cancelled,
          closeCalled, closed, hooks, reason>>
txVars == <<st, env, buf, tx, stored>>
exitVars == <<closed, hooks, reason>>
envVars == <<cancelled, closeCalled>>

-----------------------------------------------------------------------------
(* Helpers                                                                 *)

IsPositive(code) == code >= 200 /\ code < 400

\* Variant of ErrorLimitReached with ">" for ">=".
ErrorLimitReachedLate(count) == MaxErrors > 0 /\ count > MaxErrors

\* checkErrorLimit (StandardLimitChecker.CheckErrorCount).
ErrorLimitReached(count) == MaxErrors > 0 /\ count >= MaxErrors

\* Variant of TransactionLimitReached with ">" for ">=".
TransactionLimitReachedLate == MaxTransactions > 0 /\ tx > MaxTransactions

TransactionLimitReached == MaxTransactions > 0 /\ tx >= MaxTransactions

RecipientLimitReached == MaxRecipients > 0 /\ Head(env) >= MaxRecipients

\* Variant of IOErrorKind in which isIOError misses io.EOF.
IOErrorKindNoEOF(err) == IF err = "closedPipe" THEN "io" ELSE "other"

\* isIOError: io.EOF, io.ErrUnexpectedEOF and io.ErrClosedPipe.  A read
\* after the peer has gone gives io.EOF; a write gives io.ErrClosedPipe on
\* a PipeConn and a syscall error on a NetConn.
IOErrorKind(err) == IF err \in {"eof", "closedPipe"} THEN "io" ELSE "other"

WriteErr == IF ConnKind = "pipe" THEN "closedPipe" ELSE "syscall"

\* Variant of LineRejected without the running total check.
LineRejectedNoTotal(l) == MaxLineLength > 0 /\ l.len > MaxLineLength

\* readData's line-length and total-size checks on the raw line.
LineRejected(l) ==
    \/ MaxLineLength > 0 /\ l.len > MaxLineLength
    \/ buf + l.len > MaxMessageSize

UnstuffedLength(l) == IF l.dot THEN l.len - 1 ELSE l.len

\* handleDisconnect: the hook fires only while e.closed is still false.
Disconnect(r) ==
    /\ pc' = "done"
    /\ IF closed THEN UNCHANGED exitVars
       ELSE closed' = TRUE /\ hooks' = hooks + 1 /\ reason' = r

\* Run after processOneCommand returned err, with the machine in s.
RunOnError(err, s) ==
    CASE IsTerminal(s)             -> Disconnect("Normal")
      [] IOErrorKind(err) = "io"   -> Disconnect("Error")
      [] OTHER                     -> pc' = "loop" /\ UNCHANGED exitVars

\* processOneCommand writes the handler's response; a failed write goes
\* to Run, a positive reply clears the error count.
Respond(code, s) ==
    /\ reply' = code
    /\ \/ /\ conn = "open"
          /\ errs' = IF IsPositive(code) THEN 0 ELSE errs
          /\ pc' = "loop"
          /\ UNCHANGED <<conn, exitVars>>
       \/ /\ conn' = "eof"
          /\ UNCHANGED errs
          /\ RunOnError(WriteErr, s)

Reject(code) == Respond(code, sm) /\ UNCHANGED <<sm, txVars, envVars>>

Command(verb) == pc = "read" /\ conn = "open" /\ IsCommandAllowed(sm, verb)

-----------------------------------------------------------------------------
(* Run                                                                     *)

Init ==
    /\ pc = "start"
    /\ sm = "Disconnected" /\ st = "Disconnected"
    /\ env = <<>> /\ buf = 0 /\ errs = 0 /\ tx = 0 /\ stored = <<>>
    /\ reply = 0 /\ conn = "open"
    /\ cancelled = FALSE /\ closeCalled = FALSE
    /\ closed = FALSE /\ hooks = 0 /\ reason = "none"

\* sm.Connect, the 220 greeting, sm.Greet, taken as one step.  A failed
\* greeting write disconnects with reason Error.
Start ==
    /\ pc = "start"
    /\ reply' = 220
    /\ UNCHANGED <<env, buf, errs, tx, stored, envVars>>
    /\ \/ /\ conn = "open"
          /\ sm' = "Greeted"
          /\ st' = "Greeted"
          /\ pc' = "loop"
          /\ UNCHANGED <<conn, exitVars>>
       \/ /\ conn' = "eof"
          /\ sm' = "Connected"
          /\ UNCHANGED st
          /\ Disconnect("Error")

LoopCancelled ==
    /\ pc = "loop"
    /\ cancelled
    /\ Disconnect("Timeout")
    /\ UNCHANGED <<sm, txVars, errs, reply, conn, envVars>>

LoopTerminal ==
    /\ pc = "loop"
    /\ ~cancelled
    /\ IsTerminal(sm)
    /\ Disconnect("Normal")
    /\ UNCHANGED <<sm, txVars, errs, reply, conn, envVars>>

ReadCommand ==
    /\ pc = "loop"
    /\ ~cancelled
    /\ ~IsTerminal(sm)
    /\ pc' = "read"
    /\ UNCHANGED <<sm, txVars, errs, reply, conn, envVars, exitVars>>

\* readLine: ReadBytes with no deadline fails only once the peer is gone.
ReadFails ==
    /\ pc = "read"
    /\ conn = "eof"
    /\ RunOnError("eof", sm)
    /\ UNCHANGED <<sm, txVars, errs, reply, conn, envVars>>

ParseError ==
    /\ pc = "read"
    /\ conn = "open"
    /\ errs < ErrCap
    /\ errs' = errs + 1
    /\ IF ErrorLimitReached(errs + 1)
       THEN reply' = 421 /\ sm' = Abort(sm)
       ELSE reply' = 500 /\ UNCHANGED sm
    /\ RunOnError("protocol", sm')
    /\ UNCHANGED <<txVars, conn, envVars>>

HookVeto ==
    /\ HookVetoes
    /\ pc = "read"
    /\ conn = "open"
    /\ reply' = 554
    /\ RunOnError("hook", sm)
    /\ UNCHANGED <<sm, txVars, errs, conn, envVars>>

\* A verb the gate refuses: count the error, reply 503, no budget check.
BadSequence ==
    /\ pc = "read"
    /\ conn = "open"
    /\ \E verb \in Verbs : ~IsCommandAllowed(sm, verb)
    /\ errs < ErrCap
    /\ errs' = errs + 1
    /\ reply' = 503
    /\ pc' = "loop"
    /\ UNCHANGED <<sm, txVars, conn, envVars, exitVars>>

-----------------------------------------------------------------------------
(* The command handlers, each followed by processOneCommand's write        *)

\* handleHELO / handleEHLO: 501 for a bad hostname; otherwise Identified
\* and resetTransaction.
HandleHELO ==
    \E verb \in {"HELO", "EHLO"}, hostOK \in BOOLEAN :
        /\ Command(verb)
        /\ IF hostOK
           THEN /\ sm' = TransitionForCommand(sm, verb)
                /\ st' = "Identified"
                /\ env' = <<>>
                /\ Respond(250, sm')
                /\ UNCHANGED <<buf, tx, stored, envVars>>
           ELSE Reject(501)

\* handleMAIL: TLS requirement (TLSActive is always false here),
\* transaction limit, path, SIZE, sender policy, then a new builder.
HandleMAIL ==
    \E pathOK \in BOOLEAN, sizeOK \in BOOLEAN,
       senderOK \in IF SenderMayReject THEN BOOLEAN ELSE {TRUE} :
        /\ Command("MAIL")
        /\ CASE TLSPolicy = "Required"             -> Reject(530)
             [] TransactionLimitReached            -> Reject(421)
             [] ~pathOK                            -> Reject(501)
             [] "SIZE" \in Extensions /\ ~sizeOK   -> Reject(552)
             [] ~senderOK                          -> Reject(550)
             [] OTHER ->
                  /\ env' = <<0>>
                  /\ sm' = TransitionForCommand(sm, "MAIL")
                  /\ st' = "MailFrom"
                  /\ Respond(250, sm')
                  /\ UNCHANGED <<buf, tx, stored, envVars>>

HandleRCPT ==
    \E pathOK \in BOOLEAN,
       accepted \in IF MailboxMayReject THEN BOOLEAN ELSE {TRUE} :
        /\ Command("RCPT")
        /\ CASE ~pathOK               -> Reject(501)
             [] RecipientLimitReached -> Reject(452)
             [] ~accepted             -> Reject(550)
             [] OTHER ->
                  /\ env' = <<Head(env) + 1>>
                  /\ sm' = TransitionForCommand(sm, "RCPT")
                  /\ st' = "RcptTo"
                  /\ Respond(250, sm')
                  /\ UNCHANGED <<buf, tx, stored, envVars>>

\* handleDATA up to readData.  If the 354 cannot be written the machine is
\* aborted and processOneCommand writes Response{}; Run then finds the
\* machine terminal.
HandleDATA ==
    /\ Command("DATA")
    /\ st' = "Data"
    /\ buf' = 0
    /\ UNCHANGED <<env, tx, stored, envVars>>
    /\ \/ /\ conn = "open"
          /\ sm' = TransitionForCommand(sm, "DATA")
          /\ reply' = 354
          /\ pc' = "data"
          /\ UNCHANGED <<errs, conn, exitVars>>
       \/ /\ sm' = Abort(TransitionForCommand(sm, "DATA"))
          /\ conn' = "eof"
          /\ reply' = 0
          /\ RunOnError(WriteErr, sm')
          /\ UNCHANGED errs

\* handleRSET: resetTransaction, sm.Reset, and the reported state.
HandleRSET ==
    /\ Command("RSET")
    /\ env' = <<>>
    /\ sm' = Reset(sm)
    /\ st' = IF sm' \in {"Greeted", "Identified"} THEN sm' ELSE "Identified"
    /\ Respond(250, sm')
    /\ UNCHANGED <<buf, tx, stored, envVars>>

HandleQUIT ==
    /\ Command("QUIT")
    /\ sm' = Terminate(TransitionForCommand(sm, "QUIT"))
    /\ Respond(221, sm')
    /\ UNCHANGED <<txVars, envVars>>

\* handleNOOP, handleVRFY, handleHELP, and the default branch for EXPN and
\* AUTH, which handleCommand has no case for.
HandleInfo ==
    \E verb \in {"NOOP", "VRFY", "HELP", "EXPN", "AUTH"} :
        /\ Command(verb)
        /\ Reject(CASE verb = "NOOP" -> 250
                    [] verb \in {"VRFY", "HELP"} /\ verb \in Extensions ->
                           IF verb = "VRFY" THEN 252 ELSE 214
                    [] OTHER -> 502)

\* handleSTARTTLS: 502 when disabled, 454 without a provider (the "TLS
\* already active" branch cannot be taken), else StartTLS and 220.  Run
\* performs no handshake; AllowedCommands(StartTLS) is empty.
HandleSTARTTLS ==
    /\ Command("STARTTLS")
    /\ CASE TLSPolicy = "Disabled" -> Reject(502)
         [] ~HasTLSProvider        -> Reject(454)
         [] OTHER ->
              /\ sm' = TransitionForCommand(sm, "STARTTLS")
              /\ st' = "StartTLS"
              /\ Respond(220, sm')
              /\ UNCHANGED <<env, buf, tx, stored, envVars>>

-----------------------------------------------------------------------------
(* readData and the rest of handleDATA                                     *)

\* A readData error: sm.Abort and 451.  The envelope and e.state.State are
\* left as they are; Run ends the session at the top of the loop.
DataAborted ==
    /\ sm' = Abort(sm)
    /\ Respond(451, sm')
    /\ UNCHANGED <<txVars, envVars>>

DataCancelled ==
    /\ pc = "data"
    /\ cancelled
    /\ DataAborted

DataContinue ==
    /\ pc = "data"
    /\ ~cancelled
    /\ pc' = "dataRead"
    /\ UNCHANGED <<sm, txVars, errs, reply, conn, envVars, exitVars>>

DataReadFails ==
    /\ pc = "dataRead"
    /\ conn = "eof"
    /\ DataAborted

DataLine ==
    \E l \in BodyLines :
        /\ pc = "dataRead"
        /\ conn = "open"
        /\ \/ /\ LineRejected(l)
              /\ DataAborted
           \/ /\ ~LineRejected(l)
              /\ buf' = buf + UnstuffedLength(l)
              /\ pc' = "data"
              /\ UNCHANGED <<sm, st, env, tx, stored, errs, reply, conn,
                             envVars, exitVars>>

DataTerminator ==
    /\ pc = "dataRead"
    /\ conn = "open"
    /\ pc' = "commit"
    /\ UNCHANGED <<sm, txVars, errs, reply, conn, envVars, exitVars>>

\* After readData: the size re-check cannot fail (readData's running check
\* is stricter) and a fresh builder's DataWriter and Finalize cannot fail,
\* so Storage.Store decides.  On failure sm.Reset() from Data changes
\* nothing, e.state.State becomes Identified and e.envelope is kept.
\* Variant of StoreFails that acknowledges the lost message with 250.
StoreFailsAcknowledged ==
    /\ pc = "commit"
    /\ StoreMayFail
    /\ sm' = Reset(sm)
    /\ st' = "Identified"
    /\ Respond(250, sm')
    /\ UNCHANGED <<env, buf, tx, stored, envVars>>

StoreFails ==
    /\ pc = "commit"
    /\ StoreMayFail
    /\ sm' = Reset(sm)
    /\ st' = "Identified"
    /\ Respond(451, sm')
    /\ UNCHANGED <<env, buf, tx, stored, envVars>>

StoreSucceeds ==
    /\ pc = "commit"
    /\ tx' = tx + 1
    /\ stored' = Append(stored, [rcpts |-> Head(env), size |-> buf])
    /\ sm' = Reset(DataComplete(sm))
    /\ st' = "Identified"
    /\ env' = <<>>
    /\ buf' = 0
    /\ Respond(250, sm')
    /\ UNCHANGED envVars

-----------------------------------------------------------------------------
(* Outside the session goroutine                                           *)

\* Engine.Close: e.closed under the lock, then sm.Abort.  The connection
\* stays open, so a session blocked in ReadBytes stays blocked.
Close ==
    /\ ~closeCalled
    /\ closeCalled' = TRUE
    /\ closed' = TRUE
    /\ sm' = Abort(sm)
    /\ UNCHANGED <<pc, txVars, errs, reply, conn, cancelled, hooks, reason>>

Cancel ==
    /\ ~cancelled
    /\ cancelled' = TRUE
    /\ UNCHANGED <<pc, sm, txVars, errs, reply, conn, closeCalled, exitVars>>

PeerCloses ==
    /\ conn = "open"
    /\ conn' = "eof"
    /\ UNCHANGED <<pc, sm, txVars, errs, reply, envVars, exitVars>>

-----------------------------------------------------------------------------

SessionStep ==
    \/ Start \/ LoopCancelled \/ LoopTerminal \/ ReadCommand \/ ReadFails
    \/ DataCancelled \/ DataContinue \/ DataReadFails
    \/ StoreFails \/ StoreSucceeds

ClientStep ==
    \/ ParseError \/ HookVeto \/ BadSequence
    \/ HandleHELO \/ HandleMAIL \/ HandleRCPT \/ HandleDATA \/ HandleRSET
    \/ HandleQUIT \/ HandleInfo \/ HandleSTARTTLS
    \/ DataLine \/ DataTerminator

Next == SessionStep \/ ClientStep \/ Close \/ Cancel \/ PeerCloses

\* The session goroutine's own steps need nothing from outside (a read
\* waits for the client or its going away, and those are ClientStep and
\* PeerCloses), so it gets weak fairness; the client, Close and
\* cancellation get none.
Spec == Init /\ [][Next]_vars /\ WF_vars(SessionStep)

-----------------------------------------------------------------------------
(* Properties                                                              *)

TypeOK ==
    /\ pc \in {"start", "loop", "read", "data", "dataRead", "commit", "done"}
    /\ sm \in States /\ st \in States
    /\ env = <<>> \/ (Len(env) = 1 /\ env[1] \in Nat)
    /\ buf \in 0..MaxMessageSize
    /\ errs \in 0..ErrCap /\ tx \in Nat
    /\ stored \in Seq([rcpts : Nat, size : 0..MaxMessageSize])
    /\ conn \in {"open", "eof"}
    /\ {cancelled, closeCalled, closed} \subseteq BOOLEAN
    /\ hooks \in 0..1

\* A syntax error gets 500 only while the error budget lasts; the one
\* that spends it gets 421 and aborts (processOneCommand's
\* checkErrorLimit).
ErrorBudgetEnforced ==
    reply = 500 /\ MaxErrors > 0 => errs < MaxErrors

\* The 250 that ends DATA is sent only for a message Storage.Store took in
\* the same step, though a failed Store leaves the machine in Data.
AcceptedMeansStored ==
    [][pc = "commit" /\ reply' = 250 => Len(stored') = Len(stored) + 1]_vars

\* Once the peer has gone, the session eventually returns from Run: every
\* read and every write then fails, and io.EOF is an I/O error to Run.
PeerLossEndsSession == conn = "eof" ~> pc = "done"

\* The same transaction promise as the other engine: the open transaction
\* is e.envelope, the delivered messages are what Storage.Store took, and
\* the session has ended when Run has returned.
MT == INSTANCE MailTransaction
        WITH txn <- env,
             delivered <- stored,
             ended <- pc = "done"

ImplementsMailTransaction == MT!Spec

=============================================================================
