------------------------------- MODULE Engine -------------------------------
(***************************************************************************)
(* One SMTP session of the deadline-aware Engine (src/storage.go): the     *)
(* Run loop, processOneCommand, every command handler, the DATA stream,    *)
(* the STARTTLS upgrade and handleDisconnect, together with what can       *)
(* happen to the session from outside: Close() called from another         *)
(* goroutine, cancellation of the context and the peer going away.         *)
(*                                                                         *)
(* pc is the point of the session goroutine:                               *)
(*   "start"    Run has not begun                                          *)
(*   "loop"     top of the command loop (ctx, terminal and StartTLS checks)*)
(*   "read"     blocked in readLine                                        *)
(*   "data"     top of an iteration of readData (the ctx check)            *)
(*   "dataRead" blocked reading a body line                                *)
(*   "commit"   readData returned; writer, finalize and Storage.Store      *)
(*   "done"     Run has returned                                           *)
(* The client is the choice of the line it sends; it has no fairness.     *)
(***************************************************************************)
EXTENDS Naturals, Sequences, StateMachine

CONSTANTS
    ConnKind,          \* "net" (NetConn) or "pipe" (PipeConn)
    TLSPolicies,       \* the config.TLSPolicy values a session may run under
    HasTLSProvider,    \* config.TLSProvider != nil
    Extensions,        \* enabled ExtensionSet flags, e.g. {"STARTTLS","VRFY"}
    MaxErrors,         \* Limits.MaxErrors (0 = unlimited)
    MaxRecipients,     \* Limits.MaxRecipients (0 = unlimited)
    MaxTransactions,   \* Limits.MaxTransactions (0 = unlimited)
    MaxMessageSize,    \* Limits.MaxMessageSize in size units
    MaxLineLength,     \* Limits.MaxLineLength in size units (0 = unlimited)
    ReadDeadline,      \* CommandTimeout > 0 or IdleTimeout > 0
    SenderMayReject,   \* a SenderPolicy that can refuse a sender
    MailboxMayReject,  \* a Mailbox that can refuse a recipient
    HookVetoes,        \* an OnCommand hook that can veto a command
    CommitMayFail,     \* DataWriter, Finalize or Storage.Store can fail
    BodyLines,         \* body lines the client may send: [len, dot]
    ErrCap             \* model bound on ConsecutiveErrors

ASSUME /\ ConnKind \in {"net", "pipe"}
       /\ TLSPolicies \subseteq {"Disabled", "Optional", "Required"}
       /\ MaxMessageSize \in Nat \ {0}
       /\ {MaxErrors, MaxRecipients, MaxTransactions, MaxLineLength, ErrCap}
            \subseteq Nat
       /\ \A l \in BodyLines : l.len \in Nat \ {0} /\ l.dot \in BOOLEAN

VARIABLES
    pc,          \* program point of the session goroutine
    sm,          \* e.sm.state
    st,          \* e.state.State, the state SessionInfo.State() reports
    helo,        \* e.state.ClientHostname: "none", or given without/with TLS
    tls,         \* e.state.TLSActive
    env,         \* e.envelope: <<>> for nil, else <<builder contents>>
    buf,         \* bytes unstuffed so far by readData
    errs,        \* e.state.ConsecutiveErrors
    tx,          \* e.stats.TransactionCount
    stored,      \* envelopes handed to Storage.Store successfully
    reply,       \* code of the last response written (0: Response{})
    conn,        \* "open", "eof" (peer gone) or "closed" (conn.Close())
    cancelled,   \* the context passed to Run is done
    closeCalled, \* Close() has been called
    closed,      \* e.closed
    hooks,       \* number of OnDisconnect calls
    reason,      \* reason passed to OnDisconnect
    policy,      \* config.TLSPolicy, fixed for the session
    pipelined,   \* a plaintext line sent behind STARTTLS waits in the
                 \* bufio.Reader of e.conn
    lineFrom     \* where readLine takes its line: "conn" or "buffer"

vars == <<pc, sm, st, helo, tls, env, buf, errs, tx, stored, reply, conn,
          cancelled, closeCalled, closed, hooks, reason, policy, pipelined,
          lineFrom>>
sessionVars == <<sm, st, helo, tls, env, buf, tx, stored>>
exitVars == <<closed, hooks, reason>>
envVars == <<cancelled, closeCalled, policy, pipelined, lineFrom>>

Helos == {"none", "plain", "tls"}
Envelope == [rcpts : Nat, tls : BOOLEAN, helo : Helos]
Codes == {0, 214, 220, 221, 250, 252, 354, 421, 451, 452, 454, 500, 501,
          502, 503, 530, 550, 552, 554}
Reasons == {"none", "Normal", "Timeout", "Error", "TLSFailure"}

-----------------------------------------------------------------------------
(* Helpers                                                                 *)

\* ReplyCode.IsPositive: 2xx and 3xx.
IsPositive(code) == code >= 200 /\ code < 400

\* Variant of ErrorLimitReached with ">" for ">=": the budget is spent one
\* error late.
ErrorLimitReachedLate(count) == MaxErrors > 0 /\ count > MaxErrors

\* StandardLimitChecker.CheckErrorCount: TRUE when the budget is spent.
ErrorLimitReached(count) == MaxErrors > 0 /\ count >= MaxErrors

\* Variant of TLSRequiredButInactive that never refuses.
TLSRequiredButInactiveNever == FALSE

\* handleMAIL's first check: TLS required and not yet active.
TLSRequiredButInactive == policy = "Required" /\ ~tls

\* Variant of TransactionLimitReached with ">" for ">=".
TransactionLimitReachedLate ==
    MaxTransactions > 0 /\ tx > MaxTransactions

\* handleMAIL's transaction limit on stats.TransactionCount.
TransactionLimitReached ==
    MaxTransactions > 0 /\ tx >= MaxTransactions

\* Variant of RecipientLimitReached with ">" for ">=".
RecipientLimitReachedLate(e) == MaxRecipients > 0 /\ e.rcpts > MaxRecipients

\* handleRCPT's limit on the builder's recipient count.
RecipientLimitReached(e) == MaxRecipients > 0 /\ e.rcpts >= MaxRecipients

\* The hostname as recorded: given before or after the TLS upgrade.
HeloTag == IF tls THEN "tls" ELSE "plain"

\* Variant of ReadErrKind whose isIOError no longer accepts io.EOF.
ReadErrKindNoEOF == IF ConnKind = "pipe" THEN "io" ELSE "other"

\* isIOError accepts io.EOF and io.ErrClosedPipe; a closed NetConn reports
\* net.ErrClosed, which is neither an I/O nor a timeout error to Run.
ReadErrKind == IF conn = "eof" \/ ConnKind = "pipe" THEN "io" ELSE "other"
WriteErrKind == IF ConnKind = "pipe" THEN "io" ELSE "other"

\* Variant of UnstuffedLength that drops a stuffed line altogether.
UnstuffedLengthDropsStuffed(l) == IF l.dot THEN 0 ELSE l.len

\* DataLineReader.UnstuffLine drops the leading dot of a stuffed line.
UnstuffedLength(l) == IF l.dot THEN l.len - 1 ELSE l.len

\* Variant of LineRejected without the running total check.
LineRejectedNoTotal(l) == MaxLineLength > 0 /\ l.len > MaxLineLength

\* readData: the line-length check and the running total check, both on
\* the line as received, before unstuffing.
LineRejected(l) ==
    \/ MaxLineLength > 0 /\ l.len > MaxLineLength
    \/ buf + l.len > MaxMessageSize

\* handleDisconnect: only the first call (closed still false) fires the
\* OnDisconnect hook; Run returns either way.
Disconnect(r) ==
    /\ pc' = "done"
    /\ IF closed THEN UNCHANGED exitVars
       ELSE /\ closed' = TRUE
            /\ hooks' = hooks + 1
            /\ reason' = r

\* Run's handling of an error returned by processOneCommand, given the
\* state machine s after the command.
RunOnError(kind, s) ==
    CASE IsTerminal(s)     -> Disconnect("Normal")
      [] kind = "timeout"  -> Disconnect("Timeout")
      [] kind = "io"       -> Disconnect("Error")
      [] OTHER             -> pc' = "loop" /\ UNCHANGED exitVars

\* processOneCommand after the handler: write the response; a failed write
\* (the peer has gone away, or Close() has run) is returned to Run;
\* a positive reply clears the consecutive error count.
Respond(code, s) ==
    /\ reply' = code
    /\ \/ /\ conn /= "closed"
          /\ errs' = IF IsPositive(code) THEN 0 ELSE errs
          /\ pc' = "loop"
          /\ UNCHANGED <<conn, exitVars>>
       \/ /\ conn' = IF conn = "closed" THEN "closed" ELSE "eof"
          /\ UNCHANGED errs
          /\ RunOnError(WriteErrKind, s)

\* A handler that returns a reply without touching the session.
Reject(code) == Respond(code, sm) /\ UNCHANGED <<sessionVars, envVars>>

\* processOneCommand: a line carrying verb arrived, parsed, passed the
\* OnCommand hook and is allowed in the current state.
Command(verb) == pc = "read" /\ conn = "open" /\ IsCommandAllowed(sm, verb)

-----------------------------------------------------------------------------
(* Run: connect, greet, and the top of the command loop                    *)

Init ==
    /\ pc = "start"
    /\ sm = "Disconnected"
    /\ st = "Disconnected"
    /\ helo = "none"
    /\ tls = FALSE
    /\ env = <<>>
    /\ buf = 0
    /\ errs = 0
    /\ tx = 0
    /\ stored = <<>>
    /\ reply = 0
    /\ conn = "open"
    /\ cancelled = FALSE
    /\ closeCalled = FALSE
    /\ closed = FALSE
    /\ hooks = 0
    /\ reason = "none"
    /\ policy \in TLSPolicies
    /\ pipelined = FALSE
    /\ lineFrom = "conn"

\* sm.Connect, OnConnect, the 220 greeting, sm.Greet.  A failed greeting
\* write disconnects with reason Error.
Start ==
    /\ pc = "start"
    /\ reply' = 220
    /\ UNCHANGED <<helo, tls, env, buf, errs, tx, stored, envVars>>
    /\ \/ /\ conn /= "closed"
          /\ sm' = "Greeted"
          /\ st' = "Greeted"
          /\ pc' = "loop"
          /\ UNCHANGED <<conn, exitVars>>
       \/ /\ sm' = "Connected"
          /\ conn' = IF conn = "closed" THEN "closed" ELSE "eof"
          /\ UNCHANGED st
          /\ Disconnect("Error")

LoopCancelled ==
    /\ pc = "loop"
    /\ cancelled
    /\ Disconnect("Timeout")
    /\ UNCHANGED <<sessionVars, errs, reply, conn, envVars>>

LoopTerminal ==
    /\ pc = "loop"
    /\ ~cancelled
    /\ IsTerminal(sm)
    /\ Disconnect("Normal")
    /\ UNCHANGED <<sessionVars, errs, reply, conn, envVars>>

\* Variant of TLSUpgradeSucceeds that keeps the old bufio.Reader.
TLSUpgradeSucceedsKeepsReader ==
    /\ pc = "loop"
    /\ ~cancelled
    /\ ~IsTerminal(sm)
    /\ st = "StartTLS"
    /\ conn = "open"
    /\ tls' = TRUE
    /\ sm' = TLSComplete(sm)
    /\ st' = "Greeted"
    /\ env' = <<>>
    /\ helo' = "none"
    /\ UNCHANGED <<pipelined, pc, buf, tx, stored, errs, reply, conn,
                   cancelled, closeCalled, policy, lineFrom, exitVars>>

\* performTLSUpgrade after a successful handshake: TLS on, ResetReader
\* (a new bufio.Reader; what the old one held is dropped), sm.TLSComplete,
\* back to Greeted with no transaction and no hostname.
TLSUpgradeSucceeds ==
    /\ pc = "loop"
    /\ ~cancelled
    /\ ~IsTerminal(sm)
    /\ st = "StartTLS"
    /\ conn = "open"
    /\ tls' = TRUE
    /\ sm' = TLSComplete(sm)
    /\ st' = "Greeted"
    /\ env' = <<>>
    /\ helo' = "none"
    /\ pipelined' = FALSE
    /\ UNCHANGED <<pc, buf, tx, stored, errs, reply, conn, cancelled,
                   closeCalled, policy, lineFrom, exitVars>>

\* GetConfig fails, or the handshake fails or hits its deadline.
TLSUpgradeFails ==
    /\ pc = "loop"
    /\ ~cancelled
    /\ ~IsTerminal(sm)
    /\ st = "StartTLS"
    /\ Disconnect("TLSFailure")
    /\ UNCHANGED <<sessionVars, errs, reply, conn, envVars>>

\* Variant of ReadCommand that enters readLine without the ctx check.
ReadCommandUnguarded ==
    /\ pc = "loop"
    /\ ~IsTerminal(sm)
    /\ st /= "StartTLS"
    /\ pc' = "read"
    /\ lineFrom' = IF pipelined THEN "buffer" ELSE "conn"
    /\ pipelined' = FALSE
    /\ UNCHANGED <<sessionVars, errs, reply, conn, cancelled, closeCalled,
                   policy, exitVars>>

\* The ctx, terminal and StartTLS checks passed: readLine, whose
\* ReadBytes returns a line already buffered before reading the
\* connection.
ReadCommand ==
    /\ pc = "loop"
    /\ ~cancelled
    /\ ~IsTerminal(sm)
    /\ st /= "StartTLS"
    /\ pc' = "read"
    /\ lineFrom' = IF pipelined THEN "buffer" ELSE "conn"
    /\ pipelined' = FALSE
    /\ UNCHANGED <<sessionVars, errs, reply, conn, cancelled, closeCalled,
                   policy, exitVars>>

-----------------------------------------------------------------------------
(* processOneCommand: the outcomes of readLine and ParseCommand            *)

ReadFails ==
    /\ pc = "read"
    /\ lineFrom = "conn"
    /\ conn /= "open"
    /\ RunOnError(ReadErrKind, sm)
    /\ UNCHANGED <<sessionVars, errs, reply, conn, envVars>>

ReadTimesOut ==
    /\ pc = "read"
    /\ lineFrom = "conn"
    /\ conn = "open"
    /\ ReadDeadline
    /\ RunOnError("timeout", sm)
    /\ UNCHANGED <<sessionVars, errs, reply, conn, envVars>>

\* A line that does not parse: count the error; at the budget reply 421
\* and abort, otherwise reply 500.  Write errors are ignored here.
ParseError ==
    /\ pc = "read"
    /\ conn = "open"
    /\ errs < ErrCap
    /\ errs' = errs + 1
    /\ IF ErrorLimitReached(errs + 1)
       THEN /\ reply' = 421
            /\ sm' = Abort(sm)
       ELSE /\ reply' = 500
            /\ UNCHANGED sm
    /\ RunOnError("other", sm')
    /\ UNCHANGED <<st, helo, tls, env, buf, tx, stored, conn, envVars>>

\* The OnCommand hook returns an error: 554 and the error goes to Run.
HookVeto ==
    /\ HookVetoes
    /\ pc = "read"
    /\ conn = "open"
    /\ reply' = 554
    /\ RunOnError("other", sm)
    /\ UNCHANGED <<sessionVars, errs, conn, envVars>>

\* A verb the current state does not allow: count the error, reply 503.
\* The error budget is not checked on this path.
BadSequence ==
    /\ pc = "read"
    /\ conn = "open"
    /\ \E verb \in Verbs : ~IsCommandAllowed(sm, verb)
    /\ errs < ErrCap
    /\ errs' = errs + 1
    /\ reply' = 503
    /\ pc' = "loop"
    /\ UNCHANGED <<sessionVars, conn, envVars, exitVars>>

-----------------------------------------------------------------------------
(* The command handlers.  Each is the whole handler followed by            *)
(* processOneCommand writing its response.                                 *)

\* handleHELO / handleEHLO: a bad hostname gets 501; otherwise record the
\* hostname, move to Identified and drop any transaction.
HandleHELO ==
    \E verb \in {"HELO", "EHLO"}, hostOK \in BOOLEAN :
        /\ Command(verb)
        /\ IF hostOK
           THEN /\ helo' = HeloTag
                /\ sm' = TransitionForCommand(sm, verb)
                /\ st' = "Identified"
                /\ env' = <<>>
                /\ Respond(250, sm')
                /\ UNCHANGED <<tls, buf, tx, stored, envVars>>
           ELSE Reject(501)

\* handleMAIL: the checks in the order of the code, then a new envelope
\* builder carrying the session's TLS flag and hostname.
HandleMAIL ==
    \E pathOK \in BOOLEAN, sizeOK \in BOOLEAN,
       senderOK \in IF SenderMayReject THEN BOOLEAN ELSE {TRUE} :
        /\ Command("MAIL")
        /\ CASE TLSRequiredButInactive           -> Reject(530)
             [] TransactionLimitReached           -> Reject(421)
             [] ~pathOK                           -> Reject(501)
             [] "SIZE" \in Extensions /\ ~sizeOK  -> Reject(552)
             [] ~senderOK                         -> Reject(550)
             [] OTHER ->
                  /\ env' = <<[rcpts |-> 0, tls |-> tls, helo |-> helo]>>
                  /\ sm' = TransitionForCommand(sm, "MAIL")
                  /\ st' = "MailFrom"
                  /\ Respond(250, sm')
                  /\ UNCHANGED <<helo, tls, buf, tx, stored, envVars>>

\* handleRCPT: path, recipient limit, Mailbox.ValidateRecipient, then the
\* recipient is added.
HandleRCPT ==
    \E pathOK \in BOOLEAN,
       accepted \in IF MailboxMayReject THEN BOOLEAN ELSE {TRUE} :
        /\ Command("RCPT")
        /\ CASE ~pathOK -> Reject(501)
             [] RecipientLimitReached(Head(env)) -> Reject(452)
             [] ~accepted -> Reject(550)
             [] OTHER ->
                  /\ env' = <<[Head(env) EXCEPT !.rcpts = @ + 1]>>
                  /\ sm' = TransitionForCommand(sm, "RCPT")
                  /\ st' = "RcptTo"
                  /\ Respond(250, sm')
                  /\ UNCHANGED <<helo, tls, buf, tx, stored, envVars>>

\* handleDATA up to readData: move to Data and send 354.  If the 354 cannot
\* be written the machine is aborted and the empty Response{} is written.
HandleDATA ==
    /\ Command("DATA")
    /\ st' = "Data"
    /\ buf' = 0
    /\ UNCHANGED <<helo, tls, env, tx, stored, envVars>>
    /\ \/ /\ sm' = TransitionForCommand(sm, "DATA")
          /\ reply' = 354
          /\ pc' = "data"
          /\ UNCHANGED <<errs, conn, exitVars>>
       \/ /\ sm' = Abort(TransitionForCommand(sm, "DATA"))
          /\ conn' = "eof"
          /\ reply' = 0
          /\ RunOnError(WriteErrKind, sm')
          /\ UNCHANGED errs

\* Variant of HandleRSET that keeps the envelope builder.
HandleRSETKeepsEnvelope ==
    /\ Command("RSET")
    /\ sm' = Reset(sm)
    /\ st' = IF sm' \in {"Greeted", "Identified"} THEN sm' ELSE "Identified"
    /\ Respond(250, sm')
    /\ UNCHANGED <<helo, tls, env, buf, tx, stored, envVars>>

\* Variant of HandleRSET that always reports Identified.
HandleRSETAlwaysIdentified ==
    /\ Command("RSET")
    /\ env' = <<>>
    /\ sm' = Reset(sm)
    /\ st' = "Identified"
    /\ Respond(250, sm')
    /\ UNCHANGED <<helo, tls, buf, tx, stored, envVars>>

\* handleRSET: drop the transaction, sm.Reset, and report the machine's
\* state when it is Greeted or Identified, Identified otherwise.
HandleRSET ==
    /\ Command("RSET")
    /\ env' = <<>>
    /\ sm' = Reset(sm)
    /\ st' = IF sm' \in {"Greeted", "Identified"} THEN sm' ELSE "Identified"
    /\ Respond(250, sm')
    /\ UNCHANGED <<helo, tls, buf, tx, stored, envVars>>

\* handleQUIT: Terminating then Terminated; e.state.State is left alone.
HandleQUIT ==
    /\ Command("QUIT")
    /\ sm' = Terminate(TransitionForCommand(sm, "QUIT"))
    /\ Respond(221, sm')
    /\ UNCHANGED <<st, helo, tls, env, buf, tx, stored, envVars>>

\* handleNOOP, handleVRFY, handleHELP and the default branch (EXPN, AUTH).
InfoReply(verb) ==
    CASE verb = "NOOP" -> 250
      [] verb = "VRFY" -> IF "VRFY" \in Extensions THEN 252 ELSE 502
      [] verb = "HELP" -> IF "HELP" \in Extensions THEN 214 ELSE 502
      [] OTHER         -> 502

HandleInfo ==
    \E verb \in {"NOOP", "VRFY", "HELP", "EXPN", "AUTH"} :
        /\ Command(verb)
        /\ Reject(InfoReply(verb))

\* handleSTARTTLS: refuse when disabled, already active or without a
\* provider; otherwise enter StartTLS and reply 220.  The upgrade itself
\* happens at the top of the loop.  A client may have sent more lines
\* behind STARTTLS, which the bufio.Reader has then taken in.
HandleSTARTTLS ==
    /\ Command("STARTTLS")
    /\ CASE policy = "Disabled"    -> Reject(502)
         [] tls                    -> Reject(503)
         [] ~HasTLSProvider        -> Reject(454)
         [] OTHER ->
              /\ sm' = TransitionForCommand(sm, "STARTTLS")
              /\ st' = "StartTLS"
              /\ Respond(220, sm')
              /\ pipelined' \in BOOLEAN
              /\ UNCHANGED <<helo, tls, env, buf, tx, stored, cancelled,
                             closeCalled, policy, lineFrom>>

-----------------------------------------------------------------------------
(* readData and the rest of handleDATA                                     *)

\* Every failure of readData, and of the DataWriter / Finalize / Store
\* steps after it: sm.Reset, Identified, no envelope, and the reply.
DataFailure(code) ==
    /\ sm' = Reset(sm)
    /\ st' = "Identified"
    /\ env' = <<>>
    /\ buf' = 0
    /\ Respond(code, sm')
    /\ UNCHANGED <<helo, tls, tx, stored, envVars>>

\* The ctx check at the top of every iteration of readData.
DataCancelled ==
    /\ pc = "data"
    /\ cancelled
    /\ DataFailure(451)

DataContinue ==
    /\ pc = "data"
    /\ ~cancelled
    /\ pc' = "dataRead"
    /\ UNCHANGED <<sessionVars, errs, reply, conn, envVars, exitVars>>

DataReadFails ==
    /\ pc = "dataRead"
    /\ conn /= "open"
    /\ DataFailure(451)

\* The data deadline (DataTimeout, 10 minutes by default) always exists.
DataTimesOut ==
    /\ pc = "dataRead"
    /\ conn = "open"
    /\ DataFailure(451)

\* A body line: rejected by the length or size check, or unstuffed into
\* the buffer.
DataLine ==
    \E l \in BodyLines :
        /\ pc = "dataRead"
        /\ conn = "open"
        /\ \/ /\ LineRejected(l)
              /\ DataFailure(451)
           \/ /\ ~LineRejected(l)
              /\ buf' = buf + UnstuffedLength(l)
              /\ pc' = "data"
              /\ UNCHANGED <<sm, st, helo, tls, env, tx, stored, errs, reply,
                             conn, envVars, exitVars>>

\* The "." line ends readData without a ctx check.
DataTerminator ==
    /\ pc = "dataRead"
    /\ conn = "open"
    /\ pc' = "commit"
    /\ UNCHANGED <<sessionVars, errs, reply, conn, envVars, exitVars>>

\* handleDATA after readData.  The size re-check of the unstuffed data
\* cannot fail: readData's running check on raw lines is stricter.
\* A failed commit step replies 451; a stored envelope is counted, the
\* machine goes DataComplete then Reset, and the reply is 250.
\* Variant of CommitFails that acknowledges the failed message with 250.
CommitFailsAcknowledged ==
    /\ pc = "commit"
    /\ CommitMayFail
    /\ DataFailure(250)

CommitFails ==
    /\ pc = "commit"
    /\ CommitMayFail
    /\ DataFailure(451)

CommitSucceeds ==
    /\ pc = "commit"
    /\ tx' = tx + 1
    /\ stored' = Append(stored, [rcpts |-> Head(env).rcpts, size |-> buf,
                                 tls |-> Head(env).tls, helo |-> Head(env).helo])
    /\ sm' = Reset(DataComplete(sm))
    /\ st' = "Identified"
    /\ env' = <<>>
    /\ buf' = 0
    /\ Respond(250, sm')
    /\ UNCHANGED <<helo, tls, envVars>>

-----------------------------------------------------------------------------
(* Outside the session goroutine                                           *)

\* Engine.Close: e.closed under e.mu, then e.sm.Abort() after Unlock, then
\* conn.Close().  Abort and the session goroutine's Transition both read
\* and write e.sm's state with no lock held (statemachine.go), so while
\* the session is inside a step that makes a transition (Connect and
\* Greet, a command handler, the commit) its write can land after Abort's
\* and erase it.  This data race has two outcomes, both choices here:
\* Aborted, or the state the session left (SessionShutdown splits the
\* same race into its reads and writes).
Transitioning == pc \in {"start", "read", "commit"}

Close ==
    /\ ~closeCalled
    /\ closeCalled' = TRUE
    /\ closed' = TRUE
    /\ sm' \in {Abort(sm)} \cup (IF Transitioning THEN {sm} ELSE {})
    /\ conn' = "closed"
    /\ UNCHANGED <<pc, st, helo, tls, env, buf, errs, tx, stored, reply,
                   cancelled, hooks, reason, policy, pipelined, lineFrom>>

Cancel ==
    /\ ~cancelled
    /\ cancelled' = TRUE
    /\ UNCHANGED <<pc, sessionVars, errs, reply, conn, closeCalled, policy,
                   pipelined, lineFrom, exitVars>>

\* The client closes or resets its end: reads then see end of stream.
PeerCloses ==
    /\ conn = "open"
    /\ conn' = "eof"
    /\ UNCHANGED <<pc, sessionVars, errs, reply, envVars, exitVars>>

-----------------------------------------------------------------------------

\* Steps the session takes without waiting for the client.
SessionStep ==
    \/ Start \/ LoopCancelled \/ LoopTerminal \/ TLSUpgradeFails
    \/ ReadCommand \/ ReadFails \/ ReadTimesOut
    \/ DataCancelled \/ DataContinue \/ DataReadFails \/ DataTimesOut
    \/ CommitFails \/ CommitSucceeds

\* Steps driven by what the client sends.
ClientStep ==
    \/ TLSUpgradeSucceeds \/ ParseError \/ HookVeto \/ BadSequence
    \/ HandleHELO \/ HandleMAIL \/ HandleRCPT \/ HandleDATA \/ HandleRSET
    \/ HandleQUIT \/ HandleInfo \/ HandleSTARTTLS
    \/ DataLine \/ DataTerminator

Next == SessionStep \/ ClientStep \/ Close \/ Cancel \/ PeerCloses

\* The session goroutine runs whenever it can: every wait it enters ends
\* (a deadline, the data timeout, the handshake deadline, a closed
\* connection), so weak fairness of its own steps is justified.  The
\* client, Close and cancellation get no fairness.
Spec == Init /\ [][Next]_vars /\ WF_vars(SessionStep)

-----------------------------------------------------------------------------
(* Properties                                                              *)

TypeOK ==
    /\ pc \in {"start", "loop", "read", "data", "dataRead", "commit", "done"}
    /\ sm \in States /\ st \in States
    /\ helo \in Helos /\ tls \in BOOLEAN
    /\ env = <<>> \/ (Len(env) = 1 /\ env[1] \in Envelope)
    /\ buf \in 0..MaxMessageSize
    /\ errs \in 0..ErrCap /\ tx \in Nat
    /\ \A i \in 1..Len(stored) : stored[i].size \in 0..MaxMessageSize
    /\ reply \in Codes
    /\ conn \in {"open", "eof", "closed"}
    /\ {cancelled, closeCalled, closed} \subseteq BOOLEAN
    /\ hooks \in 0..1 /\ reason \in Reasons /\ pipelined \in BOOLEAN
    /\ lineFrom \in {"conn", "buffer"}

\* Every envelope handed to storage has at least one recipient, no more
\* than MaxRecipients (handleRCPT's limit check), and a body no larger
\* than MaxMessageSize (readData's running size check).
StoredWithinLimits ==
    \A i \in 1..Len(stored) :
        /\ stored[i].rcpts >= 1
        /\ MaxRecipients > 0 => stored[i].rcpts <= MaxRecipients
        /\ stored[i].size <= MaxMessageSize

\* No session stores more than MaxTransactions messages: handleMAIL's
\* check against stats.TransactionCount, which only a stored message
\* advances.
TransactionLimit ==
    MaxTransactions > 0 => Len(stored) <= MaxTransactions

\* Under TLSPolicy Required every stored envelope was begun over TLS, by
\* a client that identified itself after the upgrade (performTLSUpgrade
\* returns to Greeted and forgets the pre-TLS hostname).
TLSRequiredHonoured ==
    policy = "Required" =>
        \A i \in 1..Len(stored) : stored[i].tls /\ stored[i].helo = "tls"

\* A command read on a TLS session was sent over TLS: plaintext a client
\* pipelined behind STARTTLS, already taken into the bufio.Reader, is
\* dropped by performTLSUpgrade's ResetReader instead of being read as
\* the first command of the protected session (the STARTTLS command
\* injection of CVE-2011-0411; RFC 3207 section 4.2).
PlaintextNotReadOverTLS == pc = "read" /\ tls => lineFrom = "conn"

\* A syntax error is answered with 500 only while the error budget lasts;
\* the error that spends it gets 421 and ends the session
\* (processOneCommand's checkErrorLimit).
ErrorBudgetEnforced ==
    reply = 500 /\ MaxErrors > 0 => errs < MaxErrors

\* The 250 that ends DATA is sent only for a message that was stored in
\* the same step (handleDATA returns 451 on every failed commit step).
AcceptedMeansStored ==
    [][pc = "commit" /\ reply' = 250 => Len(stored') = Len(stored) + 1]_vars

\* Once the peer has gone away the session goroutine eventually returns
\* from Run, from whatever it was doing (a command, a handler's reply
\* write, a body line, the commit): a read then reports io.EOF, which
\* Run's isIOError takes as the end of the connection, even on a NetConn
\* whose failed writes Run only loops on.  Close() called meanwhile
\* turns the reads into net.ErrClosed and is left out: its Abort can be
\* lost (close_race_net).
PeerGoneEndsSession ==
    conn = "eof" ~> (pc = "done" \/ closeCalled)

\* Spec section 3: while the state machine is in Data an envelope with
\* recipients is present.  Every failure path of handleDATA calls
\* sm.Reset() from Data and drops the envelope.
DataHasEnvelope ==
    sm = "Data" => env /= <<>> /\ Head(env).rcpts > 0

\* Spec section 7: when Run has returned, OnDisconnect has fired exactly
\* once (handleDisconnect, with e.closed also set by Close()).
DisconnectHookExactlyOnce ==
    pc = "done" => hooks = 1

\* Spec section 5: cancellation of Run's context is observed at the top
\* of every command iteration and in the body-read loop, so a cancelled
\* session eventually returns from Run, however long the client keeps
\* talking; the waits in between (readLine, a body line, the handshake)
\* all end at a deadline.
CancellationEndsSession ==
    cancelled ~> pc = "done"

\* Spec section 9 (SessionInfo is a read-only projection of the engine's
\* state): at the top of the command loop, in every state from which the
\* session can still go on, SessionInfo.State() (e.state.State, which each
\* handler sets by hand) is the state the machine is in.  Data is left
\* out: a failed DATA strands the machine there (DataHasEnvelope).
SessionInfoStateCurrent ==
    pc = "loop" /\ ~IsTerminal(sm) /\ sm /= "Data" => st = sm

\* Every DATA body stream ends, in a stored message or a failed
\* transaction, however the client paces its lines: readData pushes the
\* data deadline back after each line, so only its running size check
\* bounds a client that keeps sending.
DataStreamEnds ==
    pc \in {"data", "dataRead", "commit"} ~> pc \in {"loop", "done"}

\* Spec sections 5 and 8 (property 10): once Run's context is cancelled no
\* partial envelope is committed: no message reaches Storage.Store (and
\* no OnDataEnd fires) after the cancellation.
CancelledNothingStored ==
    [][cancelled => Len(stored') = Len(stored)]_vars

\* EHLO advertises STARTTLS (handleEHLO) and HELP lists it (handleHELP).
EHLOAdvertisesSTARTTLS ==
    "STARTTLS" \in Extensions /\ policy /= "Disabled" /\ ~tls

HELPListsSTARTTLS ==
    /\ "STARTTLS" \in Extensions /\ policy /= "Disabled"
    /\ HasTLSProvider /\ ~tls

\* Spec section 8, property 5: in every state of a session, HELP lists
\* STARTTLS exactly when EHLO would advertise it.
EHLOHELPConsistent ==
    EHLOAdvertisesSTARTTLS <=> HELPListsSTARTTLS

-----------------------------------------------------------------------------
(* Refinement of the transaction promise                                   *)

\* The open transaction is the envelope builder, the delivered messages
\* are what Storage.Store accepted, and the session has ended when Run
\* has returned.
MT == INSTANCE MailTransaction
        WITH txn <- IF env = <<>> THEN <<>> ELSE <<Head(env).rcpts>>,
             delivered <- [i \in 1..Len(stored) |->
                              [rcpts |-> stored[i].rcpts, size |-> stored[i].size]],
             ended <- pc = "done"

\* Every step of the session is a step of MailTransaction or leaves its
\* view unchanged: MAIL opens a transaction only when none is open, RCPT,
\* RSET, HELO, a failed DATA and a stored message act on it as the
\* abstract actions do, and nothing is stored after Run returns.
ImplementsMailTransaction == MT!Spec

=============================================================================
