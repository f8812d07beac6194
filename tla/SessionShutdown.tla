-------------------------- MODULE SessionShutdown --------------------------
(***************************************************************************)
(* Engine.Close() racing the session goroutine (src/storage.go).           *)
(*                                                                         *)
(* Close() sets e.closed under e.mu, then calls sm.Abort() without the     *)
(* lock, then closes the connection.  sm.Abort() and the session's own    *)
(* transitions are each a read of sm.state, a check against               *)
(* validTransitions, and a write; nothing orders the two goroutines'      *)
(* reads and writes, so each is modelled as its own step and the last     *)
(* write wins.                                                             *)
(*                                                                         *)
(* The session is the part of Run that matters here: the loop's terminal  *)
(* check, readLine, a handler whose only effect is a state machine       *)
(* transition, the reply write, and Run's error classification, preceded *)
(* by Run's start: sm.Connect(), the greeting write and sm.Greet().  Init *)
(* is a new Engine, whose machine is Disconnected; Close() may come at    *)
(* any point, before Run included.                                        *)
(***************************************************************************)
EXTENDS Naturals, StateMachine

CONSTANTS
    ConnKind,      \* "net" (NetConn) or "pipe" (PipeConn)
    ReaderCloses,  \* PipeConn's reader is an io.Closer whose Close ends a
                   \* blocked Read (io.PipeReader, the harness PipeBuffer)
    Commands       \* verbs the client may send

ASSUME /\ ConnKind \in {"net", "pipe"}
       /\ ReaderCloses \in BOOLEAN
       /\ Commands \subseteq {"HELO", "EHLO", "MAIL", "RCPT", "RSET", "NOOP",
                             "QUIT"}

VARIABLES
    spc,     \* session goroutine: "start", "greeting", "greet", "greetWrite",
             \* "loop", "read", "blocked", "write", "done"
    sm,      \* sm.state, shared by both goroutines
    seen,    \* the session's read of sm.state in the current handler
    cmd,     \* the verb being handled
    conn,    \* "open" or "closed"
    closed,  \* e.closed
    hooks,   \* OnDisconnect calls
    cpc,     \* Close(): "idle", "abort", "abortWrite", "conn", "done"
    cseen    \* Close's read of sm.state inside sm.Abort()

vars == <<spc, sm, seen, cmd, conn, closed, hooks, cpc, cseen>>

\* The state a handler leaves the machine in, computed from the state it
\* read: handleRSET's Reset, handleQUIT's TransitionForCommand then
\* Terminate, and TransitionForCommand for the others.
HandlerResult(s, verb) ==
    CASE verb = "RSET" -> Reset(s)
      [] verb = "QUIT" -> Terminate(TransitionForCommand(s, "QUIT"))
      [] OTHER         -> TransitionForCommand(s, verb)

\* Variant of ErrKind in which isIOError does not know io.ErrClosedPipe.
ErrKindNoClosedPipe == "other"

\* The error a closed connection returns, as Run classifies it: PipeConn
\* gives io.ErrClosedPipe (isIOError), NetConn gives net.ErrClosed, which
\* is neither an I/O error nor a timeout to Run.
ErrKind == IF ConnKind = "pipe" THEN "io" ELSE "other"

\* handleDisconnect: the hook fires only if e.closed was still false.
Disconnect ==
    /\ spc' = "done"
    /\ IF closed THEN UNCHANGED <<closed, hooks>>
       ELSE closed' = TRUE /\ hooks' = hooks + 1

\* Run after processOneCommand returned an error.
RunOnError(s) ==
    IF IsTerminal(s) \/ ErrKind = "io" THEN Disconnect
    ELSE spc' = "loop" /\ UNCHANGED <<closed, hooks>>

Init ==
    /\ spc = "start"
    /\ sm = "Disconnected"
    /\ seen = "Disconnected"
    /\ cmd = "NOOP"
    /\ conn = "open"
    /\ closed = FALSE
    /\ hooks = 0
    /\ cpc = "idle"
    /\ cseen = "Disconnected"

\* Run: sm.Connect() fails unless the machine is Disconnected, and Run
\* returns its error at once.  (Its check and Transition's cannot be
\* separated by a write of Close(): Abort is refused from Disconnected.)
Connect ==
    /\ spc = "start"
    /\ IF sm = "Disconnected"
       THEN sm' = "Connected" /\ spc' = "greeting"
       ELSE spc' = "done" /\ UNCHANGED sm
    /\ UNCHANGED <<seen, cmd, conn, closed, hooks, cpc, cseen>>

\* The greeting write; on a closed connection it fails and Run calls
\* handleDisconnect(Error).
GreetingWritten ==
    /\ spc = "greeting"
    /\ IF conn = "closed" THEN Disconnect
       ELSE spc' = "greet" /\ UNCHANGED <<closed, hooks>>
    /\ UNCHANGED <<sm, seen, cmd, conn, cpc, cseen>>

\* sm.Greet(): the check that the machine is Connected and Transition's
\* read, taken as one; on failure Run returns the error without
\* handleDisconnect.
GreetReads ==
    /\ spc = "greet"
    /\ seen' = sm
    /\ spc' = IF sm = "Connected" THEN "greetWrite" ELSE "done"
    /\ UNCHANGED <<sm, cmd, conn, closed, hooks, cpc, cseen>>

\* ... and Transition's write of Greeted (e.state.State = StateGreeted
\* follows); Run enters its loop.
GreetWrites ==
    /\ spc = "greetWrite"
    /\ sm' = IF "Greeted" \in ValidTransitions(seen) THEN "Greeted" ELSE sm
    /\ spc' = "loop"
    /\ UNCHANGED <<seen, cmd, conn, closed, hooks, cpc, cseen>>

\* Top of Run's loop: a terminal machine breaks out to
\* handleDisconnect(Normal), anything else goes on to read.
LoopTop ==
    /\ spc = "loop"
    /\ IF IsTerminal(sm) THEN Disconnect
       ELSE spc' = "read" /\ UNCHANGED <<closed, hooks>>
    /\ UNCHANGED <<sm, seen, cmd, conn, cpc, cseen>>

\* readLine enters Read: PipeConn.Read fails at once with ErrClosedPipe
\* if its closed flag is set (checked under c.mu, which is then released),
\* as a closed net.Conn fails with net.ErrClosed; otherwise the goroutine
\* blocks in the underlying reader.
ReadBegins ==
    /\ spc = "read"
    /\ IF conn = "closed" THEN RunOnError(sm)
       ELSE spc' = "blocked" /\ UNCHANGED <<closed, hooks>>
    /\ UNCHANGED <<sm, seen, cmd, conn, cpc, cseen>>

\* Closing the connection ends a blocked read: net.Conn.Close always does;
\* PipeConn.Close does only by closing a reader that is an io.Closer.
ReadFails ==
    /\ spc = "blocked"
    /\ conn = "closed"
    /\ ConnKind = "net" \/ ReaderCloses
    /\ RunOnError(sm)
    /\ UNCHANGED <<sm, seen, cmd, conn, cpc, cseen>>

\* A command line arrives; the gate (IsCommandAllowed) and the handler
\* read sm.state.  The two reads are taken as one: a Close() between them
\* leaves the handler reading Aborted, from which no move is possible.
\* A read blocked in a reader that Close() does not close still returns
\* what the client sends.
Receive ==
    \E verb \in Commands :
        /\ spc = "blocked"
        /\ conn = "open" \/ (ConnKind = "pipe" /\ ~ReaderCloses)
        /\ seen' = sm
        /\ cmd' = verb
        /\ spc' = "write"
        /\ UNCHANGED <<sm, conn, closed, hooks, cpc, cseen>>

\* A gated command gets 503 and the write error is dropped
\* (processOneCommand returns nil).  An allowed one writes sm.state if
\* the check on the state it read passed and the state changes, then
\* writes the reply; a failed reply write goes to Run.
HandlerWrites ==
    LET allowed == IsCommandAllowed(seen, cmd)
        new     == IF allowed THEN HandlerResult(seen, cmd) ELSE seen
    IN  /\ spc = "write"
        /\ sm' = IF new = seen THEN sm ELSE new
        /\ IF conn = "open" \/ ~allowed
           THEN spc' = "loop" /\ UNCHANGED <<closed, hooks>>
           ELSE RunOnError(sm')
        /\ UNCHANGED <<seen, cmd, conn, cpc, cseen>>

\* Close(): e.closed under the lock.
CloseCalled ==
    /\ cpc = "idle"
    /\ closed' = TRUE
    /\ cpc' = "abort"
    /\ UNCHANGED <<spc, sm, seen, cmd, conn, hooks, cseen>>

\* sm.Abort(): read and check ...
AbortReads ==
    /\ cpc = "abort"
    /\ cseen' = sm
    /\ cpc' = "abortWrite"
    /\ UNCHANGED <<spc, sm, seen, cmd, conn, closed, hooks>>

\* ... then write Aborted if the state it read allowed it.
AbortWrites ==
    /\ cpc = "abortWrite"
    /\ sm' = IF "Aborted" \in ValidTransitions(cseen) THEN "Aborted" ELSE sm
    /\ cpc' = "conn"
    /\ UNCHANGED <<spc, seen, cmd, conn, closed, hooks, cseen>>

\* conn.Close().
ConnCloses ==
    /\ cpc = "conn"
    /\ conn' = "closed"
    /\ cpc' = "done"
    /\ UNCHANGED <<spc, sm, seen, cmd, closed, hooks, cseen>>

Session == Connect \/ GreetingWritten \/ GreetReads \/ GreetWrites
           \/ LoopTop \/ ReadBegins \/ ReadFails \/ HandlerWrites
Closer == AbortReads \/ AbortWrites \/ ConnCloses

Next == Session \/ Receive \/ Closer \/ CloseCalled

\* Both goroutines run whenever they can; the client and the caller of
\* Close() are not obliged to act.
Spec == Init /\ [][Next]_vars /\ WF_vars(Session) /\ WF_vars(Closer)

-----------------------------------------------------------------------------

\* Once Close() has returned, the session goroutine eventually returns
\* from Run (the loop ends on the aborted machine or on the I/O error of
\* the closed connection).
CloseEndsSession == cpc = "done" ~> spc = "done"

=============================================================================
