---------------------------- MODULE StateMachine ----------------------------
(***************************************************************************)
(* The SMTP protocol state machine of icesmtp (src/statemachine.go, the    *)
(* State type in src/storage.go and the command gating in src/command.go). *)
(*                                                                         *)
(* The machine is a single mutable field `state`.  Every mutator goes      *)
(* through Transition, which refuses a move outside validTransitions and   *)
(* leaves the state alone.  The engine ignores the error of almost every   *)
(* call, so the operators below return the resulting state: the new one   *)
(* when the move is in the table, the old one otherwise.                   *)
(***************************************************************************)

States == {"Disconnected", "Connected", "Greeted", "Identified", "MailFrom",
           "RcptTo", "Data", "DataDone", "StartTLS", "Terminating",
           "Terminated", "Aborted"}

Verbs == {"HELO", "EHLO", "MAIL", "RCPT", "DATA", "RSET", "NOOP", "QUIT",
          "VRFY", "EXPN", "HELP", "STARTTLS", "AUTH"}

IsTerminal(s) == s \in {"Terminated", "Aborted"}

InTransaction(s) == s \in {"MailFrom", "RcptTo", "Data"}

\* validTransitions: the legal successor states of every state.
ValidTransitions(s) ==
    CASE s = "Disconnected" -> {"Connected"}
      [] s = "Connected"    -> {"Greeted", "Terminated", "Aborted"}
      [] s = "Greeted"      -> {"Identified", "Terminating", "Aborted"}
      [] s = "Identified"   -> {"Identified", "MailFrom", "StartTLS",
                                "Terminating", "Aborted"}
      [] s = "MailFrom"     -> {"RcptTo", "Identified", "Terminating", "Aborted"}
      [] s = "RcptTo"       -> {"RcptTo", "Data", "Identified", "Terminating",
                                "Aborted"}
      [] s = "Data"         -> {"DataDone", "Aborted"}
      [] s = "DataDone"     -> {"Identified", "Terminating", "Aborted"}
      [] s = "StartTLS"     -> {"Greeted", "Aborted"}
      [] s = "Terminating"  -> {"Terminated"}
      [] OTHER              -> {}

\* Transition(newState): the move happens only when the table allows it.
Transition(s, t) == IF t \in ValidTransitions(s) THEN t ELSE s

\* nextStateForCommand: the state a successful command leads to.
NextStateForCommand(s, cmd) ==
    CASE cmd \in {"HELO", "EHLO"} -> "Identified"
      [] cmd = "MAIL"             -> "MailFrom"
      [] cmd = "RCPT"             -> "RcptTo"
      [] cmd = "DATA"             -> "Data"
      [] cmd = "RSET"             -> IF InTransaction(s) THEN "Identified" ELSE s
      [] cmd = "QUIT"             -> "Terminating"
      [] cmd = "STARTTLS"         -> "StartTLS"
      [] OTHER                    -> s

\* TransitionForCommand(cmd, true): no move when the target is the current
\* state, otherwise a checked Transition.
TransitionForCommand(s, cmd) ==
    LET t == NextStateForCommand(s, cmd)
    IN  IF t = s THEN s ELSE Transition(s, t)

\* Reset: back to Identified from a transaction or from DataDone.  From
\* Data the table has no edge to Identified, so the call changes nothing.
Reset(s) ==
    IF InTransaction(s) \/ s = "DataDone" THEN Transition(s, "Identified") ELSE s

DataComplete(s) == IF s = "Data" THEN Transition(s, "DataDone") ELSE s

TLSComplete(s) == IF s = "StartTLS" THEN Transition(s, "Greeted") ELSE s

Terminate(s) == Transition(s, "Terminated")

Abort(s) == Transition(s, "Aborted")

\* AllowedCommands (src/command.go): the verbs the engine dispatches in s.
AllowedCommands(s) ==
    CASE s = "Greeted"    -> {"HELO", "EHLO", "QUIT", "NOOP", "HELP", "RSET"}
      [] s = "Identified" -> {"HELO", "EHLO", "MAIL", "QUIT", "NOOP", "HELP",
                              "RSET", "VRFY", "EXPN", "STARTTLS", "AUTH"}
      [] s = "MailFrom"   -> {"RCPT", "RSET", "QUIT", "NOOP", "HELP"}
      [] s = "RcptTo"     -> {"RCPT", "DATA", "RSET", "QUIT", "NOOP", "HELP"}
      [] OTHER            -> {}

IsCommandAllowed(s, cmd) == cmd \in AllowedCommands(s)

=============================================================================
