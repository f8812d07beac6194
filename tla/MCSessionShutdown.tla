------------------------- MODULE MCSessionShutdown -------------------------
(* SessionShutdown with the verbs whose handlers move the state machine,  *)
(* and NOOP, which stands for every handler that leaves it alone.          *)
EXTENDS SessionShutdown

MCCommands == {"HELO", "MAIL", "RCPT", "RSET", "NOOP", "QUIT"}

=============================================================================
