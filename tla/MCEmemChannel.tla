--------------------------- MODULE MCEmemChannel ---------------------------
(* EmemChannel for TLC: enough commands for one client to die in each of   *)
(* two of them and another to send a third and a fourth.                   *)
EXTENDS EmemChannel

MCMaxCommands == 4
=============================================================================
