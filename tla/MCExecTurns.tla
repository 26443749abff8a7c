---------------------------- MODULE MCExecTurns ----------------------------
(* One session, up to three messages and a stop. *)
EXTENDS ExecTurns
=============================================================================
