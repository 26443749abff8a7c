--------------------------- MODULE MCStreamTurns ---------------------------
(* One session, with a few messages, requests and stops. *)
EXTENDS StreamTurns
=============================================================================
