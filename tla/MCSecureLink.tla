---------------------------- MODULE MCSecureLink ----------------------------
(* One link with a few sessions, and a few messages each way. *)
EXTENDS SecureLink
=============================================================================
