---------------------------- MODULE MCPhoneFiles ----------------------------
(* One folder in the root, and one file. *)
EXTENDS PhoneFiles
=============================================================================
