---------------------------- MODULE MCChatFollow ----------------------------
(* One viewport on a transcript of up to three events in up to two runs,   *)
(* pages of one or two events, and queues that fill at once.               *)
EXTENDS ChatFollow
=============================================================================
