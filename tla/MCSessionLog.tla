---------------------------- MODULE MCSessionLog -----------------------------
(* A queue of three, calls of one to three events, two crashes. *)
EXTENDS SessionLog
=============================================================================
