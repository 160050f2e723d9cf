---------------------------- MODULE MCRunManager ----------------------------
(* TLC instances of RunManager. *)
EXTENDS RunManager
=============================================================================
