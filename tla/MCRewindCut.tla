---------------------------- MODULE MCRewindCut ----------------------------
(* Two questions, a background task, an activation of a subagent, a grant   *)
(* and two values of a setting; two rewinds.                                *)
EXTENDS RewindCut
CONSTANTS b1, s1, g1
=============================================================================
