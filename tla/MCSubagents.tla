---------------------------- MODULE MCSubagents ----------------------------
(* A spawned and a forked subagent that message each other; the main agent  *)
(* messages both.  A third agent adds no interaction but one more sender.   *)
EXTENDS Subagents
CONSTANTS a1, a2, root
=============================================================================
