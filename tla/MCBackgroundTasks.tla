-------------------------- MODULE MCBackgroundTasks --------------------------
(* One task with three tool calls, two of them side by side, a stop by the  *)
(* user and two crashes.  Tasks share nothing but the wait for any of them: *)
(* a second task that ends first is, for this one, a wait that gives up.    *)
EXTENDS BackgroundTasks
CONSTANT t1
=============================================================================
