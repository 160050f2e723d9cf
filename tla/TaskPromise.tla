---------------------------- MODULE TaskPromise ----------------------------
(***************************************************************************)
(* What a session's task ledger promises to those who submit work to it,   *)
(* whatever its journal, its process and its disk go through:              *)
(*                                                                         *)
(*   - a submission becomes at most one task, and a receipt names that     *)
(*     task: it is given only for a task that exists, and a repeated       *)
(*     submission gets the same receipt again;                             *)
(*   - a task is executed at most once: from pending it is claimed or      *)
(*     withdrawn, a claimed task settles with one outcome, and an outcome  *)
(*     is final.                                                           *)
(*                                                                         *)
(* Crashes, torn writes and restarts are not visible here: they may        *)
(* interrupt a claimed task, and nothing else.                             *)
(***************************************************************************)
CONSTANTS Tasks, Submissions, None

VARIABLES state, sub, receipts

vars == <<state, sub, receipts>>

Init ==
  /\ state = [t \in Tasks |-> "none"]
  /\ sub = [t \in Tasks |-> None]
  /\ receipts = [s \in Submissions |-> None]

Accept(t, s) ==
  /\ state[t] = "none"
  /\ \A x \in Tasks : sub[x] # s
  /\ state' = [state EXCEPT ![t] = "pending"]
  /\ sub' = [sub EXCEPT ![t] = s]
  /\ UNCHANGED receipts

Acknowledge(s, t) ==
  /\ sub[t] = s
  /\ receipts' = [receipts EXCEPT ![s] = t]
  /\ UNCHANGED <<state, sub>>

Withdraw(t) ==
  /\ state[t] = "pending"
  /\ state' = [state EXCEPT ![t] = "cancelled"]
  /\ UNCHANGED <<sub, receipts>>

Claim(t) ==
  /\ state[t] = "pending"
  /\ state' = [state EXCEPT ![t] = "claimed"]
  /\ UNCHANGED <<sub, receipts>>

(* A run settles every task it has claimed at once; so does a recovery. *)
Settle(S, outcome) ==
  /\ S # {}
  /\ \A t \in S : state[t] = "claimed"
  /\ state' = [t \in Tasks |-> IF t \in S THEN outcome ELSE state[t]]
  /\ UNCHANGED <<sub, receipts>>

Next ==
  \/ \E t \in Tasks, s \in Submissions : Accept(t, s)
  \/ \E s \in Submissions, t \in Tasks : Acknowledge(s, t)
  \/ \E t \in Tasks : Withdraw(t) \/ Claim(t)
  \/ \E S \in SUBSET Tasks :
       \E o \in {"completed", "failed", "cancelled", "interrupted"} : Settle(S, o)

Spec == Init /\ [][Next]_vars
=============================================================================
