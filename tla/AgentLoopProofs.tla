---------------------------- MODULE AgentLoopProofs ----------------------------
(***************************************************************************)
(* What the agent loop promises of its tool calls (ToolCalls) and of the   *)
(* ends of the background tasks they start (BackgroundTasks).              *)
(***************************************************************************)
EXTENDS ToolCalls, BackgroundTasks, FiniteSetTheorems, SequenceTheorems, TLAPS

(***************************************************************************)
(* What ToolCalls promises for every number of calls, every choice of the  *)
(* exclusive ones and every limit: a refusal is final, a body starts as it *)
(* was admitted, and an exclusive call finds everything before it done.    *)
(*                                                                         *)
(* The invariant has two parts.  The first speaks of one call at a time:   *)
(* where it can be while the host has its request, what its refusal and    *)
(* its body leave behind, and what admits it in the mode it was judged in. *)
(* The second speaks of the batch, and only of which calls are "new" and   *)
(* which are "over": how the exclusive calls divide it, and what the       *)
(* results are.                                                            *)


Asking == {"waiting", "closing"}
Admitted == {"recheck", "reread", "dispatch", "staged"}

(* The host has a request just while its call waits for the answer.        *)
Talks(i) == host[i] # "none" <=> at[i] \in Asking

(* A request is in the journal once more than its decision meanwhile.      *)
Balanced(i) ==
  /\ at[i] \in Asking => asked[i] = decided[i] + 1
  /\ at[i] \notin Asking => asked[i] = decided[i]

(* A refusal is on its way to its call, or the call has its denial.        *)
Refusal(i) == i \in refused =>
  \/ host[i] = "deny"
  \/ by[i] = "denied" /\ at[i] \in {"staged", "ready", "over"}

(* A body belongs to a call that was not denied and is past its start.     *)
Body(i) == i \in ran => by[i] # "denied" /\ at[i] \in {"body", "ready", "over"}

(* What admits a call counts in the mode it was judged in.                 *)
Reason(i) ==
  /\ at[i] = "review" => mode[i] = "auto-review"
  /\ at[i] \in Admitted =>
       /\ by[i] = "mode" => mode[i] = "full-access"
       /\ by[i] = "review" => mode[i] = "auto-review"

CallOK(i) == Talks(i) /\ Balanced(i) /\ Refusal(i) /\ Body(i) /\ Reason(i)

(* The results are those of the first calls, and of all that are over as   *)
(* long as every commit has succeeded.                                     *)
Prefix ==
  /\ results = [k \in 1 .. Len(results) |-> k]
  /\ ~failure => \A i \in Calls : at[i] = "over" <=> i <= Len(results)

(* Nothing behind an exclusive call is looked at before it is over.        *)
Barrier == \A i \in Exclusive, j \in Calls : i < j /\ at[j] # "new" => at[i] = "over"

(* While an exclusive call is under way everything before it is over.      *)
Alone == \A i \in Exclusive : at[i] \notin {"new", "over"} =>
  /\ ~failure
  /\ \A j \in Before(i) : at[j] = "over"

BatchOK == Prefix /\ Barrier /\ Alone

IInv == TypeOK /\ (\A i \in Calls : CallOK(i)) /\ BatchOK

(* What is the same of call j before and after a step of another.          *)
Untouched(j) ==
  /\ at'[j] = at[j] /\ mode'[j] = mode[j] /\ by'[j] = by[j]
  /\ host'[j] = host[j] /\ asked'[j] = asked[j] /\ decided'[j] = decided[j]
  /\ (j \in ran' <=> j \in ran) /\ (j \in refused' <=> j \in refused)

(* What a step leaves alone that neither starts a call nor ends one.       *)
SamePhases ==
  /\ \A j \in Calls : /\ at'[j] = "new" <=> at[j] = "new"
                      /\ at'[j] = "over" <=> at[j] = "over"
  /\ UNCHANGED <<results, failure>>
-----------------------------------------------------------------------------
USE DEF place, talk, out, choice

(* The variables keep their types.                                         *)
LEMMA TypesStep == ASSUME TypeOK, [Next]_vars PROVE TypeOK'
<1> USE DEF TypeOK, Places, Modes, Goto, Terminal, Again, Decided
<1>1. ASSUME NEW i \in Calls, Enter(i) PROVE TypeOK'
  <2>1. CASE aborted BY <1>1, <2>1 DEF Enter
  <2>2. CASE ~aborted BY <1>1, <2>2 DEF Enter
  <2> QED BY <2>1, <2>2
<1>2. ASSUME NEW i \in Calls, Judge(i) PROVE TypeOK'
  BY <1>2 DEF Judge
<1>3. ASSUME NEW i \in Calls, Review(i) PROVE TypeOK'
  <2>1. at' \in [Calls -> Places]
    BY ZenonT(40), <1>3 DEF Review
  <2>2. mode' \in [Calls -> Modes]
    BY <1>3 DEF Review
  <2>3. by' \in [Calls -> {"mode", "grant", "review", "person", "denied"}]
    BY <1>3 DEF Review
  <2> QED BY <1>3, <2>1, <2>2, <2>3 DEF Review
<1>4. ASSUME NEW i \in Calls, Ask(i) PROVE TypeOK'
  BY <1>4 DEF Ask
<1>5. ASSUME NEW i \in Calls, Receive(i) PROVE TypeOK'
  <2>1. at' \in [Calls -> Places]
    <3>1. \E w \in {"judge", "staged", "recheck"} : at' = [at EXCEPT ![i] = w]
      BY <1>5 DEF Receive
    <3> QED BY <3>1
  <2>2. mode' \in [Calls -> Modes]
    <3>1. mode' = [mode EXCEPT ![i] = perm] \/ mode' = mode
      BY <1>5 DEF Receive
    <3> QED BY <3>1
  <2>3. by' \in [Calls -> {"mode", "grant", "review", "person", "denied"}]
    BY <1>5 DEF Receive
  <2>4. granted' \in BOOLEAN
    BY <1>5 DEF Receive
  <2>5. decided' \in [Calls -> Nat] /\ host' \in [Calls -> {"none", "open", "once", "session", "deny", "aborted"}]
    BY <1>5 DEF Receive
  <2> QED BY <1>5, <2>1, <2>2, <2>3, <2>4, <2>5 DEF Receive
<1>6. ASSUME NEW i \in Calls, Expire(i) PROVE TypeOK'
  BY <1>6 DEF Expire
<1>7. ASSUME NEW i \in Calls, Recheck(i) \/ Reread(i) \/ Checkpoint(i) PROVE TypeOK'
  <2>1. at' \in [Calls -> Places]
    BY ZenonT(40), <1>7 DEF Recheck, Reread, Checkpoint
  <2>2. by' \in [Calls -> {"mode", "grant", "review", "person", "denied"}]
    BY <1>7 DEF Recheck, Reread, Checkpoint
  <2> QED BY <1>7, <2>1, <2>2 DEF Recheck, Reread, Checkpoint
<1>8. ASSUME NEW i \in Calls, Invoke(i) \/ BodyEnds(i) \/ Abandon(i) PROVE TypeOK'
  BY <1>8 DEF Invoke, BodyEnds, Abandon
<1>9. ASSUME NEW i \in Calls, Commit(i) PROVE TypeOK'
  <2>1. results' \in Seq(Calls) /\ failure' \in BOOLEAN
    <3>1. results' = results \/ results' = Append(results, i)
      BY <1>9 DEF Commit
    <3>2. failure' = failure \/ failure' = TRUE
      BY <1>9 DEF Commit
    <3>3. results \in Seq(Calls) /\ Append(results, i) \in Seq(Calls)
      OBVIOUS
    <3> QED BY <3>1, <3>2, <3>3
  <2>2. at' \in [Calls -> Places] /\ lease' \subseteq Calls
    BY <1>9 DEF Commit
  <2> QED BY <1>9, <2>1, <2>2 DEF Commit
<1>10. ASSUME NEW i \in Calls, Answer(i) \/ Cancel(i) PROVE TypeOK'
  <2>1. host' \in [Calls -> {"none", "open", "once", "session", "deny", "aborted"}]
    BY <1>10 DEF Answer, Cancel
  <2>2. refused' \subseteq Calls
    BY <1>10 DEF Answer, Cancel
  <2> QED BY <1>10, <2>1, <2>2 DEF Answer, Cancel
<1>11. CASE SetMode
  <2>1. PICK m \in Modes \ {perm} : perm' = m
    BY <1>11 DEF SetMode
  <2>2. at' \in [Calls -> Places]
    BY <1>11 DEF SetMode
  <2> QED BY <1>11, <2>1, <2>2 DEF SetMode
<1>12. CASE Revoke \/ Abort
  BY <1>12 DEF Revoke, Abort
<1>13. CASE UNCHANGED vars
  BY <1>13 DEF vars
<1> QED
  BY <1>1, <1>2, <1>3, <1>4, <1>5, <1>6, <1>7, <1>8, <1>9, <1>10, <1>11, <1>12,
     <1>13
  DEF Next, Proceed

(* A call's own steps, and the host's answer to it, touch no other call.   *)
LEMMA OthersUntouched ==
  ASSUME TypeOK, NEW i \in Calls, Proceed(i) \/ Answer(i) \/ Cancel(i),
         NEW j \in Calls, j # i
  PROVE  Untouched(j)
<1> USE DEF TypeOK, Untouched, Goto, Terminal, Again, Decided
<1>1. CASE Enter(i) \/ Judge(i)
  BY <1>1 DEF Enter, Judge
<1>2. CASE Review(i)
  BY <1>2 DEF Review
<1>3. CASE Ask(i) \/ Expire(i)
  BY <1>3 DEF Ask, Expire
<1>4. CASE Receive(i)
  BY <1>4 DEF Receive
<1>5. CASE Recheck(i) \/ Reread(i) \/ Checkpoint(i)
  BY <1>5 DEF Recheck, Reread, Checkpoint
<1>6. CASE Invoke(i) \/ BodyEnds(i) \/ Commit(i) \/ Abandon(i)
  BY <1>6 DEF Invoke, BodyEnds, Commit, Abandon
<1>7. CASE Answer(i) \/ Cancel(i)
  BY <1>7 DEF Answer, Cancel
<1> QED
  BY <1>1, <1>2, <1>3, <1>4, <1>5, <1>6, <1>7 DEF Proceed

(* A call's own steps keep what is said of it.                             *)
LEMMA OwnStep ==
  ASSUME TypeOK, NEW i \in Calls, CallOK(i), Proceed(i) \/ Answer(i) \/ Cancel(i)
  PROVE  CallOK(i)'
<1> USE DEF TypeOK, CallOK, Talks, Balanced, Refusal, Body, Reason, Asking, Admitted,
            Goto, Terminal, Again, Decided
<1>1. CASE Enter(i)
  BY <1>1 DEF Enter
<1>2. CASE Judge(i)
  BY <1>2 DEF Judge, Modes
<1>3. CASE Review(i)
  <2>1. CASE aborted BY <1>3, <2>1 DEF Review
  <2>2. CASE ~aborted /\ perm # mode[i] BY <1>3, <2>2 DEF Review
  <2>3. CASE ~aborted /\ perm = mode[i] BY <1>3, <2>3 DEF Review
  <2> QED BY <2>1, <2>2, <2>3
<1>4. CASE Ask(i)
  BY <1>4 DEF Ask
<1>5. CASE Receive(i)
  <2>1. CASE Withdrawn(i) BY <1>5, <2>1 DEF Receive, Withdrawn
  <2>2. CASE ~Withdrawn(i) /\ host[i] \in {"deny", "aborted"} BY <1>5, <2>2 DEF Receive
  <2>3. CASE ~Withdrawn(i) /\ host[i] \notin {"deny", "aborted"} BY <1>5, <2>3 DEF Receive
  <2> QED BY <2>1, <2>2, <2>3
<1>6. CASE Expire(i)
  BY <1>6 DEF Expire
<1>7. CASE Recheck(i)
  BY <1>7 DEF Recheck
<1>8. CASE Reread(i)
  BY <1>8 DEF Reread
<1>9. CASE Checkpoint(i)
  BY <1>9 DEF Checkpoint
<1>10. CASE Invoke(i)
  BY <1>10 DEF Invoke
<1>11. CASE BodyEnds(i) \/ Commit(i) \/ Abandon(i)
  BY <1>11 DEF BodyEnds, Commit, Abandon
<1>12. CASE Answer(i)
  BY <1>12 DEF Answer
<1>13. CASE Cancel(i)
  BY <1>13 DEF Cancel
<1> QED
  BY <1>1, <1>2, <1>3, <1>4, <1>5, <1>6, <1>7, <1>8, <1>9, <1>10, <1>11, <1>12,
     <1>13
  DEF Proceed

(* Every step keeps what is said of every call.                            *)
LEMMA CallsStep ==
  ASSUME TypeOK, \A i \in Calls : CallOK(i), [Next]_vars
  PROVE  \A i \in Calls : CallOK(i)'
<1> SUFFICES ASSUME NEW j \in Calls PROVE CallOK(j)'
  OBVIOUS
<1>0. CallOK(j)
  OBVIOUS
<1>1. ASSUME NEW i \in Calls, Proceed(i) \/ Answer(i) \/ Cancel(i) PROVE CallOK(j)'
  <2>1. CASE j = i
    BY <1>0, <1>1, <2>1, OwnStep
  <2>2. CASE j # i
    <3>1. Untouched(j)
      BY <1>1, <2>2, OthersUntouched
    <3> QED
      BY <1>0, <3>1
      DEF Untouched, CallOK, Talks, Balanced, Refusal, Body, Reason
  <2> QED BY <2>1, <2>2
<1>2. CASE SetMode
  <2>1. /\ at'[j] = at[j] \/ (at[j] = "waiting" /\ at'[j] = "closing")
        /\ UNCHANGED <<mode, by, talk, ran>>
    BY <1>2 DEF SetMode, TypeOK
  <2> QED
    BY <1>0, <2>1
    DEF CallOK, Talks, Balanced, Refusal, Body, Reason, Asking, Admitted
<1>3. CASE Revoke \/ Abort \/ UNCHANGED vars
  BY <1>0, <1>3
  DEF Revoke, Abort, vars, CallOK, Talks, Balanced, Refusal, Body, Reason
<1> QED
  BY <1>1, <1>2, <1>3 DEF Next

(***************************************************************************)
(* The batch.                                                              *)
(***************************************************************************)
(* Only the start of a call, its commit and its disposal are seen by it.   *)
LEMMA PhasesKept ==
  ASSUME TypeOK, [Next]_vars,
         \A i \in Calls : ~Enter(i) /\ ~Commit(i) /\ ~Abandon(i)
  PROVE  SamePhases
<1> USE DEF TypeOK, SamePhases, Goto, Terminal, Again
<1>1. ASSUME NEW i \in Calls, Judge(i) PROVE SamePhases
  BY <1>1 DEF Judge
<1>2. ASSUME NEW i \in Calls, Review(i) PROVE SamePhases
  BY <1>2 DEF Review
<1>3. ASSUME NEW i \in Calls, Ask(i) \/ Expire(i) PROVE SamePhases
  BY <1>3 DEF Ask, Expire
<1>4. ASSUME NEW i \in Calls, Receive(i) PROVE SamePhases
  BY <1>4 DEF Receive
<1>5. ASSUME NEW i \in Calls, Recheck(i) \/ Reread(i) \/ Checkpoint(i) PROVE SamePhases
  BY <1>5 DEF Recheck, Reread, Checkpoint
<1>6. ASSUME NEW i \in Calls, Invoke(i) \/ BodyEnds(i) PROVE SamePhases
  BY <1>6 DEF Invoke, BodyEnds
<1>7. ASSUME NEW i \in Calls, Answer(i) \/ Cancel(i) PROVE SamePhases
  BY <1>7 DEF Answer, Cancel
<1>8. CASE SetMode
  BY <1>8 DEF SetMode
<1>9. CASE Revoke \/ Abort \/ UNCHANGED vars
  BY <1>9 DEF Revoke, Abort, vars
<1> QED
  BY <1>1, <1>2, <1>3, <1>4, <1>5, <1>6, <1>7, <1>8, <1>9 DEF Next, Proceed

(* A call starts when it is its turn: behind no exclusive call that is not *)
(* over, and if it is exclusive itself, behind none at all.                *)
LEMMA EnterKeepsBatch ==
  ASSUME TypeOK, BatchOK, NEW i \in Calls, Enter(i)
  PROVE  BatchOK'
<1> USE ToolAssumption DEF Calls
<1>1. /\ at[i] = "new" /\ at'[i] \notin {"new", "over"}
      /\ \A j \in Calls \ {i} : at'[j] = at[j]
      /\ ~failure /\ UNCHANGED <<results, failure>>
  BY DEF Enter, MyTurn, Goto, Terminal, TypeOK
<1>2. \A k \in Exclusive : k < i => at[k] = "over"
  <2> SUFFICES ASSUME NEW k \in Exclusive, k < i PROVE at[k] = "over"
    OBVIOUS
  <2>1. k \in Before(i) /\ k \notin Group(i)
    BY DEF Before, Group
  <2> QED BY <2>1 DEF Enter, MyTurn, Done
<1>3. i \in Exclusive => \A j \in Before(i) : at[j] = "over"
  <2> SUFFICES ASSUME i \in Exclusive, NEW j \in Before(i) PROVE at[j] = "over"
    OBVIOUS
  <2>1. j \notin Group(i)
    BY DEF Before, Group
  <2> QED BY <2>1 DEF Enter, MyTurn, Done
<1>4. Prefix'
  BY <1>1 DEF BatchOK, Prefix
<1>5. Barrier'
  BY <1>1, <1>2 DEF BatchOK, Barrier
<1>6. Alone'
  BY <1>1, <1>3 DEF BatchOK, Alone, Before
<1> QED BY <1>4, <1>5, <1>6 DEF BatchOK

(* A commit appends the next result; when it fails, no exclusive call is   *)
(* under way any more.                                                     *)
LEMMA CommitKeepsBatch ==
  ASSUME TypeOK, BatchOK, NEW i \in Calls, Commit(i)
  PROVE  BatchOK'
<1> USE ToolAssumption DEF Calls
<1>1. /\ at[i] = "ready" /\ at'[i] = "over"
      /\ \A j \in Calls \ {i} : at'[j] = at[j]
  BY DEF Commit, Goto, TypeOK
<1>2. \A k \in Exclusive : at'[k] \notin {"new", "over"} => FALSE
  <2> SUFFICES ASSUME NEW k \in Exclusive, at'[k] \notin {"new", "over"} PROVE FALSE
    OBVIOUS
  <2>1. k # i /\ at[k] \notin {"new", "over"}
    BY <1>1
  <2>2. ~(i < k)
    BY <1>1, <2>1 DEF BatchOK, Alone, Before
  <2>3. ~(k < i)
    BY <1>1, <2>1 DEF BatchOK, Barrier
  <2> QED BY <2>1, <2>2, <2>3
<1>3. Alone'
  BY <1>2 DEF Alone
<1>4. Barrier'
  BY <1>1 DEF BatchOK, Barrier
<1>5. Prefix'
  <2>1. CASE ~failure /\ ItsSlot(i) /\ results' = Append(results, i) /\ UNCHANGED failure
    <3>1. Len(results) \in Nat
      BY DEF TypeOK
    <3>2. i = Len(results) + 1
      <4>1. i > Len(results)
        BY <1>1, <2>1, <3>1 DEF BatchOK, Prefix
      <4>2. ASSUME i > Len(results) + 1 PROVE FALSE
        <5>1. Len(results) + 1 \in Calls /\ Len(results) + 1 \in Before(i)
          BY <3>1, <4>2 DEF Before
        <5>2. at[Len(results) + 1] = "over"
          BY <2>1, <5>1 DEF ItsSlot, Done
        <5> QED BY <2>1, <3>1, <5>1, <5>2 DEF BatchOK, Prefix
      <4> QED BY <3>1, <4>1, <4>2
    <3>3. Len(results') = Len(results) + 1 /\ results' = [k \in 1 .. Len(results) + 1 |-> k]
      <4>1. results \in Seq(Calls) /\ results = [k \in 1 .. Len(results) |-> k]
        BY DEF TypeOK, BatchOK, Prefix
      <4>2. /\ Len(results') = Len(results) + 1
            /\ results' \in Seq(Calls)
            /\ \A k \in 1 .. Len(results) : results'[k] = results[k]
            /\ results'[Len(results) + 1] = i
        BY <2>1, <4>1
      <4>3. \A k \in 1 .. Len(results) + 1 : results'[k] = k
        BY <3>1, <3>2, <4>1, <4>2
      <4> QED BY <3>1, <4>2, <4>3
    <3>4. \A j \in Calls : at'[j] = "over" <=> j <= Len(results) + 1
      BY <1>1, <2>1, <3>1, <3>2 DEF BatchOK, Prefix
    <3> QED BY <3>3, <3>4 DEF Prefix
  <2>2. CASE failure' = TRUE /\ UNCHANGED results
    BY <2>2 DEF BatchOK, Prefix
  <2> QED BY <2>1, <2>2 DEF Commit, TypeOK
<1> QED BY <1>3, <1>4, <1>5 DEF BatchOK

(* What is disposed of was behind a failure, and everything before is over.*)
LEMMA AbandonKeepsBatch ==
  ASSUME TypeOK, BatchOK, NEW i \in Calls, Abandon(i)
  PROVE  BatchOK'
<1> USE ToolAssumption DEF Calls
<1>1. /\ at[i] = "new" /\ at'[i] = "over"
      /\ \A j \in Calls \ {i} : at'[j] = at[j]
      /\ failure /\ UNCHANGED <<results, failure>>
      /\ \A j \in Before(i) : at[j] = "over"
  BY DEF Abandon, Goto, Done, TypeOK
<1>2. Prefix'
  BY <1>1 DEF BatchOK, Prefix
<1>3. Barrier'
  BY <1>1 DEF BatchOK, Barrier, Before
<1>4. Alone'
  BY <1>1 DEF BatchOK, Alone
<1> QED BY <1>2, <1>3, <1>4 DEF BatchOK

(* Every step keeps what is said of the batch.                             *)
LEMMA BatchStep == ASSUME TypeOK, BatchOK, [Next]_vars PROVE BatchOK'
<1>1. ASSUME NEW i \in Calls, Enter(i) PROVE BatchOK'
  BY <1>1, EnterKeepsBatch
<1>2. ASSUME NEW i \in Calls, Commit(i) PROVE BatchOK'
  BY <1>2, CommitKeepsBatch
<1>3. ASSUME NEW i \in Calls, Abandon(i) PROVE BatchOK'
  BY <1>3, AbandonKeepsBatch
<1>4. CASE \A i \in Calls : ~Enter(i) /\ ~Commit(i) /\ ~Abandon(i)
  <2>1. SamePhases
    BY <1>4, PhasesKept
  <2>2. Prefix'
    BY <2>1 DEF SamePhases, BatchOK, Prefix
  <2>3. Barrier'
    BY <2>1, ToolAssumption DEF SamePhases, BatchOK, Barrier
  <2>4. Alone'
    BY <2>1, ToolAssumption DEF SamePhases, BatchOK, Alone, Before, Calls
  <2> QED BY <2>2, <2>3, <2>4 DEF BatchOK
<1> QED BY <1>1, <1>2, <1>3, <1>4

(***************************************************************************)
(* The invariant, and what follows from it.                                *)
(***************************************************************************)
(* The invariant holds at the start.                                       *)
LEMMA InitInv == ASSUME Init PROVE IInv
<1>1. TypeOK
  <2>1. results \in Seq(Calls) /\ ran \subseteq Calls /\ refused \subseteq Calls /\ lease \subseteq Calls
    BY DEF Init
  <2>2. /\ asked \in [Calls -> Nat] /\ decided \in [Calls -> Nat]
        /\ changes \in Nat /\ aborted \in BOOLEAN /\ failure \in BOOLEAN
    BY DEF Init
  <2>3. at \in [Calls -> Places] /\ mode \in [Calls -> Modes]
    BY DEF Init, Places, Modes
  <2>4. /\ by \in [Calls -> {"mode", "grant", "review", "person", "denied"}]
        /\ host \in [Calls -> {"none", "open", "once", "session", "deny", "aborted"}]
    BY DEF Init
  <2>5. perm \in Modes /\ granted \in BOOLEAN
    BY DEF Init
  <2> QED BY <2>1, <2>2, <2>3, <2>4, <2>5 DEF TypeOK
<1>2. \A i \in Calls : CallOK(i)
  BY DEF Init, CallOK, Talks, Balanced, Refusal, Body, Reason, Asking, Admitted
<1>3. Prefix
  <2>1. results = <<>> /\ Len(results) = 0
    BY DEF Init
  <2>2. results = [k \in 1 .. Len(results) |-> k]
    BY <2>1
  <2>3. \A i \in Calls : at[i] # "over" /\ ~(i <= Len(results))
    BY <2>1, ToolAssumption DEF Init, Calls
  <2> QED BY <2>2, <2>3 DEF Prefix
<1>4. Barrier /\ Alone
  BY ToolAssumption DEF Init, Barrier, Alone
<1> QED BY <1>1, <1>2, <1>3, <1>4 DEF IInv, BatchOK

(* Every step keeps it.                                                    *)
LEMMA StepInv == ASSUME IInv, [Next]_vars PROVE IInv'
<1>1. TypeOK'
  BY TypesStep DEF IInv
<1>2. (\A i \in Calls : CallOK(i))'
  BY CallsStep DEF IInv, Calls
<1>3. BatchOK'
  BY BatchStep DEF IInv
<1> QED BY <1>1, <1>2, <1>3 DEF IInv

(* The invariant holds in every state.                                     *)
THEOREM CallsInvariant == Spec => []IInv
<1>1. Init => IInv
  BY InitInv
<1>2. IInv /\ [Next]_vars => IInv'
  BY StepInv
<1> QED BY <1>1, <1>2, PTL DEF Spec

(* A call that a person has refused never runs (requestApproval): its      *)
(* refusal is either on its way, when the call is waiting for it, or has   *)
(* denied the call, and a denied call has no body.                         *)
THEOREM RefusalsAreFinal == Spec => []RefusalIsFinal
<1>1. ASSUME IInv PROVE RefusalIsFinal
  <2> SUFFICES ASSUME NEW i \in refused \cap ran PROVE FALSE
    BY DEF RefusalIsFinal
  <2>1. i \in Calls
    BY <1>1 DEF IInv, TypeOK
  <2>2. Talks(i) /\ Refusal(i) /\ Body(i)
    BY <1>1, <2>1 DEF IInv, CallOK
  <2> QED BY <2>2 DEF Talks, Refusal, Body, Asking
<1> QED BY <1>1, CallsInvariant, PTL

(* A body starts in the mode its call was admitted in, admitted by what    *)
(* counts there, with every request decided (stage, runBody).              *)
THEOREM BodiesStartAsAdmitted == Spec => StartsAsAdmitted
<1>1. ASSUME IInv, [Next]_vars, NEW i \in ran' \ ran
      PROVE  /\ perm = mode[i]
             /\ by[i] = "mode" => perm = "full-access"
             /\ by[i] = "review" => perm = "auto-review"
             /\ by[i] # "denied" /\ asked[i] = decided[i]
  <2>1. TypeOK
    BY <1>1 DEF IInv
  <2>2. i \in Calls
    BY <1>1, <2>1, TypesStep DEF TypeOK
  <2>3. Invoke(i)
    <3>1. ASSUME NEW j \in Calls, Proceed(j) \/ Answer(j) \/ Cancel(j) PROVE Invoke(i)
      <4>1. j = i
        BY <1>1, <2>1, <2>2, <3>1, OthersUntouched DEF Untouched
      <4>2. \/ Invoke(i) \/ UNCHANGED ran
        BY <3>1, <4>1
        DEF Proceed, Enter, Judge, Review, Ask, Receive, Expire, Recheck,
              Reread, Checkpoint, BodyEnds, Commit, Abandon, Answer, Cancel
      <4> QED BY <1>1, <4>2
    <3>2. CASE SetMode \/ Revoke \/ Abort \/ UNCHANGED vars
      BY <1>1, <3>2 DEF SetMode, Revoke, Abort, vars
    <3> QED BY <1>1, <3>1, <3>2 DEF Next
  <2>4. Balanced(i) /\ Reason(i)
    BY <1>1, <2>2 DEF IInv, CallOK
  <2>5. at[i] = "staged" /\ by[i] # "denied" /\ perm = mode[i]
    BY <1>1, <2>3 DEF Invoke
  <2> QED BY <2>4, <2>5 DEF Balanced, Reason, Asking, Admitted
<1>2. IInv /\ [Next]_vars =>
        [\A i \in ran' \ ran :
           /\ perm = mode[i]
           /\ by[i] = "mode" => perm = "full-access"
           /\ by[i] = "review" => perm = "auto-review"
           /\ by[i] # "denied" /\ asked[i] = decided[i]]_vars
  BY <1>1
<1> QED BY <1>2, CallsInvariant, PTL DEF Spec, StartsAsAdmitted

(* An exclusive call runs alone: behind all results before it, in front of *)
(* calls that have not been looked at (executeBatch).                      *)
THEOREM ExclusiveSeesEverything == Spec => []ExclusiveSeesAll
<1>1. ASSUME IInv PROVE ExclusiveSeesAll
  <2> USE ToolAssumption DEF Calls
  <2> SUFFICES ASSUME NEW i \in Exclusive, at[i] = "body"
               PROVE  /\ results = [k \in Before(i) |-> k]
                      /\ \A j \in Calls : j > i => at[j] = "new"
    BY DEF ExclusiveSeesAll
  <2>1. i \in Calls /\ Len(results) \in Nat /\ TypeOK /\ Prefix /\ Barrier /\ Alone
    <3>1. i \in Calls /\ TypeOK /\ Prefix /\ Barrier /\ Alone
      BY <1>1 DEF IInv, BatchOK
    <3>2. Len(results) \in Nat
      BY <3>1, LenProperties DEF TypeOK
    <3> QED
      BY <3>1, <3>2
  <2>2. ~failure /\ \A j \in Before(i) : at[j] = "over"
    BY <2>1 DEF Alone
  <2>3. Len(results) = i - 1
    <3>1. ~(i <= Len(results))
      BY <2>1, <2>2 DEF Prefix
    <3>2. i = 1 \/ i - 1 <= Len(results)
      <4>1. ASSUME i # 1 PROVE i - 1 <= Len(results)
        <5>1. i - 1 \in Calls /\ i - 1 \in Before(i)
          BY <2>1, <4>1 DEF Before
        <5> QED BY <2>1, <2>2, <5>1 DEF Prefix
      <4> QED BY <4>1
    <3> QED BY <2>1, <3>1, <3>2
  <2>4. results = [k \in Before(i) |-> k]
    BY <2>1, <2>3 DEF Prefix, Before
  <2>5. ASSUME NEW j \in Calls, j > i PROVE at[j] = "new"
    BY <2>1, <2>5 DEF Barrier
  <2> QED BY <2>4, <2>5
<1> QED BY <1>1, CallsInvariant, PTL

-----------------------------------------------------------------------------
(***************************************************************************)
(* A reported end is not announced again, for any tasks, any number of     *)
(* calls side by side and any number of crashes.  The argument: a report   *)
(* waits for the settlement of its task to be over, and by then the task's *)
(* notice is out of the inbox or will be taken back by an earlier call, so *)
(* that the report, which comes in call order, finds it gone; and a notice *)
(* of a lost task needs a task without a report, since a report follows a  *)
(* settle record in the journal and a crash keeps what is before a row.    *)
(***************************************************************************)
(* Row i of J has an earlier row <<what, t>>. *)
Ago(J, what, t, i) == \E k \in DOMAIN J : k < i /\ J[k] = <<what, t>>

(* What each row of a journal finds before it.  This is true of a prefix if it *)
(* is true of the whole, which is what a crash needs.                          *)
RowOK(J, i, t) ==
    /\ J[i] = <<"settle", t>> => ~Ago(J, "settle", t, i) /\ Ago(J, "start", t, i)
    /\ J[i] = <<"done", t>> => ~Ago(J, "settle", t, i) /\ Ago(J, "start", t, i)
    /\ J[i] = <<"lost", t>> => ~Ago(J, "report", t, i) /\ Ago(J, "start", t, i)
    /\ J[i] \in {<<"read done", t>>, <<"read lost", t>>} => ~Ago(J, "report", t, i)
    /\ J[i] = <<"report", t>> =>
          /\ Ago(J, "settle", t, i) /\ ~Ago(J, "lost", t, i)
          /\ Ago(J, "done", t, i) => Ago(J, "read done", t, i) \/ Ago(J, "discard", t, i)

RowsOK(J) == \A i \in DOMAIN J, t \in Tasks : RowOK(J, i, t)

(* No call concerns u; the first call that does takes its notice back. *)
NoCall(u) == \A c \in DOMAIN call : u \notin call[c].of

Taking(u) ==
    \E c \in DOMAIN call : /\ call[c] = [at |-> "discard", of |-> {u}]
                           /\ \A b \in DOMAIN call : b < c => u \notin call[b].of

(* A task that this process does not know is settled, or on its way to it. *)
Gone(u) ==
    status[u] = "none" =>
        /\ settling[u] = "no" /\ NoCall(u)
        /\ recon[u] = "settle" => Has("start", u) /\ ~Has("settle", u)
        /\ recon[u] = "notice" => Has("start", u) /\ Has("settle", u) /\ ~Has("report", u)
        /\ recon[u] = "no" => (Has("start", u) => Has("settle", u))

(* A task of this process: its records, and who reports its result. *)
Known(u) ==
    status[u] # "none" =>
        /\ recon[u] = "no" /\ ~Has("lost", u)
        /\ Has("settle", u) <=> settling[u] = "over"
        /\ status[u] = "running" => settling[u] = "no" /\ ~Has("done", u)
        /\ status[u] = "ended" => settling[u] # "no" /\ Has("start", u)

(* A notice that may be read is one that no call reports, or takes back first. *)
Spoken(u) ==
    /\ settling[u] = "notice" => ~Has("done", u)
    /\ settling[u] \in {"notice", "late"} => Suppressed(u) \/ NoCall(u)
    /\ settling[u] = "quiet" => ~InInbox("done", u)
    /\ settling[u] \in {"notified", "over"} /\ InInbox("done", u) =>
          \/ delivery[u] = "enqueued" /\ NoCall(u)
          \/ delivery[u] = "wait" /\ Taking(u)

TaskSound(u) == Gone(u) /\ Known(u) /\ Spoken(u)

(* Which tasks a call may concern. *)
CallSound(k) ==
    /\ k.at = "listen" => \A t \in k.of : status[t] = "running"
    /\ k.at \in {"discard", "settled"} => \E t \in Tasks : k.of = {t} /\ status[t] = "ended"
    /\ k.at = "stop" => \E t \in Tasks : /\ k.of = {t} /\ status[t] # "none"
                                         /\ Has("start", t) /\ delivery[t] = "stopped"
    /\ k.at = "void" => k.of = {}

NoticesInv ==
    /\ BackgroundTypeOK /\ RowsOK(journal)
    /\ \A u \in Tasks : TaskSound(u)
    /\ \A c \in DOMAIN call : CallSound(call[c])

(* A function on 1 .. n is a sequence. *)
LEMMA SeqOfFunction ==
  ASSUME NEW S, NEW n \in Nat, NEW f, DOMAIN f = 1 .. n, f = [i \in 1 .. n |-> f[i]],
         \A i \in 1 .. n : f[i] \in S
  PROVE  f \in Seq(S) /\ Len(f) = n
OBVIOUS
-----------------------------------------------------------------------------
(***************************************************************************)
(* Rows that are appended, claimed and lost.                               *)
(***************************************************************************)
Row == Kinds \X Tasks

(* Whether <<what, t>> may be the next row. *)
Fits(what, t) ==
    /\ what \in {"settle", "done"} => ~Has("settle", t) /\ Has("start", t)
    /\ what = "lost" => ~Has("report", t) /\ Has("start", t)
    /\ what \in {"read done", "read lost"} => ~Has("report", t)
    /\ what = "report" => /\ Has("settle", t) /\ ~Has("lost", t)
                          /\ Has("done", t) => Has("read done", t) \/ Has("discard", t)

(* <<what, t>> is the only new row. *)
NewRow(what, t) == \A w, u : Has(w, u)' <=> Has(w, u) \/ (w = what /\ u = t)

(* What stands before a row does not change when rows follow. *)
LEMMA RowsStay ==
  ASSUME NEW J \in Seq(Row), NEW K \in Seq(Row), Len(J) <= Len(K),
         \A i \in 1 .. Len(J) : K[i] = J[i]
  PROVE  \A i \in 1 .. Len(J) : \A t : RowOK(K, i, t) <=> RowOK(J, i, t)
<1>1. /\ DOMAIN J = 1 .. Len(J) /\ DOMAIN K = 1 .. Len(K)
      /\ Len(J) \in Nat /\ Len(K) \in Nat
  BY LenProperties
<1> SUFFICES ASSUME NEW i \in 1 .. Len(J), NEW t PROVE RowOK(K, i, t) <=> RowOK(J, i, t)
  OBVIOUS
<1>2. \A what : Ago(K, what, t, i) <=> Ago(J, what, t, i)
  <2>1. \A k : k \in DOMAIN K /\ k < i <=> k \in DOMAIN J /\ k < i
    BY <1>1
  <2>2. \A k \in DOMAIN J : K[k] = J[k]
    BY <1>1
  <2> QED
    BY <2>1, <2>2, Zenon DEF Ago
<1>3. K[i] = J[i]
  OBVIOUS
<1> QED
  BY <1>2, <1>3, Zenon DEF RowOK

(* A row that fits may be appended. *)
LEMMA LoggedRow ==
  ASSUME NEW what \in Kinds, NEW t \in Tasks, journal \in Seq(Row),
         Log(what, t), RowsOK(journal), Fits(what, t)
  PROVE  /\ journal' \in Seq(Row) /\ Len(journal') = Len(journal) + 1
         /\ RowsOK(journal') /\ NewRow(what, t)
<1> DEFINE n == Len(journal) + 1
<1>1. /\ DOMAIN journal = 1 .. Len(journal) /\ Len(journal) \in Nat
  BY LenProperties
<1>2. <<what, t>> \in Row
  BY DEF Row
<1>3. /\ journal' \in Seq(Row) /\ Len(journal') = n
      /\ \A i \in 1 .. Len(journal) : journal'[i] = journal[i]
      /\ journal'[n] = <<what, t>>
  BY <1>2, AppendProperties DEF Log
<1>4. DOMAIN journal' = 1 .. n
  BY <1>3, LenProperties
<1>5. /\ \A i \in DOMAIN journal' : (i \in DOMAIN journal /\ i < n) \/ i = n
      /\ \A i \in DOMAIN journal : i \in DOMAIN journal' /\ i < n /\ journal'[i] = journal[i]
      /\ n \in DOMAIN journal' /\ ~(n < n)
  BY <1>1, <1>3, <1>4
<1> HIDE DEF n
<1>6. \A w, u : Has(w, u)' <=> Has(w, u) \/ <<w, u>> = <<what, t>>
  BY <1>3, <1>5, Zenon DEF Has
<1>7. \A w, u : Ago(journal', w, u, n) <=> Has(w, u)
  BY <1>3, <1>5, Zenon DEF Ago, Has
<1>8. ASSUME NEW i \in DOMAIN journal', NEW u \in Tasks PROVE RowOK(journal', i, u)
  <2>1. CASE i \in DOMAIN journal
    <3>1. RowOK(journal, i, u)
      BY <2>1 DEF RowsOK
    <3> QED
      BY <1>1, <1>3, <2>1, <3>1, RowsStay DEF n
  <2>2. CASE i = n
    <3>1. CASE u = t
      <4>1. \A w : journal'[n] = <<w, t>> <=> w = what
        BY <1>3
      <4>2. \A w : Ago(journal', w, t, n) <=> Has(w, t)
        BY <1>7
      <4> QED
        BY <2>2, <3>1, <4>1, <4>2 DEF RowOK, Fits
    <3>2. CASE u # t
      <4>1. \A w : journal'[n] # <<w, u>>
        BY <1>3, <3>2
      <4> QED
        BY <2>2, <4>1 DEF RowOK
    <3> QED
      BY <3>1, <3>2
  <2> QED
    BY <1>5, <2>1, <2>2
<1>9. \A w, u : <<w, u>> = <<what, t>> <=> w = what /\ u = t
  OBVIOUS
<1> QED
  BY <1>3, <1>6, <1>8, <1>9 DEF RowsOK, NewRow, n

(* A reported task has no notice in the inbox, and will not get one. *)
LEMMA InboxUnreported ==
  ASSUME RowsOK(journal), journal \in Seq(Row), NEW t \in Tasks, Has("report", t)
  PROVE  ~InInbox("done", t) /\ ~InInbox("lost", t)
<1>1. DOMAIN journal = 1 .. Len(journal) /\ Len(journal) \in Nat
  BY LenProperties
<1>2. PICK j \in DOMAIN journal : journal[j] = <<"report", t>>
  BY DEF Has
<1>3. /\ Ago(journal, "settle", t, j) /\ ~Ago(journal, "lost", t, j)
      /\ Ago(journal, "done", t, j)
           => Ago(journal, "read done", t, j) \/ Ago(journal, "discard", t, j)
  BY <1>2 DEF RowsOK, RowOK
<1>4. \A w : Ago(journal, w, t, j) => Has(w, t)
  BY Zenon DEF Ago, Has
<1>5. ~Has("lost", t)
  <2> SUFFICES ASSUME NEW i \in DOMAIN journal, journal[i] = <<"lost", t>> PROVE FALSE
    BY DEF Has
  <2>1. ~Ago(journal, "report", t, i)
    BY DEF RowsOK, RowOK
  <2>2. ~(j < i) /\ ~(i < j)
    BY <1>2, <1>3, <2>1, Zenon DEF Ago
  <2>3. i = j
    BY <1>1, <2>2
  <2> QED
    BY <1>2, <2>3
<1>6. Has("done", t) => Has("read done", t) \/ Has("discard", t)
  <2> SUFFICES ASSUME NEW i \in DOMAIN journal, journal[i] = <<"done", t>>
               PROVE  Has("read done", t) \/ Has("discard", t)
    BY DEF Has
  <2>1. ~Ago(journal, "settle", t, i)
    BY DEF RowsOK, RowOK
  <2>2. PICK k \in DOMAIN journal : k < j /\ journal[k] = <<"settle", t>>
    BY <1>3 DEF Ago
  <2>3. ~(k < i) /\ i # k
    BY <2>1, <2>2 DEF Ago
  <2>4. i < j
    BY <1>1, <2>2, <2>3
  <2>5. Ago(journal, "done", t, j)
    BY <2>4 DEF Ago
  <2> QED
    BY <1>3, <1>4, <2>5
<1>7. Read("done") = "read done"
  BY DEF Read
<1> QED
  BY <1>5, <1>6, <1>7 DEF InInbox

(* The claims of a step are appended and claim what is in the inbox. *)
LEMMA ClaimedRows ==
  ASSUME journal \in Seq(Row), RowsOK(journal), Step
  PROVE  /\ journal' \in Seq(Row) /\ Len(journal) <= Len(journal')
         /\ RowsOK(journal')
         /\ \A w, u : w \in {"start", "settle", "done", "lost", "report"}
                         => (Has(w, u)' <=> Has(w, u))
         /\ \A w, u : Has(w, u) => Has(w, u)'
<1>1. DOMAIN journal = 1 .. Len(journal) /\ Len(journal) \in Nat
  BY LenProperties
<1>2. PICK rows \in Claims : journal' = journal \o [k \in DOMAIN rows |-> Claim(rows[k])]
  BY DEF Step
<1> DEFINE m == Cardinality(Inbox)
           new == [k \in DOMAIN rows |-> Claim(rows[k])]
<1>3. m \in Nat
  <2>1. IsFiniteSet(Inbox)
    <3>1. IsFiniteSet(1 .. Len(journal))
      BY <1>1, FS_Interval
    <3>2. Inbox \subseteq 1 .. Len(journal)
      BY <1>1 DEF Inbox
    <3> QED
      BY <3>1, <3>2, FS_Subset
  <2> QED
    BY <2>1, FS_CardinalityType
<1>4. rows \in [1 .. m -> Inbox] /\ DOMAIN rows = 1 .. m
  BY DEF Claims
<1>5. ASSUME NEW i \in Inbox
      PROVE  \E n \in Notices, t \in Tasks :
                /\ Claim(i) = <<Read(n), t>> /\ InInbox(n, t)
  <2>1. journal[i] \in Row /\ journal[i][1] \in Notices
        /\ InInbox(journal[i][1], journal[i][2])
    BY <1>1, ElementOfSeq DEF Inbox
  <2>2. journal[i][2] \in Tasks
    BY <2>1 DEF Row
  <2> QED
    BY <2>1, <2>2 DEF Claim
<1>6. \A n \in Notices : Read(n) \in {"read done", "read lost", "read userStop"}
                         /\ Read(n) \in Kinds /\ (Read(n) = "read done" => n = "done")
                         /\ (Read(n) = "read lost" => n = "lost")
  BY DEF Notices, Read, Kinds
<1>7. ASSUME NEW k \in 1 .. m
      PROVE  /\ new[k] \in Row
             /\ \E n \in Notices, t \in Tasks : new[k] = <<Read(n), t>> /\ InInbox(n, t)
  <2>1. rows[k] \in Inbox /\ new[k] = Claim(rows[k])
    BY <1>4
  <2>2. PICK n \in Notices, t \in Tasks : Claim(rows[k]) = <<Read(n), t>> /\ InInbox(n, t)
    BY <1>5, <2>1
  <2>3. <<Read(n), t>> \in Row
    BY <1>6 DEF Row
  <2> HIDE DEF new
  <2> QED
    BY <2>1, <2>2, <2>3
<1>8. new \in Seq(Row) /\ Len(new) = m
  <2>1. DOMAIN new = 1 .. m /\ new = [i \in 1 .. m |-> new[i]]
    BY <1>4
  <2>2. \A i \in 1 .. m : new[i] \in Row
    BY <1>7
  <2> HIDE DEF new, m
  <2> QED
    BY <1>3, <2>1, <2>2, SeqOfFunction
<1>9. journal' = journal \o new
  BY <1>2
<1> HIDE DEF new, m
<1>10. /\ journal' \in Seq(Row) /\ Len(journal') = Len(journal) + m
       /\ \A i \in 1 .. Len(journal) : journal'[i] = journal[i]
       /\ \A i \in Len(journal) + 1 .. Len(journal) + m :
             journal'[i] = new[i - Len(journal)] /\ i - Len(journal) \in 1 .. m
  <2>1. /\ journal' \in Seq(Row) /\ Len(journal') = Len(journal) + m
        /\ \A i \in 1 .. Len(journal) + m : journal'[i] =
              IF i <= Len(journal) THEN journal[i] ELSE new[i - Len(journal)]
    BY <1>8, <1>9, ConcatProperties
  <2> QED
    BY <1>1, <1>3, <2>1
<1>11. DOMAIN journal' = 1 .. Len(journal) + m
  BY <1>10, LenProperties
<1>12. /\ \A i \in DOMAIN journal : i \in DOMAIN journal' /\ journal'[i] = journal[i]
       /\ \A i \in DOMAIN journal' : i \notin DOMAIN journal =>
             \E n \in Notices, t \in Tasks : journal'[i] = <<Read(n), t>> /\ InInbox(n, t)
  <2>1. \A i \in DOMAIN journal : i \in DOMAIN journal' /\ journal'[i] = journal[i]
    BY <1>1, <1>3, <1>10, <1>11
  <2>2. ASSUME NEW i \in DOMAIN journal', i \notin DOMAIN journal
        PROVE  \E n \in Notices, t \in Tasks : journal'[i] = <<Read(n), t>> /\ InInbox(n, t)
    <3>1. i \in Len(journal) + 1 .. Len(journal) + m
      BY <1>1, <1>3, <1>11, <2>2
    <3> QED
      BY <1>7, <1>10, <3>1
  <2> QED
    BY <2>1, <2>2
<1>13. \A w, u : Has(w, u) => Has(w, u)'
  BY <1>12, Zenon DEF Has
<1>14. ASSUME NEW w, NEW u, w \in {"start", "settle", "done", "lost", "report"}, Has(w, u)'
       PROVE  Has(w, u)
  <2>1. PICK i \in DOMAIN journal' : journal'[i] = <<w, u>>
    BY <1>14 DEF Has
  <2>2. i \in DOMAIN journal
    <3> SUFFICES ASSUME i \notin DOMAIN journal PROVE FALSE
      OBVIOUS
    <3>1. PICK n \in Notices, t \in Tasks : journal'[i] = <<Read(n), t>>
      BY <1>12
    <3>2. Read(n) = w
      BY <2>1, <3>1
    <3> QED
      BY <1>6, <1>14, <3>2
  <2> QED
    BY <1>12, <2>1, <2>2 DEF Has
<1>15. ASSUME NEW i \in DOMAIN journal', NEW u \in Tasks PROVE RowOK(journal', i, u)
  <2>1. CASE i \in DOMAIN journal
    <3>1. RowOK(journal, i, u)
      BY <2>1 DEF RowsOK
    <3> QED
      BY <1>1, <1>3, <1>10, <2>1, <3>1, RowsStay
  <2>2. CASE i \notin DOMAIN journal
    <3>1. PICK n \in Notices, t \in Tasks : journal'[i] = <<Read(n), t>> /\ InInbox(n, t)
      BY <1>12, <2>2
    <3>2. n \in {"done", "lost"} => ~Has("report", t)
      BY <3>1, InboxUnreported
    <3>3. Ago(journal', "report", t, i) => Has("report", t)'
      BY Zenon DEF Ago, Has
    <3>4. n \in {"done", "lost"} => ~Ago(journal', "report", t, i)
      BY <1>14, <3>2, <3>3
    <3>5. \A w : journal'[i] = <<w, u>> => w = Read(n) /\ u = t
      BY <3>1
    <3>6. /\ Read(n) \notin {"settle", "done", "lost", "report"}
          /\ Read(n) \in {"read done", "read lost"} => n \in {"done", "lost"}
      BY <1>6
    <3>7. journal'[i] \in {<<"read done", u>>, <<"read lost", u>>}
             => ~Ago(journal', "report", u, i)
      BY <3>4, <3>5, <3>6
    <3>8. journal'[i] \notin {<<"settle", u>>, <<"done", u>>, <<"lost", u>>, <<"report", u>>}
      BY <3>5, <3>6
    <3> QED
      BY <3>7, <3>8 DEF RowOK
  <2> QED
    BY <2>1, <2>2
<1> QED
  BY <1>1, <1>3, <1>10, <1>13, <1>14, <1>15 DEF RowsOK

(* A crash leaves a prefix of the journal, in which every row still finds what *)
(* it needs.                                                                   *)
LEMMA CutRows ==
  ASSUME journal \in Seq(Row), RowsOK(journal), NEW n \in 0 .. Len(journal),
         journal' = SubSeq(journal, 1, n)
  PROVE  /\ journal' \in Seq(Row) /\ Len(journal') = n /\ RowsOK(journal')
         /\ \A w, u : Has(w, u)' <=> \E i \in 1 .. n : journal'[i] = <<w, u>>
<1>1. DOMAIN journal = 1 .. Len(journal) /\ Len(journal) \in Nat /\ n \in Nat
  BY LenProperties
<1>2. \A i \in 1 .. n : journal[i] \in Row
  BY <1>1, ElementOfSeq
<1>3. /\ journal' \in Seq(Row) /\ Len(journal') = n
      /\ \A i \in 1 .. n : journal'[i] = journal[i]
  BY <1>1, <1>2, SubSeqProperties
<1>4. DOMAIN journal' = 1 .. n
  BY <1>3, LenProperties
<1>5. ASSUME NEW i \in 1 .. n, NEW t \in Tasks PROVE RowOK(journal', i, t)
  <2>1. RowOK(journal, i, t)
    BY <1>1 DEF RowsOK
  <2>2. Len(journal') <= Len(journal) /\ \A k \in 1 .. Len(journal') : journal[k] = journal'[k]
    BY <1>1, <1>3
  <2>3. RowOK(journal, i, t) <=> RowOK(journal', i, t)
    BY <1>3, <2>2, RowsStay
  <2> QED
    BY <2>1, <2>3
<1>6. \A w, u : Has(w, u)' <=> \E i \in 1 .. n : journal'[i] = <<w, u>>
  BY <1>4, Zenon DEF Has
<1> QED
  BY <1>3, <1>4, <1>5, <1>6 DEF RowsOK
(* What a journal says of a task that has no start record, or a report. *)
LEMMA StartComesFirst ==
  ASSUME RowsOK(journal), NEW t \in Tasks
  PROVE  /\ Has("settle", t) \/ Has("done", t) \/ Has("lost", t) => Has("start", t)
         /\ Has("report", t) => Has("settle", t)
<1>1. \A w, i : Ago(journal, w, t, i) => Has(w, t)
  BY Zenon DEF Ago, Has
<1> QED
  BY <1>1 DEF RowsOK, RowOK, Has

-----------------------------------------------------------------------------
(***************************************************************************)
(* What an operation leaves alone.                                         *)
(***************************************************************************)
(* The records and the notice of u are as they were; it may have been read. *)
SameRows(u) ==
    /\ \A w \in {"start", "settle", "done", "lost", "report"} : Has(w, u)' <=> Has(w, u)
    /\ InInbox("done", u)' => InInbox("done", u)

SameTask(u) ==
    /\ status'[u] = status[u] /\ delivery'[u] = delivery[u]
    /\ settling'[u] = settling[u] /\ recon'[u] = recon[u]

SameCalls(u) == (NoCall(u) => NoCall(u)') /\ (Taking(u) => Taking(u)')

(* A task of which an operation changes nothing stays sound. *)
LEMMA TaskStays ==
  ASSUME NEW u \in Tasks, TaskSound(u), SameRows(u), SameTask(u), SameCalls(u)
  PROVE  TaskSound(u)'
<1>1. Gone(u)'
  BY DEF TaskSound, Gone, SameRows, SameTask, SameCalls
<1>2. Known(u)'
  BY DEF TaskSound, Known, SameRows, SameTask
<1>3. Spoken(u)'
  <2>1. Suppressed(u)' <=> Suppressed(u)
    BY DEF Suppressed, SameTask
  <2> QED
    BY <2>1 DEF TaskSound, Spoken, SameRows, SameTask, SameCalls
<1> QED
  BY <1>1, <1>2, <1>3 DEF TaskSound

(* The journal as it is. *)
LEMMA NoRow ==
  ASSUME UNCHANGED journal, NEW u
  PROVE  SameRows(u) /\ \A w : Has(w, u)' <=> Has(w, u)
<1>1. \A w : Has(w, u)' <=> Has(w, u)
  BY DEF Has
<1> QED
  BY <1>1 DEF SameRows, InInbox

(* A row of another task, or one that no record and no claim is. *)
LEMMA OtherRow ==
  ASSUME NEW what, NEW t, NEW u, NewRow(what, t),
         u # t \/ what \notin {"start", "settle", "done", "lost", "report"}
  PROVE  SameRows(u)
<1>1. \A w \in {"start", "settle", "done", "lost", "report"} : Has(w, u)' <=> Has(w, u)
  BY DEF NewRow
<1>2. InInbox("done", u)' => InInbox("done", u)
  BY <1>1 DEF InInbox, Read, NewRow
<1> QED
  BY <1>1, <1>2 DEF SameRows

(* A discard: the notice is out of the inbox, and the records are as they were. *)
LEMMA Discarded ==
  ASSUME journal \in Seq(Row), RowsOK(journal), NEW t \in Tasks, Discard(t)
  PROVE  /\ journal' \in Seq(Row) /\ Len(journal) <= Len(journal') /\ RowsOK(journal')
         /\ \A u : SameRows(u)
         /\ ~InInbox("done", t)'
<1>0. Len(journal) \in Nat
  BY LenProperties
<1>1. CASE InInbox("done", t)
  <2>1. Log("discard", t)
    BY <1>1 DEF Discard
  <2>2. "discard" \in Kinds /\ Fits("discard", t)
    BY DEF Kinds, Fits
  <2>3. /\ journal' \in Seq(Row) /\ Len(journal') = Len(journal) + 1 /\ RowsOK(journal')
        /\ NewRow("discard", t)
    BY <2>1, <2>2, LoggedRow
  <2>4. ASSUME NEW u PROVE SameRows(u)
    BY <2>3, OtherRow
  <2>5. ~InInbox("done", t)'
    BY <2>3 DEF InInbox, NewRow
  <2> QED
    BY <1>0, <2>3, <2>4, <2>5
<1>2. CASE ~InInbox("done", t)
  <2>1. UNCHANGED journal
    BY <1>2 DEF Discard
  <2>2. \A u : SameRows(u)
    BY <2>1, NoRow
  <2>3. ~InInbox("done", t)'
    BY <1>2, <2>2 DEF SameRows
  <2> QED
    BY <1>0, <2>1, <2>2, <2>3
<1> QED
  BY <1>1, <1>2

-----------------------------------------------------------------------------
(***************************************************************************)
(* The calls.                                                              *)
(***************************************************************************)
CallRec == [at : {"listen", "discard", "settled", "stop", "void"}, of : SUBSET Tasks]

(* A call stays sound while the tasks it concerns do not go back. *)
Onward(t) ==
    /\ status[t] = "running" => status'[t] = "running"
    /\ status[t] = "ended" => status'[t] = "ended"
    /\ status[t] # "none" => status'[t] # "none"
    /\ Has("start", t) => Has("start", t)'
    /\ delivery[t] = "stopped" => delivery'[t] = "stopped"

(* A call is sound or not by the state of the tasks it concerns. *)
LEMMA CallStays ==
  ASSUME NEW k \in CallRec, CallSound(k), \A t \in Tasks : Onward(t)
  PROVE  CallSound(k)'
<1>1. k.of \subseteq Tasks
  BY DEF CallRec
<1> QED
  BY <1>1 DEF CallSound, Onward

(* No call changes. *)
LEMMA CallsStay ==
  ASSUME call \in Seq(CallRec), \A c \in DOMAIN call : CallSound(call[c]),
         UNCHANGED call, \A t \in Tasks : Onward(t)
  PROVE  /\ \A c \in DOMAIN call' : CallSound(call[c])'
         /\ \A u : SameCalls(u)
<1>1. \A c \in DOMAIN call : call[c] \in CallRec
  BY ElementOfSeq, LenProperties
<1>2. \A c \in DOMAIN call' : CallSound(call[c])'
  <2> SUFFICES ASSUME NEW c \in DOMAIN call PROVE CallSound(call[c])'
    OBVIOUS
  <2> DEFINE k == call[c]
  <2>1. k \in CallRec /\ CallSound(k) /\ call'[c] = k
    BY <1>1
  <2> HIDE DEF k
  <2>2. CallSound(call[c])'
    BY <2>1, CallStays DEF CallSound
  <2> QED
    BY <2>2
<1>3. \A u : SameCalls(u)
  BY DEF SameCalls, NoCall, Taking
<1> QED
  BY <1>2, <1>3

(* A call starts. *)
LEMMA CallAdded ==
  ASSUME call \in Seq(CallRec), \A c \in DOMAIN call : CallSound(call[c]),
         NEW k \in CallRec, call' = Append(call, k), CallSound(k)',
         \A t \in Tasks : Onward(t)
  PROVE  /\ call' \in Seq(CallRec) /\ Len(call') = Len(call) + 1
         /\ \A c \in DOMAIN call' : CallSound(call[c])'
         /\ \A u : u \notin k.of => SameCalls(u)
         /\ \A u : Taking(u) => Taking(u)'
         /\ \A u : NoCall(u) /\ k = [at |-> "discard", of |-> {u}] => Taking(u)'
<1>1. DOMAIN call = 1 .. Len(call) /\ Len(call) \in Nat
  BY LenProperties
<1>2. /\ call' \in Seq(CallRec) /\ Len(call') = Len(call) + 1
      /\ \A c \in 1 .. Len(call) : call'[c] = call[c]
      /\ call'[Len(call) + 1] = k
  BY AppendProperties
<1>3. DOMAIN call' = 1 .. Len(call) + 1
  BY <1>2, LenProperties
<1> DEFINE n == Len(call) + 1
<1>4. /\ \A c \in DOMAIN call' : c \in DOMAIN call \/ c = n
      /\ \A c \in DOMAIN call : c \in DOMAIN call' /\ call'[c] = call[c] /\ c < n /\ ~(n < c)
      /\ n \in DOMAIN call' /\ call'[n] = k /\ ~(n < n)
  BY <1>1, <1>2, <1>3
<1> HIDE DEF n
<1>5. ASSUME NEW c \in DOMAIN call' PROVE CallSound(call[c])'
  <2>1. CASE c \in DOMAIN call
    <3> DEFINE l == call[c]
    <3>1. l \in CallRec /\ CallSound(l) /\ call'[c] = l
      BY <1>1, <1>4, <2>1, ElementOfSeq
    <3> HIDE DEF l
    <3> QED
      BY <3>1, CallStays DEF CallSound
  <2>2. CASE c = n
    BY <1>4, <2>2 DEF CallSound
  <2> QED
    BY <1>4, <2>1, <2>2
<1>6. ASSUME NEW u, Taking(u) PROVE Taking(u)'
  <2>1. PICK c \in DOMAIN call : /\ call[c] = [at |-> "discard", of |-> {u}]
                                 /\ \A b \in DOMAIN call : b < c => u \notin call[b].of
    BY <1>6 DEF Taking
  <2>2. \A b \in DOMAIN call' : b < c => u \notin call'[b].of
    BY <1>4, <2>1
  <2> QED
    BY <1>4, <2>1, <2>2 DEF Taking
<1>7. ASSUME NEW u, u \notin k.of PROVE SameCalls(u)
  BY <1>4, <1>6, <1>7 DEF SameCalls, NoCall
<1>8. ASSUME NEW u, NoCall(u), k = [at |-> "discard", of |-> {u}] PROVE Taking(u)'
  <2>1. \A b \in DOMAIN call' : b < n => u \notin call'[b].of
    BY <1>4, <1>8 DEF NoCall
  <2> QED
    BY <1>4, <1>8, <2>1 DEF Taking
<1> QED
  BY <1>2, <1>5, <1>6, <1>7, <1>8

(* Calls change in place. *)
LEMMA CallsChange ==
  ASSUME NEW u, DOMAIN call' = DOMAIN call,
         \A c \in DOMAIN call : /\ call'[c].of \subseteq call[c].of
                                /\ call[c] = [at |-> "discard", of |-> {u}]
                                     => call'[c] = call[c]
  PROVE  SameCalls(u)
<1>1. ASSUME Taking(u) PROVE Taking(u)'
  <2>1. PICK c \in DOMAIN call : /\ call[c] = [at |-> "discard", of |-> {u}]
                                 /\ \A b \in DOMAIN call : b < c => u \notin call[b].of
    BY <1>1 DEF Taking
  <2> QED
    BY <2>1 DEF Taking
<1> QED
  BY <1>1 DEF SameCalls, NoCall

(* The first call returns. *)
LEMMA CallReturned ==
  ASSUME call \in Seq(CallRec), \A c \in DOMAIN call : CallSound(call[c]),
         Busy, call' = Tail(call), Head(call).at # "discard", \A t \in Tasks : Onward(t)
  PROVE  /\ call' \in Seq(CallRec) /\ Len(call') <= Len(call)
         /\ \A c \in DOMAIN call' : CallSound(call[c])'
         /\ \A u : SameCalls(u)
<1>1. DOMAIN call = 1 .. Len(call) /\ Len(call) \in Nat
  BY LenProperties
<1>2. /\ Len(call) # 0 /\ Head(call) = call[1]
      /\ call' \in Seq(CallRec) /\ Len(call') = Len(call) - 1
      /\ \A i \in 1 .. Len(call) - 1 : call'[i] = call[i + 1]
  BY <1>1, HeadTailProperties DEF Busy
<1>3. DOMAIN call' = 1 .. Len(call) - 1
  BY <1>2, LenProperties
<1>4. \A c \in DOMAIN call' : c + 1 \in DOMAIN call /\ call'[c] = call[c + 1]
  BY <1>1, <1>2, <1>3
<1>5. ASSUME NEW c \in DOMAIN call' PROVE CallSound(call[c])'
  <2> DEFINE l == call[c + 1]
  <2>1. l \in CallRec /\ CallSound(l) /\ call'[c] = l
    BY <1>1, <1>4, ElementOfSeq
  <2> HIDE DEF l
  <2> QED
    BY <2>1, CallStays DEF CallSound
<1>6. ASSUME NEW u, Taking(u) PROVE Taking(u)'
  <2>1. PICK c \in DOMAIN call : /\ call[c] = [at |-> "discard", of |-> {u}]
                                 /\ \A b \in DOMAIN call : b < c => u \notin call[b].of
    BY <1>6 DEF Taking
  <2>2. c # 1
    BY <1>2, <2>1
  <2>3. c - 1 \in DOMAIN call' /\ call'[c - 1] = call[c]
    BY <1>1, <1>2, <1>3, <2>2
  <2>4. ASSUME NEW b \in DOMAIN call', b < c - 1 PROVE u \notin call'[b].of
    <3>1. b + 1 \in DOMAIN call /\ b + 1 < c
      BY <1>1, <1>3, <1>4, <2>4
    <3> QED
      BY <1>4, <2>1, <3>1
  <2> QED
    BY <2>1, <2>3, <2>4 DEF Taking
<1>7. ASSUME NEW u, NoCall(u) PROVE NoCall(u)'
  BY <1>4, <1>7 DEF NoCall
<1> QED
  BY <1>1, <1>2, <1>5, <1>6, <1>7 DEF SameCalls

-----------------------------------------------------------------------------
(***************************************************************************)
(* The operations of a task.                                               *)
(***************************************************************************)
(* An operation on t keeps the invariant if it leaves the other tasks alone and *)
(* t, the rows and the calls sound.                                             *)
LEMMA OneTask ==
  ASSUME NoticesInv, BackgroundTypeOK', RowsOK(journal'),
         \A c \in DOMAIN call' : CallSound(call[c])', NEW t, TaskSound(t)',
         \A u \in Tasks : u # t => SameTask(u) /\ SameRows(u) /\ SameCalls(u)
  PROVE  NoticesInv'
<1>1. ASSUME NEW u \in Tasks PROVE TaskSound(u)'
  <2>1. CASE u # t
    BY <2>1, TaskStays DEF NoticesInv
  <2>2. CASE u = t
    BY <2>2
  <2> QED
    BY <2>1, <2>2
<1> QED
  BY <1>1 DEF NoticesInv

(* What the invariant says of the journal and the calls as sequences. *)
LEMMA SoundSequences ==
  ASSUME NoticesInv
  PROVE  /\ journal \in Seq(Row) /\ RowsOK(journal)
         /\ call \in Seq(CallRec) /\ DOMAIN call = 1 .. Len(call) /\ Len(call) \in Nat
         /\ \A c \in DOMAIN call : call[c] \in CallRec /\ CallSound(call[c])
<1>1. journal \in Seq(Row) /\ call \in Seq(CallRec)
  BY DEF NoticesInv, BackgroundTypeOK, loop, CallRec, Row
<1>2. DOMAIN call = 1 .. Len(call) /\ Len(call) \in Nat
  BY <1>1, LenProperties
<1>3. \A c \in DOMAIN call : call[c] \in CallRec
  BY <1>1, <1>2, ElementOfSeq
<1> QED
  BY <1>1, <1>2, <1>3 DEF NoticesInv

(* A registered task has no record and no notice yet. *)
LEMMA RegisterSound ==
  ASSUME NoticesInv, NEW t \in Tasks, Register(t) PROVE NoticesInv'
<1>1. /\ UNCHANGED <<journal, delivery, settling, call, recon>>
      /\ status' = [status EXCEPT ![t] = "running"]
      /\ status[t] = "none" /\ recon[t] = "no" /\ ~Has("start", t)
  BY DEF Register, Tool, Up
<1>2. BackgroundTypeOK'
  BY <1>1 DEF NoticesInv, BackgroundTypeOK, loop, Register, Kinds
<1>3. RowsOK(journal')
  BY <1>1 DEF NoticesInv
<1>4. \A u \in Tasks : SameRows(u) /\ \A w : Has(w, u)' <=> Has(w, u)
  BY <1>1, NoRow
<1>5. \A u \in Tasks : Onward(u)
  BY <1>1, <1>4 DEF NoticesInv, BackgroundTypeOK, loop, Onward
<1>6. /\ \A c \in DOMAIN call' : CallSound(call[c])'
      /\ \A u : SameCalls(u)
  BY <1>1, <1>5, SoundSequences, CallsStay
<1>7. \A u \in Tasks : u # t => SameTask(u)
  BY <1>1 DEF SameTask, NoticesInv, BackgroundTypeOK
<1>8. TaskSound(t)'
  <2>1. status'[t] = "running" /\ settling'[t] = "no" /\ recon'[t] = "no"
    BY <1>1 DEF NoticesInv, TaskSound, Gone, BackgroundTypeOK
  <2>2. ~Has("done", t)' /\ ~Has("lost", t)' /\ ~Has("settle", t)'
    BY <1>1, <1>4, SoundSequences, StartComesFirst
  <2> QED
    BY <2>1, <2>2 DEF TaskSound, Gone, Known, Spoken
<1> QED
  BY <1>2, <1>3, <1>4, <1>6, <1>7, <1>8, OneTask

(* The start record. *)
LEMMA RegisteredSound ==
  ASSUME NoticesInv, NEW t \in Tasks, Registered(t) PROVE NoticesInv'
<1>1. /\ Log("start", t) /\ UNCHANGED <<status, delivery, settling, call, recon>>
      /\ status[t] = "running" /\ settling[t] = "no"
  BY DEF Registered
<1>2. "start" \in Kinds /\ Fits("start", t)
  BY DEF Kinds, Fits
<1>3. /\ journal' \in Seq(Row) /\ Len(journal') = Len(journal) + 1 /\ RowsOK(journal')
      /\ NewRow("start", t)
  BY <1>1, <1>2, SoundSequences, LoggedRow
<1>4. BackgroundTypeOK'
  BY <1>1, <1>3, LenProperties DEF NoticesInv, BackgroundTypeOK, loop, Registered, Row
<1>5. \A u \in Tasks : Onward(u) /\ SameTask(u)
  BY <1>1, <1>3 DEF Onward, SameTask, NewRow
<1>6. /\ \A c \in DOMAIN call' : CallSound(call[c])'
      /\ \A u : SameCalls(u)
  BY <1>1, <1>5, SoundSequences, CallsStay
<1>7. \A u \in Tasks : u # t => SameRows(u)
  BY <1>3, OtherRow
<1>8. TaskSound(t)'
  BY <1>1, <1>3 DEF NoticesInv, TaskSound, Gone, Known, Spoken, NewRow
<1> QED
  BY <1>3, <1>4, <1>5, <1>6, <1>7, <1>8, OneTask

(* A task ends.  The waits that listen are told, or no call concerns the task. *)
LEMMA FinishSound ==
  ASSUME NoticesInv, NEW t \in Tasks, Finish(t) PROVE NoticesInv'
<1> DEFINE told == {c \in DOMAIN call : call[c].at = "listen" /\ t \in call[c].of}
<1>1. /\ status[t] = "running" /\ Has("start", t)
      /\ UNCHANGED <<journal, recon>>
      /\ status' = [status EXCEPT ![t] = "ended"]
      /\ call' = [c \in DOMAIN call |->
                    IF c \in told THEN [at |-> "settled", of |-> {t}] ELSE call[c]]
      /\ delivery' = [delivery EXCEPT ![t] = IF told # {} /\ ~Suppressed(t) THEN "wait" ELSE @]
      /\ settling' = [settling EXCEPT ![t] = IF told # {} \/ Suppressed(t)
                                             THEN "quiet" ELSE "notice"]
  BY DEF Finish
<1>2. /\ DOMAIN call = 1 .. Len(call) /\ Len(call) \in Nat
      /\ \A c \in DOMAIN call : call[c] \in CallRec /\ CallSound(call[c])
  BY SoundSequences
<1>3. [at |-> "settled", of |-> {t}] \in CallRec
  BY DEF CallRec
<1>4. \A c \in DOMAIN call : call'[c] = IF c \in told THEN [at |-> "settled", of |-> {t}]
                                        ELSE call[c]
  BY <1>1
<1>5. call' \in Seq(CallRec) /\ Len(call') = Len(call)
  <2>1. \A c \in 1 .. Len(call) : call'[c] \in CallRec
    BY <1>2, <1>3, <1>4
  <2>2. DOMAIN call' = 1 .. Len(call) /\ call' = [c \in 1 .. Len(call) |-> call'[c]]
    BY <1>1, <1>2
  <2> QED
    BY <1>2, <2>1, <2>2, SeqOfFunction
<1>6. BackgroundTypeOK'
  <2>1. /\ status' \in [Tasks -> {"none", "running", "ended"}]
        /\ delivery' \in [Tasks -> {"pending", "enqueued", "wait", "stopped"}]
        /\ settling' \in [Tasks -> {"no", "notice", "late", "quiet", "notified", "over"}]
    BY <1>1 DEF NoticesInv, BackgroundTypeOK, loop
  <2> QED
    BY <1>1, <1>5, <2>1 DEF NoticesInv, BackgroundTypeOK, loop, CallRec, Finish
<1>7. RowsOK(journal')
  BY <1>1 DEF NoticesInv
<1>8. \A u \in Tasks : SameRows(u) /\ \A w : Has(w, u)' <=> Has(w, u)
  BY <1>1, NoRow
<1>9. \A u \in Tasks : u # t => SameTask(u)
  BY <1>1 DEF SameTask, NoticesInv, BackgroundTypeOK
<1>10. \A u : SameCalls(u)
  <2> SUFFICES ASSUME NEW u PROVE SameCalls(u)
    OBVIOUS
  <2>1. DOMAIN call' = DOMAIN call
    BY <1>1
  <2>2. \A c \in DOMAIN call : /\ call'[c].of \subseteq call[c].of
                               /\ call[c] = [at |-> "discard", of |-> {u}]
                                    => call'[c] = call[c]
    BY <1>4
  <2> QED
    BY <2>1, <2>2, CallsChange
<1>11. ASSUME NEW c \in DOMAIN call' PROVE CallSound(call[c])'
  <2>1. CASE c \in told
    <3>1. call'[c] = [at |-> "settled", of |-> {t}] /\ status'[t] = "ended"
      BY <1>1, <2>1 DEF NoticesInv, BackgroundTypeOK, loop
    <3> QED
      BY <3>1 DEF CallSound
  <2>2. CASE c \notin told
    <3>1. call'[c] = call[c] /\ call[c] \in CallRec /\ CallSound(call[c])
      BY <1>1, <1>2, <2>2
    <3>2. call[c].at = "listen" => t \notin call[c].of
      BY <1>1, <2>2
    <3>3. \A u \in Tasks : u # t => Onward(u)
      BY <1>1, <1>8 DEF Onward, NoticesInv, BackgroundTypeOK
    <3>4. /\ status'[t] # "none" /\ status'[t] # "running"
          /\ Has("start", t)' /\ (delivery[t] = "stopped" => delivery'[t] = "stopped")
      BY <1>1, <1>8 DEF NoticesInv, BackgroundTypeOK, loop, Suppressed
    <3>5. call[c].of \subseteq Tasks
      BY <3>1 DEF CallRec
    <3> QED
      BY <1>1, <3>1, <3>2, <3>3, <3>4, <3>5 DEF CallSound, Onward
  <2> QED
    BY <2>1, <2>2
<1>12. TaskSound(t)'
  <2>1. /\ settling[t] = "no" /\ recon[t] = "no" /\ ~Has("lost", t) /\ ~Has("settle", t)
        /\ ~Has("done", t)
    BY <1>1 DEF NoticesInv, TaskSound, Known
  <2>2. /\ status'[t] = "ended" /\ recon'[t] = "no"
        /\ settling'[t] = IF told # {} \/ Suppressed(t) THEN "quiet" ELSE "notice"
        /\ delivery'[t] = IF told # {} /\ ~Suppressed(t) THEN "wait" ELSE delivery[t]
    BY <1>1, <2>1 DEF NoticesInv, BackgroundTypeOK, loop
  <2>3. ASSUME told = {}, ~Suppressed(t) PROVE NoCall(t)
    <3> SUFFICES ASSUME NEW c \in DOMAIN call, t \in call[c].of PROVE FALSE
      BY DEF NoCall
    <3>1. call[c].at # "listen"
      BY <2>3
    <3>2. call[c] \in CallRec /\ CallSound(call[c])
      BY <1>2
    <3>3. delivery[t] # "stopped"
      BY <2>3 DEF Suppressed
    <3> QED
      BY <1>1, <3>1, <3>2, <3>3 DEF CallRec, CallSound
  <2>4. /\ ~Has("lost", t)' /\ ~Has("settle", t)' /\ ~Has("done", t)' /\ Has("start", t)'
    BY <1>1, <1>8, <2>1
  <2>5. Spoken(t)'
    <3>1. settling'[t] = "notice" => NoCall(t)'
      BY <1>10, <2>2, <2>3 DEF SameCalls
    <3>2. ~InInbox("done", t)'
      BY <2>4 DEF InInbox
    <3> QED
      BY <2>2, <2>4, <3>1, <3>2 DEF Spoken
  <2> QED
    BY <2>2, <2>4, <2>5 DEF TaskSound, Gone, Known
<1> QED
  BY <1>6, <1>7, <1>8, <1>9, <1>10, <1>11, <1>12, OneTask

(* A record is written while no call and no delivery changes. *)
LEMMA Recorded ==
  ASSUME NoticesInv, NEW what \in Kinds, NEW t \in Tasks, Log(what, t), Fits(what, t),
         UNCHANGED <<status, delivery, call>>
  PROVE  /\ journal' \in Seq(Row) /\ Len(journal') = Len(journal) + 1
         /\ RowsOK(journal') /\ NewRow(what, t)
         /\ \A c \in DOMAIN call' : CallSound(call[c])'
         /\ \A u : SameCalls(u) /\ (u # t => SameRows(u))
<1>1. /\ journal' \in Seq(Row) /\ Len(journal') = Len(journal) + 1 /\ RowsOK(journal')
      /\ NewRow(what, t)
  BY SoundSequences, LoggedRow
<1>2. \A u \in Tasks : Onward(u)
  BY <1>1 DEF Onward, NewRow
<1>3. /\ \A c \in DOMAIN call' : CallSound(call[c])'
      /\ \A u : SameCalls(u)
  BY <1>2, SoundSequences, CallsStay
<1>4. \A u : u # t => SameRows(u)
  BY <1>1, OtherRow
<1> QED
  BY <1>1, <1>3, <1>4

(* The notice. *)
LEMMA NotifySound ==
  ASSUME NoticesInv, NEW t \in Tasks, Notify(t) PROVE NoticesInv'
<1>1. /\ Log("done", t) /\ UNCHANGED <<status, delivery, call, recon>>
      /\ settling[t] = "notice" /\ settling' = [settling EXCEPT ![t] = "late"]
  BY DEF Notify
<1>2. /\ status[t] = "ended" /\ recon[t] = "no" /\ ~Has("lost", t) /\ ~Has("settle", t)
      /\ Has("start", t) /\ (Suppressed(t) \/ NoCall(t))
  BY <1>1 DEF NoticesInv, BackgroundTypeOK, loop, TaskSound, Gone, Known, Spoken
<1>3. "done" \in Kinds /\ Fits("done", t)
  BY <1>2 DEF Kinds, Notices, Fits
<1>4. /\ journal' \in Seq(Row) /\ Len(journal') = Len(journal) + 1
      /\ RowsOK(journal') /\ NewRow("done", t)
      /\ \A c \in DOMAIN call' : CallSound(call[c])'
      /\ \A u : SameCalls(u) /\ (u # t => SameRows(u))
  BY <1>1, <1>3, Recorded
<1>5. BackgroundTypeOK'
  BY <1>1, <1>4, LenProperties DEF NoticesInv, BackgroundTypeOK, loop, Notify, Row
<1>6. \A u \in Tasks : u # t => SameTask(u)
  BY <1>1 DEF SameTask, NoticesInv, BackgroundTypeOK
<1>7. TaskSound(t)'
  <2>1. status'[t] = "ended" /\ recon'[t] = "no" /\ settling'[t] = "late"
    BY <1>1, <1>2 DEF NoticesInv, BackgroundTypeOK, loop
  <2>2. ~Has("lost", t)' /\ ~Has("settle", t)' /\ Has("start", t)'
    BY <1>2, <1>4 DEF NewRow
  <2>3. Suppressed(t)' \/ NoCall(t)'
    BY <1>1, <1>2, <1>4 DEF Suppressed, SameCalls
  <2> QED
    BY <2>1, <2>2, <2>3 DEF TaskSound, Gone, Known, Spoken
<1> QED
  BY <1>4, <1>5, <1>6, <1>7, OneTask

(* The second look at the delivery. *)
LEMMA CheckLateSound ==
  ASSUME NoticesInv, NEW t \in Tasks, CheckLate(t) PROVE NoticesInv'
<1>1. /\ settling[t] = "late" /\ UNCHANGED <<status, call, recon>>
      /\ \/ /\ Suppressed(t) /\ Discard(t)
            /\ settling' = [settling EXCEPT ![t] = "quiet"] /\ UNCHANGED delivery
         \/ /\ ~Suppressed(t) /\ delivery' = [delivery EXCEPT ![t] = "enqueued"]
            /\ settling' = [settling EXCEPT ![t] = "notified"] /\ UNCHANGED journal
  BY DEF CheckLate
<1>2. /\ status[t] = "ended" /\ recon[t] = "no" /\ ~Has("lost", t) /\ ~Has("settle", t)
      /\ Has("start", t) /\ (Suppressed(t) \/ NoCall(t))
  BY <1>1 DEF NoticesInv, BackgroundTypeOK, loop, TaskSound, Gone, Known, Spoken
<1>3. /\ journal' \in Seq(Row) /\ Len(journal) <= Len(journal') /\ RowsOK(journal')
      /\ \A u : SameRows(u)
      /\ Suppressed(t) => ~InInbox("done", t)'
  BY <1>1, NoRow, Discarded, SoundSequences, LenProperties
<1>4. /\ \A u \in Tasks : Onward(u)
      /\ \A u \in Tasks : u # t => SameTask(u)
  BY <1>1, <1>3
     DEF Onward, SameRows, SameTask, Suppressed, NoticesInv, BackgroundTypeOK
<1>5. /\ \A c \in DOMAIN call' : CallSound(call[c])'
      /\ \A u : SameCalls(u)
  BY <1>1, <1>4, SoundSequences, CallsStay
<1>6. BackgroundTypeOK'
  <2>1. /\ delivery' \in [Tasks -> {"pending", "enqueued", "wait", "stopped"}]
        /\ settling' \in [Tasks -> {"no", "notice", "late", "quiet", "notified", "over"}]
    BY <1>1 DEF NoticesInv, BackgroundTypeOK, loop
  <2>2. durable' \in 0 .. Len(journal')
    BY <1>3, SoundSequences, LenProperties
    DEF NoticesInv, BackgroundTypeOK, loop, CheckLate
  <2> QED
    BY <1>1, <1>3, <2>1, <2>2 DEF NoticesInv, BackgroundTypeOK, loop, CheckLate, Row
<1>7. TaskSound(t)'
  <2>1. /\ status'[t] = "ended" /\ recon'[t] = "no"
        /\ \/ settling'[t] = "quiet" /\ ~InInbox("done", t)'
           \/ settling'[t] = "notified" /\ delivery'[t] = "enqueued" /\ NoCall(t)'
    BY <1>1, <1>2, <1>3, <1>5 DEF NoticesInv, BackgroundTypeOK, loop, SameCalls
  <2>2. ~Has("lost", t)' /\ ~Has("settle", t)' /\ Has("start", t)'
    BY <1>2, <1>3 DEF SameRows
  <2> QED
    BY <2>1, <2>2 DEF TaskSound, Gone, Known, Spoken
<1> QED
  BY <1>3, <1>4, <1>5, <1>6, <1>7, OneTask

(* The settle record. *)
LEMMA SettleSound ==
  ASSUME NoticesInv, NEW t \in Tasks, Settle(t) PROVE NoticesInv'
<1>1. /\ Log("settle", t) /\ UNCHANGED <<status, delivery, call, recon>>
      /\ settling[t] \in {"quiet", "notified"}
      /\ settling' = [settling EXCEPT ![t] = "over"]
  BY DEF Settle
<1>2. /\ status[t] = "ended" /\ recon[t] = "no" /\ ~Has("lost", t) /\ ~Has("settle", t)
      /\ Has("start", t)
  BY <1>1 DEF NoticesInv, BackgroundTypeOK, loop, TaskSound, Gone, Known
<1>3. "settle" \in Kinds /\ Fits("settle", t)
  BY <1>2 DEF Kinds, Fits
<1>4. /\ journal' \in Seq(Row) /\ Len(journal') = Len(journal) + 1
      /\ RowsOK(journal') /\ NewRow("settle", t)
      /\ \A c \in DOMAIN call' : CallSound(call[c])'
      /\ \A u : SameCalls(u) /\ (u # t => SameRows(u))
  BY <1>1, <1>3, Recorded
<1>5. BackgroundTypeOK'
  <2>1. queue' \subseteq {"wake", "user"} /\ missed' \in BOOLEAN
    <3>1. queue \subseteq {"wake", "user"} /\ missed \in BOOLEAN
      BY DEF NoticesInv, BackgroundTypeOK
    <3>2. CASE settling[t] = "notified"
      BY <3>1, <3>2 DEF Settle, Woken
    <3>3. CASE settling[t] # "notified"
      BY <3>1, <3>3 DEF Settle
    <3> QED
      BY <3>2, <3>3
  <2> QED
    BY <1>1, <1>4, <2>1, LenProperties
    DEF NoticesInv, BackgroundTypeOK, loop, Settle, Row
<1>6. \A u \in Tasks : u # t => SameTask(u)
  BY <1>1 DEF SameTask, NoticesInv, BackgroundTypeOK
<1>7. TaskSound(t)'
  <2>1. status'[t] = "ended" /\ recon'[t] = "no" /\ settling'[t] = "over"
    BY <1>1, <1>2 DEF NoticesInv, BackgroundTypeOK, loop
  <2>2. ~Has("lost", t)' /\ Has("settle", t)' /\ Has("start", t)'
    BY <1>2, <1>4 DEF NewRow
  <2>3. InInbox("done", t)' => InInbox("done", t)
    <3>1. /\ Has("done", t)' => Has("done", t)
          /\ \A w : Has(w, t) => Has(w, t)'
      BY <1>4 DEF NewRow
    <3> QED
      BY <3>1 DEF InInbox
  <2>4. InInbox("done", t)' => \/ delivery'[t] = "enqueued" /\ NoCall(t)'
                               \/ delivery'[t] = "wait" /\ Taking(t)'
    BY <1>1, <1>4, <2>3 DEF NoticesInv, TaskSound, Spoken, SameCalls
  <2> QED
    BY <2>1, <2>2, <2>4 DEF TaskSound, Gone, Known, Spoken
<1> QED
  BY <1>4, <1>5, <1>6, <1>7, OneTask

-----------------------------------------------------------------------------
(***************************************************************************)
(* The calls.                                                              *)
(***************************************************************************)
(* What a new call leaves alone. *)
LEMMA NewCallKeeps ==
  ASSUME NoticesInv, NEW k \in CallRec, call' = Append(call, k), CallSound(k)',
         UNCHANGED <<journal, status>>,
         \A u \in Tasks : delivery[u] = "stopped" => delivery'[u] = "stopped"
  PROVE  /\ call' \in Seq(CallRec) /\ Len(call') = Len(call) + 1 /\ RowsOK(journal')
         /\ \A c \in DOMAIN call' : CallSound(call[c])'
         /\ \A u : SameRows(u) /\ (\A w : Has(w, u)' <=> Has(w, u))
         /\ \A u : u \notin k.of => SameCalls(u)
         /\ \A u : Taking(u) => Taking(u)'
         /\ \A u : NoCall(u) /\ k = [at |-> "discard", of |-> {u}] => Taking(u)'
<1>1. \A u : SameRows(u) /\ (\A w : Has(w, u)' <=> Has(w, u))
  BY NoRow
<1>2. \A u \in Tasks : Onward(u)
  BY <1>1 DEF Onward
<1>3. RowsOK(journal')
  BY SoundSequences
<1> QED
  BY <1>1, <1>2, <1>3, SoundSequences, CallAdded

(* A wait for running tasks. *)
LEMMA ListenSound ==
  ASSUME NoticesInv, Listen PROVE NoticesInv'
<1>1. PICK of \in ({{t} : t \in Running} \cup {Running}) \ {{}} :
        /\ NewWait("listen", of)
        /\ UNCHANGED <<journal, durable, status, delivery, settling, user, loop,
                       recon, crashes>>
  BY DEF Listen
<1> DEFINE k == [at |-> "listen", of |-> of]
<1>2. of \subseteq Tasks /\ \A t \in of : status[t] = "running"
  BY DEF Running
<1>3. /\ call' = Append(call, k) /\ Len(call) < MaxAtOnce
      /\ calls < MaxCalls /\ calls' = calls + 1
  BY <1>1 DEF NewWait, NewCall
<1>4. k \in CallRec /\ CallSound(k)'
  BY <1>1, <1>2 DEF CallRec, CallSound
<1>5. /\ call' \in Seq(CallRec) /\ Len(call') = Len(call) + 1 /\ RowsOK(journal')
      /\ \A c \in DOMAIN call' : CallSound(call[c])'
      /\ \A u : SameRows(u)
      /\ \A u : u \notin of => SameCalls(u)
  BY <1>1, <1>3, <1>4, NewCallKeeps
<1>6. BackgroundTypeOK'
  BY <1>1, <1>3, <1>5, SoundSequences, TaskAssumption
     DEF NoticesInv, BackgroundTypeOK, loop, CallRec
<1>7. ASSUME NEW u \in Tasks PROVE TaskSound(u)'
  <2>1. SameTask(u)
    BY <1>1 DEF SameTask
  <2>2. CASE u \notin of
    BY <1>5, <2>1, <2>2, TaskStays DEF NoticesInv
  <2>3. CASE u \in of
    <3>1. status[u] = "running" /\ settling[u] = "no"
      BY <1>2, <2>3 DEF NoticesInv, TaskSound, Known
    <3> QED
      BY <1>5, <2>1, <3>1
         DEF NoticesInv, TaskSound, Gone, Known, Spoken, SameTask, SameRows
  <2> QED
    BY <2>2, <2>3
<1> QED
  BY <1>5, <1>6, <1>7 DEF NoticesInv

(* A wait for a task that has ended. *)
LEMMA WaitEndedSound ==
  ASSUME NoticesInv, NEW t \in Tasks, WaitEnded(t) PROVE NoticesInv'
<1>1. PICK how \in {"discard", "settled"} :
        /\ delivery[t] = "enqueued" => how = "discard"
        /\ status[t] = "ended"
        /\ call' = Append(call, [at |-> how, of |-> {t}]) /\ Len(call) < MaxAtOnce
        /\ calls < MaxCalls /\ calls' = calls + 1
        /\ delivery' = [delivery EXCEPT ![t] = IF Suppressed(t) THEN @ ELSE "wait"]
        /\ UNCHANGED <<journal, durable, status, settling, user, loop, recon, crashes>>
  BY DEF WaitEnded, NewWait, NewCall
<1> DEFINE k == [at |-> how, of |-> {t}]
<1>2. k \in CallRec /\ CallSound(k)'
  BY <1>1 DEF CallRec, CallSound
<1>3. \A u \in Tasks : delivery[u] = "stopped" => delivery'[u] = "stopped"
  BY <1>1 DEF Suppressed, NoticesInv, BackgroundTypeOK
<1>4. /\ call' \in Seq(CallRec) /\ Len(call') = Len(call) + 1 /\ RowsOK(journal')
      /\ \A c \in DOMAIN call' : CallSound(call[c])'
      /\ \A u : SameRows(u)
      /\ \A u : u # t => SameCalls(u)
      /\ Taking(t) => Taking(t)'
      /\ NoCall(t) /\ delivery[t] = "enqueued" => Taking(t)'
  <2>1. k.of = {t} /\ (delivery[t] = "enqueued" => k = [at |-> "discard", of |-> {t}])
    BY <1>1
  <2>2. call' = Append(call, k) /\ UNCHANGED <<journal, status>>
    BY <1>1
  <2>3. k \in CallRec /\ CallSound(k)'
    BY <1>2
  <2> HIDE DEF k
  <2>4. /\ call' \in Seq(CallRec) /\ Len(call') = Len(call) + 1 /\ RowsOK(journal')
        /\ \A c \in DOMAIN call' : CallSound(call[c])'
        /\ \A u : SameRows(u)
        /\ \A u : u \notin k.of => SameCalls(u)
        /\ \A u : Taking(u) => Taking(u)'
        /\ \A u : NoCall(u) /\ k = [at |-> "discard", of |-> {u}] => Taking(u)'
    BY <1>3, <2>2, <2>3, NewCallKeeps
  <2> QED
    BY <2>1, <2>4
<1>5. BackgroundTypeOK'
  <2>1. delivery' \in [Tasks -> {"pending", "enqueued", "wait", "stopped"}]
    BY <1>1 DEF NoticesInv, BackgroundTypeOK, loop
  <2> QED
    BY <1>1, <1>4, <2>1, SoundSequences, TaskAssumption
       DEF NoticesInv, BackgroundTypeOK, loop, CallRec
<1>6. \A u \in Tasks : u # t => SameTask(u)
  BY <1>1 DEF SameTask, NoticesInv, BackgroundTypeOK
<1>7. TaskSound(t)'
  <2>1. /\ status'[t] = "ended" /\ settling'[t] = settling[t] /\ recon'[t] = recon[t]
        /\ delivery'[t] = IF Suppressed(t) THEN delivery[t] ELSE "wait"
        /\ Suppressed(t)'
    BY <1>1 DEF NoticesInv, BackgroundTypeOK, loop, Suppressed
  <2>2. Known(t)'
    BY <1>1, <1>4, <2>1 DEF NoticesInv, TaskSound, Known, SameRows
  <2>3. Spoken(t)'
    <3>1. /\ settling'[t] = "notice" => ~Has("done", t)'
          /\ InInbox("done", t)' => InInbox("done", t)
      BY <1>4, <2>1 DEF NoticesInv, TaskSound, Spoken, SameRows
    <3>2. ASSUME settling[t] \in {"notified", "over"}, InInbox("done", t)
          PROVE  delivery'[t] = "wait" /\ Taking(t)'
      <4>1. \/ delivery[t] = "enqueued" /\ NoCall(t)
            \/ delivery[t] = "wait" /\ Taking(t)
        BY <3>2 DEF NoticesInv, TaskSound, Spoken
      <4> QED
        BY <1>4, <2>1, <4>1 DEF Suppressed
    <3> QED
      BY <2>1, <3>1, <3>2 DEF Spoken, NoticesInv, TaskSound
  <2> QED
    BY <2>1, <2>2, <2>3 DEF TaskSound, Gone
<1> QED
  BY <1>4, <1>5, <1>6, <1>7, OneTask

(* task_stop. *)
LEMMA StopSound ==
  ASSUME NoticesInv, NEW t \in Tasks, Stop(t) PROVE NoticesInv'
<1> DEFINE k == [at |-> "stop", of |-> {t}]
<1>1. /\ status[t] = "running" /\ Has("start", t) /\ call = <<>>
      /\ call' = Append(call, k) /\ calls < MaxCalls /\ calls' = calls + 1
      /\ delivery' = [delivery EXCEPT ![t] = "stopped"]
      /\ UNCHANGED <<journal, durable, status, settling, user, loop, recon, crashes>>
  BY DEF Stop, NewCall, Busy
<1>2. /\ delivery'[t] = "stopped"
      /\ \A u \in Tasks : delivery[u] = "stopped" => delivery'[u] = "stopped"
  BY <1>1 DEF NoticesInv, BackgroundTypeOK, loop
<1>3. k \in CallRec /\ CallSound(k)'
  BY <1>1, <1>2, NoRow DEF CallRec, CallSound
<1>4. /\ call' \in Seq(CallRec) /\ Len(call') = Len(call) + 1 /\ RowsOK(journal')
      /\ \A c \in DOMAIN call' : CallSound(call[c])'
      /\ \A u : SameRows(u)
      /\ \A u : u # t => SameCalls(u)
  BY <1>1, <1>2, <1>3, NewCallKeeps
<1>5. BackgroundTypeOK'
  <2>1. delivery' \in [Tasks -> {"pending", "enqueued", "wait", "stopped"}]
    BY <1>1 DEF NoticesInv, BackgroundTypeOK, loop
  <2>2. Len(call') <= MaxAtOnce
    BY <1>1, <1>4, TaskAssumption
  <2> QED
    BY <1>1, <1>4, <2>1, <2>2, TaskAssumption
       DEF NoticesInv, BackgroundTypeOK, loop, CallRec
<1>6. \A u \in Tasks : u # t => SameTask(u)
  BY <1>1 DEF SameTask, NoticesInv, BackgroundTypeOK
<1>7. TaskSound(t)'
  <2>1. settling[t] = "no"
    BY <1>1 DEF NoticesInv, TaskSound, Known
  <2> QED
    BY <1>1, <1>4, <2>1 DEF NoticesInv, TaskSound, Gone, Known, Spoken, SameRows
<1> QED
  BY <1>4, <1>5, <1>6, <1>7, OneTask

(* A wait takes a notice back. *)
LEMMA TakeBackSound ==
  ASSUME NoticesInv, NEW c \in DOMAIN call, NEW t \in Tasks, TakeBack(c, t)
  PROVE  NoticesInv'
<1>1. /\ call[c] = [at |-> "discard", of |-> {t}] /\ Discard(t)
      /\ call' = [call EXCEPT ![c].at = "settled"]
      /\ UNCHANGED <<durable, status, delivery, settling, user, loop, recon, calls,
                     crashes>>
  BY DEF TakeBack
<1>0. status[t] = "ended"
  <2>1. CallSound(call[c])
    BY SoundSequences
  <2>2. call[c].at = "discard" /\ call[c].of = {t}
    BY <1>1
  <2>3. PICK s \in Tasks : call[c].of = {s} /\ status[s] = "ended"
    BY <2>1, <2>2 DEF CallSound
  <2> QED
    BY <2>2, <2>3
<1>2. /\ DOMAIN call' = DOMAIN call /\ call'[c] = [at |-> "settled", of |-> {t}]
      /\ \A b \in DOMAIN call : b # c => call'[b] = call[b]
  BY <1>1
<1>3. call' \in Seq(CallRec) /\ Len(call') = Len(call)
  <2>1. \A b \in 1 .. Len(call) : call'[b] \in CallRec
    BY <1>2, SoundSequences DEF CallRec
  <2>2. DOMAIN call' = 1 .. Len(call) /\ call' = [b \in 1 .. Len(call) |-> call'[b]]
    BY <1>1, <1>2, SoundSequences
  <2> QED
    BY <2>1, <2>2, SoundSequences, SeqOfFunction
<1>4. /\ journal' \in Seq(Row) /\ Len(journal) <= Len(journal') /\ RowsOK(journal')
      /\ \A u : SameRows(u)
      /\ ~InInbox("done", t)'
  BY <1>1, SoundSequences, Discarded
<1>5. \A u \in Tasks : Onward(u) /\ SameTask(u)
  BY <1>1, <1>4 DEF Onward, SameTask, SameRows
<1>6. ASSUME NEW b \in DOMAIN call' PROVE CallSound(call[b])'
  <2>1. CASE b = c
    BY <1>0, <1>1, <1>2, <2>1 DEF CallSound
  <2>2. CASE b # c
    <3> DEFINE l == call[b]
    <3>1. l \in CallRec /\ CallSound(l) /\ call'[b] = l
      BY <1>2, <2>2, SoundSequences
    <3> HIDE DEF l
    <3> QED
      BY <1>5, <3>1, CallStays DEF CallSound
  <2> QED
    BY <2>1, <2>2
<1>7. ASSUME NEW u, u # t PROVE SameCalls(u)
  <2>1. \A b \in DOMAIN call : /\ call'[b].of \subseteq call[b].of
                               /\ call[b] = [at |-> "discard", of |-> {u}]
                                    => call'[b] = call[b]
    BY <1>1, <1>2, <1>7
  <2> QED
    BY <1>2, <2>1, CallsChange
<1>8. BackgroundTypeOK'
  <2>1. durable' \in 0 .. Len(journal')
    BY <1>1, <1>4, SoundSequences, LenProperties DEF NoticesInv, BackgroundTypeOK, loop
  <2> QED
    BY <1>1, <1>3, <1>4, <2>1 DEF NoticesInv, BackgroundTypeOK, loop, Row, CallRec
<1>9. TaskSound(t)'
  <2>1. status[t] = "ended" /\ ~NoCall(t)
    BY <1>0, <1>1 DEF NoCall
  <2>2. settling[t] \in {"notice", "late"} => Suppressed(t)
    BY <2>1 DEF NoticesInv, TaskSound, Spoken
  <2>3. Suppressed(t)' <=> Suppressed(t)
    BY <1>1 DEF Suppressed
  <2>4. Spoken(t)'
    BY <1>1, <1>4, <2>2, <2>3 DEF NoticesInv, TaskSound, Spoken, SameRows
  <2>5. Known(t)'
    BY <1>1, <1>4 DEF NoticesInv, TaskSound, Known, SameRows
  <2> QED
    BY <1>1, <2>1, <2>4, <2>5 DEF TaskSound, Gone
<1> QED
  BY <1>4, <1>5, <1>6, <1>7, <1>8, <1>9, OneTask

(* A wait that reports nothing. *)
LEMMA GiveUpSound ==
  ASSUME NoticesInv, NEW c \in DOMAIN call, GiveUp(c) PROVE NoticesInv'
<1>1. /\ call[c].at = "listen" /\ call' = [call EXCEPT ![c] = [at |-> "void", of |-> {}]]
      /\ UNCHANGED <<journal, durable, status, delivery, settling, user, loop, recon,
                     calls, crashes>>
  BY DEF GiveUp
<1>2. /\ DOMAIN call' = DOMAIN call /\ call'[c] = [at |-> "void", of |-> {}]
      /\ \A b \in DOMAIN call : b # c => call'[b] = call[b]
  BY <1>1
<1>3. call' \in Seq(CallRec) /\ Len(call') = Len(call)
  <2>1. \A b \in 1 .. Len(call) : call'[b] \in CallRec
    BY <1>2, SoundSequences DEF CallRec
  <2>2. DOMAIN call' = 1 .. Len(call) /\ call' = [b \in 1 .. Len(call) |-> call'[b]]
    BY <1>1, <1>2, SoundSequences
  <2> QED
    BY <2>1, <2>2, SoundSequences, SeqOfFunction
<1>4. \A u : SameRows(u)
  BY <1>1, NoRow
<1>5. \A u \in Tasks : Onward(u) /\ SameTask(u)
  BY <1>1, <1>4 DEF Onward, SameTask, SameRows
<1>6. ASSUME NEW b \in DOMAIN call' PROVE CallSound(call[b])'
  <2>1. CASE b = c
    BY <1>2, <2>1 DEF CallSound
  <2>2. CASE b # c
    <3> DEFINE l == call[b]
    <3>1. l \in CallRec /\ CallSound(l) /\ call'[b] = l
      BY <1>2, <2>2, SoundSequences
    <3> HIDE DEF l
    <3> QED
      BY <1>5, <3>1, CallStays DEF CallSound
  <2> QED
    BY <2>1, <2>2
<1>7. ASSUME NEW u PROVE SameCalls(u)
  <2>1. \A b \in DOMAIN call : /\ call'[b].of \subseteq call[b].of
                               /\ call[b] = [at |-> "discard", of |-> {u}]
                                    => call'[b] = call[b]
    BY <1>1, <1>2
  <2> QED
    BY <1>2, <2>1, CallsChange
<1>8. BackgroundTypeOK'
  BY <1>1, <1>3 DEF NoticesInv, BackgroundTypeOK, loop, CallRec
<1>9. RowsOK(journal')
  BY <1>1, SoundSequences
<1>10. \A u \in Tasks : TaskSound(u)'
  BY <1>4, <1>5, <1>7, TaskStays DEF NoticesInv
<1> QED
  BY <1>6, <1>8, <1>9, <1>10 DEF NoticesInv

(* The result of the first call is committed.  A result that is reported is of a *)
(* settled task whose notice is not in the inbox.                                *)
LEMMA ReportSound ==
  ASSUME NoticesInv, Report PROVE NoticesInv'
<1>1. /\ Busy /\ call' = Tail(call)
      /\ UNCHANGED <<durable, status, delivery, settling, user, loop, recon, calls,
                     crashes>>
      /\ Head(call).at \in {"void", "settled", "stop"}
  BY DEF Report
<1>2. /\ 1 \in DOMAIN call /\ Head(call) = call[1] /\ \A b \in DOMAIN call : b = 1 \/ 1 < b
  <2>1. call # <<>> /\ Len(call) # 0
    BY <1>1, SoundSequences, HeadTailProperties, EmptySeq DEF Busy
  <2> QED
    BY <2>1, SoundSequences
<1>3. CASE Head(call).at = "void" /\ UNCHANGED journal
  <2>1. \A u : SameRows(u)
    BY <1>3, NoRow
  <2>2. \A u \in Tasks : Onward(u) /\ SameTask(u)
    BY <1>1, <2>1 DEF Onward, SameTask, SameRows
  <2>3. /\ call' \in Seq(CallRec) /\ Len(call') <= Len(call)
        /\ \A c \in DOMAIN call' : CallSound(call[c])'
        /\ \A u : SameCalls(u)
    BY <1>1, <1>3, <2>2, SoundSequences, CallReturned
  <2>4. Len(call') <= MaxAtOnce
    BY <2>3, SoundSequences, LenProperties, TaskAssumption
    DEF NoticesInv, BackgroundTypeOK, loop
  <2>5. BackgroundTypeOK'
    BY <1>1, <1>3, <2>3, <2>4 DEF NoticesInv, BackgroundTypeOK, loop, CallRec
  <2>6. \A u \in Tasks : TaskSound(u)'
    BY <2>1, <2>2, <2>3, TaskStays DEF NoticesInv
  <2>7. RowsOK(journal')
    BY <1>3, SoundSequences
  <2> QED
    BY <2>3, <2>5, <2>6, <2>7 DEF NoticesInv
<1>4. ASSUME NEW t \in Head(call).of, Head(call).at \in {"settled", "stop"},
             Settled(t), Log("report", t)
      PROVE  NoticesInv'
  <2>1. /\ t \in Tasks /\ status[t] # "none" /\ Has("start", t)
    <3>1. CallSound(call[1]) /\ call[1] \in CallRec
      BY <1>2, SoundSequences
    <3>2. t \in Tasks /\ status[t] # "none" /\ (status[t] = "ended" \/ Has("start", t))
      BY <1>2, <1>4, <3>1 DEF CallRec, CallSound
    <3> QED
      BY <3>2 DEF NoticesInv, TaskSound, Known
  <2>2. settling[t] = "over" /\ Has("settle", t) /\ ~Has("lost", t) /\ recon[t] = "no"
    BY <1>4, <2>1 DEF Settled, NoticesInv, TaskSound, Known
  <2>3. ~NoCall(t) /\ ~Taking(t)
    <3>1. ~NoCall(t)
      BY <1>2, <1>4 DEF NoCall
    <3>2. ASSUME Taking(t) PROVE FALSE
      <4>1. PICK c \in DOMAIN call : /\ call[c] = [at |-> "discard", of |-> {t}]
                                     /\ \A b \in DOMAIN call : b < c => t \notin call[b].of
        BY <3>2 DEF Taking
      <4>2. c # 1
        BY <1>2, <1>4, <4>1
      <4> QED
        BY <1>2, <1>4, <4>1, <4>2
    <3> QED
      BY <3>1, <3>2
  <2>4. ~InInbox("done", t)
    BY <2>1, <2>2, <2>3 DEF NoticesInv, TaskSound, Spoken
  <2>5. "report" \in Kinds /\ Fits("report", t)
    BY <2>2, <2>4 DEF Kinds, Fits, InInbox, Read
  <2>6. /\ journal' \in Seq(Row) /\ Len(journal') = Len(journal) + 1 /\ RowsOK(journal')
        /\ NewRow("report", t)
    BY <1>4, <2>1, <2>5, SoundSequences, LoggedRow
  <2>7. \A u \in Tasks : Onward(u) /\ SameTask(u)
    BY <1>1, <2>6 DEF Onward, SameTask, NewRow
  <2>8. /\ call' \in Seq(CallRec) /\ Len(call') <= Len(call)
        /\ \A c \in DOMAIN call' : CallSound(call[c])'
        /\ \A u : SameCalls(u)
    BY <1>1, <1>4, <2>7, SoundSequences, CallReturned
  <2>9. \A u \in Tasks : u # t => SameRows(u)
    BY <2>6, OtherRow
  <2>10. BackgroundTypeOK'
    <3>1. Len(call') <= MaxAtOnce
      BY <2>8, SoundSequences, LenProperties, TaskAssumption
      DEF NoticesInv, BackgroundTypeOK, loop
    <3>2. durable' \in 0 .. Len(journal')
      BY <1>1, <2>6, SoundSequences, LenProperties DEF NoticesInv, BackgroundTypeOK, loop
    <3> QED
      BY <1>1, <2>6, <2>8, <3>1, <3>2
      DEF NoticesInv, BackgroundTypeOK, loop, CallRec, Row
  <2>11. TaskSound(t)'
    <3>1. /\ ~Has("lost", t)' /\ Has("settle", t)' /\ Has("start", t)'
          /\ ~InInbox("done", t)'
      <4>1. /\ Has("done", t)' => Has("done", t)
            /\ \A w : Has(w, t) => Has(w, t)'
        BY <2>6 DEF NewRow
      <4>2. ~InInbox("done", t)'
        BY <2>4, <4>1 DEF InInbox
      <4>3. ~Has("lost", t)'
        BY <2>2, <2>6 DEF NewRow
      <4> QED
        BY <2>1, <2>2, <4>1, <4>2, <4>3
    <3> QED
      BY <1>1, <2>1, <2>2, <3>1 DEF NoticesInv, TaskSound, Gone, Known, Spoken
  <2> QED
    BY <2>6, <2>7, <2>8, <2>9, <2>10, <2>11, OneTask
<1> QED
  BY <1>3, <1>4 DEF Report

-----------------------------------------------------------------------------
(***************************************************************************)
(* The user, the loop, a crash and what follows it.                        *)
(***************************************************************************)
(* A stop by the user: the settlement has not begun, and will be quiet. *)
LEMMA UserStopSound ==
  ASSUME NoticesInv, NEW t \in Tasks, UserStop(t) PROVE NoticesInv'
<1>1. /\ status[t] = "running" /\ delivery' = [delivery EXCEPT ![t] = "stopped"]
      /\ user' = [user EXCEPT ![t] = "stopping"]
      /\ UNCHANGED <<journal, durable, status, settling, call, loop, recon, calls,
                     crashes>>
  BY DEF UserStop
<1>2. \A u : SameRows(u)
  BY <1>1, NoRow
<1>3. /\ \A u \in Tasks : Onward(u)
      /\ \A u \in Tasks : u # t => SameTask(u)
  BY <1>1, <1>2 DEF Onward, SameTask, SameRows, NoticesInv, BackgroundTypeOK
<1>4. /\ \A c \in DOMAIN call' : CallSound(call[c])'
      /\ \A u : SameCalls(u)
  BY <1>1, <1>3, SoundSequences, CallsStay
<1>5. BackgroundTypeOK'
  BY <1>1 DEF NoticesInv, BackgroundTypeOK, loop
<1>6. RowsOK(journal')
  BY <1>1, SoundSequences
<1>7. TaskSound(t)'
  <2>1. settling[t] = "no"
    BY <1>1 DEF NoticesInv, TaskSound, Known
  <2> QED
    BY <1>1, <1>2, <2>1 DEF NoticesInv, TaskSound, Gone, Known, Spoken, SameRows
<1> QED
  BY <1>2, <1>3, <1>4, <1>5, <1>6, <1>7, OneTask

(* The user's notice is neither a record nor the notice of an end. *)
LEMMA UserStoppedSound ==
  ASSUME NoticesInv, NEW t \in Tasks, UserStopped(t) PROVE NoticesInv'
<1>1. /\ Log("userStop", t) /\ user' = [user EXCEPT ![t] = "over"]
      /\ UNCHANGED <<durable, status, delivery, settling, call, loop, recon, calls,
                     crashes>>
  BY DEF UserStopped
<1>2. "userStop" \in Kinds /\ Fits("userStop", t)
  BY DEF Kinds, Notices, Fits
<1>3. /\ journal' \in Seq(Row) /\ Len(journal') = Len(journal) + 1
      /\ RowsOK(journal') /\ NewRow("userStop", t)
      /\ \A c \in DOMAIN call' : CallSound(call[c])'
      /\ \A u : SameCalls(u)
  BY <1>1, <1>2, Recorded
<1>4. BackgroundTypeOK'
  BY <1>1, <1>3, LenProperties DEF NoticesInv, BackgroundTypeOK, loop, Row
<1>5. \A u \in Tasks : SameTask(u) /\ SameRows(u)
  BY <1>1, <1>3, OtherRow DEF SameTask
<1>6. \A u \in Tasks : TaskSound(u)'
  BY <1>3, <1>5, TaskStays DEF NoticesInv
<1> QED
  BY <1>3, <1>4, <1>6 DEF NoticesInv

(* The claims of a step change no record and empty the inbox. *)
LEMMA StepSound ==
  ASSUME NoticesInv, Step PROVE NoticesInv'
<1>1. /\ durable' = Len(journal')
      /\ UNCHANGED <<status, delivery, settling, call, user, loop, recon, calls,
                     crashes>>
  BY DEF Step
<1>2. /\ journal' \in Seq(Row) /\ RowsOK(journal')
      /\ \A w, u : w \in {"start", "settle", "done", "lost", "report"}
                      => (Has(w, u)' <=> Has(w, u))
      /\ \A w, u : Has(w, u) => Has(w, u)'
  BY SoundSequences, ClaimedRows
<1>3. ASSUME NEW u PROVE SameRows(u)
  <2>1. \A w \in {"start", "settle", "done", "lost", "report"} : Has(w, u)' <=> Has(w, u)
    BY <1>2
  <2>2. InInbox("done", u)' => InInbox("done", u)
    BY <1>2, <2>1 DEF InInbox
  <2> QED
    BY <2>1, <2>2 DEF SameRows
<1>4. \A u \in Tasks : Onward(u) /\ SameTask(u)
  BY <1>1, <1>3 DEF Onward, SameTask, SameRows
<1>5. /\ \A c \in DOMAIN call' : CallSound(call[c])'
      /\ \A u : SameCalls(u)
  BY <1>1, <1>4, SoundSequences, CallsStay
<1>6. BackgroundTypeOK'
  <2>1. durable' \in 0 .. Len(journal')
    BY <1>1, <1>2, LenProperties
  <2> QED
    BY <1>1, <1>2, <2>1 DEF NoticesInv, BackgroundTypeOK, loop, Row
<1>7. \A u \in Tasks : TaskSound(u)'
  BY <1>3, <1>4, <1>5, TaskStays DEF NoticesInv
<1> QED
  BY <1>2, <1>5, <1>6, <1>7 DEF NoticesInv

(* A step that leaves the tasks, their rows and their calls alone. *)
LEMMA TurnSound ==
  ASSUME NoticesInv, BackgroundTypeOK',
         UNCHANGED <<journal, status, delivery, settling, call, recon>>
  PROVE  NoticesInv'
<1>1. \A u : SameRows(u)
  BY NoRow
<1>2. \A u \in Tasks : Onward(u) /\ SameTask(u)
  BY <1>1 DEF Onward, SameTask, SameRows
<1>3. /\ \A c \in DOMAIN call' : CallSound(call[c])'
      /\ \A u : SameCalls(u)
  BY <1>2, SoundSequences, CallsStay
<1>4. RowsOK(journal')
  BY SoundSequences
<1>5. \A u \in Tasks : TaskSound(u)'
  BY <1>1, <1>2, <1>3, TaskStays DEF NoticesInv
<1> QED
  BY <1>3, <1>4, <1>5 DEF NoticesInv

(* The loop and the scheduler touch no task. *)
LEMMA LoopSound ==
  ASSUME NoticesInv,
         \/ EndTurn \/ CutTurn \/ UserMessage \/ Starts \/ SettleRun \/ Shut \/ Resume
         \/ Release \/ Attach
  PROVE  NoticesInv'
<1>1. /\ UNCHANGED taskVars
      /\ turn' \in {"no", "on", "well", "ill"} /\ sched' \in {"open", "shut", "none"}
      /\ queue' \subseteq {"wake", "user"} /\ missed' \in BOOLEAN
  <2> USE DEF NoticesInv, BackgroundTypeOK, taskVars
  <2>1. CASE EndTurn \/ CutTurn \/ Shut \/ Attach
    BY <2>1 DEF EndTurn, CutTurn, Shut, Attach
  <2>2. CASE UserMessage
    BY <2>2 DEF UserMessage
  <2>3. CASE Starts
    BY <2>3 DEF Starts, StartTurn
  <2>4. CASE SettleRun
    BY <2>4 DEF SettleRun, Woken
  <2>5. CASE Resume
    BY <2>5 DEF Resume, Woken
  <2>6. CASE Release
    BY <2>6 DEF Release
  <2> QED
    BY <2>1, <2>2, <2>3, <2>4, <2>5, <2>6
<1>2. BackgroundTypeOK'
  BY <1>1 DEF NoticesInv, BackgroundTypeOK, taskVars
<1> QED
  BY <1>1, <1>2, TurnSound DEF taskVars

(* A crash leaves a sound prefix, no call and no task of this process. *)
LEMMA CrashSound ==
  ASSUME NoticesInv, Crash PROVE NoticesInv'
<1>1. PICK n \in durable .. Len(journal) :
        LET kept == SubSeq(journal, 1, n)
            Kept(what, t) == \E i \in 1 .. n : kept[i] = <<what, t>> IN
        /\ journal' = kept
        /\ recon' = [t \in Tasks |-> IF Kept("start", t) /\ ~Kept("settle", t)
                                     THEN "settle" ELSE "no"]
  BY DEF Crash
<1>2. n \in 0 .. Len(journal) /\ durable \in 0 .. n
  BY SoundSequences, LenProperties DEF NoticesInv, BackgroundTypeOK, loop
<1>3. /\ journal' \in Seq(Row) /\ Len(journal') = n /\ RowsOK(journal')
      /\ \A w, u : Has(w, u)' <=> \E i \in 1 .. n : journal'[i] = <<w, u>>
  BY <1>1, <1>2, SoundSequences, CutRows
<1>4. recon' = [t \in Tasks |-> IF Has("start", t)' /\ ~Has("settle", t)'
                                THEN "settle" ELSE "no"]
  BY <1>1, <1>3
<1>5. /\ status' = [t \in Tasks |-> "none"]
      /\ settling' = [t \in Tasks |-> "no"] /\ call' = <<>>
  BY DEF Crash
<1>6. BackgroundTypeOK'
  <2>1. durable' \in 0 .. Len(journal') /\ crashes' \in 0 .. MaxCrashes /\ calls' = calls
    BY <1>2, <1>3, TaskAssumption DEF Crash, NoticesInv, BackgroundTypeOK
  <2>2. call' \in Seq(CallRec) /\ Len(call') <= MaxAtOnce
    BY <1>5, TaskAssumption
  <2>3. /\ status' \in [Tasks -> {"none", "running", "ended"}]
        /\ delivery' \in [Tasks -> {"pending", "enqueued", "wait", "stopped"}]
        /\ settling' \in [Tasks -> {"no", "notice", "late", "quiet", "notified", "over"}]
        /\ user' \in [Tasks -> {"no", "stopping", "over"}]
        /\ turn' \in {"no", "on", "well", "ill"} /\ sched' \in {"open", "shut", "none"}
        /\ missed' \in BOOLEAN
        /\ recon' \in [Tasks -> {"no", "settle", "notice"}]
    BY <1>4 DEF Crash
  <2>4. queue' \subseteq {"wake", "user"}
    BY DEF Crash, NoticesInv, BackgroundTypeOK
  <2> QED
    BY <1>3, <2>1, <2>2, <2>3, <2>4 DEF NoticesInv, BackgroundTypeOK, Row, CallRec
<1>7. DOMAIN call' = {}
  BY <1>5
<1>8. ASSUME NEW u \in Tasks PROVE TaskSound(u)'
  <2>1. status'[u] = "none" /\ settling'[u] = "no" /\ NoCall(u)'
    BY <1>5, <1>7 DEF NoCall
  <2>2. recon'[u] = IF Has("start", u)' /\ ~Has("settle", u)' THEN "settle" ELSE "no"
    BY <1>4
  <2>3. Gone(u)'
    BY <2>1, <2>2 DEF Gone
  <2> QED
    BY <2>1, <2>3 DEF TaskSound, Known, Spoken
<1> QED
  BY <1>3, <1>6, <1>7, <1>8 DEF NoticesInv

(* reconcile: the settle record ... *)
LEMMA SettleLostSound ==
  ASSUME NoticesInv, NEW t \in Tasks, SettleLost(t) PROVE NoticesInv'
<1>1. /\ recon[t] = "settle" /\ Log("settle", t) /\ recon' = [recon EXCEPT ![t] = "notice"]
      /\ UNCHANGED <<durable, status, delivery, settling, call, user, loop, calls,
                     crashes>>
  BY DEF SettleLost
<1>2. /\ status[t] = "none" /\ settling[t] = "no" /\ NoCall(t)
      /\ Has("start", t) /\ ~Has("settle", t) /\ ~Has("report", t)
  BY <1>1, SoundSequences, StartComesFirst DEF NoticesInv, TaskSound, Gone, Known
<1>3. "settle" \in Kinds /\ Fits("settle", t)
  BY <1>2 DEF Kinds, Fits
<1>4. /\ journal' \in Seq(Row) /\ Len(journal') = Len(journal) + 1
      /\ RowsOK(journal') /\ NewRow("settle", t)
      /\ \A c \in DOMAIN call' : CallSound(call[c])'
      /\ \A u : SameCalls(u) /\ (u # t => SameRows(u))
  BY <1>1, <1>3, Recorded
<1>5. BackgroundTypeOK'
  BY <1>1, <1>4, LenProperties DEF NoticesInv, BackgroundTypeOK, loop, Row
<1>6. \A u \in Tasks : u # t => SameTask(u)
  BY <1>1 DEF SameTask, NoticesInv, BackgroundTypeOK
<1>7. TaskSound(t)'
  <2>1. Has("start", t)' /\ Has("settle", t)' /\ ~Has("report", t)' /\ NoCall(t)'
    BY <1>2, <1>4 DEF NewRow, SameCalls
  <2>2. status'[t] = "none" /\ settling'[t] = "no" /\ recon'[t] = "notice"
    BY <1>1, <1>2 DEF NoticesInv, BackgroundTypeOK, loop
  <2> QED
    BY <2>1, <2>2 DEF TaskSound, Gone, Known, Spoken
<1> QED
  BY <1>4, <1>5, <1>6, <1>7, OneTask

(* ... and the notice. *)
LEMMA NotifyLostSound ==
  ASSUME NoticesInv, NEW t \in Tasks, NotifyLost(t) PROVE NoticesInv'
<1>1. /\ recon[t] = "notice" /\ Log("lost", t) /\ recon' = [recon EXCEPT ![t] = "no"]
      /\ UNCHANGED <<durable, status, delivery, settling, call, user, loop, calls,
                     crashes>>
  BY DEF NotifyLost
<1>2. /\ status[t] = "none" /\ settling[t] = "no" /\ NoCall(t)
      /\ Has("start", t) /\ Has("settle", t) /\ ~Has("report", t)
  BY <1>1 DEF NoticesInv, TaskSound, Gone, Known
<1>3. "lost" \in Kinds /\ Fits("lost", t)
  BY <1>2 DEF Kinds, Notices, Fits
<1>4. /\ journal' \in Seq(Row) /\ Len(journal') = Len(journal) + 1
      /\ RowsOK(journal') /\ NewRow("lost", t)
      /\ \A c \in DOMAIN call' : CallSound(call[c])'
      /\ \A u : SameCalls(u) /\ (u # t => SameRows(u))
  BY <1>1, <1>3, Recorded
<1>5. BackgroundTypeOK'
  BY <1>1, <1>4, LenProperties DEF NoticesInv, BackgroundTypeOK, loop, Row
<1>6. \A u \in Tasks : u # t => SameTask(u)
  BY <1>1 DEF SameTask, NoticesInv, BackgroundTypeOK
<1>7. TaskSound(t)'
  <2>1. Has("settle", t)' /\ NoCall(t)'
    BY <1>2, <1>4 DEF NewRow, SameCalls
  <2>2. status'[t] = "none" /\ settling'[t] = "no" /\ recon'[t] = "no"
    BY <1>1, <1>2 DEF NoticesInv, BackgroundTypeOK, loop
  <2> QED
    BY <2>1, <2>2 DEF TaskSound, Gone, Known, Spoken
<1> QED
  BY <1>4, <1>5, <1>6, <1>7, OneTask

-----------------------------------------------------------------------------
(***************************************************************************)
(* The theorem.                                                            *)
(***************************************************************************)
(* The invariant holds when nothing has happened. *)
LEMMA NoticesInit == BackgroundInit => NoticesInv
<1> SUFFICES ASSUME BackgroundInit PROVE NoticesInv
  OBVIOUS
<1>1. DOMAIN journal = {} /\ DOMAIN call = {} /\ Len(journal) = 0 /\ Len(call) = 0
  BY DEF BackgroundInit
<1>2. BackgroundTypeOK
  <2>1. /\ status \in [Tasks -> {"none", "running", "ended"}]
        /\ delivery \in [Tasks -> {"pending", "enqueued", "wait", "stopped"}]
        /\ settling \in [Tasks -> {"no", "notice", "late", "quiet", "notified", "over"}]
        /\ user \in [Tasks -> {"no", "stopping", "over"}]
        /\ recon \in [Tasks -> {"no", "settle", "notice"}]
    BY DEF BackgroundInit
  <2>2. /\ journal \in Seq(Kinds \X Tasks) /\ durable \in 0 .. Len(journal)
        /\ call \in Seq([at : {"listen", "discard", "settled", "stop", "void"},
                         of : SUBSET Tasks])
        /\ Len(call) <= MaxAtOnce
    BY <1>1, TaskAssumption DEF BackgroundInit
  <2>3. /\ turn \in {"no", "on", "well", "ill"} /\ sched \in {"open", "shut", "none"}
        /\ queue \subseteq {"wake", "user"} /\ missed \in BOOLEAN
    BY DEF BackgroundInit
  <2>4. calls \in 0 .. MaxCalls /\ crashes \in 0 .. MaxCrashes
    BY TaskAssumption DEF BackgroundInit
  <2> QED
    BY <2>1, <2>2, <2>3, <2>4 DEF BackgroundTypeOK
<1>3. \A w, u : ~Has(w, u)
  BY <1>1 DEF Has
<1>4. \A u \in Tasks : TaskSound(u)
  BY <1>1, <1>3 DEF BackgroundInit, TaskSound, Gone, Known, Spoken, NoCall
<1> QED
  BY <1>1, <1>2, <1>4 DEF NoticesInv, RowsOK

(* Every step keeps the invariant. *)
LEMMA NoticesNext == NoticesInv /\ [BackgroundNext]_backgroundVars => NoticesInv'
<1> SUFFICES ASSUME NoticesInv, [BackgroundNext]_backgroundVars PROVE NoticesInv'
  OBVIOUS
<1>1. ASSUME UNCHANGED backgroundVars PROVE NoticesInv'
  <2>1. BackgroundTypeOK'
    BY <1>1 DEF NoticesInv, BackgroundTypeOK, loop, backgroundVars
  <2> QED
    BY <1>1, <2>1, TurnSound DEF backgroundVars
<1>2. ASSUME NEW t \in Tasks, Register(t) \/ Finish(t) \/ Settlement(t) PROVE NoticesInv'
  BY <1>2, RegisterSound, FinishSound, RegisteredSound, NotifySound,
     CheckLateSound, SettleSound
  DEF Settlement
<1>3. ASSUME NEW t \in Tasks, WaitEnded(t) \/ Stop(t) \/ UserStop(t) \/ UserStopped(t)
      PROVE  NoticesInv'
  BY <1>3, WaitEndedSound, StopSound, UserStopSound, UserStoppedSound
<1>4. ASSUME Returns PROVE NoticesInv'
  BY <1>4, ReportSound, GiveUpSound, TakeBackSound DEF Returns
<1>5. ASSUME EndTurn \/ CutTurn \/ UserMessage \/ Starts \/ SettleRun \/ Shut \/ Resume
             \/ Release \/ Attach
      PROVE  NoticesInv'
  BY <1>5, LoopSound
<1>6. ASSUME Recovery PROVE NoticesInv'
  BY <1>6, SettleLostSound, NotifyLostSound DEF Recovery
<1> QED
  BY <1>1, <1>2, <1>3, <1>4, <1>5, <1>6, ListenSound, StepSound, CrashSound
  DEF BackgroundNext

(* What the invariant says of the journal as a whole. *)
LEMMA NoticesReported == NoticesInv => ReportedOnce
<1> SUFFICES ASSUME NoticesInv PROVE ReportedOnce
  OBVIOUS
<1>1. DOMAIN journal = 1 .. Len(journal) /\ Len(journal) \in Nat
  BY SoundSequences, LenProperties
<1>2. ASSUME NEW i \in DOMAIN journal
      PROVE  journal[i] = <<journal[i][1], journal[i][2]>> /\ journal[i][2] \in Tasks
  <2>1. journal[i] \in Row
    BY <1>1, SoundSequences, ElementOfSeq
  <2> QED
    BY <2>1 DEF Row
<1>3. ASSUME NEW i \in DOMAIN journal, NEW j \in DOMAIN journal,
             journal[i] = journal[j], journal[i][1] = "settle"
      PROVE  i = j
  <2>1. PICK t \in Tasks : journal[i] = <<"settle", t>> /\ journal[j] = <<"settle", t>>
    BY <1>2, <1>3
  <2>2. ~Ago(journal, "settle", t, i) /\ ~Ago(journal, "settle", t, j)
    BY <2>1, SoundSequences DEF RowsOK, RowOK
  <2>3. ~(i < j) /\ ~(j < i)
    BY <2>1, <2>2, Zenon DEF Ago
  <2> QED
    BY <1>1, <2>3
<1>4. Up => \A t \in Tasks : Has("start", t) /\ status[t] = "none" => Has("settle", t)
  BY DEF NoticesInv, TaskSound, Gone, Up
<1>5. ASSUME NEW i \in DOMAIN journal, NEW j \in DOMAIN journal,
             i < j, journal[i][1] = "report"
      PROVE  journal[j] \notin {<<"read done", journal[i][2]>>, <<"read lost", journal[i][2]>>}
  <2> DEFINE t == journal[i][2]
  <2>1. t \in Tasks /\ journal[i] = <<"report", t>>
    BY <1>2, <1>5
  <2> HIDE DEF t
  <2>2. Ago(journal, "report", t, j)
    BY <1>5, <2>1 DEF Ago
  <2>3. journal[j] \notin {<<"read done", t>>, <<"read lost", t>>}
    BY <2>1, <2>2, SoundSequences DEF RowsOK, RowOK
  <2> QED
    BY <2>3 DEF t
<1> QED
  BY <1>3, <1>4, <1>5 DEF NoticesInv, ReportedOnce, SettledOnce

(* A result that task_wait or task_stop has reported is not announced again, in *)
(* whatever order settlements, calls, claims, crashes and reconcile come, for   *)
(* any tasks and any number of calls side by side (registry.ts, inbox.ts).      *)
THEOREM EndsAreToldOnce == BackgroundSpec => []ReportedOnce
<1>1. BackgroundInit => NoticesInv
  BY NoticesInit
<1>2. NoticesInv /\ [BackgroundNext]_backgroundVars => NoticesInv'
  BY NoticesNext
<1>3. NoticesInv => ReportedOnce
  BY NoticesReported
<1> QED
  BY <1>1, <1>2, <1>3, PTL DEF BackgroundSpec

=============================================================================
