----------------------------- MODULE LedgerCalls -----------------------------
(***************************************************************************)
(* The methods of TaskLedger (core/agent-service/src/task-ledger.ts) as    *)
(* seen from the published snapshot s: CanX(s, ...) holds when the checks  *)
(* at the top of method X pass, and XEvents(s, ...) is the batch it then   *)
(* appends.  A call whose checks fail throws a TaskError and appends       *)
(* nothing.  `expectedRevision` is a check of this kind: a call carrying a *)
(* stale revision is refused, and one carrying the current revision goes   *)
(* on to the checks below.                                                 *)
(***************************************************************************)
EXTENDS TaskProjection, Sequences

(* projectTasks: the events of a batch, one after the other. *)
Replayed(s, events) ==
  LET after[i \in 0..Len(events)] ==
        IF i = 0 THEN s ELSE Apply(after[i - 1], events[i])
  IN  after[Len(events)]

Idling(s) == Elems(s.queue) = {} /\ Running(s) = {} /\ Claimed(s) = {}

(* #returnEvents: steering tasks that go back to the front of the queue. *)
ReturnEvents(r, ids) ==
  IF ids = {} THEN <<>>
  ELSE <<[op |-> "return-steering", run |-> r, ids |-> ids]>>

(* Mutant of NeedsRecovery: only queued work counts as left behind. *)
NeedsRecoveryIfQueued(s) == Elems(s.queue) # {}

(* open: what a dead owner left behind has to be settled first. *)
NeedsRecovery(s) == Elems(s.queue) # {} \/ Claimed(s) # {}

RecoverEvents(s, r) ==
  ReturnEvents(r, IF r \in Running(s) THEN Steering(s, r) ELSE {})
    \o <<[op |-> "recover"]>>

(* submit.  A repeated submission is answered with the receipt it got.     *)
(* With resumeWhenIdle, a fresh message does not wait behind a stale pause *)
(* when nothing runs and nothing else is queued.                           *)
IsRepeated(s, sub) == \E t \in Tasks : s.sub[t] = sub

CanSubmit(s, sub, t, cont) ==
  /\ ~IsRepeated(s, sub)
  /\ s.state[t] = "none"
  /\ cont # None => s.state[cont] \in Retryable

SubmitEvents(s, sub, t, cont, resumeWhenIdle) ==
  <<[op |-> "accept", task |-> t, sub |-> sub, cont |-> cont]>>
    \o (IF resumeWhenIdle /\ s.paused /\ Idling(s)
          THEN <<[op |-> "resume"]>> ELSE <<>>)

(* designate: aim a queued message at the current run, or take it back. *)
CanDesignate(s, t, r) ==
  /\ IsPending(s, t)
  /\ r # None => IsRunning(s, r) /\ ~IsOperation(s, t)

DesignateEvents(s, t, r) ==
  IF r = None /\ s.target[t] # None
    THEN ReturnEvents(s.target[t], {t})
    ELSE <<[op |-> "designate", task |-> t, run |-> r]>>

CanCancel(s, t)  == IsPending(s, t)
CancelEvents(t)  == <<[op |-> "cancel", task |-> t]>>

CanMove(s, t, b) ==
  /\ t # b
  /\ IsPending(s, t) /\ s.target[t] = None
  /\ IsPending(s, b) /\ s.target[b] = None

MoveEvents(t, b) == <<[op |-> "move", task |-> t, beforeTask |-> b]>>

(* setPaused and pause *)
PauseEvents(paused) == <<[op |-> IF paused THEN "pause" ELSE "resume"]>>

(* start: the run's identity and its first input in one batch. *)
CanStart(s, t, r) ==
  /\ ~s.paused
  /\ Running(s) = {} /\ s.runState[r] = "none"
  /\ IsPending(s, t)
  /\ s.target[t] = None
  /\ IsFirst(s.queue, t, Untargeted(s))

StartEvents(t, r) ==
  <<[op |-> "start", task |-> t, run |-> r], [op |-> "claim", task |-> t, run |-> r]>>

(* claimSupplement: everything steered at the run, in queue order. *)
CanSupplement(s, r) == IsRunning(s, r) /\ Steering(s, r) # {}

(* The claims of these tasks in queue order: a set with one member. *)
SupplementBatches(s, r) ==
  LET S == Steering(s, r)
  IN  {evs \in [1..Cardinality(S) -> [op : {"claim"}, task : S, run : {r}]] :
         \A i, j \in 1..Cardinality(S) :
           i < j => /\ evs[i].task # evs[j].task
                    /\ <<evs[i].task, evs[j].task>> \in s.queue}

CanStartOperation(s, t) ==
  /\ ~s.paused
  /\ IsPending(s, t)
  /\ IsFirst(s.queue, t, Tasks)
  /\ Claimed(s) = {}

StartOperationEvents(t) == <<[op |-> "operation-start", task |-> t]>>

(* finishOperation checks nothing: run-manager.ts calls it once, for the   *)
(* operation it has started.                                               *)
FinishOperationEvents(t, outcome) ==
  <<[op |-> "operation-finish", task |-> t, outcome |-> outcome]>>

CanFinish(s, r) == IsRunning(s, r)

(* Mutant of FinishEvents: the run is finished before its steering returns. *)
FinishFirst(s, r, outcome) ==
  <<[op |-> "finish", run |-> r, outcome |-> outcome]>>
    \o ReturnEvents(r, Steering(s, r))

FinishEvents(s, r, outcome) ==
  ReturnEvents(r, Steering(s, r))
    \o <<[op |-> "finish", run |-> r, outcome |-> outcome]>>
=============================================================================
