--------------------------- MODULE TaskProjection ---------------------------
(***************************************************************************)
(* projectTasks (core/agent-service/src/task-projection.ts): the pure fold *)
(* that turns the scheduling events of one session's journal into a task   *)
(* snapshot.  Every opening of a session replays its journal through it,   *)
(* so an event that the fold rejects makes the session unopenable for good.*)
(*                                                                         *)
(* Legal(s, e) is the conjunction of the checks before `invalid()`, and    *)
(* Apply(s, e) the assignments of the same case.  Task content is reduced  *)
(* to the kind the scheduler tells apart; texts, results and harness       *)
(* identities do not influence any branch and are left out.                *)
(***************************************************************************)
EXTENDS QueueOrder, FiniteSets

CONSTANTS
  Tasks,         \* task identifiers (randomUUID in the code)
  Runs,          \* run identifiers
  Submissions,   \* identifiers chosen by clients, repeated by a retry
  None,          \* the code's null
  Operations     \* the submissions whose content is a taskOperation

ASSUME NoneAssumption ==
  None \notin Tasks \cup Runs \cup Submissions

ASSUME FiniteTasks == IsFiniteSet(Tasks)

ASSUME DistinctIdentifiers == Tasks \cap Runs = {}

ASSUME OperationsAssumption == Operations \subseteq Submissions

Outcomes  == {"completed", "failed", "cancelled"}
Terminal  == Outcomes \cup {"interrupted"}
TaskState == {"none", "pending", "claimed"} \cup Terminal
RunState  == {"none", "running"} \cup Terminal

Retryable == {"failed", "cancelled", "interrupted"}

(* TaskSnapshot.  "none" marks an identifier that is not in the map yet. *)
Snapshot ==
  [ state    : [Tasks -> TaskState],
    sub      : [Tasks -> Submissions \cup {None}],  \* task.submissionId
    run      : [Tasks -> Runs \cup {None}],         \* task.runId
    target   : [Tasks -> Runs \cup {None}],         \* task.targetRunId
    runState : [Runs -> RunState],
    runTask  : [Runs -> Tasks \cup {None}],         \* run.taskId
    queue    : SUBSET (Tasks \X Tasks),
    paused   : BOOLEAN ]

EmptySnapshot ==
  [ state    |-> [t \in Tasks |-> "none"],
    sub      |-> [t \in Tasks |-> None],
    run      |-> [t \in Tasks |-> None],
    target   |-> [t \in Tasks |-> None],
    runState |-> [r \in Runs |-> "none"],
    runTask  |-> [r \in Runs |-> None],
    queue    |-> EmptyQueue,
    paused   |-> FALSE ]

IsOperation(s, t) == s.sub[t] \in Operations
Running(s)        == {r \in Runs : s.runState[r] = "running"}
Claimed(s)        == {t \in Tasks : s.state[t] = "claimed"}
Untargeted(s)     == {t \in Tasks : s.target[t] = None}
Steering(s, r)    == {t \in Elems(s.queue) : s.target[t] = r}

(***************************************************************************)
(* Events.                                                                 *)
(***************************************************************************)
Event ==
  [op : {"accept"}, task : Tasks, sub : Submissions, cont : Tasks \cup {None}]
  \cup [op : {"designate"}, task : Tasks, run : Runs \cup {None}]
  \cup [op : {"cancel", "operation-start"}, task : Tasks]
  \cup [op : {"operation-finish"}, task : Tasks, outcome : Outcomes]
  \cup [op : {"claim", "start"}, task : Tasks, run : Runs]
  \cup [op : {"finish"}, run : Runs, outcome : Outcomes]
  \cup [op : {"return-steering"}, run : Runs, ids : SUBSET Tasks]
  \cup [op : {"move"}, task : Tasks, beforeTask : Tasks]
  \cup [op : {"pause", "resume", "recover"}]

IsPending(s, t) == s.state[t] = "pending"
IsRunning(s, r) == s.runState[r] = "running"

(* The condition under which the fold does not throw INVALID_EVENT. *)
Legal(s, e) ==
  CASE e.op = "accept" ->
         /\ s.state[e.task] = "none"
         /\ \A t \in Tasks : s.sub[t] # e.sub
         /\ e.cont = None \/ (e.cont \in Tasks /\ s.state[e.cont] \in Retryable)
    [] e.op = "designate" ->
         IsPending(s, e.task) /\ (e.run = None \/ (e.run \in Runs /\ IsRunning(s, e.run)))
    [] e.op = "cancel" -> IsPending(s, e.task)
    [] e.op = "return-steering" ->
         /\ IsRunning(s, e.run)
         /\ e.ids \subseteq Elems(s.queue)
         /\ \A t \in e.ids : IsPending(s, t) /\ s.target[t] = e.run
    [] e.op = "operation-start" ->
         /\ IsPending(s, e.task)
         /\ ~s.paused
         /\ s.target[e.task] = None
         /\ IsFirst(s.queue, e.task, Tasks)
         /\ Claimed(s) = {}
    [] e.op = "operation-finish" -> s.state[e.task] = "claimed" /\ s.run[e.task] = None
    [] e.op = "start" ->
         /\ IsPending(s, e.task)
         /\ ~s.paused
         /\ s.runState[e.run] = "none"
         /\ Running(s) = {}
         /\ s.target[e.task] = None
         /\ IsFirst(s.queue, e.task, Untargeted(s))
    [] e.op = "claim" ->
         /\ IsPending(s, e.task)
         /\ IsRunning(s, e.run)
         /\ s.runTask[e.run] = e.task \/ s.target[e.task] = e.run
    [] e.op = "finish" -> IsRunning(s, e.run)
    [] e.op = "move" ->
         /\ e.task # e.beforeTask
         /\ IsPending(s, e.task) /\ s.target[e.task] = None
         /\ IsPending(s, e.beforeTask) /\ s.target[e.beforeTask] = None
    [] OTHER -> TRUE

(***************************************************************************)
(* The effect of each event.                                               *)
(***************************************************************************)
Accept(s, e) ==
  [s EXCEPT !.state[e.task] = "pending", !.sub[e.task] = e.sub,
            !.queue = Push(@, e.task)]

Designate(s, e) == [s EXCEPT !.target[e.task] = e.run]

(* Mutant of Cancel: the withdrawn task stays steered. *)
CancelStaysSteered(s, e) ==
  [s EXCEPT !.state[e.task] = "cancelled", !.queue = Without(@, {e.task})]

Cancel(s, e) ==
  [s EXCEPT !.state[e.task] = "cancelled", !.target[e.task] = None,
            !.queue = Without(@, {e.task})]

ReturnSteering(s, e) ==
  [s EXCEPT !.target = [t \in Tasks |-> IF t \in e.ids THEN None ELSE @[t]],
            !.queue = ToFront(@, e.ids)]

OperationStart(s, e) ==
  [s EXCEPT !.state[e.task] = "claimed", !.queue = Without(@, {e.task})]

OperationFinish(s, e) ==
  [s EXCEPT !.state[e.task] = e.outcome, !.paused = @ \/ e.outcome # "completed"]

RunStart(s, e) ==
  [s EXCEPT !.runState[e.run] = "running", !.runTask[e.run] = e.task]

(* Mutant of Claim: the claimed task stays queued. *)
ClaimStaysQueued(s, e) ==
  [s EXCEPT !.state[e.task] = "claimed", !.run[e.task] = e.run, !.target[e.task] = None]

Claim(s, e) ==
  [s EXCEPT !.state[e.task] = "claimed", !.run[e.task] = e.run,
            !.target[e.task] = None, !.queue = Without(@, {e.task})]

RunFinish(s, e) ==
  LET claimed(t) == s.run[t] = e.run /\ s.state[t] = "claimed"
  IN  [s EXCEPT
        !.runState[e.run] = e.outcome,
        !.state  = [t \in Tasks |-> IF claimed(t) THEN e.outcome ELSE @[t]],
        !.target = [t \in Tasks |->
                      IF ~claimed(t) /\ @[t] = e.run THEN None ELSE @[t]],
        !.paused = @ \/ e.outcome # "completed"]

Move(s, e) == [s EXCEPT !.queue = MoveBefore(@, e.task, e.beforeTask)]

(* Mutant of Recover: claimed tasks are queued again. *)
RecoverRequeues(s) ==
  [s EXCEPT
    !.paused   = TRUE,
    !.runState = [r \in Runs |-> IF @[r] = "running" THEN "interrupted" ELSE @[r]],
    !.state    = [t \in Tasks |-> IF @[t] = "claimed" THEN "pending" ELSE @[t]],
    !.target   = [t \in Tasks |-> None]]

(* Ownership is taken after a crash: nothing claimed is executed again. *)
Recover(s) ==
  [s EXCEPT
    !.paused   = TRUE,
    !.runState = [r \in Runs |-> IF @[r] = "running" THEN "interrupted" ELSE @[r]],
    !.state    = [t \in Tasks |-> IF @[t] = "claimed" THEN "interrupted" ELSE @[t]],
    !.target   = [t \in Tasks |-> None]]

Apply(s, e) ==
  CASE e.op = "accept"           -> Accept(s, e)
    [] e.op = "designate"        -> Designate(s, e)
    [] e.op = "cancel"           -> Cancel(s, e)
    [] e.op = "return-steering"  -> ReturnSteering(s, e)
    [] e.op = "operation-start"  -> OperationStart(s, e)
    [] e.op = "operation-finish" -> OperationFinish(s, e)
    [] e.op = "start"            -> RunStart(s, e)
    [] e.op = "claim"            -> Claim(s, e)
    [] e.op = "finish"           -> RunFinish(s, e)
    [] e.op = "move"             -> Move(s, e)
    [] e.op = "pause"            -> [s EXCEPT !.paused = TRUE]
    [] e.op = "resume"           -> [s EXCEPT !.paused = FALSE]
    [] e.op = "recover"          -> Recover(s)

(***************************************************************************)
(* What the events keep true of a snapshot.                                *)
(***************************************************************************)
(* The queue holds exactly the pending tasks, each once.                   *)
QueueOK(s) == IsQueueOf(s.queue, {t \in Tasks : IsPending(s, t)})

(* At most one run is running; only pending work is steered, and only at   *)
(* the running run; a claimed task belongs to the running run or is an     *)
(* operation.                                                              *)
OwnershipOK(s) ==
  /\ \A r1, r2 \in Running(s) : r1 = r2
  /\ \A t \in Tasks : s.target[t] # None => IsPending(s, t) /\ s.target[t] \in Running(s)
  /\ \A t \in Claimed(s) : s.run[t] # None => s.run[t] \in Running(s)
  /\ \A t \in Tasks : s.run[t] # None => s.state[t] \notin {"none", "pending"}

(* A running run has claimed the task it was started for; or, between the  *)
(* two events of `start`, that task is still queued and nothing is steered *)
(* at the run yet.                                                         *)
HasClaimed(s, r) == s.runTask[r] \in Claimed(s) /\ s.run[s.runTask[r]] = r

JustStarted(s, r) ==
  /\ s.runTask[r] # None
  /\ IsPending(s, s.runTask[r])
  /\ \A t \in Tasks : s.target[t] # r

RunHasTask(s) == \A r \in Running(s) : HasClaimed(s, r) \/ JustStarted(s, r)
=============================================================================
