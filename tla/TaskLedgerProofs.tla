-------------------------- MODULE TaskLedgerProofs --------------------------
(***************************************************************************)
(* The ledger's commits and the replay's checks agree, for every set of    *)
(* tasks, runs and submissions and for any number of crashes: IInv is the  *)
(* inductive invariant behind TypeOK, QueueIsPending, Ownership and        *)
(* NeverPoisoned.                                                          *)
(*                                                                         *)
(* The invariants alone are not inductive: they do not say what is in a    *)
(* batch on its way to the file, nor that the snapshot on which the ledger *)
(* checks the next mutation is what the file holds.                        *)
(***************************************************************************)
EXTENDS TaskLedger, TaskProjectionProofs

Sync ==
  /\ blocked => up
  /\ op = Idle => batch = <<>>
  /\ op # Idle => up /\ ~blocked
  /\ up /\ ~blocked /\ batch = <<>> => Whole(disk)
  /\ up /\ ~blocked /\ op = Idle => snap = disk

OperationsOK ==
  /\ \A t \in started \cap Tasks : TakenAsOperation(disk, t)
  /\ op.kind = "operation" =>
       batch = StartOperationEvents(op.task) \/ (batch = <<>> /\ TakenAsOperation(disk, op.task))

IInv ==
  /\ TypeOK
  /\ WellFormed(disk) /\ WellFormed(snap) /\ RunHasTask(disk)
  /\ ~poisoned
  /\ BatchOK(disk, batch)
  /\ Sync
  /\ OperationsOK

-----------------------------------------------------------------------------
(***************************************************************************)
(* The inductive invariant.                                                *)
(***************************************************************************)
LEMMA InitIInv == Init => IInv
<1> SUFFICES ASSUME Init PROVE IInv
  OBVIOUS
<1>1. WellFormed(EmptySnapshot) /\ Whole(EmptySnapshot) /\ RunHasTask(EmptySnapshot)
  BY EmptyWellFormed, WholeRunHasTask
<1>2. op \in LaneOp /\ op.kind = "idle"
  BY DEF Init, Idle, LaneOp
<1>3. batch \in Seq(Event)
  BY EmptySeq DEF Init
<1>4. TypeOK
  <2>1. crashes \in 0..MaxCrashes
    BY MaxCrashesAssumption DEF Init
  <2>2. receipts \in [Submissions -> Tasks \cup {None}]
    BY DEF Init
  <2>3. snap \in Snapshot /\ disk \in Snapshot
    BY <1>1 DEF Init, WellFormed
  <2> QED
    BY <1>2, <1>3, <2>1, <2>2, <2>3 DEF Init, TypeOK
<1> QED
  BY <1>1, <1>2, <1>4 DEF Init, IInv, BatchOK, Sync, OperationsOK

(* A mutation whose batch is sound for the snapshot it was computed from.  *)
LEMMA CommitKeeps ==
  ASSUME IInv, LaneFree,
         NEW k \in LaneOp, k # Idle, NEW b \in Seq(Event), BatchOK(snap, b),
         k.kind = "operation" => b = StartOperationEvents(k.task),
         Commit(k, b)
  PROVE  IInv'
<1>1. snap = disk /\ Whole(disk)
  BY DEF IInv, Sync, LaneFree
<1>2. TypeOK'
  BY DEF IInv, TypeOK, Commit
<1>3. BatchOK(disk, batch)'
  <2>1. disk' = disk /\ batch' = b
    BY DEF Commit
  <2>2. BatchOK(disk, b)
    BY <1>1
  <2> QED
    BY <2>1, <2>2
<1>4. Sync'
  BY <1>1 DEF Sync, Commit, LaneFree
<1>5. OperationsOK'
  BY DEF IInv, OperationsOK, Commit
<1> QED
  BY <1>2, <1>3, <1>4, <1>5 DEF IInv, Commit

(* Persist is where a prefix of a batch becomes visible to the next owner. *)
LEMMA PersistKeeps ==
  ASSUME IInv, Persist
  PROVE  IInv'
<1> DEFINE e == Head(batch)
           n == Apply(disk, e)
<1>1. /\ batch \in Seq(Event) /\ batch # <<>>
      /\ WellFormed(disk) /\ BatchOK(disk, batch)
  BY DEF IInv, TypeOK, Persist
<1>2. e \in Event /\ Tail(batch) \in Seq(Event)
  BY <1>1, HeadTailProperties
<1>3. /\ Legal(disk, e) /\ WellFormed(n) /\ RunHasTask(n)
      /\ BatchOK(n, Tail(batch)) /\ (Tail(batch) = <<>> => Whole(n))
  <2>1. CASE Single(disk, batch)
    BY <1>1, <2>1, HeadOfSingle, WholeRunHasTask DEF BatchOK
  <2>2. CASE Pair(disk, batch)
    BY <1>1, <2>2, HeadOfPair DEF BatchOK
  <2>3. CASE Claims(disk, batch)
    BY <1>1, <2>3, HeadOfClaims, WholeRunHasTask DEF BatchOK, Claims
  <2> QED
    BY <1>1, <2>1, <2>2, <2>3 DEF BatchOK
<1> HIDE DEF e
<1>4. disk' = n /\ batch' = Tail(batch) /\ poisoned' = poisoned
  BY <1>3 DEF Persist, e
<1>5. TypeOK'
  BY <1>2, <1>3, <1>4 DEF IInv, TypeOK, Persist, WellFormed
<1>6. Sync'
  <2>1. op # Idle
    BY <1>1 DEF IInv, Sync
  <2> QED
    BY <1>3, <1>4, <2>1 DEF IInv, Sync, Persist
<1>7. OperationsOK'
  <2>1. \A t \in started \cap Tasks : TakenAsOperation(n, t)
    BY <1>1, <1>2, <1>3, TakenStays DEF IInv, OperationsOK
  <2>2. ASSUME op.kind = "operation"
        PROVE  Tail(batch) = <<>> /\ TakenAsOperation(n, op.task)
    <3>1. batch = StartOperationEvents(op.task) /\ op.task \in Tasks
      BY <1>1, <2>2 DEF IInv, OperationsOK, TypeOK, LaneOp, Idle
    <3>2. e = [op |-> "operation-start", task |-> op.task] /\ Tail(batch) = <<>>
      <4>1. Len(batch) = 1 /\ e = [op |-> "operation-start", task |-> op.task]
        BY <3>1 DEF StartOperationEvents, e
      <4>2. Len(Tail(batch)) = 0
        BY <1>1, <4>1, HeadTailProperties
      <4> QED
        BY <1>2, <4>1, <4>2, EmptySeq
    <3>3. IsPending(disk, op.task)
      BY <1>3, <3>2 DEF Legal
    <3>4. disk.run[op.task] = None
      BY <1>1, <3>1, <3>3 DEF WellFormed, OwnershipOK, IsPending
    <3>5. n = OperationStart(disk, e)
      BY <3>2 DEF Apply
    <3>6. n.state = [disk.state EXCEPT ![op.task] = "claimed"] /\ n.run = disk.run
      BY <1>1, <3>2, <3>5 DEF OperationStart, WellFormed, Snapshot
    <3> HIDE DEF n
    <3>7. TakenAsOperation(n, op.task)
      BY <1>1, <3>1, <3>4, <3>6 DEF TakenAsOperation, WellFormed, Snapshot
    <3> QED
      BY <3>2, <3>7
  <2> QED
    BY <1>4, <2>1, <2>2 DEF OperationsOK, TakenAsOperation, Persist
<1> QED
  BY <1>3, <1>4, <1>5, <1>6, <1>7 DEF IInv, Persist

\* Publishing a batch that is on disk keeps the invariant.
LEMMA PublishKeeps ==
  ASSUME IInv, Publish
  PROVE  IInv'
<1>1. Whole(disk)
  BY DEF IInv, Sync, Publish
<1>2. op' = Idle /\ Idle \in LaneOp /\ Idle.kind = "idle"
  BY DEF Publish, Idle, LaneOp
<1>3. receipts' \in [Submissions -> Tasks \cup {None}]
  <2>1. op.kind = "submit" => op.sub \in Submissions /\ op.task \in Tasks
    BY DEF IInv, TypeOK, LaneOp
  <2> QED
    BY <2>1 DEF IInv, TypeOK, Publish
<1>4. started' \subseteq Tasks \cup Runs
  <2>1. /\ op.kind = "start" => op.run \in Runs
        /\ op.kind = "operation" => op.task \in Tasks
    BY DEF IInv, TypeOK, LaneOp
  <2> QED
    BY <2>1 DEF IInv, TypeOK, Publish
<1>5. TypeOK'
  BY <1>2, <1>3, <1>4 DEF IInv, TypeOK, Publish
<1>6. Sync'
  BY <1>1, <1>2 DEF IInv, Sync, Publish
<1>7. OperationsOK'
  <2>1. op.kind = "start" => op.run \notin Tasks
    BY DistinctIdentifiers DEF IInv, TypeOK, LaneOp
  <2>2. op.kind = "operation" => TakenAsOperation(disk, op.task)
    BY DEF IInv, OperationsOK, Publish, StartOperationEvents
  <2>3. \A t \in started' \cap Tasks : TakenAsOperation(disk, t)
    BY <2>1, <2>2 DEF IInv, OperationsOK, Publish
  <2> QED
    BY <1>2, <2>3 DEF OperationsOK, Publish, TakenAsOperation
<1> QED
  BY <1>1, <1>5, <1>6, <1>7 DEF IInv, Publish, BatchOK

\* A commit that fails blocks the ledger and keeps the invariant.
LEMMA FailKeeps ==
  ASSUME IInv, FailCommit
  PROVE  IInv'
<1>1. Idle \in LaneOp /\ Idle.kind = "idle"
  BY DEF Idle, LaneOp
<1>2. TypeOK'
  BY <1>1, EmptySeq DEF IInv, TypeOK, FailCommit
<1>3. Sync' /\ OperationsOK'
  BY <1>1 DEF IInv, Sync, OperationsOK, TakenAsOperation, FailCommit
<1> QED
  BY <1>2, <1>3 DEF IInv, BatchOK, FailCommit

\* The death of the process, at any event of a batch, keeps the invariant.
LEMMA CrashKeeps ==
  ASSUME IInv, Crash
  PROVE  IInv'
<1>1. Idle \in LaneOp /\ Idle.kind = "idle"
  BY DEF Idle, LaneOp
<1>2. crashes' \in 0..MaxCrashes
  BY MaxCrashesAssumption DEF IInv, TypeOK, Crash
<1>3. TypeOK'
  BY <1>1, <1>2, EmptySeq DEF IInv, TypeOK, Crash
<1>4. Sync' /\ OperationsOK'
  BY <1>1 DEF IInv, Sync, OperationsOK, TakenAsOperation, Crash
<1> QED
  BY <1>3, <1>4 DEF IInv, BatchOK, Crash

(* An opening either settles what is left over, or finds nothing to settle *)
(* and a whole file: the half of a torn `start` always leaves its task in  *)
(* the queue.                                                              *)
LEMMA OpenKeeps ==
  ASSUME IInv, Open
  PROVE  IInv'
<1>1. WellFormed(disk) /\ RunHasTask(disk) /\ op = Idle /\ batch = <<>>
  BY DEF IInv, Sync, Open
<1>2. CASE NeedsRecovery(disk)
  <2>1. PICK r \in Runs : /\ Running(disk) # {} => r \in Running(disk)
                          /\ batch' = RecoverEvents(disk, r)
    BY <1>2 DEF Open
  <2>2. RecoverEvents(disk, r) \in Seq(Event) /\ BatchOK(disk, RecoverEvents(disk, r))
    BY <1>1, <2>1, RecoverBatch
  <2>3. RecoverEvents(disk, r) # <<>>
    BY Concatenations DEF RecoverEvents, ReturnEvents
  <2>4. op' = [kind |-> "open"] /\ op' \in LaneOp /\ op' # Idle
    BY <1>2 DEF Open, LaneOp, Idle
  <2>5. disk' = disk
    BY DEF Open
  <2>6. TypeOK'
    BY <2>1, <2>2, <2>4 DEF IInv, TypeOK, Open
  <2>7. BatchOK(disk, batch)'
    BY <2>1, <2>2, <2>5
  <2>8. Sync'
    BY <2>1, <2>2, <2>3, <2>4 DEF IInv, Sync, Open
  <2>9. op'.kind # "operation"
    BY <2>4
  <2>10. OperationsOK'
    BY <2>9 DEF IInv, OperationsOK, TakenAsOperation, Open
  <2> QED
    BY <2>6, <2>7, <2>8, <2>10 DEF IInv, Open
<1>3. CASE ~NeedsRecovery(disk)
  <2>1. Whole(disk)
    <3>1. Pending(disk) = {} /\ Claimed(disk) = {}
      BY <1>1, <1>3, QueueElems DEF NeedsRecovery, WellFormed
    <3>2. \A r \in Running(disk) : disk.runTask[r] # None => disk.runTask[r] \in Tasks
      BY <1>1 DEF WellFormed, Snapshot, Running
    <3> QED
      BY <1>1, <3>1, <3>2 DEF RunHasTask, JustStarted, Whole, Pending, HasClaimed
  <2>2. TypeOK'
    BY <1>3 DEF IInv, TypeOK, Open
  <2>3. Sync' /\ OperationsOK' /\ BatchOK(disk, batch)'
    BY <1>1, <1>3, <2>1 DEF IInv, Sync, OperationsOK, TakenAsOperation, Open, BatchOK
  <2> QED
    BY <1>3, <2>2, <2>3 DEF IInv, Open
<1> QED
  BY <1>2, <1>3

(* The mutations: each is a sound commit. *)
LEMMA EditsKeep ==
  ASSUME IInv, Edits
  PROVE  IInv'
<1>1. LaneFree => snap = disk /\ Whole(snap) /\ WellFormed(snap)
  BY DEF IInv, Sync, LaneFree
<1>2. /\ [kind |-> "edit"] \in LaneOp /\ [kind |-> "edit"] # Idle
      /\ [kind |-> "edit"].kind # "operation"
  BY DEF LaneOp, Idle
<1>3. ASSUME NEW s \in Submissions, SubmitAgain(s)
      PROVE  IInv'
  <2>1. TypeOK'
    BY <1>3 DEF IInv, TypeOK, SubmitAgain
  <2>2. Sync' /\ OperationsOK'
    BY <1>3 DEF IInv, Sync, OperationsOK, TakenAsOperation, SubmitAgain
  <2> QED
    BY <1>3, <2>1, <2>2 DEF IInv, SubmitAgain
<1>4. ASSUME NEW s \in Submissions, NEW t \in Tasks, NEW cont \in Tasks \cup {None},
             NEW idle \in BOOLEAN, Submit(s, t, cont, idle)
      PROVE  IInv'
  <2> DEFINE k == [kind |-> "submit", task |-> t, sub |-> s]
  <2>1. k \in LaneOp /\ k # Idle /\ k.kind # "operation"
    BY DEF LaneOp, Idle
  <2> HIDE DEF k
  <2>2. Commit(k, SubmitEvents(snap, s, t, cont, idle)) /\ LaneFree /\ CanSubmit(snap, s, t, cont)
    BY <1>4 DEF Submit, k
  <2> QED
    BY <1>1, <2>1, <2>2, SubmitBatch, CommitKeeps
<1>5. ASSUME NEW t \in Tasks, NEW r \in Runs \cup {None}, DesignateTask(t, r)
      PROVE  IInv'
  BY <1>1, <1>2, <1>5, DesignateBatch, CommitKeeps DEF DesignateTask
<1>6. ASSUME NEW t \in Tasks, CancelTask(t)
      PROVE  IInv'
  BY <1>1, <1>2, <1>6, CancelBatch, CommitKeeps DEF CancelTask
<1>7. ASSUME NEW t \in Tasks, NEW b \in Tasks, MoveTask(t, b)
      PROVE  IInv'
  BY <1>1, <1>2, <1>7, MoveBatch, CommitKeeps DEF MoveTask
<1>8. ASSUME NEW p \in BOOLEAN, SetPaused(p)
      PROVE  IInv'
  BY <1>1, <1>2, <1>8, PauseBatch, CommitKeeps DEF SetPaused
<1> QED
  BY <1>3, <1>4, <1>5, <1>6, <1>7, <1>8 DEF Edits

\* Starting, supplementing and finishing runs and operations keep the
\* invariant.
LEMMA ExecutionKeeps ==
  ASSUME IInv, Execution
  PROVE  IInv'
<1>1. LaneFree => snap = disk /\ Whole(snap) /\ WellFormed(snap)
  BY DEF IInv, Sync, LaneFree
<1>2. /\ [kind |-> "finish"] \in LaneOp /\ [kind |-> "finish"] # Idle
      /\ [kind |-> "finish"].kind # "operation"
  BY DEF LaneOp, Idle
<1>3. ASSUME NEW t \in Tasks, NEW r \in Runs, Start(t, r)
      PROVE  IInv'
  <2> DEFINE k == [kind |-> "start", run |-> r]
  <2>1. k \in LaneOp /\ k # Idle /\ k.kind # "operation"
    BY DEF LaneOp, Idle
  <2> HIDE DEF k
  <2>2. Commit(k, StartEvents(t, r)) /\ LaneFree /\ CanStart(snap, t, r)
    BY <1>3 DEF Start, k
  <2> QED
    BY <1>1, <2>1, <2>2, StartBatch, CommitKeeps
<1>4. ASSUME NEW r \in Runs, ClaimSupplement(r)
      PROVE  IInv'
  <2> DEFINE k == [kind |-> "supplement", run |-> r]
  <2>1. k \in LaneOp /\ k # Idle /\ k.kind # "operation"
    BY DEF LaneOp, Idle
  <2> HIDE DEF k
  <2>2. PICK b \in SupplementBatches(snap, r) :
          Commit(k, b) /\ LaneFree /\ CanSupplement(snap, r)
    BY <1>4 DEF ClaimSupplement, k
  <2> QED
    BY <1>1, <2>1, <2>2, SupplementBatch, CommitKeeps
<1>5. ASSUME NEW t \in Tasks, StartOperation(t)
      PROVE  IInv'
  <2> DEFINE k == [kind |-> "operation", task |-> t]
  <2>1. k \in LaneOp /\ k # Idle /\ k.task = t
    BY DEF LaneOp, Idle
  <2> HIDE DEF k
  <2>2. Commit(k, StartOperationEvents(t)) /\ LaneFree /\ CanStartOperation(snap, t)
    BY <1>5 DEF StartOperation, k
  <2> QED
    BY <1>1, <2>1, <2>2, OperationBatch, CommitKeeps
<1>6. ASSUME NEW t \in Tasks, NEW o \in Outcomes, FinishOperation(t, o)
      PROVE  IInv'
  <2>1. /\ LaneFree /\ snap.state[t] = "claimed"
        /\ Commit([kind |-> "finish"], FinishOperationEvents(t, o))
    BY <1>6 DEF FinishOperation
  <2>2. snap.run[t] = None
    BY <1>1, <1>6 DEF FinishOperation, IInv, OperationsOK, TakenAsOperation
  <2> QED
    BY <1>1, <1>2, <2>1, <2>2, FinishOperationBatch, CommitKeeps
<1>7. ASSUME NEW r \in Runs, NEW o \in Outcomes, Finish(r, o)
      PROVE  IInv'
  BY <1>1, <1>2, <1>7, FinishBatch, CommitKeeps DEF Finish
<1> QED
  BY <1>3, <1>4, <1>5, <1>6, <1>7 DEF Execution

\* Nothing happens.
LEMMA StutterKeeps ==
  ASSUME IInv, UNCHANGED vars
  PROVE  IInv'
<1>1. TypeOK'
  BY DEF IInv, TypeOK, vars
<1>2. BatchOK(disk, batch)'
  BY DEF IInv, vars
<1>3. Sync' /\ OperationsOK'
  BY DEF IInv, Sync, OperationsOK, TakenAsOperation, vars
<1> QED
  BY <1>1, <1>2, <1>3 DEF IInv, vars

(* The inductive invariant holds in every reachable state. *)
THEOREM InductiveInvariant == Spec => []IInv
<1>1. Init => IInv
  BY InitIInv
<1>2. IInv /\ [Next]_vars => IInv'
  <2>1. ASSUME IInv, Storage
        PROVE  IInv'
    BY <2>1, PersistKeeps, PublishKeeps, FailKeeps, CrashKeeps, OpenKeeps DEF Storage
  <2> QED
    BY <2>1, EditsKeep, ExecutionKeeps, StutterKeeps DEF Next
<1> QED
  BY <1>1, <1>2, PTL DEF Spec

(* Every variable keeps its type: a replayed snapshot is a task snapshot,  *)
(* and the lane holds one of the ledger's mutations (task-ledger.ts).      *)
THEOREM TypeCorrect == Spec => []TypeOK
BY InductiveInvariant, PTL DEF IInv

(* The queue on disk and in memory is the order of the pending tasks,      *)
(* through every edit, claim, torn batch and crash (task-projection.ts).   *)
THEOREM QueueCorrect == Spec => []QueueIsPending
<1>1. IInv => QueueIsPending
  BY DEF IInv, QueueIsPending, WellFormed
<1> QED
  BY <1>1, InductiveInvariant, PTL

(* At most one run is running, it has its first task or was torn before    *)
(* the claim, and steering and claims belong to it (task-projection.ts).   *)
THEOREM OwnershipCorrect == Spec => []Ownership
<1>1. IInv => Ownership
  BY DEF IInv, Ownership, WellFormed
<1> QED
  BY <1>1, InductiveInvariant, PTL

(* The replay accepts every prefix of everything the ledger appends: the   *)
(* INVALID_EVENT of projectTasks is unreachable at an opening, for any     *)
(* number of tasks, runs, clients and crashes.                             *)
THEOREM ReplayAccepts == Spec => []NeverPoisoned
<1>1. IInv => NeverPoisoned
  BY DEF IInv, NeverPoisoned
<1> QED
  BY <1>1, InductiveInvariant, PTL

(***************************************************************************)
(* The promise and the recovery.  The journal file, read as tasks, takes   *)
(* only the steps of the abstract specification, whatever is torn or lost  *)
(* on the way to it; and no work that the journal shows as active is left  *)
(* without an owner that does it.                                          *)
(***************************************************************************)
AcceptEvent(t, s, cont) == [op |-> "accept", task |-> t, sub |-> s, cont |-> cont]

(* A submission that waits for its receipt is in the batch or in the file. *)
SubmitOK ==
  op.kind = "submit" =>
    \/ \E cont \in Tasks \cup {None} :
         batch \in {<<AcceptEvent(op.task, op.sub, cont)>>,
                    <<AcceptEvent(op.task, op.sub, cont), [op |-> "resume"]>>}
    \/ disk.sub[op.task] = op.sub /\ batch \in {<<>>, <<[op |-> "resume"]>>}

\* Heads and tails of batches of one and two events.
LEMMA ShortTails ==
  ASSUME NEW a, NEW f
  PROVE  /\ Head(<<a>>) = a /\ Tail(<<a>>) = <<>>
         /\ Head(<<a, f>>) = a /\ Tail(<<a, f>>) = <<f>>
<1> DEFINE S == {a, f}
           t == Tail(<<a, f>>)
<1>1. /\ <<a, f>> \in Seq(S) /\ <<f>> \in Seq(S) /\ Len(<<f>>) = 1 /\ <<f>>[1] = f
      /\ <<a, f>> # <<>> /\ Len(<<a, f>>) = 2 /\ <<a, f>>[2] = f
  OBVIOUS
<1> HIDE DEF S
<1>2. t \in Seq(S) /\ Len(t) = 1 /\ t[1] = f
  BY <1>1, HeadTailProperties
<1>3. t = <<f>>
  <2>1. \A i \in 1..Len(t) : t[i] = <<f>>[i]
    BY <1>1, <1>2
  <2> HIDE DEF t
  <2> QED
    BY <1>1, <1>2, <2>1, SeqEqual
<1>4. Head(<<a>>) = a /\ Tail(<<a>>) = <<>> /\ Head(<<a, f>>) = a
  OBVIOUS
<1> QED
  BY <1>3, <1>4

\* Nothing is being submitted at first.
LEMMA SubmitOKInit == Init => SubmitOK
BY DEF Init, Idle, SubmitOK

\* Every step keeps that a submission that is written has its task on
\* disk.
LEMMA SubmitOKStep ==
  ASSUME IInv, SubmitOK, [Next]_vars
  PROVE  SubmitOK'
<1>1. ASSUME Persist
      PROVE  SubmitOK'
  <2> DEFINE e == Head(batch)
  <2>1. batch # <<>> /\ op' = op /\ batch' = Tail(batch)
    BY <1>1 DEF Persist
  <2>2. disk' = Apply(disk, e)
    <3>1. poisoned' = FALSE
      BY <1>1, PersistKeeps DEF IInv
    <3> QED
      BY <1>1, <3>1 DEF Persist
  <2>3. disk \in Snapshot /\ Tail(<<[op |-> "resume"]>>) = <<>>
    BY DEF IInv, WellFormed
  <2>4. SUFFICES ASSUME op.kind = "submit"
                 PROVE  disk'.sub[op.task] = op.sub /\ batch' \in {<<>>, <<[op |-> "resume"]>>}
    BY <2>1 DEF SubmitOK
  <2>5. op.task \in Tasks /\ op.sub \in Submissions
    BY <2>4 DEF IInv, TypeOK, LaneOp
  <2>6. ASSUME NEW cont \in Tasks \cup {None},
               batch \in {<<AcceptEvent(op.task, op.sub, cont)>>,
                          <<AcceptEvent(op.task, op.sub, cont), [op |-> "resume"]>>}
        PROVE  disk'.sub[op.task] = op.sub /\ batch' \in {<<>>, <<[op |-> "resume"]>>}
    <3> DEFINE a == AcceptEvent(op.task, op.sub, cont)
               f == [op |-> "resume"]
    <3>1. a.op = "accept" /\ a.task = op.task /\ a.sub = op.sub
      BY DEF AcceptEvent
    <3> HIDE DEF a, f
    <3>2. e = a /\ batch' \in {<<>>, <<f>>}
      BY <2>1, <2>6, ShortTails, ZenonT(40) DEF a, f
    <3>3. disk' = Accept(disk, a)
      BY <2>2, <3>1, <3>2 DEF Apply
    <3>4. disk'.sub = [disk.sub EXCEPT ![op.task] = op.sub]
      BY <2>3, <3>1, <3>3 DEF Accept, Snapshot
    <3> QED
      BY <2>3, <2>5, <3>2, <3>4 DEF Snapshot, f
  <2>7. ASSUME disk.sub[op.task] = op.sub, batch = <<[op |-> "resume"]>>
        PROVE  disk'.sub[op.task] = op.sub /\ batch' = <<>>
    <3>1. e.op = "resume"
      BY <2>7
    <3>2. disk' = [disk EXCEPT !.paused = FALSE]
      BY <2>2, <3>1 DEF Apply
    <3> QED
      BY <2>1, <2>3, <2>7, <3>2 DEF Snapshot
  <2> QED
    BY <2>1, <2>4, <2>6, <2>7 DEF SubmitOK
<1>2. ASSUME Publish \/ FailCommit \/ Crash
      PROVE  SubmitOK'
  BY <1>2 DEF Publish, FailCommit, Crash, Idle, SubmitOK
<1>3. ASSUME Open
      PROVE  SubmitOK'
  <2>1. op' = op \/ op' = [kind |-> "open"]
    BY <1>3 DEF Open
  <2>2. op.kind # "submit"
    BY <1>3 DEF Open, IInv, Sync, Idle
  <2> QED
    BY <2>1, <2>2 DEF SubmitOK
<1>4. ASSUME NEW s \in Submissions, NEW t \in Tasks, NEW cont \in Tasks \cup {None},
             NEW idle \in BOOLEAN, Submit(s, t, cont, idle)
      PROVE  SubmitOK'
  <2> DEFINE a == AcceptEvent(t, s, cont)
             f == [op |-> "resume"]
  <2>1. op' = [kind |-> "submit", task |-> t, sub |-> s]
    BY <1>4 DEF Submit, Commit
  <2>2. batch' \in {<<a>>, <<a, f>>}
    BY <1>4, Concatenations DEF Submit, Commit, SubmitEvents, AcceptEvent
  <2> HIDE DEF f
  <2>3. op'.task = t /\ op'.sub = s
    BY <2>1
  <2> QED
    BY <2>2, <2>3 DEF SubmitOK, f
<1>5. ASSUME Edits \/ Execution,
             ~\E s \in Submissions, t \in Tasks, cont \in Tasks \cup {None}, idle \in BOOLEAN :
                Submit(s, t, cont, idle)
      PROVE  SubmitOK'
  <2>1. op = Idle
    BY <1>5 DEF Edits, Execution, SubmitAgain, DesignateTask, CancelTask, MoveTask, SetPaused,
                Start, ClaimSupplement, StartOperation, FinishOperation, Finish, LaneFree
  <2>2. op' = op \/ op'.kind # "submit"
    BY <1>5 DEF Edits, Execution, SubmitAgain, DesignateTask, CancelTask, MoveTask, SetPaused,
                Start, ClaimSupplement, StartOperation, FinishOperation, Finish, Commit
  <2> QED
    BY <2>1, <2>2 DEF SubmitOK, Idle
<1>6. ASSUME UNCHANGED vars
      PROVE  SubmitOK'
  BY <1>6 DEF SubmitOK, vars
<1> QED
  BY <1>1, <1>2, <1>3, <1>4, <1>5, <1>6 DEF Next, Storage

-----------------------------------------------------------------------------
(***************************************************************************)
(* Steps.                                                                  *)
(***************************************************************************)
(* The only steps that touch the file apply a legal event to it. *)
LEMMA PersistSimulates ==
  ASSUME IInv, Persist
  PROVE  Promise!Next \/ UNCHANGED Promise!vars
<1> DEFINE e == Head(batch)
<1>1. /\ disk \in Snapshot /\ e \in Event /\ receipts' = receipts
      /\ batch \in Seq(Event) /\ batch # <<>>
  BY HeadTailProperties DEF IInv, TypeOK, Persist
<1>2. Legal(disk, e) /\ disk' = Apply(disk, e)
  <2>1. poisoned' = FALSE
    BY PersistKeeps DEF IInv
  <2> QED
    BY <2>1 DEF Persist
<1> HIDE DEF e
<1>3. CASE e.op = "accept"
  <2>1. /\ disk'.state = [disk.state EXCEPT ![e.task] = "pending"]
        /\ disk'.sub = [disk.sub EXCEPT ![e.task] = e.sub]
    BY <1>1, <1>2, <1>3 DEF Apply, Accept, Snapshot
  <2>2. Promise!Accept(e.task, e.sub) /\ e.task \in Tasks /\ e.sub \in Submissions
    BY <1>1, <1>2, <1>3, <2>1 DEF Promise!Accept, Legal, Event
  <2> QED
    BY <2>2 DEF Promise!Next
<1>4. CASE e.op \in {"designate", "return-steering", "start", "move", "pause", "resume"}
  <2>1. disk'.state = disk.state /\ disk'.sub = disk.sub
    BY <1>1, <1>2, <1>4 DEF Apply, Designate, ReturnSteering, RunStart, Move, Snapshot
  <2> QED
    BY <1>1, <2>1 DEF Promise!vars
<1>5. CASE e.op = "cancel"
  <2>1. disk'.state = [disk.state EXCEPT ![e.task] = "cancelled"] /\ disk'.sub = disk.sub
    BY <1>1, <1>2, <1>5 DEF Apply, Cancel, Snapshot
  <2>2. Promise!Withdraw(e.task) /\ e.task \in Tasks
    BY <1>1, <1>2, <1>5, <2>1 DEF Promise!Withdraw, Legal, IsPending, Event
  <2> QED
    BY <2>2 DEF Promise!Next
<1>6. CASE e.op \in {"claim", "operation-start"}
  <2>1. disk'.state = [disk.state EXCEPT ![e.task] = "claimed"] /\ disk'.sub = disk.sub
    BY <1>1, <1>2, <1>6 DEF Apply, Claim, OperationStart, Snapshot
  <2>2. Promise!Claim(e.task) /\ e.task \in Tasks
    BY <1>1, <1>2, <1>6, <2>1 DEF Promise!Claim, Legal, IsPending, Event
  <2> QED
    BY <2>2 DEF Promise!Next
<1>7. CASE e.op \in {"operation-finish", "finish", "recover"}
  <2> DEFINE S == CASE e.op = "operation-finish" -> {e.task}
                    [] e.op = "finish" -> {t \in Tasks : disk.run[t] = e.run /\ disk.state[t] = "claimed"}
                    [] OTHER -> {t \in Tasks : disk.state[t] = "claimed"}
             o == IF e.op = "recover" THEN "interrupted" ELSE e.outcome
  <2>1. disk'.sub = disk.sub
    BY <1>1, <1>2, <1>7 DEF Apply, OperationFinish, RunFinish, Recover, Snapshot
  <2>2. disk'.state = [t \in Tasks |-> IF t \in S THEN o ELSE disk.state[t]]
    <3>1. CASE e.op = "operation-finish"
      <4>1. disk'.state = [disk.state EXCEPT ![e.task] = e.outcome]
        BY <1>1, <1>2, <3>1 DEF Apply, OperationFinish, Snapshot
      <4> QED
        BY <1>1, <3>1, <4>1 DEF Snapshot
    <3>2. CASE e.op = "finish"
      BY <1>1, <1>2, <3>2 DEF Apply, RunFinish, Snapshot
    <3>3. CASE e.op = "recover"
      BY <1>1, <1>2, <3>3 DEF Apply, Recover, Snapshot
    <3> QED
      BY <1>7, <3>1, <3>2, <3>3
  <2>3. /\ \A t \in S : disk.state[t] = "claimed"
        /\ S \in SUBSET Tasks
        /\ o \in {"completed", "failed", "cancelled", "interrupted"}
    BY <1>1, <1>2, <1>7 DEF Legal, Event, Outcomes
  <2> HIDE DEF S, o
  <2>4. CASE S = {}
    <3>1. disk'.state = disk.state
      BY <1>1, <2>2, <2>4 DEF Snapshot
    <3> QED
      BY <1>1, <2>1, <3>1 DEF Promise!vars
  <2>5. CASE S # {}
    <3>1. Promise!Settle(S, o)
      BY <1>1, <2>1, <2>2, <2>3, <2>5 DEF Promise!Settle
    <3> QED
      BY <2>3, <3>1 DEF Promise!Next
  <2> QED
    BY <2>4, <2>5
<1>8. e.op \in {"accept", "designate", "cancel", "return-steering", "operation-start",
                "operation-finish", "start", "claim", "finish", "move", "pause",
                "resume", "recover"}
  BY <1>1 DEF Event
<1> QED
  BY <1>3, <1>4, <1>5, <1>6, <1>7, <1>8

(* A receipt is given for a task that is in the file. *)
LEMMA PublishSimulates ==
  ASSUME IInv, SubmitOK, Publish
  PROVE  Promise!Next \/ UNCHANGED Promise!vars
<1>1. CASE op.kind = "submit"
  <2>1. op.task \in Tasks /\ op.sub \in Submissions
    BY <1>1 DEF IInv, TypeOK, LaneOp
  <2>2. disk.sub[op.task] = op.sub
    BY <1>1 DEF SubmitOK, Publish
  <2>3. Promise!Acknowledge(op.sub, op.task)
    BY <1>1, <2>2 DEF Promise!Acknowledge, Publish
  <2> QED
    BY <2>1, <2>3 DEF Promise!Next
<1>2. CASE op.kind # "submit"
  BY <1>2 DEF Promise!vars, Publish
<1> QED
  BY <1>1, <1>2

\* Every step but a write and a publication is a step of the promise or
\* none.
LEMMA OthersSimulate ==
  ASSUME IInv, [Next]_vars, ~Persist, ~Publish
  PROVE  Promise!Next \/ UNCHANGED Promise!vars
<1>1. ASSUME NEW s \in Submissions, SubmitAgain(s)
      PROVE  Promise!Next
  <2>1. snap = disk
    BY <1>1 DEF SubmitAgain, LaneFree, IInv, Sync
  <2>2. PICK t \in Tasks : snap.sub[t] = s /\ receipts' = [receipts EXCEPT ![s] = t]
    BY <1>1 DEF SubmitAgain
  <2>3. Promise!Acknowledge(s, t)
    BY <1>1, <2>1, <2>2 DEF Promise!Acknowledge, SubmitAgain
  <2> QED
    BY <2>3 DEF Promise!Next
<1>2. ASSUME ~\E s \in Submissions : SubmitAgain(s)
      PROVE  disk' = disk /\ receipts' = receipts
  BY <1>2 DEF Next, Storage, Edits, Execution, FailCommit, Crash, Open, Submit, DesignateTask,
              CancelTask, MoveTask, SetPaused, Start, ClaimSupplement, StartOperation,
              FinishOperation, Finish, Commit, vars
<1> QED
  BY <1>1, <1>2 DEF Promise!vars

(* Every step of the ledger is a step of the promise or none: one task per *)
(* submission, receipts for durable tasks only, at most one execution of   *)
(* each task, outcomes that are final (task-ledger.ts, task-projection.ts).*)
THEOREM LedgerKeepsPromise == Spec => PromiseKept
<1>1. Init => Promise!Init
  BY DEF Init, Promise!Init, EmptySnapshot
<1>2. IInv /\ SubmitOK /\ [Next]_vars => [Promise!Next]_(Promise!vars)
  BY PersistSimulates, PublishSimulates, OthersSimulate
<1>3. IInv /\ SubmitOK /\ [Next]_vars => SubmitOK'
  BY SubmitOKStep
<1> QED
  BY <1>1, <1>2, <1>3, SubmitOKInit, InductiveInvariant, PTL
  DEF Spec, PromiseKept, Promise!Spec
-----------------------------------------------------------------------------
(***************************************************************************)
(* What readers see.  A step of the promise never takes a task back, so    *)
(* that a snapshot published once stays behind the file.                   *)
(***************************************************************************)
(* A task that has not been accepted has no submission. *)
Fresh(s) == \A t \in Tasks : s.state[t] = "none" => s.sub[t] = None

(* In n the tasks and runs are as far as in s, or further. *)
TasksAdvance(s, n) ==
  \A t \in Tasks : /\ Stage(s.state[t]) <= Stage(n.state[t])
                   /\ s.sub[t] # None => n.sub[t] = s.sub[t]

RunsAdvance(s, n) == \A r \in Runs : Stage(s.runState[r]) <= Stage(n.runState[r])

\* Stages are numbers.
LEMMA StageIsNumber == \A x : Stage(x) \in 0..3
BY DEF Stage

\* A snapshot with the same tasks and runs is no further back.
LEMMA AdvanceReflexive ==
  ASSUME NEW s, NEW n, n.state = s.state, n.sub = s.sub, n.runState = s.runState
  PROVE  TasksAdvance(s, n) /\ RunsAdvance(s, n)
BY StageIsNumber DEF TasksAdvance, RunsAdvance

\* Going forward twice is going forward.
LEMMA AdvanceTransitive ==
  ASSUME NEW s, NEW n, NEW m,
         TasksAdvance(s, n), RunsAdvance(s, n), TasksAdvance(n, m), RunsAdvance(n, m)
  PROVE  TasksAdvance(s, m) /\ RunsAdvance(s, m)
<1>1. ASSUME NEW x, NEW y, NEW z, Stage(x) <= Stage(y), Stage(y) <= Stage(z)
      PROVE  Stage(x) <= Stage(z)
  <2>1. Stage(x) \in Int /\ Stage(y) \in Int /\ Stage(z) \in Int
    BY StageIsNumber
  <2> QED
    BY <1>1, <2>1
<1>2. ASSUME NEW t \in Tasks
      PROVE  /\ Stage(s.state[t]) <= Stage(m.state[t])
             /\ s.sub[t] # None => m.sub[t] = s.sub[t]
  BY <1>1 DEF TasksAdvance
<1>3. ASSUME NEW r \in Runs
      PROVE  Stage(s.runState[r]) <= Stage(m.runState[r])
  BY <1>1 DEF RunsAdvance
<1> QED
  BY <1>2, <1>3 DEF TasksAdvance, RunsAdvance

(* Each step of the promise takes tasks forward. *)
LEMMA PromiseAdvances ==
  ASSUME disk \in Snapshot, Fresh(disk), Promise!Next \/ UNCHANGED Promise!vars
  PROVE  TasksAdvance(disk, disk') /\ Fresh(disk')
<1>1. /\ disk.state \in [Tasks -> TaskState]
      /\ disk.sub \in [Tasks -> Submissions \cup {None}]
  BY DEF Snapshot
<1>2. CASE disk'.state = disk.state /\ disk'.sub = disk.sub
  BY <1>2, StageIsNumber DEF TasksAdvance, Fresh
<1>3. ASSUME NEW t \in Tasks, NEW s \in Submissions, Promise!Accept(t, s)
      PROVE  TasksAdvance(disk, disk') /\ Fresh(disk')
  <2>1. /\ disk.state[t] = "none" /\ disk.sub[t] = None
        /\ disk'.state = [disk.state EXCEPT ![t] = "pending"]
        /\ disk'.sub = [disk.sub EXCEPT ![t] = s]
    BY <1>3 DEF Promise!Accept, Fresh
  <2>2. Stage("none") <= Stage("pending")
    BY DEF Stage
  <2>3. ASSUME NEW u \in Tasks
        PROVE  /\ Stage(disk.state[u]) <= Stage(disk'.state[u])
               /\ disk.sub[u] # None => disk'.sub[u] = disk.sub[u]
               /\ disk'.state[u] = "none" => disk'.sub[u] = None
    BY <1>1, <2>1, <2>2, StageIsNumber DEF Fresh
  <2> QED
    BY <2>3 DEF TasksAdvance, Fresh
<1>4. ASSUME NEW t \in Tasks, Promise!Withdraw(t) \/ Promise!Claim(t)
      PROVE  TasksAdvance(disk, disk') /\ Fresh(disk')
  <2>1. PICK o \in {"cancelled", "claimed"} :
          /\ disk.state[t] = "pending" /\ disk'.sub = disk.sub
          /\ disk'.state = [disk.state EXCEPT ![t] = o]
    BY <1>4 DEF Promise!Withdraw, Promise!Claim
  <2>2. Stage("pending") <= Stage(o) /\ o # "none"
    BY <2>1 DEF Stage
  <2>3. ASSUME NEW u \in Tasks
        PROVE  /\ Stage(disk.state[u]) <= Stage(disk'.state[u])
               /\ disk'.state[u] = "none" => disk'.sub[u] = None
    BY <1>1, <2>1, <2>2, StageIsNumber DEF Fresh
  <2> QED
    BY <2>1, <2>3 DEF TasksAdvance, Fresh
<1>5. ASSUME NEW S \in SUBSET Tasks,
             NEW o \in {"completed", "failed", "cancelled", "interrupted"},
             Promise!Settle(S, o)
      PROVE  TasksAdvance(disk, disk') /\ Fresh(disk')
  <2>1. /\ \A t \in S : disk.state[t] = "claimed"
        /\ disk'.state = [t \in Tasks |-> IF t \in S THEN o ELSE disk.state[t]]
        /\ disk'.sub = disk.sub
    BY <1>5 DEF Promise!Settle
  <2>2. Stage("claimed") <= Stage(o) /\ o # "none"
    BY DEF Stage
  <2>3. ASSUME NEW u \in Tasks
        PROVE  /\ Stage(disk.state[u]) <= Stage(disk'.state[u])
               /\ disk'.state[u] = "none" => disk'.sub[u] = None
    BY <1>1, <2>1, <2>2, StageIsNumber DEF Fresh
  <2> QED
    BY <2>1, <2>3 DEF TasksAdvance, Fresh
<1>6. CASE UNCHANGED Promise!vars \/ \E s \in Submissions, t \in Tasks : Promise!Acknowledge(s, t)
  BY <1>2, <1>6 DEF Promise!vars, Promise!Acknowledge
<1> QED
  BY <1>3, <1>4, <1>5, <1>6 DEF Promise!Next

(* A run starts, and ends once. *)
LEMMA PersistAdvancesRuns ==
  ASSUME IInv, Persist
  PROVE  RunsAdvance(disk, disk')
<1> DEFINE e == Head(batch)
<1>1. disk \in Snapshot /\ e \in Event
  BY HeadTailProperties DEF IInv, TypeOK, Persist
<1>2. Legal(disk, e) /\ disk' = Apply(disk, e)
  <2>1. poisoned' = FALSE
    BY PersistKeeps DEF IInv
  <2> QED
    BY <2>1 DEF Persist
<1> HIDE DEF e
<1>3. CASE e.op = "start"
  <2>1. /\ disk.runState[e.run] = "none"
        /\ disk'.runState = [disk.runState EXCEPT ![e.run] = "running"]
    BY <1>1, <1>2, <1>3 DEF Legal, Apply, RunStart, Snapshot
  <2>2. Stage("none") <= Stage("running")
    BY DEF Stage
  <2> QED
    BY <1>1, <2>1, <2>2, StageIsNumber DEF RunsAdvance, Snapshot
<1>4. CASE e.op = "finish"
  <2>1. /\ disk.runState[e.run] = "running" /\ e.outcome \in Outcomes
        /\ disk'.runState = [disk.runState EXCEPT ![e.run] = e.outcome]
    BY <1>1, <1>2, <1>4 DEF Legal, IsRunning, Apply, RunFinish, Snapshot, Event
  <2>2. Stage("running") <= Stage(e.outcome)
    BY <2>1 DEF Stage, Outcomes
  <2> QED
    BY <1>1, <2>1, <2>2, StageIsNumber DEF RunsAdvance, Snapshot
<1>5. CASE e.op = "recover"
  <2>1. disk'.runState = [r \in Runs |-> IF disk.runState[r] = "running"
                                           THEN "interrupted" ELSE disk.runState[r]]
    BY <1>1, <1>2, <1>5 DEF Apply, Recover, Snapshot
  <2>2. Stage("running") <= Stage("interrupted")
    BY DEF Stage
  <2> QED
    BY <2>1, <2>2, StageIsNumber DEF RunsAdvance
<1>6. CASE e.op \notin {"start", "finish", "recover"}
  <2>1. e.op \in {"accept", "designate", "cancel", "return-steering", "operation-start",
                  "operation-finish", "claim", "move", "pause", "resume"}
    BY <1>1, <1>6 DEF Event
  <2>2. disk'.runState = disk.runState
    BY <1>1, <1>2, <2>1 DEF Apply, Accept, Designate, Cancel, ReturnSteering, OperationStart,
                            OperationFinish, Claim, Move, Snapshot
  <2> QED
    BY <2>2, StageIsNumber DEF RunsAdvance
<1> QED
  BY <1>3, <1>4, <1>5, <1>6

\* Every step keeps the readers behind the file.
LEMMA NeverAheadStep ==
  ASSUME IInv, Fresh(disk), SnapshotNeverAhead, [Next]_vars
  PROVE  Fresh(disk') /\ SnapshotNeverAhead'
<1>1. TasksAdvance(snap, disk) /\ RunsAdvance(snap, disk)
  BY DEF SnapshotNeverAhead, TasksAdvance, RunsAdvance
<1>2. SUFFICES Fresh(disk') /\ TasksAdvance(snap', disk') /\ RunsAdvance(snap', disk')
  BY DEF SnapshotNeverAhead, TasksAdvance, RunsAdvance
<1>3. CASE Persist
  <2>1. TasksAdvance(disk, disk') /\ Fresh(disk')
    BY <1>3, PersistSimulates, PromiseAdvances DEF IInv, TypeOK
  <2>2. RunsAdvance(disk, disk') /\ snap' = snap
    BY <1>3, PersistAdvancesRuns DEF Persist
  <2> QED
    BY <1>1, <2>1, <2>2, AdvanceTransitive
<1>4. CASE Publish \/ Open
  <2>1. snap' = disk /\ disk' = disk
    BY <1>4 DEF Publish, Open
  <2> QED
    BY <2>1, AdvanceReflexive
<1>5. CASE ~Persist /\ ~Publish /\ ~Open
  <2>1. snap' = snap /\ disk' = disk
    BY <1>5 DEF Next, Storage, Edits, Execution, FailCommit, Crash, SubmitAgain, Submit,
                DesignateTask, CancelTask, MoveTask, SetPaused, Start, ClaimSupplement,
                StartOperation, FinishOperation, Finish, Commit, vars
  <2> QED
    BY <1>1, <2>1
<1> QED
  BY <1>3, <1>4, <1>5

(* Readers never see what a crash may take back: whatever the published    *)
(* snapshot shows of a task or a run is in the file, at every moment and   *)
(* for any number of tasks and crashes (`#commit` of task-ledger.ts        *)
(* publishes after the flush).                                             *)
THEOREM ReadersTrailTheFile == Spec => []SnapshotNeverAhead
<1>1. Init => Fresh(disk) /\ SnapshotNeverAhead
  <2>1. ASSUME Init
        PROVE  Fresh(disk) /\ snap = disk
    BY <2>1 DEF Init, EmptySnapshot, Fresh
  <2> QED
    BY <2>1, AdvanceReflexive DEF SnapshotNeverAhead, TasksAdvance, RunsAdvance
<1>2. IInv /\ Fresh(disk) /\ SnapshotNeverAhead /\ [Next]_vars
        => (Fresh(disk) /\ SnapshotNeverAhead)'
  BY NeverAheadStep
<1> QED
  BY <1>1, <1>2, InductiveInvariant, PTL DEF Spec

-----------------------------------------------------------------------------
(***************************************************************************)
(* Nobody's work stays behind: whenever the ledger takes calls, the owner  *)
(* executes each run and each claimed operation that the journal shows.    *)
(*                                                                         *)
(* The file may show more while a mutation is in the lane: what the        *)
(* mutation itself begins, and, at an opening, what a dead owner left, for *)
(* as long as the batch that settles it is on its way.                     *)
(***************************************************************************)
(* Claimed as an operation: no run goes with it. *)
Orphanable(d) == {t \in Claimed(d) : d.run[t] = None}

(* Events that begin a run or an operation. *)
Begins == {"start", "operation-start"}

(* What the event e begins belongs to the mutation k. *)
Mine(k, e) ==
  /\ e.op = "start" => k.kind = "start" /\ e.run = k.run
  /\ e.op = "operation-start" => k.kind = "operation" /\ e.task = k.task

Executed ==
  /\ \A r \in Running(disk) : r \in started \/ (op.kind = "start" /\ r = op.run)
  /\ \A t \in Orphanable(disk) : t \in started \/ (op.kind = "operation" /\ t = op.task)

Recovering == op.kind = "open" /\ batch # <<>> /\ batch[Len(batch)].op = "recover"

OwnerInv ==
  up /\ ~blocked =>
    /\ \A i \in 1..Len(batch) : Mine(op, batch[i])
    /\ Executed \/ Recovering

Quiet(b) == \A i \in 1..Len(b) : b[i].op \notin Begins

-----------------------------------------------------------------------------
(* An event adds to what is to be executed only what it begins. *)
LEMMA EventBegins ==
  ASSUME NEW d, NEW e \in Event, WellFormed(d), Legal(d, e)
  PROVE  /\ \A r \in Running(Apply(d, e)) : r \in Running(d) \/ (e.op = "start" /\ r = e.run)
         /\ \A t \in Orphanable(Apply(d, e)) :
              t \in Orphanable(d) \/ (e.op = "operation-start" /\ t = e.task)
<1> DEFINE n == Apply(d, e)
<1>1. /\ d.state \in [Tasks -> TaskState] /\ d.run \in [Tasks -> Runs \cup {None}]
      /\ d.runState \in [Runs -> RunState]
  BY DEF WellFormed, Snapshot
<1>2. CASE e.op \in {"designate", "return-steering", "move", "pause", "resume"}
  <2>1. n.state = d.state /\ n.run = d.run /\ n.runState = d.runState
    BY <1>2 DEF Apply, Designate, ReturnSteering, Move, WellFormed, Snapshot
  <2> QED
    BY <2>1 DEF Orphanable, Claimed, Running
<1>3. CASE e.op \in {"accept", "cancel", "operation-start", "operation-finish"}
  <2>1. PICK o \in {"pending", "cancelled", "claimed"} \cup Outcomes :
          /\ n.state = [d.state EXCEPT ![e.task] = o]
          /\ o = "claimed" => e.op = "operation-start"
    <3>1. CASE e.op = "accept"
      <4>1. n.state = [d.state EXCEPT ![e.task] = "pending"]
        BY <3>1 DEF Apply, Accept, WellFormed, Snapshot
      <4> QED
        BY <4>1
    <3>2. CASE e.op = "cancel"
      <4>1. n.state = [d.state EXCEPT ![e.task] = "cancelled"]
        BY <3>2 DEF Apply, Cancel, WellFormed, Snapshot
      <4> QED
        BY <4>1
    <3>3. CASE e.op = "operation-start"
      <4>1. n.state = [d.state EXCEPT ![e.task] = "claimed"]
        BY <3>3 DEF Apply, OperationStart, WellFormed, Snapshot
      <4> QED
        BY <3>3, <4>1
    <3>4. CASE e.op = "operation-finish"
      <4>1. n.state = [d.state EXCEPT ![e.task] = e.outcome]
        BY <3>4 DEF Apply, OperationFinish, WellFormed, Snapshot
      <4>2. e.outcome \in Outcomes /\ e.outcome # "claimed"
        BY <3>4 DEF Event, Outcomes
      <4> QED
        BY <4>1, <4>2
    <3> QED
      BY <1>3, <3>1, <3>2, <3>3, <3>4
  <2>2. n.run = d.run /\ n.runState = d.runState
    BY <1>3 DEF Apply, Accept, Cancel, OperationStart, OperationFinish, WellFormed, Snapshot
  <2>3. ASSUME NEW t \in Tasks, n.state[t] = "claimed"
        PROVE  d.state[t] = "claimed" \/ (e.op = "operation-start" /\ t = e.task)
    BY <1>1, <2>1, <2>3
  <2> QED
    BY <1>1, <2>2, <2>3 DEF Orphanable, Claimed, Running
<1>4. CASE e.op = "start"
  <2>1. /\ n.runState = [d.runState EXCEPT ![e.run] = "running"]
        /\ n.state = d.state /\ n.run = d.run
    BY <1>4 DEF Apply, RunStart, WellFormed, Snapshot
  <2> QED
    BY <1>1, <1>4, <2>1 DEF Orphanable, Claimed, Running
<1>5. CASE e.op = "claim"
  <2>1. /\ n.state = [d.state EXCEPT ![e.task] = "claimed"]
        /\ n.run = [d.run EXCEPT ![e.task] = e.run] /\ n.runState = d.runState
    BY <1>5 DEF Apply, Claim, WellFormed, Snapshot
  <2>2. e.run # None
    BY <1>5, NoneAssumption DEF Event
  <2> QED
    BY <1>1, <2>1, <2>2 DEF Orphanable, Claimed, Running
<1>6. CASE e.op = "finish"
  <2>1. /\ n.runState = [d.runState EXCEPT ![e.run] = e.outcome]
        /\ n.state = [t \in Tasks |-> IF d.run[t] = e.run /\ d.state[t] = "claimed"
                                        THEN e.outcome ELSE d.state[t]]
        /\ n.run = d.run
    BY <1>6 DEF Apply, RunFinish, WellFormed, Snapshot
  <2>2. e.outcome # "running" /\ e.outcome # "claimed"
    BY <1>6 DEF Event, Outcomes
  <2> QED
    BY <1>1, <2>1, <2>2 DEF Orphanable, Claimed, Running
<1>7. CASE e.op = "recover"
  BY <1>7, RecoverKeeps DEF Apply, Orphanable
<1>8. e.op \in {"accept", "designate", "cancel", "return-steering", "operation-start",
                "operation-finish", "start", "claim", "finish", "move", "pause",
                "resume", "recover"}
  BY DEF Event
<1> QED
  BY <1>2, <1>3, <1>4, <1>5, <1>6, <1>7, <1>8

\* At first nothing is active and nothing has been begun.
LEMMA InitOwner == Init => OwnerInv
<1>1. Init => Running(disk) = {} /\ Orphanable(disk) = {} /\ Len(batch) = 0
  BY DEF Init, EmptySnapshot, Running, Orphanable, Claimed
<1> QED
  BY <1>1 DEF OwnerInv, Executed

(* A commit from an idle lane whose batch begins only what is its own. *)
LEMMA CommitOwns ==
  ASSUME IInv, OwnerInv, LaneFree, NEW k, NEW b, Commit(k, b),
         \A i \in 1..Len(b) : Mine(k, b[i])
  PROVE  OwnerInv'
<1>1. up /\ ~blocked /\ op.kind = "idle"
  BY DEF LaneFree, Idle
<1>2. Executed
  BY <1>1 DEF OwnerInv, Recovering
<1>3. Executed'
  BY <1>1, <1>2 DEF Executed, Commit
<1>4. batch' = b /\ op' = k
  BY DEF Commit
<1> QED
  BY <1>3, <1>4 DEF OwnerInv

\* Calling a method that begins nothing keeps what the owner has begun.
LEMMA QuietCommitOwns ==
  ASSUME IInv, OwnerInv, LaneFree, NEW k, NEW b, Commit(k, b), Quiet(b)
  PROVE  OwnerInv'
<1>1. \A i \in 1..Len(b) : Mine(k, b[i])
  BY DEF Quiet, Begins, Mine
<1> QED
  BY <1>1, CommitOwns

\* A batch of one event that begins nothing begins nothing.
LEMMA QuietEvent ==
  ASSUME NEW e, e.op \notin Begins
  PROVE  Quiet(<<e>>)
<1>1. Len(<<e>>) = 1 /\ <<e>>[1] = e /\ \A i \in 1..1 : i = 1
  OBVIOUS
<1> QED
  BY <1>1 DEF Quiet

\* Nor do batches of one or two.
LEMMA QuietBatches ==
  ASSUME NEW e, NEW f, e.op \notin Begins, f.op \notin Begins
  PROVE  Quiet(<<e>>) /\ Quiet(<<e, f>>)
<1>1. Len(<<e>>) = 1 /\ <<e>>[1] = e /\ Len(<<e, f>>) = 2 /\ <<e, f>>[1] = e /\ <<e, f>>[2] = f
  OBVIOUS
<1>2. \A i \in 1..2 : i = 1 \/ i = 2
  OBVIOUS
<1> QED
  BY <1>1, <1>2, QuietEvent DEF Quiet

(* Returned steering in front of an event. *)
LEMMA QuietReturns ==
  ASSUME NEW r, NEW ids, NEW e, e.op \notin Begins
  PROVE  /\ Quiet(ReturnEvents(r, ids) \o <<e>>)
         /\ LET b == ReturnEvents(r, ids) \o <<e>>
            IN  b # <<>> /\ b[Len(b)] = e
<1> DEFINE f == [op |-> "return-steering", run |-> r, ids |-> ids]
<1>1. f.op \notin Begins
  BY DEF Begins
<1> HIDE DEF f
<1>2. Quiet(<<e>>) /\ Quiet(<<f, e>>)
  BY <1>1, QuietBatches
<1>3. ReturnEvents(r, ids) \o <<e>> \in {<<e>>, <<f, e>>}
  BY Concatenations DEF ReturnEvents, f
<1>4. <<e>> # <<>> /\ <<e>>[Len(<<e>>)] = e /\ <<f, e>> # <<>> /\ <<f, e>>[Len(<<f, e>>)] = e
  OBVIOUS
<1> QED
  BY <1>2, <1>3, <1>4

\* Each event that reaches the disk and begins something was begun by this
\* owner.
LEMMA PersistOwns ==
  ASSUME IInv, OwnerInv, Persist
  PROVE  OwnerInv'
<1> DEFINE e == Head(batch)
           rest == Tail(batch)
<1>1. /\ batch \in Seq(Event) /\ batch # <<>> /\ WellFormed(disk)
      /\ op' = op /\ started' = started /\ batch' = rest
  BY DEF IInv, TypeOK, Persist
<1>2. /\ e = batch[1] /\ e \in Event /\ Len(batch) \in Nat /\ Len(batch) >= 1
      /\ Len(rest) = Len(batch) - 1 /\ \A i \in 1..Len(rest) : rest[i] = batch[i + 1]
  BY <1>1, HeadTailProperties
<1>3. Legal(disk, e) /\ disk' = Apply(disk, e)
  <2>1. poisoned' = FALSE
    BY PersistKeeps DEF IInv
  <2> QED
    BY <2>1 DEF Persist
<1>4. up /\ ~blocked
  BY <1>1 DEF Persist, IInv, Sync
<1>5. \A i \in 1..Len(batch) : Mine(op, batch[i])
  BY <1>4 DEF OwnerInv
<1> HIDE DEF e, rest
<1>6. \A i \in 1..Len(batch') : Mine(op', batch'[i])
  <2> SUFFICES ASSUME NEW i \in 1..Len(rest)
               PROVE  Mine(op, rest[i])
    BY <1>1
  <2>1. i + 1 \in 1..Len(batch) /\ rest[i] = batch[i + 1]
    BY <1>2
  <2> QED
    BY <1>5, <2>1
<1>7. CASE Executed
  <2>1. Mine(op, e)
    BY <1>2, <1>5
  <2>2. Executed'
    BY <1>1, <1>2, <1>3, <1>7, <2>1, EventBegins DEF Executed, Mine
  <2> QED
    BY <1>6, <2>2 DEF OwnerInv
<1>8. CASE Recovering
  <2>1. CASE rest = <<>>
    <3>1. e.op = "recover"
      <4>1. Len(rest) = 0
        BY <2>1
      <4>2. Len(batch) = 1
        BY <1>2, <4>1
      <4> QED
        BY <1>2, <1>8, <4>2 DEF Recovering
    <3>2. Running(disk') = {} /\ Claimed(disk') = {}
      BY <1>1, <1>3, <3>1, RecoverKeeps DEF Apply
    <3>3. Executed'
      BY <3>2 DEF Executed, Orphanable
    <3> QED
      BY <1>6, <3>3 DEF OwnerInv
  <2>2. CASE rest # <<>>
    <3>1. rest \in Seq(Event) /\ Len(rest) \in Nat /\ Len(rest) >= 1
      BY <1>1, <1>2, <2>2, HeadTailProperties, EmptySeq DEF rest
    <3>2. rest[Len(rest)] = batch[Len(batch)]
      BY <1>2, <3>1
    <3>3. Recovering'
      BY <1>1, <1>8, <2>2, <3>2 DEF Recovering
    <3> QED
      BY <1>6, <3>3 DEF OwnerInv
  <2> QED
    BY <2>1, <2>2
<1> QED
  BY <1>4, <1>7, <1>8 DEF OwnerInv

\* Publication, and with it the end of a recovery, keeps the invariant.
LEMMA PublishOwns ==
  ASSUME IInv, OwnerInv, Publish
  PROVE  OwnerInv'
<1>1. up /\ ~blocked /\ batch = <<>> /\ batch' = <<>> /\ disk' = disk
  BY DEF Publish, IInv, Sync
<1>2. Executed
  BY <1>1 DEF OwnerInv, Recovering
<1>3. started \subseteq started' /\ (op.kind = "start" => op.run \in started')
      /\ (op.kind = "operation" => op.task \in started')
  BY DEF Publish
<1>4. Executed'
  BY <1>1, <1>2, <1>3 DEF Executed
<1> QED
  BY <1>1, <1>4 DEF OwnerInv

(* A file with nothing queued and nothing claimed runs nothing; any other  *)
(* is settled before the lane is free.                                     *)
LEMMA OpenOwns ==
  ASSUME IInv, OwnerInv, Open
  PROVE  OwnerInv'
<1>1. WellFormed(disk) /\ RunHasTask(disk) /\ op = Idle /\ batch = <<>> /\ disk' = disk
  BY DEF IInv, Sync, Open
<1>2. CASE NeedsRecovery(disk)
  <2>1. PICK r \in Runs : batch' = RecoverEvents(disk, r)
    BY <1>2 DEF Open
  <2> DEFINE ids == IF r \in Running(disk) THEN Steering(disk, r) ELSE {}
             last == [op |-> "recover"]
  <2>2. last.op \notin Begins /\ last.op = "recover"
    BY DEF Begins
  <2>3. batch' = ReturnEvents(r, ids) \o <<last>>
    BY <2>1 DEF RecoverEvents
  <2> HIDE DEF ids, last
  <2>4. Quiet(batch') /\ batch' # <<>> /\ batch'[Len(batch')] = last
    BY <2>2, <2>3, QuietReturns
  <2>5. op'.kind = "open"
    BY <1>2 DEF Open
  <2>6. Recovering'
    BY <2>2, <2>4, <2>5 DEF Recovering
  <2>7. \A i \in 1..Len(batch') : Mine(op', batch'[i])
    BY <2>4 DEF Quiet, Begins, Mine
  <2> QED
    BY <2>6, <2>7 DEF OwnerInv
<1>3. CASE ~NeedsRecovery(disk)
  <2>1. Pending(disk) = {} /\ Claimed(disk) = {}
    BY <1>1, <1>3, QueueElems DEF NeedsRecovery, WellFormed
  <2>2. \A r \in Running(disk) : disk.runTask[r] # None => disk.runTask[r] \in Tasks
    BY <1>1 DEF WellFormed, Snapshot, Running
  <2>3. Running(disk) = {}
    BY <1>1, <2>1, <2>2 DEF RunHasTask, JustStarted, Pending, HasClaimed
  <2>4. batch' = <<>>
    BY <1>1, <1>3 DEF Open
  <2>5. Executed'
    BY <1>1, <2>1, <2>3 DEF Executed, Orphanable
  <2> QED
    BY <2>4, <2>5 DEF OwnerInv
<1> QED
  BY <1>2, <1>3

\* Submissions and queue edits keep the invariant.
LEMMA EditsOwn ==
  ASSUME IInv, OwnerInv, Edits
  PROVE  OwnerInv'
<1>1. ASSUME NEW s \in Submissions, SubmitAgain(s)
      PROVE  OwnerInv'
  BY <1>1 DEF SubmitAgain, OwnerInv, Executed, Recovering, Mine
<1>2. ASSUME NEW s \in Submissions, NEW t \in Tasks, NEW cont \in Tasks \cup {None},
             NEW idle \in BOOLEAN, Submit(s, t, cont, idle)
      PROVE  OwnerInv'
  <2> DEFINE e == [op |-> "accept", task |-> t, sub |-> s, cont |-> cont]
             f == [op |-> "resume"]
  <2>1. e.op \notin Begins /\ f.op \notin Begins
    BY DEF Begins
  <2>2. SubmitEvents(snap, s, t, cont, idle) \in {<<e>>, <<e, f>>}
    BY Concatenations DEF SubmitEvents
  <2> HIDE DEF e, f
  <2>3. Quiet(SubmitEvents(snap, s, t, cont, idle))
    BY <2>1, <2>2, QuietBatches
  <2> QED
    BY <1>2, <2>3, QuietCommitOwns DEF Submit
<1>3. ASSUME NEW t \in Tasks, NEW r \in Runs \cup {None}, DesignateTask(t, r)
      PROVE  OwnerInv'
  <2> DEFINE e == [op |-> "designate", task |-> t, run |-> r]
             f == [op |-> "return-steering", run |-> snap.target[t], ids |-> {t}]
  <2>1. e.op \notin Begins /\ f.op \notin Begins
    BY DEF Begins
  <2>2. DesignateEvents(snap, t, r) \in {<<e>>, <<f>>}
    BY DEF DesignateEvents, ReturnEvents
  <2> HIDE DEF e, f
  <2>3. Quiet(DesignateEvents(snap, t, r))
    BY <2>1, <2>2, QuietBatches
  <2> QED
    BY <1>3, <2>3, QuietCommitOwns DEF DesignateTask
<1>4. ASSUME NEW t \in Tasks, CancelTask(t)
      PROVE  OwnerInv'
  <2> DEFINE e == [op |-> "cancel", task |-> t]
  <2>1. e.op \notin Begins /\ CancelEvents(t) = <<e>>
    BY DEF Begins, CancelEvents
  <2> HIDE DEF e
  <2>2. Quiet(CancelEvents(t))
    BY <2>1, QuietEvent
  <2> QED
    BY <1>4, <2>2, QuietCommitOwns DEF CancelTask
<1>5. ASSUME NEW t \in Tasks, NEW b \in Tasks, MoveTask(t, b)
      PROVE  OwnerInv'
  <2> DEFINE e == [op |-> "move", task |-> t, beforeTask |-> b]
  <2>1. e.op \notin Begins /\ MoveEvents(t, b) = <<e>>
    BY DEF Begins, MoveEvents
  <2> HIDE DEF e
  <2>2. Quiet(MoveEvents(t, b))
    BY <2>1, QuietEvent
  <2> QED
    BY <1>5, <2>2, QuietCommitOwns DEF MoveTask
<1>6. ASSUME NEW paused \in BOOLEAN, SetPaused(paused)
      PROVE  OwnerInv'
  <2> DEFINE e == [op |-> IF paused THEN "pause" ELSE "resume"]
  <2>1. e.op \notin Begins /\ PauseEvents(paused) = <<e>>
    BY DEF Begins, PauseEvents
  <2> HIDE DEF e
  <2>2. Quiet(PauseEvents(paused))
    BY <2>1, QuietEvent
  <2> QED
    BY <1>6, <2>2, QuietCommitOwns DEF SetPaused
<1> QED
  BY <1>1, <1>2, <1>3, <1>4, <1>5, <1>6 DEF Edits

\* Starting and finishing runs and operations keep the invariant.
LEMMA ExecutionOwns ==
  ASSUME IInv, OwnerInv, Execution
  PROVE  OwnerInv'
<1>1. ASSUME NEW t \in Tasks, NEW r \in Runs, Start(t, r)
      PROVE  OwnerInv'
  <2> DEFINE k == [kind |-> "start", run |-> r]
             b == StartEvents(t, r)
  <2>1. LaneFree /\ Commit(k, b) /\ op' = k
    BY <1>1 DEF Start, Commit
  <2>2. /\ Len(b) = 2 /\ b[1].op = "start" /\ b[1].run = r /\ b[2].op = "claim"
        /\ \A i \in 1..Len(b) : i = 1 \/ i = 2
    BY DEF StartEvents
  <2>3. op'.kind = "start" /\ op'.run = r
    BY <2>1
  <2> HIDE DEF b, k
  <2>4. \A i \in 1..Len(b) : /\ b[i].op = "start" => b[i].run = r
                             /\ b[i].op # "operation-start"
    BY <2>2
  <2>5. \A i \in 1..Len(b) : Mine(k, b[i])
    BY <2>1, <2>3, <2>4 DEF Mine
  <2> QED
    BY <2>1, <2>5, CommitOwns
<1>2. ASSUME NEW r \in Runs, ClaimSupplement(r)
      PROVE  OwnerInv'
  <2>1. PICK b \in SupplementBatches(snap, r) :
          LaneFree /\ Commit([kind |-> "supplement", run |-> r], b)
    BY <1>2 DEF ClaimSupplement
  <2> DEFINE S == Steering(snap, r)
  <2>2. b \in [1..Cardinality(S) -> [op : {"claim"}, task : S, run : {r}]]
    BY DEF SupplementBatches
  <2>3. Cardinality(S) \in Nat
    <3>1. S \subseteq Tasks
      BY QueueElems DEF Steering, IInv, WellFormed, Pending
    <3> QED
      BY <3>1, FiniteTasks, FS_Subset, FS_CardinalityType
  <2> HIDE DEF S
  <2>4. Len(b) = Cardinality(S)
    BY <2>2, <2>3
  <2>5. Quiet(b)
    BY <2>2, <2>4 DEF Quiet, Begins
  <2> QED
    BY <2>1, <2>5, QuietCommitOwns
<1>3. ASSUME NEW t \in Tasks, StartOperation(t)
      PROVE  OwnerInv'
  <2> DEFINE k == [kind |-> "operation", task |-> t]
             b == StartOperationEvents(t)
  <2>1. LaneFree /\ Commit(k, b) /\ op' = k
    BY <1>3 DEF StartOperation, Commit
  <2>2. /\ Len(b) = 1 /\ b[1].op = "operation-start" /\ b[1].task = t
        /\ \A i \in 1..Len(b) : i = 1
    BY DEF StartOperationEvents
  <2>3. op'.kind = "operation" /\ op'.task = t
    BY <2>1
  <2> HIDE DEF b, k
  <2>4. \A i \in 1..Len(b) : b[i].op = "operation-start" /\ b[i].task = t
    BY <2>2
  <2>5. \A i \in 1..Len(b) : Mine(k, b[i])
    BY <2>1, <2>3, <2>4 DEF Mine
  <2> QED
    BY <2>1, <2>5, CommitOwns
<1>4. ASSUME NEW t \in Tasks, NEW o \in Outcomes, FinishOperation(t, o)
      PROVE  OwnerInv'
  <2> DEFINE e == [op |-> "operation-finish", task |-> t, outcome |-> o]
  <2>1. e.op \notin Begins /\ FinishOperationEvents(t, o) = <<e>>
    BY DEF Begins, FinishOperationEvents
  <2> HIDE DEF e
  <2>2. Quiet(FinishOperationEvents(t, o))
    BY <2>1, QuietEvent
  <2> QED
    BY <1>4, <2>2, QuietCommitOwns DEF FinishOperation
<1>5. ASSUME NEW r \in Runs, NEW o \in Outcomes, Finish(r, o)
      PROVE  OwnerInv'
  <2> DEFINE e == [op |-> "finish", run |-> r, outcome |-> o]
  <2>1. e.op \notin Begins
    BY DEF Begins
  <2>2. FinishEvents(snap, r, o) = ReturnEvents(r, Steering(snap, r)) \o <<e>>
    BY DEF FinishEvents
  <2> HIDE DEF e
  <2>3. Quiet(FinishEvents(snap, r, o))
    BY <2>1, <2>2, QuietReturns
  <2> QED
    BY <1>5, <2>3, QuietCommitOwns DEF Finish
<1> QED
  BY <1>1, <1>2, <1>3, <1>4, <1>5 DEF Execution

\* Every step keeps the invariant.
LEMMA OwnerStep ==
  ASSUME IInv, OwnerInv, [Next]_vars
  PROVE  OwnerInv'
<1>1. CASE FailCommit \/ Crash
  BY <1>1 DEF FailCommit, Crash, OwnerInv
<1>2. CASE UNCHANGED vars
  BY <1>2 DEF vars, OwnerInv, Executed, Recovering, Mine
<1> QED
  BY <1>1, <1>2, PersistOwns, PublishOwns, OpenOwns, EditsOwn, ExecutionOwns DEF Next, Storage

(* A ledger that takes calls leaves no run and no operation to nobody: the *)
(* owner has begun each that its journal shows as active, through any      *)
(* number of crashes and torn batches (`TaskLedger.open`, start,           *)
(* startOperation).                                                        *)
THEOREM NothingIsOrphaned == Spec => []NoOrphan
<1>1. IInv /\ OwnerInv => NoOrphan
  <2> SUFFICES ASSUME IInv, OwnerInv, up, ~blocked, op = Idle
               PROVE  /\ Running(snap) \subseteq started
                      /\ \A t \in Claimed(snap) : snap.run[t] \in started \/ t \in started
    BY DEF NoOrphan
  <2>1. snap = disk /\ op.kind = "idle"
    BY DEF IInv, Sync, Idle
  <2>2. /\ \A r \in Running(disk) : r \in started
        /\ \A t \in Orphanable(disk) : t \in started
    BY <2>1 DEF OwnerInv, Executed, Recovering
  <2>3. \A t \in Claimed(disk) : disk.run[t] # None => disk.run[t] \in Running(disk)
    BY DEF IInv, WellFormed, OwnershipOK
  <2> QED
    BY <2>1, <2>2, <2>3 DEF Orphanable
<1>2. IInv /\ OwnerInv /\ [Next]_vars => OwnerInv'
  BY OwnerStep
<1> QED
  BY <1>1, <1>2, InitOwner, InductiveInvariant, PTL DEF Spec
=============================================================================
