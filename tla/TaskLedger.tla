----------------------------- MODULE TaskLedger -----------------------------
(***************************************************************************)
(* The task ledger of one session                                          *)
(* (core/agent-service/src/task-ledger.ts): every scheduling mutation is a *)
(* batch of journal events, computed from the last published snapshot,     *)
(* appended, flushed and only then published.                              *)
(*                                                                         *)
(* The ledger's serial lane runs one mutation at a time, so a mutation is  *)
(* `op` from the moment its checks have passed until its snapshot is       *)
(* published.  What does happen in between is what this module is about:   *)
(* the write-behind queue moves the batch to disk event by event, in one   *)
(* or several writes; a write, a flush or the writer lease may fail; and   *)
(* the process may die at any point, leaving any prefix of the batch.      *)
(*                                                                         *)
(* Calls whose checks fail change nothing: they are not steps.             *)
(***************************************************************************)
EXTENDS LedgerCalls

CONSTANT MaxCrashes  \* bound: process deaths per behaviour

ASSUME MaxCrashesAssumption == MaxCrashes \in Nat

VARIABLES
  up,        \* the process that owns the session is alive and the ledger open
  blocked,   \* #blocked: a durability failure, final for this process
  snap,      \* #snapshot: what every reader of the ledger sees
  op,        \* the mutation that holds the serial lane, or Idle
  batch,     \* its events that are accepted but not yet on disk
  disk,      \* the projection of the journal file
  poisoned,  \* the file holds an event that the projection rejects
  receipts,  \* the receipt a client got for each submission (history)
  started,   \* runs and operations begun by the current process (history)
  crashes

vars == <<up, blocked, snap, op, batch, disk, poisoned, receipts, started, crashes>>

Idle == [kind |-> "idle"]

(* The operation runs that hold the lane, with what their caller awaits. *)
LaneOp ==
  [kind : {"idle", "open", "edit", "finish"}]
  \cup [kind : {"submit"}, task : Tasks, sub : Submissions]
  \cup [kind : {"start", "supplement"}, run : Runs]
  \cup [kind : {"operation"}, task : Tasks]

TypeOK ==
  /\ up \in BOOLEAN /\ blocked \in BOOLEAN /\ poisoned \in BOOLEAN
  /\ snap \in Snapshot /\ disk \in Snapshot
  /\ op \in LaneOp
  /\ batch \in Seq(Event)
  /\ receipts \in [Submissions -> Tasks \cup {None}]
  /\ started \subseteq Tasks \cup Runs
  /\ crashes \in 0..MaxCrashes

Init ==
  /\ up = TRUE /\ blocked = FALSE /\ poisoned = FALSE
  /\ snap = EmptySnapshot /\ disk = EmptySnapshot
  /\ op = Idle /\ batch = <<>>
  /\ receipts = [s \in Submissions |-> None]
  /\ started = {}
  /\ crashes = 0

-----------------------------------------------------------------------------
(***************************************************************************)
(* #serialize and #commit.                                                 *)
(***************************************************************************)
LaneFree == up /\ ~blocked /\ op = Idle

(* Mutant of Commit: the snapshot is published before the flush. *)
CommitEagerly(kind, events) ==
  /\ op' = kind
  /\ batch' = events
  /\ snap' = Apply(snap, Head(events))
  /\ UNCHANGED <<up, blocked, disk, poisoned, receipts, started, crashes>>

(* session.appendMany accepted the batch; the flush is awaited. *)
Commit(kind, events) ==
  /\ op' = kind
  /\ batch' = events
  /\ UNCHANGED <<up, blocked, snap, disk, poisoned, receipts, started, crashes>>

(* A write reaches the file: the next accepted event becomes durable. *)
Persist ==
  /\ up /\ batch # <<>>
  /\ IF Legal(disk, Head(batch))
       THEN disk' = Apply(disk, Head(batch)) /\ UNCHANGED poisoned
       ELSE poisoned' = TRUE /\ UNCHANGED disk
  /\ batch' = Tail(batch)
  /\ UNCHANGED <<up, blocked, snap, op, receipts, started, crashes>>

(* The flush barrier returned: publish the snapshot, answer the caller. *)
Publish ==
  /\ up /\ op # Idle /\ batch = <<>> /\ ~poisoned
  /\ snap' = disk
  /\ op' = Idle
  /\ receipts' = IF op.kind = "submit"
                   THEN [receipts EXCEPT ![op.sub] = op.task] ELSE receipts
  /\ started' = CASE op.kind = "start"     -> started \cup {op.run}
                  [] op.kind = "operation" -> started \cup {op.task}
                  [] OTHER                 -> started
  /\ UNCHANGED <<up, blocked, batch, disk, poisoned, crashes>>

(* The append, a write, the flush or the lease check failed.  The journal  *)
(* in memory may hold events the file does not: nothing is written again.  *)
FailCommit ==
  /\ up /\ op # Idle
  /\ blocked' = TRUE
  /\ op' = Idle
  /\ batch' = <<>>
  /\ UNCHANGED <<up, snap, disk, poisoned, receipts, started, crashes>>

(* The process dies.  Events that were accepted but not written are gone. *)
Crash ==
  /\ up /\ crashes < MaxCrashes
  /\ crashes' = crashes + 1
  /\ up' = FALSE
  /\ blocked' = FALSE
  /\ op' = Idle /\ batch' = <<>>
  /\ started' = {}
  /\ UNCHANGED <<snap, disk, poisoned, receipts>>

(***************************************************************************)
(* The mutations.  Each takes its batch from the published snapshot.       *)
(***************************************************************************)
(* TaskLedger.open: replay the file, then settle what the previous owner   *)
(* left behind.  Both happen before any caller gets the ledger.            *)
Open ==
  /\ ~up /\ ~poisoned
  /\ up' = TRUE
  /\ snap' = disk
  /\ IF NeedsRecovery(disk)
       THEN /\ op' = [kind |-> "open"]
            /\ \E r \in Runs : /\ Running(disk) # {} => r \in Running(disk)
                              /\ batch' = RecoverEvents(disk, r)
       ELSE UNCHANGED <<op, batch>>
  /\ UNCHANGED <<blocked, disk, poisoned, receipts, started, crashes>>

SubmitAgain(s) ==
  /\ LaneFree
  /\ \E t \in Tasks :
       /\ snap.sub[t] = s
       /\ receipts' = [receipts EXCEPT ![s] = t]
  /\ UNCHANGED <<up, blocked, snap, op, batch, disk, poisoned, started, crashes>>

Submit(s, t, cont, resumeWhenIdle) ==
  /\ LaneFree
  /\ CanSubmit(snap, s, t, cont)
  /\ Commit([kind |-> "submit", task |-> t, sub |-> s],
            SubmitEvents(snap, s, t, cont, resumeWhenIdle))

DesignateTask(t, r) ==
  /\ LaneFree
  /\ CanDesignate(snap, t, r)
  /\ Commit([kind |-> "edit"], DesignateEvents(snap, t, r))

CancelTask(t) ==
  /\ LaneFree
  /\ CanCancel(snap, t)
  /\ Commit([kind |-> "edit"], CancelEvents(t))

MoveTask(t, b) ==
  /\ LaneFree
  /\ CanMove(snap, t, b)
  /\ Commit([kind |-> "edit"], MoveEvents(t, b))

SetPaused(paused) ==
  /\ LaneFree
  /\ Commit([kind |-> "edit"], PauseEvents(paused))

Start(t, r) ==
  /\ LaneFree
  /\ CanStart(snap, t, r)
  /\ Commit([kind |-> "start", run |-> r], StartEvents(t, r))

ClaimSupplement(r) ==
  /\ LaneFree
  /\ CanSupplement(snap, r)
  /\ \E batches \in SupplementBatches(snap, r) :
       Commit([kind |-> "supplement", run |-> r], batches)

StartOperation(t) ==
  /\ LaneFree
  /\ CanStartOperation(snap, t)
  /\ Commit([kind |-> "operation", task |-> t], StartOperationEvents(t))

(* Only the caller that started an operation finishes it, and once         *)
(* (#executeOperation of run-manager.ts).                                  *)
FinishOperation(t, outcome) ==
  /\ LaneFree
  /\ t \in started /\ snap.state[t] = "claimed"
  /\ Commit([kind |-> "finish"], FinishOperationEvents(t, outcome))

Finish(r, outcome) ==
  /\ LaneFree
  /\ CanFinish(snap, r)
  /\ Commit([kind |-> "finish"], FinishEvents(snap, r, outcome))

-----------------------------------------------------------------------------
Storage == Persist \/ Publish \/ FailCommit \/ Crash \/ Open

Edits ==
  \/ \E s \in Submissions : SubmitAgain(s)
  \/ \E s \in Submissions, t \in Tasks, cont \in Tasks \cup {None}, idle \in BOOLEAN :
       Submit(s, t, cont, idle)
  \/ \E t \in Tasks, r \in Runs \cup {None} : DesignateTask(t, r)
  \/ \E t \in Tasks : CancelTask(t)
  \/ \E t, b \in Tasks : MoveTask(t, b)
  \/ \E paused \in BOOLEAN : SetPaused(paused)

Execution ==
  \/ \E t \in Tasks, r \in Runs : Start(t, r)
  \/ \E r \in Runs : ClaimSupplement(r)
  \/ \E t \in Tasks : StartOperation(t)
  \/ \E t \in Tasks, o \in Outcomes : FinishOperation(t, o)
  \/ \E r \in Runs, o \in Outcomes : Finish(r, o)

Next == Storage \/ Edits \/ Execution

Spec == Init /\ [][Next]_vars

-----------------------------------------------------------------------------
(***************************************************************************)
(* Properties.  QueueOK, OwnershipOK and RunHasTask say what must hold of  *)
(* the file at every moment, torn batches included: the next owner starts  *)
(* from whatever is there.                                                 *)
(***************************************************************************)
(* No edit, claim, crash or torn batch loses an accepted task from the     *)
(* queue, repeats one, or leaves a settled one in it (`queue` of           *)
(* projectTasks, which the scheduler and every client view read).          *)
QueueIsPending == QueueOK(disk) /\ QueueOK(snap)

(* Steering, claims and runs agree with each other on disk and in memory,  *)
(* although five different commits maintain them and each may be torn.     *)
Ownership == OwnershipOK(disk) /\ OwnershipOK(snap) /\ RunHasTask(disk)

(* The ledger's checks run against its published snapshot, the replay's    *)
(* checks against the file; whatever the ledger lets through, and whatever *)
(* prefix of a batch survives a crash, the replay accepts.  An event that  *)
(* it rejects would make `projectTasks` throw at every later opening.      *)
NeverPoisoned == ~poisoned

(* An owner that is open for business executes every run and every claimed *)
(* operation its journal calls active: `TaskLedger.open` has settled those *)
(* of dead owners.  A run nobody executes would block the queue for good.  *)
NoOrphan ==
  up /\ ~blocked /\ op = Idle =>
    /\ Running(snap) \subseteq started
    /\ \A t \in Claimed(snap) : snap.run[t] \in started \/ t \in started

(* Readers never see what a crash may take back (`#commit` publishes after *)
(* the flush): progress shown by the snapshot is in the file.              *)
Stage(x) == CASE x = "none" -> 0 [] x = "pending" -> 1
              [] x \in {"claimed", "running"} -> 2 [] OTHER -> 3

SnapshotNeverAhead ==
  /\ \A t \in Tasks : /\ Stage(snap.state[t]) <= Stage(disk.state[t])
                      /\ snap.sub[t] # None => disk.sub[t] = snap.sub[t]
  /\ \A r \in Runs  : Stage(snap.runState[r]) <= Stage(disk.runState[r])

(* The file, read as tasks, keeps the promise of TaskPromise: one task per *)
(* submission, receipts only for durable tasks, at most one execution,     *)
(* final outcomes, through every crash and torn write.                     *)
Promise == INSTANCE TaskPromise WITH state <- disk.state, sub <- disk.sub

PromiseKept == Promise!Spec
=============================================================================
