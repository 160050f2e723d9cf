# A verification of the ActSpace agent core

This directory holds TLA+ models of the scheduling and persistence core of
ActSpace, the TLC configurations that check them on small instances, and TLAPS
proofs of what holds for every instance. Paths below are relative to
`src/packages/` unless they begin with `src/`.

Contents: 1 the system, 2 the modules, 3 how they correspond to the code,
4 the runs, 5 fairness, 6 what is proved, 7 where code and text disagree,
8 what is not modelled, 9 the plan.

## 1. The system and its parts

ActSpace runs language-model agents in a desktop or command-line host. Work
reaches a *session* as tasks; a session's *journal* is an append-only JSONL
file, and everything that must survive a crash is an event in it. The process
that holds the session's writer lease executes the tasks one *run* at a time.

| Part | State it keeps | Operations | Talks to |
|---|---|---|---|
| **Task ledger** `core/agent-service/src/task-ledger.ts`, `task-projection.ts`, `task-events.ts` | published task snapshot, serial lane, durability block | submit, designate, cancel, move, pause, start, claimSupplement, startOperation, finish, finishOperation, open (recovery) | session handle (append, flush) |
| **Run manager** `core/agent-service/src/run-manager.ts` | active reservation, maintenance slot, failed / closed / waking / suspended flags | submit, stop, resume, exclusive, wake, kick, dispose, execute | ledger, harness control, run factory, inbox |
| **Agent service** `core/agent-service/src/service.ts`, `core/runtime/src/harness/managed-runs.ts` | map of opening and settled managers, held sessions, external ledgers, draining flag | queue edits, hold, drain, release, wake, dispose | run managers, session controller |
| **Application and rewind** `core/agent-service/src/application.ts`, `rewind-cut.ts`, `session/session-persistence-jsonl/src/rewind.ts` | none of its own | rewindAndSubmit: hold, stop, cancel, cut, rewrite, reopen | agent service, session controller, registries |
| **Session controller** `core/runtime/src/session/session-controller.ts` | open handles, opening promises | open, release, rewrite, fork, close | storage, recovery |
| **Session handle, coordinator, write-behind** `session/session-persistence/src` | mutation lane, pending and active batch, barrier, timer, durable sequence number | append, appendMany, flush, close | JSONL storage |
| **JSONL storage, writer, repair** `session/session-persistence-jsonl/src` | file position, corrupt flag, cached stamp | append (write, fsync, truncate on failure), read, repair of a torn tail | file system, lease |
| **Writer lease** `session/session-persistence-jsonl/src/writer-lease.ts` | `.writer-lock/owner.json`, heartbeat timer | acquire, takeover of a dead owner's lock, assertOwned, heartbeat, dispose | file system, process table |
| **Journal** `session/session-journal/src` | events, surface, validator, projections | append with validation, project, releaseDurable | codecs |
| **Background tasks** `background-tasks/background-tasks/src/registry.ts` and **inbox** `core/agent/src/inbox.ts` | entries with status and delivery; pending notifications | register, wait, stop, stopByUser, settle, reconcile, claim, discard | journal, scheduler wake |
| **Subagents** `subagent/subagent/src/manager.ts` | child locks, activations, deliveries | spawn, continue, message, stop, recoverLost | child sessions, parent inbox |
| **Agent loop** `core/agent-loop/src/loop.ts` and **tool runtime** `core/tool-runtime/src` | turn and step, tool batch, activation leases, approvals | prepare, approve, dispatch, ordered commit, abort | LLM, approval broker, journal |
| **Harness control** `harness-evolution/harness-control/src/service.ts`, `selection-store.ts`, `composition/boot/src/harness-generations.ts` | log of selections, generations and their users, candidates, exclusive gate, blocked map | initialize and its retry, prepare, activate, discard, acquire, release, close | selection log, authorizer, mounts |
| **Harness of a session** `harness-evolution/harness-hmr/src/service.ts`, `plugin-manager/src/service.ts` | binding and intent files of a session, workspaces | inspect, acquire, apply; create, build, prepare, apply, discard, rollback | harness control |
| **Projections and their cache** `session/session-projection*/src` | per-session rows with stamps | extend, rebuild, read | storage |
| **Context engine, prompt, compaction** `context/*` | rendered context, compaction markers | reconcile, compact | journal |
| **Client** `client/client/src` | live run view, optimistic submissions | subscribe, replay, submit | host protocol |
| **Host, composition, LLM, shell, browser, fs, sandbox, web, image, todo, skill, English learning, apps** | per package | mostly I/O, adapters and presentation | |

How they interact. A client call goes through the agent service to the
session's run manager, which appends to the task ledger; the ledger appends to
the session handle, whose write-behind queue writes through the JSONL storage
under the writer lease. The run manager answers every settled commit with
`kick` and `wake`, reserves its one slot, takes a harness lease, claims the task
in the ledger, builds a run and lets the agent loop execute it. The loop reads
the inbox before each step; background tasks and subagents write to the inbox
and ask the manager for a wake. Calls are `await`ed, so that every `await` of
one is a point where any of the others may move.

What is hard here: every client call, timer, port and background process
interleaves at each `await`; the process may die between any two writes; the
same submission may arrive twice; a stop, a hold or a queue edit may land
between a check and its use; several processes share a directory and nothing
else. What makes each part correct:

- **Task ledger.** No task is lost, repeated or executed twice; a receipt stands
  for a durable task; one run at a time owns what is claimed; every prefix of
  every batch can be replayed; recovery settles what a dead owner left; readers
  never see what a crash may take back.
- **Run manager.** What the journal calls running is what the slot executes, or
  the manager has failed with it; exclusive work is alone; a stop lets nothing else escape; a lost race with an
  edit fails nothing and is followed by another kick; closing ends.
- **Session files.** What a flush or close has acknowledged survives every
  failure, crash, repair and reopening, but for a loss of power over rows that an
  opening has found and nobody has fsynced; nothing accepted is lost, reordered or
  repeated while the session lives; nothing is written after a failure; the
  queue is bounded; unforced events become durable.
- **Writer lease.** A healthy lease is not taken, and a takeover moves only a dead
  owner's lock, but for three events (section 7); a failed or ended call leaves no
  lock behind unless the removal fails, too.
- **Background tasks and inbox.** A result reaches the model, once, unless the
  session is released over its notice; a task is settled once over all restarts.
- **Open sessions.** One handle per session; a release drops no Run, no queued
  task and no opening manager; a resume that nothing disturbs succeeds; a hold of
  a rewind ends unless its stop never returns, and a shutdown leaves no lease but
  that of a rewrite, which ends.
- **Rewind.** The journal is the old one or the cut one; the cut one is closed,
  grants nothing that was revoked, forgets no setting and no end of work it keeps.
- **Subagents.** The end of an activation has one reader; no accepted message is
  left unread; what the tree shows as running runs.
- **Tool calls.** A refusal is final; a body starts under what admitted it;
  exclusive calls see all before them; every batch ends.
- **Harness control.** What may run is what the log of selections says; a lease
  stands on a mounted generation and is given back; answers hold; no order of
  calls blocks the store.
- **Not modelled yet.** Harness of a session: it is bound to the last change of
  its branch or has an intent that says so, and a withdrawn change was not
  committed. Projection cache: an extended row equals a rebuilt one.
  Client: a replayed view equals the live one.

`PROJECT.json` lists every hazard with its line and the properties aimed at it.

## 2. Modules

| Module | Models | Lives on |
|---|---|---|
| `QueueOrder` | an array or Map without repetitions as an order relation: push, filter, splice, find | |
| `QueueSplice` | the assumptions that `QueueOrder` agrees with the code's array edits | `QueueOrder` |
| `TaskProjection` | `projectTasks`: each event's check (`Legal`) and effect (`Apply`) | `QueueOrder` |
| `LedgerCalls` | each ledger method: its checks (`CanX`) and its batch (`XEvents`) | `TaskProjection` |
| `TaskPromise` | the abstract promise to those who submit | |
| `TaskLedger` | the ledger with its disk: batches written event by event, failing commits, process death, recovery | `LedgerCalls`, implements `TaskPromise` |
| `RunManager` | the run manager over the ledger's lane: every await of `#execute` and `#executeOperation`, clients, host, faults | `LedgerCalls` |
| `SessionLife` | open sessions, managers, idle release, rewind's hold and reopening, shutdown | `QueueOrder` |
| `RewindCut` | where a rewind cuts the journal, what follows the prefix, the rename | |
| `Subagents` | activations of subagents, the child's lock, messages, timers, stopAll, recoverLost | |
| `ToolCalls` | the tool calls of one step: admission, approval, bodies, ordered results | |
| `HarnessControl` | the log of selections, generations, candidates, the gate and leases, over restarts | |
| `BackgroundTasks` | background task registry, inbox, parallel tool calls and the turns that read notices | |
| `WriterLease` | acquire, takeover, heartbeat and dispose, one file-system call per action | |
| `SessionLog` | mutation lane, write-behind queue, JSONL writer and file, from append to fsync, crash, repair and reopening | |
| `TaskProjectionProofs` (with the queue and the batches), `TaskLedgerProofs` (with the promise and recovery), `RunManagerProofs`, `SubagentsProofs`, `SessionLifeProofs` (with `RewindCut`), `AgentLoopProofs` (of `ToolCalls` and `BackgroundTasks`), `HarnessControlProofs`, `PersistenceProofs` (of `WriterLease` and `SessionLog`) | theorems | the module named |
| `MCTaskLedger` (with `QueueSplice`), `MCRunManager`, `MCSessionLife`, `MCRewindCut`, `MCSubagents`, `MCHarnessControl`, `MCBackgroundTasks`, `MCWriterLease`, `MCSessionLog` | TLC instances; `ToolCalls` needs none | the module named |

Two modules share the ledger's methods and not its state. `TaskLedger` looks
below a commit (disk, crash, restart) and lets any method be called at any time;
`RunManager` looks above it (who calls what in which order) and takes a commit
as one step that succeeds or fails. `LedgerCalls` is what both agree on. In the
same way `WriterLease` says how far the lock can be trusted and `SessionLog`
sees one bit of it, `owned`. A rewind is in three modules: `SessionLife` holds,
closes and reopens the session and lets the rewriting succeed or fail;
`RewindCut` is the rewriting, of a journal in which everything has been stopped;
`Subagents` is the stopping of subagents and what is recovered afterwards.
`SessionLife` sees the run manager as one bit, `busy`, and the lease as taken or
free. `ToolCalls` is one step of the loop whose turns `BackgroundTasks` and
`Subagents` see from outside.

Definitions called "Mutant of X" stand before X and are used by no model: they
are plausible mistakes in the code that X translates, and each property is
known to fail when one of them takes X's place.

## 3. Correspondence with the code

The line ranges of every definition are in `PROJECT.json` under `map`.

### Task ledger (`QueueOrder`, `TaskProjection`, `LedgerCalls`, `TaskLedger`)

A snapshot is a record of functions over tasks and runs: `state`, `sub`,
`run`, `target` (the run a task is steered at), `runState`, `runTask`, the queue and
`paused`. The code's array without repetitions is a reflexive total order
(`QueueOrder`), because relations and set expressions can be reasoned about
where `splice` cannot; TLC evaluates that the two agree for all arrays without
repetitions over five identifiers, as assumptions of `QueueSplice`, which
`MCTaskLedger` extends.
`Legal(s, e)` is the set of throws of `projectTasks` for event `e`, `Apply` its
assignments. An operation (`/compact`) is a task whose submission is in
`Operations`.

`LedgerCalls` holds the checks and the batch of each method. `TaskLedger` adds
`#serialize` and `#commit`: `op` is the mutation in the lane, `batch` the events
not yet on disk. `Persist` puts one event on disk, `Publish` returns from the
flush, `FailCommit` sets `#blocked`, `Crash` keeps whatever prefix is on disk, and
`Open` replays it and recovers. Abstracted: texts, results, origins, harness
identities, timestamps; `expectedRevision`, which only refuses more calls.

### Run manager (`RunManager`)

`m` holds the private fields of `SessionRunManager` and the in-memory half of
its ledger: `snap`, the serial `lane` with the calls that wait in it,
`blocked`. A step is the code between two awaits. `active.pc` names the await at
which `#execute` (`config` ... `release`, `expire`, `expired`, `hold`) or
`#executeOperation` (`operation`, `operate`, `operated`) stands; `Resumed`,
`Refused`, `Blocked` and `Rejected` are the four continuations of a ledger call:
a commit that the session refuses for its data (INVALID_EVENT) throws and leaves the ledger
open, any other failure blocks it; `HoldsData` says which batches carry data of a client
or a harness. `Cleanup`,
`Settling`, `Ending`, `Settle` are the finally blocks in their order. `kick` and
`wake` are the functions `Kick` and `Wake` of the manager and are applied
wherever the code calls them. Client calls enter the lane with a `fresh` flag
that the next commit clears: their `expectedRevision`. Ports that fail, expiring
budgets, held, drained and disposed sessions are actions.

### Open sessions (`SessionLife`)

`recent` is the map `#open` in the order of `#recent`, from the least to the most
recently used, as an order relation (`QueueOrder`); `closing` is `#closing` with
the reason (a release or a rewrite), `sweep` the pass that releases idle sessions
and the trigger that waits for it, `observed` is `#observed`. `call[c]` is a resume
of a client, of a manager or of a rewind: `waiting` for a closing, `opening` (until
storage has decided the lease), `recovering`, then its answer. `mgr` is the pair
`#sessions`, `#settled` of the agent service: `opening`, `ready`, or a `failed`
promise that stays cached. `asked` is what clients and rewinds have submitted and the ledger has not answered:
in the `lane` of a manager, `astray` once that manager is dropped, and the sessions in
whose journal such a task was `left`; `Accepted`, `Declined`, `AcceptedAstray` answer it and
`CutOff` fails it when the handle is closed. `rewind[s]` goes through `rewindAndSubmit`
from `held` to the submission of its prompt: `stopped`, or `stuck` when stopAll does not
return, `rewriting` with a lease of its own (`RewriteLocks` to `RewriteEnds`), `restoring`
and `unreported` for its failures; `host` is the shutdown. Pins and gate are `IsReleasable` and `GateOpen`; they are
evaluated in the scan and again in `release`, as in the code. `rival` is a history
variable that only a property reads. Forking and the creation of sessions are
left out, and so is what a manager does with its tasks: `busy` begins when the
commit of a submission is durable and ends at any later moment.

### Rewind (`RewindCut`)

A journal is a sequence of `<<kind, id>>`. The life of the session writes it in
every order that the tasks, the registry of background tasks and the subagents
can: a Bash task announces its end before it is settled or, stopped by the user or
found lost, behind that record (`Late`), an activation after. The life goes on between
the choice of the cut and the rename.
`CutOf` is the cut of `resolveRewindCut`, `Closing` the events that it makes for the
questions that wait (`Waiting`) and copies of what is dropped (`Follows`, `Setting`),
`Archive` and `Rename` the two halves of `rewriteJsonlPrefix`, `Reopen` the
announcement `session/rewound`. The codecs of the seven kinds of session setting
are treated alike in the code, and `mode` stands for any of them. `Crash` leaves
what is on disk.

### Subagents (`Subagents`)

`log[a]` holds the events of the parent's journal about a subagent, `flushed[a]`
how many are durable, `active[a]` the entry of `#active`, `run[a]` the records of
its activations, `lock[a]` the child's lock in its order. `Spawn`, `ForkChecked`
and `ForkReserved` begin activations, `Opened`, `OpenFails`, `Begun` are the opening
of the child, `Send`, `Deliver`, `Continue` a message, `Claim` and `EndTurn` the
child's loop, `Decide` the one lock section that either goes on or settles, and
`Record`, `Notify`, `Close` the awaits of `#settle`. `Timer` moves a synchronous
call to the background. `StopAll` to `Rewound` are what a rewind does, `Crash` and
`RecoverSettle`, `RecoverNotice` a restart. Abstracted: the child's own session,
which is its unread messages; texts; the tree's names and depths.

### Tool calls (`ToolCalls`)

`at[i]` is the await at which call i of the batch stands: judged, reviewed, asked,
rechecked, dispatched, staged, in its body, ready for its slot, over. `mode[i]` is
the permission mode its loop has read, `by[i]` what admits it, `host[i]` its
request at the host, where an answer may be under way when the mode changes.
`MyTurn` and `MayRun` are the grouping of `executeBatch` with `runBounded`, `ItsSlot`
the ordered commit. Every call is taken to be a command; the guards of paths and
the content of a review are data.

### Harness control (`HarnessControl`)

`log` is `selections.jsonl`, `records` and `failure` are the fields of
`SelectionStore`, `lock` its writer lease. `gen[g]` is a `Generation`: its harness,
the revision its candidate expects, the source revision of a branch, its state and
users. `blocked` and `star` are the map `#blocked`, `gate` the chain of promises
with the calls that wait in it, and `call[c]` the await at which a call stands.
`Open` to `BuiltinFails` are `initialize`, which an acquisition may repeat
(`retrying`). `Prepare` mounts outside the gate; `Activate` asks the host,
`Authorized` enters the gate, `Commit` looks everything up again, and `Write`,
`Acknowledge`, `LateFailure` are the append: on the disk, known, or on the disk and
not known. `Acquire`, `Ask`, `Grant`, `Deliver` are an acquisition, whose abort
answers the caller and leaves the call in the gate. A generation's random name is
the next unused number, and a restored one gets the name of its row. The
activation's name is the candidate's, as both identify one request.
`done`, `dropped`, `unsure`, `faulted` record answers and faults for the properties.

### Writer lease (`WriterLease`)

`LeaseInit`, `LeaseNext` and `LeaseSpec` carry the component's name so that one proof
module can extend both parts of the persistence.

`dir`, `owner` and `aside` are `.writer-lock`, its `owner.json` and the renamed
locks under `recovery/`; `alive` is the process table. `call[l]` is the
file-system call at which lease `l` stands. Every `await` of `acquire`, of the
takeover, of `assertOwned`, `#heartbeat` and `dispose` is an action, the two
halves of `rm` (`Unlink`, `Rmdir`) included, and `Die` may come between any two.
Any call may fail for a reason of its own (`Faults`), and what the code then does, or
swallows, is part of the action. `mishaps` is a history of what befell the leases, and
only the properties read it.
A nonce is the lease itself. A missing and an unreadable record are both `None`,
as both make `readOwner` throw.

### Session files (`SessionLog`)

`lane` and `todo` are the call in the handle's mutation lane; `pending`,
`active`, `timer`, `barrier`, `blocked` the fields of `SessionWriteBehind`;
`durable` is the coordinator's `durableSeq` plus one; `writing` the point of the
driver's append (lease check, write, fsync, confirmation); `position` the
writer's. `file`, `torn`, `synced` are the disk: whole rows, half a row behind
them, and how many rows an fsync covers. `WriteError` truncates or, when that
fails too, leaves what is there. `Crash` takes the process, or the machine with
an unsynced tail. `Open` refuses a torn file and takes the rows of a whole one
for durable, fsynced or not; `Repair` makes a torn one whole. `taken` counts the rows the last opening
found, `gap` records a loss of power over such rows; both are history. An event
is the number of its acceptance, so that order, loss and repetition are visible.
Sizes are counted in events; create, fork and semantic recovery prepare a file
and are left out.

### Background tasks and inbox (`BackgroundTasks`)

`journal` is the part of the session's events that the model of the session
sees: start and settle records, notices, claims, discards and tool reports.
`status`, `delivery` are the fields of an `Entry`; `settling` is the point at
which `#settle` stands (notice appended, delivery read again, settle record
appended). `call` is the list of running tool calls in call order: several
`task_wait` may run side by side, `task_stop` is exclusive, and a result is
committed when it is at the head (`scheduler.ts`). `Step` claims the inbox and
flushes. `turn`, `sched` and `queue` are what the scheduler of the session does with it:
`StartTurn` serves a message of the user or, when it is idle, a wake, which is dropped
otherwise; `EndTurn` ends a turn well over an empty inbox, `CutTurn` at its step limit, by an
abort or a failure over any; `SettleRun` settles its run, wakes for what is unread, and shuts the scheduler behind
a turn that was cut. `Shut` and `Resume` are pauses and holds, `Release` and `Attach` the release
of the session and its next opening; `missed` is a history of notices that a release found
unread. `Crash` loses any unflushed suffix, and `recon` walks through `reconcile`. Shutdown is
a crash that loses nothing.

## 4. Runs

Thirty-two of the properties that TLC checks are also proved for every instance
(section 6). States are distinct states. `PROJECT.json` says of each run what it
shows, and of each property a mutation of the code that breaks it.

| Run | Checks | States |
|---|---|---|
| `task_ledger` | `QueueIsPending`, `Ownership`, `NeverPoisoned`, `NoOrphan`, `SnapshotNeverAhead`, refinement `PromiseKept` | 634,899 |
| `run_manager` | `SlotOwnsExecution`, `ExclusiveAlone`, `StopHolds` | 222,454 |
| `run_manager_live` | `RacesNeverFail`, `QueueServed`, `CloseCompletes`, `InboxRead` | 735,159 |
| `session_life` | `LoneResumeSucceeds`, `ShutdownFreesLeases`, `WorkKeepsSession`, `HoldsEnd` | 260,556 |
| `rewind` | `RewrittenIsClosed`, `RightsNeverWiden`, `SettingsKept`, `EndsAreTold` | 2,168,992 |
| `subagents` | `OneReader`, `NoMessageStranded`, `RunningIsRun`, `SyncCallEnds` | 194,819 |
| `tool_calls` | `RefusalIsFinal`, `ExclusiveSeesAll`, `StartsAsAdmitted`, `BatchEnds` | 707,930 |
| `harness_control` | `LeaseIsGood`, `AnswersHold`, `OnlyFaultsBlock`, `AdmittedAsWritten` | 1,104,318 |
| `background_tasks` | `ReportedOnce`, `EveryEndIsTold` | 347,936 |
| `writer_lease` | `HealthyKept`, `NothingLeft` | 833,080 |
| `session_log` | `Accounted`, `AckedKept`, `EventuallyDurable` | 302,944 |
| `lease_stolen` | `NeverStolen`, which TLC refutes | |

A type invariant is a conjunct of the first invariant of its module where no
theorem states it.

Section 7 tells of statements of the documents and comments that the code does not keep.
Each is a property of its module, stated as the document has it, and TLC refutes it. One
is a run, `lease_stolen`; for the others this directory has a configuration to run
by hand, as it has one more instance that passes:

| Configuration | Checks | TLC |
|---|---|---|
| `MCWriterLeaseRemoved.cfg` | `NeverStolen`, when a mkdir may fail | refutes it |
| `MCWriterLeaseOrphan.cfg` | `CanBeTakenOver` | refutes it |
| `MCSessionLogAcked.cfg` | `AckedSurvives` | refutes it |
| `MCRunManagerFinish.cfg` | `EndsArePersisted` | refutes it |
| `MCBackgroundTasksReleased.cfg` | `IdleIsWoken` | refutes it |
| `MCSessionAstray.cfg` | `TasksKeepManager` | refutes it |
| `MCSessionDown.cfg` | `DownHoldsNothing` | refutes it |
| `MCSessionStuck.cfg` | `EveryHoldEnds` | refutes it |
| `MCRewindCutStopped.cfg` | `StoppedIsNotTold` | refutes it |
| `MCSessionChats.cfg` | `LoneResumeSucceeds`, `WorkKeepsSession` of a session and its side chat | passes, 320,521 states |

Bounds, and why they are enough:

- **task_ledger** — three tasks, two runs, three submissions of which one is an
  operation, one crash. Three tasks are the least for which moving one of them,
  steering a second and running a third differ; two runs let a steered task
  survive its run; every batch has at most three events here, and a single crash is
  put after each prefix of each. A second crash would start from a recovered
  file, which has the same form as one that a first owner left. The identifiers
  are random UUIDs that the code only compares, so tasks and runs are symmetric
  (`SYMMETRY`); no liveness is checked in this run.
- **run_manager** — one message and one operation, `MaxEdits = 1`: the operation
  exercises `#executeOperation`, and each of the two can wait behind the other.
  Ports, commits and deadlines fail at every await; stops, holds, exclusive work
  and disposal are not bounded. One client call waits in the lane at a time: a
  second one would be refused for its revision or be another order of the same
  two.
- **run_manager_live** — one message, two wakes, one edit, no faults: the edit may
  lose the reservation, steer the message or withdraw it. Wakes are submissions
  here and bounded like them. `InboxRead` excuses the behaviours that have used
  them up, hence two: while the first is at work, or is being settled, a notice comes that
  only the second can be for.
- **session_life** — one session, one client, one rewind, a shutdown that may begin
  anywhere; no session may stay resident (`MaxIdle = 0`), so that every trigger may
  release. Besides the client there are the manager and the rewind, so that three resumes
  of one session meet. Two sessions are needed for a side chat that pins its parent and for a
  pass that releases one while another closes: `MCSessionChats.cfg` has them, and the
  theorems have any number of sessions and clients.
- **rewind** — two questions, one Bash task with its notice before or behind its end, one activation, one grant, two values
  of a setting, of which any two are in one journal, with or without an
  inherited prefix, and two rewinds, since the second finds the closing events of
  the first in its prefix. A question before and one behind the cut need two; the
  copying of events looks at one piece of work, grant or setting and what
  concerns it. `Lives` ends the life of the session at the last rewind of
  the bound, whose outcome is still followed.
- **subagents** — a spawned and a forked subagent that message each other, limit of
  two, one message, and one rewind or death. Messages to one child are
  serialised by its lock; the message may find it opening, in its turn, deciding,
  settling, idle or gone.
- **tool_calls** — three calls of which the last is exclusive, two bodies side by
  side, two changes of the mode: there and back is what a check that compares
  only twice could miss. The theorems drop all of these bounds.
- **harness_control** — "main" and one branch, three compositions (the builtin and
  two candidates, which may compete for one baseline), two calls at a time and two
  starts. Two calls are enough for one to wait in the gate behind the other; each
  call ends and another begins, so that the sequence is not bounded.
- **writer_lease** — three acquire calls of three processes, any of which may die, and
  every call may fail: an owner and two that compete for its takeover, or one that opens
  between. The theorems have any number of calls and several of one process.
- **session_log** — five events, queue of three, batches of up to three, two
  crashes. A batch that overfills the queue, a write in flight with events
  behind it and a failed batch before a new one need four; the second crash hits
  what the first recovery left, rows that nobody has fsynced among them.
- **background_tasks** — one task, three tool calls of which two run side by
  side, one stop by the user, two crashes, a scheduler that is shut, released and
  opened at any moment. Tasks share only the wait for any of them and the wake; a
  second task that ends first looks like a wait that gives up.

Deadlock is not checked where the program stops: a ledger blocked for good with
no crash left (`task_ledger`), a closed session (`run_manager*`), a host that is
shut down (`session_life`), a session after its last
rewind (`rewind`), activations that are over (`subagents`), a batch that has ended
(`tool_calls`), a host that is not started again (`harness_control`), leases that all ended (`writer_lease`), tasks that
are over (`background_tasks`). `session_log` checks it.

## 5. Fairness

- **RunManager** — `Fairness` is weak fairness of three groups: the lane serves
  its calls, the awaits of an execution return, exclusive work ends. It is
  JavaScript's event loop, plus the assumption that ports and runs return in the
  end; an aborted run must end too (`CloseCompletes`), which the code relies on
  by contract of `RunInstance`. Nothing is assumed of clients, holds, deadlines.
  It is written out with what enables each group, since TLC evaluates that
  faster than `ENABLED`.
- **SessionLog** — `WF(Work)` and `WF(TimerFires)`: ready callbacks run, timers
  fire, file calls return with a result or an error. Nobody need call flush.
- **BackgroundTasks** — appends of a settlement return, tool calls return (a wait
  has a timeout), a stopped task ends (`kill`), a turn that has unread notices
  goes on to its next step, an open scheduler starts what is queued, a run that has
  ended is settled, and a restart completes `reconcile`. A running task need never end, no
  turn need end, and a turn may be cut off over its notices at any moment. Nobody has to
  resume a paused queue or open a released session: `EveryEndIsTold` speaks of behaviours in
  which the scheduler is not shut for ever or again and again (a turn that was cut shuts
  it, and so do pauses, holds and drains), and excuses a notice over which the session
  was released (`missed`).
- **SessionLife** — resumes, passes, managers, closings, submissions and the steps of a
  rewind go on: promises settle. The one that need not is stopAll: a rewind whose stop is
  `stuck` has no next step, and `HoldsEnd` excepts it. Who waits for a closing, or a
  rewind for a manager, waits for one promise and is woken although the session may close
  again at once, hence `SF` of `ResumeWakes` and of `RewindAnnounces` and
  `RewindSubmits`. Clients, renderers, the user and the shutdown are not fair;
  `HoldsEnd` needs none of them.
- **Subagents** — what an activation does of its own accord, and the timer of a
  synchronous call. Nothing makes a model end its turn: the timer does it for
  `SyncCallEnds`.
- **ToolCalls** — every call proceeds: requests and reviews have deadlines, and
  bodies are taken to end, which the code asks of its tools.
- **TaskLedger**, **WriterLease**, **RewindCut** and **HarnessControl** check safety
  only; that the gate serves and that closing ends are in the plan.

## 6. What is proved

TLAPS checks every theorem for all values of the constants, under the `ASSUME`s
of the modules (`None` outside the identifier sets, the
owners of a session's lease are distinct, operations are submissions,
the owner function's type, at least as many task identifiers as submissions and run
identifiers as tasks, at least one tool call at a time,
bounds are natural numbers); TLC evaluates those in the passing
runs.

| Theorem | Module | Says |
|---|---|---|
| `ApplyKeepsWellFormed` | `TaskProjectionProofs` | every event the replay accepts keeps the snapshot's types, queue, ownership |
| `TypeCorrect`, `QueueCorrect`, `OwnershipCorrect`, `ReplayAccepts` | `TaskLedgerProofs` | `TypeOK`, `QueueIsPending`, `Ownership`, `NeverPoisoned` of `TaskLedger` |
| `LedgerKeepsPromise` | `TaskLedgerProofs` | `TaskLedger` implements `TaskPromise` |
| `ReadersTrailTheFile` | `TaskLedgerProofs` | `SnapshotNeverAhead` of `TaskLedger` |
| `NothingIsOrphaned` | `TaskLedgerProofs` | `NoOrphan` of `TaskLedger` |
| `SlotIsOwner`, `ExclusiveIsAlone`, `RacesDoNotFail`, `StopIsKept` | `RunManagerProofs` | `SlotOwnsExecution`, `ExclusiveAlone`, `StopHolds` of `RunManager`; `RacesNeverFail` under `~Deadlines` |
| `OneReaderEach`, `MessagesAreHeard`, `ShownIsRun` | `SubagentsProofs` | `OneReader`, `NoMessageStranded`, `RunningIsRun` of `Subagents` |
| `ResumeIsAlone`, `WorkStays`, `LeasesAreFreed` | `SessionLifeProofs` | `LoneResumeSucceeds`, `WorkKeepsSession`, `ShutdownFreesLeases` of `SessionLife` |
| `RewindsStayClosed`, `RewindsGrantNothing`, `RewindsKeepSettings`, `RewindsTellEnds` | `SessionLifeProofs` | `RewrittenIsClosed`, `RightsNeverWiden`, `SettingsKept`, `EndsAreTold` of `RewindCut` |
| `LeaseTypes`, `LeaseIsKept`, `NoLockIsLeft`, `OnlyDeadAside` | `PersistenceProofs` | `LeaseTypeOK`, `HealthyKept`, `NothingLeft`, `AsideIsDead` of `WriterLease` |
| `RefusalsAreFinal`, `BodiesStartAsAdmitted`, `ExclusiveSeesEverything` | `AgentLoopProofs` | `RefusalIsFinal`, `StartsAsAdmitted`, `ExclusiveSeesAll` of `ToolCalls`, for any batch |
| `EndsAreToldOnce` | `AgentLoopProofs` | `ReportedOnce` of `BackgroundTasks`, with its types and `SettledOnce` |
| `EventsAreAccounted`, `AckedIsKept` | `PersistenceProofs` | `Accounted`, `AckedKept` of `SessionLog` |
| `LeasesAreGood`, `AnswersAreKept`, `FaultsAlone`, `AdmitsAsWritten` | `HarnessControlProofs` | `LeaseIsGood`, `AnswersHold`, `OnlyFaultsBlock`, `AdmittedAsWritten` of `HarnessControl` |

**Queue.** Push, filter, move and to-front turn an order on a set into an order
on the intended set (first part of `TaskProjectionProofs`). Nothing else about the queue is used
above it.

**Ledger.** `QueueIsPending` and `Ownership` are not inductive: a step may put
on disk any event of a batch computed some time ago. `IInv` adds what a batch
is. With `disk` as it is now, the batch is empty, or one legal event, or a pair
whose second event is legal once the first is applied (return then finish or
recover, start then claim, anything then resume), or a list of claims of
distinct tasks steered at the running run (`BatchOK`). `Sync` says that an idle
open ledger has published its disk and that disk is *whole*, that is not between
a run's start and its first claim; `OperationsOK` that operations the process
started are taken. Each mutation makes such a batch from a whole snapshot
(`CommitKeeps` with one lemma per method), `Persist` peels off its head
(`HeadOfSingle`, `HeadOfPair`, `HeadOfClaims`), and a crash drops the rest, which
costs nothing since `WellFormed(disk)` holds at every prefix.

**Readers.** `SnapshotNeverAhead` compares what the file shows of a task or a run
with what the published snapshot shows. Every legal event takes tasks and runs
forward only, `Persist` alone changes the file, and opening and publishing copy
the file, so the snapshot is a copy of an earlier file.

**Recovery.** `NoOrphan` says that an owner which takes calls has itself begun
every run and operation the file shows as active. What a run or an operation
needs for this is put in `Mine(op, e)`: an event that begins one belongs to the
mutation in the lane and names a run or an operation of this process. The
invariant `OwnerInv` has it of each event of the batch, and says that everything
active on disk was begun here (`Executed`) unless a recovery is under way whose
batch ends in the event that settles the rest (`Recovering`). A crash empties
what the process began and with it the claim to be open.

**Promise.** Every step of the ledger changes the tasks on disk by one event, or
gives a receipt, or neither; `IInv` and one more invariant (a submission in the
lane has its task on disk when its batch is written) map each to an action of
`TaskPromise` or to a stutter. It follows for any number of submissions, clients
and crashes that a task is executed at most once and a receipt names a durable
task.

**Run manager.** One invariant, `IInv`, gives `SlotOwnsExecution` and `ExclusiveAlone`.
`Work` says for each await of `#execute` and `#executeOperation` what the journal
shows meanwhile: nothing (`Over`), the run of the slot with its claims (`Held`), or
its operation (`Operation`); it is given up when the ledger is blocked. A start or an
operation that the session refuses leaves nothing; a refused finish leaves the run, and the manager
fails in the same step that frees its slot; while its lease is being released, the run is
shown as running and the execution bound to fail (`Doomed`). `InLane` says that
the execution has one call in the lane exactly while it awaits one, which is what
makes the answer of a call the answer to *this* execution. `Sound` and `Fresh` say that
identifiers are used once, so that a new task or run always has one left; this is where
`EnoughIdentifiers` is needed (the code draws UUIDs). Everything the manager's turn
does between two awaits keeps these facts (one lemma per continuation); a
commit replays a batch, for which the lemmas on batches say which events it may hold.
`RacesNeverFail` adds `Clean`: while no port and no commit has failed, nothing has been
thrown that `#execute` does not forgive. That is shown error by error: for each await, which
checks of the ledger may refuse the call after a race. The theorem assumes `~Deadlines`,
since with an absolute deadline one race does raise an error that is not forgiven
(section 7). `StopHolds` is an action property over `Safe`: after `stop()` either the
pause is durable (or the ledger blocked) and no call in the lane may end it, or the
stop waits in the lane behind every call that may, and whatever execution has a call
ahead of it is the one being stopped (`Halting`); and a run that is started meanwhile
is that one (`Bound`). The lane decides here: it is first in, first out, and a claim
called before the stop may still be committed after it.

**Subagents.** Agents share only the flush of the journal, the count of messages and
who may call, so the invariant speaks of one agent, and of the values of its variables:
`Good(l, f, n, r, k, x, o, y, c, s)` with its part of the journal, how much of that is
durable, the registered activation, its activations, its lock, its inbox, a fork or a
synchronous call on the way, what is to be recovered, and the messages sent so far. A step is then a lemma about
values. Its heart is `Serial`: an activation starts in the journal only when all before
it are settled there. That is true of every prefix, so whatever a crash leaves has at most
one open activation and it is the last one; which is why `recoverLost`, which looks at
the last activation of each agent only, misses none (`RunningIsRun`). `Once` has one
settlement and one notice behind it, also true of prefixes; `Locked` that an
continuation which opens, and any activation which settles, holds the child's lock, so that
no message is delivered and no activation started beside it; `Synchronous` ties the waiting call to the delivery that
the settlement reads, `Heard` a waiting message to an activation that may still read
it, and `Sent` bounds what waits by what was sent.

**Open sessions.** A resume can be refused only by a lease that somebody has, so the
invariant says who has it. `Owned`: the handle has the lease of a session exactly while
the session is open or closing and not rewritten, or waits for closeAll to close it
(`Cleared`), a resume exactly while it recovers, and a rewind while it rewrites
(`Rewriting`). `Lone`: a resume
without a rival is the only one that opens its session, and the session is neither open
nor closing; it is what makes `await closing` in `resume` sufficient, since nothing but a
resume that counts as a rival can take the session between that wait and the opening.
`Lone` holds until closeAll has cleared `#open` (`Running`) and `Owned` until it has closed
the handles (`Handling`); behind that point refusals are expected. `Linked` ties the calls
of managers and rewinds to their owners, of which it needs that a call is idle when its
owner starts one, and that a session closes for a rewrite just while its rewind waits
(`RewritesClose`: the rewrite that ends frees its own lease and nobody else's).
`WorkStays` adds `Working`: work is only where a manager is ready, so that a session
without a manager has none. It speaks of tasks that are queued: a submission in the lane is
dropped with its manager, and `asked` follows it there. `LeasesAreFreed`: when storage has closed, a
lease is left only where a rewrite is under way, and by `Rewriting`, which outlives the host,
it is that rewrite's. `#recent` and the
worklist of a sweep are orders for these proofs; `ConcatIsOrder` covers a session that
enters and a set of sessions that is shown.

**Rewind.** The invariant says what an event finds *before* it (`EventOK`): it is new unless
it is a setting or a mark; the end of a piece of work has the beginning and no other end; a
start has its acceptance. A notice may stand before the end or behind it. Like the rows of
background tasks this is true of a prefix if it is true of the whole, and it asks for nothing
that a rewind may drop from behind the event that needs it. The rest of `RewriteInv` is where
the plan stands: it fits the prefix of the journal it was chosen for (`PlanFor`), hence the
archive, since a journal that has grown makes the rewind fail. The rewritten journal is read
zone by zone (`Zones`): prefix, cancels, copies, setting. Its heart is `OldOrder`: what stands
before a copied event stood before it in the old journal already, as the prefix is the
old one and the copies keep their order; so the copies find no second end, whatever earlier
rewinds left in the prefix (`RewrittenSound`). `Says` tells which events are in it.
The four theorems are then about sets of events: work of the prefix is over, since all work
was over when the cut was chosen and the end, if it is not in the prefix, is copied; a
revocation of a grant of the prefix is copied; the last setting, copied last, is the greatest
position. A selection of rows is written by its positions: `InOrder` of a set of positions
has exactly one element (`OneOrder`, by the least set without one), which names each of them
once (`AllInOrder`); so a cut always has its closing events and only those (`OneClosing`).

**Lease.** `HealthyKept` follows from `LeaseInv`, whose parts about the lock are claimed
while it is `Undisturbed`: the lock names its owner from the
moment the record is written until the same lease unlinks it; a lock without a
record belongs to exactly one lease, which is making or removing it; and a
rename still to come was decided on an owner that is dead and whose lock is
either in place or aside already. The last part is the heart: two takeovers of
one dead owner may both decide to rename, and the slower would move the lock
that the faster has made since, were the target not named after the dead owner
and thus not empty. `Undisturbed` excludes three events, each of which the code allows
and a history records at the step that makes it so (`mishaps`): a mkdir that fails with
another error than EEXIST, behind which the lock of whoever has it is removed; a
heartbeat in flight when its lease is given back; an owner that gives its lock back and exits
between a peer's read of its record and the peer's `kill(pid, 0)`. The theorems say that
these are the only ways: whatever writes, renames, reads and removals fail, and
whoever dies, nothing else can take a healthy lease. The invariant needs no assumption.
`NothingLeft` follows with one more invariant, `Tended`: while nobody has died and no call
that removes the lock has failed, a lock has a lease that is on its way to remove it.

**Tool calls.** The invariant has two parts. `CallOK` speaks of one call: the host
has its request just while it waits; a request is recorded once more than its
decision meanwhile; a refusal is on its way to its call or the call has its
denial; a body belongs to a call that was not denied; and what admits a call
counts in the mode it was judged in. An action of one call touches no other
call's part (the user's actions touch all of them alike), which is one lemma.
`BatchOK` speaks of the batch, and only of which calls are new and which are
over: results are the first calls in order (`Prefix`), nothing behind an exclusive
call is looked at before it is over (`Barrier`), and everything before one under
way is over (`Alone`). Most actions change neither set, so that `BatchOK` needs a
proof for entering, committing and abandoning only. The property on bodies is an
action property that follows from `CallOK` at the step that starts a body.

**Background tasks.** `ReportedOnce` is about pairs of rows, and a crash may cut the
journal anywhere, so the invariant says of each row what stands *before* it (`RowsOK`): a
notice has a start record and no settle record yet, a lost notice has no report, a report has the
settle record, and a claim or a discard if there was a notice. This is true of a prefix
if it is true of the whole. The rest is about this process: a task it does not know is
settled or about to be by `reconcile` (`Gone`); the settle record is there exactly when
`entry.settled` is resolved (`Known`). `Spoken` decides the race of a settlement with a wait:
while a notice may still stand, either the delivery is suppressed, and the second look takes it
back, or no call concerns the task; and once it stands, the first call that concerns the
task is the one that takes it back (`Taking`). Results are committed in call order,
so the call that reports finds the notice gone, whichever of several waits that is.
`CallSound` ties calls to tasks. The inbox is the set of rows nobody has
read; a step claims them in the order of the rows.

**Session files.** `Accounted` speaks of concatenations, which the invariant
avoids: it numbers positions. `Segment(s, n)` says that `s` is the part of the
journal that begins at position n. `InLine` cuts the journal into the durable
events, the batch in the write, the queue and what the accepting call has still
to enqueue; each step moves a border between two of them. `Written` ties the file
to these borders: outside a write it ends where the durable events end, in the write
somewhere in the active batch, and behind the fsync at the batch's end; `position`
follows. `Control` says which parts of the lane and of the queue may meet, and
`Bounded` that a full queue stops its producer. `Acked` carries the
second theorem: what was acknowledged is covered by an fsync, and while a session
lives by what this process counts as durable. That is why a failed truncation
or a torn row harms nothing. `open` takes every row it reads as durable, also rows that
only the memory of the machine holds, and a flush with nothing pending then acknowledges
them (section 7): so what is acknowledged is covered by an fsync *or* was found by the
last opening (`taken`), and the theorem claims it until power is lost over such rows
(`gap`). There is no other way to lose it.

**Harness control.** The four properties follow from one invariant of fifteen
parts. The parts on control: a call past the gate is its head (`Gated`); the startup, also
one that is retried from within an acquisition, is alone with calls that touch neither
rows nor selection (`BootAlone`); before the rows are read nothing is selected,
mounted or prepared (`Empty`); whoever has read them has the store until it is closed
(`LockMine`). The parts on data: the records are the log unless the head of the gate is
between the append and its acknowledgement or the store has failed (`SameLog`); what
is being written is a candidate that may still be selected (`WritingOK`); each row is
about a generation of its own (`RowsOK`); a selected generation is the one of its
harness's last row and conversely (`Selected`); a candidate is ready and its row is on
disk only behind a failed append (`CandOK`); what is being discarded or was is a
candidate no more (`DropOK`); users are counted (`UsersOK`). Why so many:
`AnswersHold` and `AdmittedAsWritten` need that memory and log agree, which needs that one
call at a time writes, which fails if the startup can run beside a call that writes, and
it may run late, from within an acquisition. `OnlyFaultsBlock` needs that the checks behind the
gate (`Valid`) still hold at the append. `AdmittedAsWritten` then says that a failed append
admits nobody: its `failure` or the `blocked` harness refuses the calls behind it.
Cardinalities of users change by one, since a call enters or leaves a finite set.

**Batches.** `projectTasks` is a loop over events, hence a recursive function
(`Replayed`). Its values are proved for the batches the ledger makes: one event,
two, or claims of any number of tasks (`ReplayOne`, `ReplayTwo`, `ReplayClaims`). The last
is an induction over the batch, done by hand: were the claim false after some number of
events, there would be a least such number (`Least`), and the event before it gives
the contradiction.

Out of the prover's reach, and left to TLC: liveness (`QueueServed`, `CloseCompletes`,
`InboxRead`, `EventuallyDurable`, `BatchEnds`, `HoldsEnd`, `SyncCallEnds`,
`EveryEndIsTold`) and `ENABLED`; the library's induction theorems, which take an
operator as a parameter. No safety property of a run is only model-checked.

## 7. Where code and text disagree

Ten statements of the documents and of comments that TLC refutes, each as a property that
says what the text says (the configurations are in section 4). What the code does
keep of each is checked by a passing run, and proved where it is a safety property.

- **A healthy lease can be stolen** (`writer-lease.ts:108`), against
  `agent-spec-session-format-v1.md:298` ("第二个 writer 不能偷取仍健康的 lease", a
  second writer cannot steal a lease that is still healthy). `dispose` does not wait
  for a heartbeat that has passed its check, whose rename may then put the
  old owner's record over a new one. No call fails and no process dies (run `lease_stolen`).
  Likewise a takeover reads the owner (`:66`), asks
  whether it runs (`:69`) and renames (`:74`) in separate steps, between which the
  owner may have given the lock to another process.
- **A failed mkdir removes the lock of another** (`writer-lease.ts:63`), against the same
  line. The catch around mkdir and writeFile ends in an rm for every error but EEXIST, also when
  the attempt has made nothing (`NeverStolen`).
- **A dead owner's lock may be beyond takeover** (`writer-lease.ts:66`), against `:67` there and
  `agent-spec-session-format-v1.md:299` ("进程退出后立即接管", taken over at once when the
  process exits). A process killed between `mkdir` and `writeFile`, or inside the `rm` of
  dispose, leaves a lock without a record; `readOwner` throws and nobody can acquire the
  session until the directory is removed by hand (`CanBeTakenOver`).
- **Acknowledged rows can be lost** (`coordinator.ts:20`), against
  `agent-spec-session-format-v1.md:272` (a flush may return only when all accepted events
  satisfy the durability contract). Rows that were written and not fsynced by a process
  that was killed count as durable for the next one, and a flush with nothing pending
  acknowledges them; a power loss then takes them (`AckedSurvives`).
- **A run may end without its end being persisted** (`run-manager.ts:259`), against
  `agent-task-run-lifecycle.md:11`. A finish that the session refuses with INVALID_EVENT does not
  block the ledger (`task-ledger.ts:180`); the lease is released, the manager fails, and the
  run stays running in a journal that can still be written (`EndsArePersisted`).
- **A submission can go astray** (`service.ts:164`), against the comment there ("nothing can
  submit to a manager that is about to lose its Session"). A submission that waits in the
  ledger's lane is neither queued nor active, so that neither `releasable`
  (`run-manager.ts:76`) nor the pins see it. The session may be released, and the
  commit still reach the journal: the client has its receipt, and the task waits behind a
  manager that is gone (`TasksKeepManager`).
- **A rewrite can outlive the storage** (`storage.ts:162`), against
  `agent-spec-session-format-v1.md:275` (dispose waits until writers and leases are at rest).
  `rewritePrefix` takes a lease of its own and is not among the openings that close awaits;
  one that begins while closeAll waits still has it when storage has closed
  (`DownHoldsNothing`).
- **A hold may never end** (subagent `manager.ts:380`), against `agent-edit-resend-rewind.md:68`
  and the comment at `:371`. stopAll awaits the result of every activation it finds; one whose
  opening fails afterwards never gives it, and the session refuses every message until the
  host restarts (`EveryHoldEnds`).
- **An idle session may not be woken** (`registry.ts:200`), against
  `agent-background-tasks.md:62`. A task that has ended pins its session no more, which may be
  released between the notice and the wake; the wake then finds no manager, and opening the
  session wakes nobody (`IdleIsWoken`).
- **The end of a stopped task is told** (`rewind-cut.ts:60`), against
  `agent-edit-resend-rewind.md:88` and `:94` ("被停掉的不通知", what was stopped is not
  notified). The cut copies every notice of a task that was open, also the one that
  `stopByUser` and `reconcile` write behind a settle record that announces nothing
  (`StoppedIsNotTold`).

One was found by reading:

- **A session can be left half-bound** (`harness-hmr/src/service.ts:46`), against the
  comments at `:45` and `:49`. An append fails after its row is durable (the sync of the
  directory or the last check of ownership, `selection-store.ts:58`-`:62`); the history in
  memory lacks the row, so `apply` removes the intent. After the next start the branch
  has a change that the session's binding does not know, and nothing repairs it.
  Its module is in the plan.

Observed while modelling. Scheduling:

- With an absolute deadline, a queue move between reservation and
  `startOperation` raises SESSION_BUSY (`run-manager.ts:251`), which the list of
  forgiven errors lacks; the manager fails for good although nothing but a race
  happened.
- A message sent after a stopped run is finished and before its harness lease is
  released stays behind the pause, against "runs at once" (`run-manager.ts:86`).
- A held or draining service keeps a reservation made before the hold, which may
  still claim (`service.ts:102`, `run-manager.ts:222`); the rewind, the one client
  of a hold, stops and waits and is not affected.
- A wake that is stopped suspends further wakes when it settles
  (`run-manager.ts:168`), also when the user has resumed in between.

Sessions and files:

- A manager whose opening fails for any reason but the lease stays cached as
  failed, and its session is never released (`service.ts:186`).
- No trigger of a sweep follows when a manager settles or a pin turns false, so an
  idle session may stay open until something else happens; a pass works from the
  list of its scan and checks each entry again.
- When the agent runtime starts to dispose, its pins and its gate go first
  (`agent-runtime-plugin.ts:147`), so that a sweep may still close a session whose
  run has not ended (`session-controller.ts:332`).
- A resume that meets another one of the same session, or `closeAll`, may be
  answered SESSION_WRITER_LOCKED; `LoneResumeSucceeds` says when it may not. The
  branch of `resume` for a session that is in `#open` after its recovery cannot be
  reached under the lease.

Rewind:

- A rewind that rewrites and then cannot reopen throws, although the journal is
  another one, and `session/rewound` is not written: observers keep the old view,
  as they do after a death between the two (`session-controller.ts:370`, against
  `agent-edit-resend-rewind.md:68`).
- Notices of subagents are matched by the agent (`rewind-cut.ts:60`, `:91`), so that
  the notice of an activation that is dropped may be copied too. An activation
  that settles before the cut with its notice behind it loses the notice, and so does a
  Bash task that the user stopped or a restart found lost; `EndsAreTold` says of which tasks
  the new turn is told.

Subagents:

- A message of a sibling that is under way when `stopAll` takes its snapshot may
  start another activation afterwards (`manager.ts:370`).
- `agent_fork` checks the limit before it flushes the parent, so that several forks
  may pass the check together.
- A death between the settle record and the notice loses the notice; messages to a
  child are not flushed; `recoverLost` looks at the last activation of an agent.

Tool calls:

- After a commit has failed, `dispose` awaits an abandoned slot that rejects, so
  that calls which never ran keep their lease on the registration, whose removal
  then waits for its timeout. `Abandon` says so.
- A grant that is revoked between the end of staging and the body is not noticed,
  and the one on a file not after `#recheck`; the mode is looked at again.
- A failing append behind a session grant makes the handler write a second
  decision.

Harness control:

- `recoverBuiltin` prepares also while another host has the store, since the records
  are empty then. Its append finds no lease and sets the store's failure, which the
  retried startup does not clear (`selection-store.ts:46`, `:16`).
  Only a test calls it, and `HarnessControl` leaves it out.
- The builtin is upgraded only while every row of the log belongs to "main"
  (`harness-control/src/service.ts:40`): one branch of one session ends it, and "main" is then
  blocked after a change of the host's contract, with no caller of `recoverBuiltin`.
- A candidate may be discarded after an append of it has failed with its row on
  the disk; the row is selected at the next start. `AnswersHold` excepts it (`unsure`).

Background tasks:

- A death between a notice and its settle record makes the model read that a task
  finished and that it was lost, against "exactly once" (`registry.ts:15`, `:193`,
  `:199`).
- `reconcile` writes the settle record before the notice (`registry.ts:157`,
  `:158`): a crash between them loses the notice. Two stops by the user that
  overlap tell the model twice (`:106`).

## 8. What is not modelled

`PROJECT.json` gives the reason for every component. In short: packages that
render, format, transport or call the outside world (context, LLM adapter, hosts,
tool bodies, sandbox, applications) keep no state that interleaves with the
scheduling; the journal's codecs and the projections are pure functions; the rest
is planned. Within the modelled parts these are left out: `waitForSettlement` and
failure listeners (they observe), the stat-stamp check, incremental reads, fork
and discard of sessions, output-match notices, `forget` and `markPruned` of the
registry, an append of a settlement that fails because a release closes the handle under it,
harness statistics and evaluation (they observe), legacy steer items of the inbox, tools without permissions and file
grants (a command passes the same awaits), the configuration of subagents.

## 9. Plan

Done: the ledger with its refinement, the run manager, the lease, the session
files, background tasks, open sessions, rewind, subagents, tool calls and harness
control. Next:

1. `HarnessHmr` over `HarnessControl`: the binding and the intent of a session, and
   the workspaces of the plugin manager, through crashes and failing appends; with
   it the liveness of `HarnessControl` (acquisitions are answered, closing ends).
2. `ProjectionCache` and the client's replay, as refinements of a rebuild.
3. The runs of an agent loop with several steps, over `ToolCalls` and
   `BackgroundTasks`.

Every safety property of the runs has its theorem; those of the modules to come are next.
