----------------------------- MODULE RunManager -----------------------------
(***************************************************************************)
(* SessionRunManager (core/agent-service/src/run-manager.ts): the owner of *)
(* one session's execution.  It reserves the scheduling slot for the first *)
(* queued task, acquires a harness, claims the task in the ledger, runs    *)
(* it, and settles; clients meanwhile submit, edit the queue, stop, hold   *)
(* and close.                                                              *)
(*                                                                         *)
(* JavaScript runs one callback at a time, so a step is what happens       *)
(* between two awaits: the code from an await's return to the next await,  *)
(* with every synchronous call in it (`wake` and `kick` in particular).    *)
(* Calls to the ledger wait in its serial lane, in the order in which they *)
(* were made; a turn of the lane runs the checks of the first call on the  *)
(* current snapshot, publishes its batch (module LedgerCalls) and resumes  *)
(* its caller, whose continuation runs before any other event.             *)
(*                                                                         *)
(* Durability and restarts are the subject of TaskLedger; here a commit    *)
(* succeeds, or it fails and blocks the ledger for the rest of the run, or *)
(* the session refuses its events as invalid and the ledger stays open.    *)
(***************************************************************************)
EXTENDS LedgerCalls

CONSTANTS
  Wakes,        \* submissions that the manager itself makes (background wakes)
  MaxEdits,     \* bound: queue moves, designations and cancellations
  Deadlines,    \* clients configure execution budgets and absolute deadlines
  Faults        \* ports and commits may fail

ASSUME WakesAssumption == Wakes \subseteq Submissions \ Operations
ASSUME MaxEditsAssumption == MaxEdits \in Nat
ASSUME EnoughIdentifiers ==
  /\ IsFiniteSet(Submissions)
  /\ Cardinality(Submissions) <= Cardinality(Tasks) /\ Cardinality(Tasks) <= Cardinality(Runs)
ASSUME SwitchesAssumption == Deadlines \in BOOLEAN /\ Faults \in BOOLEAN

VARIABLES
  m,        \* private fields of the manager and of its ledger
  edits,    \* queue edits made so far
  faulted,  \* a port or a commit has failed (history)
  halted    \* a stop was requested, and no message or resume since (history)

vars == <<m, edits, faulted, halted>>

Users == Submissions \ Wakes

(* ActiveRun and the locals of #execute and #executeOperation.             *)
Active ==
  [ run : Runs, task : Tasks,
    pc : {"config", "acquire", "reconfig", "start", "create", "execute", "supplement",
          "finish", "release", "expire", "expired", "hold", "abandon",
          "operation", "operate", "operated"},
    aborted  : BOOLEAN,   \* controller.signal.aborted
    stopping : BOOLEAN,   \* a stop() call waits for its pause
    started  : BOOLEAN,
    leased   : BOOLEAN,   \* a harness lease is held
    made     : BOOLEAN,   \* a run instance exists
    outcome  : Outcomes,
    errors   : BOOLEAN,   \* errors.length > 0
    fatal    : BOOLEAN ]

ASSUME NoneIsNoActive == None \notin Active

Call ==
  [kind : {"submit"}, sub : Submissions, idle : BOOLEAN]
  \cup [kind : {"designate"}, task : Tasks, run : Runs \cup {None}, fresh : BOOLEAN]
  \cup [kind : {"cancel"}, task : Tasks, fresh : BOOLEAN]
  \cup [kind : {"move"}, task : Tasks, before : Tasks, fresh : BOOLEAN]
  \cup [kind : {"resume"}, fresh : BOOLEAN]
  \cup [kind : {"stop", "exec"}]

Manager ==
  [ snap : Snapshot, lane : Seq(Call), blocked : BOOLEAN,      \* TaskLedger
    active : Active \cup {None},                               \* SessionRunManager
    maintenance : BOOLEAN, closed : BOOLEAN, failed : BOOLEAN,
    waking : BOOLEAN, suspended : BOOLEAN,
    open : BOOLEAN,                                            \* canStart()
    inbox : BOOLEAN ]                                          \* hasPendingNotifications()

TypeOK ==
  /\ m \in Manager
  /\ edits \in 0..MaxEdits
  /\ faulted \in BOOLEAN /\ halted \in BOOLEAN

Init ==
  /\ m = [ snap |-> EmptySnapshot, lane |-> <<>>, blocked |-> FALSE,
           active |-> None,
           maintenance |-> FALSE, closed |-> FALSE, failed |-> FALSE,
           waking |-> FALSE, suspended |-> FALSE, open |-> TRUE, inbox |-> FALSE ]
  /\ edits = 0 /\ faulted = FALSE /\ halted = FALSE

-----------------------------------------------------------------------------
(***************************************************************************)
(* Synchronous methods, as functions of the manager.                       *)
(***************************************************************************)
Enqueue(x, call) == [x EXCEPT !.lane = Append(@, call)]

Has(x, kinds) == \E i \in DOMAIN x.lane : x.lane[i].kind \in kinds

Unused(x) ==
  {s \in Submissions : /\ ~IsRepeated(x.snap, s)
                       /\ \A i \in DOMAIN x.lane : x.lane[i].kind = "submit" => x.lane[i].sub # s}

(* randomUUID: some identifier that nothing has. *)
NewTask(x) == CHOOSE t \in Tasks : x.snap.state[t] = "none"
NewRun(x)  == CHOOSE r \in Runs : x.snap.runState[r] = "none"

(* Mutant of MayStart: exclusive work does not hold the slot. *)
MayStartAnyway(x) ==
  ~x.closed /\ x.active = None /\ ~x.failed /\ ~x.blocked /\ x.open

MayStart(x) ==
  ~x.closed /\ ~x.maintenance /\ x.active = None /\ ~x.failed /\ ~x.blocked /\ x.open

(* wake(): deliver background notifications to an idle session.            *)
(* Bound: only while a wake submission is left.                            *)
Wake(x) ==
  IF /\ ~x.waking /\ ~x.suspended /\ MayStart(x)
     /\ ~x.snap.paused /\ Elems(x.snap.queue) = {} /\ Running(x.snap) = {}
     /\ x.inbox
     /\ Unused(x) \cap Wakes # {}
    THEN Enqueue([x EXCEPT !.waking = TRUE],
                 [kind |-> "submit", sub |-> CHOOSE w \in Unused(x) \cap Wakes : TRUE, idle |-> FALSE])
    ELSE x

Candidates(x) == {t \in Tasks : IsFirst(x.snap.queue, t, Untargeted(x.snap))}

Reserved(t, r, pc) ==
  [ run |-> r, task |-> t, pc |-> pc, aborted |-> FALSE, stopping |-> FALSE,
    started |-> FALSE, leased |-> FALSE, made |-> FALSE, outcome |-> "failed",
    errors |-> FALSE, fatal |-> FALSE ]

(* kick(): reserve the slot for the first queued task.  Its first          *)
(* microtask, up to the first await, belongs to the same step: no other    *)
(* event can come between.                                                 *)
Kick(x) ==
  IF MayStart(x) /\ ~x.snap.paused /\ Running(x.snap) = {} /\ Candidates(x) # {}
    THEN LET t == CHOOSE c \in Candidates(x) : TRUE
         IN  IF IsOperation(x.snap, t)
               THEN Enqueue([x EXCEPT !.active = Reserved(t, NewRun(x), "operation")], [kind |-> "exec"])
               ELSE [x EXCEPT !.active = Reserved(t, NewRun(x), "config")]
    ELSE x

WakeKick(x) == Kick(Wake(x))

(* Mutants of Settle: no kick, no wake, and a slot that is never freed.    *)
SettleQuietly(x, failure) ==
  LET a == x.active
      wasWake == x.snap.sub[a.task] \in Wakes
  IN  [x EXCEPT !.active = None,
                !.failed = @ \/ failure,
                !.suspended = @ \/ (wasWake /\ x.snap.runState[a.run] # "completed")]

SettleOnlyKicks(x, failure) == Kick(SettleQuietly(x, failure))

SettleKeepsSlot(x, failure) == [x EXCEPT !.failed = @ \/ failure]

(* The end of an execution: `.catch` and `.finally` of kick().             *)
Settle(x, failure) ==
  LET a == x.active
      wasWake == x.snap.sub[a.task] \in Wakes
  IN  WakeKick([x EXCEPT !.active = None,
                         !.failed = @ \/ failure,
                         !.suspended = @ \/ (wasWake /\ x.snap.runState[a.run] # "completed")])

(***************************************************************************)
(* #execute, from an await's return to the next await.                     *)
(***************************************************************************)
At(pc) == m.active # None /\ m.active.pc = pc
Goto(a, pc) == [m EXCEPT !.active = [a EXCEPT !.pc = pc]]
Request(a, pc) == Enqueue(Goto(a, pc), [kind |-> "exec"])

(* The lease goes back unless the instance could not be disposed of.       *)
Ending(x, a) ==
  IF a.leased THEN [x EXCEPT !.active = [a EXCEPT !.pc = "release"]]
  ELSE Settle([x EXCEPT !.active = a], a.errors /\ (a.fatal \/ ~a.started))

(* finally: settle the run in the ledger, or keep an aborted task queued   *)
(* behind a pause.                                                         *)
Settling(x, a) ==
  IF a.started \/ (a.aborted /\ ~x.blocked)
    THEN Enqueue([x EXCEPT !.active = [a EXCEPT !.pc = "finish"]], [kind |-> "exec"])
    ELSE Ending(x, a)

(* finally: dispose the instance first; it is a stop-and-join barrier.     *)
Cleanup(x, a) ==
  IF a.made THEN [x EXCEPT !.active = [a EXCEPT !.pc = "abandon"]] ELSE Settling(x, a)

Cancelled(a) == [a EXCEPT !.outcome = "cancelled"]
Failed(a)    == [a EXCEPT !.outcome = "failed", !.errors = TRUE]

(* catch: an abort before execution is a cancellation, whatever was thrown. *)
Thrown(a) == IF a.aborted /\ a.pc \notin {"execute", "supplement"} THEN Cancelled(a) ELSE Failed(a)

Fault == Faults /\ faulted' = TRUE

Step(x) == m' = x /\ UNCHANGED <<edits, faulted, halted>>
FaultStep(x) == Fault /\ m' = x /\ UNCHANGED <<edits, halted>>

(* readConfiguration returns, before or after the acquisition.             *)
Configured ==
  /\ At("config") \/ At("reconfig")
  /\ LET a == m.active
     IN  \/ a.aborted /\ Step(Cleanup(m, Cancelled(a)))
         \/ ~a.aborted /\ Deadlines /\ Step(Request(a, "expire"))
         \/ ~a.aborted /\ a.pc = "config" /\ Step(Goto(a, "acquire"))
         \/ ~a.aborted /\ a.pc = "reconfig" /\ Step(Request(a, "start"))
         \/ FaultStep(Cleanup(m, Thrown(a)))   \* it throws, or the factory is missing

(* The harness control hands out a lease, refuses because it needs repair, *)
(* or fails.  An aborted wait ends without a lease; an abort that comes    *)
(* when the lease is on its way finds it held.                             *)
Acquired ==
  /\ At("acquire")
  /\ LET a == m.active
     IN  \/ ~a.aborted /\ Step(Goto([a EXCEPT !.leased = TRUE], "reconfig"))
         \/ a.aborted /\ \E held \in BOOLEAN :
              Step(Cleanup(m, Cancelled([a EXCEPT !.leased = held])))
         \/ FaultStep(Cleanup(m, Thrown(a)))
         \/ ~a.aborted /\ FaultStep(Request(a, "hold"))

Created ==
  /\ At("create")
  /\ LET a == m.active
     IN  \/ a.aborted /\ Step(Cleanup(m, Cancelled([a EXCEPT !.made = TRUE])))
         \/ ~a.aborted /\ Step([Goto([a EXCEPT !.made = TRUE], "execute") EXCEPT !.inbox = FALSE])
         \/ FaultStep(Cleanup(m, Thrown(a)))

(* claimSupplements, called by the loop at a safe boundary. *)
Supplement ==
  /\ At("execute") /\ ~m.active.aborted
  /\ Steering(m.snap, m.active.run) # {}
  /\ Step(Request(m.active, "supplement"))

Executed ==
  /\ At("execute")
  /\ LET a == m.active
     IN  \/ \E o \in Outcomes :
              Step(Cleanup(m, [a EXCEPT !.outcome = IF a.aborted THEN "cancelled" ELSE o]))
         \/ FaultStep(Cleanup(m, Failed(a)))

(* The execution budget runs out. *)
Expire ==
  /\ At("execute") \/ At("supplement")
  /\ Deadlines /\ ~m.active.aborted
  /\ Step([m EXCEPT !.active.aborted = TRUE])

(* instance.dispose() returns or throws. *)
Disposed ==
  /\ At("abandon")
  /\ LET a == m.active
     IN  \/ Step(Settling(m, a))
         \/ FaultStep(Settling(m, [Failed(a) EXCEPT !.fatal = TRUE, !.leased = FALSE]))

(* lease.release() returns or throws. *)
Released ==
  /\ At("release")
  /\ LET a == m.active
     IN  \/ Step(Settle(m, a.errors /\ (a.fatal \/ ~a.started)))
         \/ FaultStep(Settle(m, TRUE))

(* The scheduling operation (a compaction) returns or throws. *)
Operated ==
  /\ At("operate")
  /\ LET a == m.active
         done(o) == [a EXCEPT !.outcome = IF a.aborted THEN "cancelled" ELSE o]
     IN  \/ Step(Request(done("completed"), "operated"))
         \/ IF m.blocked THEN FaultStep(Settle(m, TRUE))
                         ELSE FaultStep(Request([done("failed") EXCEPT !.errors = TRUE], "operated"))

-----------------------------------------------------------------------------
(***************************************************************************)
(* Turns of the lane.                                                      *)
(***************************************************************************)
(* A commit makes the revision of every waiting queue edit stale.          *)
Outdated(lane) ==
  [i \in DOMAIN lane |->
     IF "fresh" \in DOMAIN lane[i] THEN [lane[i] EXCEPT !.fresh = FALSE] ELSE lane[i]]

Served(x) == [x EXCEPT !.lane = Tail(@)]

Committed(x, events) ==
  IF events = <<>> THEN x
  ELSE [x EXCEPT !.snap = Replayed(@, events), !.lane = Outdated(@)]

(* The commit of the current exec call, or <<>> when its checks fail.      *)
ExecEvents(x) ==
  LET a == x.active
      s == x.snap
  IN  CASE a.pc = "start" ->
             IF CanStart(s, a.task, a.run) THEN StartEvents(a.task, a.run) ELSE <<>>
        [] a.pc \in {"expire", "operation"} ->
             IF CanStartOperation(s, a.task) THEN StartOperationEvents(a.task) ELSE <<>>
        [] a.pc = "expired" -> FinishOperationEvents(a.task, "cancelled")
        [] a.pc = "operated" -> FinishOperationEvents(a.task, a.outcome)
        [] a.pc = "supplement" ->
             IF CanSupplement(s, a.run) THEN CHOOSE b \in SupplementBatches(s, a.run) : TRUE ELSE <<>>
        [] a.pc = "finish" /\ a.started -> FinishEvents(s, a.run, a.outcome)
        [] OTHER -> PauseEvents(TRUE)   \* "hold", and "finish" of an unclaimed task

(* Mutant of LostClaim: only a pause is forgiven. *)
LostToPause(s, a) == s.paused

(* "A concurrent queue edit or pause won before the initial claim":        *)
(* QUEUE_PAUSED, QUEUE_ORDER or TASK_NOT_PENDING, but not SESSION_BUSY.    *)
LostClaim(s, a) ==
  IF a.pc = "start" THEN s.paused \/ (Running(s) = {} /\ s.runState[a.run] = "none")
                    ELSE s.paused \/ ~IsPending(s, a.task)

(* The call was accepted: the continuation after its await. *)
Resumed(x) ==
  LET a == x.active
      to(b, pc) == [x EXCEPT !.active = [b EXCEPT !.pc = pc]]
  IN  CASE a.pc = "start" ->
             LET b == [a EXCEPT !.started = TRUE]
             IN  IF a.aborted THEN Cleanup(x, Cancelled(b)) ELSE to(b, "create")
        [] a.pc = "expire"     -> Enqueue(to(a, "expired"), [kind |-> "exec"])
        [] a.pc = "expired"    -> Cleanup(x, a)
        [] a.pc = "hold"       -> Cleanup(x, a)
        [] a.pc = "supplement" -> to(a, "execute")
        [] a.pc = "finish"     -> Ending(x, a)
        [] a.pc = "operation"  -> to(a, "operate")
        [] a.pc = "operated"   -> Settle(x, FALSE)

(* The ledger refused the call: a TaskError other than DURABILITY_BLOCKED. *)
Refused(x) ==
  LET a == x.active
  IN  CASE a.pc = "operation" -> Settle(x, FALSE)
        [] a.pc = "supplement" -> [x EXCEPT !.active.pc = "execute"]  \* nothing to claim
        [] OTHER -> IF a.aborted THEN Cleanup(x, Cancelled(a))
                    ELSE IF LostClaim(x.snap, a) THEN Cleanup(x, a)
                    ELSE Cleanup(x, Failed(a))

(* DURABILITY_BLOCKED. *)
Blocked(x) ==
  LET a == x.active
  IN  CASE a.pc \in {"operation", "operated"} -> Settle(x, TRUE)
        [] a.pc = "finish" -> Ending(x, [Failed(a) EXCEPT !.fatal = TRUE])
        [] a.pc = "hold"   -> Settle(x, TRUE)   \* thrown out of the catch block
        [] OTHER           -> Cleanup(x, Thrown(a))

ExecTurn ==
  /\ Head(m.lane).kind = "exec" /\ ~m.blocked
  /\ LET events == ExecEvents(m)
     IN  Step(IF events = <<>> THEN Refused(Served(m)) ELSE Resumed(Committed(Served(m), events)))

(* The continuation of stop(): abort what was active when it was called.   *)
Stopped(x) ==
  IF x.active # None /\ x.active.stopping
    THEN [x EXCEPT !.active.aborted = TRUE, !.active.stopping = FALSE] ELSE x

StopTurn ==
  /\ Head(m.lane).kind = "stop" /\ ~m.blocked
  /\ Step(Stopped(Committed(Served(m), PauseEvents(TRUE))))

SubmitTurn ==
  /\ Head(m.lane).kind = "submit" /\ ~m.blocked
  /\ LET c == Head(m.lane)
         x == Committed(Served(m), SubmitEvents(m.snap, c.sub, NewTask(m), None, c.idle))
         y == Kick(x)
     IN  Step([y EXCEPT !.waking = IF c.sub \in Wakes THEN FALSE ELSE @])

(* Queue edits of clients: designate, cancel and move kick, resume re-arms *)
(* the wake as well.  A refused call does neither.                         *)
EditEvents(s, c) ==
  CASE c.kind = "designate" ->
         IF CanDesignate(s, c.task, c.run) THEN DesignateEvents(s, c.task, c.run) ELSE <<>>
    [] c.kind = "cancel" -> IF CanCancel(s, c.task) THEN CancelEvents(c.task) ELSE <<>>
    [] c.kind = "move" ->
         IF CanMove(s, c.task, c.before) THEN MoveEvents(c.task, c.before) ELSE <<>>
    [] c.kind = "resume" -> PauseEvents(FALSE)

EditTurn ==
  /\ Head(m.lane).kind \in {"designate", "cancel", "move", "resume"} /\ ~m.blocked
  /\ LET c == Head(m.lane)
         events == IF c.fresh THEN EditEvents(m.snap, c) ELSE <<>>
         x == Committed(Served(m), events)
     IN  Step(IF events = <<>> THEN x
              ELSE IF c.kind = "resume" THEN WakeKick([x EXCEPT !.suspended = FALSE])
              ELSE Kick(x))

HeadEvents ==
  LET c == Head(m.lane)
  IN  CASE c.kind = "exec" -> ExecEvents(m)
        [] c.kind = "stop" -> PauseEvents(TRUE)
        [] c.kind = "submit" -> SubmitEvents(m.snap, c.sub, NewTask(m), None, c.idle)
        [] OTHER -> IF c.fresh THEN EditEvents(m.snap, c) ELSE <<>>

(* The commit fails and blocks the ledger, or the ledger is blocked        *)
(* already: the caller gets DURABILITY_BLOCKED.                            *)
BlockedTurn ==
  /\ m.blocked \/ (Faults /\ HeadEvents # <<>>)
  /\ LET x == [Served(m) EXCEPT !.blocked = TRUE]
         c == Head(m.lane)
     IN  m' = CASE c.kind = "exec" -> Blocked(x)
                [] c.kind = "stop" -> Stopped(x)
                [] c.kind = "submit" ->
                     [x EXCEPT !.waking = IF c.sub \in Wakes THEN FALSE ELSE @]
                [] OTHER -> x
  /\ faulted' = TRUE
  /\ UNCHANGED <<edits, halted>>

(* The batch of the head call holds data of a client, of the configuration *)
(* or of the harness: a content, a result.  What has thrown leaves null or *)
(* an error message; so does an abort between create and execute, which    *)
(* passes here for an execution that has returned.                         *)
HoldsData ==
  LET c == Head(m.lane)
      a == m.active
  IN  \/ c.kind = "submit" /\ c.sub \in Users
      \/ /\ c.kind = "exec"
         /\ \/ a.pc \in {"start", "supplement"}
            \/ a.pc = "finish" /\ a.made /\ ~a.errors
            \/ a.pc = "operated" /\ ~a.errors

(* Mutant of Rejected: a finish that was refused does not fail the manager. *)
RejectedMildly(x) ==
  LET a == x.active
  IN  CASE a.pc = "operated" ->
             Enqueue([x EXCEPT !.active = [Failed(a) EXCEPT !.outcome =
                                             IF a.aborted THEN "cancelled" ELSE "failed"]],
                     [kind |-> "exec"])
        [] a.pc = "finish" -> Ending(x, Failed(a))
        [] OTHER           -> Cleanup(x, Thrown(a))

(* INVALID_EVENT: an operation is finished again, as failed; a run is not. *)
Rejected(x) ==
  LET a == x.active
  IN  CASE a.pc = "operated" ->
             Enqueue([x EXCEPT !.active = [Failed(a) EXCEPT !.outcome =
                                             IF a.aborted THEN "cancelled" ELSE "failed"]],
                     [kind |-> "exec"])
        [] a.pc = "finish" -> Ending(x, [Failed(a) EXCEPT !.fatal = TRUE])
        [] OTHER           -> Cleanup(x, Thrown(a))

(* The session refuses the events, a record that is too long say: the      *)
(* caller gets INVALID_EVENT and the ledger goes on.                       *)
RejectedTurn ==
  /\ ~m.blocked /\ HeadEvents # <<>> /\ HoldsData
  /\ LET x == Served(m)
     IN  FaultStep(IF Head(m.lane).kind = "exec" THEN Rejected(x) ELSE x)

Turn ==
  /\ m.lane # <<>>
  /\ ExecTurn \/ StopTurn \/ SubmitTurn \/ EditTurn \/ BlockedTurn \/ RejectedTurn

-----------------------------------------------------------------------------
(***************************************************************************)
(* Calls of clients and of the host.  Bound: one client call and one stop  *)
(* wait in the lane at a time.                                             *)
(***************************************************************************)
ClientFree == ~Has(m, {"designate", "cancel", "move", "resume"})
              /\ \A i \in DOMAIN m.lane : m.lane[i].kind = "submit" => m.lane[i].sub \in Wakes

Submit(s) ==
  /\ ~m.closed /\ ~m.failed /\ ClientFree
  /\ s \in Users \cap Unused(m)
  /\ m' = Enqueue([m EXCEPT !.suspended = FALSE],
                  [kind |-> "submit", sub |-> s, idle |-> m.active = None /\ ~m.maintenance])
  /\ halted' = FALSE
  /\ UNCHANGED <<edits, faulted>>

Edit(call) ==
  /\ ClientFree /\ edits < MaxEdits
  /\ edits' = edits + 1
  /\ m' = Enqueue(m, call)
  /\ UNCHANGED <<faulted, halted>>

Resume ==
  /\ ~m.closed /\ ~m.failed /\ ClientFree /\ m.snap.paused
  /\ m' = Enqueue(m, [kind |-> "resume", fresh |-> TRUE])
  /\ halted' = FALSE
  /\ UNCHANGED <<edits, faulted>>

(* Mutant of Stop: abort at once, and leave the pause to the run that ends. *)
StopWithoutPause ==
  /\ m.active # None /\ ~Has(m, {"stop"}) /\ ~m.active.aborted
  /\ m' = [m EXCEPT !.active.aborted = TRUE]
  /\ halted' = TRUE
  /\ UNCHANGED <<edits, faulted>>

(* stop(runId): pause first, abort when the pause is durable. *)
Stop ==
  /\ m.active # None /\ ~Has(m, {"stop"}) /\ ~m.active.aborted
  /\ m' = Enqueue([m EXCEPT !.active.stopping = TRUE], [kind |-> "stop"])
  /\ halted' = TRUE
  /\ UNCHANGED <<edits, faulted>>

(* exclusive(): mode, workspace and compaction writes reserve the slot. *)
Exclusive ==
  /\ ~m.closed /\ ~m.failed /\ m.open
  /\ m.active = None /\ ~m.maintenance
  /\ Step([m EXCEPT !.maintenance = TRUE])

EndExclusive ==
  /\ m.maintenance
  /\ Step(WakeKick([m EXCEPT !.maintenance = FALSE]))

(* AgentService.hold and its release, beginDrain. *)
Hold == m.open /\ Step([m EXCEPT !.open = FALSE])
Unhold == ~m.open /\ Step(WakeKick([m EXCEPT !.open = TRUE]))

(* A background task posts to the inbox; AgentService.wake follows. *)
Notify ==
  /\ ~m.inbox /\ ~m.closed
  /\ Step(Wake([m EXCEPT !.inbox = TRUE]))

Dispose ==
  /\ ~m.closed
  /\ Step([m EXCEPT !.closed = TRUE, !.active = IF @ = None THEN None ELSE [@ EXCEPT !.aborted = TRUE]])

Clients ==
  \/ \E s \in Users : Submit(s)
  \/ \E t \in Tasks, r \in Runs \cup {None} :
       /\ CanDesignate(m.snap, t, r)
       /\ Edit([kind |-> "designate", task |-> t, run |-> r, fresh |-> TRUE])
  \/ \E t \in Tasks : CanCancel(m.snap, t) /\ Edit([kind |-> "cancel", task |-> t, fresh |-> TRUE])
  \/ \E t, b \in Tasks :
       CanMove(m.snap, t, b) /\ Edit([kind |-> "move", task |-> t, before |-> b, fresh |-> TRUE])
  \/ Resume \/ Stop

Host == Exclusive \/ Hold \/ Unhold \/ Notify \/ Dispose

Execution ==
  Configured \/ Acquired \/ Created \/ Executed \/ Disposed \/ Released \/ Operated

Next ==
  \/ Turn \/ Execution \/ Supplement \/ Expire \/ EndExclusive
  \/ Clients \/ Host

(* The event loop serves the lane and every settled await; ports and runs  *)
(* return in the end.  Nothing is assumed of clients, of hold and release, *)
(* or that a deadline expires.  This is weak fairness of the three         *)
(* actions, with what enables each of them written out.                    *)
Awaiting ==
  m.active # None /\ m.active.pc \in {"config", "acquire", "reconfig", "create", "execute",
                                    "abandon", "release", "operate"}

Fairness ==
  /\ []<>(m.lane = <<>>)   \/ []<><<Turn>>_vars
  /\ []<>~Awaiting         \/ []<><<Execution>>_vars
  /\ []<>(~m.maintenance)  \/ []<><<EndExclusive>>_vars

Spec == Init /\ [][Next]_vars /\ Fairness

-----------------------------------------------------------------------------
(***************************************************************************)
(* Properties.                                                             *)
(***************************************************************************)
Executing(s) == Running(s) # {} \/ Claimed(s) # {}

(* What the journal calls running or claimed is what the slot executes. *)
SlotExecutes ==
  /\ \A r \in Running(m.snap) : m.active # None /\ m.active.run = r /\ m.active.started
  /\ \A t \in Claimed(m.snap) :
       m.active # None /\ (m.active.task = t \/ m.snap.run[t] = m.active.run)

(* The types, and: no path through #execute, #executeOperation and their   *)
(* catch and finally blocks settles the slot and leaves its run or         *)
(* operation open, unless durability is lost or the manager has failed     *)
(* with it; and a manager that has failed executes nothing.                *)
SlotOwnsExecution ==
  /\ TypeOK
  /\ ~m.blocked /\ ~m.failed => SlotExecutes
  /\ m.failed => m.active = None

(* The claim of docs/design-docs/agent-plugin-runtime/                      *)
(* agent-task-run-lifecycle.md:11: when a run ends, its end is persisted,  *)
(* and then its lease is released.  A blocked ledger can persist nothing.  *)
EndsArePersisted == ~m.blocked => SlotExecutes

(* Exclusive work (a mode or workspace write, a manual compaction) never   *)
(* shares the session with a run, an operation or a reservation.           *)
ExclusiveAlone ==
  m.maintenance => m.active = None /\ (~m.blocked => ~Executing(m.snap))

(* Queue edits, stops, pauses and holds that race a reservation leave the  *)
(* task queued; the manager fails for good only after a port or a commit   *)
(* has failed ("A concurrent queue edit or pause won before the initial    *)
(* claim: leave it queued", run-manager.ts:251).                           *)
RacesNeverFail == m.failed => faulted

(* After stop() was called, no further task is claimed until a client      *)
(* resumes or sends a message; only the execution being stopped may still  *)
(* complete a claim it had already asked for ("Stop must not let queued    *)
(* work escape even when the current Run is settling", run-manager.ts:102).*)
Escapes == \E t \in Tasks : IsPending(m.snap, t) /\ (m.snap.state[t])' = "claimed"

StopHolds ==
  [][halted /\ Escapes => m.active # None /\ (m.active.stopping \/ m.active.aborted)]_vars

(* Once a manager with nothing active is free to start, the queue moves:   *)
(* every queued task is claimed or cancelled in the end, or the session is *)
(* paused, held, closed, failed or blocked on the way.  Each reservation   *)
(* that is lost to an edit must be followed by another kick.               *)
Stuck == m.snap.paused \/ m.failed \/ m.blocked \/ m.closed \/ ~m.open

QueueServed == \A t \in Tasks : IsPending(m.snap, t) ~> (~IsPending(m.snap, t) \/ Stuck)

(* dispose() and waitForIdle() return: an aborted execution ends.          *)
CloseCompletes == m.closed ~> (m.active = None /\ ~m.maintenance)

(* A wake is on its way: submitted, queued or claimed. *)
WakeInPlay ==
  \/ \E i \in DOMAIN m.lane : m.lane[i].kind = "submit" /\ m.lane[i].sub \in Wakes
  \/ \E t \in Tasks : m.snap.sub[t] \in Wakes /\ m.snap.state[t] \in {"pending", "claimed"}

(* A background notification is read by some run in the end, unless the    *)
(* session is stuck or wakes are suspended until the next user action.     *)
(* The bound on wakes excuses the behaviours that have used them up, once  *)
(* the last of them is over.                                               *)
InboxRead ==
  m.inbox ~> \/ ~m.inbox \/ Stuck \/ m.suspended
             \/ (Unused(m) \cap Wakes = {} /\ ~WakeInPlay)

=============================================================================
