-------------------------- MODULE RunManagerProofs --------------------------
(***************************************************************************)
(* What the run manager promises for any number of submissions, tasks and  *)
(* edits: what the journal shows as running or claimed is what the slot    *)
(* executes, exclusive work is alone, no race makes a session fail, and a  *)
(* stop lets nothing more be claimed.                                      *)
(*                                                                         *)
(* The argument: `Work` says for each await of #execute and                *)
(* #executeOperation what the journal shows meanwhile, and `InLane` that   *)
(* the execution has one call in the ledger's lane just while it waits for *)
(* one.  A snapshot is `Sound` when it is well formed and no identifier is *)
(* used twice, so that there is always a new one.  `Clean` says that       *)
(* nothing was thrown, and `Safe` that a stop in the lane has no call      *)
(* behind it that ends its pause.                                          *)
(***************************************************************************)
EXTENDS RunManager, TaskProjectionProofs

\* Every submission made one task, and every run was started for another task.
Named(s) ==
  /\ \A t \in Tasks : s.state[t] # "none" => s.sub[t] \in Submissions
  /\ \A t, u \in Tasks : s.sub[t] = s.sub[u] /\ s.sub[t] # None => t = u
  /\ \A r \in Runs : s.runState[r] # "none" =>
        s.runTask[r] \in Tasks /\ s.state[s.runTask[r]] \notin {"none", "pending"}
  /\ \A r, q \in Runs :
        s.runState[r] # "none" /\ s.runState[q] # "none" /\ s.runTask[r] = s.runTask[q] => r = q

Sound(s) == WellFormed(s) /\ Whole(s) /\ Named(s)

\* The awaits of an execution that are calls of the ledger.
LanePcs == {"start", "supplement", "finish", "expire", "expired", "hold",
                "operation", "operated"}
Operating == {"expired", "operate", "operated"}

\* No submission is queued twice, or queued and a task already.
Fresh(x) ==
  \A i \in DOMAIN x.lane : x.lane[i].kind = "submit" =>
    /\ ~IsRepeated(x.snap, x.lane[i].sub)
    /\ \A j \in DOMAIN x.lane :
         x.lane[j].kind = "submit" /\ x.lane[j].sub = x.lane[i].sub => i = j

InLane(x) ==
  /\ \A i, j \in DOMAIN x.lane :
       x.lane[i].kind = "exec" /\ x.lane[j].kind = "exec" => i = j
  /\ Has(x, {"exec"}) <=> x.active # None /\ x.active.pc \in LanePcs

Phase(a) ==
  /\ a.started => a.pc \in {"create", "execute", "supplement", "finish", "release", "abandon"}
  /\ a.pc \in {"create", "execute", "supplement"} => a.started

\* What the journal shows while nothing is executed, while a is prepared or
\* executed or an operation, and at each await.
Over(s) == Running(s) = {} /\ Claimed(s) = {}
Unstarted(s, a) == ~a.started => s.runState[a.run] = "none"
Held(s, a) ==
  /\ Unstarted(s, a)
  /\ IF a.started THEN Running(s) = {a.run} /\ \A t \in Claimed(s) : s.run[t] = a.run
                  ELSE Over(s)
Operation(s, a) == Running(s) = {} /\ Claimed(s) = {a.task} /\ s.run[a.task] = None
\* The finish of the run was refused: the manager will fail with it.
Doomed(s, a) == a.started /\ a.errors /\ a.fatal /\ Held(s, a)
Work(s, a) ==
  IF a = None THEN Over(s)
  ELSE /\ Unstarted(s, a)
       /\ CASE a.pc \in Operating -> Operation(s, a)
            [] a.pc = "release"   -> Over(s) \/ Doomed(s, a)
            [] OTHER              -> Held(s, a)

Inv(x) ==
  /\ x \in Manager /\ Sound(x.snap) /\ Fresh(x) /\ InLane(x)
  /\ x.maintenance => x.active = None /\ ~x.failed
  /\ x.failed => x.active = None
  /\ x.active # None => Phase(x.active)
  /\ ~x.blocked /\ ~x.failed => Work(x.snap, x.active)

IInv == TypeOK /\ Inv(m)

-----------------------------------------------------------------------------
(***************************************************************************)
(* Snapshots.                                                              *)
(***************************************************************************)
\* There is always a task identifier for a submission that is not a task yet,
\* and a run identifier for a task that is queued.
LEMMA TaskLeft ==
  ASSUME NEW s, Sound(s), NEW w \in Submissions, ~IsRepeated(s, w)
  PROVE  \E t \in Tasks : s.state[t] = "none"
<1> SUFFICES ASSUME \A t \in Tasks : s.state[t] # "none"
             PROVE  FALSE
  OBVIOUS
<1>1. s.sub \in [Tasks -> Submissions \ {w}]
  BY DEF Sound, Named, IsRepeated, WellFormed, Snapshot
<1>2. \A t, u \in Tasks : s.sub[t] = s.sub[u] => t = u
  BY <1>1, NoneAssumption DEF Sound, Named
<1>3. s.sub \in Injection(Tasks, Submissions \ {w})
  BY <1>1, <1>2 DEF Injection, IsInjective
<1>4. /\ IsFiniteSet(Submissions \ {w})
      /\ Cardinality(Submissions \ {w}) = Cardinality(Submissions) - 1
      /\ Cardinality(Submissions) \in Nat
  BY EnoughIdentifiers, FS_RemoveElement, FS_CardinalityType
<1>5. Cardinality(Tasks) <= Cardinality(Submissions \ {w})
  BY <1>3, <1>4, FS_Injection
<1>6. Cardinality(Tasks) \in Nat
  BY FiniteTasks, FS_CardinalityType
<1> QED
  BY <1>4, <1>5, <1>6, EnoughIdentifiers

\* There is a new run identifier for a queued task, since each run was
\* started for another task.
LEMMA RunLeft ==
  ASSUME NEW s, Sound(s), NEW t \in Tasks, IsPending(s, t)
  PROVE  \E r \in Runs : s.runState[r] = "none"
<1> SUFFICES ASSUME \A r \in Runs : s.runState[r] # "none"
             PROVE  FALSE
  OBVIOUS
<1>1. s.runTask \in [Runs -> Tasks \ {t}]
  BY DEF Sound, Named, IsPending, WellFormed, Snapshot
<1>2. \A r, q \in Runs : s.runTask[r] = s.runTask[q] => r = q
  BY DEF Sound, Named
<1>3. s.runTask \in Injection(Runs, Tasks \ {t})
  BY <1>1, <1>2 DEF Injection, IsInjective
<1>4. /\ IsFiniteSet(Tasks \ {t})
      /\ Cardinality(Tasks \ {t}) = Cardinality(Tasks) - 1
      /\ Cardinality(Tasks) \in Nat
  BY FiniteTasks, FS_RemoveElement, FS_CardinalityType
<1>5. Cardinality(Runs) <= Cardinality(Tasks \ {t}) /\ IsFiniteSet(Runs)
  BY <1>3, <1>4, FS_Injection
<1>6. Cardinality(Runs) \in Nat
  BY <1>5, FS_CardinalityType
<1> QED
  BY <1>4, <1>5, <1>6, EnoughIdentifiers

\* n shows the same runs, and the same tasks at work, as s.
SameWork(s, n) ==
  /\ n.runState = s.runState /\ n.runTask = s.runTask /\ n.run = s.run
  /\ Running(n) = Running(s) /\ Claimed(n) = Claimed(s)

\* A snapshot that shows the same runs and claims suits the same
\* execution.
LEMMA SameWorkIs ==
  ASSUME NEW s, NEW n, NEW a, SameWork(s, n)
  PROVE  /\ Over(s) => Over(n)
         /\ Unstarted(s, a) => Unstarted(n, a)
         /\ Held(s, a) => Held(n, a)
         /\ Operation(s, a) => Operation(n, a)
         /\ Work(s, a) => Work(n, a)
<1>1. Over(s) => Over(n)
  BY DEF SameWork, Over
<1>2. Unstarted(s, a) => Unstarted(n, a)
  BY DEF SameWork, Unstarted
<1>3. Held(s, a) => Held(n, a)
  BY <1>1, <1>2 DEF SameWork, Held
<1>4. Operation(s, a) => Operation(n, a)
  BY DEF SameWork, Operation
<1>5. Work(s, a) => Work(n, a)
  BY <1>1, <1>2, <1>3, <1>4 DEF Work, Doomed
<1> QED
  BY <1>1, <1>2, <1>3, <1>4, <1>5

\* The edits of the queue, a pause and a submission leave the work alone.
QuietOps == {"accept", "designate", "cancel", "return-steering", "move", "pause", "resume"}

\* Events that neither start, claim nor settle keep a snapshot sound and
\* show the same work; only accept adds a submission.
LEMMA QuietEvent ==
  ASSUME NEW s, Sound(s), NEW e \in Event, e.op \in QuietOps, Legal(s, e)
  PROVE  LET n == Apply(s, e)
         IN  /\ Sound(n) /\ SameWork(s, n)
             /\ e.op # "accept" => n.sub = s.sub
             /\ e.op = "accept" => n.sub = [s.sub EXCEPT ![e.task] = e.sub]
<1> DEFINE n == Apply(s, e)
<1>1. WellFormed(n) /\ Whole(n)
  BY ApplyKeepsWellFormed DEF Sound, QuietOps
<1>2. /\ s.state \in [Tasks -> TaskState] /\ s.sub \in [Tasks -> Submissions \cup {None}]
      /\ s.runState \in [Runs -> RunState] /\ s.run \in [Tasks -> Runs \cup {None}]
      /\ s.runTask \in [Runs -> Tasks \cup {None}] /\ s \in Snapshot
  BY DEF Sound, WellFormed, Snapshot
<1>3. /\ n.runState = s.runState /\ n.runTask = s.runTask /\ n.run = s.run
      /\ e.op # "accept" => n.sub = s.sub
      /\ e.op = "accept" => n.sub = [s.sub EXCEPT ![e.task] = e.sub]
  <2>1. CASE e.op = "accept"
    BY <1>2, <2>1 DEF Apply, Accept, Snapshot
  <2>2. CASE e.op \in {"designate", "cancel", "return-steering"}
    BY <1>2, <2>2 DEF Apply, Designate, Cancel, ReturnSteering, Snapshot
  <2>3. CASE e.op \in {"move", "pause", "resume"}
    BY <1>2, <2>3 DEF Apply, Move, Snapshot
  <2> QED
    BY <2>1, <2>2, <2>3 DEF QuietOps
<1>4. ASSUME NEW t \in Tasks
      PROVE  \/ n.state[t] = s.state[t]
             \/ e.op = "accept" /\ t = e.task /\ s.state[t] = "none" /\ n.state[t] = "pending"
             \/ s.state[t] = "pending" /\ n.state[t] = "cancelled"
  <2>1. CASE e.op = "accept"
    <3>1. e.task \in Tasks /\ s.state[e.task] = "none"
      BY <2>1 DEF Event, Legal
    <3>2. n.state = [s.state EXCEPT ![e.task] = "pending"]
      BY <1>2, <2>1 DEF Apply, Accept, Snapshot
    <3> QED
      BY <1>2, <2>1, <3>1, <3>2
  <2>2. CASE e.op = "cancel"
    <3>1. e.task \in Tasks /\ s.state[e.task] = "pending"
      BY <2>2 DEF Event, Legal, IsPending
    <3>2. n.state = [s.state EXCEPT ![e.task] = "cancelled"]
      BY <1>2, <2>2 DEF Apply, Cancel, Snapshot
    <3> QED
      BY <1>2, <3>1, <3>2
  <2>3. CASE e.op \in {"designate", "return-steering", "move", "pause", "resume"}
    BY <1>2, <2>3 DEF Apply, Designate, ReturnSteering, Move, Snapshot
  <2> QED
    BY <2>1, <2>2, <2>3 DEF QuietOps
<1> HIDE DEF n
<1>5. SameWork(s, n)
  <2>1. Claimed(n) = Claimed(s)
    BY <1>4 DEF Claimed
  <2> QED
    BY <1>3, <2>1 DEF SameWork, Running
<1>6. Named(n)
  <2>1. ASSUME e.op = "accept"
        PROVE  /\ e.task \in Tasks /\ e.sub \in Submissions /\ \A t \in Tasks : s.sub[t] # e.sub
    BY <2>1 DEF Event, Legal
  <2>2. ASSUME NEW t \in Tasks, n.state[t] # "none"
        PROVE  n.sub[t] \in Submissions
    <3>1. CASE e.op = "accept" /\ t = e.task
      BY <1>2, <1>3, <2>1, <3>1
    <3>2. CASE ~(e.op = "accept" /\ t = e.task)
      BY <1>2, <1>3, <1>4, <2>1, <2>2, <3>2 DEF Sound, Named
    <3> QED
      BY <3>1, <3>2
  <2>3. ASSUME NEW t \in Tasks, NEW u \in Tasks, n.sub[t] = n.sub[u], n.sub[t] # None
        PROVE  t = u
    <3>1. CASE e.op = "accept"
      <4>1. n.sub = [s.sub EXCEPT ![e.task] = e.sub]
        BY <1>3, <3>1
      <4> QED
        BY <1>2, <2>1, <2>3, <3>1, <4>1 DEF Sound, Named
    <3>2. CASE e.op # "accept"
      BY <1>3, <2>3, <3>2 DEF Sound, Named
    <3> QED
      BY <3>1, <3>2
  <2>4. ASSUME NEW r \in Runs, n.runState[r] # "none"
        PROVE  n.runTask[r] \in Tasks /\ n.state[n.runTask[r]] \notin {"none", "pending"}
    BY <1>3, <1>4, <2>4 DEF Sound, Named
  <2> QED
    BY <1>3, <2>2, <2>3, <2>4 DEF Sound, Named
<1> QED
  BY <1>1, <1>3, <1>5, <1>6 DEF Sound, n

-----------------------------------------------------------------------------
(***************************************************************************)
(* What each batch of the ledger does to the snapshot.                     *)
(***************************************************************************)
\* n keeps the identifiers in order: tasks only leave the queue.
LEMMA NamedStays ==
  ASSUME NEW s, Named(s), NEW n, n.sub = s.sub, n.runTask = s.runTask,
         \A r \in Runs : n.runState[r] # "none" => s.runState[r] # "none",
         \A t \in Tasks : \/ n.state[t] = s.state[t]
                          \/ /\ s.state[t] \notin {"none"}
                             /\ n.state[t] \notin {"none", "pending"}
  PROVE  Named(n)
<1>1. \A t \in Tasks : n.state[t] # "none" => n.sub[t] \in Submissions
  BY DEF Named
<1>2. \A t, u \in Tasks : n.sub[t] = n.sub[u] /\ n.sub[t] # None => t = u
  BY DEF Named
<1>3. \A r \in Runs : n.runState[r] # "none" =>
        n.runTask[r] \in Tasks /\ n.state[n.runTask[r]] \notin {"none", "pending"}
  BY DEF Named
<1>4. \A r, q \in Runs :
        n.runState[r] # "none" /\ n.runState[q] # "none" /\ n.runTask[r] = n.runTask[q] => r = q
  BY DEF Named
<1> QED
  BY <1>1, <1>2, <1>3, <1>4 DEF Named

\* setPaused, pause.
LEMMA PauseIs ==
  ASSUME NEW s, Sound(s), NEW p \in BOOLEAN
  PROVE  LET n == Replayed(s, PauseEvents(p))
         IN  /\ Sound(n) /\ SameWork(s, n) /\ n.sub = s.sub
             /\ PauseEvents(p) # <<>>
<1> DEFINE e == [op |-> IF p THEN "pause" ELSE "resume"]
<1>1. e \in Event /\ Legal(s, e) /\ e.op \in QuietOps /\ e.op # "accept"
  BY DEF Event, Legal, QuietOps
<1>2. PauseEvents(p) = <<e>>
  BY DEF PauseEvents
<1> HIDE DEF e
<1>3. Replayed(s, PauseEvents(p)) = Apply(s, e)
  BY <1>2, ReplayOne
<1>4. Sound(Apply(s, e)) /\ SameWork(s, Apply(s, e)) /\ Apply(s, e).sub = s.sub
  BY <1>1, QuietEvent
<1>5. PauseEvents(p) # <<>>
  BY <1>2
<1> QED
  BY <1>3, <1>4, <1>5

\* submit: one more task, for the submission.
LEMMA SubmitIs ==
  ASSUME NEW s, Sound(s), NEW w \in Submissions, NEW t \in Tasks, NEW idle \in BOOLEAN,
         ~IsRepeated(s, w), s.state[t] = "none"
  PROVE  LET n == Replayed(s, SubmitEvents(s, w, t, None, idle))
         IN  /\ Sound(n) /\ SameWork(s, n) /\ n.sub = [s.sub EXCEPT ![t] = w]
             /\ SubmitEvents(s, w, t, None, idle) # <<>>
<1> DEFINE e == [op |-> "accept", task |-> t, sub |-> w, cont |-> None]
           f == [op |-> "resume"]
           k == Apply(s, e)
<1>1. e \in Event /\ f \in Event /\ e.op = "accept" /\ e.task = t /\ e.sub = w /\ f.op = "resume"
  BY DEF Event
<1>2. Legal(s, e) /\ Legal(k, f)
  BY DEF Legal, IsRepeated
<1>3. SubmitEvents(s, w, t, None, idle) \in {<<e>>, <<e, f>>}
  BY Concatenations DEF SubmitEvents
<1> HIDE DEF e, f
<1>4. Replayed(s, SubmitEvents(s, w, t, None, idle)) \in {k, Apply(k, f)}
  BY <1>3, ReplayOne, ReplayTwo
<1> HIDE DEF k
<1>5. Sound(k) /\ SameWork(s, k) /\ k.sub = [s.sub EXCEPT ![t] = w]
  BY <1>1, <1>2, QuietEvent DEF QuietOps, k
<1>6. Sound(Apply(k, f)) /\ SameWork(k, Apply(k, f)) /\ Apply(k, f).sub = k.sub
  BY <1>1, <1>2, <1>5, QuietEvent DEF QuietOps
<1> QED
  BY <1>3, <1>4, <1>5, <1>6 DEF SameWork

\* designate, cancel, move: the edits of the queue.
LEMMA EditIs ==
  ASSUME NEW s, Sound(s), NEW c \in Call, c.kind \in {"designate", "cancel", "move", "resume"},
         EditEvents(s, c) # <<>>
  PROVE  LET n == Replayed(s, EditEvents(s, c))
         IN  Sound(n) /\ SameWork(s, n) /\ n.sub = s.sub
<1> SUFFICES \E e \in Event : /\ EditEvents(s, c) = <<e>> /\ Legal(s, e)
                              /\ e.op \in QuietOps /\ e.op # "accept"
  <2> HIDE DEF QuietOps
  <2> SUFFICES ASSUME NEW e \in Event, EditEvents(s, c) = <<e>>, Legal(s, e),
                      e.op \in QuietOps, e.op # "accept"
               PROVE  LET n == Replayed(s, EditEvents(s, c))
                      IN  Sound(n) /\ SameWork(s, n) /\ n.sub = s.sub
    OBVIOUS
  <2>1. Replayed(s, EditEvents(s, c)) = Apply(s, e)
    BY ReplayOne
  <2>2. Sound(Apply(s, e)) /\ SameWork(s, Apply(s, e)) /\ Apply(s, e).sub = s.sub
    BY QuietEvent
  <2> QED
    BY <2>1, <2>2
<1>1. CASE c.kind = "designate"
  <2>1. c.task \in Tasks /\ c.run \in Runs \cup {None}
    BY <1>1 DEF Call
  <2>2. CanDesignate(s, c.task, c.run) /\ EditEvents(s, c) = DesignateEvents(s, c.task, c.run)
    BY <1>1 DEF EditEvents
  <2>3. CASE c.run = None /\ s.target[c.task] # None
    <3> DEFINE e == [op |-> "return-steering", run |-> s.target[c.task], ids |-> {c.task}]
    <3>1. EditEvents(s, c) = <<e>>
      BY <2>2, <2>3 DEF DesignateEvents, ReturnEvents
    <3>2. s.target[c.task] \in Runs
      BY <2>1, <2>3 DEF Sound, WellFormed, Snapshot
    <3>3. {c.task} \subseteq Steering(s, s.target[c.task])
      BY <2>1, <2>2, QueueElems DEF Sound, Steering, WellFormed, Pending, CanDesignate
    <3>4. e \in Event /\ Legal(s, e)
      BY <2>1, <3>2, <3>3, SteeringReturns DEF Sound
    <3>5. e.op \in QuietOps /\ e.op # "accept"
      BY DEF QuietOps
    <3> HIDE DEF e
    <3> QED
      BY <3>1, <3>4, <3>5
  <2>4. CASE ~(c.run = None /\ s.target[c.task] # None)
    <3> DEFINE e == [op |-> "designate", task |-> c.task, run |-> c.run]
    <3>1. EditEvents(s, c) = <<e>>
      BY <2>2, <2>4 DEF DesignateEvents
    <3>2. e \in Event
      BY <2>1 DEF Event
    <3>3. Legal(s, e) /\ e.op \in QuietOps /\ e.op # "accept"
      BY <2>1, <2>2 DEF CanDesignate, Legal, QuietOps
    <3> HIDE DEF e
    <3> QED
      BY <3>1, <3>2, <3>3
  <2> QED
    BY <2>3, <2>4
<1>2. CASE c.kind = "cancel"
  <2> DEFINE e == [op |-> "cancel", task |-> c.task]
  <2>1. c.task \in Tasks
    BY <1>2 DEF Call
  <2>2. CanCancel(s, c.task) /\ EditEvents(s, c) = <<e>>
    BY <1>2 DEF EditEvents, CancelEvents
  <2>3. e \in Event /\ Legal(s, e) /\ e.op \in QuietOps /\ e.op # "accept"
    BY <2>1, <2>2 DEF Event, Legal, CanCancel, QuietOps
  <2> HIDE DEF e
  <2> QED
    BY <2>2, <2>3
<1>3. CASE c.kind = "move"
  <2> DEFINE e == [op |-> "move", task |-> c.task, beforeTask |-> c.before]
  <2>1. c.task \in Tasks /\ c.before \in Tasks
    BY <1>3 DEF Call
  <2>2. CanMove(s, c.task, c.before) /\ EditEvents(s, c) = <<e>>
    BY <1>3 DEF EditEvents, MoveEvents
  <2>3. e \in Event /\ Legal(s, e) /\ e.op \in QuietOps /\ e.op # "accept"
    BY <2>1, <2>2 DEF Event, Legal, CanMove, QuietOps
  <2> HIDE DEF e
  <2> QED
    BY <2>2, <2>3
<1>4. CASE c.kind = "resume"
  <2> DEFINE e == [op |-> "resume"]
  <2>1. EditEvents(s, c) = <<e>>
    BY <1>4 DEF EditEvents, PauseEvents
  <2>2. e \in Event /\ Legal(s, e) /\ e.op \in QuietOps /\ e.op # "accept"
    BY DEF Event, Legal, QuietOps
  <2> HIDE DEF e
  <2> QED
    BY <2>1, <2>2
<1> QED
  BY <1>1, <1>2, <1>3, <1>4

\* start: the run and its first claim.
LEMMA StartIs ==
  ASSUME NEW s, Sound(s), Over(s), NEW t \in Tasks, NEW r \in Runs, CanStart(s, t, r)
  PROVE  LET n == Replayed(s, StartEvents(t, r))
         IN  /\ Sound(n) /\ n.sub = s.sub
             /\ Running(n) = {r} /\ Claimed(n) = {t} /\ n.run[t] = r
<1> DEFINE e == [op |-> "start", task |-> t, run |-> r]
           f == [op |-> "claim", task |-> t, run |-> r]
           k == RunStart(s, e)
           n == Claim(k, f)
<1>1. /\ e \in Event /\ e.op = "start" /\ e.task = t /\ e.run = r
      /\ f \in Event /\ f.op = "claim" /\ f.task = t /\ f.run = r
  BY DEF Event
<1>2. Legal(s, e)
  BY DEF Legal, CanStart
<1>3. StartEvents(t, r) = <<e, f>>
  BY DEF StartEvents
<1> HIDE DEF e, f
<1>4. Replayed(s, StartEvents(t, r)) = n
  <2>1. Replayed(s, StartEvents(t, r)) = Apply(Apply(s, e), f)
    BY <1>3, ReplayTwo
  <2>2. Apply(s, e) = k
    BY <1>1 DEF Apply
  <2>3. Apply(k, f) = n
    BY <1>1 DEF Apply
  <2> QED
    BY <2>1, <2>2, <2>3
<1>5. WellFormed(k) /\ Running(k) = {r} /\ k.runTask[r] = t /\ IsPending(k, t)
  BY <1>1, <1>2, RunStartKeeps DEF Sound
<1>6. s \in Snapshot
  BY DEF Sound, WellFormed
<1>7. /\ k.state = s.state /\ k.sub = s.sub /\ k.run = s.run
      /\ k.runState = [s.runState EXCEPT ![r] = "running"]
      /\ k.runTask = [s.runTask EXCEPT ![r] = t]
  BY <1>1, <1>6 DEF RunStart, Snapshot
<1>8. k \in Snapshot
  BY <1>5 DEF WellFormed
<1> HIDE DEF k
<1>9. Legal(k, f)
  BY <1>1, <1>5 DEF Legal, IsRunning, Running
<1>10. WellFormed(n) /\ Running(n) = {r} /\ Whole(n)
  BY <1>1, <1>5, <1>9, ClaimKeeps
<1>11. /\ n.sub = k.sub /\ n.runState = k.runState /\ n.runTask = k.runTask
       /\ n.state = [k.state EXCEPT ![t] = "claimed"] /\ n.run = [k.run EXCEPT ![t] = r]
  BY <1>1, <1>8 DEF Claim, Snapshot
<1> HIDE DEF n
<1>12. /\ s.state \in [Tasks -> TaskState] /\ s.run \in [Tasks -> Runs \cup {None}]
       /\ s.runState \in [Runs -> RunState] /\ s.runTask \in [Runs -> Tasks \cup {None}]
  BY <1>6 DEF Snapshot
<1>13. \A u \in Tasks : n.state[u] = IF u = t THEN "claimed" ELSE s.state[u]
  BY <1>7, <1>11, <1>12
<1>14. \A q \in Runs : /\ n.runState[q] = IF q = r THEN "running" ELSE s.runState[q]
                       /\ n.runTask[q] = IF q = r THEN t ELSE s.runTask[q]
  BY <1>7, <1>11, <1>12
<1>15. Claimed(n) = {t} /\ n.run[t] = r
  BY <1>7, <1>11, <1>12, <1>13 DEF Over, Claimed
<1>16. s.state[t] = "pending" /\ s.runState[r] = "none"
  BY DEF CanStart, IsPending
<1>17. Named(n)
  <2>1. /\ \A u \in Tasks : n.state[u] # "none" => n.sub[u] \in Submissions
        /\ \A u, v \in Tasks : n.sub[u] = n.sub[v] /\ n.sub[u] # None => u = v
    BY <1>7, <1>11, <1>13, <1>16 DEF Sound, Named
  <2>2. \A q \in Runs : n.runState[q] # "none" =>
          n.runTask[q] \in Tasks /\ n.state[n.runTask[q]] \notin {"none", "pending"}
    BY <1>13, <1>14, <1>16 DEF Sound, Named
  <2>3. \A q \in Runs \ {r} : n.runState[q] # "none" => n.runTask[q] # t
    BY <1>14, <1>16 DEF Sound, Named
  <2>4. \A q, p \in Runs :
          n.runState[q] # "none" /\ n.runState[p] # "none" /\ n.runTask[q] = n.runTask[p] => q = p
    BY <1>14, <2>3 DEF Sound, Named
  <2> QED
    BY <2>1, <2>2, <2>4 DEF Named
<1> QED
  BY <1>4, <1>7, <1>10, <1>11, <1>15, <1>17 DEF Sound

\* claimSupplement: the run claims what was steered at it.
LEMMA SupplementIs ==
  ASSUME NEW s, Sound(s), NEW r \in Runs, CanSupplement(s, r), Running(s) = {r},
         \A t \in Claimed(s) : s.run[t] = r
  PROVE  LET b == CHOOSE b \in SupplementBatches(s, r) : TRUE
             n == Replayed(s, b)
         IN  /\ b # <<>> /\ Sound(n) /\ n.sub = s.sub /\ Running(n) = {r}
             /\ n.runState = s.runState /\ \A t \in Claimed(n) : n.run[t] = r
<1> DEFINE b == CHOOSE b \in SupplementBatches(s, r) : TRUE
           n == Replayed(s, b)
<1>1. WellFormed(s) /\ Whole(s) /\ Named(s)
  BY DEF Sound
<1>2. b \in SupplementBatches(s, r)
  BY <1>1, SupplementExists
<1> HIDE DEF b
<1>3. b \in Seq(Event) /\ Claims(s, b) /\ b # <<>>
  BY <1>1, <1>2, SupplementClaims
<1>4. \A i \in 1..Len(b) : b[i].run = r
  <2> SUFFICES ASSUME NEW i \in 1..Len(b) PROVE b[i].run = r
    OBVIOUS
  <2>1. b[i] \in Event /\ b[i].op = "claim" /\ IsRunning(s, b[i].run)
    BY <1>3 DEF Claims
  <2> QED
    BY <2>1 DEF Event, Running, IsRunning
<1>5. /\ WellFormed(n) /\ Whole(n) /\ n.runState = s.runState /\ n.runTask = s.runTask
      /\ n.sub = s.sub
      /\ \A t \in Tasks : \/ n.state[t] = s.state[t] /\ n.run[t] = s.run[t]
                          \/ /\ s.state[t] = "pending" /\ n.state[t] = "claimed"
                             /\ \E i \in 1..Len(b) : n.run[t] = b[i].run
  BY <1>1, <1>3, ReplayClaims
<1> HIDE DEF n
<1>6. Named(n)
  BY <1>1, <1>5, NamedStays
<1>7. Running(n) = {r} /\ \A t \in Claimed(n) : n.run[t] = r
  BY <1>4, <1>5 DEF Running, Claimed
<1> QED
  BY <1>3, <1>5, <1>6, <1>7 DEF Sound, n, b

\* startOperation: the task is claimed and no run is.
LEMMA OperationStartIs ==
  ASSUME NEW s, Sound(s), Over(s), NEW t \in Tasks, CanStartOperation(s, t)
  PROVE  LET n == Replayed(s, StartOperationEvents(t))
         IN  /\ Sound(n) /\ n.sub = s.sub /\ n.runState = s.runState
             /\ Running(n) = {} /\ Claimed(n) = {t} /\ n.run[t] = None
<1> DEFINE e == [op |-> "operation-start", task |-> t]
           n == Apply(s, e)
<1>1. WellFormed(s) /\ Whole(s) /\ Named(s) /\ s \in Snapshot
  BY DEF Sound, WellFormed
<1>2. s.target[t] = None /\ IsPending(s, t) /\ s.run[t] = None
  BY <1>1 DEF CanStartOperation, Over, WellFormed, OwnershipOK, IsPending
<1>3. e \in Event /\ Legal(s, e) /\ e.op = "operation-start" /\ e.task = t
  BY <1>2 DEF Event, Legal, CanStartOperation
<1>4. StartOperationEvents(t) = <<e>>
  BY DEF StartOperationEvents
<1> HIDE DEF e
<1>5. Replayed(s, StartOperationEvents(t)) = n
  BY <1>4, ReplayOne
<1>6. WellFormed(n) /\ Whole(n)
  BY <1>1, <1>3, ApplyKeepsWellFormed
<1>7. /\ n.sub = s.sub /\ n.run = s.run /\ n.runState = s.runState /\ n.runTask = s.runTask
      /\ n.state = [s.state EXCEPT ![t] = "claimed"]
  BY <1>1, <1>3 DEF Apply, OperationStart, Snapshot
<1> HIDE DEF n
<1>8. \A u \in Tasks : n.state[u] = IF u = t THEN "claimed" ELSE s.state[u]
  BY <1>1, <1>7 DEF Snapshot
<1>9. Named(n)
  BY <1>1, <1>2, <1>7, <1>8, NamedStays DEF IsPending
<1>10. Running(n) = {} /\ Claimed(n) = {t}
  BY <1>7, <1>8 DEF Over, Running, Claimed
<1> QED
  BY <1>2, <1>5, <1>6, <1>7, <1>9, <1>10 DEF Sound

\* finishOperation: nothing is claimed any more.
LEMMA OperationFinishIs ==
  ASSUME NEW s, Sound(s), NEW t \in Tasks, NEW o \in Outcomes,
         Running(s) = {}, Claimed(s) = {t}, s.run[t] = None
  PROVE  LET n == Replayed(s, FinishOperationEvents(t, o))
         IN  Sound(n) /\ n.sub = s.sub /\ n.runState = s.runState /\ Over(n)
<1> DEFINE e == [op |-> "operation-finish", task |-> t, outcome |-> o]
           n == Apply(s, e)
<1>1. WellFormed(s) /\ Whole(s) /\ Named(s) /\ s \in Snapshot
  BY DEF Sound, WellFormed
<1>2. s.state[t] = "claimed"
  BY DEF Claimed
<1>3. e \in Event /\ Legal(s, e) /\ e.op = "operation-finish" /\ e.task = t /\ e.outcome = o
  BY <1>2 DEF Event, Legal
<1>4. FinishOperationEvents(t, o) = <<e>>
  BY DEF FinishOperationEvents
<1> HIDE DEF e
<1>5. Replayed(s, FinishOperationEvents(t, o)) = n
  BY <1>4, ReplayOne
<1>6. WellFormed(n) /\ Whole(n)
  BY <1>1, <1>3, ApplyKeepsWellFormed
<1>7. /\ n.sub = s.sub /\ n.run = s.run /\ n.runState = s.runState /\ n.runTask = s.runTask
      /\ n.state = [s.state EXCEPT ![t] = o]
  BY <1>1, <1>3 DEF Apply, OperationFinish, Snapshot
<1> HIDE DEF n
<1>8. \A u \in Tasks : n.state[u] = IF u = t THEN o ELSE s.state[u]
  BY <1>1, <1>7 DEF Snapshot
<1>9. Named(n)
  <2>1. \A u \in Tasks : \/ n.state[u] = s.state[u]
                         \/ s.state[u] \notin {"none"} /\ n.state[u] \notin {"none", "pending"}
    BY <1>2, <1>8 DEF Outcomes
  <2> QED
    BY <1>1, <1>7, <2>1, NamedStays
<1>10. Running(n) = {} /\ Claimed(n) = {}
  BY <1>7, <1>8 DEF Running, Claimed, Outcomes
<1> QED
  BY <1>5, <1>6, <1>7, <1>9, <1>10 DEF Sound, Over

\* finish: the run and all it claimed end together.
LEMMA FinishIs ==
  ASSUME NEW s, Sound(s), NEW r \in Runs, NEW o \in Outcomes, Running(s) = {r},
         \A t \in Claimed(s) : s.run[t] = r
  PROVE  LET n == Replayed(s, FinishEvents(s, r, o))
         IN  /\ FinishEvents(s, r, o) # <<>>
             /\ Sound(n) /\ n.sub = s.sub /\ Over(n)
<1> DEFINE ids == Steering(s, r)
           e == [op |-> "return-steering", run |-> r, ids |-> ids]
           f == [op |-> "finish", run |-> r, outcome |-> o]
<1>1. f \in Event /\ f.op = "finish" /\ f.run = r /\ f.outcome = o
  BY DEF Event
<1>2. ids \in SUBSET Tasks
  BY QueueElems DEF Sound, Steering, WellFormed, Pending
<1>3. ASSUME NEW k, Sound(k), SameWork(s, k), k.sub = s.sub
      PROVE  LET n == Apply(k, f)
             IN  Sound(n) /\ n.sub = s.sub /\ Over(n)
  <2> DEFINE n == Apply(k, f)
  <2>1. WellFormed(k) /\ Whole(k) /\ Named(k) /\ k \in Snapshot
    BY <1>3 DEF Sound, WellFormed
  <2>2. Running(k) = {r} /\ (\A t \in Claimed(k) : k.run[t] = r) /\ Legal(k, f)
    BY <1>1, <1>3 DEF SameWork, Legal, IsRunning, Running
  <2>3. WellFormed(n) /\ Whole(n)
    BY <1>1, <2>1, <2>2, ApplyKeepsWellFormed
  <2>4. /\ n.sub = k.sub /\ n.run = k.run /\ n.runTask = k.runTask
        /\ n.runState = [k.runState EXCEPT ![r] = o]
        /\ n.state = [t \in Tasks |-> IF k.run[t] = r /\ k.state[t] = "claimed"
                                        THEN o ELSE k.state[t]]
    BY <1>1, <2>1 DEF Apply, RunFinish, Snapshot
  <2> HIDE DEF n
  <2>5. \A t \in Tasks : n.state[t] = IF t \in Claimed(k) THEN o ELSE k.state[t]
    BY <2>2, <2>4 DEF Claimed
  <2>6. \A q \in Runs : n.runState[q] = IF q = r THEN o ELSE k.runState[q]
    BY <2>1, <2>4 DEF Snapshot
  <2>7. Over(n)
    BY <2>2, <2>5, <2>6 DEF Over, Running, Claimed, Outcomes
  <2>8. Named(n)
    <3>1. \A q \in Runs : n.runState[q] # "none" => k.runState[q] # "none"
      BY <2>2, <2>6 DEF Running
    <3>2. \A t \in Tasks : \/ n.state[t] = k.state[t]
                           \/ k.state[t] \notin {"none"} /\ n.state[t] \notin {"none", "pending"}
      BY <2>5 DEF Claimed, Outcomes
    <3> QED
      BY <2>1, <2>4, <3>1, <3>2, NamedStays
  <2> QED
    BY <1>3, <2>3, <2>4, <2>7, <2>8 DEF Sound, n
<1>4. CASE ids = {}
  <2>1. FinishEvents(s, r, o) = <<f>>
    BY <1>4 DEF FinishEvents, ReturnEvents
  <2> HIDE DEF f
  <2>2. Replayed(s, FinishEvents(s, r, o)) = Apply(s, f)
    BY <2>1, ReplayOne
  <2>3. SameWork(s, s)
    BY DEF SameWork
  <2> QED
    BY <1>3, <2>1, <2>2, <2>3
<1>5. CASE ids # {}
  <2>1. FinishEvents(s, r, o) = <<e, f>>
    BY <1>5, Concatenations DEF FinishEvents, ReturnEvents
  <2>2. e \in Event /\ Legal(s, e)
    BY <1>2, <1>5, SteeringReturns DEF Sound
  <2>3. e.op \in QuietOps /\ e.op # "accept"
    BY DEF QuietOps
  <2> HIDE DEF e, f
  <2>4. Replayed(s, FinishEvents(s, r, o)) = Apply(Apply(s, e), f)
    BY <2>1, ReplayTwo
  <2>5. Sound(Apply(s, e)) /\ SameWork(s, Apply(s, e)) /\ Apply(s, e).sub = s.sub
    BY <2>2, <2>3, QuietEvent
  <2> QED
    BY <1>3, <2>1, <2>4, <2>5
<1> QED
  BY <1>4, <1>5

-----------------------------------------------------------------------------
(***************************************************************************)
(* The lane.                                                               *)
(***************************************************************************)
Edits == {"designate", "cancel", "move", "resume"}

\* The fields of a call in the lane, by kind.
LEMMA CallFields ==
  ASSUME NEW c \in Call
  PROVE  /\ c.kind \in {"submit", "stop", "exec"} \cup Edits
         /\ c.kind = "submit" => c.sub \in Submissions /\ c.idle \in BOOLEAN
         /\ "fresh" \in DOMAIN c <=> c.kind \in Edits
         /\ c.kind \in Edits => [c EXCEPT !.fresh = FALSE] \in Call
                                /\ [c EXCEPT !.fresh = FALSE].kind = c.kind
<1>1. CASE c \in [kind : {"submit"}, sub : Submissions, idle : BOOLEAN]
  BY <1>1 DEF Edits
<1>2. CASE c \in [kind : {"designate"}, task : Tasks, run : Runs \cup {None}, fresh : BOOLEAN]
  BY <1>2 DEF Edits, Call
<1>3. CASE c \in [kind : {"cancel"}, task : Tasks, fresh : BOOLEAN]
  BY <1>3 DEF Edits, Call
<1>4. CASE c \in [kind : {"move"}, task : Tasks, before : Tasks, fresh : BOOLEAN]
  BY <1>4 DEF Edits, Call
<1>5. CASE c \in [kind : {"resume"}, fresh : BOOLEAN]
  BY <1>5 DEF Edits, Call
<1>6. CASE c \in [kind : {"stop", "exec"}]
  BY <1>6 DEF Edits
<1> QED
  BY <1>1, <1>2, <1>3, <1>4, <1>5, <1>6 DEF Call

\* A commit changes nothing but the freshness of waiting edits.
LEMMA OutdatedIs ==
  ASSUME NEW l \in Seq(Call)
  PROVE  LET o == Outdated(l)
         IN  /\ o \in Seq(Call) /\ DOMAIN o = DOMAIN l
             /\ \A i \in DOMAIN l : o[i].kind = l[i].kind
             /\ \A i \in DOMAIN l : l[i].kind = "submit" => o[i] = l[i]
<1> DEFINE o == Outdated(l)
<1>1. DOMAIN l = 1..Len(l) /\ Len(l) \in Nat /\ \A i \in DOMAIN l : l[i] \in Call
  OBVIOUS
<1>2. DOMAIN o = DOMAIN l
  BY DEF Outdated
<1>3. ASSUME NEW i \in DOMAIN l
      PROVE  /\ o[i] \in Call /\ o[i].kind = l[i].kind
             /\ l[i].kind = "submit" => o[i] = l[i]
  <2>1. o[i] = IF "fresh" \in DOMAIN l[i] THEN [l[i] EXCEPT !.fresh = FALSE] ELSE l[i]
    BY DEF Outdated
  <2>2. l[i] \in Call
    BY <1>1
  <2> QED
    BY <2>1, <2>2, CallFields DEF Edits
<1>4. o \in Seq(Call)
  <2>1. o \in [1..Len(l) -> Call]
    BY <1>1, <1>3 DEF Outdated
  <2> HIDE DEF o
  <2> QED
    BY <1>1, <2>1, SeqDef
<1> HIDE DEF o
<1> QED
  BY <1>2, <1>3, <1>4 DEF o

\* What does not depend on the execution.
Base(x) == x \in Manager /\ Sound(x.snap) /\ Fresh(x)

OneExec(x) ==
  \A i, j \in DOMAIN x.lane : x.lane[i].kind = "exec" /\ x.lane[j].kind = "exec" => i = j

\* The first call has been taken out of the lane.
LEMMA ServedIs ==
  ASSUME NEW x, Base(x), OneExec(x), x.lane # <<>>
  PROVE  LET y == Served(x)
             c == Head(x.lane)
         IN  /\ c \in Call /\ Base(y) /\ OneExec(y) /\ y = [x EXCEPT !.lane = y.lane]
             /\ c.kind = "exec" => Has(x, {"exec"}) /\ ~Has(y, {"exec"})
             /\ c.kind # "exec" => (Has(y, {"exec"}) <=> Has(x, {"exec"}))
             /\ c.kind = "submit" =>
                  /\ ~IsRepeated(x.snap, c.sub)
                  /\ \A i \in DOMAIN y.lane : y.lane[i].kind = "submit" => y.lane[i].sub # c.sub
<1> DEFINE y == Served(x)
           l == x.lane
           k == Tail(l)
<1>1. l \in Seq(Call) /\ x \in Manager /\ Sound(x.snap)
  BY DEF Base, Manager
<1>2. /\ Head(l) = l[1] /\ l[1] \in Call /\ k \in Seq(Call) /\ Len(l) \in Nat /\ Len(l) # 0
      /\ Len(k) = Len(l) - 1 /\ DOMAIN l = 1..Len(l) /\ DOMAIN k = 1..(Len(l) - 1)
      /\ \A i \in 1..(Len(l) - 1) : k[i] = l[i + 1]
  BY <1>1
<1>3. y = [x EXCEPT !.lane = k] /\ y.lane = k /\ y \in Manager /\ y.snap = x.snap
  BY <1>1, <1>2 DEF Served, Manager
<1> HIDE DEF k, l, y
<1>4. \A i \in DOMAIN k : i + 1 \in DOMAIN l /\ i + 1 # 1 /\ k[i] = l[i + 1]
  BY <1>2
<1>5. \A j \in DOMAIN l : j = 1 \/ (j - 1 \in DOMAIN k /\ k[j - 1] = l[j])
  BY <1>2
<1>6. 1 \in DOMAIN l /\ DOMAIN k \subseteq Nat
  BY <1>2
<1>7. \A i, j \in DOMAIN k : i + 1 = j + 1 => i = j
  BY <1>6
<1>8. \A i \in DOMAIN l : l[i].kind = "submit" =>
        /\ ~IsRepeated(x.snap, l[i].sub)
        /\ \A j \in DOMAIN l : l[j].kind = "submit" /\ l[j].sub = l[i].sub => i = j
  BY DEF Base, Fresh, l
<1>9. Fresh(y)
  BY <1>3, <1>4, <1>7, <1>8 DEF Fresh
<1>10. \A i, j \in DOMAIN l : l[i].kind = "exec" /\ l[j].kind = "exec" => i = j
  BY DEF OneExec, l
<1>11. OneExec(y)
  BY <1>3, <1>4, <1>7, <1>10 DEF OneExec
<1>12. l[1].kind = "exec" => Has(x, {"exec"}) /\ ~Has(y, {"exec"})
  BY <1>3, <1>4, <1>6, <1>10 DEF Has, l
<1>13. l[1].kind # "exec" => (Has(y, {"exec"}) <=> Has(x, {"exec"}))
  BY <1>3, <1>4, <1>5, <1>6 DEF Has, l
<1>14. l[1].kind = "submit" =>
         /\ ~IsRepeated(x.snap, l[1].sub)
         /\ \A i \in DOMAIN k : k[i].kind = "submit" => k[i].sub # l[1].sub
  BY <1>4, <1>6, <1>8
<1> QED
  BY <1>1, <1>2, <1>3, <1>9, <1>11, <1>12, <1>13, <1>14 DEF Base, l, y

\* A batch has been published.
Published(x, n) == [x EXCEPT !.snap = n, !.lane = Outdated(@)]

\* publish() replaces the snapshot, outdates the edits that wait and
\* leaves the rest of the manager alone.
LEMMA PublishedIs ==
  ASSUME NEW x, Base(x), OneExec(x), NEW n, Sound(n),
         \A i \in DOMAIN x.lane : x.lane[i].kind = "submit" => ~IsRepeated(n, x.lane[i].sub)
  PROVE  LET y == Published(x, n)
         IN  /\ Base(y) /\ OneExec(y) /\ (Has(y, {"exec"}) <=> Has(x, {"exec"}))
             /\ y.snap = n /\ y.active = x.active /\ y.blocked = x.blocked
             /\ y.failed = x.failed
             /\ y.maintenance = x.maintenance
<1> DEFINE y == Published(x, n)
           l == x.lane
           o == Outdated(l)
<1>1. l \in Seq(Call) /\ x \in Manager /\ n \in Snapshot
  BY DEF Base, Manager, Sound, WellFormed
<1>2. /\ o \in Seq(Call) /\ DOMAIN o = DOMAIN l
      /\ \A i \in DOMAIN l : o[i].kind = l[i].kind
      /\ \A i \in DOMAIN l : l[i].kind = "submit" => o[i] = l[i]
  BY <1>1, OutdatedIs
<1> HIDE DEF o
<1>3. /\ y.lane = o /\ y.snap = n /\ y \in Manager /\ y.active = x.active
      /\ y.blocked = x.blocked /\ y.failed = x.failed /\ y.maintenance = x.maintenance
  BY <1>1, <1>2 DEF Published, Manager, o
<1> HIDE DEF y
<1>4. Fresh(y)
  BY <1>2, <1>3 DEF Base, Fresh
<1>5. OneExec(y) /\ (Has(y, {"exec"}) <=> Has(x, {"exec"}))
  BY <1>2, <1>3 DEF OneExec, Has
<1> QED
  BY <1>3, <1>4, <1>5 DEF Base, y

\* Batches that accept no submission.
LEMMA PublishedKeeps ==
  ASSUME NEW x, Base(x), OneExec(x), NEW n, Sound(n), n.sub = x.snap.sub
  PROVE  LET y == Published(x, n)
         IN  /\ Base(y) /\ OneExec(y) /\ (Has(y, {"exec"}) <=> Has(x, {"exec"}))
             /\ y.snap = n /\ y.active = x.active /\ y.blocked = x.blocked
             /\ y.failed = x.failed
             /\ y.maintenance = x.maintenance
<1>1. \A i \in DOMAIN x.lane : x.lane[i].kind = "submit" => ~IsRepeated(n, x.lane[i].sub)
  BY DEF Base, Fresh, IsRepeated
<1> QED
  BY <1>1, PublishedIs

\* A call has been appended.
LEMMA EnqueuedIs ==
  ASSUME NEW x, Base(x), OneExec(x), NEW c \in Call,
         c.kind = "exec" => ~Has(x, {"exec"}),
         c.kind = "submit" => c.sub \in Unused(x)
  PROVE  LET y == Enqueue(x, c)
         IN  /\ Base(y) /\ OneExec(y)
             /\ Has(y, {"exec"}) <=> (Has(x, {"exec"}) \/ c.kind = "exec")
             /\ y.snap = x.snap /\ y.active = x.active /\ y.blocked = x.blocked
             /\ y.failed = x.failed
             /\ y.maintenance = x.maintenance
<1> DEFINE y == Enqueue(x, c)
           l == x.lane
           k == Append(l, c)
<1>1. l \in Seq(Call) /\ x \in Manager /\ Sound(x.snap)
  BY DEF Base, Manager
<1>2. /\ k \in Seq(Call) /\ Len(l) \in Nat /\ DOMAIN l = 1..Len(l) /\ DOMAIN k = 1..(Len(l) + 1)
      /\ k[Len(l) + 1] = c /\ \A i \in 1..Len(l) : k[i] = l[i]
  BY <1>1
<1>3. /\ y.lane = k /\ y.snap = x.snap /\ y \in Manager /\ y.active = x.active
      /\ y.blocked = x.blocked /\ y.failed = x.failed /\ y.maintenance = x.maintenance
  BY <1>1, <1>2 DEF Enqueue, Manager
<1> HIDE DEF k, l, y
<1> DEFINE z == Len(l) + 1
<1>4. DOMAIN k = DOMAIN l \cup {z} /\ z \notin DOMAIN l /\ k[z] = c /\ \A i \in DOMAIN l : k[i] = l[i]
  BY <1>2
<1> HIDE DEF z
<1>5. c.kind = "submit" =>
        /\ ~IsRepeated(x.snap, c.sub)
        /\ \A i \in DOMAIN l : l[i].kind = "submit" => l[i].sub # c.sub
  BY DEF Unused, l
<1>6. Fresh(y)
  BY <1>3, <1>4, <1>5 DEF Base, Fresh, l
<1>7. OneExec(y)
  BY <1>3, <1>4 DEF OneExec, Has, l
<1>8. Has(y, {"exec"}) <=> (Has(x, {"exec"}) \/ c.kind = "exec")
  BY <1>3, <1>4 DEF Has, l
<1> QED
  BY <1>1, <1>3, <1>6, <1>7, <1>8 DEF Base, y

-----------------------------------------------------------------------------
(***************************************************************************)
(* The synchronous methods.                                                *)
(***************************************************************************)
\* The slot is not waiting in the lane, no exclusive work holds it, and the
\* manager has not failed.
Free(x) == Base(x) /\ OneExec(x) /\ ~Has(x, {"exec"}) /\ ~x.maintenance /\ ~x.failed

\* The invariant, taken apart into what a change of the snapshot and what
\* a change of the slot concerns.
LEMMA InvIs ==
  ASSUME NEW x
  PROVE  Inv(x) <=> /\ Base(x) /\ OneExec(x)
                    /\ Has(x, {"exec"}) <=> x.active # None /\ x.active.pc \in LanePcs
                    /\ x.maintenance => x.active = None /\ ~x.failed
                    /\ x.failed => x.active = None
                    /\ x.active # None => Phase(x.active)
                    /\ ~x.blocked /\ ~x.failed => Work(x.snap, x.active)
BY DEF Inv, Base, OneExec, InLane

\* The slot is taken, or the execution moves on, without a call.
LEMMA MovedOn ==
  ASSUME NEW x, Free(x), NEW b \in Active, b.pc \notin LanePcs, Phase(b),
         ~x.blocked => Work(x.snap, b)
  PROVE  Inv([x EXCEPT !.active = b])
<1> DEFINE y == [x EXCEPT !.active = b]
<1>1. /\ y \in Manager /\ y.snap = x.snap /\ y.lane = x.lane /\ y.active = b
      /\ y.maintenance = x.maintenance /\ y.blocked = x.blocked /\ y.failed = x.failed
  BY DEF Free, Base, Manager
<1> HIDE DEF y
<1>2. Base(y) /\ OneExec(y) /\ ~Has(y, {"exec"})
  BY <1>1 DEF Free, Base, OneExec, Has, Fresh
<1>3. Inv(y)
  BY <1>1, <1>2, InvIs DEF Free
<1> QED
  BY <1>3 DEF y

\* It asks the ledger.
LEMMA Asked ==
  ASSUME NEW x, Free(x), NEW b \in Active, b.pc \in LanePcs, Phase(b),
         ~x.blocked => Work(x.snap, b)
  PROVE  Inv(Enqueue([x EXCEPT !.active = b], [kind |-> "exec"]))
<1> DEFINE y == [x EXCEPT !.active = b]
           c == [kind |-> "exec"]
           z == Enqueue(y, c)
<1>1. /\ y \in Manager /\ y.snap = x.snap /\ y.lane = x.lane /\ y.active = b
      /\ y.maintenance = x.maintenance /\ y.blocked = x.blocked /\ y.failed = x.failed
  BY DEF Free, Base, Manager
<1>2. c \in Call /\ c.kind = "exec"
  BY DEF Call
<1> HIDE DEF y, c
<1>3. Base(y) /\ OneExec(y) /\ ~Has(y, {"exec"})
  BY <1>1 DEF Free, Base, OneExec, Has, Fresh
<1>4. /\ Base(z) /\ OneExec(z) /\ Has(z, {"exec"})
      /\ z.snap = x.snap /\ z.active = b /\ z.maintenance = x.maintenance /\ z.blocked = x.blocked
      /\ z.failed = x.failed
  BY <1>1, <1>2, <1>3, EnqueuedIs
<1> HIDE DEF z
<1>5. Inv(z)
  BY <1>1, <1>4, InvIs, NoneIsNoActive DEF Free
<1> QED
  BY <1>5 DEF z, y, c

\* wake() only adds a submission.
LEMMA WakeKeeps ==
  ASSUME NEW x, Inv(x)
  PROVE  Inv(Wake(x)) /\ Wake(x).snap = x.snap /\ Wake(x).blocked = x.blocked
<1>1. CASE Wake(x) = x
  BY <1>1
<1>2. CASE Wake(x) # x
  <2> DEFINE w == CHOOSE w \in Unused(x) \cap Wakes : TRUE
             y == [x EXCEPT !.waking = TRUE]
             c == [kind |-> "submit", sub |-> w, idle |-> FALSE]
             z == Enqueue(y, c)
  <2>1. Wake(x) = z /\ Unused(x) \cap Wakes # {}
    BY <1>2 DEF Wake
  <2>2. w \in Unused(x)
    BY <2>1
  <2> HIDE DEF w
  <2>3. c \in Call /\ c.kind = "submit" /\ c.sub = w
    BY <2>2 DEF Call, Unused
  <2> HIDE DEF c
  <2>4. /\ y \in Manager /\ y.snap = x.snap /\ y.lane = x.lane /\ y.active = x.active
        /\ y.maintenance = x.maintenance /\ y.blocked = x.blocked /\ y.failed = x.failed
    BY DEF Inv, Manager
  <2> HIDE DEF y
  <2>5. Base(y) /\ OneExec(y) /\ (Has(y, {"exec"}) <=> Has(x, {"exec"})) /\ w \in Unused(y)
    BY <2>2, <2>4 DEF Inv, InLane, Base, OneExec, Has, Fresh, Unused
  <2>6. /\ Base(z) /\ OneExec(z) /\ (Has(z, {"exec"}) <=> Has(x, {"exec"}))
        /\ z.snap = x.snap /\ z.active = x.active /\ z.maintenance = x.maintenance
        /\ z.blocked = x.blocked /\ z.failed = x.failed
    BY <2>3, <2>4, <2>5, EnqueuedIs
  <2> HIDE DEF z
  <2>7. Inv(z)
    BY <2>6, InvIs
  <2> QED
    BY <2>1, <2>6, <2>7
<1> QED
  BY <1>1, <1>2

\* The reservation of the slot for a task or an operation has started
\* nothing.
LEMMA ReservedIs ==
  ASSUME NEW t \in Tasks, NEW r \in Runs, NEW pc \in {"operation", "config"}
  PROVE  LET b == Reserved(t, r, pc)
         IN  b \in Active /\ Phase(b) /\ b.pc = pc /\ b.run = r /\ ~b.started
BY DEF Reserved, Active, Outcomes, Phase

\* kick() reserves the slot for a queued task and an unused run identifier.
LEMMA KickKeeps ==
  ASSUME NEW x, Inv(x)
  PROVE  Inv(Kick(x))
<1>1. CASE Kick(x) = x
  BY <1>1
<1>2. CASE Kick(x) # x
  <2> DEFINE t == CHOOSE c \in Candidates(x) : TRUE
             r == NewRun(x)
  <2>1. MayStart(x) /\ Candidates(x) # {}
    BY <1>2 DEF Kick
  <2>2. t \in Candidates(x)
    BY <2>1
  <2>3. Kick(x) = IF IsOperation(x.snap, t)
                    THEN Enqueue([x EXCEPT !.active = Reserved(t, r, "operation")], [kind |-> "exec"])
                    ELSE [x EXCEPT !.active = Reserved(t, r, "config")]
    BY <1>2 DEF Kick
  <2> HIDE DEF t
  <2>4. Sound(x.snap) /\ t \in Tasks /\ IsPending(x.snap, t)
    BY <2>2, QueueElems DEF Inv, Candidates, IsFirst, Sound, WellFormed, Pending
  <2>5. r \in Runs /\ x.snap.runState[r] = "none"
    BY <2>4, RunLeft DEF NewRun
  <2> HIDE DEF r
  <2>6. Free(x) /\ (~x.blocked => Over(x.snap))
    BY <2>1, InvIs DEF MayStart, Free, Work
  <2>7. ASSUME NEW pc \in {"operation", "config"}
        PROVE  LET b == Reserved(t, r, pc)
               IN  /\ b \in Active /\ Phase(b) /\ b.pc = pc
                   /\ ~x.blocked => Work(x.snap, b)
    <3> DEFINE b == Reserved(t, r, pc)
    <3>1. b \in Active /\ Phase(b) /\ b.pc = pc /\ b.run = r /\ ~b.started
      BY <2>4, <2>5, ReservedIs
    <3> HIDE DEF b
    <3>2. ~x.blocked => Work(x.snap, b)
      BY <2>5, <2>6, <3>1, NoneIsNoActive DEF Work, Held, Unstarted, Operating
    <3> QED
      BY <3>1, <3>2 DEF b
  <2>8. Inv(Enqueue([x EXCEPT !.active = Reserved(t, r, "operation")], [kind |-> "exec"]))
    BY <2>6, <2>7, Asked DEF LanePcs
  <2>9. Inv([x EXCEPT !.active = Reserved(t, r, "config")])
    BY <2>6, <2>7, MovedOn DEF LanePcs
  <2> QED
    BY <2>3, <2>8, <2>9
<1> QED
  BY <1>1, <1>2

\* wake() and then kick() keep the invariant.
LEMMA WakeKickKeeps ==
  ASSUME NEW x, Inv(x)
  PROVE  Inv(WakeKick(x))
BY WakeKeeps, KickKeeps DEF WakeKick

\* The end of an execution frees the slot.
LEMMA SettleKeeps ==
  ASSUME NEW x, Free(x), x.active # None, NEW failure \in BOOLEAN,
         ~x.blocked => Over(x.snap) \/ failure
  PROVE  Inv(Settle(x, failure))
<1> DEFINE a == x.active
           held == x.suspended \/ (x.snap.sub[a.task] \in Wakes /\ x.snap.runState[a.run] # "completed")
           y == [x EXCEPT !.active = None, !.failed = @ \/ failure, !.suspended = held]
<1>1. Settle(x, failure) = WakeKick(y)
  BY DEF Settle
<1>2. held \in BOOLEAN
  BY DEF Free, Base, Manager
<1> HIDE DEF held
<1>3. /\ y \in Manager /\ y.snap = x.snap /\ y.lane = x.lane /\ y.active = None
      /\ y.maintenance = x.maintenance /\ y.blocked = x.blocked /\ y.failed = failure
  BY <1>2 DEF Free, Base, Manager
<1> HIDE DEF y
<1>4. Base(y) /\ OneExec(y) /\ ~Has(y, {"exec"})
  BY <1>3 DEF Free, Base, OneExec, Has, Fresh
<1>5. Inv(y)
  BY <1>3, <1>4, InvIs DEF Free, Work
<1> QED
  BY <1>1, <1>5, WakeKickKeeps

\* An execution that is over gives its lease back or settles.
LEMMA EndingKeeps ==
  ASSUME NEW x, Free(x), NEW a \in Active,
         ~x.blocked => (Over(x.snap) \/ Doomed(x.snap, a)) /\ Unstarted(x.snap, a)
  PROVE  Inv(Ending(x, a))
<1>1. CASE a.leased
  <2> DEFINE b == [a EXCEPT !.pc = "release"]
  <2>1. /\ b \in Active /\ b.pc = "release" /\ b.started = a.started /\ b.run = a.run
        /\ Doomed(x.snap, b) = Doomed(x.snap, a)
    BY DEF Active, Doomed, Held, Unstarted
  <2>2. Ending(x, a) = [x EXCEPT !.active = b]
    BY <1>1 DEF Ending
  <2> HIDE DEF b
  <2>3. Phase(b) /\ b.pc \notin LanePcs
    BY <2>1 DEF Phase, LanePcs
  <2>4. ~x.blocked => Work(x.snap, b)
    BY <2>1, NoneIsNoActive DEF Work, Operating, Unstarted
  <2> QED
    BY <2>1, <2>2, <2>3, <2>4, MovedOn
<1>2. CASE ~a.leased
  <2> DEFINE y == [x EXCEPT !.active = a]
             failure == a.errors /\ (a.fatal \/ ~a.started)
  <2>1. Ending(x, a) = Settle(y, failure) /\ failure \in BOOLEAN /\ (Doomed(x.snap, a) => failure)
    BY <1>2 DEF Ending, Active, Doomed
  <2>2. /\ y \in Manager /\ y.snap = x.snap /\ y.lane = x.lane /\ y.active = a
        /\ y.maintenance = x.maintenance /\ y.blocked = x.blocked /\ y.failed = x.failed
    BY DEF Free, Base, Manager
  <2> HIDE DEF y, failure
  <2>3. Free(y) /\ y.active # None
    BY <2>2, NoneIsNoActive DEF Free, Base, OneExec, Has, Fresh
  <2> QED
    BY <2>1, <2>2, <2>3, SettleKeeps
<1> QED
  BY <1>1, <1>2

\* The finally block: the ledger's part, and before it the instance's.
LEMMA SettlingKeeps ==
  ASSUME NEW x, Free(x), NEW a \in Active, ~x.blocked => Held(x.snap, a)
  PROVE  Inv(Settling(x, a))
<1>1. CASE a.started \/ (a.aborted /\ ~x.blocked)
  <2> DEFINE b == [a EXCEPT !.pc = "finish"]
  <2>1. b \in Active /\ b.pc = "finish" /\ b.started = a.started /\ b.run = a.run
    BY DEF Active
  <2>2. Settling(x, a) = Enqueue([x EXCEPT !.active = b], [kind |-> "exec"])
    BY <1>1 DEF Settling
  <2> HIDE DEF b
  <2>3. Phase(b) /\ b.pc \in LanePcs
    BY <2>1 DEF Phase, LanePcs
  <2>4. ~x.blocked => Work(x.snap, b)
    BY <2>1, NoneIsNoActive DEF Work, Operating, Unstarted, Held
  <2> QED
    BY <2>1, <2>2, <2>3, <2>4, Asked
<1>2. CASE ~(a.started \/ (a.aborted /\ ~x.blocked))
  <2>1. Settling(x, a) = Ending(x, a)
    BY <1>2 DEF Settling
  <2>2. ~x.blocked => Over(x.snap) /\ Unstarted(x.snap, a)
    BY <1>2 DEF Held
  <2> QED
    BY <2>1, <2>2, EndingKeeps
<1> QED
  BY <1>1, <1>2

\* The finally block of #execute keeps the invariant, whether it finishes
\* a run, frees the lease or settles.
LEMMA CleanupKeeps ==
  ASSUME NEW x, Free(x), NEW a \in Active, ~x.blocked => Held(x.snap, a)
  PROVE  Inv(Cleanup(x, a))
<1>1. CASE a.made
  <2> DEFINE b == [a EXCEPT !.pc = "abandon"]
  <2>1. b \in Active /\ b.pc = "abandon" /\ b.started = a.started /\ b.run = a.run
    BY DEF Active
  <2>2. Cleanup(x, a) = [x EXCEPT !.active = b]
    BY <1>1 DEF Cleanup
  <2> HIDE DEF b
  <2>3. Phase(b) /\ b.pc \notin LanePcs
    BY <2>1 DEF Phase, LanePcs
  <2>4. ~x.blocked => Work(x.snap, b)
    BY <2>1, NoneIsNoActive DEF Work, Operating, Unstarted, Held
  <2> QED
    BY <2>1, <2>2, <2>3, <2>4, MovedOn
<1>2. CASE ~a.made
  BY <1>2, SettlingKeeps DEF Cleanup
<1> QED
  BY <1>1, <1>2

-----------------------------------------------------------------------------
(***************************************************************************)
(* #execute and #executeOperation.                                         *)
(***************************************************************************)
\* Fields that no promise is about.
LEMMA SameCore ==
  ASSUME NEW x, Inv(x), NEW y \in Manager, y.snap = x.snap, y.lane = x.lane,
         y.active = x.active, y.maintenance = x.maintenance, y.blocked = x.blocked,
         y.failed = x.failed
  PROVE  Inv(y)
BY DEF Inv, InLane, Has, Fresh

\* An abort or a stop marks the execution and moves nothing.
LEMMA Marked ==
  ASSUME NEW x, Inv(x), x.active # None, NEW b \in Active, b.run = x.active.run,
         b.task = x.active.task, b.pc = x.active.pc, b.started = x.active.started,
         b.errors = x.active.errors, b.fatal = x.active.fatal
  PROVE  Inv([x EXCEPT !.active = b])
<1> DEFINE y == [x EXCEPT !.active = b]
<1>1. /\ y \in Manager /\ y.snap = x.snap /\ y.lane = x.lane /\ y.active = b
      /\ y.maintenance = x.maintenance /\ y.blocked = x.blocked /\ y.failed = x.failed
  BY DEF Inv, Manager
<1> HIDE DEF y
<1>2. Fresh(y) /\ InLane(y)
  BY <1>1, NoneIsNoActive DEF Inv, Fresh, InLane, Has
<1>3. Phase(b) /\ (~x.blocked => Work(x.snap, b))
  BY NoneIsNoActive DEF Inv, Phase, Work, Doomed, Unstarted, Operation, Held
<1>4. Inv(y)
  BY <1>1, <1>2, <1>3 DEF Inv
<1> QED
  BY <1>4 DEF y

\* An await that is not a call of the ledger.
LEMMA Elsewhere ==
  ASSUME NEW x, Inv(x), x.active # None, x.active.pc \notin LanePcs
  PROVE  /\ Free(x) /\ x.active \in Active /\ Phase(x.active)
         /\ ~x.blocked => Work(x.snap, x.active)
BY InvIs DEF Free, Base, Manager

\* An await during which the task waits or its run works.
LEMMA HeldIs ==
  ASSUME NEW s, NEW a, a # None, a.pc \notin Operating \cup {"release"}, Work(s, a)
  PROVE  Held(s, a)
BY DEF Work

\* The execution moves on, and the journal shows the same work.
LEMMA Continues ==
  ASSUME NEW x, Free(x), NEW a, ~x.blocked => Held(x.snap, a),
         NEW b \in Active, b.run = a.run, b.started = a.started
  PROVE  /\ Inv(Cleanup(x, b))
         /\ Inv(Settling(x, b))
         /\ b.pc \notin Operating \cup {"release"} /\ Phase(b) =>
              /\ b.pc \in LanePcs => Inv(Enqueue([x EXCEPT !.active = b], [kind |-> "exec"]))
              /\ b.pc \notin LanePcs => Inv([x EXCEPT !.active = b])
<1>1. ~x.blocked => Held(x.snap, b)
  BY DEF Held, Unstarted
<1>2. b.pc \notin Operating \cup {"release"} => (~x.blocked => Work(x.snap, b))
  BY <1>1, NoneIsNoActive DEF Work, Held
<1> QED
  BY <1>1, <1>2, CleanupKeeps, SettlingKeeps, Asked, MovedOn

\* The variants of an execution that the handlers make.
LEMMA Variants ==
  ASSUME NEW a \in Active
  PROVE  /\ Cancelled(a) \in Active /\ Cancelled(a).run = a.run /\ Cancelled(a).started = a.started
         /\ Failed(a) \in Active /\ Failed(a).run = a.run /\ Failed(a).started = a.started
         /\ Thrown(a) \in Active /\ Thrown(a).run = a.run /\ Thrown(a).started = a.started
<1>1. /\ Cancelled(a) \in Active /\ Cancelled(a).run = a.run /\ Cancelled(a).started = a.started
      /\ Failed(a) \in Active /\ Failed(a).run = a.run /\ Failed(a).started = a.started
  BY DEF Cancelled, Failed, Active, Outcomes
<1> QED
  BY <1>1 DEF Thrown

Pcs == {"config", "acquire", "reconfig", "start", "create", "execute", "supplement",
        "finish", "release", "expire", "expired", "hold", "abandon",
        "operation", "operate", "operated"}

\* An execution that goes on to its next await keeps its run, its task and
\* whether it has started.
LEMMA AtPc ==
  ASSUME NEW a \in Active, NEW pc \in Pcs
  PROVE  LET b == [a EXCEPT !.pc = pc]
         IN  b \in Active /\ b.pc = pc /\ b.run = a.run /\ b.task = a.task /\ b.started = a.started
BY DEF Active, Pcs

\* #execute after the configuration was read, or could not be.
LEMMA StepConfigured ==
  ASSUME Inv(m), Configured
  PROVE  Inv(m')
<1> DEFINE a == m.active
<1>1. a # None /\ a.pc \in {"config", "reconfig"}
  BY DEF Configured, At
<1>2. Free(m) /\ a \in Active /\ Phase(a) /\ (~m.blocked => Held(m.snap, a))
  BY <1>1, Elsewhere, HeldIs DEF LanePcs, Operating
<1>3. ~a.started
  BY <1>1, <1>2 DEF Phase
<1>4. Inv(Cleanup(m, Cancelled(a))) /\ Inv(Cleanup(m, Thrown(a)))
  BY <1>2, Variants, Continues
<1>5. ASSUME NEW pc \in {"expire", "start"}
      PROVE  Inv(Request(a, pc))
  <2> DEFINE b == [a EXCEPT !.pc = pc]
  <2>1. b \in Active /\ b.pc = pc /\ b.run = a.run /\ b.started = a.started
    <3>1. pc \in Pcs
      BY DEF Pcs
    <3> QED
      BY <1>2, <3>1, AtPc
  <2>2. Request(a, pc) = Enqueue([m EXCEPT !.active = b], [kind |-> "exec"])
    BY DEF Request, Goto
  <2> HIDE DEF b
  <2> QED
    BY <1>2, <1>3, <2>1, <2>2, Continues DEF Phase, LanePcs, Operating
<1>6. Inv(Goto(a, "acquire"))
  <2> DEFINE b == [a EXCEPT !.pc = "acquire"]
  <2>1. b \in Active /\ b.pc = "acquire" /\ b.run = a.run /\ b.started = a.started
    <3>1. "acquire" \in Pcs
      BY DEF Pcs
    <3> QED
      BY <1>2, <3>1, AtPc
  <2>2. Goto(a, "acquire") = [m EXCEPT !.active = b]
    BY DEF Goto
  <2> HIDE DEF b
  <2> QED
    BY <1>2, <1>3, <2>1, <2>2, Continues DEF Phase, LanePcs, Operating
<1>7. m' \in {Cleanup(m, Cancelled(a)), Cleanup(m, Thrown(a)), Request(a, "expire"),
              Request(a, "start"), Goto(a, "acquire")}
  BY DEF Configured, Step, FaultStep
<1> QED
  BY <1>4, <1>5, <1>6, <1>7

\* #execute after the harness lease was granted or refused.
LEMMA StepAcquired ==
  ASSUME Inv(m), Acquired
  PROVE  Inv(m')
<1> DEFINE a == m.active
           l(held) == [a EXCEPT !.leased = held]
<1>1. a # None /\ a.pc = "acquire"
  BY DEF Acquired, At
<1>2. Free(m) /\ a \in Active /\ Phase(a) /\ (~m.blocked => Held(m.snap, a))
  BY <1>1, Elsewhere, HeldIs DEF LanePcs, Operating
<1>3. ~a.started
  BY <1>1, <1>2 DEF Phase
<1>4. ASSUME NEW held \in BOOLEAN
      PROVE  l(held) \in Active /\ l(held).run = a.run /\ l(held).started = a.started
  BY <1>2 DEF Active
<1> HIDE DEF l
<1>5. \A held \in BOOLEAN : Inv(Cleanup(m, Cancelled(l(held))))
  BY ZenonT(40), <1>2, <1>4, Variants, Continues
<1>6. Inv(Cleanup(m, Thrown(a)))
  BY <1>2, Variants, Continues
<1>7. Inv(Goto(l(TRUE), "reconfig"))
  <2> DEFINE k == l(TRUE)
             b == [k EXCEPT !.pc = "reconfig"]
  <2>1. k \in Active /\ k.run = a.run /\ k.started = a.started /\ "reconfig" \in Pcs
    BY <1>4 DEF Pcs
  <2>2. Goto(k, "reconfig") = [m EXCEPT !.active = b]
    BY DEF Goto
  <2> HIDE DEF k
  <2>3. b \in Active /\ b.pc = "reconfig" /\ b.run = a.run /\ b.started = a.started
    BY <2>1, AtPc
  <2> HIDE DEF b
  <2>4. Inv([m EXCEPT !.active = b])
    BY <1>2, <1>3, <2>3, Continues DEF Phase, LanePcs, Operating
  <2> QED
    BY <2>2, <2>4 DEF k
<1>8. Inv(Request(a, "hold"))
  <2> DEFINE b == [a EXCEPT !.pc = "hold"]
  <2>1. b \in Active /\ b.pc = "hold" /\ b.run = a.run /\ b.started = a.started
    BY <1>2, AtPc DEF Pcs
  <2>2. Request(a, "hold") = Enqueue([m EXCEPT !.active = b], [kind |-> "exec"])
    BY DEF Request, Goto
  <2> HIDE DEF b
  <2> QED
    BY <1>2, <1>3, <2>1, <2>2, Continues DEF Phase, LanePcs, Operating
<1>9. \/ \E held \in BOOLEAN : m' = Cleanup(m, Cancelled(l(held)))
      \/ m' \in {Cleanup(m, Thrown(a)), Request(a, "hold"), Goto(l(TRUE), "reconfig")}
  BY DEF Acquired, Step, FaultStep, l
<1> QED
  BY <1>5, <1>6, <1>7, <1>8, <1>9

\* #execute after the run was created, or could not be.
LEMMA StepCreated ==
  ASSUME Inv(m), Created
  PROVE  Inv(m')
<1> DEFINE a == m.active
           b == [a EXCEPT !.made = TRUE]
           c == [b EXCEPT !.pc = "execute"]
<1>1. a # None /\ a.pc = "create"
  BY DEF Created, At
<1>2. Free(m) /\ a \in Active /\ Phase(a) /\ (~m.blocked => Held(m.snap, a))
  BY <1>1, Elsewhere, HeldIs DEF LanePcs, Operating
<1>3. a.started
  BY <1>1, <1>2 DEF Phase
<1>4. b \in Active /\ b.run = a.run /\ b.started = a.started
  BY <1>2 DEF Active
<1> HIDE DEF b
<1>5. c \in Active /\ c.pc = "execute" /\ c.run = a.run /\ c.started = a.started
  <2>1. "execute" \in Pcs
    BY DEF Pcs
  <2> QED
    BY <1>4, <2>1, AtPc
<1> HIDE DEF c
<1>6. Inv(Cleanup(m, Cancelled(b))) /\ Inv(Cleanup(m, Thrown(a)))
  BY <1>2, <1>4, Variants, Continues
<1>7. Inv([m EXCEPT !.active = c])
  BY <1>2, <1>3, <1>5, Continues DEF Phase, LanePcs, Operating
<1>8. Inv([Goto(b, "execute") EXCEPT !.inbox = FALSE])
  <2> DEFINE x == [m EXCEPT !.active = c]
             y == [x EXCEPT !.inbox = FALSE]
  <2>1. [Goto(b, "execute") EXCEPT !.inbox = FALSE] = y
    BY DEF Goto, c
  <2>2. x \in Manager
    BY <1>7 DEF Inv
  <2> HIDE DEF x
  <2>3. /\ y \in Manager /\ y.snap = x.snap /\ y.lane = x.lane /\ y.active = x.active
        /\ y.maintenance = x.maintenance /\ y.blocked = x.blocked /\ y.failed = x.failed
    BY <2>2 DEF Manager
  <2> HIDE DEF y
  <2> QED
    BY <1>7, <2>1, <2>3, SameCore DEF x
<1>9. m' \in {Cleanup(m, Cancelled(b)), Cleanup(m, Thrown(a)),
              [Goto(b, "execute") EXCEPT !.inbox = FALSE]}
  BY DEF Created, Step, FaultStep, b
<1> QED
  BY <1>6, <1>8, <1>9

\* A running execution that asks for supplements.
LEMMA StepSupplement ==
  ASSUME Inv(m), Supplement
  PROVE  Inv(m')
<1> DEFINE a == m.active
           b == [a EXCEPT !.pc = "supplement"]
<1>1. a # None /\ a.pc = "execute" /\ m' = Request(a, "supplement")
  BY DEF Supplement, At, Step
<1>2. Free(m) /\ a \in Active /\ Phase(a) /\ (~m.blocked => Held(m.snap, a))
  BY <1>1, Elsewhere, HeldIs DEF LanePcs, Operating
<1>3. b \in Active /\ b.pc = "supplement" /\ b.run = a.run /\ b.started = a.started
  BY <1>2, AtPc DEF Pcs
<1>4. m' = Enqueue([m EXCEPT !.active = b], [kind |-> "exec"])
  BY <1>1 DEF Request, Goto
<1> HIDE DEF b
<1> QED
  BY <1>1, <1>2, <1>3, <1>4, Continues DEF Phase, LanePcs, Operating

\* #execute after the run's loop has ended in any way.
LEMMA StepExecuted ==
  ASSUME Inv(m), Executed
  PROVE  Inv(m')
<1> DEFINE a == m.active
           b(o) == [a EXCEPT !.outcome = IF a.aborted THEN "cancelled" ELSE o]
<1>1. a # None /\ a.pc = "execute"
  BY DEF Executed, At
<1>2. Free(m) /\ a \in Active /\ Phase(a) /\ (~m.blocked => Held(m.snap, a))
  BY <1>1, Elsewhere, HeldIs DEF LanePcs, Operating
<1>3. ASSUME NEW o \in Outcomes
      PROVE  b(o) \in Active /\ b(o).run = a.run /\ b(o).started = a.started
  BY <1>2 DEF Active, Outcomes
<1> HIDE DEF b
<1>4. \A o \in Outcomes : Inv(Cleanup(m, b(o)))
  BY <1>2, <1>3, Continues
<1>5. Inv(Cleanup(m, Failed(a)))
  BY <1>2, Variants, Continues
<1>6. (\E o \in Outcomes : m' = Cleanup(m, b(o))) \/ m' = Cleanup(m, Failed(a))
  BY DEF Executed, Step, FaultStep, b
<1> QED
  BY <1>4, <1>5, <1>6

\* A deadline that passes during an execution.
LEMMA StepExpire ==
  ASSUME Inv(m), Expire
  PROVE  Inv(m')
<1> DEFINE a == m.active
           b == [a EXCEPT !.aborted = TRUE]
<1>1. a # None /\ a \in Active
  BY DEF Expire, At, Inv, Manager
<1>2. /\ b \in Active /\ b.run = a.run /\ b.task = a.task /\ b.pc = a.pc
      /\ b.started = a.started /\ b.errors = a.errors /\ b.fatal = a.fatal
  BY <1>1 DEF Active
<1>3. m' = [m EXCEPT !.active = b]
  BY DEF Expire, Step
<1> HIDE DEF b
<1> QED
  BY <1>1, <1>2, <1>3, Marked

\* #execute after the run was disposed, or could not be.
LEMMA StepDisposed ==
  ASSUME Inv(m), Disposed
  PROVE  Inv(m')
<1> DEFINE a == m.active
           b == [Failed(a) EXCEPT !.fatal = TRUE, !.leased = FALSE]
<1>1. a # None /\ a.pc = "abandon"
  BY DEF Disposed, At
<1>2. Free(m) /\ a \in Active /\ Phase(a) /\ (~m.blocked => Held(m.snap, a))
  BY <1>1, Elsewhere, HeldIs DEF LanePcs, Operating
<1>3. b \in Active /\ b.run = a.run /\ b.started = a.started
  <2>1. Failed(a) \in Active /\ Failed(a).run = a.run /\ Failed(a).started = a.started
    BY <1>2, Variants
  <2> QED
    BY <2>1 DEF Active
<1> HIDE DEF b
<1>4. Inv(Settling(m, a)) /\ Inv(Settling(m, b))
  BY <1>2, <1>3, Continues
<1>5. m' \in {Settling(m, a), Settling(m, b)}
  BY DEF Disposed, Step, FaultStep, b
<1> QED
  BY <1>4, <1>5

\* #execute after the harness lease was given back, or could not be.
LEMMA StepReleased ==
  ASSUME Inv(m), Released
  PROVE  Inv(m')
<1> DEFINE a == m.active
<1>1. a # None /\ a.pc = "release"
  BY DEF Released, At
<1>2. Free(m) /\ a \in Active /\ (~m.blocked => Over(m.snap) \/ Doomed(m.snap, a))
  BY <1>1, Elsewhere DEF LanePcs, Operating, Work
<1>3. /\ (a.errors /\ (a.fatal \/ ~a.started)) \in BOOLEAN
      /\ Doomed(m.snap, a) => a.errors /\ (a.fatal \/ ~a.started)
  BY <1>2 DEF Active, Doomed
<1>4. Inv(Settle(m, a.errors /\ (a.fatal \/ ~a.started))) /\ Inv(Settle(m, TRUE))
  BY <1>1, <1>2, <1>3, SettleKeeps
<1> QED
  BY <1>4 DEF Released, Step, FaultStep

\* #executeOperation after the operation ended in any way.
LEMMA StepOperated ==
  ASSUME Inv(m), Operated
  PROVE  Inv(m')
<1> DEFINE a == m.active
           k(o) == [a EXCEPT !.outcome = IF a.aborted THEN "cancelled" ELSE o]
           f == [k("failed") EXCEPT !.errors = TRUE]
<1>1. a # None /\ a.pc = "operate"
  BY DEF Operated, At
<1>2. Free(m) /\ a \in Active /\ Phase(a) /\ (~m.blocked => Work(m.snap, a))
  BY <1>1, Elsewhere DEF LanePcs
<1>3. ASSUME NEW d \in {k("completed"), f}
      PROVE  Inv(Request(d, "operated"))
  <2> DEFINE b == [d EXCEPT !.pc = "operated"]
  <2>1. /\ b \in Active /\ b.pc = "operated" /\ b.run = a.run /\ b.task = a.task
        /\ b.started = a.started
    BY <1>2 DEF Active, Outcomes
  <2>2. Request(d, "operated") = Enqueue([m EXCEPT !.active = b], [kind |-> "exec"])
    BY DEF Request, Goto
  <2> HIDE DEF b, k, f
  <2>3. Phase(b) /\ b.pc \in LanePcs
    BY <1>1, <1>2, <2>1 DEF Phase, LanePcs
  <2>4. ~m.blocked => Work(m.snap, b)
    BY <1>1, <1>2, <2>1, NoneIsNoActive DEF Work, Operating, Operation, Unstarted
  <2> QED
    BY <1>2, <2>1, <2>2, <2>3, <2>4, Asked
<1> HIDE DEF k, f
<1>4. m.blocked => Inv(Settle(m, TRUE))
  BY <1>1, <1>2, SettleKeeps
<1>5. m' \in {Request(k("completed"), "operated"), Request(f, "operated")}
        \/ (m.blocked /\ m' = Settle(m, TRUE))
  BY DEF Operated, Step, FaultStep, k, f
<1> QED
  BY <1>3, <1>4, <1>5

-----------------------------------------------------------------------------
(***************************************************************************)
(* The turns of the lane.                                                  *)
(***************************************************************************)
\* The call of the execution has been taken out of the lane.
LEMMA ExecServed ==
  ASSUME Inv(m), m.lane # <<>>, Head(m.lane).kind = "exec"
  PROVE  LET y == Served(m)
             a == m.active
         IN  /\ Free(y) /\ y.snap = m.snap /\ y.active = a /\ y.blocked = m.blocked
             /\ y.failed = m.failed
             /\ a \in Active /\ a # None /\ a.pc \in LanePcs /\ Phase(a)
             /\ ~m.blocked => Work(m.snap, a)
<1> DEFINE y == Served(m)
<1>1. Base(m) /\ OneExec(m)
  BY InvIs
<1>2. /\ Base(y) /\ OneExec(y) /\ y = [m EXCEPT !.lane = y.lane]
      /\ Has(m, {"exec"}) /\ ~Has(y, {"exec"})
  BY <1>1, ServedIs
<1>3. m.active # None /\ m.active \in Active /\ m.active.pc \in LanePcs /\ Phase(m.active)
      /\ ~m.maintenance /\ m \in Manager
  BY <1>2, InvIs DEF Inv, Manager
<1> HIDE DEF y
<1>4. y.snap = m.snap /\ y.active = m.active /\ y.blocked = m.blocked
        /\ y.failed = m.failed /\ ~y.maintenance
  BY <1>2, <1>3 DEF Manager
<1> QED
  BY <1>2, <1>3, <1>4 DEF Free, Inv, y

\* A refused call: an edit or a pause was first, or there is nothing to claim.
LEMMA RefusedKeeps ==
  ASSUME NEW x, Free(x), x.active \in Active, x.active # None,
         x.active.pc \in LanePcs \ {"expired", "operated"}, Phase(x.active),
         ~x.blocked => Work(x.snap, x.active)
  PROVE  Inv(Refused(x))
<1> DEFINE a == x.active
           b == [a EXCEPT !.pc = "execute"]
<1>1. ~x.blocked => Held(x.snap, a)
  BY HeldIs DEF LanePcs, Operating
<1>2. CASE a.pc = "operation"
  <2>1. ~x.blocked => Over(x.snap)
    BY <1>1, <1>2 DEF Held, Phase
  <2>2. Inv(Settle(x, FALSE))
    BY <2>1, SettleKeeps
  <2> QED
    BY <1>2, <2>2 DEF Refused
<1>3. CASE a.pc = "supplement"
  <2>1. b \in Active /\ b.pc = "execute" /\ b.run = a.run /\ b.started = a.started
    <3>1. "execute" \in Pcs
      BY DEF Pcs
    <3> QED
      BY <3>1, AtPc
  <2>2. Refused(x) = [x EXCEPT !.active = b]
    BY <1>3 DEF Refused
  <2> HIDE DEF b
  <2> QED
    BY <1>1, <1>3, <2>1, <2>2, Continues DEF Phase, LanePcs, Operating
<1>4. CASE a.pc \notin {"operation", "supplement"}
  <2>1. Inv(Cleanup(x, Cancelled(a))) /\ Inv(Cleanup(x, Failed(a))) /\ Inv(Cleanup(x, a))
    BY <1>1, Variants, Continues
  <2>2. Refused(x) \in {Cleanup(x, Cancelled(a)), Cleanup(x, Failed(a)), Cleanup(x, a)}
    BY <1>4 DEF Refused
  <2> QED
    BY <2>1, <2>2
<1> QED
  BY <1>2, <1>3, <1>4

\* DURABILITY_BLOCKED: the journal is not looked at again.
LEMMA BlockedKeeps ==
  ASSUME NEW x, Free(x), x.active \in Active, x.active # None, x.blocked
  PROVE  Inv(Blocked(x))
<1> DEFINE a == x.active
           b == [Failed(a) EXCEPT !.fatal = TRUE]
<1>1. Inv(Settle(x, TRUE))
  BY SettleKeeps
<1>2. b \in Active
  <2>1. Failed(a) \in Active
    BY Variants
  <2> QED
    BY <2>1 DEF Active
<1> HIDE DEF b
<1>3. Inv(Ending(x, b))
  BY <1>2, EndingKeeps
<1>4. Inv(Cleanup(x, Thrown(a)))
  BY Variants, CleanupKeeps
<1> QED
  BY <1>1, <1>3, <1>4 DEF Blocked, b

\* INVALID_EVENT: an operation is finished again, and a run whose finish is
\* refused is left to a manager that fails.
LEMMA RejectedKeeps ==
  ASSUME NEW x, Free(x), x.active \in Active, x.active # None, Phase(x.active),
         x.active.pc \in {"start", "supplement", "finish", "operated"},
         ~x.blocked => Work(x.snap, x.active)
  PROVE  Inv(Rejected(x))
<1> DEFINE a == x.active
           b == [Failed(a) EXCEPT !.fatal = TRUE]
           d == [Failed(a) EXCEPT !.outcome = IF a.aborted THEN "cancelled" ELSE "failed"]
<1>1. /\ b \in Active /\ b.run = a.run /\ b.started = a.started /\ b.errors /\ b.fatal
      /\ d \in Active /\ d.run = a.run /\ d.started = a.started
      /\ d.task = a.task /\ d.pc = a.pc
  BY DEF Failed, Active, Outcomes
<1>2. CASE a.pc = "operated"
  <2>1. Rejected(x) = Enqueue([x EXCEPT !.active = d], [kind |-> "exec"])
    BY <1>2 DEF Rejected
  <2> HIDE DEF d
  <2>2. Phase(d) /\ d.pc \in LanePcs
    BY <1>1, <1>2 DEF Phase, LanePcs
  <2>3. ~x.blocked => Work(x.snap, d)
    BY <1>1, <1>2, NoneIsNoActive DEF Work, Operating, Operation, Unstarted
  <2> QED
    BY <1>1, <2>1, <2>2, <2>3, Asked
<1>3. CASE a.pc = "finish"
  <2>1. Rejected(x) = Ending(x, b)
    BY <1>3 DEF Rejected
  <2> HIDE DEF b
  <2>2. ~x.blocked => Held(x.snap, b)
    BY <1>1, <1>3, HeldIs DEF Held, Unstarted, Operating
  <2>3. ~x.blocked => (Over(x.snap) \/ Doomed(x.snap, b)) /\ Unstarted(x.snap, b)
    BY <1>1, <2>2 DEF Held, Doomed
  <2> QED
    BY <1>1, <2>1, <2>3, EndingKeeps
<1>4. CASE a.pc \in {"start", "supplement"}
  <2>1. ~x.blocked => Held(x.snap, a)
    BY <1>4, HeldIs DEF Operating
  <2>2. Rejected(x) = Cleanup(x, Thrown(a))
    BY <1>4 DEF Rejected
  <2> HIDE DEF b, d
  <2>3. Thrown(a) \in Active /\ Thrown(a).run = a.run /\ Thrown(a).started = a.started
    BY Variants
  <2>4. Inv(Cleanup(x, Thrown(a)))
    BY <2>1, <2>3, Continues
  <2> QED
    BY <2>2, <2>4
<1> QED
  BY <1>2, <1>3, <1>4

\* The accepted call has been published: the continuation after each await.
LEMMA ResumedKeeps ==
  ASSUME NEW s, Sound(s),
         NEW a \in Active, a # None, a.pc \in LanePcs, Phase(a), Work(s, a),
         NEW y, Free(y), y.snap = s, y.active = a, ~y.blocked,
         ExecEvents(y) # <<>>
  PROVE  Inv(Resumed(Committed(y, ExecEvents(y))))
<1> DEFINE n == Replayed(s, ExecEvents(y))
           z == Published(y, n)
<1>z. Committed(y, ExecEvents(y)) = z
  BY DEF Committed, Published
<1>a. a.run \in Runs /\ a.task \in Tasks /\ a.outcome \in Outcomes /\ a.started \in BOOLEAN
  BY DEF Active
<1>p. ASSUME Sound(n), n.sub = s.sub
      PROVE  Free(z) /\ z.snap = n /\ z.active = a /\ ~z.blocked
  <2> HIDE DEF n
  <2>1. Base(y) /\ OneExec(y) /\ ~Has(y, {"exec"}) /\ ~y.maintenance
    BY DEF Free
  <2> QED
    BY <1>p, <2>1, PublishedKeeps DEF Free
<1>h. a.pc \notin Operating => Held(s, a)
  BY HeldIs DEF LanePcs
<1>n. ~a.started /\ a.pc \notin Operating => Over(s)
  BY <1>h DEF Held
<1> HIDE DEF z
<1>1. CASE a.pc = "start"
  <2> DEFINE b == [a EXCEPT !.started = TRUE]
             c == [b EXCEPT !.pc = "create"]
  <2>1. CanStart(s, a.task, a.run) /\ ExecEvents(y) = StartEvents(a.task, a.run)
    BY <1>1 DEF ExecEvents
  <2>2. ~a.started /\ a.pc \notin Operating
    BY <1>1 DEF Phase, Operating
  <2>3. /\ Sound(n) /\ n.sub = s.sub
        /\ Running(n) = {a.run} /\ Claimed(n) = {a.task} /\ n.run[a.task] = a.run
    BY <1>a, <1>n, <2>1, <2>2, StartIs
  <2>4. Free(z) /\ z.snap = n /\ z.active = a /\ ~z.blocked
    BY <1>p, <2>3
  <2>5. b \in Active /\ b.run = a.run /\ b.started
    BY DEF Active
  <2> HIDE DEF b
  <2>6. c \in Active /\ c.run = a.run /\ c.started /\ c.pc = "create"
    BY <2>5 DEF Active
  <2>7. Resumed(z) = IF a.aborted THEN Cleanup(z, Cancelled(b)) ELSE [z EXCEPT !.active = c]
    BY <1>1, <2>4 DEF Resumed, b
  <2> HIDE DEF n, c
  <2>8. Held(n, b)
    BY <2>3, <2>5 DEF Held, Unstarted
  <2>9. Inv(Cleanup(z, Cancelled(b)))
    BY <2>4, <2>5, <2>8, Variants, Continues
  <2>10. Phase(c) /\ c.pc \notin LanePcs /\ c.pc \notin Operating \cup {"release"}
    BY <2>6 DEF Phase, LanePcs, Operating
  <2>11. Inv([z EXCEPT !.active = c])
    BY <2>4, <2>5, <2>6, <2>8, <2>10, Continues
  <2> QED
    BY <1>z, <2>7, <2>9, <2>11
<1>2. CASE a.pc \in {"expire", "operation"}
  <2> DEFINE to == IF a.pc = "expire" THEN "expired" ELSE "operate"
             b == [a EXCEPT !.pc = to]
  <2>1. CanStartOperation(s, a.task) /\ ExecEvents(y) = StartOperationEvents(a.task)
    BY <1>2 DEF ExecEvents
  <2>2. ~a.started /\ a.pc \notin Operating
    BY <1>2 DEF Phase, Operating
  <2>3. /\ Sound(n) /\ n.sub = s.sub /\ n.runState = s.runState
        /\ Running(n) = {} /\ Claimed(n) = {a.task} /\ n.run[a.task] = None
    BY <1>a, <1>n, <2>1, <2>2, OperationStartIs
  <2>4. Free(z) /\ z.snap = n /\ z.active = a /\ ~z.blocked
    BY <1>p, <2>3
  <2>5. /\ b \in Active /\ b.pc = to /\ b.run = a.run /\ b.task = a.task /\ b.started = a.started
    BY DEF Active
  <2>6. Resumed(z) = IF a.pc = "expire" THEN Enqueue([z EXCEPT !.active = b], [kind |-> "exec"])
                                        ELSE [z EXCEPT !.active = b]
    BY <1>2, <2>4 DEF Resumed
  <2> HIDE DEF n, b
  <2>7. Work(n, b) /\ Phase(b)
    BY <1>h, <2>2, <2>3, <2>5, NoneIsNoActive DEF Work, Operating, Operation, Unstarted, Held, Phase
  <2>8. a.pc = "expire" => b.pc \in LanePcs
    BY <2>5 DEF LanePcs
  <2>9. a.pc # "expire" => b.pc \notin LanePcs
    BY <2>5 DEF LanePcs
  <2> QED
    BY <1>z, <2>4, <2>5, <2>6, <2>7, <2>8, <2>9, Asked, MovedOn
<1>3. CASE a.pc \in {"expired", "operated"}
  <2> DEFINE o == IF a.pc = "expired" THEN "cancelled" ELSE a.outcome
  <2>1. ExecEvents(y) = FinishOperationEvents(a.task, o) /\ o \in Outcomes
    BY <1>3, <1>a DEF ExecEvents, Outcomes
  <2>2. Operation(s, a) /\ Unstarted(s, a) /\ ~a.started
    BY <1>3 DEF Work, Operating, Phase
  <2>3. Sound(n) /\ n.sub = s.sub /\ n.runState = s.runState /\ Over(n)
    BY <1>a, <2>1, <2>2, OperationFinishIs DEF Operation
  <2>4. Free(z) /\ z.snap = n /\ z.active = a /\ ~z.blocked
    BY <1>p, <2>3
  <2>5. Resumed(z) = IF a.pc = "expired" THEN Cleanup(z, a) ELSE Settle(z, FALSE)
    BY <1>3, <2>4 DEF Resumed
  <2> HIDE DEF n
  <2>6. Held(n, a)
    BY <2>2, <2>3 DEF Held, Unstarted
  <2>7. Inv(Cleanup(z, a)) /\ Inv(Settle(z, FALSE))
    BY <2>3, <2>4, <2>6, CleanupKeeps, SettleKeeps
  <2> QED
    BY <1>z, <2>5, <2>7
<1>4. CASE a.pc = "supplement"
  <2> DEFINE b == [a EXCEPT !.pc = "execute"]
  <2>1. /\ CanSupplement(s, a.run)
        /\ ExecEvents(y) = CHOOSE e \in SupplementBatches(s, a.run) : TRUE
    BY <1>4 DEF ExecEvents
  <2>2. a.started /\ Held(s, a)
    BY <1>4, <1>h DEF Phase, Operating
  <2>3. /\ Sound(n) /\ n.sub = s.sub /\ Running(n) = {a.run}
        /\ n.runState = s.runState /\ \A t \in Claimed(n) : n.run[t] = a.run
    BY <1>a, <2>1, <2>2, SupplementIs DEF Held
  <2>4. Free(z) /\ z.snap = n /\ z.active = a /\ ~z.blocked
    BY <1>p, <2>3
  <2>5. b \in Active /\ b.pc = "execute" /\ b.run = a.run /\ b.started = a.started
    BY DEF Active
  <2>6. Resumed(z) = [z EXCEPT !.active = b]
    BY <1>4, <2>4 DEF Resumed
  <2> HIDE DEF n, b
  <2>7. Held(n, a)
    BY <2>2, <2>3 DEF Held, Unstarted
  <2>8. Phase(b) /\ b.pc \notin LanePcs /\ b.pc \notin Operating \cup {"release"}
    BY <2>2, <2>5 DEF Phase, LanePcs, Operating
  <2> QED
    BY <1>z, <2>4, <2>5, <2>6, <2>7, <2>8, Continues
<1>5. CASE a.pc = "finish" /\ a.started
  <2>1. ExecEvents(y) = FinishEvents(s, a.run, a.outcome)
    BY <1>5 DEF ExecEvents
  <2>2. Held(s, a)
    BY <1>5, <1>h DEF Operating
  <2>3. Sound(n) /\ n.sub = s.sub /\ Over(n)
    BY <1>5, <1>a, <2>1, <2>2, FinishIs DEF Held
  <2>4. Free(z) /\ z.snap = n /\ z.active = a /\ ~z.blocked
    BY <1>p, <2>3
  <2>5. Resumed(z) = Ending(z, a)
    BY <1>5, <2>4 DEF Resumed
  <2>6. Unstarted(n, a)
    BY <1>5 DEF Unstarted
  <2> QED
    BY <1>z, <2>3, <2>4, <2>5, <2>6, EndingKeeps
<1>6. CASE a.pc = "hold" \/ (a.pc = "finish" /\ ~a.started)
  <2>1. ExecEvents(y) = PauseEvents(TRUE)
    BY <1>6 DEF ExecEvents
  <2>2. Held(s, a) /\ ~a.started
    BY <1>6, <1>h DEF Operating, Phase
  <2>3. Sound(n) /\ n.sub = s.sub /\ SameWork(s, n)
    BY <2>1, PauseIs
  <2>4. Free(z) /\ z.snap = n /\ z.active = a /\ ~z.blocked
    BY <1>p, <2>3
  <2>5. Resumed(z) = IF a.pc = "hold" THEN Cleanup(z, a) ELSE Ending(z, a)
    BY <1>6, <2>4 DEF Resumed
  <2> HIDE DEF n
  <2>6. Held(n, a)
    BY <2>2, <2>3, SameWorkIs
  <2>7. Over(n) /\ Unstarted(n, a)
    BY <2>2, <2>6 DEF Held
  <2>8. Inv(Cleanup(z, a)) /\ Inv(Ending(z, a))
    BY <2>4, <2>6, <2>7, CleanupKeeps, EndingKeeps
  <2> QED
    BY <1>z, <2>5, <2>8
<1> QED
  BY <1>1, <1>2, <1>3, <1>4, <1>5, <1>6 DEF LanePcs

\* The execution's own call has its turn in the lane: every answer leads
\* to an await that suits the journal.
LEMMA StepExecTurn ==
  ASSUME Inv(m), m.lane # <<>>, ExecTurn
  PROVE  Inv(m')
<1> DEFINE y == Served(m)
           a == m.active
<1>1. /\ Free(y) /\ y.snap = m.snap /\ y.active = a /\ ~y.blocked
      /\ a \in Active /\ a # None /\ a.pc \in LanePcs /\ Phase(a) /\ Work(m.snap, a)
  BY ExecServed DEF ExecTurn
<1>2. ExecEvents(y) = ExecEvents(m)
  BY <1>1 DEF ExecEvents
<1>3. m' = IF ExecEvents(m) = <<>> THEN Refused(y) ELSE Resumed(Committed(y, ExecEvents(m)))
  BY DEF ExecTurn, Step
<1> HIDE DEF y
<1>4. CASE ExecEvents(m) = <<>>
  <2>1. a.pc \notin {"expired", "operated"}
    BY <1>4 DEF ExecEvents, FinishOperationEvents
  <2>2. Inv(Refused(y))
    BY <1>1, <2>1, RefusedKeeps
  <2> QED
    BY <1>3, <1>4, <2>2
<1>5. CASE ExecEvents(m) # <<>>
  <2>1. Sound(m.snap)
    BY DEF Inv
  <2>2. Inv(Resumed(Committed(y, ExecEvents(y))))
    BY <1>1, <1>2, <1>5, <2>1, ResumedKeeps
  <2> QED
    BY <1>2, <1>3, <1>5, <2>2
<1> QED
  BY <1>4, <1>5

\* A call of a client has been taken out of the lane.
LEMMA ClientServed ==
  ASSUME Inv(m), m.lane # <<>>, Head(m.lane).kind # "exec"
  PROVE  Inv(Served(m)) /\ Served(m).snap = m.snap /\ Served(m).blocked = m.blocked
<1> DEFINE y == Served(m)
<1>1. Base(m) /\ OneExec(m) /\ m \in Manager
  BY InvIs DEF Base
<1>2. /\ Base(y) /\ OneExec(y) /\ y = [m EXCEPT !.lane = y.lane]
      /\ Has(y, {"exec"}) <=> Has(m, {"exec"})
  BY <1>1, ServedIs
<1> HIDE DEF y
<1>3. /\ y.snap = m.snap /\ y.active = m.active /\ y.blocked = m.blocked
      /\ y.failed = m.failed
      /\ y.maintenance = m.maintenance
  BY <1>1, <1>2 DEF Manager
<1>4. Inv(y)
  BY <1>2, <1>3, InvIs
<1> QED
  BY <1>3, <1>4 DEF y

\* A batch that leaves the work alone has been published.
LEMMA QuietlyPublished ==
  ASSUME NEW x, Inv(x), NEW n, Sound(n), SameWork(x.snap, n),
         \A i \in DOMAIN x.lane : x.lane[i].kind = "submit" => ~IsRepeated(n, x.lane[i].sub)
  PROVE  Inv(Published(x, n))
<1> DEFINE y == Published(x, n)
<1>1. Base(x) /\ OneExec(x)
  BY InvIs
<1>2. /\ Base(y) /\ OneExec(y) /\ (Has(y, {"exec"}) <=> Has(x, {"exec"}))
      /\ y.snap = n /\ y.active = x.active /\ y.blocked = x.blocked /\ y.failed = x.failed
      /\ y.maintenance = x.maintenance
  BY <1>1, PublishedIs
<1> HIDE DEF y
<1>3. ~y.blocked /\ ~y.failed => Work(y.snap, y.active)
  BY <1>2, SameWorkIs, InvIs
<1>4. Inv(y)
  BY <1>2, <1>3, InvIs
<1> QED
  BY <1>4 DEF y

\* No submission in the lane is repeated by a snapshot with the same
\* submissions.
LEMMA SameSubmissions ==
  ASSUME NEW x, Inv(x), NEW n, n.sub = x.snap.sub
  PROVE  \A i \in DOMAIN x.lane : x.lane[i].kind = "submit" => ~IsRepeated(n, x.lane[i].sub)
BY DEF Inv, Fresh, IsRepeated

\* stop(), once its pause is settled, aborts the slot and keeps the
\* invariant.
LEMMA StoppedKeeps ==
  ASSUME NEW x, Inv(x)
  PROVE  Inv(Stopped(x))
<1> DEFINE a == x.active
           b == [a EXCEPT !.aborted = TRUE, !.stopping = FALSE]
<1>1. CASE a # None /\ a.stopping
  <2>1. a \in Active
    BY <1>1 DEF Inv, Manager
  <2>2. /\ b \in Active /\ b.run = a.run /\ b.task = a.task /\ b.pc = a.pc
        /\ b.started = a.started /\ b.errors = a.errors /\ b.fatal = a.fatal
    BY <2>1 DEF Active
  <2>3. Stopped(x) = [x EXCEPT !.active = b]
    BY <1>1, <2>1 DEF Stopped, Active, Inv, Manager
  <2> HIDE DEF b
  <2> QED
    BY <1>1, <2>2, <2>3, Marked
<1>2. CASE ~(a # None /\ a.stopping)
  BY <1>2 DEF Stopped
<1> QED
  BY <1>1, <1>2

\* A stop has its turn in the lane.
LEMMA StepStopTurn ==
  ASSUME Inv(m), m.lane # <<>>, StopTurn
  PROVE  Inv(m')
<1> DEFINE y == Served(m)
           n == Replayed(m.snap, PauseEvents(TRUE))
<1>1. Inv(y) /\ y.snap = m.snap
  BY ClientServed DEF StopTurn
<1>2. Sound(n) /\ SameWork(m.snap, n) /\ n.sub = m.snap.sub /\ PauseEvents(TRUE) # <<>>
  BY PauseIs DEF Inv
<1>3. m' = Stopped(Committed(y, PauseEvents(TRUE)))
  BY DEF StopTurn, Step
<1> HIDE DEF y
<1>4. Committed(y, PauseEvents(TRUE)) = Published(y, n)
  BY <1>1, <1>2 DEF Committed, Published
<1> HIDE DEF n
<1>5. Inv(Published(y, n))
  BY <1>1, <1>2, QuietlyPublished, SameSubmissions
<1> QED
  BY <1>3, <1>4, <1>5, StoppedKeeps

\* A submission that failed or was made ends the wake it belonged to.
LEMMA WakeOver ==
  ASSUME NEW x, Inv(x), NEW w
  PROVE  Inv([x EXCEPT !.waking = IF w \in Wakes THEN FALSE ELSE @])
<1> DEFINE y == [x EXCEPT !.waking = IF w \in Wakes THEN FALSE ELSE @]
<1>1. x \in Manager
  BY DEF Inv
<1>2. /\ y \in Manager /\ y.snap = x.snap /\ y.lane = x.lane /\ y.active = x.active
      /\ y.maintenance = x.maintenance /\ y.blocked = x.blocked /\ y.failed = x.failed
  BY <1>1 DEF Manager
<1> HIDE DEF y
<1>3. Inv(y)
  BY <1>2, SameCore
<1> QED
  BY <1>3 DEF y

\* The batch of a submission, for a task identifier that is not used.
Submission(x) == SubmitEvents(x.snap, Head(x.lane).sub, NewTask(x), None, Head(x.lane).idle)

\* A submission makes a new task, sound and showing the same work.
LEMMA SubmissionIs ==
  ASSUME Inv(m), m.lane # <<>>, SubmitTurn
  PROVE  LET n == Replayed(m.snap, Submission(m))
         IN  /\ NewTask(m) \in Tasks /\ Sound(n) /\ SameWork(m.snap, n)
             /\ n.sub = [m.snap.sub EXCEPT ![NewTask(m)] = Head(m.lane).sub]
             /\ Submission(m) # <<>>
<1> DEFINE c == Head(m.lane)
           t == NewTask(m)
<1>1. c \in Call /\ ~IsRepeated(m.snap, c.sub)
  BY InvIs, ServedIs DEF SubmitTurn
<1>2. c.sub \in Submissions /\ c.idle \in BOOLEAN
  BY <1>1, CallFields DEF SubmitTurn
<1>3. Submission(m) = SubmitEvents(m.snap, c.sub, t, None, c.idle)
  BY DEF Submission
<1>4. Sound(m.snap)
  BY DEF Inv
<1> HIDE DEF c
<1>5. t \in Tasks /\ m.snap.state[t] = "none"
  BY <1>1, <1>2, <1>4, TaskLeft DEF NewTask
<1> HIDE DEF t
<1>6. LET n == Replayed(m.snap, Submission(m))
      IN  Sound(n) /\ SameWork(m.snap, n) /\ n.sub = [m.snap.sub EXCEPT ![t] = c.sub]
          /\ Submission(m) # <<>>
  BY <1>1, <1>2, <1>3, <1>4, <1>5, SubmitIs
<1> QED
  BY <1>5, <1>6 DEF c, t

\* A submission has its turn in the lane.
LEMMA StepSubmitTurn ==
  ASSUME Inv(m), m.lane # <<>>, SubmitTurn
  PROVE  Inv(m')
<1> DEFINE c == Head(m.lane)
           t == NewTask(m)
           y == Served(m)
           n == Replayed(m.snap, Submission(m))
           x == Committed(y, Submission(m))
<1>1. Inv(y) /\ y.snap = m.snap
  BY ClientServed DEF SubmitTurn
<1>2. \A i \in DOMAIN y.lane : y.lane[i].kind = "submit" => y.lane[i].sub # c.sub
  BY InvIs, ServedIs DEF SubmitTurn
<1>3. /\ t \in Tasks /\ Sound(n) /\ SameWork(m.snap, n)
      /\ n.sub = [m.snap.sub EXCEPT ![t] = c.sub] /\ Submission(m) # <<>>
  BY SubmissionIs
<1>4. m' = [Kick(x) EXCEPT !.waking = IF c.sub \in Wakes THEN FALSE ELSE @]
  BY DEF SubmitTurn, Step, Submission
<1> HIDE DEF y, c, t
<1>5. x = Published(y, n)
  BY <1>1, <1>3 DEF Committed, Published
<1> HIDE DEF n
<1>6. m.snap.sub \in [Tasks -> Submissions \cup {None}]
  BY DEF Inv, Sound, WellFormed, Snapshot
<1>7. \A i \in DOMAIN y.lane : y.lane[i].kind = "submit" => ~IsRepeated(n, y.lane[i].sub)
  <2>1. \A i \in DOMAIN y.lane : y.lane[i].kind = "submit" => ~IsRepeated(m.snap, y.lane[i].sub)
    BY <1>1 DEF Inv, Fresh
  <2> QED
    BY <1>2, <1>3, <1>6, <2>1 DEF IsRepeated
<1>8. Inv(x)
  BY <1>1, <1>3, <1>5, <1>7, QuietlyPublished
<1> HIDE DEF x
<1> QED
  BY <1>4, <1>8, KickKeeps, WakeOver

\* A queue edit, pause or resume has its turn in the lane.
LEMMA StepEditTurn ==
  ASSUME Inv(m), m.lane # <<>>, EditTurn
  PROVE  Inv(m')
<1> DEFINE c == Head(m.lane)
           y == Served(m)
           es == IF c.fresh THEN EditEvents(m.snap, c) ELSE <<>>
           n == Replayed(m.snap, es)
           x == Committed(y, es)
<1>1. Inv(y) /\ y.snap = m.snap
  BY ClientServed DEF EditTurn
<1>2. c \in Call /\ c.kind \in {"designate", "cancel", "move", "resume"}
  BY InvIs, ServedIs DEF EditTurn
<1>3. m' = IF es = <<>> THEN x
           ELSE IF c.kind = "resume" THEN WakeKick([x EXCEPT !.suspended = FALSE])
           ELSE Kick(x)
  BY DEF EditTurn, Step
<1> HIDE DEF c, y
<1>4. CASE es = <<>>
  BY <1>1, <1>3, <1>4 DEF Committed
<1>5. CASE es # <<>>
  <2>1. Sound(m.snap)
    BY DEF Inv
  <2>2. es = EditEvents(m.snap, c)
    BY <1>5
  <2>3. Sound(n) /\ SameWork(m.snap, n) /\ n.sub = m.snap.sub
    BY <1>2, <1>5, <2>1, <2>2, EditIs
  <2>4. x = Published(y, n)
    BY <1>1, <1>5 DEF Committed, Published
  <2> HIDE DEF n, es
  <2>5. Inv(x)
    BY <1>1, <2>3, <2>4, QuietlyPublished, SameSubmissions
  <2> HIDE DEF x
  <2> DEFINE z == [x EXCEPT !.suspended = FALSE]
  <2>6. x \in Manager
    BY <2>5 DEF Inv
  <2>7. /\ z \in Manager /\ z.snap = x.snap /\ z.lane = x.lane /\ z.active = x.active
        /\ z.maintenance = x.maintenance /\ z.blocked = x.blocked /\ z.failed = x.failed
    BY <2>6 DEF Manager
  <2>8. m' \in {WakeKick(z), Kick(x)}
    BY <1>3, <1>5
  <2> HIDE DEF z
  <2> QED
    BY <2>5, <2>7, <2>8, SameCore, KickKeeps, WakeKickKeeps
<1> QED
  BY <1>4, <1>5

\* A call has its turn in the lane of a blocked ledger and is refused.
LEMMA StepBlockedTurn ==
  ASSUME Inv(m), m.lane # <<>>, BlockedTurn
  PROVE  Inv(m')
<1> DEFINE c == Head(m.lane)
           y == Served(m)
           x == [y EXCEPT !.blocked = TRUE]
<1>1. c \in Call /\ c.kind \in {"submit", "stop", "exec"} \cup Edits
  BY InvIs, ServedIs, CallFields
<1>2. m' = CASE c.kind = "exec" -> Blocked(x)
             [] c.kind = "stop" -> Stopped(x)
             [] c.kind = "submit" -> [x EXCEPT !.waking = IF c.sub \in Wakes THEN FALSE ELSE @]
             [] OTHER -> x
  BY DEF BlockedTurn
<1>3. CASE c.kind = "exec"
  <2>1. Free(y) /\ y.active = m.active /\ m.active \in Active /\ m.active # None
    BY <1>3, ExecServed
  <2> HIDE DEF y
  <2>2. /\ x \in Manager /\ x.snap = y.snap /\ x.lane = y.lane /\ x.active = y.active
        /\ x.maintenance = y.maintenance /\ x.blocked /\ x.failed = y.failed
    BY <2>1 DEF Free, Base, Manager
  <2> HIDE DEF x
  <2>3. Free(x)
    BY <2>1, <2>2 DEF Free, Base, OneExec, Has, Fresh
  <2> QED
    BY <1>2, <1>3, <2>1, <2>2, <2>3, BlockedKeeps
<1>4. CASE c.kind # "exec"
  <2>1. Inv(y)
    BY <1>4, ClientServed
  <2> HIDE DEF y, c
  <2>2. /\ x \in Manager /\ x.snap = y.snap /\ x.lane = y.lane /\ x.active = y.active
        /\ x.maintenance = y.maintenance /\ x.blocked /\ x.failed = y.failed
    BY <2>1 DEF Inv, Manager
  <2> HIDE DEF x
  <2>3. Inv(x)
    BY <2>1, <2>2 DEF Inv, InLane, Has, Fresh
  <2> QED
    BY <1>2, <1>4, <2>3, StoppedKeeps, WakeOver
<1> QED
  BY <1>3, <1>4

\* A call has its turn in the lane, and its events are refused.
LEMMA StepRejectedTurn ==
  ASSUME Inv(m), m.lane # <<>>, RejectedTurn
  PROVE  Inv(m')
<1> DEFINE c == Head(m.lane)
           y == Served(m)
<1>1. m' = IF c.kind = "exec" THEN Rejected(y) ELSE y
  BY DEF RejectedTurn, FaultStep
<1>2. CASE c.kind = "exec"
  <2>1. /\ Free(y) /\ y.snap = m.snap /\ y.active = m.active /\ y.blocked = m.blocked
        /\ m.active \in Active /\ m.active # None /\ Phase(m.active)
        /\ ~m.blocked => Work(m.snap, m.active)
    BY <1>2, ExecServed
  <2>2. m.active.pc \in {"start", "supplement", "finish", "operated"}
    BY <1>2 DEF RejectedTurn, HoldsData
  <2> HIDE DEF y
  <2> QED
    BY <1>1, <1>2, <2>1, <2>2, RejectedKeeps
<1>3. CASE c.kind # "exec"
  BY <1>1, <1>3, ClientServed
<1> QED
  BY <1>2, <1>3

-----------------------------------------------------------------------------
(***************************************************************************)
(* Clients and the host.                                                   *)
(***************************************************************************)
LEMMA EnqueueKeeps ==
  ASSUME NEW x, Inv(x), NEW c \in Call, c.kind # "exec",
         c.kind = "submit" => c.sub \in Unused(x)
  PROVE  Inv(Enqueue(x, c))
<1> DEFINE y == Enqueue(x, c)
<1>1. /\ Base(y) /\ OneExec(y) /\ (Has(y, {"exec"}) <=> Has(x, {"exec"}))
      /\ y.snap = x.snap /\ y.active = x.active /\ y.blocked = x.blocked
      /\ y.failed = x.failed
      /\ y.maintenance = x.maintenance
  BY InvIs, EnqueuedIs
<1> HIDE DEF y
<1>2. Inv(y)
  BY <1>1, InvIs
<1> QED
  BY <1>2 DEF y

\* A client submits.
LEMMA StepSubmit ==
  ASSUME Inv(m), NEW s \in Users, Submit(s)
  PROVE  Inv(m')
<1> DEFINE x == [m EXCEPT !.suspended = FALSE]
           c == [kind |-> "submit", sub |-> s, idle |-> m.active = None /\ ~m.maintenance]
<1>1. m \in Manager /\ s \in Unused(m)
  BY DEF Inv, Submit
<1>2. /\ x \in Manager /\ x.snap = m.snap /\ x.lane = m.lane /\ x.active = m.active
      /\ x.maintenance = m.maintenance /\ x.blocked = m.blocked /\ x.failed = m.failed
  BY <1>1 DEF Manager
<1>3. c \in Call /\ c.kind = "submit" /\ c.sub = s
  <2>1. (m.active = None /\ ~m.maintenance) \in BOOLEAN
    BY <1>1 DEF Manager
  <2> QED
    BY <2>1 DEF Call, Users
<1>4. m' = Enqueue(x, c)
  BY DEF Submit
<1> HIDE DEF x, c
<1>5. Inv(x) /\ s \in Unused(x)
  BY <1>1, <1>2, SameCore DEF Unused
<1> QED
  BY <1>3, <1>4, <1>5, EnqueueKeeps

\* A client edits the queue, pauses or resumes.
LEMMA StepEdit ==
  ASSUME Inv(m), NEW call \in Call, call.kind \in Edits, m' = Enqueue(m, call)
  PROVE  Inv(m')
BY EnqueueKeeps DEF Edits

\* A client stops the session.
LEMMA StepStop ==
  ASSUME Inv(m), Stop
  PROVE  Inv(m')
<1> DEFINE a == m.active
           b == [a EXCEPT !.stopping = TRUE]
           x == [m EXCEPT !.active = b]
           c == [kind |-> "stop"]
<1>1. a # None /\ a \in Active
  BY DEF Stop, Inv, Manager
<1>2. /\ b \in Active /\ b.run = a.run /\ b.task = a.task /\ b.pc = a.pc
      /\ b.started = a.started /\ b.errors = a.errors /\ b.fatal = a.fatal
  BY <1>1 DEF Active
<1>3. c \in Call /\ c.kind = "stop"
  BY DEF Call
<1>4. m' = Enqueue(x, c)
  BY DEF Stop
<1> HIDE DEF b, c
<1>5. Inv(x)
  BY <1>1, <1>2, Marked
<1> HIDE DEF x
<1> QED
  BY <1>3, <1>4, <1>5, EnqueueKeeps

\* Every call of a client keeps the invariant.
LEMMA StepClients ==
  ASSUME Inv(m), Clients
  PROVE  Inv(m')
<1>1. CASE \E s \in Users : Submit(s)
  BY <1>1, StepSubmit
<1>2. ASSUME NEW t \in Tasks, NEW r \in Runs \cup {None},
             Edit([kind |-> "designate", task |-> t, run |-> r, fresh |-> TRUE])
      PROVE  Inv(m')
  <2> DEFINE c == [kind |-> "designate", task |-> t, run |-> r, fresh |-> TRUE]
  <2>1. c \in Call /\ c.kind \in Edits /\ m' = Enqueue(m, c)
    BY <1>2 DEF Call, Edits, Edit
  <2> HIDE DEF c
  <2> QED
    BY <2>1, StepEdit
<1>3. ASSUME NEW t \in Tasks, Edit([kind |-> "cancel", task |-> t, fresh |-> TRUE])
      PROVE  Inv(m')
  <2> DEFINE c == [kind |-> "cancel", task |-> t, fresh |-> TRUE]
  <2>1. c \in Call /\ c.kind \in Edits /\ m' = Enqueue(m, c)
    BY <1>3 DEF Call, Edits, Edit
  <2> HIDE DEF c
  <2> QED
    BY <2>1, StepEdit
<1>4. ASSUME NEW t \in Tasks, NEW b \in Tasks,
             Edit([kind |-> "move", task |-> t, before |-> b, fresh |-> TRUE])
      PROVE  Inv(m')
  <2> DEFINE c == [kind |-> "move", task |-> t, before |-> b, fresh |-> TRUE]
  <2>1. c \in Call /\ c.kind \in Edits /\ m' = Enqueue(m, c)
    BY <1>4 DEF Call, Edits, Edit
  <2> HIDE DEF c
  <2> QED
    BY <2>1, StepEdit
<1>5. CASE Resume
  <2> DEFINE c == [kind |-> "resume", fresh |-> TRUE]
  <2>1. c \in Call /\ c.kind \in Edits /\ m' = Enqueue(m, c)
    BY <1>5 DEF Call, Edits, Resume
  <2> HIDE DEF c
  <2> QED
    BY <2>1, StepEdit
<1>6. CASE Stop
  BY <1>6, StepStop
<1> QED
  BY <1>1, <1>2, <1>3, <1>4, <1>5, <1>6 DEF Clients

\* The service's holds, drains and disposal, and exclusive work, keep the
\* invariant.
LEMMA StepHost ==
  ASSUME Inv(m), Host \/ EndExclusive
  PROVE  Inv(m')
<1>0. m \in Manager
  BY DEF Inv
<1>1. CASE Exclusive
  <2> DEFINE x == [m EXCEPT !.maintenance = TRUE]
  <2>1. /\ x \in Manager /\ x.snap = m.snap /\ x.lane = m.lane /\ x.active = m.active
        /\ x.blocked = m.blocked /\ x.failed = m.failed
    BY <1>0 DEF Manager
  <2>2. m' = x /\ m.active = None /\ ~m.failed
    BY <1>1 DEF Exclusive, Step
  <2> HIDE DEF x
  <2>3. Inv(x)
    BY <2>1, <2>2 DEF Inv, InLane, Has, Fresh
  <2> QED
    BY <2>2, <2>3
<1>2. CASE EndExclusive
  <2> DEFINE x == [m EXCEPT !.maintenance = FALSE]
  <2>1. /\ x \in Manager /\ x.snap = m.snap /\ x.lane = m.lane /\ x.active = m.active
        /\ x.blocked = m.blocked /\ x.failed = m.failed /\ ~x.maintenance
    BY <1>0 DEF Manager
  <2>2. m' = WakeKick(x)
    BY <1>2 DEF EndExclusive, Step
  <2> HIDE DEF x
  <2>3. Inv(x)
    BY <2>1 DEF Inv, InLane, Has, Fresh
  <2> QED
    BY <2>2, <2>3, WakeKickKeeps
<1>3. CASE Hold \/ Unhold
  <2> DEFINE x(v) == [m EXCEPT !.open = v]
  <2>1. ASSUME NEW v \in BOOLEAN
        PROVE  Inv(x(v))
    <3>1. /\ x(v) \in Manager /\ x(v).snap = m.snap /\ x(v).lane = m.lane /\ x(v).active = m.active
          /\ x(v).maintenance = m.maintenance /\ x(v).blocked = m.blocked
          /\ x(v).failed = m.failed
      BY <1>0 DEF Manager
    <3> HIDE DEF x
    <3> QED
      BY <3>1, SameCore
  <2>2. m' \in {x(FALSE), WakeKick(x(TRUE))}
    BY <1>3 DEF Hold, Unhold, Step
  <2> HIDE DEF x
  <2> QED
    BY <2>1, <2>2, WakeKickKeeps
<1>4. CASE Notify
  <2> DEFINE x == [m EXCEPT !.inbox = TRUE]
  <2>1. /\ x \in Manager /\ x.snap = m.snap /\ x.lane = m.lane /\ x.active = m.active
        /\ x.maintenance = m.maintenance /\ x.blocked = m.blocked /\ x.failed = m.failed
    BY <1>0 DEF Manager
  <2>2. m' = Wake(x)
    BY <1>4 DEF Notify, Step
  <2> HIDE DEF x
  <2> QED
    BY <2>1, <2>2, SameCore, WakeKeeps
<1>5. CASE Dispose
  <2> DEFINE x == [m EXCEPT !.closed = TRUE]
             b == [m.active EXCEPT !.aborted = TRUE]
             y == [x EXCEPT !.active = b]
  <2>1. /\ x \in Manager /\ x.snap = m.snap /\ x.lane = m.lane /\ x.active = m.active
        /\ x.maintenance = m.maintenance /\ x.blocked = m.blocked /\ x.failed = m.failed
    BY <1>0 DEF Manager
  <2>2. CASE m.active = None
    <3>1. m' = x
      BY <1>0, <1>5, <2>2 DEF Dispose, Step, Manager
    <3> HIDE DEF x
    <3> QED
      BY <2>1, <3>1, SameCore
  <2>3. CASE m.active # None
    <3>1. m' = y
      BY <1>5, <2>3 DEF Dispose, Step
    <3>2. m.active \in Active
      BY <1>0, <2>3 DEF Manager
    <3>3. /\ b \in Active /\ b.run = m.active.run /\ b.task = m.active.task
          /\ b.pc = m.active.pc /\ b.started = m.active.started
          /\ b.errors = m.active.errors /\ b.fatal = m.active.fatal
      BY <3>2 DEF Active
    <3> HIDE DEF b, x
    <3>4. Inv(x)
      BY <2>1, SameCore
    <3> QED
      BY <2>1, <2>3, <3>1, <3>3, <3>4, Marked
  <2> QED
    BY <2>2, <2>3
<1> QED
  BY <1>1, <1>2, <1>3, <1>4, <1>5 DEF Host

-----------------------------------------------------------------------------
(***************************************************************************)
(* The invariant and what it gives.                                        *)
(***************************************************************************)
LEMMA InitIInv == Init => IInv
<1> SUFFICES ASSUME Init PROVE IInv
  OBVIOUS
<1>1. /\ m.snap = EmptySnapshot /\ m.lane = <<>> /\ m.active = None /\ ~m.maintenance
      /\ m.blocked = FALSE /\ m.failed = FALSE
  BY DEF Init
<1>2. WellFormed(EmptySnapshot) /\ Whole(EmptySnapshot) /\ EmptySnapshot \in Snapshot
  BY EmptyWellFormed DEF WellFormed
<1>3. m \in Manager
  BY <1>2 DEF Init, Manager
<1>4. Sound(m.snap) /\ Over(m.snap)
  <2>1. Named(EmptySnapshot) /\ Over(EmptySnapshot)
    BY NoneAssumption DEF EmptySnapshot, Named, Over, Running, Claimed
  <2> QED
    BY <1>1, <1>2, <2>1 DEF Sound
<1>5. Fresh(m) /\ InLane(m)
  BY <1>1 DEF Fresh, InLane, Has
<1>6. Inv(m)
  BY <1>1, <1>3, <1>4, <1>5 DEF Inv, Work
<1>7. TypeOK
  <2>1. edits = 0 /\ faulted = FALSE /\ halted = FALSE
    BY DEF Init
  <2>2. 0 \in 0..MaxEdits
    BY MaxEditsAssumption
  <2> QED
    BY <1>3, <2>1, <2>2 DEF TypeOK
<1> QED
  BY <1>6, <1>7 DEF IInv

\* Every step of the manager keeps its part of the invariant.
LEMMA StepInv ==
  ASSUME Inv(m), Next
  PROVE  Inv(m')
<1>1. CASE Turn
  BY <1>1, StepExecTurn, StepStopTurn, StepSubmitTurn, StepEditTurn, StepBlockedTurn,
     StepRejectedTurn DEF Turn
<1>2. CASE Execution
  BY <1>2, StepConfigured, StepAcquired, StepCreated, StepExecuted, StepDisposed, StepReleased,
     StepOperated DEF Execution
<1>3. CASE Supplement \/ Expire
  BY <1>3, StepSupplement, StepExpire
<1>4. CASE EndExclusive \/ Host
  BY <1>4, StepHost
<1>5. CASE Clients
  BY <1>5, StepClients
<1> QED
  BY <1>1, <1>2, <1>3, <1>4, <1>5 DEF Next

\* The counters and the history.
LEMMA StepHistory ==
  ASSUME TypeOK, Next
  PROVE  edits' \in 0..MaxEdits /\ faulted' \in BOOLEAN /\ halted' \in BOOLEAN
<1>0. edits \in 0..MaxEdits /\ faulted \in BOOLEAN /\ halted \in BOOLEAN
  BY DEF TypeOK
<1>1. CASE Turn
  BY <1>0, <1>1 DEF Turn, ExecTurn, StopTurn, SubmitTurn, EditTurn, BlockedTurn, RejectedTurn,
                    Step, FaultStep, Fault
<1>2. CASE Execution
  BY <1>0, <1>2 DEF Execution, Configured, Acquired, Created, Executed, Disposed, Released,
                    Operated, Step, FaultStep, Fault
<1>3. CASE Supplement \/ Expire \/ EndExclusive \/ Host
  BY <1>0, <1>3 DEF Supplement, Expire, EndExclusive, Host, Exclusive, Hold, Unhold, Notify,
                    Dispose, Step
<1>4. CASE Clients
  <2>1. \/ UNCHANGED edits
        \/ edits < MaxEdits /\ edits' = edits + 1
    BY <1>4 DEF Clients, Submit, Edit, Resume, Stop
  <2>2. UNCHANGED faulted /\ (UNCHANGED halted \/ halted' \in BOOLEAN)
    BY <1>4 DEF Clients, Submit, Edit, Resume, Stop
  <2> QED
    BY <1>0, <2>1, <2>2, MaxEditsAssumption
<1> QED
  BY <1>1, <1>2, <1>3, <1>4 DEF Next

\* Every step keeps the invariant.
LEMMA StepIInv == IInv /\ [Next]_vars => IInv'
<1> SUFFICES ASSUME IInv, [Next]_vars PROVE IInv'
  OBVIOUS
<1>1. CASE Next
  <2>1. Inv(m')
    BY <1>1, StepInv DEF IInv
  <2>2. m' \in Manager
    BY <2>1 DEF Inv
  <2>3. edits' \in 0..MaxEdits /\ faulted' \in BOOLEAN /\ halted' \in BOOLEAN
    BY <1>1, StepHistory DEF IInv
  <2> QED
    BY <2>1, <2>2, <2>3 DEF IInv, TypeOK
<1>2. CASE UNCHANGED vars
  BY <1>2 DEF vars, IInv, TypeOK
<1> QED
  BY <1>1, <1>2

\* The invariant says what slot and exclusive work promise.
LEMMA IInvGives ==
  ASSUME IInv
  PROVE  SlotOwnsExecution /\ ExclusiveAlone
<1> DEFINE s == m.snap
           a == m.active
<1>1. /\ TypeOK /\ (m.maintenance => a = None /\ ~m.failed) /\ (m.failed => a = None)
      /\ ~m.blocked /\ ~m.failed => Work(s, a)
  BY DEF IInv, Inv
<1>2. ASSUME ~m.blocked, ~m.failed, NEW r \in Running(s)
      PROVE  a # None /\ a.run = r /\ a.started
  BY <1>1, <1>2 DEF Work, Doomed, Over, Operation, Held
<1>3. ASSUME ~m.blocked, ~m.failed, NEW t \in Claimed(s)
      PROVE  a # None /\ (a.task = t \/ s.run[t] = a.run)
  BY <1>1, <1>3 DEF Work, Doomed, Over, Operation, Held
<1>4. SlotOwnsExecution
  BY <1>1, <1>2, <1>3 DEF SlotOwnsExecution, SlotExecutes
<1>5. ExclusiveAlone
  BY <1>1 DEF ExclusiveAlone, Work, Over, Executing
<1> QED
  BY <1>4, <1>5

\* SlotOwnsExecution: however edits, stops, holds, faults and disposal fall
\* between the awaits of an execution, what the journal shows as running or
\* claimed is what the slot executes, as long as the journal can be written, or
\* the manager has failed with it.
THEOREM SlotIsOwner == Spec => []SlotOwnsExecution
<1>1. Spec => []IInv
  BY InitIInv, StepIInv, PTL DEF Spec
<1>2. IInv => SlotOwnsExecution
  BY IInvGives
<1> QED
  BY <1>1, <1>2, PTL

\* ExclusiveAlone: a mode or workspace write or a compaction that reserved the
\* slot has the session to itself until it ends.
THEOREM ExclusiveIsAlone == Spec => []ExclusiveAlone
<1>1. Spec => []IInv
  BY InitIInv, StepIInv, PTL DEF Spec
<1>2. IInv => ExclusiveAlone
  BY IInvGives
<1> QED
  BY <1>1, <1>2, PTL

-----------------------------------------------------------------------------
(***************************************************************************)
(* What a continuation adds: calls of its own at the lane's end.           *)
(***************************************************************************)
Shaped(x) ==
  /\ {"snap", "lane", "blocked", "active", "maintenance", "closed", "failed", "waking",
      "suspended", "open", "inbox"} \subseteq DOMAIN x
  /\ x.lane \in Seq(Call)

\* A call that may end a pause.
Opens(c) == c.kind = "resume" \/ (c.kind = "submit" /\ c.idle)

\* y is x with calls appended, none of which stops or ends a pause.
Later(x, y) ==
  /\ Shaped(y)
  /\ y.snap = x.snap /\ y.blocked = x.blocked
  /\ DOMAIN x.lane \subseteq DOMAIN y.lane
  /\ \A i \in DOMAIN x.lane : y.lane[i] = x.lane[i]
  /\ \A i \in DOMAIN y.lane \ DOMAIN x.lane : ~Opens(y.lane[i])
  /\ \A i \in DOMAIN x.lane, j \in DOMAIN y.lane : j < i => j \in DOMAIN x.lane

\* A slot that is empty or newly reserved.
NewSlot(b) == b # None => ~b.started /\ ~b.errors /\ ~b.fatal /\ b.pc \in {"operation", "config"}

\* The slot after an execution a that ends.
Ends(a, b) == NewSlot(b) \/ \E pc \in {"release", "finish", "abandon"} : b = [a EXCEPT !.pc = pc]

\* A manager has the fields that the following lemmas speak of.
LEMMA ManagerShaped ==
  ASSUME NEW x \in Manager
  PROVE  Shaped(x)
BY DEF Manager, Shaped

\* A manager with the same lane, snapshot and ledger is a later one.
LEMMA LaterSame ==
  ASSUME NEW x, Shaped(x), NEW y, Shaped(y), y.snap = x.snap, y.blocked = x.blocked, y.lane = x.lane
  PROVE  Later(x, y)
BY DEF Later

\* A call that ends no pause, put behind the others, makes a later
\* manager.
LEMMA LaterCall ==
  ASSUME NEW x, Shaped(x), NEW c \in Call, ~Opens(c)
  PROVE  LET y == Enqueue(x, c)
         IN  Later(x, y) /\ y.active = x.active /\ y.failed = x.failed
<1> DEFINE y == Enqueue(x, c)
           l == x.lane
           k == Append(l, c)
<1>1. /\ k \in Seq(Call) /\ Len(l) \in Nat /\ DOMAIN l = 1..Len(l) /\ DOMAIN k = 1..(Len(l) + 1)
      /\ k[Len(l) + 1] = c /\ \A i \in 1..Len(l) : k[i] = l[i]
  BY DEF Shaped
<1>2. /\ Shaped(y) /\ y.lane = k /\ y.snap = x.snap /\ y.blocked = x.blocked
      /\ y.active = x.active /\ y.failed = x.failed
  BY <1>1 DEF Shaped, Enqueue
<1> HIDE DEF k, l, y
<1>3. /\ DOMAIN l \subseteq DOMAIN k /\ \A i \in DOMAIN l : k[i] = l[i]
      /\ \A i \in DOMAIN k \ DOMAIN l : k[i] = c
      /\ \A i \in DOMAIN l, j \in DOMAIN k : j < i => j \in DOMAIN l
  BY <1>1
<1> QED
  BY <1>2, <1>3 DEF Later, l, y

\* Later is transitive.
LEMMA LaterLater ==
  ASSUME NEW x, NEW y, NEW z, Later(x, y), Later(y, z)
  PROVE  Later(x, z)
BY DEF Later

\* wake() submits at most a background wake, which ends no pause.
LEMMA WakeIs ==
  ASSUME NEW x, Shaped(x)
  PROVE  LET y == Wake(x)
         IN  Later(x, y) /\ y.active = x.active /\ y.failed = x.failed
<1>1. CASE Wake(x) = x
  BY <1>1, LaterSame
<1>2. CASE Wake(x) # x
  <2> DEFINE w == CHOOSE w \in Unused(x) \cap Wakes : TRUE
             u == [x EXCEPT !.waking = TRUE]
             c == [kind |-> "submit", sub |-> w, idle |-> FALSE]
  <2>1. Wake(x) = Enqueue(u, c) /\ Unused(x) \cap Wakes # {}
    BY <1>2 DEF Wake
  <2>2. w \in Unused(x)
    BY <2>1
  <2> HIDE DEF w
  <2>3. c \in Call /\ ~Opens(c)
    BY <2>2 DEF Call, Unused, Opens
  <2> HIDE DEF c
  <2>4. /\ Shaped(u) /\ u.snap = x.snap /\ u.blocked = x.blocked /\ u.lane = x.lane
        /\ u.active = x.active /\ u.failed = x.failed
    BY DEF Shaped
  <2> HIDE DEF u
  <2> QED
    BY <2>1, <2>3, <2>4, LaterSame, LaterCall, LaterLater
<1> QED
  BY <1>1, <1>2

\* The slot is changed, with or without a call of the execution.
LEMMA LaterSlot ==
  ASSUME NEW x, Shaped(x), NEW b
  PROVE  LET y == [x EXCEPT !.active = b]
             z == Enqueue(y, [kind |-> "exec"])
         IN  /\ Later(x, y) /\ y.active = b /\ y.failed = x.failed
             /\ Later(x, z) /\ z.active = b /\ z.failed = x.failed
<1> DEFINE y == [x EXCEPT !.active = b]
           c == [kind |-> "exec"]
<1>1. /\ Shaped(y) /\ y.snap = x.snap /\ y.blocked = x.blocked /\ y.lane = x.lane
      /\ y.active = b /\ y.failed = x.failed
  BY DEF Shaped
<1>2. c \in Call /\ ~Opens(c)
  BY DEF Call, Opens
<1> HIDE DEF y, c
<1>3. Later(x, y)
  BY <1>1, LaterSame
<1>4. /\ Later(y, Enqueue(y, c)) /\ Enqueue(y, c).active = b /\ Enqueue(y, c).failed = x.failed
  BY <1>1, <1>2, LaterCall
<1>5. Later(x, Enqueue(y, c))
  BY <1>3, <1>4, LaterLater
<1> QED
  BY <1>1, <1>3, <1>4, <1>5 DEF y, c

\* kick() at most reserves a free slot.
LEMMA KickIs ==
  ASSUME NEW x, Shaped(x)
  PROVE  LET y == Kick(x)
         IN  Later(x, y) /\ y.failed = x.failed /\ (y.active = x.active \/ NewSlot(y.active))
             /\ (x.active # None => y.active = x.active)
<1>1. CASE Kick(x) = x
  BY <1>1, LaterSame
<1>2. CASE Kick(x) # x
  <2> DEFINE t == CHOOSE c \in Candidates(x) : TRUE
             b(pc) == Reserved(t, NewRun(x), pc)
  <2>1. \/ Kick(x) = Enqueue([x EXCEPT !.active = b("operation")], [kind |-> "exec"])
        \/ Kick(x) = [x EXCEPT !.active = b("config")]
    BY <1>2 DEF Kick
  <2>2. NewSlot(b("operation")) /\ NewSlot(b("config"))
    BY DEF NewSlot, Reserved
  <2>3. x.active = None
    BY <1>2 DEF Kick, MayStart
  <2> HIDE DEF b
  <2>4. LET z == Enqueue([x EXCEPT !.active = b("operation")], [kind |-> "exec"])
        IN  Later(x, z) /\ z.failed = x.failed /\ NewSlot(z.active)
    BY <2>2, LaterSlot
  <2>5. LET z == [x EXCEPT !.active = b("config")]
        IN  Later(x, z) /\ z.failed = x.failed /\ NewSlot(z.active)
    BY <2>2, LaterSlot
  <2> QED
    BY <2>1, <2>3, <2>4, <2>5
<1> QED
  BY <1>1, <1>2

\* wake() and kick() together do no more than each.
LEMMA WakeKickIs ==
  ASSUME NEW x, Shaped(x)
  PROVE  LET y == WakeKick(x)
         IN  Later(x, y) /\ y.failed = x.failed /\ (y.active = x.active \/ NewSlot(y.active))
             /\ (x.active # None => y.active = x.active)
<1>1. /\ Later(x, Wake(x)) /\ Wake(x).active = x.active /\ Wake(x).failed = x.failed
      /\ Shaped(Wake(x))
  BY WakeIs DEF Later
<1> QED
  BY <1>1, KickIs, LaterLater DEF WakeKick

\* The settling of a slot leaves it free or newly reserved, and fails the
\* manager only for a failure of its own.
LEMMA SettleIs ==
  ASSUME NEW x, Shaped(x), NEW failure \in BOOLEAN
  PROVE  LET y == Settle(x, failure)
         IN  Later(x, y) /\ NewSlot(y.active) /\ y.failed = (x.failed \/ failure)
<1> DEFINE a == x.active
           held == x.suspended \/ (x.snap.sub[a.task] \in Wakes /\ x.snap.runState[a.run] # "completed")
           u == [x EXCEPT !.active = None, !.failed = @ \/ failure, !.suspended = held]
<1>1. Settle(x, failure) = WakeKick(u)
  BY DEF Settle
<1> HIDE DEF held
<1>2. /\ Shaped(u) /\ u.snap = x.snap /\ u.blocked = x.blocked /\ u.lane = x.lane
      /\ u.active = None /\ u.failed = (x.failed \/ failure)
  BY DEF Shaped
<1> HIDE DEF u
<1>3. Later(x, u)
  BY <1>2, LaterSame
<1>4. /\ Later(u, WakeKick(u)) /\ WakeKick(u).failed = u.failed /\ NewSlot(WakeKick(u).active)
  BY <1>2, WakeKickIs DEF NewSlot
<1>5. Later(x, WakeKick(u))
  BY <1>3, <1>4, LaterLater
<1> QED
  BY <1>1, <1>2, <1>4, <1>5

\* Giving the lease back, or settling at once when there is none, fails
\* the manager only for an error the execution has met.
LEMMA EndingIs ==
  ASSUME NEW x, Shaped(x), NEW a \in Active
  PROVE  LET y == Ending(x, a)
         IN  Later(x, y) /\ Ends(a, y.active) /\ (y.failed <=> x.failed \/ (y.failed /\ a.errors))
<1>1. CASE a.leased
  <2> DEFINE b == [a EXCEPT !.pc = "release"]
  <2>1. Ending(x, a) = [x EXCEPT !.active = b] /\ Ends(a, b)
    BY <1>1 DEF Ending, Ends
  <2> HIDE DEF b
  <2> QED
    BY <2>1, LaterSlot
<1>2. CASE ~a.leased
  <2> DEFINE u == [x EXCEPT !.active = a]
             failure == a.errors /\ (a.fatal \/ ~a.started)
  <2>1. Ending(x, a) = Settle(u, failure) /\ failure \in BOOLEAN /\ (failure => a.errors)
    BY <1>2 DEF Ending, Active
  <2> HIDE DEF failure
  <2>2. Later(x, u) /\ u.failed = x.failed /\ Shaped(u)
    BY LaterSlot DEF Later
  <2> HIDE DEF u
  <2>3. /\ Later(u, Settle(u, failure)) /\ NewSlot(Settle(u, failure).active)
        /\ Settle(u, failure).failed = (u.failed \/ failure)
    BY <2>1, <2>2, SettleIs
  <2>4. Later(x, Settle(u, failure))
    BY <2>2, <2>3, LaterLater
  <2> QED
    BY <2>1, <2>2, <2>3, <2>4 DEF Ends
<1> QED
  BY <1>1, <1>2

\* The same for finishing the run in the ledger first.
LEMMA SettlingIs ==
  ASSUME NEW x, Shaped(x), NEW a \in Active
  PROVE  LET y == Settling(x, a)
         IN  Later(x, y) /\ Ends(a, y.active) /\ (y.failed <=> x.failed \/ (y.failed /\ a.errors))
<1>1. CASE a.started \/ (a.aborted /\ ~x.blocked)
  <2> DEFINE b == [a EXCEPT !.pc = "finish"]
  <2>1. /\ Settling(x, a) = Enqueue([x EXCEPT !.active = b], [kind |-> "exec"])
        /\ Ends(a, b)
    BY <1>1 DEF Settling, Ends
  <2> HIDE DEF b
  <2>2. LET z == Enqueue([x EXCEPT !.active = b], [kind |-> "exec"])
        IN  Later(x, z) /\ z.active = b /\ z.failed = x.failed
    BY LaterSlot
  <2> QED
    BY <2>1, <2>2
<1>2. CASE ~(a.started \/ (a.aborted /\ ~x.blocked))
  BY <1>2, EndingIs DEF Settling
<1> QED
  BY <1>1, <1>2

\* The same for the whole finally block of #execute.
LEMMA CleanupIs ==
  ASSUME NEW x, Shaped(x), NEW a \in Active
  PROVE  LET y == Cleanup(x, a)
         IN  Later(x, y) /\ Ends(a, y.active) /\ (y.failed <=> x.failed \/ (y.failed /\ a.errors))
<1>1. CASE a.made
  <2> DEFINE b == [a EXCEPT !.pc = "abandon"]
  <2>1. Cleanup(x, a) = [x EXCEPT !.active = b] /\ Ends(a, b)
    BY <1>1 DEF Cleanup, Ends
  <2> HIDE DEF b
  <2> QED
    BY <2>1, LaterSlot
<1>2. CASE ~a.made
  BY <1>2, SettlingIs DEF Cleanup
<1> QED
  BY <1>1, <1>2

-----------------------------------------------------------------------------
(***************************************************************************)
(* Sessions that never fail by themselves.                                 *)
(***************************************************************************)
\* Nothing has been thrown, and the task is not being given up for a deadline.
Good(b) == b \in Active /\ ~b.errors /\ b.pc # "expire"

Clean(x) ==
  /\ ~x.failed /\ ~x.blocked
  /\ x.active # None => ~x.active.errors /\ x.active.pc # "expire"

\* Reserving a free slot throws nothing.
LEMMA CleanKeeps ==
  ASSUME NEW x, Clean(x), NEW y, y.failed = x.failed, y.blocked = x.blocked,
         y.active = x.active \/ NewSlot(y.active)
  PROVE  Clean(y)
BY DEF Clean, NewSlot

\* An execution that has thrown nothing ends without a failure.
LEMMA EndsClean ==
  ASSUME NEW a, Good(a), NEW b, Ends(a, b), b # None
  PROVE  ~b.errors /\ b.pc # "expire"
BY DEF Good, Ends, NewSlot, Active

\* The finally block and the settling of an execution in which nothing was thrown.
LEMMA CleanEnd ==
  ASSUME NEW x, Shaped(x), ~x.failed, ~x.blocked, NEW a, Good(a)
  PROVE  Clean(Cleanup(x, a)) /\ Clean(Settling(x, a)) /\ Clean(Ending(x, a))
<1> SUFFICES ASSUME NEW y, Later(x, y), Ends(a, y.active),
                    y.failed <=> x.failed \/ (y.failed /\ a.errors)
             PROVE  Clean(y)
  BY CleanupIs, SettlingIs, EndingIs DEF Good
<1>1. ~y.failed /\ ~y.blocked
  BY DEF Good, Later
<1> QED
  BY <1>1, EndsClean DEF Clean

\* A slot that settles without a failure leaves a clean manager.
LEMMA CleanSettle ==
  ASSUME NEW x, Shaped(x), ~x.failed, ~x.blocked
  PROVE  Clean(Settle(x, FALSE))
<1>1. LET y == Settle(x, FALSE)
      IN  Later(x, y) /\ NewSlot(y.active) /\ y.failed = (x.failed \/ FALSE)
  BY SettleIs
<1> QED
  BY <1>1 DEF Later, NewSlot, Clean

\* The execution moves on.
LEMMA CleanMove ==
  ASSUME NEW x, Shaped(x), ~x.failed, ~x.blocked, NEW b, Good(b)
  PROVE  Clean([x EXCEPT !.active = b]) /\ Clean(Enqueue([x EXCEPT !.active = b], [kind |-> "exec"]))
<1>1. LET y == [x EXCEPT !.active = b]
          z == Enqueue(y, [kind |-> "exec"])
      IN  /\ Later(x, y) /\ y.active = b /\ y.failed = x.failed
          /\ Later(x, z) /\ z.active = b /\ z.failed = x.failed
  BY LaterSlot
<1> QED
  BY <1>1 DEF Later, Good, Clean

\* What #execute notes down in the ordinary course throws nothing.
LEMMA GoodVariants ==
  ASSUME NEW a, Good(a)
  PROVE  /\ Good(Cancelled(a))
         /\ \A pc \in Pcs \ {"expire"} : Good([a EXCEPT !.pc = pc])
         /\ \A o \in Outcomes : Good([a EXCEPT !.outcome = o])
         /\ Good([a EXCEPT !.made = TRUE]) /\ Good([a EXCEPT !.started = TRUE])
         /\ \A h \in BOOLEAN : Good([a EXCEPT !.leased = h])
<1>1. Good(Cancelled(a)) /\ \A o \in Outcomes : Good([a EXCEPT !.outcome = o])
  BY DEF Good, Cancelled, Active, Outcomes
<1>2. \A pc \in Pcs \ {"expire"} : Good([a EXCEPT !.pc = pc])
  BY DEF Good, Active, Pcs
<1>3. /\ Good([a EXCEPT !.made = TRUE]) /\ Good([a EXCEPT !.started = TRUE])
      /\ \A h \in BOOLEAN : Good([a EXCEPT !.leased = h])
  BY DEF Good, Active
<1> QED
  BY <1>1, <1>2, <1>3

\* The facts on a clean manager that the cases of #execute use.
LEMMA CleanActive ==
  ASSUME Inv(m), Clean(m)
  PROVE  Shaped(m) /\ ~m.failed /\ ~m.blocked /\ (m.active # None => Good(m.active))
BY ManagerShaped DEF Inv, Manager, Clean, Good

\* Without deadlines #execute throws nothing between two ports unless one
\* of them fails.
LEMMA CleanExecution ==
  ASSUME ~Deadlines, Inv(m), Clean(m), Execution \/ Supplement
  PROVE  faulted' \/ Clean(m')
<1> DEFINE a == m.active
<1>1. Shaped(m) /\ ~m.failed /\ ~m.blocked
  BY CleanActive
<1>2. Good(a)
  BY CleanActive DEF Execution, Supplement, Configured, Acquired, Created, Executed, Disposed,
                     Released, Operated, At
<1>3. \A b : Good(b) => Clean(Cleanup(m, b)) /\ Clean(Settling(m, b))
  BY <1>1, CleanEnd
<1>4. ASSUME NEW b, Good(b), NEW pc \in Pcs \ {"expire"}
      PROVE  Clean(Goto(b, pc)) /\ Clean(Request(b, pc))
  <2> DEFINE c == [b EXCEPT !.pc = pc]
  <2>1. Good(c)
    BY <1>4, GoodVariants
  <2>2. Goto(b, pc) = [m EXCEPT !.active = c]
        /\ Request(b, pc) = Enqueue([m EXCEPT !.active = c], [kind |-> "exec"])
    BY DEF Goto, Request
  <2> HIDE DEF c
  <2> QED
    BY <1>1, <2>1, <2>2, CleanMove
<1> HIDE DEF a
<1>5. CASE Configured
  <2>1. \/ faulted'
        \/ m' \in {Cleanup(m, Cancelled(a)), Goto(a, "acquire"), Request(a, "start")}
    BY <1>5 DEF Configured, Step, FaultStep, Fault, a
  <2>2. "acquire" \in Pcs \ {"expire"} /\ "start" \in Pcs \ {"expire"}
    BY DEF Pcs
  <2> QED
    BY <1>2, <1>3, <1>4, <2>1, <2>2, GoodVariants
<1>6. CASE Acquired
  <2> DEFINE l(held) == [a EXCEPT !.leased = held]
  <2>1. \/ faulted'
        \/ m' = Goto(l(TRUE), "reconfig")
        \/ \E held \in BOOLEAN : m' = Cleanup(m, Cancelled(l(held)))
    BY <1>6 DEF Acquired, Step, FaultStep, Fault, a
  <2>2. "reconfig" \in Pcs \ {"expire"}
    BY DEF Pcs
  <2>3. \A held \in BOOLEAN : Good(l(held))
    BY <1>2, GoodVariants
  <2> HIDE DEF l
  <2>4. \A held \in BOOLEAN : Good(Cancelled(l(held)))
    BY <2>3, GoodVariants
  <2> QED
    BY <1>3, <1>4, <2>1, <2>2, <2>3, <2>4
<1>7. CASE Created
  <2> DEFINE b == [a EXCEPT !.made = TRUE]
             x == Goto(b, "execute")
  <2>1. faulted' \/ m' \in {Cleanup(m, Cancelled(b)), [x EXCEPT !.inbox = FALSE]}
    BY <1>7 DEF Created, Step, FaultStep, Fault, a
  <2>2. Good(b) /\ "execute" \in Pcs \ {"expire"}
    BY <1>2, GoodVariants DEF Pcs
  <2> HIDE DEF b
  <2>3. Good(Cancelled(b)) /\ Clean(x)
    BY <1>4, <2>2, GoodVariants
  <2>4. Shaped(x)
    BY <1>1 DEF Goto, Shaped
  <2> HIDE DEF x
  <2>5. Clean([x EXCEPT !.inbox = FALSE])
    BY <2>3, <2>4 DEF Clean, Shaped
  <2> QED
    BY <1>3, <2>1, <2>3, <2>5
<1>8. CASE Supplement
  <2>1. m' = Request(a, "supplement") /\ "supplement" \in Pcs \ {"expire"}
    BY <1>8 DEF Supplement, Step, a, Pcs
  <2> QED
    BY <1>2, <1>4, <2>1
<1>9. CASE Executed
  <2> DEFINE b(o) == [a EXCEPT !.outcome = IF a.aborted THEN "cancelled" ELSE o]
  <2>1. faulted' \/ \E o \in Outcomes : m' = Cleanup(m, b(o))
    BY <1>9 DEF Executed, Step, FaultStep, Fault, a
  <2>2. \A o \in Outcomes : Good(b(o))
    BY <1>2, GoodVariants DEF Outcomes
  <2> HIDE DEF b
  <2> QED
    BY <1>3, <2>1, <2>2
<1>10. CASE Disposed
  <2>1. faulted' \/ m' = Settling(m, a)
    BY <1>10 DEF Disposed, Step, FaultStep, Fault, a
  <2> QED
    BY <1>2, <1>3, <2>1
<1>11. CASE Released
  <2>1. faulted' \/ m' = Settle(m, a.errors /\ (a.fatal \/ ~a.started))
    BY <1>11 DEF Released, Step, FaultStep, Fault, a
  <2>2. (a.errors /\ (a.fatal \/ ~a.started)) = FALSE
    BY <1>2 DEF Good, Active
  <2> QED
    BY <1>1, <2>1, <2>2, CleanSettle
<1>12. CASE Operated
  <2> DEFINE b == [a EXCEPT !.outcome = IF a.aborted THEN "cancelled" ELSE "completed"]
  <2>1. faulted' \/ m' = Request(b, "operated")
    BY <1>12 DEF Operated, Step, FaultStep, Fault, a
  <2>2. Good(b) /\ "operated" \in Pcs \ {"expire"}
    BY <1>2, GoodVariants DEF Outcomes, Pcs
  <2> HIDE DEF b
  <2> QED
    BY <1>4, <2>1, <2>2
<1> QED
  BY <1>5, <1>6, <1>7, <1>8, <1>9, <1>10, <1>11, <1>12 DEF Execution

\* A refused call finds that an edit or a pause was first.
LEMMA CleanRefused ==
  ASSUME NEW x, Free(x), ~x.failed, ~x.blocked, x.active # None, Good(x.active),
         x.active.pc \in LanePcs, Phase(x.active), Sound(x.snap), Work(x.snap, x.active),
         ExecEvents(x) = <<>>
  PROVE  Clean(Refused(x))
<1> DEFINE a == x.active
           s == x.snap
           b == [a EXCEPT !.pc = "execute"]
<1>1. Shaped(x) /\ a \in Active
  BY ManagerShaped DEF Free, Base, Good
<1>2. CASE a.pc = "operation"
  BY <1>1, <1>2, CleanSettle DEF Refused
<1>3. CASE a.pc = "supplement"
  <2>1. Good(b) /\ Refused(x) = [x EXCEPT !.active = b]
    BY <1>3, GoodVariants DEF Refused, Pcs
  <2> HIDE DEF b
  <2> QED
    BY <1>1, <2>1, CleanMove
<1>4. CASE a.pc = "start"
  <2>1. Held(s, a) /\ ~a.started
    BY <1>4, HeldIs DEF Operating, Phase
  <2>2. LostClaim(s, a)
    BY <1>4, <2>1 DEF LostClaim, Held, Unstarted, Over
  <2>3. Refused(x) \in {Cleanup(x, Cancelled(a)), Cleanup(x, a)}
    BY <1>4, <2>2 DEF Refused
  <2> QED
    BY <1>1, <2>3, GoodVariants, CleanEnd
<1>5. a.pc \notin {"expired", "operated"}
  BY DEF ExecEvents, FinishOperationEvents
<1>6. a.pc # "hold" /\ ~(a.pc = "finish" /\ ~a.started)
  <2>1. PauseEvents(TRUE) # <<>>
    BY DEF PauseEvents
  <2> QED
    BY <2>1 DEF ExecEvents
<1>7. ~(a.pc = "finish" /\ a.started)
  <2> SUFFICES ASSUME a.pc = "finish", a.started PROVE FALSE
    OBVIOUS
  <2>1. Held(s, a) /\ a.run \in Runs /\ a.outcome \in Outcomes
    BY <1>1, HeldIs DEF Operating, Active
  <2>2. FinishEvents(s, a.run, a.outcome) # <<>>
    BY <2>1, FinishIs DEF Held
  <2> QED
    BY <2>2 DEF ExecEvents
<1> QED
  BY <1>2, <1>3, <1>4, <1>5, <1>6, <1>7 DEF LanePcs, Good

\* The continuation of an accepted call.
LEMMA CleanResumed ==
  ASSUME NEW x, Shaped(x), ~x.failed, ~x.blocked, x.active # None, Good(x.active),
         x.active.pc \in LanePcs
  PROVE  Clean(Resumed(x))
<1> DEFINE a == x.active
           to(b, pc) == [x EXCEPT !.active = [b EXCEPT !.pc = pc]]
           b == [a EXCEPT !.started = TRUE]
<1>1. ASSUME NEW c, Good(c), NEW pc \in Pcs \ {"expire"}
      PROVE  Clean(to(c, pc)) /\ Clean(Enqueue(to(c, pc), [kind |-> "exec"]))
  <2> DEFINE d == [c EXCEPT !.pc = pc]
  <2>1. Good(d)
    BY <1>1, GoodVariants
  <2> HIDE DEF d
  <2>2. Clean([x EXCEPT !.active = d]) /\ Clean(Enqueue([x EXCEPT !.active = d], [kind |-> "exec"]))
    BY <2>1, CleanMove
  <2> QED
    BY <2>2 DEF d
<1>2. Good(b)
  BY GoodVariants
<1>3. Good(Cancelled(b))
  BY <1>2, GoodVariants
<1>4. {"create", "expired", "execute", "operate"} \subseteq Pcs \ {"expire"}
  BY DEF Pcs
<1>5. Clean(Cleanup(x, Cancelled(b))) /\ Clean(Cleanup(x, a)) /\ Clean(Ending(x, a))
      /\ Clean(Settle(x, FALSE))
  BY <1>3, CleanEnd, CleanSettle
<1>6. /\ Clean(to(b, "create")) /\ Clean(Enqueue(to(a, "expired"), [kind |-> "exec"]))
      /\ Clean(to(a, "execute")) /\ Clean(to(a, "operate"))
  BY <1>1, <1>2, <1>4
<1> HIDE DEF to
<1>7. Resumed(x) \in {Cleanup(x, Cancelled(b)), to(b, "create"), Cleanup(x, a), Ending(x, a),
                      Enqueue(to(a, "expired"), [kind |-> "exec"]), to(a, "execute"),
                      to(a, "operate"), Settle(x, FALSE)}
  BY DEF Resumed, to, LanePcs
<1> QED
  BY <1>5, <1>6, <1>7

\* A commit that succeeds changes the snapshot and the waiting edits only.
LEMMA CommittedFrame ==
  ASSUME NEW x \in Manager, NEW es
  PROVE  LET y == Committed(x, es)
         IN  /\ Shaped(y) /\ y.failed = x.failed /\ y.blocked = x.blocked /\ y.active = x.active
<1> DEFINE o == Outdated(x.lane)
           n == Replayed(x.snap, es)
           y == [x EXCEPT !.snap = n, !.lane = o]
<1>1. x.lane \in Seq(Call) /\ Shaped(x)
  BY ManagerShaped DEF Manager
<1>2. o \in Seq(Call)
  BY <1>1, OutdatedIs
<1>3. Committed(x, es) = x \/ Committed(x, es) = y
  BY DEF Committed
<1> HIDE DEF o, n
<1>4. Shaped(y) /\ y.failed = x.failed /\ y.blocked = x.blocked /\ y.active = x.active
  BY <1>1, <1>2 DEF Shaped
<1> HIDE DEF y
<1> QED
  BY <1>1, <1>3, <1>4

\* A call that leaves the lane leaves the rest of the manager alone.
LEMMA ServedFrame ==
  ASSUME Inv(m), m.lane # <<>>
  PROVE  LET y == Served(m)
         IN  /\ y \in Manager /\ y.failed = m.failed /\ y.blocked = m.blocked
             /\ y.active = m.active /\ y.snap = m.snap
<1>1. m \in Manager /\ Tail(m.lane) \in Seq(Call)
  BY DEF Inv, Manager
<1> QED
  BY <1>1 DEF Served, Manager

\* No call in the lane is refused with an error that #execute does not
\* forgive, unless a commit fails or its events are refused.
LEMMA CleanTurn ==
  ASSUME Inv(m), Clean(m), Turn
  PROVE  faulted' \/ Clean(m')
<1> DEFINE y == Served(m)
           c == Head(m.lane)
<1>0. m.lane # <<>>
  BY DEF Turn
<1>1. /\ y \in Manager /\ ~y.failed /\ ~y.blocked /\ y.active = m.active /\ y.snap = m.snap
  BY <1>0, ServedFrame DEF Clean
<1>2. m.active # None => Good(m.active)
  BY CleanActive
<1>3. Clean(y)
  BY <1>1 DEF Clean
<1>4. ASSUME NEW es
      PROVE  LET z == Committed(y, es)
             IN  Shaped(z) /\ Clean(z) /\ z.active = m.active
  BY <1>1, <1>3, CommittedFrame DEF Clean
<1>5. CASE ExecTurn
  <2>1. /\ Free(y) /\ m.active # None /\ m.active.pc \in LanePcs
        /\ Phase(m.active) /\ Work(m.snap, m.active) /\ Sound(m.snap)
    BY <1>0, <1>5, ExecServed DEF ExecTurn, Inv
  <2>2. ExecEvents(y) = ExecEvents(m)
    BY <1>1 DEF ExecEvents
  <2>3. m' = IF ExecEvents(m) = <<>> THEN Refused(y) ELSE Resumed(Committed(y, ExecEvents(m)))
    BY <1>5 DEF ExecTurn, Step
  <2> HIDE DEF y
  <2>4. CASE ExecEvents(m) = <<>>
    BY <1>1, <1>2, <2>1, <2>2, <2>3, <2>4, CleanRefused
  <2>5. CASE ExecEvents(m) # <<>>
    <3> DEFINE z == Committed(y, ExecEvents(m))
    <3>1. Shaped(z) /\ Clean(z) /\ z.active = m.active
      BY <1>4
    <3> HIDE DEF z
    <3>2. Clean(Resumed(z))
      BY <1>2, <2>1, <3>1, CleanResumed DEF Clean
    <3> QED
      BY <2>3, <2>5, <3>2 DEF z
  <2> QED
    BY <2>4, <2>5
<1>6. CASE StopTurn
  <2> DEFINE z == Committed(y, PauseEvents(TRUE))
             b == [m.active EXCEPT !.aborted = TRUE, !.stopping = FALSE]
  <2>1. Shaped(z) /\ Clean(z) /\ z.active = m.active
    BY <1>4
  <2>2. m' = Stopped(z)
    BY <1>6 DEF StopTurn, Step
  <2> HIDE DEF z
  <2>3. CASE m.active # None /\ m.active.stopping
    <3>1. Good(b)
      BY <1>2, <2>3 DEF Good, Active
    <3>2. Stopped(z) = [z EXCEPT !.active = b]
      BY <2>1, <2>3 DEF Stopped, Shaped
    <3> HIDE DEF b
    <3> QED
      BY <2>1, <2>2, <3>1, <3>2, CleanMove DEF Clean
  <2>4. CASE ~(m.active # None /\ m.active.stopping)
    BY <2>1, <2>2, <2>4 DEF Stopped
  <2> QED
    BY <2>3, <2>4
<1>7. CASE SubmitTurn
  <2> DEFINE z == Committed(y, SubmitEvents(m.snap, c.sub, NewTask(m), None, c.idle))
             k == Kick(z)
  <2>1. Shaped(z) /\ Clean(z)
    BY <1>4
  <2>2. m' = [k EXCEPT !.waking = IF c.sub \in Wakes THEN FALSE ELSE @]
    BY <1>7 DEF SubmitTurn, Step
  <2> HIDE DEF z
  <2>3. Shaped(k) /\ Clean(k)
    <3>1. /\ Later(z, k) /\ k.failed = z.failed /\ (k.active = z.active \/ NewSlot(k.active))
      BY <2>1, KickIs
    <3> QED
      BY <2>1, <3>1, CleanKeeps DEF Later
  <2> HIDE DEF k, c
  <2> QED
    BY <2>2, <2>3 DEF Shaped, Clean
<1>8. CASE EditTurn
  <2> DEFINE es == IF c.fresh THEN EditEvents(m.snap, c) ELSE <<>>
             z == Committed(y, es)
             u == [z EXCEPT !.suspended = FALSE]
  <2>1. Shaped(z) /\ Clean(z)
    BY <1>4
  <2>2. m' \in {z, WakeKick(u), Kick(z)}
    BY <1>8 DEF EditTurn, Step
  <2> HIDE DEF z, es
  <2>3. Shaped(u) /\ Clean(u)
    BY <2>1 DEF Shaped, Clean
  <2> HIDE DEF u
  <2>4. Clean(WakeKick(u)) /\ Clean(Kick(z))
    BY <2>1, <2>3, WakeKickIs, KickIs, CleanKeeps DEF Later
  <2> QED
    BY <2>1, <2>2, <2>4
<1>9. CASE BlockedTurn \/ RejectedTurn
  BY <1>9 DEF BlockedTurn, RejectedTurn, FaultStep, Fault
<1> QED
  BY <1>5, <1>6, <1>7, <1>8, <1>9 DEF Turn

\* Clients and host throw nothing into an execution.
LEMMA CleanOthers ==
  ASSUME Inv(m), Clean(m), Expire \/ EndExclusive \/ Clients \/ Host
  PROVE  Clean(m')
<1>0. m \in Manager /\ Shaped(m) /\ ~m.failed /\ ~m.blocked /\ (m.active # None => Good(m.active))
  BY CleanActive DEF Inv
<1>1. ASSUME NEW x, Shaped(x), x.failed = m.failed, x.blocked = m.blocked, x.active = m.active
      PROVE  /\ Clean(x) /\ Clean(Wake(x)) /\ Clean(WakeKick(x))
             /\ \A c \in Call : ~Opens(c) => Clean(Enqueue(x, c))
  <2>1. Clean(x)
    BY <1>1, CleanKeeps
  <2>2. Clean(Wake(x)) /\ Clean(WakeKick(x))
    BY <1>1, <2>1, WakeIs, WakeKickIs, CleanKeeps DEF Later
  <2>3. \A c \in Call : ~Opens(c) => Clean(Enqueue(x, c))
    BY <1>1, <2>1, LaterCall, CleanKeeps DEF Later
  <2> QED
    BY <2>1, <2>2, <2>3
<1>2. ASSUME NEW x, Shaped(x), Clean(x), NEW c
      PROVE  Clean(Enqueue(x, c))
  BY <1>2 DEF Enqueue, Shaped, Clean
<1>3. CASE Clients
  <2> DEFINE x == [m EXCEPT !.suspended = FALSE]
             b == [m.active EXCEPT !.stopping = TRUE]
             z == [m EXCEPT !.active = b]
  <2>1. \/ \E c : m' = Enqueue(x, c)
        \/ \E c : m' = Enqueue(m, c)
        \/ m.active # None /\ \E c : m' = Enqueue(z, c)
    BY <1>3 DEF Clients, Submit, Edit, Resume, Stop
  <2>2. Shaped(x) /\ x.failed = m.failed /\ x.blocked = m.blocked /\ x.active = m.active
    BY <1>0 DEF Shaped
  <2>3. m.active # None => Good(b)
    BY <1>0 DEF Good, Active
  <2>4. Shaped(z)
    BY <1>0 DEF Shaped
  <2> HIDE DEF x, b
  <2>5. Clean(x) /\ (m.active # None => Clean(z))
    BY <1>0, <1>1, <2>2, <2>3, CleanMove
  <2> HIDE DEF z
  <2> QED
    BY <1>0, <1>2, <2>1, <2>2, <2>4, <2>5
<1>4. CASE Exclusive \/ EndExclusive \/ Hold \/ Unhold \/ Notify
  <2>1. \E x : /\ Shaped(x) /\ x.failed = m.failed /\ x.blocked = m.blocked /\ x.active = m.active
               /\ m' \in {x, Wake(x), WakeKick(x)}
    BY <1>0, <1>4 DEF Exclusive, EndExclusive, Hold, Unhold, Notify, Step, Shaped
  <2> QED
    BY <1>1, <2>1
<1>5. CASE Expire \/ Dispose
  <2> DEFINE x == IF Expire THEN m ELSE [m EXCEPT !.closed = TRUE]
             b == [m.active EXCEPT !.aborted = TRUE]
  <2>1. Shaped(x) /\ x.failed = m.failed /\ x.blocked = m.blocked /\ x.active = m.active
    BY <1>0 DEF Shaped
  <2>2. \/ m' = [x EXCEPT !.active = b] /\ m.active # None
        \/ m' = x
    BY <1>0, <1>5 DEF Expire, Dispose, Step, At, Manager
  <2>3. m.active # None => Good(b)
    BY <1>0 DEF Good, Active
  <2> HIDE DEF x, b
  <2> QED
    BY <1>0, <1>1, <2>1, <2>2, <2>3, CleanMove
<1> QED
  BY <1>3, <1>4, <1>5 DEF Host

\* A fault is remembered.
LEMMA FaultedStays ==
  ASSUME faulted, Next
  PROVE  faulted'
<1>1. CASE Turn
  BY <1>1 DEF Turn, ExecTurn, StopTurn, SubmitTurn, EditTurn, BlockedTurn, RejectedTurn, Step,
              FaultStep, Fault
<1>2. CASE Execution
  BY <1>2 DEF Execution, Configured, Acquired, Created, Executed, Disposed, Released,
              Operated, Step, FaultStep, Fault
<1>3. CASE Supplement \/ Expire \/ EndExclusive \/ Host
  BY <1>3 DEF Supplement, Expire, EndExclusive, Host, Exclusive, Hold, Unhold, Notify,
              Dispose, Step
<1>4. CASE Clients
  BY <1>4 DEF Clients, Submit, Edit, Resume, Stop
<1> QED
  BY <1>1, <1>2, <1>3, <1>4 DEF Next

\* Without deadlines only a fault ends a clean manager.
LEMMA StepClean ==
  ~Deadlines /\ IInv /\ (faulted \/ Clean(m)) /\ [Next]_vars => (faulted \/ Clean(m))'
<1> SUFFICES ASSUME ~Deadlines, IInv, faulted \/ Clean(m), [Next]_vars
             PROVE  faulted' \/ Clean(m')
  OBVIOUS
<1>1. CASE Next /\ faulted
  BY <1>1, FaultedStays
<1>2. CASE Next /\ Clean(m)
  BY <1>2, CleanExecution, CleanTurn, CleanOthers DEF Next, IInv
<1>3. CASE UNCHANGED vars
  BY <1>3 DEF vars
<1> QED
  BY <1>1, <1>2, <1>3

\* RacesNeverFail: where clients set no deadline, no order of edits, stops,
\* pauses, holds and reservations makes a session fail for good; only a port or
\* a commit that failed does.
THEOREM RacesDoNotFail ==
  ASSUME ~Deadlines
  PROVE  Spec => []RacesNeverFail
<1>1. Init => faulted \/ Clean(m)
  BY DEF Init, Clean
<1>2. IInv /\ (faulted \/ Clean(m)) /\ [Next]_vars => (faulted \/ Clean(m))'
  BY StepClean
<1>3. Spec => []IInv
  BY InitIInv, StepIInv, PTL DEF Spec
<1>4. (faulted \/ Clean(m)) => RacesNeverFail
  BY DEF Clean, RacesNeverFail
<1> QED
  BY <1>1, <1>2, <1>3, <1>4, PTL DEF Spec

-----------------------------------------------------------------------------
(***************************************************************************)
(* What a stop keeps from being claimed.                                   *)
(***************************************************************************)
\* A stop waits for its pause, or its pause is durable.
Stopping(a) == a.stopping \/ a.aborted

\* A run that is started after a stop is the one being stopped.
Bound(b) == b # None /\ b.started => Stopping(b)
Bounded(b) == b \in Active /\ Bound(b)

NoOpens(x) == \A j \in DOMAIN x.lane : ~Opens(x.lane[j])

\* A stop is in the lane, behind all calls that may end a pause; what is
\* claimed before it belongs to the execution being stopped.
StopWaits(x) ==
  \E i \in DOMAIN x.lane :
    /\ x.lane[i].kind = "stop"
    /\ \A j \in DOMAIN x.lane : Opens(x.lane[j]) => j < i
    /\ \A j \in DOMAIN x.lane : j < i /\ x.lane[j].kind = "exec" => Stopping(x.active)

Halting(x) == StopWaits(x) \/ (NoOpens(x) /\ (x.snap.paused \/ x.blocked))

Safe(x) == Halting(x) /\ Bound(x.active)

\* A later manager is halting still, if its slot is the same or is being
\* stopped.
LEMMA HaltLater ==
  ASSUME NEW x, Halting(x), NEW y, Later(x, y),
         y.active = x.active \/ ~Has(x, {"exec"}) \/ Stopping(y.active)
  PROVE  Halting(y)
<1>1. CASE StopWaits(x)
  <2>1. PICK i \in DOMAIN x.lane :
          /\ x.lane[i].kind = "stop"
          /\ \A j \in DOMAIN x.lane : Opens(x.lane[j]) => j < i
          /\ \A j \in DOMAIN x.lane : j < i /\ x.lane[j].kind = "exec" => Stopping(x.active)
    BY <1>1 DEF StopWaits
  <2>2. i \in DOMAIN y.lane /\ y.lane[i].kind = "stop"
    BY <2>1 DEF Later
  <2>3. \A j \in DOMAIN y.lane : Opens(y.lane[j]) => j < i
    BY <2>1 DEF Later
  <2>4. \A j \in DOMAIN y.lane : j < i /\ y.lane[j].kind = "exec" => Stopping(y.active)
    BY <2>1 DEF Later, Has
  <2> QED
    BY <2>2, <2>3, <2>4 DEF Halting, StopWaits
<1>2. CASE NoOpens(x) /\ (x.snap.paused \/ x.blocked)
  BY <1>2 DEF Later, NoOpens, Halting
<1> QED
  BY <1>1, <1>2 DEF Halting

\* An execution that keeps its marks stays bound.
LEMMA SameBound ==
  ASSUME NEW a, Bounded(a), NEW b \in Active, b.started = a.started,
         b.stopping = a.stopping, b.aborted = a.aborted
  PROVE  Bounded(b)
BY NoneIsNoActive DEF Bounded, Bound, Stopping

\* An execution that is ending stays bound, and the reservation that may
\* follow it has started nothing.
LEMMA EndsBound ==
  ASSUME NEW a, Bounded(a), NEW b, Ends(a, b)
  PROVE  Bound(b)
<1>1. CASE NewSlot(b)
  BY <1>1 DEF NewSlot, Bound
<1>2. ASSUME NEW pc \in {"release", "finish", "abandon"}
      PROVE  Bound([a EXCEPT !.pc = pc])
  <2> DEFINE c == [a EXCEPT !.pc = pc]
  <2>1. /\ c \in Active /\ c.started = a.started /\ c.stopping = a.stopping
        /\ c.aborted = a.aborted
    BY DEF Bounded, Active
  <2> HIDE DEF c
  <2>2. Bounded(c)
    BY <2>1, SameBound
  <2> QED
    BY <2>2 DEF Bounded, c
<1> QED
  BY <1>1, <1>2 DEF Ends

\* The finally block and the settling of an execution.
LEMMA HaltEnd ==
  ASSUME NEW x, Shaped(x), Halting(x), ~Has(x, {"exec"}), NEW a, Bounded(a)
  PROVE  /\ Safe(Cleanup(x, a)) /\ Cleanup(x, a).snap = x.snap
         /\ Safe(Settling(x, a)) /\ Settling(x, a).snap = x.snap
         /\ Safe(Ending(x, a)) /\ Ending(x, a).snap = x.snap
<1> SUFFICES ASSUME NEW y, Later(x, y), Ends(a, y.active)
             PROVE  Safe(y) /\ y.snap = x.snap
  BY CleanupIs, SettlingIs, EndingIs DEF Bounded
<1> QED
  BY HaltLater, EndsBound DEF Safe, Later

\* Settling the slot of a halting manager is safe: it claims nothing.
LEMMA HaltSettle ==
  ASSUME NEW x, Shaped(x), Halting(x), ~Has(x, {"exec"}), NEW failure \in BOOLEAN
  PROVE  Safe(Settle(x, failure)) /\ Settle(x, failure).snap = x.snap
<1>1. Later(x, Settle(x, failure)) /\ NewSlot(Settle(x, failure).active)
  BY SettleIs
<1> QED
  BY <1>1, HaltLater DEF Safe, Later, NewSlot, Bound

\* The execution moves on.
LEMMA HaltMove ==
  ASSUME NEW x, Shaped(x), Halting(x), ~Has(x, {"exec"}), NEW b, Bounded(b)
  PROVE  LET y == [x EXCEPT !.active = b]
             z == Enqueue(y, [kind |-> "exec"])
         IN  Safe(y) /\ y.snap = x.snap /\ Safe(z) /\ z.snap = x.snap
<1>1. LET y == [x EXCEPT !.active = b]
          z == Enqueue(y, [kind |-> "exec"])
      IN  Later(x, y) /\ y.active = b /\ Later(x, z) /\ z.active = b
  BY LaterSlot
<1> QED
  BY <1>1, HaltLater DEF Safe, Later, Bounded

\* Whatever #execute notes down, short of a start, leaves it bound.
LEMMA BoundedVariants ==
  ASSUME NEW a, Bounded(a)
  PROVE  /\ Bounded(Cancelled(a)) /\ Bounded(Failed(a)) /\ Bounded(Thrown(a))
         /\ \A pc \in Pcs : Bounded([a EXCEPT !.pc = pc])
         /\ \A o \in Outcomes : Bounded([a EXCEPT !.outcome = o])
         /\ Bounded([a EXCEPT !.made = TRUE]) /\ Bounded([a EXCEPT !.fatal = TRUE])
         /\ Bounded([a EXCEPT !.errors = TRUE])
         /\ Stopping(a) => Bounded([a EXCEPT !.started = TRUE])
         /\ \A h \in BOOLEAN : Bounded([a EXCEPT !.leased = h])
<1> DEFINE Like(b) == /\ b \in Active /\ b.started = a.started /\ b.stopping = a.stopping
                      /\ b.aborted = a.aborted
<1>0. a \in Active
  BY DEF Bounded
<1>1. Like(Cancelled(a)) /\ Like(Failed(a)) /\ \A o \in Outcomes : Like([a EXCEPT !.outcome = o])
  BY <1>0 DEF Cancelled, Failed, Active, Outcomes
<1>2. \A pc \in Pcs : Like([a EXCEPT !.pc = pc])
  BY <1>0 DEF Active, Pcs
<1>3. /\ Like([a EXCEPT !.made = TRUE]) /\ Like([a EXCEPT !.fatal = TRUE])
      /\ Like([a EXCEPT !.errors = TRUE])
      /\ \A h \in BOOLEAN : Like([a EXCEPT !.leased = h])
  BY <1>0 DEF Active
<1>4. Stopping(a) => Bounded([a EXCEPT !.started = TRUE])
  BY <1>0 DEF Bounded, Bound, Stopping, Active
<1>5. \A b : Like(b) => Bounded(b)
  BY SameBound
<1> HIDE DEF Like
<1> QED
  BY <1>1, <1>2, <1>3, <1>4, <1>5 DEF Thrown

\* No await of #execute outside the lane claims a task or ends a pause.
LEMMA HaltExecution ==
  ASSUME Inv(m), Safe(m), Execution \/ Supplement
  PROVE  Safe(m') /\ m'.snap = m.snap
<1> DEFINE a == m.active
           Kept(x) == Safe(x) /\ x.snap = m.snap
<1>1. a # None /\ a.pc \notin LanePcs
  BY DEF Execution, Supplement, Configured, Acquired, Created, Executed, Disposed,
         Released, Operated, At, LanePcs
<1>2. Shaped(m) /\ Halting(m) /\ ~Has(m, {"exec"}) /\ Bounded(a)
  BY <1>1, Elsewhere, ManagerShaped DEF Safe, Bounded, Free, Inv
<1>3. \A b : Bounded(b) => Kept(Cleanup(m, b)) /\ Kept(Settling(m, b))
  BY <1>2, HaltEnd
<1>4. \A f \in BOOLEAN : Kept(Settle(m, f))
  BY <1>2, HaltSettle
<1>5. ASSUME NEW b, Bounded(b), NEW pc \in Pcs
      PROVE  Kept(Goto(b, pc)) /\ Kept(Request(b, pc))
  <2> DEFINE c == [b EXCEPT !.pc = pc]
  <2>1. Bounded(c)
    BY <1>5, BoundedVariants
  <2>2. Goto(b, pc) = [m EXCEPT !.active = c]
        /\ Request(b, pc) = Enqueue([m EXCEPT !.active = c], [kind |-> "exec"])
    BY DEF Goto, Request
  <2> HIDE DEF c
  <2> QED
    BY <1>2, <2>1, <2>2, HaltMove
<1> HIDE DEF a, Kept
<1> SUFFICES Kept(m')
  BY DEF Kept
<1>6. CASE Configured
  <2>1. m' \in {Cleanup(m, Cancelled(a)), Cleanup(m, Thrown(a)), Goto(a, "acquire"),
                Request(a, "start"), Request(a, "expire")}
    BY <1>6 DEF Configured, Step, FaultStep, a
  <2>2. {"acquire", "start", "expire"} \subseteq Pcs
    BY DEF Pcs
  <2> QED
    BY <1>2, <1>3, <1>5, <2>1, <2>2, BoundedVariants
<1>7. CASE Acquired
  <2> DEFINE l(held) == [a EXCEPT !.leased = held]
  <2>1. \/ m' \in {Goto(l(TRUE), "reconfig"), Cleanup(m, Thrown(a)), Request(a, "hold")}
        \/ \E held \in BOOLEAN : m' = Cleanup(m, Cancelled(l(held)))
    BY <1>7 DEF Acquired, Step, FaultStep, a
  <2>2. {"reconfig", "hold"} \subseteq Pcs
    BY DEF Pcs
  <2>3. \A held \in BOOLEAN : Bounded(l(held))
    BY <1>2, BoundedVariants
  <2> HIDE DEF l
  <2>4. Bounded(Thrown(a)) /\ \A held \in BOOLEAN : Bounded(Cancelled(l(held)))
    BY <1>2, <2>3, BoundedVariants
  <2> QED
    BY <1>2, <1>3, <1>5, <2>1, <2>2, <2>3, <2>4
<1>8. CASE Created
  <2> DEFINE b == [a EXCEPT !.made = TRUE]
             x == Goto(b, "execute")
  <2>1. m' \in {Cleanup(m, Cancelled(b)), Cleanup(m, Thrown(a)), [x EXCEPT !.inbox = FALSE]}
    BY <1>8 DEF Created, Step, FaultStep, a
  <2>2. Bounded(b) /\ Bounded(Thrown(a)) /\ "execute" \in Pcs
    BY <1>2, BoundedVariants DEF Pcs
  <2> HIDE DEF b
  <2>3. Bounded(Cancelled(b)) /\ Kept(x)
    BY <1>5, <2>2, BoundedVariants
  <2>4. Shaped(x)
    BY <1>2 DEF Goto, Shaped
  <2> HIDE DEF x
  <2>5. Kept([x EXCEPT !.inbox = FALSE])
    BY <2>3, <2>4 DEF Kept, Safe, Halting, StopWaits, NoOpens, Shaped
  <2> QED
    BY <1>3, <2>1, <2>2, <2>3, <2>5
<1>9. CASE Supplement
  <2>1. m' = Request(a, "supplement") /\ "supplement" \in Pcs
    BY <1>9 DEF Supplement, Step, a, Pcs
  <2> QED
    BY <1>2, <1>5, <2>1
<1>10. CASE Executed
  <2> DEFINE b(o) == [a EXCEPT !.outcome = IF a.aborted THEN "cancelled" ELSE o]
  <2>1. m' = Cleanup(m, Failed(a)) \/ \E o \in Outcomes : m' = Cleanup(m, b(o))
    BY <1>10 DEF Executed, Step, FaultStep, a
  <2>2. Bounded(Failed(a)) /\ \A o \in Outcomes : Bounded(b(o))
    BY <1>2, BoundedVariants DEF Outcomes
  <2> HIDE DEF b
  <2> QED
    BY <1>3, <2>1, <2>2
<1>11. CASE Disposed
  <2> DEFINE f == Failed(a)
             b == [f EXCEPT !.fatal = TRUE]
             c == [b EXCEPT !.leased = FALSE]
  <2>1. m' \in {Settling(m, a), Settling(m, c)}
    BY <1>11 DEF Disposed, Step, FaultStep, a
  <2>2. Bounded(f)
    BY <1>2, BoundedVariants
  <2> HIDE DEF f
  <2>3. Bounded(b)
    BY <2>2, BoundedVariants
  <2> HIDE DEF b
  <2>4. Bounded(c)
    BY <2>3, BoundedVariants
  <2> QED
    BY <1>2, <1>3, <2>1, <2>4
<1>12. CASE Released
  <2>1. \/ m' = Settle(m, a.errors /\ (a.fatal \/ ~a.started))
        \/ m' = Settle(m, TRUE)
    BY <1>12 DEF Released, Step, FaultStep, a
  <2>2. (a.errors /\ (a.fatal \/ ~a.started)) \in BOOLEAN
    BY <1>2 DEF Bounded, Active
  <2> QED
    BY <1>4, <2>1, <2>2
<1>13. CASE Operated
  <2> DEFINE b(o) == [a EXCEPT !.outcome = IF a.aborted THEN "cancelled" ELSE o]
             f == [b("failed") EXCEPT !.errors = TRUE]
  <2>1. m' \in {Request(b("completed"), "operated"), Request(f, "operated"), Settle(m, TRUE)}
    BY <1>13 DEF Operated, Step, FaultStep, a
  <2>2. "operated" \in Pcs /\ Bounded(b("completed")) /\ Bounded(b("failed"))
    BY <1>2, BoundedVariants DEF Outcomes, Pcs
  <2> HIDE DEF b
  <2>3. Bounded(f)
    BY <2>2, BoundedVariants
  <2> HIDE DEF f
  <2> QED
    BY <1>4, <1>5, <2>1, <2>2, <2>3
<1> QED
  BY <1>6, <1>7, <1>8, <1>9, <1>10, <1>11, <1>12, <1>13 DEF Execution

-----------------------------------------------------------------------------
(***************************************************************************)
(* Batches: only a resume or an idle submission ends a pause.              *)
(***************************************************************************)
SteadyOps == {"accept", "designate", "cancel", "return-steering", "operation-start",
              "operation-finish", "start", "claim", "finish", "move", "pause", "recover"}

Steady(b) == Len(b) \in Nat /\ \A i \in 1..Len(b) : b[i].op \in SteadyOps

\* Of all events only resume ends a pause.
LEMMA SteadyApply ==
  ASSUME NEW s, "paused" \in DOMAIN s, s.paused, NEW e, e.op \in SteadyOps
  PROVE  "paused" \in DOMAIN Apply(s, e) /\ Apply(s, e).paused
<1>1. CASE e.op \in {"accept", "designate", "cancel", "return-steering"}
  BY <1>1 DEF Apply, Accept, Designate, Cancel, ReturnSteering
<1>2. CASE e.op \in {"operation-start", "operation-finish", "start"}
  BY <1>2 DEF Apply, OperationStart, OperationFinish, RunStart
<1>3. CASE e.op \in {"claim", "finish"}
  BY <1>3 DEF Apply, Claim, RunFinish
<1>4. CASE e.op \in {"move", "pause", "recover"}
  BY <1>4 DEF Apply, Move, Recover
<1> QED
  BY <1>1, <1>2, <1>3, <1>4 DEF SteadyOps

\* A batch without a resume leaves a paused queue paused.
LEMMA PauseLasts ==
  ASSUME NEW s \in Snapshot, s.paused, NEW b, Steady(b)
  PROVE  Replayed(s, b).paused
<1> DEFINE N == Len(b)
           Paused(n) == "paused" \in DOMAIN n /\ n.paused
<1>1. N \in Nat /\ \A i \in 1..N : b[i].op \in SteadyOps
  BY DEF Steady
<1>2. PICK f : /\ f[0] = s /\ f[N] = Replayed(s, b)
               /\ \A i \in 1..N : f[i] = Apply(f[i - 1], b[i])
  BY <1>1, ReplaySteps
<1>3. Paused(f[0])
  BY <1>2 DEF Snapshot
<1>4. ASSUME NEW k \in 1..N, Paused(f[k - 1])
      PROVE  Paused(f[k])
  BY <1>1, <1>2, <1>4, SteadyApply
<1> DEFINE Bad == {k \in 0..N : ~Paused(f[k])}
<1> HIDE DEF Paused, N
<1>5. Bad = {}
  <2> SUFFICES ASSUME Bad # {} PROVE FALSE
    OBVIOUS
  <2>1. PICK k \in Bad : \A j \in Bad : k <= j
    <3>1. Bad \in SUBSET Nat
      BY <1>1
    <3> HIDE DEF Bad
    <3> QED
      BY <3>1, Least
  <2>2. k \in 1..N /\ k - 1 \in 0..N /\ k - 1 \notin Bad /\ ~Paused(f[k])
    BY <1>1, <1>3, <2>1
  <2> QED
    BY <1>4, <2>2
<1>6. Paused(f[N])
  BY <1>1, <1>5
<1> QED
  BY <1>2, <1>6 DEF Paused

\* Batches of none, one or two events without a resume.
LEMMA SteadyFew ==
  ASSUME NEW d, NEW e, d.op \in SteadyOps, e.op \in SteadyOps
  PROVE  Steady(<<>>) /\ Steady(<<d>>) /\ Steady(<<d, e>>)
<1>1. /\ Len(<<>>) = 0 /\ Len(<<d>>) = 1 /\ <<d>>[1] = d
      /\ Len(<<d, e>>) = 2 /\ <<d, e>>[1] = d /\ <<d, e>>[2] = e
  OBVIOUS
<1>2. 1..1 = {1} /\ 1..2 = {1, 2} /\ 1..0 = {}
  OBVIOUS
<1> QED
  BY <1>1, <1>2 DEF Steady

\* No call of the execution, no edit and no submission made while something
\* runs resumes the queue.
LEMMA ExecSteady ==
  ASSUME NEW x, Sound(x.snap), x.active \in Active, x.active.pc \in LanePcs
  PROVE  Steady(ExecEvents(x))
<1> DEFINE a == x.active
           s == x.snap
<1>0. Steady(<<>>)
  <2>1. [op |-> "pause"].op \in SteadyOps
    BY DEF SteadyOps
  <2> QED
    BY <2>1, SteadyFew
<1>1. CASE a.pc = "start"
  <2> DEFINE d == [op |-> "start", task |-> a.task, run |-> a.run]
             e == [op |-> "claim", task |-> a.task, run |-> a.run]
  <2>1. d.op \in SteadyOps /\ e.op \in SteadyOps
    BY DEF SteadyOps
  <2>2. ExecEvents(x) \in {<<>>, <<d, e>>}
    BY <1>1 DEF ExecEvents, StartEvents
  <2> HIDE DEF d, e
  <2> QED
    BY <1>0, <2>1, <2>2, SteadyFew
<1>2. CASE a.pc \in {"expire", "operation"}
  <2> DEFINE d == [op |-> "operation-start", task |-> a.task]
  <2>1. d.op \in SteadyOps
    BY DEF SteadyOps
  <2>2. ExecEvents(x) \in {<<>>, <<d>>}
    BY <1>2 DEF ExecEvents, StartOperationEvents
  <2> HIDE DEF d
  <2> QED
    BY <1>0, <2>1, <2>2, SteadyFew
<1>3. CASE a.pc \in {"expired", "operated"}
  <2> DEFINE d(o) == [op |-> "operation-finish", task |-> a.task, outcome |-> o]
  <2>1. \A o : d(o).op \in SteadyOps
    BY DEF SteadyOps
  <2>2. \E o : ExecEvents(x) = <<d(o)>>
    BY <1>3 DEF ExecEvents, FinishOperationEvents
  <2> HIDE DEF d
  <2> QED
    BY <2>1, <2>2, SteadyFew
<1>4. CASE a.pc = "supplement"
  <2>1. CASE CanSupplement(s, a.run)
    <3> DEFINE b == CHOOSE b \in SupplementBatches(s, a.run) : TRUE
    <3>1. WellFormed(s) /\ Whole(s) /\ a.run \in Runs
      BY DEF Sound, Active
    <3>2. b \in SupplementBatches(s, a.run)
      BY <3>1, SupplementExists
    <3>3. ExecEvents(x) = b
      BY <1>4, <2>1 DEF ExecEvents
    <3> HIDE DEF b
    <3>4. b \in Seq(Event) /\ Claims(s, b)
      BY <2>1, <3>1, <3>2, SupplementClaims
    <3> QED
      BY <3>3, <3>4 DEF Steady, Claims, SteadyOps
  <2>2. CASE ~CanSupplement(s, a.run)
    BY <1>0, <1>4, <2>2 DEF ExecEvents
  <2> QED
    BY <2>1, <2>2
<1>5. CASE a.pc = "finish" /\ a.started
  <2> DEFINE d == [op |-> "return-steering", run |-> a.run, ids |-> Steering(s, a.run)]
             e == [op |-> "finish", run |-> a.run, outcome |-> a.outcome]
  <2>1. d.op \in SteadyOps /\ e.op \in SteadyOps
    BY DEF SteadyOps
  <2>2. ExecEvents(x) = FinishEvents(s, a.run, a.outcome)
    BY <1>5 DEF ExecEvents
  <2>3. FinishEvents(s, a.run, a.outcome) \in {<<e>>, <<d, e>>}
    BY Concatenations DEF FinishEvents, ReturnEvents
  <2> HIDE DEF d, e
  <2> QED
    BY <2>1, <2>2, <2>3, SteadyFew
<1>6. CASE a.pc = "hold" \/ (a.pc = "finish" /\ ~a.started)
  <2> DEFINE d == [op |-> "pause"]
  <2>1. d.op \in SteadyOps /\ ExecEvents(x) = <<d>>
    BY <1>6 DEF ExecEvents, PauseEvents, SteadyOps
  <2> HIDE DEF d
  <2> QED
    BY <2>1, SteadyFew
<1> QED
  BY <1>1, <1>2, <1>3, <1>4, <1>5, <1>6 DEF LanePcs

\* A submission that did not find the session idle ends no pause.
LEMMA SubmissionSteady ==
  ASSUME NEW x, ~Head(x.lane).idle
  PROVE  Steady(Submission(x))
<1> DEFINE d == [op |-> "accept", task |-> NewTask(x), sub |-> Head(x.lane).sub, cont |-> None]
<1>1. d.op \in SteadyOps
  BY DEF SteadyOps
<1>2. Submission(x) = <<d>> \o <<>>
  BY DEF Submission, SubmitEvents
<1> HIDE DEF d
<1>3. Submission(x) = <<d>>
  BY <1>2, Concatenations
<1> QED
  BY <1>1, <1>3, SteadyFew

\* Naming a run for a task, cancelling and moving end no pause.
LEMMA EditSteady ==
  ASSUME NEW s, NEW c, c.kind \in {"designate", "cancel", "move"}
  PROVE  Steady(EditEvents(s, c))
<1> DEFINE p == [op |-> "pause"]
           d == [op |-> "return-steering", run |-> s.target[c.task], ids |-> {c.task}]
           e == [op |-> "designate", task |-> c.task, run |-> c.run]
           f == [op |-> "cancel", task |-> c.task]
           g == [op |-> "move", task |-> c.task, beforeTask |-> c.before]
<1>1. {p.op, d.op, e.op, f.op, g.op} \subseteq SteadyOps
  BY DEF SteadyOps
<1>2. EditEvents(s, c) \in {<<>>, <<d>>, <<e>>, <<f>>, <<g>>}
  BY DEF EditEvents, DesignateEvents, ReturnEvents, CancelEvents, MoveEvents
<1> HIDE DEF p, d, e, f, g
<1> QED
  BY <1>1, <1>2, SteadyFew

-----------------------------------------------------------------------------
(***************************************************************************)
(* Turns of the lane while a stop holds.                                   *)
(***************************************************************************)
\* The first call is taken out of the lane.
LEMMA ServedHalts ==
  ASSUME Inv(m), m.lane # <<>>, Halting(m)
  PROVE  LET y == Served(m)
             c == Head(m.lane)
         IN  /\ StopWaits(y) \/ NoOpens(y)
             /\ StopWaits(y) \/ m.snap.paused \/ m.blocked \/ c.kind = "stop"
             /\ Opens(c) => StopWaits(y)
             /\ c.kind = "exec" => Stopping(m.active) \/ m.snap.paused \/ m.blocked
<1> DEFINE y == Served(m)
           l == m.lane
           k == Tail(l)
<1>1. l \in Seq(Call) /\ m \in Manager
  BY DEF Inv, Manager
<1>2. /\ Head(l) = l[1] /\ Len(l) \in Nat /\ Len(l) # 0 /\ DOMAIN l = 1..Len(l)
      /\ DOMAIN k = 1..(Len(l) - 1) /\ \A i \in 1..(Len(l) - 1) : k[i] = l[i + 1]
  BY <1>1
<1>3. y.lane = k /\ y.active = m.active
  BY <1>1 DEF Served, Manager
<1> HIDE DEF k, y
<1>4. \A i \in DOMAIN k : i + 1 \in DOMAIN l /\ k[i] = l[i + 1]
  BY <1>2
<1>5. CASE StopWaits(m)
  <2>1. PICK i \in DOMAIN l :
          /\ l[i].kind = "stop"
          /\ \A j \in DOMAIN l : Opens(l[j]) => j < i
          /\ \A j \in DOMAIN l : j < i /\ l[j].kind = "exec" => Stopping(m.active)
    BY <1>5 DEF StopWaits
  <2>2. CASE i = 1
    <3>1. \A j \in DOMAIN l : ~Opens(l[j])
      BY <1>2, <2>1, <2>2
    <3>2. NoOpens(y) /\ ~Opens(l[1])
      BY <1>2, <1>3, <1>4, <3>1 DEF NoOpens
    <3> QED
      BY <1>2, <2>1, <2>2, <3>2 DEF y, l
  <2>3. CASE i # 1
    <3> DEFINE h == i - 1
    <3>1. h \in DOMAIN k /\ k[h].kind = "stop"
      BY <1>2, <2>1, <2>3
    <3>2. \A j \in DOMAIN k : Opens(k[j]) => j < h
      BY <1>2, <1>4, <2>1
    <3>3. \A j \in DOMAIN k : j < h /\ k[j].kind = "exec" => Stopping(m.active)
      BY <1>2, <1>4, <2>1
    <3>4. StopWaits(y)
      <4> HIDE DEF h
      <4> QED
        BY <1>3, <3>1, <3>2, <3>3 DEF StopWaits
    <3>5. l[1].kind = "exec" => Stopping(m.active)
      BY <1>2, <2>1, <2>3
    <3> QED
      BY <1>2, <3>4, <3>5 DEF y, l
  <2> QED
    BY <2>2, <2>3
<1>6. CASE NoOpens(m) /\ (m.snap.paused \/ m.blocked)
  <2>1. NoOpens(y) /\ ~Opens(l[1])
    BY <1>2, <1>3, <1>4, <1>6 DEF NoOpens
  <2> QED
    BY <1>2, <1>6, <2>1 DEF y, l
<1> QED
  BY <1>5, <1>6 DEF Halting

\* A batch is published: the calls wait as they did.
LEMMA CommittedHalts ==
  ASSUME NEW x \in Manager, NEW es,
         StopWaits(x) \/ (NoOpens(x) /\ (Committed(x, es).snap.paused \/ x.blocked))
  PROVE  LET y == Committed(x, es)
         IN  Halting(y) /\ (Has(y, {"exec"}) <=> Has(x, {"exec"}))
<1> DEFINE l == x.lane
           o == Outdated(l)
           n == Replayed(x.snap, es)
           y == [x EXCEPT !.snap = n, !.lane = o]
<1>1. CASE es = <<>>
  BY <1>1 DEF Committed, Halting
<1>2. CASE es # <<>>
  <2>1. Committed(x, es) = y
    BY <1>2 DEF Committed
  <2>2. l \in Seq(Call)
    BY DEF Manager
  <2>3. /\ DOMAIN o = DOMAIN l
        /\ \A i \in DOMAIN l : o[i].kind = l[i].kind
        /\ \A i \in DOMAIN l : l[i].kind = "submit" => o[i] = l[i]
    BY <2>2, OutdatedIs
  <2> HIDE DEF o, n
  <2>4. y.lane = o /\ y.active = x.active /\ y.blocked = x.blocked /\ y.snap = n
    BY DEF Manager
  <2> HIDE DEF y
  <2>5. \A i \in DOMAIN l : Opens(o[i]) <=> Opens(l[i])
    BY <2>3 DEF Opens
  <2>6. Has(y, {"exec"}) <=> Has(x, {"exec"})
    BY <2>3, <2>4 DEF Has, l
  <2>7. StopWaits(x) => StopWaits(y)
    BY <2>3, <2>4, <2>5 DEF StopWaits, l
  <2>8. NoOpens(x) => NoOpens(y)
    BY <2>3, <2>4, <2>5 DEF NoOpens, l
  <2> QED
    BY <2>1, <2>4, <2>6, <2>7, <2>8 DEF Halting
<1> QED
  BY <1>1, <1>2

\* The continuations of the execution.
LEMMA ResumedHalts ==
  ASSUME NEW x, Shaped(x), Halting(x), ~Has(x, {"exec"}), Bounded(x.active), x.active # None,
         x.active.pc \in LanePcs, x.active.pc = "start" => Stopping(x.active)
  PROVE  Safe(Resumed(x)) /\ Resumed(x).snap = x.snap
<1> DEFINE a == x.active
           Kept(y) == Safe(y) /\ y.snap = x.snap
           to(b, pc) == [x EXCEPT !.active = [b EXCEPT !.pc = pc]]
           b == [a EXCEPT !.started = TRUE]
<1>1. ASSUME NEW c, Bounded(c), NEW pc \in Pcs
      PROVE  Kept(to(c, pc)) /\ Kept(Enqueue(to(c, pc), [kind |-> "exec"]))
  <2> DEFINE d == [c EXCEPT !.pc = pc]
  <2>1. Bounded(d)
    BY <1>1, BoundedVariants
  <2> HIDE DEF d
  <2>2. Kept([x EXCEPT !.active = d]) /\ Kept(Enqueue([x EXCEPT !.active = d], [kind |-> "exec"]))
    BY <2>1, HaltMove
  <2> QED
    BY <2>2 DEF d
<1>2. a.pc = "start" => Bounded(b) /\ Bounded(Cancelled(b))
  BY BoundedVariants
<1>3. {"create", "expired", "execute", "operate"} \subseteq Pcs
  BY DEF Pcs
<1>4. Kept(Cleanup(x, a)) /\ Kept(Ending(x, a)) /\ Kept(Settle(x, FALSE))
      /\ (a.pc = "start" => Kept(Cleanup(x, Cancelled(b))))
  BY <1>2, HaltEnd, HaltSettle
<1>5. /\ a.pc = "start" => Kept(to(b, "create"))
      /\ Kept(Enqueue(to(a, "expired"), [kind |-> "exec"]))
      /\ Kept(to(a, "execute")) /\ Kept(to(a, "operate"))
  BY <1>1, <1>2, <1>3
<1> HIDE DEF to, Kept
<1>6. \/ a.pc = "start" /\ Resumed(x) \in {Cleanup(x, Cancelled(b)), to(b, "create")}
      \/ Resumed(x) \in {Cleanup(x, a), Ending(x, a), to(a, "execute"), to(a, "operate"),
                         Enqueue(to(a, "expired"), [kind |-> "exec"]), Settle(x, FALSE)}
  BY DEF Resumed, to, LanePcs
<1>7. Kept(Resumed(x))
  BY <1>4, <1>5, <1>6
<1> QED
  BY <1>7 DEF Kept

\* A refused call, or a ledger that blocks, leaves a halting manager safe.
LEMMA RefusedHalts ==
  ASSUME NEW x, Shaped(x), Halting(x), ~Has(x, {"exec"}), Bounded(x.active)
  PROVE  /\ Safe(Refused(x)) /\ Refused(x).snap = x.snap
         /\ Safe(Blocked(x)) /\ Blocked(x).snap = x.snap
         /\ Safe(Rejected(x)) /\ Rejected(x).snap = x.snap
<1> DEFINE a == x.active
           Kept(y) == Safe(y) /\ y.snap = x.snap
           b == [a EXCEPT !.pc = "execute"]
           f == Failed(a)
           g == [f EXCEPT !.fatal = TRUE]
           d == [f EXCEPT !.outcome = IF a.aborted THEN "cancelled" ELSE "failed"]
           z == Enqueue([x EXCEPT !.active = d], [kind |-> "exec"])
<1>1. Bounded(b)
  BY BoundedVariants DEF Pcs
<1>2. Bounded(f) /\ Bounded(Cancelled(a)) /\ Bounded(Thrown(a))
  BY BoundedVariants
<1> HIDE DEF f, b
<1>3. Bounded(g) /\ Bounded(d)
  BY <1>2, BoundedVariants DEF Outcomes
<1> HIDE DEF g, d
<1>4. /\ Kept(Cleanup(x, Cancelled(a))) /\ Kept(Cleanup(x, a)) /\ Kept(Cleanup(x, f))
      /\ Kept(Cleanup(x, Thrown(a))) /\ Kept(Ending(x, g)) /\ Kept([x EXCEPT !.active = b])
      /\ Kept(Settle(x, FALSE)) /\ Kept(Settle(x, TRUE)) /\ Kept(z)
  BY <1>1, <1>2, <1>3, HaltEnd, HaltSettle, HaltMove
<1> HIDE DEF Kept
<1>5. Refused(x) \in {Cleanup(x, Cancelled(a)), Cleanup(x, a), Cleanup(x, f),
                      [x EXCEPT !.active = b], Settle(x, FALSE)}
  BY DEF Refused, f, b
<1>6. Blocked(x) \in {Cleanup(x, Thrown(a)), Ending(x, g), Settle(x, TRUE)}
  BY DEF Blocked, f, g
<1>7. Rejected(x) \in {Cleanup(x, Thrown(a)), Ending(x, g), z}
  BY DEF Rejected, f, g, d
<1>8. Kept(Refused(x)) /\ Kept(Blocked(x)) /\ Kept(Rejected(x))
  BY <1>4, <1>5, <1>6, <1>7
<1> QED
  BY <1>8 DEF Kept

\* Under the pause only an execution that is being stopped may claim.
LEMMA ExecEscapes ==
  ASSUME NEW x, Sound(x.snap), Bounded(x.active), x.active # None, x.active.pc \in LanePcs,
         Phase(x.active), Work(x.snap, x.active), ~Stopping(x.active), x.snap.paused,
         ExecEvents(x) # <<>>
  PROVE  Claimed(Replayed(x.snap, ExecEvents(x))) \subseteq Claimed(x.snap)
<1> DEFINE a == x.active
           s == x.snap
           n == Replayed(s, ExecEvents(x))
<1>1. ~a.started /\ a.pc # "supplement"
  BY DEF Bounded, Bound, Phase
<1>2. a.pc \notin {"start", "expire", "operation"}
  BY DEF ExecEvents, CanStart, CanStartOperation
<1>3. CASE a.pc \in {"expired", "operated"}
  <2> DEFINE o == IF a.pc = "expired" THEN "cancelled" ELSE a.outcome
  <2>1. a.task \in Tasks /\ o \in Outcomes
    BY DEF Bounded, Active, Outcomes
  <2>2. ExecEvents(x) = FinishOperationEvents(a.task, o)
    BY <1>3 DEF ExecEvents
  <2> HIDE DEF o
  <2>3. Operation(s, a)
    BY <1>3 DEF Work, Operating
  <2>4. Over(n)
    BY <2>1, <2>2, <2>3, OperationFinishIs DEF Operation
  <2> QED
    BY <2>4 DEF Over
<1>4. CASE a.pc \in {"hold", "finish"}
  <2>1. ExecEvents(x) = PauseEvents(TRUE)
    BY <1>1, <1>4 DEF ExecEvents
  <2>2. SameWork(s, n)
    BY <2>1, PauseIs
  <2> QED
    BY <2>2 DEF SameWork
<1> QED
  BY <1>1, <1>2, <1>3, <1>4 DEF LanePcs

\* wake() and kick() take an empty slot only.
LEMMA KickHalts ==
  ASSUME NEW x, Shaped(x), Safe(x), x.active = None => ~Has(x, {"exec"})
  PROVE  /\ Safe(Kick(x)) /\ Kick(x).snap = x.snap
         /\ Safe(WakeKick(x)) /\ WakeKick(x).snap = x.snap
         /\ Safe(Wake(x)) /\ Wake(x).snap = x.snap
<1>1. ASSUME NEW y, Later(x, y), y.active = x.active \/ NewSlot(y.active),
             x.active # None => y.active = x.active
      PROVE  Safe(y) /\ y.snap = x.snap
  BY <1>1, HaltLater DEF Safe, Later, NewSlot, Bound
<1>2. /\ Later(x, Kick(x)) /\ (Kick(x).active = x.active \/ NewSlot(Kick(x).active))
      /\ x.active # None => Kick(x).active = x.active
  BY KickIs
<1>3. /\ Later(x, WakeKick(x)) /\ (WakeKick(x).active = x.active \/ NewSlot(WakeKick(x).active))
      /\ x.active # None => WakeKick(x).active = x.active
  BY WakeKickIs
<1>4. Later(x, Wake(x)) /\ Wake(x).active = x.active
  BY WakeIs
<1> QED
  BY <1>1, <1>2, <1>3, <1>4

\* An abort or a stop marks the execution.
LEMMA MarkedHalts ==
  ASSUME NEW x, Shaped(x), Halting(x), NEW b, Stopping(b)
  PROVE  LET y == [x EXCEPT !.active = b]
         IN  Safe(y) /\ y.snap = x.snap
<1>1. LET y == [x EXCEPT !.active = b]
      IN  Later(x, y) /\ y.active = b
  BY LaterSlot
<1> QED
  BY <1>1, HaltLater DEF Safe, Bound, Later

\* stop() leaves a halting manager safe.
LEMMA StoppedHalts ==
  ASSUME NEW x, Shaped(x), Safe(x), x.active # None => x.active \in Active
  PROVE  Safe(Stopped(x)) /\ Stopped(x).snap = x.snap
<1> DEFINE b == [x.active EXCEPT !.aborted = TRUE, !.stopping = FALSE]
<1>1. CASE x.active # None /\ x.active.stopping
  <2>1. Stopping(b)
    BY <1>1 DEF Active, Stopping
  <2>2. Stopped(x) = [x EXCEPT !.active = b]
    BY <1>1 DEF Stopped, Shaped
  <2> HIDE DEF b
  <2> QED
    BY <2>1, <2>2, MarkedHalts DEF Safe
<1>2. CASE ~(x.active # None /\ x.active.stopping)
  BY <1>2 DEF Stopped
<1> QED
  BY <1>1, <1>2

\* Fields that no promise is about.
LEMMA SafeSame ==
  ASSUME NEW x, Safe(x), NEW y, y.snap = x.snap, y.lane = x.lane, y.active = x.active,
         y.blocked = x.blocked
  PROVE  Safe(y)
BY DEF Safe, Halting, StopWaits, NoOpens

\* No pending task is claimed, except for an execution that is being stopped.
Contained ==
  \/ Claimed(m'.snap) \subseteq Claimed(m.snap)
  \/ m.active # None /\ Stopping(m.active)

\* After a stop the execution's own call claims a task only for the
\* execution that is being stopped.
LEMMA HaltExecTurn ==
  ASSUME Inv(m), Safe(m), m.lane # <<>>, ExecTurn
  PROVE  Safe(m') /\ Contained
<1> DEFINE y == Served(m)
           a == m.active
           es == ExecEvents(m)
           z == Committed(y, es)
<1>1. /\ Free(y) /\ y.snap = m.snap /\ y.active = a /\ ~y.blocked /\ ~m.blocked
      /\ a \in Active /\ a # None /\ a.pc \in LanePcs /\ Phase(a) /\ Work(m.snap, a)
  BY ExecServed DEF ExecTurn
<1>2. y \in Manager /\ Shaped(y) /\ ~Has(y, {"exec"}) /\ Sound(m.snap) /\ Bounded(a)
  BY <1>1, ManagerShaped DEF Free, Base, Inv, Safe, Bounded
<1>3. /\ StopWaits(y) \/ (NoOpens(y) /\ m.snap.paused)
      /\ Stopping(a) \/ m.snap.paused
  BY <1>1, ServedHalts DEF Safe, ExecTurn
<1>4. m' = IF es = <<>> THEN Refused(y) ELSE Resumed(z)
  BY DEF ExecTurn, Step
<1>5. ExecEvents(y) = es
  BY <1>1 DEF ExecEvents
<1> HIDE DEF y, es
<1>6. CASE es = <<>>
  <2>1. Halting(y)
    BY <1>1, <1>3 DEF Halting
  <2>2. Safe(Refused(y)) /\ Refused(y).snap = y.snap
    BY <1>1, <1>2, <2>1, RefusedHalts
  <2> QED
    BY <1>1, <1>4, <1>6, <2>2 DEF Contained
<1>7. CASE es # <<>>
  <2>1. z.snap = Replayed(m.snap, es)
    BY <1>1, <1>2, <1>7 DEF Committed, Manager
  <2>2. m.snap.paused => z.snap.paused
    <3>1. Steady(es)
      BY <1>1, <1>2, <1>5, ExecSteady
    <3>2. m.snap \in Snapshot
      BY <1>2 DEF Sound, WellFormed
    <3> QED
      BY <2>1, <3>1, <3>2, PauseLasts
  <2>3. Shaped(z) /\ z.active = a
    BY <1>1, <1>2, CommittedFrame
  <2>4. Halting(z) /\ ~Has(z, {"exec"})
    BY <1>2, <1>3, <2>2, CommittedHalts
  <2>5. a.pc = "start" => Stopping(a)
    <3>1. a.pc = "start" => ~m.snap.paused
      BY <1>7 DEF es, ExecEvents, CanStart
    <3> QED
      BY <1>3, <3>1
  <2> HIDE DEF z
  <2>6. Safe(Resumed(z)) /\ Resumed(z).snap = z.snap
    BY <1>1, <1>2, <2>3, <2>4, <2>5, ResumedHalts
  <2>7. Stopping(a) \/ Claimed(z.snap) \subseteq Claimed(m.snap)
    BY <1>1, <1>2, <1>3, <1>5, <1>7, <2>1, ExecEscapes
  <2> QED
    BY <1>1, <1>4, <1>7, <2>6, <2>7 DEF Contained
<1> QED
  BY <1>6, <1>7

\* A call of a client: the slot and the lane's call of the execution are untouched.
LEMMA HaltServed ==
  ASSUME Inv(m), Safe(m), m.lane # <<>>, Head(m.lane).kind # "exec"
  PROVE  LET y == Served(m)
         IN  /\ y \in Manager /\ y.snap = m.snap /\ y.blocked = m.blocked
             /\ y.active = m.active /\ Bound(y.active)
             /\ (y.active # None => y.active \in Active)
             /\ y.active = None => ~Has(y, {"exec"})
<1>1. Inv(Served(m))
  BY ClientServed
<1>2. /\ Served(m) \in Manager /\ Served(m).snap = m.snap /\ Served(m).blocked = m.blocked
      /\ Served(m).active = m.active
  BY ServedFrame
<1> QED
  BY <1>1, <1>2 DEF Inv, InLane, Manager, Safe

\* The turn of a stop pauses the queue or blocks the ledger, and claims
\* nothing.
LEMMA HaltStopTurn ==
  ASSUME Inv(m), Safe(m), m.lane # <<>>, StopTurn
  PROVE  Safe(m') /\ Contained
<1> DEFINE y == Served(m)
           e == [op |-> "pause"]
           n == Replayed(m.snap, PauseEvents(TRUE))
           z == Committed(y, PauseEvents(TRUE))
<1>1. /\ y \in Manager /\ y.snap = m.snap /\ y.active = m.active /\ Bound(y.active)
      /\ y.active # None => y.active \in Active
  BY HaltServed DEF StopTurn
<1>2. StopWaits(y) \/ NoOpens(y)
  BY ServedHalts DEF Safe
<1>3. m' = Stopped(z)
  BY DEF StopTurn, Step
<1>4. SameWork(m.snap, n) /\ PauseEvents(TRUE) # <<>> /\ m.snap \in Snapshot
  BY PauseIs DEF Inv, Sound, WellFormed
<1>5. n.paused
  <2>1. PauseEvents(TRUE) = <<e>>
    BY DEF PauseEvents
  <2>2. n = Apply(m.snap, e)
    BY <2>1, ReplayOne
  <2> QED
    BY <1>4, <2>2 DEF Apply, Snapshot
<1> HIDE DEF y
<1>6. z.snap = n
  BY <1>1, <1>4 DEF Committed, Manager
<1>7. Shaped(z) /\ z.active = y.active
  BY <1>1, CommittedFrame
<1>8. Halting(z)
  BY <1>1, <1>2, <1>5, <1>6, CommittedHalts
<1> HIDE DEF z, n
<1>9. Safe(Stopped(z)) /\ Stopped(z).snap = n
  BY <1>1, <1>6, <1>7, <1>8, StoppedHalts DEF Safe
<1> QED
  BY <1>3, <1>4, <1>9 DEF Contained, SameWork

\* The turn of a submission claims nothing, and ends no pause that a stop
\* made after it was called.
LEMMA HaltSubmitTurn ==
  ASSUME Inv(m), Safe(m), m.lane # <<>>, SubmitTurn
  PROVE  Safe(m') /\ Contained
<1> DEFINE c == Head(m.lane)
           y == Served(m)
           n == Replayed(m.snap, Submission(m))
           z == Committed(y, Submission(m))
           k == Kick(z)
<1>1. /\ y \in Manager /\ y.snap = m.snap /\ y.active = m.active /\ Bound(y.active)
      /\ y.active = None => ~Has(y, {"exec"})
  BY HaltServed DEF SubmitTurn
<1>2. /\ StopWaits(y) \/ (NoOpens(y) /\ m.snap.paused)
      /\ Opens(c) => StopWaits(y)
  <2>1. Halting(m) /\ ~m.blocked /\ c.kind # "stop"
    BY DEF Safe, SubmitTurn
  <2> QED
    BY <2>1, ServedHalts
<1>3. m' = [k EXCEPT !.waking = IF c.sub \in Wakes THEN FALSE ELSE @]
  BY DEF SubmitTurn, Step, Submission
<1>4. SameWork(m.snap, n) /\ Submission(m) # <<>> /\ m.snap \in Snapshot
  BY SubmissionIs DEF Inv, Sound, WellFormed
<1>5. ~Opens(c) => Steady(Submission(m))
  BY SubmissionSteady DEF Opens, SubmitTurn
<1> HIDE DEF y, c
<1>6. z.snap = n
  BY <1>1, <1>4 DEF Committed, Manager
<1>7. StopWaits(y) \/ (NoOpens(y) /\ z.snap.paused)
  BY <1>2, <1>4, <1>5, <1>6, PauseLasts
<1>8. Shaped(z) /\ z.active = y.active
  BY <1>1, CommittedFrame
<1>9. Halting(z) /\ (Has(z, {"exec"}) <=> Has(y, {"exec"}))
  BY <1>1, <1>7, CommittedHalts
<1> HIDE DEF z, n
<1>10. Safe(k) /\ k.snap = n /\ Shaped(k)
  BY <1>1, <1>6, <1>8, <1>9, KickHalts, KickIs DEF Safe, Later
<1> HIDE DEF k
<1>11. m'.snap = n /\ m'.lane = k.lane /\ m'.active = k.active /\ m'.blocked = k.blocked
  BY <1>3, <1>10 DEF Shaped
<1>12. Safe(m')
  BY <1>10, <1>11, SafeSame
<1> QED
  BY <1>4, <1>11, <1>12 DEF Contained, SameWork

\* The turn of an edit claims nothing, and ends no pause that a stop made
\* after it was called.
LEMMA HaltEditTurn ==
  ASSUME Inv(m), Safe(m), m.lane # <<>>, EditTurn
  PROVE  Safe(m') /\ Contained
<1> DEFINE c == Head(m.lane)
           y == Served(m)
           es == IF c.fresh THEN EditEvents(m.snap, c) ELSE <<>>
           z == Committed(y, es)
           u == [z EXCEPT !.suspended = FALSE]
<1>1. /\ y \in Manager /\ y.snap = m.snap /\ y.active = m.active /\ Bound(y.active)
      /\ y.active = None => ~Has(y, {"exec"})
  BY HaltServed DEF EditTurn
<1>2. /\ StopWaits(y) \/ (NoOpens(y) /\ m.snap.paused)
      /\ Opens(c) => StopWaits(y)
  <2>1. Halting(m) /\ ~m.blocked /\ c.kind # "stop"
    BY DEF Safe, EditTurn
  <2> QED
    BY <2>1, ServedHalts
<1>3. m' \in {z, WakeKick(u), Kick(z)}
  BY DEF EditTurn, Step
<1>4. c \in Call /\ c.kind \in {"designate", "cancel", "move", "resume"}
  BY InvIs, ServedIs DEF EditTurn
<1>5. m.snap \in Snapshot /\ Sound(m.snap)
  BY DEF Inv, Sound, WellFormed
<1> HIDE DEF y, c
<1>6. es # <<>> => SameWork(m.snap, Replayed(m.snap, es)) /\ z.snap = Replayed(m.snap, es)
  BY <1>1, <1>4, <1>5, EditIs DEF Committed, Manager
<1>7. es = <<>> => z.snap = m.snap
  BY <1>1 DEF Committed
<1>8. ~Opens(c) /\ es # <<>> => Steady(es)
  BY <1>4, EditSteady DEF Opens
<1>9. StopWaits(y) \/ (NoOpens(y) /\ z.snap.paused)
  BY <1>2, <1>5, <1>6, <1>7, <1>8, PauseLasts
<1>10. Claimed(z.snap) = Claimed(m.snap)
  BY <1>6, <1>7 DEF SameWork
<1>11. Shaped(z) /\ z.active = y.active
  BY <1>1, CommittedFrame
<1>12. Halting(z) /\ (Has(z, {"exec"}) <=> Has(y, {"exec"}))
  BY <1>1, <1>9, CommittedHalts
<1> HIDE DEF z, es
<1>13. Safe(z)
  BY <1>1, <1>11, <1>12 DEF Safe
<1>14. /\ Shaped(u) /\ u.snap = z.snap /\ u.lane = z.lane /\ u.active = z.active
       /\ u.blocked = z.blocked
  BY <1>11 DEF Shaped
<1> HIDE DEF u
<1>15. Safe(u) /\ (Has(u, {"exec"}) <=> Has(z, {"exec"}))
  BY <1>13, <1>14, SafeSame DEF Has
<1>16. /\ Safe(Kick(z)) /\ Kick(z).snap = z.snap
       /\ Safe(WakeKick(u)) /\ WakeKick(u).snap = z.snap
  BY <1>1, <1>11, <1>12, <1>13, <1>14, <1>15, KickHalts
<1> QED
  BY <1>3, <1>10, <1>13, <1>16 DEF Contained

\* The turn of a call in a blocked ledger changes nothing on the way of a
\* stop.
LEMMA HaltBlockedTurn ==
  ASSUME Inv(m), Safe(m), m.lane # <<>>, BlockedTurn
  PROVE  Safe(m') /\ Contained
<1> DEFINE y == Served(m)
           x == [y EXCEPT !.blocked = TRUE]
           c == Head(m.lane)
<1>1. /\ y \in Manager /\ y.snap = m.snap /\ y.active = m.active
  BY ServedFrame
<1>2. StopWaits(y) \/ NoOpens(y)
  BY ServedHalts DEF Safe
<1>3. c.kind \in {"submit", "stop", "exec"} \cup Edits
  BY InvIs, ServedIs, CallFields
<1>4. m' = CASE c.kind = "exec" -> Blocked(x)
             [] c.kind = "stop" -> Stopped(x)
             [] c.kind = "submit" -> [x EXCEPT !.waking = IF c.sub \in Wakes THEN FALSE ELSE @]
             [] OTHER -> x
  BY DEF BlockedTurn
<1>5. c.kind = "exec" => ~Has(y, {"exec"}) /\ m.active # None
  BY ExecServed DEF Free
<1> HIDE DEF y, c
<1>6. /\ Shaped(x) /\ x.snap = m.snap /\ x.lane = y.lane /\ x.active = m.active /\ x.blocked
  BY <1>1, ManagerShaped DEF Shaped
<1> HIDE DEF x
<1>7. Safe(x) /\ (Has(x, {"exec"}) <=> Has(y, {"exec"}))
  BY <1>1, <1>2, <1>6 DEF Safe, Halting, StopWaits, NoOpens, Has
<1>8. m.active # None => m.active \in Active
  BY DEF Inv, Manager
<1>9. CASE c.kind = "exec"
  <2>1. Safe(Blocked(x)) /\ Blocked(x).snap = x.snap
    BY <1>5, <1>6, <1>7, <1>8, <1>9, RefusedHalts DEF Safe, Bounded
  <2> QED
    BY <1>4, <1>6, <1>9, <2>1 DEF Contained
<1>10. CASE c.kind = "stop"
  <2>1. Safe(Stopped(x)) /\ Stopped(x).snap = x.snap
    BY <1>6, <1>7, <1>8, StoppedHalts
  <2> QED
    BY <1>4, <1>6, <1>10, <2>1 DEF Contained
<1>11. CASE c.kind \in {"submit"} \cup Edits
  <2>1. m'.snap = x.snap /\ m'.lane = x.lane /\ m'.active = x.active /\ m'.blocked = x.blocked
    BY <1>4, <1>6, <1>11 DEF Edits, Shaped
  <2> QED
    BY <1>6, <1>7, <2>1, SafeSame DEF Contained
<1> QED
  BY <1>3, <1>9, <1>10, <1>11

\* The turn of a call whose events are refused changes nothing on the way
\* of a stop.
LEMMA HaltRejectedTurn ==
  ASSUME Inv(m), Safe(m), m.lane # <<>>, RejectedTurn
  PROVE  Safe(m') /\ Contained
<1> DEFINE y == Served(m)
           c == Head(m.lane)
<1>1. m' = IF c.kind = "exec" THEN Rejected(y) ELSE y
  BY DEF RejectedTurn, FaultStep
<1>2. y \in Manager /\ Shaped(y) /\ y.snap = m.snap /\ y.active = m.active /\ y.blocked = m.blocked
  BY ServedFrame, ManagerShaped
<1>3. /\ StopWaits(y) \/ NoOpens(y)
      /\ StopWaits(y) \/ m.snap.paused \/ m.blocked \/ c.kind = "stop"
  BY ServedHalts DEF Safe
<1>4. c.kind # "stop"
  BY DEF RejectedTurn, HoldsData
<1>5. m.active # None => m.active \in Active
  BY DEF Inv, Manager
<1>6. c.kind = "exec" => ~Has(y, {"exec"}) /\ m.active # None
  BY ExecServed DEF Free
<1> HIDE DEF y, c
<1>7. Safe(y)
  BY <1>2, <1>3, <1>4 DEF Safe, Halting
<1>8. CASE c.kind = "exec"
  <2>1. Safe(Rejected(y)) /\ Rejected(y).snap = y.snap
    BY <1>2, <1>5, <1>6, <1>7, <1>8, RefusedHalts DEF Safe, Bounded
  <2> QED
    BY <1>1, <1>2, <1>8, <2>1 DEF Contained
<1>9. CASE c.kind # "exec"
  BY <1>1, <1>2, <1>7, <1>9 DEF Contained
<1> QED
  BY <1>8, <1>9

-----------------------------------------------------------------------------
(***************************************************************************)
(* Clients and the host while a stop holds, and the stop itself.           *)
(***************************************************************************)
LEMMA HaltHost ==
  ASSUME Inv(m), Safe(m), Expire \/ EndExclusive \/ Host
  PROVE  Safe(m') /\ m'.snap = m.snap
<1>0. /\ m \in Manager /\ Shaped(m) /\ (m.active # None => m.active \in Active)
      /\ m.active = None => ~Has(m, {"exec"})
  BY ManagerShaped DEF Inv, InLane, Manager
<1>1. ASSUME NEW x, Shaped(x), x.snap = m.snap, x.lane = m.lane, x.active = m.active,
             x.blocked = m.blocked
      PROVE  /\ Safe(x) /\ Safe(Wake(x)) /\ Wake(x).snap = m.snap
             /\ Safe(WakeKick(x)) /\ WakeKick(x).snap = m.snap
  <2>1. Safe(x) /\ (x.active = None => ~Has(x, {"exec"}))
    BY <1>0, <1>1, SafeSame DEF Has
  <2> QED
    BY <1>1, <2>1, KickHalts
<1>2. CASE Exclusive \/ EndExclusive \/ Hold \/ Unhold \/ Notify
  <2>1. \E x : /\ Shaped(x) /\ x.snap = m.snap /\ x.lane = m.lane /\ x.active = m.active
               /\ x.blocked = m.blocked
               /\ m' \in {x, Wake(x), WakeKick(x)}
    BY <1>0, <1>2 DEF Exclusive, EndExclusive, Hold, Unhold, Notify, Step, Shaped
  <2> QED
    BY <1>1, <2>1
<1>3. CASE Expire \/ Dispose
  <2> DEFINE x == IF Expire THEN m ELSE [m EXCEPT !.closed = TRUE]
             b == [m.active EXCEPT !.aborted = TRUE]
  <2>1. /\ Shaped(x) /\ x.snap = m.snap /\ x.lane = m.lane /\ x.active = m.active
        /\ x.blocked = m.blocked
    BY <1>0 DEF Shaped
  <2>2. \/ m' = [x EXCEPT !.active = b] /\ m.active # None
        \/ m' = x
    BY <1>0, <1>3 DEF Expire, Dispose, Step, At, Manager
  <2>3. m.active # None => Stopping(b)
    BY <1>0 DEF Stopping, Active
  <2> HIDE DEF x, b
  <2>4. Safe(x)
    BY <1>1, <2>1
  <2> QED
    BY ZenonT(40), <2>1, <2>2, <2>3, <2>4, MarkedHalts DEF Safe
<1> QED
  BY <1>2, <1>3 DEF Host

\* Calls of clients claim nothing; only a resume or a message ends the
\* halt.
LEMMA HaltClients ==
  ASSUME Inv(m), halted => Safe(m), Clients
  PROVE  (halted' => Safe(m')) /\ m'.snap = m.snap
<1>0. m \in Manager /\ Shaped(m)
  BY ManagerShaped DEF Inv
<1>1. CASE Resume \/ \E s \in Users : Submit(s)
  BY <1>0, <1>1 DEF Resume, Submit, Enqueue, Manager
<1>2. ASSUME NEW c \in Call, ~Opens(c), Edit(c)
      PROVE  (halted' => Safe(m')) /\ m'.snap = m.snap
  <2>1. m' = Enqueue(m, c) /\ halted' = halted
    BY <1>2 DEF Edit
  <2>2. Later(m, Enqueue(m, c)) /\ Enqueue(m, c).active = m.active
    BY <1>0, <1>2, LaterCall
  <2> QED
    BY <2>1, <2>2, HaltLater DEF Safe, Later
<1>3. CASE Stop
  <2> DEFINE b == [m.active EXCEPT !.stopping = TRUE]
             x == [m EXCEPT !.active = b]
             c == [kind |-> "stop"]
             l == m.lane
             k == Append(l, c)
  <2>1. m' = Enqueue(x, c) /\ m.active # None
    BY <1>3 DEF Stop
  <2>2. Stopping(b)
    BY <1>0, <2>1 DEF Manager, Active, Stopping
  <2>3. m'.lane = k /\ m'.active = b /\ m'.snap = m.snap
    BY <1>0, <2>1 DEF Shaped, Enqueue
  <2> DEFINE i == Len(l) + 1
  <2>4. /\ l \in Seq(Call) /\ DOMAIN k = 1..i /\ i \in DOMAIN k /\ k[i] = c
        /\ \A j \in DOMAIN k : j = i \/ j < i
    BY <1>0 DEF Manager, Call
  <2>5. k[i].kind = "stop" /\ ~Opens(k[i])
    BY <2>4 DEF Opens
  <2> HIDE DEF b, k, i
  <2>6. StopWaits(m')
    BY <2>2, <2>3, <2>4, <2>5 DEF StopWaits
  <2> QED
    BY <2>2, <2>3, <2>6 DEF Safe, Halting, Bound
<1>4. \A t \in Tasks, r \in Runs \cup {None} :
        LET c == [kind |-> "designate", task |-> t, run |-> r, fresh |-> TRUE]
        IN  c \in Call /\ ~Opens(c)
  BY DEF Call, Opens
<1>5. \A t \in Tasks :
        LET c == [kind |-> "cancel", task |-> t, fresh |-> TRUE]
        IN  c \in Call /\ ~Opens(c)
  BY DEF Call, Opens
<1>6. \A t, b \in Tasks :
        LET c == [kind |-> "move", task |-> t, before |-> b, fresh |-> TRUE]
        IN  c \in Call /\ ~Opens(c)
  BY DEF Call, Opens
<1>7. (\E c \in Call : ~Opens(c) /\ Edit(c)) \/ Resume \/ Stop \/ \E s \in Users : Submit(s)
  BY <1>4, <1>5, <1>6 DEF Clients
<1> QED
  BY <1>1, <1>2, <1>3, <1>7

\* Only clients halt a session or let it go on.
LEMMA HaltedStays ==
  ASSUME Next, ~Clients
  PROVE  halted' = halted
<1>1. CASE Turn
  BY <1>1 DEF Turn, ExecTurn, StopTurn, SubmitTurn, EditTurn, BlockedTurn, RejectedTurn, Step,
              FaultStep, Fault
<1>2. CASE Execution
  BY <1>2 DEF Execution, Configured, Acquired, Created, Executed, Disposed, Released,
              Operated, Step, FaultStep
<1>3. CASE Supplement \/ Expire \/ EndExclusive \/ Host
  BY <1>3 DEF Supplement, Expire, EndExclusive, Host, Exclusive, Hold, Unhold, Notify,
              Dispose, Step
<1> QED
  BY <1>1, <1>2, <1>3 DEF Next

\* Every step of a halted session keeps it safe and lets nothing escape.
LEMMA StepSafe ==
  ASSUME IInv, halted => Safe(m), [Next]_vars
  PROVE  (halted' => Safe(m')) /\ (halted => Contained)
<1>0. Inv(m)
  BY DEF IInv
<1>1. CASE UNCHANGED vars
  BY <1>1 DEF vars, Contained
<1>2. CASE Clients
  BY <1>0, <1>2, HaltClients DEF Contained
<1>3. CASE Next /\ ~Clients
  <2>1. halted' = halted
    BY <1>3, HaltedStays
  <2>2. ASSUME halted
        PROVE  Safe(m') /\ Contained
    <3>1. Safe(m)
      BY <2>2
    <3>2. CASE Turn
      BY <1>0, <3>1, <3>2, HaltExecTurn, HaltStopTurn, HaltSubmitTurn, HaltEditTurn,
         HaltBlockedTurn, HaltRejectedTurn DEF Turn
    <3>3. CASE Execution \/ Supplement
      BY <1>0, <3>1, <3>3, HaltExecution DEF Contained
    <3>4. CASE Expire \/ EndExclusive \/ Host
      BY <1>0, <3>1, <3>4, HaltHost DEF Contained
    <3> QED
      BY <1>3, <3>2, <3>3, <3>4 DEF Next
  <2> QED
    BY <2>1, <2>2
<1> QED
  BY <1>1, <1>2, <1>3

\* StopHolds: after stop() was called no queued task is claimed, whatever edits,
\* wakes, holds, faults and reservations come between, until a client resumes or
\* sends a message; only the execution being stopped may complete a claim.
THEOREM StopIsKept == Spec => StopHolds
<1> DEFINE J == halted => Safe(m)
<1>1. Init => J
  BY DEF Init
<1>2. IInv /\ J /\ [Next]_vars => J'
  BY StepSafe
<1>3. IInv /\ J /\ [Next]_vars =>
        [halted /\ Escapes => m.active # None /\ (m.active.stopping \/ m.active.aborted)]_vars
  <2> SUFFICES ASSUME IInv, J, [Next]_vars, halted, Escapes
               PROVE  m.active # None /\ (m.active.stopping \/ m.active.aborted)
    OBVIOUS
  <2>1. Contained
    BY StepSafe
  <2>2. ~(Claimed(m'.snap) \subseteq Claimed(m.snap))
    BY DEF Escapes, IsPending, Claimed
  <2> QED
    BY <2>1, <2>2 DEF Contained, Stopping
<1>4. Spec => []IInv
  BY InitIInv, StepIInv, PTL DEF Spec
<1> QED
  BY <1>1, <1>2, <1>3, <1>4, PTL DEF Spec, StopHolds
=============================================================================
