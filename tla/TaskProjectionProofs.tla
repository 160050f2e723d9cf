------------------------ MODULE TaskProjectionProofs ------------------------
(***************************************************************************)
(* The fold of projectTasks keeps its snapshot well formed: every legal    *)
(* event, applied to a snapshot whose queue and ownership are in order,    *)
(* leaves them in order.  The last part says what a whole batch of events  *)
(* replays to.                                                             *)
(***************************************************************************)
EXTENDS LedgerCalls, FiniteSetTheorems, SequenceTheorems, WellFoundedInduction, TLAPS

-----------------------------------------------------------------------------
(***************************************************************************)
(* The queue edits keep the queue a queue: whatever array operation        *)
(* projectTasks applies, the result is again the order of an array without *)
(* repetitions, of exactly the expected elements.                          *)
(***************************************************************************)
(* The elements of a queue over S are S. *)
LEMMA ElemsOfQueue ==
  ASSUME NEW S, NEW q, IsQueueOf(q, S)
  PROVE  Elems(q) = S
<1>1. \A p \in q : p[1] \in S
  BY DEF IsQueueOf
<1>2. \A x \in S : <<x, x>> \in q /\ <<x, x>>[1] = x
  BY DEF IsQueueOf
<1> QED
  BY <1>1, <1>2 DEF Elems

(* The empty array is the queue of no task. *)
LEMMA EmptyIsQueue == IsQueueOf(EmptyQueue, {})
BY DEF IsQueueOf, EmptyQueue

(* queue.push adds its argument. *)
LEMMA PushKeepsQueue ==
  ASSUME NEW S, NEW q, NEW t, IsQueueOf(q, S), t \notin S
  PROVE  IsQueueOf(Push(q, t), S \cup {t})
<1> DEFINE p == Push(q, t)
<1>1. Elems(q) = S
  BY ElemsOfQueue
<1>2. \A x, y : <<x, y>> \in p <=> <<x, y>> \in q \/ (y = t /\ (x = t \/ x \in S))
  BY <1>1 DEF Push
<1>3. p \subseteq (S \cup {t}) \X (S \cup {t})
  <2>1. q \subseteq (S \cup {t}) \X (S \cup {t})
    BY DEF IsQueueOf
  <2> QED
    BY <1>1, <2>1 DEF Push
<1>4. \A x, y : <<x, y>> \in q => x \in S /\ y \in S
  BY DEF IsQueueOf
<1> HIDE DEF p
<1>5. IsQueueOf(p, S \cup {t})
  <2>1. \A x, y \in S \cup {t} : <<x, y>> \in p \/ <<y, x>> \in p
    BY <1>2 DEF IsQueueOf
  <2>2. \A x, y \in S \cup {t} : <<x, y>> \in p /\ <<y, x>> \in p => x = y
    BY <1>2, <1>4, ZenonT(40) DEF IsQueueOf
  <2>3. \A x, y, z \in S \cup {t} : <<x, y>> \in p /\ <<y, z>> \in p => <<x, z>> \in p
    <3> SUFFICES ASSUME NEW x \in S \cup {t}, NEW y \in S \cup {t}, NEW z \in S \cup {t},
                        <<x, y>> \in p, <<y, z>> \in p
                 PROVE  <<x, z>> \in p
      OBVIOUS
    <3>1. CASE z = t
      BY <1>2, <3>1
    <3>2. CASE z # t
      <4>1. <<y, z>> \in q /\ y \in S /\ y # t
        BY <1>2, <1>4, <3>2
      <4>2. <<x, y>> \in q /\ x \in S /\ z \in S
        BY <1>2, <1>4, <4>1
      <4> QED
        BY <1>2, <4>1, <4>2 DEF IsQueueOf
    <3> QED
      BY <3>1, <3>2
  <2> QED
    BY <1>3, <2>1, <2>2, <2>3 DEF IsQueueOf
<1> QED
  BY <1>5 DEF p

(* queue.filter removes the elements it names. *)
LEMMA WithoutKeepsQueue ==
  ASSUME NEW S, NEW q, NEW R, IsQueueOf(q, S)
  PROVE  IsQueueOf(Without(q, R), S \ R)
<1> DEFINE p == Without(q, R)
<1>1. \A x, y : <<x, y>> \in p <=> <<x, y>> \in q /\ x \notin R /\ y \notin R
  BY DEF Without
<1>2. p \subseteq (S \ R) \X (S \ R)
  BY DEF Without, IsQueueOf
<1> HIDE DEF p
<1>3. IsQueueOf(p, S \ R)
  BY <1>1, <1>2 DEF IsQueueOf
<1> QED
  BY <1>3 DEF p

(* Returning tasks to the front permutes the queue. *)
LEMMA ToFrontKeepsQueue ==
  ASSUME NEW S, NEW q, NEW R, IsQueueOf(q, S)
  PROVE  IsQueueOf(ToFront(q, R), S)
<1> DEFINE p == ToFront(q, R)
<1>1. Elems(q) = S
  BY ElemsOfQueue
<1>2. \A x, y \in S : <<x, y>> \in p <=> \/ x \in R /\ y \notin R
                                         \/ <<x, y>> \in q /\ ~(x \notin R /\ y \in R)
  BY <1>1 DEF ToFront
<1>3. p \subseteq S \X S
  BY <1>1 DEF ToFront, IsQueueOf
<1> HIDE DEF p
<1>4. IsQueueOf(p, S)
  BY <1>2, <1>3 DEF IsQueueOf
<1> QED
  BY <1>4 DEF p

(* filter and splice permute the queue. *)
LEMMA MoveBeforeKeepsQueue ==
  ASSUME NEW S, NEW q, NEW t, NEW b, IsQueueOf(q, S), t \in S, b \in S, t # b
  PROVE  IsQueueOf(MoveBefore(q, t, b), S)
<1> DEFINE r == Without(q, {t})
           p == MoveBefore(q, t, b)
<1>1. IsQueueOf(r, S \ {t})
  BY WithoutKeepsQueue
<1>2. Elems(r) = S \ {t}
  BY <1>1, ElemsOfQueue
<1>3. \A x, y \in S :
        <<x, y>> \in p <=> \/ <<x, y>> \in r
                           \/ x = t /\ y = t
                           \/ y = t /\ x # t /\ x # b /\ <<x, b>> \in r
                           \/ x = t /\ y # t /\ <<b, y>> \in r
  BY <1>2 DEF MoveBefore
<1>4. p \subseteq S \X S
  BY <1>1, <1>2, ZenonT(40) DEF MoveBefore, IsQueueOf
<1>5. \A x, y : <<x, y>> \in r => x \in S \ {t} /\ y \in S \ {t}
  BY <1>1 DEF IsQueueOf
<1>6. b \in S \ {t}
  OBVIOUS
<1> HIDE DEF p, r
<1>7. /\ \A x \in S : <<x, x>> \in p
      /\ \A x, y \in S : <<x, y>> \in p \/ <<y, x>> \in p
  BY <1>1, <1>3, <1>6 DEF IsQueueOf
<1>8. \A x, y \in S : <<x, y>> \in p /\ <<y, x>> \in p => x = y
  BY <1>1, <1>3, <1>5, <1>6, ZenonT(40) DEF IsQueueOf
<1>9. \A x, y, z \in S : <<x, y>> \in p /\ <<y, z>> \in p => <<x, z>> \in p
  BY <1>1, <1>3, <1>5, <1>6, ZenonT(40) DEF IsQueueOf
<1>10. IsQueueOf(p, S)
  BY <1>4, <1>7, <1>8, <1>9 DEF IsQueueOf
<1> QED
  BY <1>10 DEF p

-----------------------------------------------------------------------------
(***************************************************************************)
(* The events.                                                             *)
(***************************************************************************)
WellFormed(s) == s \in Snapshot /\ QueueOK(s) /\ OwnershipOK(s)

(* Every running run has claimed its first task: no `start` is half done.  *)
Whole(s) == \A r \in Running(s) : HasClaimed(s, r)

Pending(s) == {t \in Tasks : IsPending(s, t)}

(* The elements of a well-formed queue are the pending tasks. *)
LEMMA QueueElems ==
  ASSUME NEW s, QueueOK(s)
  PROVE  Elems(s.queue) = Pending(s)
BY ElemsOfQueue DEF QueueOK, Pending

(* accept: the new task joins the queue's end. *)
LEMMA AcceptKeeps ==
  ASSUME NEW s, NEW e \in Event, e.op = "accept", WellFormed(s), Legal(s, e)
  PROVE  WellFormed(Accept(s, e)) /\ (Whole(s) => Whole(Accept(s, e)))
<1> DEFINE n == Accept(s, e)
<1>1. e.task \in Tasks /\ e.sub \in Submissions
  BY DEF Event
<1>2. s.state[e.task] = "none" /\ s.run[e.task] = None /\ s.target[e.task] = None
  BY <1>1 DEF Legal, WellFormed, OwnershipOK, IsPending
<1>3. /\ n = [s EXCEPT !.state = [s.state EXCEPT ![e.task] = "pending"],
                       !.sub = [s.sub EXCEPT ![e.task] = e.sub],
                       !.queue = Push(s.queue, e.task)]
  BY DEF Accept
<1>4. IsQueueOf(Push(s.queue, e.task), Pending(s) \cup {e.task})
  BY <1>1, <1>2, PushKeepsQueue DEF WellFormed, QueueOK, Pending, IsPending
<1>5. n \in Snapshot
  <2>1. Push(s.queue, e.task) \in SUBSET (Tasks \X Tasks)
    BY <1>1, <1>4 DEF IsQueueOf, Pending
  <2>2. [s.state EXCEPT ![e.task] = "pending"] \in [Tasks -> TaskState]
    BY DEF WellFormed, Snapshot, TaskState
  <2>3. [s.sub EXCEPT ![e.task] = e.sub] \in [Tasks -> Submissions \cup {None}]
    BY <1>1 DEF WellFormed, Snapshot
  <2> QED
    BY <1>3, <2>1, <2>2, <2>3 DEF WellFormed, Snapshot
<1>6. QueueOK(n)
  <2>1. {t \in Tasks : IsPending(n, t)} = Pending(s) \cup {e.task}
    BY <1>1, <1>2, <1>3 DEF WellFormed, Snapshot, IsPending, Pending
  <2> QED
    BY <1>3, <1>4, <2>1 DEF QueueOK, WellFormed, Snapshot
<1>7. OwnershipOK(n)
  BY <1>1, <1>2, <1>3 DEF WellFormed, Snapshot, OwnershipOK, IsPending, Running, Claimed
<1>8. Whole(s) => Whole(n)
  BY <1>1, <1>2, <1>3 DEF WellFormed, Snapshot, Whole, HasClaimed, Running, Claimed
<1> QED
  BY <1>5, <1>6, <1>7, <1>8 DEF WellFormed

(* designate: only the target of a pending task changes. *)
LEMMA DesignateKeeps ==
  ASSUME NEW s, NEW e \in Event, e.op = "designate", WellFormed(s), Legal(s, e)
  PROVE  WellFormed(Designate(s, e)) /\ (Whole(s) => Whole(Designate(s, e)))
<1> DEFINE n == Designate(s, e)
<1>1. e.task \in Tasks /\ e.run \in Runs \cup {None}
  BY DEF Event
<1>2. IsPending(s, e.task) /\ (e.run # None => e.run \in Running(s))
  BY <1>1 DEF Legal, IsRunning, Running
<1>3. n = [s EXCEPT !.target = [s.target EXCEPT ![e.task] = e.run]]
  BY DEF Designate
<1>4. [s.target EXCEPT ![e.task] = e.run] \in [Tasks -> Runs \cup {None}]
  BY <1>1 DEF WellFormed, Snapshot
<1>5. n \in Snapshot
  BY <1>3, <1>4 DEF WellFormed, Snapshot
<1>6. QueueOK(n)
  BY <1>3 DEF WellFormed, Snapshot, QueueOK, IsPending
<1>7. OwnershipOK(n)
  BY <1>1, <1>2, <1>3 DEF WellFormed, Snapshot, OwnershipOK, IsPending, Running, Claimed
<1>8. Whole(s) => Whole(n)
  BY <1>3 DEF WellFormed, Snapshot, Whole, HasClaimed, Running, Claimed
<1> QED
  BY <1>5, <1>6, <1>7, <1>8 DEF WellFormed

(* cancel: the task leaves the queue. *)
LEMMA CancelKeeps ==
  ASSUME NEW s, NEW e \in Event, e.op = "cancel", WellFormed(s), Legal(s, e)
  PROVE  WellFormed(Cancel(s, e)) /\ (Whole(s) => Whole(Cancel(s, e)))
<1> DEFINE n == Cancel(s, e)
<1>1. e.task \in Tasks /\ IsPending(s, e.task)
  BY DEF Event, Legal
<1>2. n = [s EXCEPT !.state = [s.state EXCEPT ![e.task] = "cancelled"],
                    !.target = [s.target EXCEPT ![e.task] = None],
                    !.queue = Without(s.queue, {e.task})]
  BY DEF Cancel
<1>3. IsQueueOf(Without(s.queue, {e.task}), Pending(s) \ {e.task})
  BY WithoutKeepsQueue DEF WellFormed, QueueOK, Pending
<1>4. n \in Snapshot
  <2>1. Without(s.queue, {e.task}) \in SUBSET (Tasks \X Tasks)
    BY <1>3 DEF IsQueueOf, Pending
  <2>2. [s.state EXCEPT ![e.task] = "cancelled"] \in [Tasks -> TaskState]
    BY DEF WellFormed, Snapshot, TaskState, Terminal, Outcomes
  <2>3. [s.target EXCEPT ![e.task] = None] \in [Tasks -> Runs \cup {None}]
    BY DEF WellFormed, Snapshot
  <2> QED
    BY <1>2, <2>1, <2>2, <2>3 DEF WellFormed, Snapshot
<1>5. QueueOK(n)
  <2>1. {t \in Tasks : IsPending(n, t)} = Pending(s) \ {e.task}
    BY <1>1, <1>2 DEF WellFormed, Snapshot, IsPending, Pending
  <2> QED
    BY <1>2, <1>3, <2>1 DEF QueueOK, WellFormed, Snapshot
<1>6. OwnershipOK(n)
  BY <1>1, <1>2 DEF WellFormed, Snapshot, OwnershipOK, IsPending, Running, Claimed
<1>7. Whole(s) => Whole(n)
  BY <1>1, <1>2 DEF WellFormed, Snapshot, Whole, HasClaimed, Running, Claimed, IsPending
<1> QED
  BY <1>4, <1>5, <1>6, <1>7 DEF WellFormed

(* return-steering: the queue is permuted, the targets are cleared. *)
LEMMA ReturnSteeringKeeps ==
  ASSUME NEW s, NEW e \in Event, e.op = "return-steering", WellFormed(s), Legal(s, e)
  PROVE  WellFormed(ReturnSteering(s, e)) /\ (Whole(s) => Whole(ReturnSteering(s, e)))
<1> DEFINE n == ReturnSteering(s, e)
           target == [t \in Tasks |-> IF t \in e.ids THEN None ELSE s.target[t]]
<1>1. n = [s EXCEPT !.target = target, !.queue = ToFront(s.queue, e.ids)]
  BY DEF ReturnSteering
<1>2. IsQueueOf(ToFront(s.queue, e.ids), Pending(s))
  BY ToFrontKeepsQueue DEF WellFormed, QueueOK, Pending
<1>3. n \in Snapshot
  <2>1. ToFront(s.queue, e.ids) \in SUBSET (Tasks \X Tasks)
    BY <1>2 DEF IsQueueOf, Pending
  <2>2. target \in [Tasks -> Runs \cup {None}]
    BY DEF WellFormed, Snapshot
  <2> QED
    BY <1>1, <2>1, <2>2 DEF WellFormed, Snapshot
<1>4. QueueOK(n)
  <2>1. {t \in Tasks : IsPending(n, t)} = Pending(s)
    BY <1>1 DEF WellFormed, Snapshot, IsPending, Pending
  <2> QED
    BY <1>1, <1>2, <2>1 DEF QueueOK, WellFormed, Snapshot
<1>5. OwnershipOK(n)
  BY <1>1 DEF WellFormed, Snapshot, OwnershipOK, IsPending, Running, Claimed
<1>6. Whole(s) => Whole(n)
  BY <1>1 DEF WellFormed, Snapshot, Whole, HasClaimed, Running, Claimed
<1> QED
  BY <1>3, <1>4, <1>5, <1>6 DEF WellFormed

(* operation-start: a pending task is claimed without a run. *)
LEMMA OperationStartKeeps ==
  ASSUME NEW s, NEW e \in Event, e.op = "operation-start", WellFormed(s), Legal(s, e)
  PROVE  WellFormed(OperationStart(s, e)) /\ (Whole(s) => Whole(OperationStart(s, e)))
<1> DEFINE n == OperationStart(s, e)
<1>1. e.task \in Tasks /\ IsPending(s, e.task) /\ s.target[e.task] = None
  BY DEF Event, Legal
<1>2. n = [s EXCEPT !.state = [s.state EXCEPT ![e.task] = "claimed"],
                    !.queue = Without(s.queue, {e.task})]
  BY DEF OperationStart
<1>3. IsQueueOf(Without(s.queue, {e.task}), Pending(s) \ {e.task})
  BY WithoutKeepsQueue DEF WellFormed, QueueOK, Pending
<1>4. n \in Snapshot
  <2>1. Without(s.queue, {e.task}) \in SUBSET (Tasks \X Tasks)
    BY <1>3 DEF IsQueueOf, Pending
  <2>2. [s.state EXCEPT ![e.task] = "claimed"] \in [Tasks -> TaskState]
    BY DEF WellFormed, Snapshot, TaskState
  <2> QED
    BY <1>2, <2>1, <2>2 DEF WellFormed, Snapshot
<1>5. QueueOK(n)
  <2>1. {t \in Tasks : IsPending(n, t)} = Pending(s) \ {e.task}
    BY <1>1, <1>2 DEF WellFormed, Snapshot, IsPending, Pending
  <2> QED
    BY <1>2, <1>3, <2>1 DEF QueueOK, WellFormed, Snapshot
<1>6. OwnershipOK(n)
  BY <1>1, <1>2 DEF WellFormed, Snapshot, OwnershipOK, IsPending, Running, Claimed
<1>7. Whole(s) => Whole(n)
  BY <1>1, <1>2 DEF WellFormed, Snapshot, Whole, HasClaimed, Running, Claimed, IsPending
<1> QED
  BY <1>4, <1>5, <1>6, <1>7 DEF WellFormed

(* operation-finish: the claimed task belongs to no run, so no run loses   *)
(* its first task.                                                         *)
LEMMA OperationFinishKeeps ==
  ASSUME NEW s, NEW e \in Event, e.op = "operation-finish", WellFormed(s), Legal(s, e)
  PROVE  WellFormed(OperationFinish(s, e)) /\ (Whole(s) => Whole(OperationFinish(s, e)))
<1> DEFINE n == OperationFinish(s, e)
<1>1. /\ e.task \in Tasks /\ e.outcome \in Outcomes
      /\ s.state[e.task] = "claimed" /\ s.run[e.task] = None
  BY DEF Event, Legal
<1>2. e.outcome \in TaskState /\ e.outcome \notin {"none", "pending", "claimed"}
  BY <1>1 DEF TaskState, Terminal, Outcomes
<1>3. n = [s EXCEPT !.state = [s.state EXCEPT ![e.task] = e.outcome],
                    !.paused = s.paused \/ e.outcome # "completed"]
  BY DEF OperationFinish
<1>4. n \in Snapshot
  <2>1. [s.state EXCEPT ![e.task] = e.outcome] \in [Tasks -> TaskState]
    BY <1>2 DEF WellFormed, Snapshot
  <2>2. (s.paused \/ e.outcome # "completed") \in BOOLEAN
    OBVIOUS
  <2> QED
    BY <1>3, <2>1, <2>2 DEF WellFormed, Snapshot
<1>5. QueueOK(n)
  <2>1. {t \in Tasks : IsPending(n, t)} = Pending(s)
    BY <1>1, <1>2, <1>3 DEF WellFormed, Snapshot, IsPending, Pending
  <2>2. n.queue = s.queue
    BY <1>3 DEF WellFormed, Snapshot
  <2> QED
    BY <2>1, <2>2 DEF QueueOK, WellFormed, Pending
<1>6. OwnershipOK(n)
  BY <1>1, <1>2, <1>3 DEF WellFormed, Snapshot, OwnershipOK, IsPending, Running, Claimed
<1>7. Whole(s) => Whole(n)
  BY <1>1, <1>2, <1>3, NoneAssumption
  DEF WellFormed, Snapshot, Whole, HasClaimed, Running, Claimed
<1> QED
  BY <1>4, <1>5, <1>6, <1>7 DEF WellFormed

(* start: the run is the only one running, and its task is still queued.   *)
LEMMA RunStartKeeps ==
  ASSUME NEW s, NEW e \in Event, e.op = "start", WellFormed(s), Legal(s, e)
  PROVE  /\ WellFormed(RunStart(s, e))
         /\ Running(RunStart(s, e)) = {e.run}
         /\ JustStarted(RunStart(s, e), e.run)
         /\ RunStart(s, e).runTask[e.run] = e.task
         /\ IsPending(RunStart(s, e), e.task)
<1> DEFINE n == RunStart(s, e)
<1>1. /\ e.task \in Tasks /\ e.run \in Runs
      /\ IsPending(s, e.task) /\ Running(s) = {}
  BY DEF Event, Legal
<1>2. n = [s EXCEPT !.runState = [s.runState EXCEPT ![e.run] = "running"],
                    !.runTask = [s.runTask EXCEPT ![e.run] = e.task]]
  BY DEF RunStart
<1>3. n \in Snapshot
  <2>1. [s.runState EXCEPT ![e.run] = "running"] \in [Runs -> RunState]
    BY DEF WellFormed, Snapshot, RunState
  <2>2. [s.runTask EXCEPT ![e.run] = e.task] \in [Runs -> Tasks \cup {None}]
    BY <1>1 DEF WellFormed, Snapshot
  <2> QED
    BY <1>2, <2>1, <2>2 DEF WellFormed, Snapshot
<1>4. QueueOK(n)
  BY <1>2 DEF WellFormed, Snapshot, QueueOK, IsPending
<1>5. Running(n) = {e.run}
  BY <1>1, <1>2 DEF WellFormed, Snapshot, Running
<1>6. \A t \in Tasks : s.target[t] = None
  BY <1>1 DEF WellFormed, OwnershipOK
<1>7. \A t \in Claimed(s) : s.run[t] = None
  BY <1>1 DEF WellFormed, OwnershipOK
<1>8. OwnershipOK(n)
  BY <1>2, <1>5, <1>6, <1>7 DEF WellFormed, Snapshot, OwnershipOK, IsPending, Claimed
<1>9. n.runTask[e.run] = e.task /\ IsPending(n, e.task)
  BY <1>1, <1>2 DEF WellFormed, Snapshot, IsPending
<1>10. JustStarted(n, e.run)
  BY <1>1, <1>2, <1>6, <1>9, NoneAssumption DEF WellFormed, Snapshot, JustStarted
<1> QED
  BY <1>3, <1>4, <1>5, <1>8, <1>9, <1>10 DEF WellFormed

(* claim: a pending task goes to the running run; the claim of the run's   *)
(* first task completes `start`.                                           *)
LEMMA ClaimKeeps ==
  ASSUME NEW s, NEW e \in Event, e.op = "claim", WellFormed(s), Legal(s, e)
  PROVE  /\ WellFormed(Claim(s, e))
         /\ Running(Claim(s, e)) = Running(s)
         /\ (Whole(s) \/ s.runTask[e.run] = e.task) => Whole(Claim(s, e))
<1> DEFINE n == Claim(s, e)
<1>1. /\ e.task \in Tasks /\ e.run \in Runs
      /\ IsPending(s, e.task) /\ e.run \in Running(s)
  BY DEF Event, Legal, IsRunning, Running
<1>2. n = [s EXCEPT !.state = [s.state EXCEPT ![e.task] = "claimed"],
                    !.run = [s.run EXCEPT ![e.task] = e.run],
                    !.target = [s.target EXCEPT ![e.task] = None],
                    !.queue = Without(s.queue, {e.task})]
  BY DEF Claim
<1>3. IsQueueOf(Without(s.queue, {e.task}), Pending(s) \ {e.task})
  BY WithoutKeepsQueue DEF WellFormed, QueueOK, Pending
<1>4. n \in Snapshot
  <2>1. Without(s.queue, {e.task}) \in SUBSET (Tasks \X Tasks)
    BY <1>3 DEF IsQueueOf, Pending
  <2>2. [s.state EXCEPT ![e.task] = "claimed"] \in [Tasks -> TaskState]
    BY DEF WellFormed, Snapshot, TaskState
  <2>3. [s.run EXCEPT ![e.task] = e.run] \in [Tasks -> Runs \cup {None}]
    BY <1>1 DEF WellFormed, Snapshot
  <2>4. [s.target EXCEPT ![e.task] = None] \in [Tasks -> Runs \cup {None}]
    BY DEF WellFormed, Snapshot
  <2> QED
    BY <1>2, <2>1, <2>2, <2>3, <2>4 DEF WellFormed, Snapshot
<1>5. QueueOK(n)
  <2>1. {t \in Tasks : IsPending(n, t)} = Pending(s) \ {e.task}
    BY <1>1, <1>2 DEF WellFormed, Snapshot, IsPending, Pending
  <2> QED
    BY <1>2, <1>3, <2>1 DEF QueueOK, WellFormed, Snapshot
<1>6. Running(n) = Running(s)
  BY <1>2 DEF WellFormed, Snapshot, Running
<1>7. OwnershipOK(n)
  BY <1>1, <1>2, <1>6 DEF WellFormed, Snapshot, OwnershipOK, IsPending, Claimed
<1>8. ASSUME Whole(s) \/ s.runTask[e.run] = e.task
      PROVE  Whole(n)
  <2> SUFFICES ASSUME NEW r \in Running(s)
               PROVE  HasClaimed(n, r)
    BY <1>6 DEF Whole
  <2>1. r = e.run
    BY <1>1 DEF WellFormed, OwnershipOK
  <2>2. CASE s.runTask[r] = e.task
    BY <1>1, <1>2, <2>1, <2>2 DEF WellFormed, Snapshot, HasClaimed, Claimed
  <2>3. CASE s.runTask[r] # e.task
    BY <1>1, <1>2, <1>8, <2>1, <2>3 DEF WellFormed, Snapshot, Whole, HasClaimed, Claimed
  <2> QED
    BY <2>2, <2>3
<1> QED
  BY <1>4, <1>5, <1>6, <1>7, <1>8 DEF WellFormed

(* finish: the run that ends was the only one, so nothing stays steered or *)
(* claimed by a run.                                                       *)
LEMMA RunFinishKeeps ==
  ASSUME NEW s, NEW e \in Event, e.op = "finish", WellFormed(s), Legal(s, e)
  PROVE  WellFormed(RunFinish(s, e)) /\ Whole(RunFinish(s, e))
<1> DEFINE n == RunFinish(s, e)
           claimed(t) == s.run[t] = e.run /\ s.state[t] = "claimed"
           state == [t \in Tasks |-> IF claimed(t) THEN e.outcome ELSE s.state[t]]
           target == [t \in Tasks |->
                        IF ~claimed(t) /\ s.target[t] = e.run THEN None ELSE s.target[t]]
<1>1. e.run \in Runs /\ e.outcome \in Outcomes /\ e.run \in Running(s)
  BY DEF Event, Legal, IsRunning, Running
<1>2. /\ e.outcome \in TaskState /\ e.outcome \in RunState
      /\ e.outcome \notin {"none", "pending", "claimed", "running"}
  BY <1>1 DEF TaskState, RunState, Terminal, Outcomes
<1>3. n = [s EXCEPT !.runState = [s.runState EXCEPT ![e.run] = e.outcome],
                    !.state = state, !.target = target,
                    !.paused = s.paused \/ e.outcome # "completed"]
  BY DEF RunFinish
<1>4. n \in Snapshot
  <2>1. [s.runState EXCEPT ![e.run] = e.outcome] \in [Runs -> RunState]
    BY <1>2 DEF WellFormed, Snapshot
  <2>2. state \in [Tasks -> TaskState]
    BY <1>2 DEF WellFormed, Snapshot
  <2>3. target \in [Tasks -> Runs \cup {None}]
    BY DEF WellFormed, Snapshot
  <2>4. (s.paused \/ e.outcome # "completed") \in BOOLEAN
    OBVIOUS
  <2> HIDE DEF state, target
  <2> QED
    BY <1>3, <2>1, <2>2, <2>3, <2>4 DEF WellFormed, Snapshot
<1>5. QueueOK(n)
  <2>1. {t \in Tasks : IsPending(n, t)} = Pending(s)
    BY <1>2, <1>3 DEF WellFormed, Snapshot, IsPending, Pending
  <2>2. n.queue = s.queue
    BY <1>3 DEF WellFormed, Snapshot
  <2> QED
    BY <2>1, <2>2 DEF QueueOK, WellFormed, Pending
<1>6. Running(n) = {}
  <2>1. \A r \in Running(s) : r = e.run
    BY <1>1 DEF WellFormed, OwnershipOK
  <2>2. n.runState = [s.runState EXCEPT ![e.run] = e.outcome]
    BY <1>3 DEF WellFormed, Snapshot
  <2> QED
    BY <1>1, <1>2, <2>1, <2>2 DEF WellFormed, Snapshot, Running
<1>7. /\ n.state = state /\ n.target = target /\ n.run = s.run
  BY <1>3 DEF WellFormed, Snapshot
<1>8. OwnershipOK(n)
  <2>1. \A t \in Tasks : n.target[t] = None
    BY <1>1, <1>7 DEF WellFormed, OwnershipOK, Running, IsPending
  <2>2. \A t \in Claimed(n) : n.run[t] = None
    BY <1>1, <1>2, <1>7 DEF WellFormed, OwnershipOK, Running, Claimed
  <2>3. \A t \in Tasks : n.run[t] # None => n.state[t] \notin {"none", "pending"}
    BY <1>2, <1>7 DEF WellFormed, OwnershipOK
  <2> QED
    BY <1>6, <2>1, <2>2, <2>3 DEF OwnershipOK
<1>9. Whole(n)
  BY <1>6 DEF Whole
<1> QED
  BY <1>4, <1>5, <1>8, <1>9 DEF WellFormed

(* move: the queue is permuted. *)
LEMMA MoveKeeps ==
  ASSUME NEW s, NEW e \in Event, e.op = "move", WellFormed(s), Legal(s, e)
  PROVE  WellFormed(Move(s, e)) /\ (Whole(s) => Whole(Move(s, e)))
<1> DEFINE n == Move(s, e)
<1>1. /\ e.task \in Pending(s) /\ e.beforeTask \in Pending(s)
      /\ e.task # e.beforeTask
  BY DEF Event, Legal, Pending
<1>2. n = [s EXCEPT !.queue = MoveBefore(s.queue, e.task, e.beforeTask)]
  BY DEF Move
<1>3. IsQueueOf(MoveBefore(s.queue, e.task, e.beforeTask), Pending(s))
  BY <1>1, MoveBeforeKeepsQueue DEF WellFormed, QueueOK, Pending
<1>4. n \in Snapshot
  <2>1. MoveBefore(s.queue, e.task, e.beforeTask) \in SUBSET (Tasks \X Tasks)
    BY <1>3 DEF IsQueueOf, Pending
  <2> QED
    BY <1>2, <2>1 DEF WellFormed, Snapshot
<1>5. QueueOK(n)
  <2>1. {t \in Tasks : IsPending(n, t)} = Pending(s)
    BY <1>2 DEF WellFormed, Snapshot, IsPending, Pending
  <2> QED
    BY <1>2, <1>3, <2>1 DEF QueueOK, WellFormed, Snapshot
<1>6. OwnershipOK(n)
  BY <1>2 DEF WellFormed, Snapshot, OwnershipOK, IsPending, Running, Claimed
<1>7. Whole(s) => Whole(n)
  BY <1>2 DEF WellFormed, Snapshot, Whole, HasClaimed, Running, Claimed
<1> QED
  BY <1>4, <1>5, <1>6, <1>7 DEF WellFormed

(* pause and resume touch nothing else. *)
LEMMA PausedKeeps ==
  ASSUME NEW s, NEW p \in BOOLEAN, WellFormed(s)
  PROVE  /\ WellFormed([s EXCEPT !.paused = p])
         /\ Whole(s) => Whole([s EXCEPT !.paused = p])
<1> DEFINE n == [s EXCEPT !.paused = p]
<1>1. n \in Snapshot
  BY DEF WellFormed, Snapshot
<1>2. /\ n.state = s.state /\ n.queue = s.queue /\ n.target = s.target
      /\ n.run = s.run /\ n.runState = s.runState /\ n.runTask = s.runTask
  BY DEF WellFormed, Snapshot
<1> HIDE DEF n
<1>3. QueueOK(n)
  BY <1>2 DEF WellFormed, QueueOK, IsPending
<1>4. OwnershipOK(n)
  BY <1>2 DEF WellFormed, OwnershipOK, IsPending, Running, Claimed
<1>5. Whole(s) => Whole(n)
  BY <1>2 DEF Whole, HasClaimed, Running, Claimed
<1> QED
  BY <1>1, <1>3, <1>4, <1>5 DEF WellFormed, n

(* recover: nothing runs, nothing is claimed or steered afterwards.        *)
LEMMA RecoverKeeps ==
  ASSUME NEW s, WellFormed(s)
  PROVE  /\ WellFormed(Recover(s)) /\ Whole(Recover(s))
         /\ Running(Recover(s)) = {} /\ Claimed(Recover(s)) = {}
<1> DEFINE n == Recover(s)
           runState == [r \in Runs |-> IF s.runState[r] = "running"
                                         THEN "interrupted" ELSE s.runState[r]]
           state == [t \in Tasks |-> IF s.state[t] = "claimed"
                                       THEN "interrupted" ELSE s.state[t]]
           target == [t \in Tasks |-> None]
<1>1. n = [s EXCEPT !.paused = TRUE, !.runState = runState,
                    !.state = state, !.target = target]
  BY DEF Recover
<1>2. n \in Snapshot
  <2>1. runState \in [Runs -> RunState]
    BY DEF WellFormed, Snapshot, RunState, Terminal
  <2>2. state \in [Tasks -> TaskState]
    BY DEF WellFormed, Snapshot, TaskState, Terminal
  <2>3. target \in [Tasks -> Runs \cup {None}]
    OBVIOUS
  <2> HIDE DEF runState, state, target
  <2> QED
    BY <1>1, <2>1, <2>2, <2>3 DEF WellFormed, Snapshot
<1>3. /\ n.state = state /\ n.target = target /\ n.runState = runState
      /\ n.queue = s.queue /\ n.run = s.run
  BY <1>1 DEF WellFormed, Snapshot
<1>4. QueueOK(n)
  <2>1. {t \in Tasks : IsPending(n, t)} = Pending(s)
    BY <1>3 DEF IsPending, Pending
  <2> QED
    BY <1>3, <2>1 DEF QueueOK, WellFormed, Pending
<1>5. Running(n) = {} /\ Claimed(n) = {}
  BY <1>3 DEF Running, Claimed
<1>6. OwnershipOK(n)
  <2>1. \A t \in Tasks : n.target[t] = None
    BY <1>3
  <2>2. \A t \in Tasks : n.run[t] # None => n.state[t] \notin {"none", "pending"}
    BY <1>3 DEF WellFormed, OwnershipOK
  <2> QED
    BY <1>5, <2>1, <2>2 DEF OwnershipOK
<1> QED
  BY <1>2, <1>4, <1>5, <1>6 DEF WellFormed, Whole

(* No queue, no run, no task: where a journal starts. *)
LEMMA EmptyWellFormed == WellFormed(EmptySnapshot) /\ Whole(EmptySnapshot)
<1> DEFINE s == EmptySnapshot
<1>1. s \in Snapshot
  BY DEF EmptySnapshot, Snapshot, TaskState, RunState, EmptyQueue
<1>2. QueueOK(s)
  <2>1. {t \in Tasks : IsPending(s, t)} = {}
    BY DEF EmptySnapshot, IsPending
  <2>2. s.queue = EmptyQueue
    BY DEF EmptySnapshot
  <2> QED
    BY <2>1, <2>2, EmptyIsQueue DEF QueueOK
<1>3. Running(s) = {} /\ Claimed(s) = {}
  BY DEF EmptySnapshot, Running, Claimed
<1>4. OwnershipOK(s)
  BY <1>3 DEF EmptySnapshot, OwnershipOK
<1> QED
  BY <1>1, <1>2, <1>3, <1>4 DEF WellFormed, Whole

(* Every legal event keeps a snapshot well formed, and every one but a     *)
(* `start` keeps it whole: the cases of projectTasks, one by one.          *)
THEOREM ApplyKeepsWellFormed ==
  ASSUME NEW s, NEW e \in Event, WellFormed(s), Legal(s, e)
  PROVE  /\ WellFormed(Apply(s, e))
         /\ Whole(s) /\ e.op # "start" => Whole(Apply(s, e))
<1>1. CASE e.op = "accept"
  BY <1>1, AcceptKeeps DEF Apply
<1>2. CASE e.op = "designate"
  BY <1>2, DesignateKeeps DEF Apply
<1>3. CASE e.op = "cancel"
  BY <1>3, CancelKeeps DEF Apply
<1>4. CASE e.op = "return-steering"
  BY <1>4, ReturnSteeringKeeps DEF Apply
<1>5. CASE e.op = "operation-start"
  BY <1>5, OperationStartKeeps DEF Apply
<1>6. CASE e.op = "operation-finish"
  BY <1>6, OperationFinishKeeps DEF Apply
<1>7. CASE e.op = "start"
  BY <1>7, RunStartKeeps DEF Apply
<1>8. CASE e.op = "claim"
  BY <1>8, ClaimKeeps DEF Apply
<1>9. CASE e.op = "finish"
  BY <1>9, RunFinishKeeps DEF Apply
<1>10. CASE e.op = "move"
  BY <1>10, MoveKeeps DEF Apply
<1>11. CASE e.op = "pause"
  BY <1>11, PausedKeeps DEF Apply
<1>12. CASE e.op = "resume"
  BY <1>12, PausedKeeps DEF Apply
<1>13. CASE e.op = "recover"
  BY <1>13, RecoverKeeps DEF Apply
<1>14. e.op \in {"accept", "designate", "cancel", "return-steering", "operation-start",
                 "operation-finish", "start", "claim", "finish", "move", "pause",
                 "resume", "recover"}
  BY DEF Event
<1> QED
  BY <1>1, <1>2, <1>3, <1>4, <1>5, <1>6, <1>7, <1>8, <1>9, <1>10, <1>11, <1>12, <1>13, <1>14

-----------------------------------------------------------------------------
(***************************************************************************)
(* The batches of the ledger.                                              *)
(***************************************************************************)
(* The claim that completes a `start`. *)
Completes(d, e) == e.op = "claim" /\ d.runTask[e.run] = e.task

Single(d, b) ==
  /\ Len(b) = 1
  /\ Legal(d, b[1]) /\ b[1].op # "start"
  /\ Whole(d) \/ Completes(d, b[1]) \/ b[1].op = "recover"

(* f is legal once e has been applied. *)
Follows(d, e, f) ==
  \/ e.op # "start" /\ f.op \in {"resume", "recover"}
  \/ e.op = "return-steering" /\ f.op = "finish" /\ IsRunning(d, f.run)
  \/ e.op = "start" /\ f.op = "claim" /\ f.task = e.task /\ f.run = e.run

Pair(d, b) == Len(b) = 2 /\ Whole(d) /\ Legal(d, b[1]) /\ Follows(d, b[1], b[2])

(* The claims of different tasks steered at the running run. *)
Claims(d, b) ==
  /\ Whole(d)
  /\ \A i \in 1..Len(b) :
       /\ b[i].op = "claim"
       /\ IsRunning(d, b[i].run) /\ IsPending(d, b[i].task)
       /\ d.target[b[i].task] = b[i].run
       /\ \A j \in 1..Len(b) : b[i].task = b[j].task => i = j

(* What is on its way to a file that holds d. *)
BatchOK(d, b) == b = <<>> \/ Single(d, b) \/ Pair(d, b) \/ Claims(d, b)

(* t has been taken as an operation. *)
TakenAsOperation(d, t) == d.state[t] \notin {"none", "pending"} /\ d.run[t] = None

-----------------------------------------------------------------------------
(***************************************************************************)
(* The file and the batch.                                                 *)
(***************************************************************************)
(* A whole snapshot has its first task for every running run. *)
LEMMA WholeRunHasTask ==
  ASSUME NEW d, Whole(d)
  PROVE  RunHasTask(d)
BY DEF Whole, RunHasTask

(* Persisting the head of a sound batch is legal, and leaves a sound file  *)
(* and a sound rest.                                                       *)
LEMMA HeadOfSingle ==
  ASSUME NEW d, NEW b \in Seq(Event), b # <<>>, WellFormed(d), Single(d, b)
  PROVE  /\ Legal(d, Head(b))
         /\ WellFormed(Apply(d, Head(b))) /\ Whole(Apply(d, Head(b)))
         /\ Tail(b) = <<>>
<1> DEFINE e == Head(b)
<1>1. e = b[1] /\ e \in Event /\ Tail(b) = <<>>
  <2>1. e = b[1] /\ e \in Event /\ Tail(b) \in Seq(Event) /\ Len(Tail(b)) = 0
    BY DEF Single
  <2> QED
    BY <2>1, EmptySeq
<1>2. Legal(d, e) /\ e.op # "start" /\ (Whole(d) \/ Completes(d, e) \/ e.op = "recover")
  BY <1>1 DEF Single
<1> HIDE DEF e
<1>3. WellFormed(Apply(d, e))
  BY <1>1, <1>2, ApplyKeepsWellFormed
<1>4. Whole(Apply(d, e))
  <2>1. CASE Whole(d)
    BY <1>1, <1>2, <2>1, ApplyKeepsWellFormed
  <2>2. CASE Completes(d, e)
    BY <1>1, <1>2, <2>2, ClaimKeeps DEF Completes, Apply
  <2>3. CASE e.op = "recover"
    BY <2>3, RecoverKeeps DEF Apply
  <2> QED
    BY <1>2, <2>1, <2>2, <2>3
<1> QED
  BY <1>1, <1>2, <1>3, <1>4 DEF e

\* The first event of a pair is legal now and makes the second legal.
LEMMA HeadOfPair ==
  ASSUME NEW d, NEW b \in Seq(Event), WellFormed(d), Pair(d, b)
  PROVE  /\ Legal(d, Head(b))
         /\ WellFormed(Apply(d, Head(b))) /\ RunHasTask(Apply(d, Head(b)))
         /\ Tail(b) # <<>> /\ Single(Apply(d, Head(b)), Tail(b))
<1> DEFINE e == Head(b)
           f == b[2]
           n == Apply(d, e)
<1>1. /\ e = b[1] /\ e \in Event /\ f \in Event
      /\ Tail(b) # <<>> /\ Len(Tail(b)) = 1 /\ Tail(b)[1] = f
  <2>1. Len(b) = 2
    BY DEF Pair
  <2>2. b # <<>> /\ e = b[1]
    BY <2>1
  <2>3. b[1] \in Event /\ b[2] \in Event
    BY <2>1
  <2>4. Len(Tail(b)) = 1 /\ Tail(b)[1] = b[2]
    BY <2>1, SMTT(30)
  <2>5. Tail(b) # <<>>
    BY <2>4
  <2> QED
    BY <2>2, <2>3, <2>4, <2>5
<1>2. Legal(d, e) /\ Whole(d) /\ Follows(d, e, f)
  BY <1>1 DEF Pair
<1> HIDE DEF e, f
<1>3. WellFormed(n)
  BY <1>1, <1>2, ApplyKeepsWellFormed
<1>4. /\ RunHasTask(n)
      /\ Legal(n, f) /\ f.op # "start"
      /\ Whole(n) \/ Completes(n, f) \/ f.op = "recover"
  <2>1. CASE e.op # "start" /\ f.op \in {"resume", "recover"}
    BY <1>1, <1>2, <2>1, ApplyKeepsWellFormed, WholeRunHasTask DEF Legal
  <2>2. CASE e.op = "return-steering" /\ f.op = "finish" /\ IsRunning(d, f.run)
    <3>1. n = ReturnSteering(d, e)
      BY <2>2 DEF Apply
    <3>2. n.runState = d.runState
      BY <3>1 DEF ReturnSteering, WellFormed, Snapshot
    <3> QED
      BY <1>1, <1>2, <2>2, <3>2, ApplyKeepsWellFormed, WholeRunHasTask DEF Legal, IsRunning
  <2>3. CASE e.op = "start" /\ f.op = "claim" /\ f.task = e.task /\ f.run = e.run
    <3>1. n = RunStart(d, e)
      BY <2>3 DEF Apply
    <3>2. /\ Running(n) = {e.run} /\ JustStarted(n, e.run)
          /\ n.runTask[e.run] = e.task /\ IsPending(n, e.task)
      BY <1>1, <1>2, <2>3, <3>1, RunStartKeeps
    <3>3. RunHasTask(n)
      BY <3>2 DEF RunHasTask
    <3>4. IsRunning(n, f.run)
      BY <2>3, <3>2 DEF Running, IsRunning
    <3> QED
      BY <2>3, <3>2, <3>3, <3>4 DEF Legal, Completes
  <2> QED
    BY <1>2, <2>1, <2>2, <2>3 DEF Follows
<1>5. Single(n, Tail(b))
  BY <1>1, <1>4 DEF Single
<1> QED
  BY <1>1, <1>2, <1>3, <1>4, <1>5 DEF e

\* The first of several claims is legal now and leaves the others claims.
LEMMA HeadOfClaims ==
  ASSUME NEW d, NEW b \in Seq(Event), b # <<>>, WellFormed(d), Claims(d, b)
  PROVE  /\ Legal(d, Head(b))
         /\ WellFormed(Apply(d, Head(b)))
         /\ Claims(Apply(d, Head(b)), Tail(b))
<1> DEFINE e == Head(b)
           n == Apply(d, e)
           c == Tail(b)
<1>1. /\ e = b[1] /\ e \in Event
      /\ 1 \in 1..Len(b) /\ Len(c) = Len(b) - 1
      /\ \A i \in 1..Len(c) : i + 1 \in 1..Len(b) /\ c[i] = b[i + 1]
  OBVIOUS
<1>2. /\ e.op = "claim" /\ IsRunning(d, e.run) /\ IsPending(d, e.task)
      /\ d.target[e.task] = e.run
  BY <1>1 DEF Claims
<1>3. Legal(d, e)
  BY <1>2 DEF Legal
<1>4. n = Claim(d, e)
  BY <1>2 DEF Apply
<1>5. WellFormed(n) /\ Whole(n)
  BY <1>1, <1>2, <1>3, <1>4, ClaimKeeps DEF Claims
<1>6. ASSUME NEW i \in 1..Len(c)
      PROVE  /\ c[i].op = "claim"
             /\ IsRunning(n, c[i].run) /\ IsPending(n, c[i].task)
             /\ n.target[c[i].task] = c[i].run
             /\ \A j \in 1..Len(c) : c[i].task = c[j].task => i = j
  <2>1. /\ c[i].op = "claim"
        /\ IsRunning(d, c[i].run) /\ IsPending(d, c[i].task)
        /\ d.target[c[i].task] = c[i].run
        /\ c[i].task # e.task
    BY <1>1 DEF Claims
  <2>2. c[i] \in Event
    BY <1>1
  <2>3. c[i].task \in Tasks
    BY <2>1, <2>2 DEF Event
  <2>4. IsRunning(n, c[i].run) /\ IsPending(n, c[i].task) /\ n.target[c[i].task] = c[i].run
    <3>1. /\ n.runState = d.runState
          /\ n.state = [d.state EXCEPT ![e.task] = "claimed"]
          /\ n.target = [d.target EXCEPT ![e.task] = None]
      BY <1>4 DEF Claim, WellFormed, Snapshot
    <3> HIDE DEF n, c, e
    <3> QED
      BY <2>1, <2>3, <3>1 DEF WellFormed, Snapshot, IsRunning, IsPending
  <2>5. \A j \in 1..Len(c) : c[i].task = c[j].task => i = j
    BY <1>1 DEF Claims
  <2> QED
    BY <2>1, <2>4, <2>5
<1>7. Claims(n, c)
  BY <1>5, <1>6 DEF Claims
<1> QED
  BY <1>3, <1>5, <1>7

(* What has been taken as an operation stays so: only `claim` gives a task *)
(* a run, and only to a pending task.                                      *)
LEMMA TakenStays ==
  ASSUME NEW d, NEW e \in Event, WellFormed(d), Legal(d, e),
         NEW t \in Tasks, TakenAsOperation(d, t)
  PROVE  TakenAsOperation(Apply(d, e), t)
<1> DEFINE n == Apply(d, e)
<1> SUFFICES n.state[t] \notin {"none", "pending"} /\ n.run[t] = d.run[t]
  BY DEF TakenAsOperation
<1>1. d.state[t] \notin {"none", "pending"}
  BY DEF TakenAsOperation
<1>2. CASE e.op = "accept"
  BY <1>1, <1>2 DEF Apply, Accept, Legal, Event, WellFormed, Snapshot
<1>3. CASE e.op \in {"designate", "return-steering", "start", "move", "pause", "resume"}
  <2>1. n.state = d.state /\ n.run = d.run
    BY <1>3 DEF Apply, Designate, ReturnSteering, RunStart, Move, WellFormed, Snapshot
  <2> QED
    BY <1>1, <2>1
<1>4. CASE e.op \in {"cancel", "operation-start"}
  <2>1. /\ \E o \in {"cancelled", "claimed"} : n.state = [d.state EXCEPT ![e.task] = o]
        /\ n.run = d.run
    BY <1>4 DEF Apply, Cancel, OperationStart, WellFormed, Snapshot
  <2> QED
    BY <1>1, <2>1 DEF WellFormed, Snapshot
<1>5. CASE e.op = "operation-finish"
  <2>1. n.state = [d.state EXCEPT ![e.task] = e.outcome] /\ n.run = d.run
    BY <1>5 DEF Apply, OperationFinish, WellFormed, Snapshot
  <2>2. e.outcome \in Outcomes
    BY <1>5 DEF Event
  <2> QED
    BY <1>1, <2>1, <2>2 DEF WellFormed, Snapshot, Outcomes
<1>6. CASE e.op = "claim"
  <2>1. /\ n.state = [d.state EXCEPT ![e.task] = "claimed"]
        /\ n.run = [d.run EXCEPT ![e.task] = e.run]
    BY <1>6 DEF Apply, Claim, WellFormed, Snapshot
  <2>2. e.task # t
    BY <1>1, <1>6 DEF Legal, IsPending
  <2> QED
    BY <1>1, <2>1, <2>2 DEF WellFormed, Snapshot
<1>7. CASE e.op = "finish"
  <2>1. /\ n.state[t] \in {d.state[t], e.outcome}
        /\ n.run = d.run
    BY <1>7 DEF Apply, RunFinish, WellFormed, Snapshot
  <2>2. e.outcome \in Outcomes
    BY <1>7 DEF Event
  <2> QED
    BY <1>1, <2>1, <2>2 DEF Outcomes
<1>8. CASE e.op = "recover"
  <2>1. /\ n.state[t] \in {d.state[t], "interrupted"}
        /\ n.run = d.run
    BY <1>8 DEF Apply, Recover, WellFormed, Snapshot
  <2> QED
    BY <1>1, <2>1
<1>9. e.op \in {"accept", "designate", "cancel", "return-steering", "operation-start",
                "operation-finish", "start", "claim", "finish", "move", "pause",
                "resume", "recover"}
  BY DEF Event
<1> QED
  BY <1>2, <1>3, <1>4, <1>5, <1>6, <1>7, <1>8, <1>9

-----------------------------------------------------------------------------
(***************************************************************************)
(* The batches: the checks of each method make its batch sound.            *)
(***************************************************************************)
LEMMA Concatenations ==
  ASSUME NEW e, NEW f
  PROVE  <<e>> \o <<f>> = <<e, f>> /\ <<e>> \o <<>> = <<e>> /\ <<>> \o <<f>> = <<f>>
<1> DEFINE S == {e, f}
           c == <<e>> \o <<f>>
<1>1. <<e>> \in Seq(S) /\ <<f>> \in Seq(S) /\ <<e, f>> \in Seq(S)
  OBVIOUS
<1>2. /\ Len(<<e>>) = 1 /\ <<e>>[1] = e /\ Len(<<f>>) = 1 /\ <<f>>[1] = f
      /\ Len(<<e, f>>) = 2 /\ <<e, f>>[1] = e /\ <<e, f>>[2] = f
  OBVIOUS
<1> HIDE DEF S
<1>3. c \in Seq(S) /\ Len(c) = 2 /\ c[1] = e /\ c[2] = f
  BY <1>1, <1>2, ConcatProperties
<1>4. c = <<e, f>>
  <2>1. \A i \in 1..Len(c) : c[i] = <<e, f>>[i]
    BY <1>2, <1>3
  <2> HIDE DEF c
  <2> QED
    BY <1>1, <1>2, <1>3, <2>1, SeqEqual
<1> QED
  BY <1>1, <1>4, ConcatEmptySeq

(* A batch of one event, and of two. *)
LEMMA OneEvent ==
  ASSUME NEW d, NEW e \in Event, Legal(d, e), e.op # "start", Whole(d) \/ e.op = "recover"
  PROVE  <<e>> \in Seq(Event) /\ BatchOK(d, <<e>>)
BY DEF BatchOK, Single

\* Two events of which the second follows the first are a batch.
LEMMA TwoEvents ==
  ASSUME NEW d, NEW e \in Event, NEW f \in Event, Whole(d), Legal(d, e), Follows(d, e, f)
  PROVE  <<e, f>> \in Seq(Event) /\ BatchOK(d, <<e, f>>)
BY DEF BatchOK, Pair

(* Steering is in order wherever ownership is. *)
LEMMA SteeringReturns ==
  ASSUME NEW d, WellFormed(d), NEW r \in Runs, NEW ids \in SUBSET Tasks,
         ids # {}, ids \subseteq Steering(d, r)
  PROVE  LET e == [op |-> "return-steering", run |-> r, ids |-> ids]
         IN  e \in Event /\ Legal(d, e) /\ IsRunning(d, r)
<1> DEFINE e == [op |-> "return-steering", run |-> r, ids |-> ids]
<1>1. e \in Event
  BY DEF Event
<1>2. \A t \in ids : t \in Elems(d.queue) /\ IsPending(d, t) /\ d.target[t] = r
  BY QueueElems DEF Steering, WellFormed, Pending
<1>3. PICK t \in ids : t \in Tasks /\ d.target[t] = r
  BY <1>2
<1>4. IsRunning(d, r)
  BY <1>3, NoneAssumption DEF WellFormed, OwnershipOK, Running, IsRunning
<1> QED
  BY <1>1, <1>2, <1>4 DEF Legal

(* open *)
LEMMA RecoverBatch ==
  ASSUME NEW d, WellFormed(d), RunHasTask(d), NEW r \in Runs,
         Running(d) # {} => r \in Running(d)
  PROVE  RecoverEvents(d, r) \in Seq(Event) /\ BatchOK(d, RecoverEvents(d, r))
<1> DEFINE ids == IF r \in Running(d) THEN Steering(d, r) ELSE {}
           e == [op |-> "return-steering", run |-> r, ids |-> ids]
           f == [op |-> "recover"]
<1>1. f \in Event /\ Legal(d, f)
  BY DEF Event, Legal
<1>2. ids \in SUBSET Tasks
  BY QueueElems DEF Steering, WellFormed, Pending
<1>3. CASE ids = {}
  <2>1. RecoverEvents(d, r) = <<f>>
    BY <1>3 DEF RecoverEvents, ReturnEvents
  <2> QED
    BY <1>1, <2>1, OneEvent
<1>4. CASE ids # {}
  <2>1. RecoverEvents(d, r) = <<e, f>>
    BY <1>4, Concatenations DEF RecoverEvents, ReturnEvents
  <2>2. e \in Event /\ Legal(d, e)
    BY <1>2, <1>4, SteeringReturns
  <2>3. Whole(d)
    <3>1. Running(d) = {r}
      BY <1>4 DEF WellFormed, OwnershipOK
    <3>2. ~JustStarted(d, r)
      BY <1>2, <1>4 DEF JustStarted, Steering
    <3> QED
      BY <3>1, <3>2 DEF RunHasTask, Whole
  <2>4. Follows(d, e, f)
    BY DEF Follows
  <2> HIDE DEF e, f
  <2> QED
    BY <1>1, <2>1, <2>2, <2>3, <2>4, TwoEvents
<1> QED
  BY <1>3, <1>4

(* submit *)
LEMMA SubmitBatch ==
  ASSUME NEW d, WellFormed(d), Whole(d), NEW s \in Submissions, NEW t \in Tasks,
         NEW cont \in Tasks \cup {None}, NEW idle \in BOOLEAN, CanSubmit(d, s, t, cont)
  PROVE  /\ SubmitEvents(d, s, t, cont, idle) \in Seq(Event)
         /\ BatchOK(d, SubmitEvents(d, s, t, cont, idle))
<1> DEFINE e == [op |-> "accept", task |-> t, sub |-> s, cont |-> cont]
           f == [op |-> "resume"]
<1>1. e \in Event /\ f \in Event
  BY DEF Event
<1>2. Legal(d, e)
  BY DEF CanSubmit, IsRepeated, Legal
<1>3. SubmitEvents(d, s, t, cont, idle) \in {<<e>>, <<e, f>>}
  BY Concatenations DEF SubmitEvents
<1>4. e.op # "start" /\ Follows(d, e, f)
  BY DEF Follows
<1> HIDE DEF e, f
<1> QED
  BY <1>1, <1>2, <1>3, <1>4, OneEvent, TwoEvents

(* designate *)
LEMMA DesignateBatch ==
  ASSUME NEW d, WellFormed(d), Whole(d), NEW t \in Tasks, NEW r \in Runs \cup {None},
         CanDesignate(d, t, r)
  PROVE  DesignateEvents(d, t, r) \in Seq(Event) /\ BatchOK(d, DesignateEvents(d, t, r))
<1>1. CASE r = None /\ d.target[t] # None
  <2> DEFINE e == [op |-> "return-steering", run |-> d.target[t], ids |-> {t}]
  <2>1. DesignateEvents(d, t, r) = <<e>>
    BY <1>1 DEF DesignateEvents, ReturnEvents
  <2>2. d.target[t] \in Runs
    BY <1>1 DEF WellFormed, Snapshot
  <2>3. {t} \subseteq Steering(d, d.target[t])
    BY QueueElems DEF Steering, WellFormed, Pending, CanDesignate
  <2>4. e \in Event /\ Legal(d, e)
    BY <2>2, <2>3, SteeringReturns
  <2>5. e.op # "start"
    OBVIOUS
  <2> HIDE DEF e
  <2> QED
    BY <2>1, <2>4, <2>5, OneEvent
<1>2. CASE ~(r = None /\ d.target[t] # None)
  <2> DEFINE e == [op |-> "designate", task |-> t, run |-> r]
  <2>1. DesignateEvents(d, t, r) = <<e>>
    BY <1>2 DEF DesignateEvents
  <2>2. e \in Event /\ e.op # "start"
    BY DEF Event
  <2>3. Legal(d, e)
    BY DEF CanDesignate, Legal
  <2> HIDE DEF e
  <2> QED
    BY <2>1, <2>2, <2>3, OneEvent
<1> QED
  BY <1>1, <1>2

(* cancel, move, setPaused *)
LEMMA CancelBatch ==
  ASSUME NEW d, Whole(d), NEW t \in Tasks, CanCancel(d, t)
  PROVE  CancelEvents(t) \in Seq(Event) /\ BatchOK(d, CancelEvents(t))
<1> DEFINE e == [op |-> "cancel", task |-> t]
<1>1. e \in Event /\ Legal(d, e) /\ e.op # "start"
  BY DEF Event, Legal, CanCancel
<1> HIDE DEF e
<1>2. <<e>> \in Seq(Event) /\ BatchOK(d, <<e>>)
  BY <1>1, OneEvent
<1> QED
  BY <1>2 DEF e, CancelEvents

\* move() writes a batch.
LEMMA MoveBatch ==
  ASSUME NEW d, Whole(d), NEW t \in Tasks, NEW b \in Tasks, CanMove(d, t, b)
  PROVE  MoveEvents(t, b) \in Seq(Event) /\ BatchOK(d, MoveEvents(t, b))
<1> DEFINE e == [op |-> "move", task |-> t, beforeTask |-> b]
<1>1. e \in Event /\ Legal(d, e) /\ e.op # "start"
  BY DEF Event, Legal, CanMove
<1> HIDE DEF e
<1>2. <<e>> \in Seq(Event) /\ BatchOK(d, <<e>>)
  BY <1>1, OneEvent
<1> QED
  BY <1>2 DEF e, MoveEvents

\* setPaused() and pause() write a batch.
LEMMA PauseBatch ==
  ASSUME NEW d, Whole(d), NEW p \in BOOLEAN
  PROVE  PauseEvents(p) \in Seq(Event) /\ BatchOK(d, PauseEvents(p))
<1> DEFINE e == [op |-> IF p THEN "pause" ELSE "resume"]
<1>1. e \in Event /\ Legal(d, e) /\ e.op # "start"
  BY DEF Event, Legal
<1> HIDE DEF e
<1>2. <<e>> \in Seq(Event) /\ BatchOK(d, <<e>>)
  BY <1>1, OneEvent
<1> QED
  BY <1>2 DEF e, PauseEvents

(* start *)
LEMMA StartBatch ==
  ASSUME NEW d, Whole(d), NEW t \in Tasks, NEW r \in Runs, CanStart(d, t, r)
  PROVE  StartEvents(t, r) \in Seq(Event) /\ BatchOK(d, StartEvents(t, r))
<1> DEFINE e == [op |-> "start", task |-> t, run |-> r]
           f == [op |-> "claim", task |-> t, run |-> r]
<1>1. e \in Event /\ f \in Event /\ Legal(d, e) /\ Follows(d, e, f)
  BY DEF Event, Legal, CanStart, Follows
<1> HIDE DEF e, f
<1>2. <<e, f>> \in Seq(Event) /\ BatchOK(d, <<e, f>>)
  BY <1>1, TwoEvents
<1> QED
  BY <1>2 DEF e, f, StartEvents

(* claimSupplement *)
LEMMA SupplementClaims ==
  ASSUME NEW d, WellFormed(d), Whole(d), NEW r \in Runs, CanSupplement(d, r),
         NEW b \in SupplementBatches(d, r)
  PROVE  b \in Seq(Event) /\ Claims(d, b) /\ b # <<>>
<1> DEFINE S == Steering(d, r)
           N == Cardinality(S)
<1>1. S \subseteq Pending(d) /\ S \subseteq Tasks /\ \A t \in S : d.target[t] = r
  BY QueueElems DEF Steering, WellFormed, Pending
<1>2. N \in Nat
  BY <1>1, FiniteTasks, FS_Subset, FS_CardinalityType
<1>3. /\ b \in [1..N -> [op : {"claim"}, task : S, run : {r}]]
      /\ \A i, j \in 1..N : i < j => b[i].task # b[j].task
  BY DEF SupplementBatches
<1>4. \A i \in 1..N : b[i].op = "claim" /\ b[i].task \in S /\ b[i].run = r /\ b[i] \in Event
  <2> SUFFICES ASSUME NEW i \in 1..N
               PROVE  b[i].op = "claim" /\ b[i].task \in S /\ b[i].run = r /\ b[i] \in Event
    OBVIOUS
  <2>1. b[i] \in [op : {"claim"}, task : S, run : {r}]
    BY <1>3
  <2> HIDE DEF S, N
  <2> QED
    BY <1>1, <2>1 DEF Event
<1> HIDE DEF S, N
<1>5. b \in Seq(Event) /\ Len(b) = N
  BY <1>2, <1>3, <1>4, IsASeq
<1>6. \A i, j \in 1..N : b[i].task = b[j].task => i = j
  <2> SUFFICES ASSUME NEW i \in 1..N, NEW j \in 1..N, i # j
               PROVE  b[i].task # b[j].task
    OBVIOUS
  <2>1. i < j \/ j < i
    BY <1>2
  <2> QED
    BY <1>3, <2>1
<1>7. Claims(d, b)
  BY <1>1, <1>4, <1>5, <1>6 DEF Claims, Pending, CanSupplement
<1>8. N # 0
  <2>1. IsFiniteSet(S) /\ S # {}
    BY <1>1, FiniteTasks, FS_Subset DEF CanSupplement, S
  <2> QED
    BY <2>1, FS_EmptySet DEF N
<1> QED
  BY <1>5, <1>7, <1>8

\* claimSupplement() writes a batch.
LEMMA SupplementBatch ==
  ASSUME NEW d, WellFormed(d), Whole(d), NEW r \in Runs, CanSupplement(d, r),
         NEW b \in SupplementBatches(d, r)
  PROVE  b \in Seq(Event) /\ BatchOK(d, b)
BY SupplementClaims DEF BatchOK

(* There is a batch: the steered tasks by their place in the queue. *)
LEMMA SupplementExists ==
  ASSUME NEW d, WellFormed(d), NEW r \in Runs
  PROVE  \E b : b \in SupplementBatches(d, r)
<1> DEFINE S == Steering(d, r)
           N == Cardinality(S)
           q == d.queue
           Upto(t) == {x \in S : <<x, t>> \in q}
           place == [t \in S |-> Cardinality(Upto(t))]
<1>1. S \subseteq Pending(d) /\ IsFiniteSet(S) /\ N \in Nat
  <2>1. S \subseteq Pending(d) /\ S \subseteq Tasks
    BY QueueElems DEF Steering, WellFormed, Pending
  <2> QED
    BY <2>1, FiniteTasks, FS_Subset, FS_CardinalityType
<1>2. /\ \A x \in S : <<x, x>> \in q
      /\ \A x, y \in S : <<x, y>> \in q \/ <<y, x>> \in q
      /\ \A x, y \in S : <<x, y>> \in q /\ <<y, x>> \in q => x = y
      /\ \A x, y, z \in S : <<x, y>> \in q /\ <<y, z>> \in q => <<x, z>> \in q
  BY <1>1 DEF WellFormed, QueueOK, IsQueueOf, Pending
<1> HIDE DEF S, N, q
<1>3. \A t \in S : IsFiniteSet(Upto(t)) /\ place[t] \in 1..N
  <2> SUFFICES ASSUME NEW t \in S
               PROVE  IsFiniteSet(Upto(t)) /\ Cardinality(Upto(t)) \in 1..N
    OBVIOUS
  <2>1. Upto(t) \subseteq S /\ t \in Upto(t)
    BY <1>2
  <2> HIDE DEF Upto
  <2>2. IsFiniteSet(Upto(t)) /\ Cardinality(Upto(t)) <= N /\ Cardinality(Upto(t)) \in Nat
    BY <1>1, <2>1, FS_Subset, FS_CardinalityType DEF N
  <2>3. Cardinality(Upto(t)) # 0
    BY <2>1, <2>2, FS_EmptySet
  <2> QED
    BY <1>1, <2>2, <2>3
<1>4. ASSUME NEW x \in S, NEW y \in S, <<x, y>> \in q, x # y
      PROVE  place[x] < place[y]
  <2>1. Upto(x) \subseteq Upto(y) /\ y \in Upto(y) /\ y \notin Upto(x)
    BY <1>2, <1>4
  <2>2. IsFiniteSet(Upto(y)) /\ IsFiniteSet(Upto(x))
    BY <1>3
  <2> HIDE DEF Upto
  <2>3. Cardinality(Upto(x)) <= Cardinality(Upto(y)) /\ Cardinality(Upto(x)) # Cardinality(Upto(y))
    BY <2>1, <2>2, FS_Subset
  <2>4. Cardinality(Upto(x)) \in Nat /\ Cardinality(Upto(y)) \in Nat
    BY <2>2, FS_CardinalityType
  <2> QED
    BY <2>3, <2>4
<1> HIDE DEF Upto, place
<1>5. place \in [S -> 1..N]
  BY <1>3 DEF place
<1>6. place \in Surjection(S, 1..N)
  <2>1. \A x, y \in S : place[x] = place[y] => x = y
    <3> SUFFICES ASSUME NEW x \in S, NEW y \in S, x # y
                 PROVE  place[x] # place[y]
      OBVIOUS
    <3>1. place[x] < place[y] \/ place[y] < place[x]
      BY <1>2, <1>4
    <3> QED
      BY <1>1, <1>5, <3>1
  <2>2. place \in Injection(S, 1..N)
    BY <1>5, <2>1 DEF Injection, IsInjective
  <2>3. IsFiniteSet(1..N) /\ Cardinality(1..N) = N
    BY <1>1, FS_Interval
  <2> QED
    BY <2>2, <2>3, FS_Injection DEF N
<1>7. \A i \in 1..N : \E t \in S : place[t] = i
  BY <1>6 DEF Surjection
<1> DEFINE at == [i \in 1..N |-> CHOOSE t \in S : place[t] = i]
           b == [i \in 1..N |-> [op |-> "claim", task |-> at[i], run |-> r]]
<1>8. \A i \in 1..N : at[i] \in S /\ place[at[i]] = i
  BY <1>7
<1> HIDE DEF at
<1>9. ASSUME NEW i \in 1..N, NEW j \in 1..N, i < j
      PROVE  at[i] # at[j] /\ <<at[i], at[j]>> \in q
  <2>1. at[i] # at[j]
    BY <1>8, <1>9
  <2>2. ~(<<at[j], at[i]>> \in q)
    BY <1>4, <1>8, <1>9, <2>1
  <2> QED
    BY <1>2, <1>8, <2>1, <2>2
<1>10. b \in [1..N -> [op : {"claim"}, task : S, run : {r}]]
  BY <1>8
<1>11. \A i, j \in 1..N : i < j => b[i].task # b[j].task /\ <<b[i].task, b[j].task>> \in q
  BY <1>9
<1> HIDE DEF b
<1> QED
  BY <1>10, <1>11 DEF SupplementBatches, S, N, q

(* startOperation does not check that the task is not steered: a steered   *)
(* task has a running run, which has claimed its first task.               *)
LEMMA OperationBatch ==
  ASSUME NEW d, WellFormed(d), Whole(d), NEW t \in Tasks, CanStartOperation(d, t)
  PROVE  /\ StartOperationEvents(t) \in Seq(Event)
         /\ BatchOK(d, StartOperationEvents(t))
         /\ TakenAsOperation(Apply(d, StartOperationEvents(t)[1]), t)
<1> DEFINE e == [op |-> "operation-start", task |-> t]
<1>1. d.target[t] = None
  BY DEF CanStartOperation, WellFormed, OwnershipOK, Whole, HasClaimed
<1>2. e \in Event /\ Legal(d, e) /\ e.op = "operation-start" /\ e.task = t
  BY <1>1 DEF Event, Legal, CanStartOperation
<1> HIDE DEF e
<1>3. <<e>> \in Seq(Event) /\ BatchOK(d, <<e>>)
  BY <1>2, OneEvent
<1>4. d.run[t] = None
  BY DEF CanStartOperation, IsPending, WellFormed, OwnershipOK
<1>5. TakenAsOperation(Apply(d, e), t)
  BY <1>2, <1>4 DEF TakenAsOperation, Apply, OperationStart, WellFormed, Snapshot
<1> QED
  BY <1>3, <1>5 DEF e, StartOperationEvents

(* finishOperation *)
LEMMA FinishOperationBatch ==
  ASSUME NEW d, Whole(d), NEW t \in Tasks, NEW o \in Outcomes,
         d.state[t] = "claimed", d.run[t] = None
  PROVE  /\ FinishOperationEvents(t, o) \in Seq(Event)
         /\ BatchOK(d, FinishOperationEvents(t, o))
<1> DEFINE e == [op |-> "operation-finish", task |-> t, outcome |-> o]
<1>1. e \in Event /\ Legal(d, e) /\ e.op # "start"
  BY DEF Event, Legal
<1> HIDE DEF e
<1>2. <<e>> \in Seq(Event) /\ BatchOK(d, <<e>>)
  BY <1>1, OneEvent
<1> QED
  BY <1>2 DEF e, FinishOperationEvents

(* finish *)
LEMMA FinishBatch ==
  ASSUME NEW d, WellFormed(d), Whole(d), NEW r \in Runs, NEW o \in Outcomes, CanFinish(d, r)
  PROVE  FinishEvents(d, r, o) \in Seq(Event) /\ BatchOK(d, FinishEvents(d, r, o))
<1> DEFINE ids == Steering(d, r)
           e == [op |-> "return-steering", run |-> r, ids |-> ids]
           f == [op |-> "finish", run |-> r, outcome |-> o]
<1>1. f \in Event /\ Legal(d, f) /\ f.op # "start"
  BY DEF Event, Legal, CanFinish
<1>2. ids \in SUBSET Tasks
  BY QueueElems DEF Steering, WellFormed, Pending
<1>3. CASE ids = {}
  <2>1. FinishEvents(d, r, o) = <<f>>
    BY <1>3 DEF FinishEvents, ReturnEvents
  <2> HIDE DEF f
  <2> QED
    BY <1>1, <2>1, OneEvent
<1>4. CASE ids # {}
  <2>1. FinishEvents(d, r, o) = <<e, f>>
    BY <1>4, Concatenations DEF FinishEvents, ReturnEvents
  <2>2. e \in Event /\ Legal(d, e)
    BY <1>2, <1>4, SteeringReturns
  <2>3. Follows(d, e, f)
    BY DEF Follows, CanFinish
  <2> HIDE DEF e, f
  <2> QED
    BY <1>1, <2>1, <2>2, <2>3, TwoEvents
<1> QED
  BY <1>3, <1>4

-----------------------------------------------------------------------------
(***************************************************************************)
(* The replay of a whole batch.                                            *)
(***************************************************************************)
(* A set of numbers has a least one: what an induction over a batch uses.  *)
LEMMA Least ==
  ASSUME NEW T \in SUBSET Nat, T # {}
  PROVE  \E x \in T : \A y \in T : x <= y
<1> DEFINE R == StrictSubsetOrdering(Nat)
           Below(n) == {y \in Nat : y < n}
           B == {Below(n) : n \in T}
<1>1. IsWellFoundedOn(R, FiniteSubsetsOf(Nat))
  BY FS_StrictSubsetOrderingWellFounded
<1>2. \A n \in Nat : IsFiniteSet(Below(n))
  <2> TAKE n \in Nat
  <2> QED
    BY FS_BoundedSetOfNaturals
<1>3. B \subseteq FiniteSubsetsOf(Nat) /\ B # {}
  BY <1>2 DEF FiniteSubsetsOf
<1>4. PICK b \in B : \A c \in B : <<c, b>> \notin R
  <2> HIDE DEF B, R
  <2> QED
    BY <1>1, <1>3, WFMin
<1>5. PICK x \in T : b = Below(x)
  OBVIOUS
<1>6. ASSUME NEW y \in T, y < x
      PROVE  FALSE
  <2>1. /\ Below(y) \subseteq Below(x) /\ Below(y) # Below(x)
        /\ Below(x) \in SUBSET Nat /\ Below(y) \in SUBSET Nat
    BY <1>6
  <2>2. <<Below(y), Below(x)>> \in R
    BY <2>1 DEF StrictSubsetOrdering
  <2> QED
    BY <1>4, <1>5, <2>2
<1> QED
  BY <1>6

(* The snapshots between the events of a batch. *)
LEMMA ReplaySteps ==
  ASSUME NEW s, NEW b, Len(b) \in Nat
  PROVE  \E f : /\ f[0] = s /\ f[Len(b)] = Replayed(s, b)
                /\ \A i \in 1..Len(b) : f[i] = Apply(f[i - 1], b[i])
<1> DEFINE n == Len(b)
           IsReplay(f, k) == f = [i \in 0..k |-> IF i = 0 THEN s ELSE Apply(f[i - 1], b[i])]
           Bad == {k \in 0..n : ~ \E f : IsReplay(f, k)}
<1>1. n \in Nat
  OBVIOUS
<1> HIDE DEF n
<1>2. Bad = {}
  <2> SUFFICES ASSUME Bad # {} PROVE FALSE
    OBVIOUS
  <2>1. PICK k \in Bad : \A j \in Bad : k <= j
    <3>1. Bad \in SUBSET Nat
      BY <1>1
    <3> HIDE DEF Bad
    <3> QED
      BY <3>1, Least
  <2>2. k \in 0..n /\ ~ \E f : IsReplay(f, k)
    OBVIOUS
  <2>3. CASE k = 0
    <3> DEFINE f == [i \in 0..0 |-> s]
    <3>1. IsReplay(f, 0)
      OBVIOUS
    <3> QED
      BY <2>2, <2>3, <3>1
  <2>4. CASE k # 0
    <3>1. k - 1 \in 0..n /\ k - 1 \notin Bad
      BY <1>1, <2>1, <2>2, <2>4
    <3>2. PICK g : IsReplay(g, k - 1)
      BY <3>1
    <3> DEFINE f == [i \in 0..k |-> IF i = k THEN Apply(g[k - 1], b[k]) ELSE g[i]]
    <3>3. \A i \in 0..(k - 1) : g[i] = IF i = 0 THEN s ELSE Apply(g[i - 1], b[i])
      BY <3>2
    <3>4. \A i \in 0..k : f[i] = IF i = 0 THEN s ELSE Apply(f[i - 1], b[i])
      BY <1>1, <2>2, <2>4, <3>3
    <3>5. IsReplay(f, k)
      BY <3>4
    <3> QED
      BY <2>2, <3>5
  <2> QED
    BY <2>3, <2>4
<1>3. PICK f : IsReplay(f, n)
  BY <1>1, <1>2
<1> DEFINE after == CHOOSE after : IsReplay(after, n)
<1>4. Replayed(s, b) = after[n]
  BY DEF Replayed, n
<1>5. IsReplay(after, n)
  BY <1>3
<1> HIDE DEF after
<1>6. after[0] = s /\ \A i \in 1..n : after[i] = Apply(after[i - 1], b[i])
  BY <1>1, <1>5
<1> QED
  BY <1>4, <1>6 DEF n

\* A batch of one event replays to what the event does.
LEMMA ReplayOne ==
  ASSUME NEW s, NEW e
  PROVE  Replayed(s, <<e>>) = Apply(s, e)
<1>1. Len(<<e>>) = 1 /\ <<e>>[1] = e
  OBVIOUS
<1>2. PICK f : /\ f[0] = s /\ f[1] = Replayed(s, <<e>>)
               /\ \A i \in 1..1 : f[i] = Apply(f[i - 1], <<e>>[i])
  BY <1>1, ReplaySteps
<1> QED
  BY <1>1, <1>2

\* A batch of two events replays to what the second does after the first.
LEMMA ReplayTwo ==
  ASSUME NEW s, NEW d, NEW e
  PROVE  Replayed(s, <<d, e>>) = Apply(Apply(s, d), e)
<1>1. Len(<<d, e>>) = 2 /\ <<d, e>>[1] = d /\ <<d, e>>[2] = e
  OBVIOUS
<1>2. PICK f : /\ f[0] = s /\ f[2] = Replayed(s, <<d, e>>)
               /\ \A i \in 1..2 : f[i] = Apply(f[i - 1], <<d, e>>[i])
  BY <1>1, ReplaySteps
<1>3. f[1] = Apply(f[0], d) /\ f[2] = Apply(f[1], e)
  BY <1>1, <1>2
<1> QED
  BY <1>2, <1>3

(* claimSupplement: the steered tasks are claimed, and nothing else moves. *)
LEMMA ReplayClaims ==
  ASSUME NEW d, WellFormed(d), NEW b \in Seq(Event), Claims(d, b)
  PROVE  LET n == Replayed(d, b)
         IN  /\ WellFormed(n) /\ Whole(n)
             /\ n.runState = d.runState /\ n.runTask = d.runTask
             /\ n.sub = d.sub /\ n.paused = d.paused
             /\ \A t \in Tasks :
                  \/ n.state[t] = d.state[t] /\ n.run[t] = d.run[t]
                  \/ /\ d.state[t] = "pending" /\ n.state[t] = "claimed"
                     /\ \E i \in 1..Len(b) : n.run[t] = b[i].run
<1> DEFINE N == Len(b)
           Claimable(i) == /\ b[i] \in Event /\ b[i].op = "claim" /\ b[i].task \in Tasks /\ b[i].run \in Runs
                           /\ IsRunning(d, b[i].run) /\ IsPending(d, b[i].task)
                           /\ d.target[b[i].task] = b[i].run
<1>1. N \in Nat /\ \A i \in 1..N : Claimable(i)
  BY DEF Claims, Event
<1>2. \A i, j \in 1..N : b[i].task = b[j].task => i = j
  BY DEF Claims
<1>3. PICK f : /\ f[0] = d /\ f[N] = Replayed(d, b)
               /\ \A i \in 1..N : f[i] = Apply(f[i - 1], b[i])
  BY <1>1, ReplaySteps
<1> DEFINE Same(n) == /\ WellFormed(n) /\ Whole(n)
                      /\ n.runState = d.runState /\ n.runTask = d.runTask
                      /\ n.sub = d.sub /\ n.paused = d.paused
           Untouched(n, t) == n.state[t] = d.state[t] /\ n.run[t] = d.run[t] /\ n.target[t] = d.target[t]
           Taken(n, t, k) == /\ d.state[t] = "pending" /\ n.state[t] = "claimed"
                             /\ \E i \in 1..k : b[i].task = t /\ n.run[t] = b[i].run
           Good(k) == Same(f[k]) /\ \A t \in Tasks : Untouched(f[k], t) \/ Taken(f[k], t, k)
           Bad == {k \in 0..N : ~Good(k)}
<1>4. Good(0)
  BY <1>3 DEF Claims
<1>5. ASSUME NEW k \in 1..N, Good(k - 1)
      PROVE  Good(k)
  <2> DEFINE s == f[k - 1]
             e == b[k]
  <2>1. f[k] = Apply(s, e) /\ Claimable(k)
    BY <1>1, <1>3
  <2>2. Same(s) /\ Untouched(s, e.task)
    <3>1. \A i \in 1..(k - 1) : b[i].task # b[k].task
      BY <1>1, <1>2
    <3> QED
      BY <1>5, <2>1, <3>1
  <2>3. \A t \in Tasks : Untouched(s, t) \/ Taken(s, t, k - 1)
    BY <1>5
  <2> HIDE DEF s, e
  <2>4. IsRunning(s, e.run) /\ IsPending(s, e.task) /\ s.target[e.task] = e.run
    BY <2>1, <2>2 DEF IsRunning, IsPending, e
  <2>5. /\ e \in Event /\ e.op = "claim" /\ Legal(s, e) /\ f[k] = Claim(s, e)
        /\ e.task \in Tasks /\ e.run \in Runs
    BY <2>1, <2>4 DEF Legal, Apply, e
  <2>6. WellFormed(f[k]) /\ Whole(f[k])
    BY <2>2, <2>5, ClaimKeeps
  <2>7. /\ f[k].runState = s.runState /\ f[k].runTask = s.runTask
        /\ f[k].sub = s.sub /\ f[k].paused = s.paused
        /\ f[k].state = [s.state EXCEPT ![e.task] = "claimed"]
        /\ f[k].run = [s.run EXCEPT ![e.task] = e.run]
        /\ f[k].target = [s.target EXCEPT ![e.task] = None]
    BY <2>2, <2>5 DEF Claim, WellFormed, Snapshot
  <2>8. /\ s.state \in [Tasks -> TaskState] /\ s.run \in [Tasks -> Runs \cup {None}]
        /\ s.target \in [Tasks -> Runs \cup {None}]
    BY <2>2 DEF WellFormed, Snapshot
  <2>9. ASSUME NEW t \in Tasks
        PROVE  Untouched(f[k], t) \/ Taken(f[k], t, k)
    <3>1. CASE t = e.task
      <4>1. f[k].state[t] = "claimed" /\ f[k].run[t] = e.run
        BY <2>5, <2>7, <2>8, <3>1
      <4>2. d.state[t] = "pending" /\ b[k].task = t /\ k \in 1..k
        BY <2>1, <3>1 DEF IsPending, e
      <4> QED
        BY <4>1, <4>2 DEF e
    <3>2. CASE t # e.task
      <4>1. f[k].state[t] = s.state[t] /\ f[k].run[t] = s.run[t] /\ f[k].target[t] = s.target[t]
        BY <2>7, <2>8, <3>2
      <4>2. \A i \in 1..(k - 1) : i \in 1..k
        BY <1>1
      <4> QED
        BY <2>3, <4>1, <4>2
    <3> QED
      BY <3>1, <3>2
  <2> QED
    BY <2>2, <2>6, <2>7, <2>9
<1>6. Bad = {}
  <2> SUFFICES ASSUME Bad # {} PROVE FALSE
    OBVIOUS
  <2>1. PICK k \in Bad : \A j \in Bad : k <= j
    <3>1. Bad \in SUBSET Nat
      BY <1>1
    <3> HIDE DEF Bad
    <3> QED
      BY <3>1, Least
  <2> HIDE DEF Good
  <2>2. k \in 0..N /\ ~Good(k)
    OBVIOUS
  <2>3. k # 0
    BY <1>4, <2>2
  <2>4. k \in 1..N /\ k - 1 \in 0..N /\ k - 1 \notin Bad
    BY <1>1, <2>1, <2>2, <2>3
  <2> QED
    BY <1>5, <2>2, <2>4
<1>7. Good(N)
  BY <1>1, <1>6
<1> QED
  BY <1>3, <1>7
=============================================================================
