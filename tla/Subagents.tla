------------------------------- MODULE Subagents -------------------------------
(***************************************************************************)
(* The activations of the subagents of one main session: SubagentManager   *)
(* (subagent/subagent/src/manager.ts) with the tree its events fold into   *)
(* (util/shared/src/runtime-v2/subagent-projection.ts).                    *)
(*                                                                         *)
(* The main agent spawns or forks a subagent and waits for it or not;      *)
(* agents message each other, and a message to an idle subagent starts     *)
(* another activation.  A FIFO lock per child serialises deliveries with   *)
(* the decision that an activation is over; the time a synchronous call    *)
(* may wait, interrupts, a rewind of the main session and the death of the *)
(* process cut in anywhere.                                                *)
(*                                                                         *)
(* log[a] is the part of the main session's journal about a, as            *)
(* <<what, activation>>, of which the first flushed[a] events survive a    *)
(* crash; the parts of two agents share nothing but the flush.  Appends to *)
(* an open journal succeed (SessionLog covers those that do not), so an    *)
(* opening fails only before it has logged anything.  Shutdown is a crash  *)
(* that loses nothing: dispose lets no settlement be recorded.             *)
(***************************************************************************)
EXTENDS Naturals, Sequences, FiniteSets

CONSTANTS
    Agents,      \* subagents of one main session
    Root,        \* its main agent
    Forks,       \* those started by agent_fork
    Limit,       \* SUBAGENT_CONCURRENCY_LIMIT
    MaxMessages, \* bound: messages sent to subagents
    MaxBreaks    \* bound: rewinds of the main session and process deaths

ASSUME SubagentAssumption ==
    /\ IsFiniteSet(Agents) /\ Root \notin Agents /\ Forks \subseteq Agents
    /\ {Limit, MaxMessages, MaxBreaks} \subseteq Nat

VARIABLES
    log, flushed,  \* the journal's events about each agent, and how many are durable
    active,        \* #active: the number of the activation registered, 0 for none
    run,           \* the activations each agent has had, as records
    lock,          \* ChildLock: what waits for the lock of a child; the head holds it
    inbox,         \* messages the child's own inbox holds unread
    fork,          \* an agent_fork call between its check of the limit and #reserve
    sync,          \* the synchronous agent call of the agent's first activation
    rewind,        \* stopAll: "no", "stopping" or "stopped"
    waits,         \* the activations its snapshot holds that have not resolved
    recon,         \* what recoverLost has still to write, per agent
    messages, breaks  \* counters of the bounds

mem == <<active, run, lock, fork, sync>>
MaxLog == 3 * (MaxMessages + 1)  \* start, settle, notice of each activation
counters == <<messages, breaks>>
vars == <<log, flushed, mem, inbox, rewind, waits, recon, counters>>

Init ==
    /\ log = [a \in Agents |-> <<>>] /\ flushed = [a \in Agents |-> 0]
    /\ active = [a \in Agents |-> 0]
    /\ run = [a \in Agents |-> <<>>] /\ lock = [a \in Agents |-> <<>>]
    /\ inbox = [a \in Agents |-> 0]
    /\ fork = [a \in Agents |-> "no"] /\ sync = [a \in Agents |-> "no"]
    /\ rewind = "no" /\ waits = {}
    /\ recon = [a \in Agents |-> 0]
    /\ messages = 0 /\ breaks = 0

(***************************************************************************)
(* The tree, and what is running.                                          *)
(***************************************************************************)
Settles == {"returned", "notified", "dropped", "lost"}
Logged(l) == {l[i] : i \in DOMAIN l}
Starts(l) == {e[2] : e \in {d \in Logged(l) : d[1] = "start"}}
OpenIn(l) == {n \in Starts(l) : \A d \in Settles : <<d, n>> \notin Logged(l)}
Known(a) == Starts(log[a]) # {}

\* runningActivation looks at the last activation of the agent only.
RunningActivation(l) == {n \in OpenIn(l) : \A m \in Starts(l) : m <= n}

Running == Cardinality({a \in Agents : active[a] # 0})
At(a) == IF active[a] = 0 THEN "none" ELSE run[a][active[a]].at
Settling(a) == At(a) \in {"settling", "recorded", "noticed"}

Up == \A a \in Agents : recon[a] = 0
RootCalls == Up /\ rewind = "no"

\* Who is inside a tool call of this manager: its turn cannot end meanwhile.
InCall(s) ==
    \/ \E a \in Agents : \E i \in DOMAIN lock[a] : lock[a][i] = <<"message", s>>
    \/ s = Root /\ \E a \in Agents : fork[a] # "no" \/ sync[a] = "waiting"
    \/ \E a \in Agents : At(a) \in {"opening", "logged"} /\ run[a][active[a]].by = s

Write(a, what, n) == log' = [log EXCEPT ![a] = Append(@, <<what, n>>)]
Flush == flushed' = [a \in Agents |-> Len(log[a])]
Step(a, at) == run' = [run EXCEPT ![a][active[a]].at = at]
Unlock(a) == lock' = [lock EXCEPT ![a] = Tail(@)]
Holds(a, op) == lock[a] # <<>> /\ lock[a][1][1] = op

Reserve(a, by, delivery) ==
    /\ run' = [run EXCEPT ![a] = Append(@,
         [at |-> "opening", by |-> by, delivery |-> delivery, aborted |-> FALSE, end |-> "none"])]
    /\ active' = [active EXCEPT ![a] = Len(run[a]) + 1]

(***************************************************************************)
(* Starting: the limit is checked and the place taken in one step by       *)
(* agent; agent_fork flushes the journal in between.                       *)
(***************************************************************************)
Unused(a) == run[a] = <<>> /\ fork[a] = "no"

Spawn(a) ==
    /\ RootCalls /\ Unused(a) /\ a \notin Forks
    /\ Running < Limit
    /\ \E delivery \in {"caller", "parent"} : Reserve(a, Root, delivery)
    /\ UNCHANGED <<log, flushed, lock, inbox, fork, sync, rewind, waits, recon, counters>>

ForkChecked(a) ==
    /\ RootCalls /\ Unused(a) /\ a \in Forks
    /\ Running < Limit
    /\ \E delivery \in {"caller", "parent"} : fork' = [fork EXCEPT ![a] = delivery]
    /\ UNCHANGED <<log, flushed, active, run, lock, inbox, sync, rewind, waits, recon, counters>>

ForkReserved(a) ==
    /\ fork[a] # "no"
    /\ Flush
    /\ Reserve(a, Root, fork[a])
    /\ fork' = [fork EXCEPT ![a] = "no"]
    /\ UNCHANGED <<log, lock, inbox, sync, rewind, waits, recon, counters>>

\* The child session is there; a continuation puts its message in the inbox; the start is logged.
Opened(a) ==
    /\ At(a) = "opening"
    /\ Write(a, "start", active[a])
    /\ inbox' = IF active[a] > 1 THEN [inbox EXCEPT ![a] = @ + 1] ELSE inbox
    /\ Step(a, "logged")
    /\ UNCHANGED <<flushed, active, lock, fork, sync, rewind, waits, recon, counters>>

\* The catch forgets the activation; nothing ever resolves its result.
OpenFails(a) ==
    /\ At(a) = "opening"
    /\ Step(a, "failed")
    /\ active' = [active EXCEPT ![a] = 0]
    /\ IF active[a] > 1 THEN Unlock(a) ELSE UNCHANGED lock
    /\ UNCHANGED <<log, flushed, inbox, fork, sync, rewind, waits, recon, counters>>

\* The start is durable, #begin runs the activation, and a synchronous call waits.
Begun(a) ==
    /\ At(a) = "logged"
    /\ Flush
    /\ run' = [run EXCEPT ![a][active[a]].at = "turn", ![a][active[a]].by = Root]
    /\ IF active[a] > 1 THEN Unlock(a) ELSE UNCHANGED lock
    /\ sync' = IF active[a] = 1 /\ run[a][1].delivery = "caller"
               THEN [sync EXCEPT ![a] = "waiting"] ELSE sync
    /\ UNCHANGED <<log, active, inbox, fork, rewind, waits, recon, counters>>

(***************************************************************************)
(* Messages.                                                               *)
(***************************************************************************)
MaySend(s) == IF s = Root THEN RootCalls ELSE At(s) = "turn"

Send(s, a) ==
    /\ s # a /\ MaySend(s) /\ Known(a)
    /\ messages < MaxMessages /\ messages' = messages + 1
    /\ lock' = [lock EXCEPT ![a] = Append(@, <<"message", s>>)]
    /\ UNCHANGED <<log, flushed, active, run, inbox, fork, sync, rewind, waits, recon, breaks>>

\* The test of sendMessage: active, not settling, and with its child session.
TakesMessages(a) == At(a) \in {"logged", "turn", "decide"}

Deliver(a) ==
    /\ Holds(a, "message") /\ TakesMessages(a)
    /\ inbox' = [inbox EXCEPT ![a] = @ + 1]
    /\ Unlock(a)
    /\ UNCHANGED <<log, flushed, active, run, fork, sync, rewind, waits, recon, counters>>

\* #continue keeps the lock until the start of the new activation is durable.
Continue(a) ==
    /\ Holds(a, "message") /\ ~TakesMessages(a)
    /\ IF Running < Limit
       THEN Reserve(a, lock[a][1][2], "parent") /\ lock' = [lock EXCEPT ![a][1][1] = "continue"]
       ELSE Unlock(a) /\ UNCHANGED <<run, active>>
    /\ UNCHANGED <<log, flushed, inbox, fork, sync, rewind, waits, recon, counters>>

(***************************************************************************)
(* Running and settling.                                                   *)
(***************************************************************************)
\* A step of the child's loop reads its inbox.
Claim(a) ==
    /\ At(a) = "turn" /\ inbox[a] > 0
    /\ inbox' = [inbox EXCEPT ![a] = 0]
    /\ UNCHANGED <<log, flushed, mem, rewind, waits, recon, counters>>

\* The turn ends, or the run fails before or in it: either way the lock comes next.
EndTurn(a) ==
    /\ At(a) = "turn" /\ ~InCall(a)
    /\ \E end \in {"completed", "failed"} :
         run' = [run EXCEPT ![a][active[a]].at = "decide", ![a][active[a]].end = end]
    /\ lock' = [lock EXCEPT ![a] = Append(@, <<"decide", a>>)]
    /\ UNCHANGED <<log, flushed, active, inbox, fork, sync, rewind, waits, recon, counters>>

(* Mutant of Again: an activation settles when its turn ends. *)
AgainNever(a) == FALSE
Again(a) == LET r == run[a][active[a]] IN
    r.end = "completed" /\ ~r.aborted /\ inbox[a] > 0

\* From here on all that is ever asked is whether it completed, unaborted.
Final(r) == [r EXCEPT !.at = "settling", !.aborted = FALSE, !.end = IF r.aborted THEN "failed" ELSE @]

\* One lock section: another turn for a message that came late, or settle.
Decide(a) ==
    /\ Holds(a, "decide") /\ At(a) = "decide"
    /\ IF Again(a) THEN Step(a, "turn") /\ Unlock(a)
       ELSE run' = [run EXCEPT ![a][active[a]] = Final(@)] /\ UNCHANGED lock
    /\ UNCHANGED <<log, flushed, active, inbox, fork, sync, rewind, waits, recon, counters>>

Outcome(delivery) == CASE delivery = "caller" -> "returned" [] delivery = "parent" -> "notified"
                       [] OTHER -> "dropped"

(* Mutant of Record: a rewind that drops an activation leaves no trace of its end. *)
RecordUnlessDropped(a) ==
    /\ At(a) = "settling"
    /\ IF run[a][active[a]].delivery = "dropped" THEN UNCHANGED log
       ELSE Write(a, Outcome(run[a][active[a]].delivery), active[a])
    /\ Step(a, "recorded")
    /\ UNCHANGED <<flushed, active, lock, inbox, fork, sync, rewind, waits, recon, counters>>

\* The loop is idle and the lease finished: only now is the delivery read.
Record(a) ==
    /\ At(a) = "settling"
    /\ Write(a, Outcome(run[a][active[a]].delivery), active[a])
    /\ Step(a, "recorded")
    /\ UNCHANGED <<flushed, active, lock, inbox, fork, sync, rewind, waits, recon, counters>>

Notify(a) ==
    /\ At(a) = "recorded"
    /\ IF <<"notified", active[a]>> \in Logged(log[a]) THEN Write(a, "notice", active[a]) ELSE UNCHANGED log
    /\ Step(a, "noticed")
    /\ UNCHANGED <<flushed, active, lock, inbox, fork, sync, rewind, waits, recon, counters>>

Past(r) == [at |-> "over", by |-> Root, delivery |-> "parent", aborted |-> FALSE, end |-> r.end]

\* Flushed, woken, everything of the child released; the result goes to who waits for it.
Close(a) ==
    /\ At(a) = "noticed"
    /\ Flush
    /\ run' = [run EXCEPT ![a][active[a]] = Past(@)]
    /\ active' = [active EXCEPT ![a] = 0]
    /\ Unlock(a)
    /\ sync' = IF active[a] = 1 /\ sync[a] = "waiting" THEN [sync EXCEPT ![a] = "result"] ELSE sync
    /\ waits' = waits \ {<<a, active[a]>>}
    /\ UNCHANGED <<log, inbox, fork, rewind, recon, counters>>

(***************************************************************************)
(* What cuts in.                                                           *)
(***************************************************************************)
(* Mutant of MayMove: the timer of a synchronous call also fires on an activation that settles. *)
MayMoveLate(a) == sync[a] = "waiting" /\ run[a][1].delivery = "caller"
(* Mutant of MayMove: the timer is never set. *)
MayMoveNever(a) == FALSE
\* Settlement already chose the caller; its result follows.
MayMove(a) == sync[a] = "waiting" /\ ~Settling(a) /\ run[a][1].delivery = "caller"

\* The synchronous wait is up: the activation goes on in the background.
Timer(a) ==
    /\ MayMove(a)
    /\ run' = [run EXCEPT ![a][1].delivery = "parent"]
    /\ sync' = [sync EXCEPT ![a] = "moved"]
    /\ UNCHANGED <<log, flushed, active, lock, inbox, fork, rewind, waits, recon, counters>>

\* interrupt_agent, or the abort of the call that waits; one that comes during the opening
\* takes effect when the turn begins.
Interrupt(a) ==
    /\ At(a) \in {"turn", "decide"} /\ ~run[a][active[a]].aborted
    /\ RootCalls \/ \E s \in Agents \ {a} : At(s) = "turn"
    /\ run' = [run EXCEPT ![a][active[a]].aborted = TRUE]
    /\ UNCHANGED <<log, flushed, active, lock, inbox, fork, sync, rewind, waits, recon, counters>>

\* rewindAndSubmit has drained the main agent's runs and calls stopAll.
StopAll ==
    /\ RootCalls /\ ~InCall(Root) /\ breaks < MaxBreaks
    /\ rewind' = "stopping" /\ breaks' = breaks + 1
    /\ waits' = {<<a, active[a]>> : a \in {b \in Agents : active[b] # 0}}
    /\ run' = [a \in Agents |-> IF active[a] = 0 \/ Settling(a) THEN run[a] ELSE
                 [run[a] EXCEPT ![active[a]].aborted = TRUE, ![active[a]].delivery = "dropped"]]
    /\ UNCHANGED <<log, flushed, active, lock, inbox, fork, sync, recon, messages>>

StoppedAll ==
    /\ rewind = "stopping" /\ waits = {}
    /\ rewind' = "stopped"
    /\ UNCHANGED <<log, flushed, mem, inbox, waits, recon, counters>>

\* What recoverLost finds in a journal: activations that look open and do not run here.
Lost(l, running) == [a \in Agents |->
    LET cut == RunningActivation(l[a]) \ {running[a]}
    IN IF cut = {} THEN 0 ELSE CHOOSE n \in cut : TRUE]

\* The journal is rewritten (RewindCut) and the scheduler opened again, which calls recoverLost.
Rewound ==
    /\ rewind = "stopped"
    /\ rewind' = "no"
    /\ recon' = Lost(log, active)
    /\ UNCHANGED <<log, flushed, mem, inbox, waits, counters>>

\* The process dies: a suffix of the journal is lost, and of a running child's own.
Crash ==
    /\ breaks < MaxBreaks /\ breaks' = breaks + 1
    /\ \E kept \in {f \in [Agents -> 0 .. MaxLog] : \A a \in Agents : f[a] \in flushed[a] .. Len(log[a])} :
         LET l == [a \in Agents |-> SubSeq(log[a], 1, kept[a])] IN
         log' = l /\ flushed' = kept /\ recon' = Lost(l, [a \in Agents |-> 0])
    /\ \E left \in [Agents -> 0 .. MaxMessages] :
         /\ \A a \in Agents : left[a] = inbox[a] \/ (active[a] # 0 /\ left[a] <= messages)
         /\ inbox' = left
    /\ active' = [a \in Agents |-> 0] /\ lock' = [a \in Agents |-> <<>>]
    /\ run' = [a \in Agents |-> [n \in DOMAIN run[a] |->
                 IF n = active[a] THEN Past([run[a][n] EXCEPT !.end = "failed"]) ELSE run[a][n]]]
    /\ fork' = [a \in Agents |-> "no"] /\ sync' = [a \in Agents |-> "no"]
    /\ rewind' = "no" /\ waits' = {}
    /\ UNCHANGED messages

\* recoverLost settles what was cut off, and then tells the main agent.
RecoverSettle(a) ==
    /\ recon[a] \in OpenIn(log[a])
    /\ Write(a, "lost", recon[a])
    /\ UNCHANGED <<flushed, mem, inbox, rewind, waits, recon, counters>>

RecoverNotice(a) ==
    /\ recon[a] # 0 /\ recon[a] \notin OpenIn(log[a])
    /\ Write(a, "notice", recon[a])
    /\ recon' = [recon EXCEPT ![a] = 0]
    /\ UNCHANGED <<flushed, mem, inbox, rewind, waits, counters>>

\* What an activation does of its own accord once it is registered.
Proceed(a) ==
    \/ Opened(a) \/ OpenFails(a) \/ Begun(a)
    \/ Deliver(a) \/ Continue(a)
    \/ Decide(a) \/ Record(a) \/ Notify(a) \/ Close(a)
    \/ RecoverSettle(a) \/ RecoverNotice(a)

Next ==
    \/ \E a \in Agents :
         \/ Spawn(a) \/ ForkChecked(a) \/ ForkReserved(a)
         \/ Proceed(a) \/ Claim(a) \/ EndTurn(a)
         \/ Timer(a) \/ Interrupt(a)
         \/ \E s \in Agents \cup {Root} : Send(s, a)
    \/ StopAll \/ StoppedAll \/ Rewound \/ Crash

\* Promises settle and timers fire; nothing makes a model end its turn.
Fairness == \A a \in Agents : WF_vars(Proceed(a)) /\ WF_vars(Timer(a))

Spec == Init /\ [][Next]_vars
FairSpec == Spec /\ Fairness

(***************************************************************************)
(* Properties.                                                             *)
(***************************************************************************)
\* The variables have their types, and no activation is registered over another that
\* still runs: the unchecked set of #reserve never overwrites one.
TypeOK ==
    /\ active \in [Agents -> Nat] /\ inbox \in [Agents -> 0 .. MaxMessages]
    /\ \A a \in Agents :
         /\ active[a] \in DOMAIN run[a] \cup {0} /\ flushed[a] <= Len(log[a])
         /\ \A n \in DOMAIN run[a] \ {active[a]} : run[a][n].at \in {"over", "failed"}
    /\ sync \in [Agents -> {"no", "waiting", "moved", "result"}]
    /\ rewind \in {"no", "stopping", "stopped"} /\ waits # {} => rewind = "stopping"

Count(a, whats, n) == Cardinality({i \in DOMAIN log[a] : log[a][i][2] = n /\ log[a][i][1] \in whats})

\* The types, and: an end reaches one reader, however the timer of the synchronous call, the settlement
\* and a recovery interleave: one settle, a notice for a background or lost activation
\* only, no "returned" for a call that was told to carry on, no notice besides a result.
OneReader ==
    TypeOK /\ \A a \in Agents : \A n \in DOMAIN run[a] :
      /\ Count(a, Settles, n) <= 1 /\ Count(a, {"notice"}, n) <= Count(a, {"notified", "lost"}, n)
      /\ n = 1 /\ sync[a] = "moved" => Count(a, {"returned"}, 1) = 0
      /\ n = 1 /\ sync[a] = "result" => Count(a, {"returned"}, 1) = 1

\* A message whose sender was told "delivered" is not left unread by an activation that
\* completed: it makes another turn, or it comes too late and starts an activation.
NoMessageStranded ==
    \A a \in Agents : LET r == run[a] IN
      active[a] = 0 /\ inbox[a] > 0 /\ r # <<>> =>
        \A n \in DOMAIN r : r[n].end = "completed" =>
          \E m \in DOMAIN r : m > n /\ r[m].at = "over"

\* Once a session is recovered, the tree shows an agent as running only while it runs:
\* through crashes, failed openings, rewinds and restarts no start stays unsettled.
RunningIsRun == Up => \A a \in Agents : OpenIn(log[a]) \subseteq {active[a]}

\* A synchronous agent call comes back: with the result, or moved to the background.
SyncCallEnds == \A a \in Agents : sync[a] = "waiting" ~> sync[a] # "waiting"

=============================================================================
