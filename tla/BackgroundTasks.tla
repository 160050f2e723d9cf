--------------------------- MODULE BackgroundTasks ---------------------------
(***************************************************************************)
(* How the end of a background Bash task reaches the model of its session: *)
(* BackgroundTaskRegistry (background-tasks/background-tasks/src/          *)
(* registry.ts) with MainAgentInbox (core/agent/src/inbox.ts) and the      *)
(* claims of the agent loop (core/agent-loop/src/loop.ts).                 *)
(*                                                                         *)
(* A task ends at a moment nobody chooses.  Its settlement writes a notice *)
(* to the inbox and then a settle record, and wakes the session; task_wait *)
(* and task_stop calls report the same result and suppress the notice; the *)
(* loop reads the inbox before each step.  Everything the model has seen   *)
(* is in the journal: the model remembers a claimed notice and a tool      *)
(* result and nothing else.  The scheduler of the session (core/            *)
(* agent-service/src/run-manager.ts) starts a turn for a user message and, *)
(* when it is idle, for a wake; it drops a wake while it is at work,       *)
(* paused, suspended or held, and there is none while the session is       *)
(* released.  A turn that is stopped, fails or reaches its step limit ends *)
(* over unread notices and leaves the scheduler shut.                      *)
(*                                                                         *)
(* A journal entry is <<what, task>>, with the                             *)
(* notice "done", "lost" or "userStop", its claim "read ...", its removal  *)
(* "discard", the tool result "report", and the records "start", "settle". *)
(* A crash loses a suffix of the journal that no checkpoint has flushed.   *)
(* Shutdown is a crash that loses nothing: dispose makes every settlement  *)
(* that has not begun return at once, and the session closes under those   *)
(* that have.                                                              *)
(***************************************************************************)
EXTENDS Naturals, Sequences, FiniteSets

CONSTANTS
    Tasks,      \* background Bash tasks of one session
    MaxAtOnce,  \* tool calls of one step that may run at the same time
    MaxCalls,   \* bound: tool calls in all
    MaxCrashes  \* bound: process deaths

ASSUME TaskAssumption ==
    MaxAtOnce \in Nat \ {0} /\ MaxCalls \in Nat /\ MaxCrashes \in Nat

VARIABLES
    journal, durable,   \* the session's events, and how many of them are flushed
    status,             \* Entry.status
    delivery,           \* Entry.delivery
    settling,           \* where #settle of a task is; "over" resolves entry.settled
    call,               \* the running tool calls in call order, with the tasks they concern
    user,               \* where stopByUser of a task is
    turn,               \* the turn, or the run it leaves to be settled: well or not
    sched,              \* does the scheduler start turns, is it shut, or is there none?
    queue,              \* what waits for a turn: a wake, a message of the user
    missed,             \* history: a notice was unread when the session was released, or
                        \* its wake found it released, and no turn has run since
    recon,              \* what reconcile has still to write after a restart
    calls, crashes      \* counters of the bounds

loop == <<turn, sched, queue, missed>>
backgroundVars == <<journal, durable, status, delivery, settling, call, user, loop, recon, calls, crashes>>

Notices == {"done", "lost", "userStop"}
Read(n) == CASE n = "done" -> "read done" [] n = "lost" -> "read lost" [] OTHER -> "read userStop"

BackgroundInit ==
    /\ journal = <<>> /\ durable = 0
    /\ status = [t \in Tasks |-> "none"]
    /\ delivery = [t \in Tasks |-> "pending"]
    /\ settling = [t \in Tasks |-> "no"]
    /\ call = <<>>
    /\ user = [t \in Tasks |-> "no"]
    /\ turn = "no" /\ sched = "open" /\ queue = {} /\ missed = FALSE
    /\ recon = [t \in Tasks |-> "no"]
    /\ calls = 0 /\ crashes = 0

(***************************************************************************)
(* The journal and the inbox derived from it.                              *)
(***************************************************************************)
Has(what, t) == \E i \in DOMAIN journal : journal[i] = <<what, t>>

Log(what, t) == journal' = Append(journal, <<what, t>>)

InInbox(n, t) == Has(n, t) /\ ~Has(Read(n), t) /\ ~(n = "done" /\ Has("discard", t))

\* MainAgentInbox.discard writes nothing for an item that is no longer pending.
Discard(t) == IF InInbox("done", t) THEN Log("discard", t) ELSE UNCHANGED journal

\* The inbox: the rows of the journal that hold a notice nobody has read.
Inbox == {i \in DOMAIN journal : journal[i][1] \in Notices /\ InInbox(journal[i][1], journal[i][2])}

\* wake(): an idle scheduler that is open queues a turn if a notice is unread.
Woken(run, mode) ==
    IF run = "no" /\ mode = "open" /\ queue = {} /\ Inbox # {} THEN {"wake"} ELSE queue

Up == \A t \in Tasks : recon[t] = "no"
Tool == Up /\ turn = "on"
Busy == call # <<>>

(***************************************************************************)
(* A task.                                                                 *)
(***************************************************************************)
\* register puts the entry in the table and then awaits the start record.
Register(t) ==
    /\ Tool /\ status[t] = "none" /\ ~Has("start", t)
    /\ status' = [status EXCEPT ![t] = "running"]
    /\ UNCHANGED <<journal, durable, delivery, settling, call, user, loop,
                   recon, calls, crashes>>

Registered(t) ==
    /\ status[t] = "running" /\ settling[t] = "no" /\ ~Has("start", t)
    /\ Log("start", t)
    /\ UNCHANGED <<durable, status, delivery, settling, call, user, loop,
                   recon, calls, crashes>>

Suppressed(t) == delivery[t] \in {"wait", "stopped"}

\* The task ends and #settle begins: the calls that wait for it are told at once
\* and take the result over, before its delivery is decided.
Finish(t) ==
    LET told == {c \in DOMAIN call : call[c].at = "listen" /\ t \in call[c].of} IN
    /\ status[t] = "running" /\ Has("start", t)
    /\ status' = [status EXCEPT ![t] = "ended"]
    /\ call' = [c \in DOMAIN call |->
                  IF c \in told THEN [at |-> "settled", of |-> {t}] ELSE call[c]]
    /\ delivery' = [delivery EXCEPT ![t] = IF told # {} /\ ~Suppressed(t) THEN "wait" ELSE @]
    /\ settling' = [settling EXCEPT ![t] = IF told # {} \/ Suppressed(t) THEN "quiet" ELSE "notice"]
    /\ UNCHANGED <<journal, durable, user, loop, recon, calls, crashes>>

\* The notice goes to the inbox ...
Notify(t) ==
    /\ settling[t] = "notice"
    /\ Log("done", t)
    /\ settling' = [settling EXCEPT ![t] = "late"]
    /\ UNCHANGED <<durable, status, delivery, call, user, loop, recon, calls, crashes>>

(* Mutant of CheckLate: the delivery is not read again after the append. *)
CheckLateBlindly(t) ==
    /\ settling[t] = "late"
    /\ delivery' = [delivery EXCEPT ![t] = "enqueued"]
    /\ settling' = [settling EXCEPT ![t] = "notified"]
    /\ UNCHANGED <<journal, durable, status, call, user, loop, recon, calls, crashes>>

\* ... and is taken back if a wait has reported the result in the meantime.
CheckLate(t) ==
    /\ settling[t] = "late"
    /\ IF Suppressed(t)
       THEN /\ Discard(t)
            /\ settling' = [settling EXCEPT ![t] = "quiet"]
            /\ UNCHANGED delivery
       ELSE /\ delivery' = [delivery EXCEPT ![t] = "enqueued"]
            /\ settling' = [settling EXCEPT ![t] = "notified"]
            /\ UNCHANGED journal
    /\ UNCHANGED <<durable, status, call, user, loop, recon, calls, crashes>>

\* The settle record, and the wake if the notice stands: it is lost on a released session.
Settle(t) ==
    /\ settling[t] \in {"quiet", "notified"}
    /\ Log("settle", t)
    /\ IF settling[t] = "notified"
       THEN queue' = Woken(turn, sched) /\ missed' = (missed \/ sched = "none")
       ELSE UNCHANGED <<queue, missed>>
    /\ settling' = [settling EXCEPT ![t] = "over"]
    /\ UNCHANGED <<durable, status, delivery, call, user, turn, sched, recon, calls, crashes>>

(***************************************************************************)
(* task_wait, of which several may run side by side, and task_stop, which  *)
(* runs alone.  The scheduler commits results in call order.               *)
(***************************************************************************)
NewCall(at, of) ==
    /\ Tool /\ calls < MaxCalls
    /\ calls' = calls + 1
    /\ call' = Append(call, [at |-> at, of |-> of])

NewWait(at, of) ==
    /\ Len(call) < MaxAtOnce /\ \A c \in DOMAIN call : call[c].at # "stop"
    /\ NewCall(at, of)

Running == {t \in Tasks : status[t] = "running"}

\* wait for one running task, or for any that runs now.
Listen ==
    \E of \in ({{t} : t \in Running} \cup {Running}) \ {{}} :
        /\ NewWait("listen", of)
        /\ UNCHANGED <<journal, durable, status, delivery, settling, user, loop,
                       recon, crashes>>

\* wait for a task that has ended: the call takes the result over, and takes an
\* enqueued notice back.
WaitEnded(t) ==
    /\ status[t] = "ended"
    /\ NewWait(IF delivery[t] = "enqueued" THEN "discard" ELSE "settled", {t})
    /\ delivery' = [delivery EXCEPT ![t] = IF Suppressed(t) THEN @ ELSE "wait"]
    /\ UNCHANGED <<journal, durable, status, settling, user, loop, recon, crashes>>

TakeBack(c, t) ==
    /\ call[c] = [at |-> "discard", of |-> {t}]
    /\ Discard(t)
    /\ call' = [call EXCEPT ![c].at = "settled"]
    /\ UNCHANGED <<durable, status, delivery, settling, user, loop, recon, calls, crashes>>

\* A wait that times out or is interrupted reports no result.
GiveUp(c) ==
    /\ call[c].at = "listen"
    /\ call' = [call EXCEPT ![c] = [at |-> "void", of |-> {}]]
    /\ UNCHANGED <<journal, durable, status, delivery, settling, user, loop,
                   recon, calls, crashes>>

\* The model knows a task from the result of the call that has registered it.
Stop(t) ==
    /\ status[t] = "running" /\ Has("start", t)
    /\ ~Busy /\ NewCall("stop", {t})
    /\ delivery' = [delivery EXCEPT ![t] = "stopped"]
    /\ UNCHANGED <<journal, durable, status, settling, user, loop, recon, crashes>>

\* entry.settled: until the start record is written it is a resolved promise.
Settled(t) == settling[t] = "over" \/ ~Has("start", t)

Report ==
    /\ Busy
    /\ \/ Head(call).at = "void" /\ UNCHANGED journal
       \/ /\ Head(call).at \in {"settled", "stop"}
          /\ \E t \in Head(call).of : Settled(t) /\ Log("report", t)
    /\ call' = Tail(call)
    /\ UNCHANGED <<durable, status, delivery, settling, user, loop, recon, calls, crashes>>

(***************************************************************************)
(* stopByUser: a stop from the app, reported by a notice without a wake.   *)
(* Bound: the user stops a task once.                                      *)
(***************************************************************************)
UserStop(t) ==
    /\ Up /\ status[t] = "running" /\ user[t] = "no"
    /\ user' = [user EXCEPT ![t] = "stopping"]
    /\ delivery' = [delivery EXCEPT ![t] = "stopped"]
    /\ UNCHANGED <<journal, durable, status, settling, call, loop, recon, calls, crashes>>

UserStopped(t) ==
    /\ user[t] = "stopping" /\ Settled(t)
    /\ Log("userStop", t)
    /\ user' = [user EXCEPT ![t] = "over"]
    /\ UNCHANGED <<durable, status, delivery, settling, call, loop, recon, calls, crashes>>

(***************************************************************************)
(* The loop.  Before a step it claims what is in the inbox, and a          *)
(* checkpoint flushes the journal before the model is asked.               *)
(***************************************************************************)
\* The claims, in the order in which the items were enqueued.
Claims == {rows \in [1..Cardinality(Inbox) -> Inbox] :
              \A i, j \in DOMAIN rows : i < j => rows[i] < rows[j]}

Claim(i) == <<Read(journal[i][1]), journal[i][2]>>

Step ==
    /\ Tool /\ ~Busy
    /\ \E rows \in Claims : journal' = journal \o [k \in DOMAIN rows |-> Claim(rows[k])]
    /\ durable' = Len(journal')
    /\ UNCHANGED <<status, delivery, settling, call, user, loop, recon, calls, crashes>>

\* What the scheduler and the turns leave alone.
taskVars == <<journal, durable, status, delivery, settling, call, user, recon, calls, crashes>>

\* A message of the user opens the session; it resumes a paused queue that is empty, unless
\* the session is held or the host drains.
UserMessage ==
    /\ Up /\ "user" \notin queue
    /\ queue' = queue \cup {"user"}
    /\ \/ UNCHANGED sched
       \/ sched = "none" /\ sched' \in {"open", "shut"}
       \/ sched = "shut" /\ turn = "no" /\ queue = {} /\ sched' = "open"
    /\ (sched = "none" => sched' # "none")
    /\ UNCHANGED <<taskVars, turn, missed>>

\* A wake that finds nothing unread is over without a turn.
StartTurn(k) ==
    /\ Up /\ turn = "no" /\ sched = "open" /\ k \in queue
    /\ queue' = queue \ {k}
    /\ turn' = IF k = "wake" /\ Inbox = {} THEN "well" ELSE "on"
    /\ missed' = (missed /\ turn' # "on")
    /\ UNCHANGED <<taskVars, sched>>

\* A turn does not end well over an unread notice; it reads it in a next step.
EndTurn ==
    /\ Tool /\ ~Busy /\ Inbox = {}
    /\ turn' = "well"
    /\ UNCHANGED <<taskVars, sched, queue, missed>>

\* A turn that is aborted, fails or reaches its step limit leaves them in the inbox.
CutTurn ==
    /\ Tool /\ ~Busy
    /\ turn' = "ill"
    /\ UNCHANGED <<taskVars, sched, queue, missed>>

(* Mutant of SettleRun: no wake for what has come while the run was settled. *)
SettleRunQuietly ==
    /\ turn \in {"well", "ill"}
    /\ turn' = "no"
    /\ sched' = IF turn = "ill" THEN "shut" ELSE sched
    /\ UNCHANGED <<taskVars, queue, missed>>

\* The run is finished in the journal and its slot is free; one that has not completed pauses
\* the queue, or suspends the wake.
SettleRun ==
    /\ turn \in {"well", "ill"}
    /\ turn' = "no"
    /\ sched' = IF turn = "ill" THEN "shut" ELSE sched
    /\ queue' = Woken(turn', sched')
    /\ UNCHANGED <<taskVars, missed>>

\* A pause, the hold of a rewind, maintenance, a drain; and their end, which wakes.
Shut ==
    /\ sched = "open" /\ sched' = "shut"
    /\ UNCHANGED <<taskVars, turn, queue, missed>>

Resume ==
    /\ sched = "shut" /\ sched' = "open"
    /\ queue' = Woken(turn, sched')
    /\ UNCHANGED <<taskVars, turn, missed>>

\* An idle session is released: a running task pins it, its settlement does not.
Release ==
    /\ Up /\ sched # "none" /\ turn = "no" /\ queue = {}
    /\ \A t \in Tasks : status[t] # "running"
    /\ sched' = "none"
    /\ missed' = (missed \/ Inbox # {})
    /\ UNCHANGED <<taskVars, turn, queue>>

\* A request opens it again; recover leaves what waits in the queue paused.
Attach ==
    /\ Up /\ sched = "none"
    /\ sched' \in IF queue = {} THEN {"open", "shut"} ELSE {"shut"}
    /\ UNCHANGED <<taskVars, turn, queue, missed>>

(***************************************************************************)
(* A crash, and reconcile when the session is opened again: each task with *)
(* a start record and no settle record is lost.                            *)
(***************************************************************************)
Crash ==
    /\ crashes < MaxCrashes
    /\ crashes' = crashes + 1
    /\ \E n \in durable..Len(journal) :
          LET kept == SubSeq(journal, 1, n)
              Kept(what, t) == \E i \in 1..n : kept[i] = <<what, t>> IN
          /\ journal' = kept
          /\ recon' = [t \in Tasks |-> IF Kept("start", t) /\ ~Kept("settle", t)
                                       THEN "settle" ELSE "no"]
    /\ status' = [t \in Tasks |-> "none"]
    /\ delivery' = [t \in Tasks |-> "pending"]
    /\ settling' = [t \in Tasks |-> "no"]
    /\ call' = <<>>
    /\ user' = [t \in Tasks |-> "no"]
    /\ turn' = "no" /\ sched' = "none" /\ missed' = FALSE
    /\ queue' \in SUBSET queue
    /\ UNCHANGED <<durable, calls>>

SettleLost(t) ==
    /\ recon[t] = "settle" /\ \A s \in Tasks : recon[s] # "notice"
    /\ Log("settle", t)
    /\ recon' = [recon EXCEPT ![t] = "notice"]
    /\ UNCHANGED <<durable, status, delivery, settling, call, user, loop, calls, crashes>>

NotifyLost(t) ==
    /\ recon[t] = "notice"
    /\ Log("lost", t)
    /\ recon' = [recon EXCEPT ![t] = "no"]
    /\ UNCHANGED <<durable, status, delivery, settling, call, user, loop, calls, crashes>>

Settlement(t) == Registered(t) \/ Notify(t) \/ CheckLate(t) \/ Settle(t)
Returns ==
    \/ Report
    \/ \E c \in DOMAIN call : GiveUp(c) \/ \E t \in Tasks : TakeBack(c, t)
Starts == \E k \in {"wake", "user"} : StartTurn(k)
Recovery == \E t \in Tasks : SettleLost(t) \/ NotifyLost(t)

BackgroundNext ==
    \/ \E t \in Tasks :
          \/ Register(t) \/ Finish(t) \/ Settlement(t)
          \/ WaitEnded(t) \/ Stop(t) \/ UserStop(t) \/ UserStopped(t)
    \/ Listen \/ Returns
    \/ Step \/ EndTurn \/ CutTurn
    \/ UserMessage \/ Starts \/ SettleRun \/ Shut \/ Resume \/ Release \/ Attach
    \/ Crash \/ Recovery

\* Appends return, a stopped or waited-for task ends or the wait times out, an open
\* scheduler starts what is queued, a turn goes on to its next step and a run that has
\* ended is settled.  Nobody has to resume, to open a session or to end a turn.
BackgroundSpec ==
    /\ BackgroundInit /\ [][BackgroundNext]_backgroundVars
    /\ \A t \in Tasks : /\ WF_backgroundVars(Settlement(t))
                         /\ WF_backgroundVars(Finish(t) /\ Suppressed(t))
    /\ WF_backgroundVars(Returns) /\ WF_backgroundVars(Step /\ Inbox # {})
    /\ WF_backgroundVars(Starts) /\ WF_backgroundVars(SettleRun)
    /\ WF_backgroundVars(Recovery)

(***************************************************************************)
(* Properties.                                                             *)
(***************************************************************************)
Kinds == Notices \cup {Read(n) : n \in Notices} \cup {"start", "settle", "discard", "report"}

BackgroundTypeOK ==
    /\ journal \in Seq(Kinds \X Tasks) /\ durable \in 0..Len(journal)
    /\ status \in [Tasks -> {"none", "running", "ended"}]
    /\ delivery \in [Tasks -> {"pending", "enqueued", "wait", "stopped"}]
    /\ settling \in [Tasks -> {"no", "notice", "late", "quiet", "notified", "over"}]
    /\ call \in Seq([at : {"listen", "discard", "settled", "stop", "void"}, of : SUBSET Tasks])
    /\ Len(call) <= MaxAtOnce
    /\ user \in [Tasks -> {"no", "stopping", "over"}]
    /\ turn \in {"no", "on", "well", "ill"} /\ sched \in {"open", "shut", "none"}
    /\ queue \subseteq {"wake", "user"} /\ missed \in BOOLEAN
    /\ recon \in [Tasks -> {"no", "settle", "notice"}]
    /\ calls \in 0..MaxCalls /\ crashes \in 0..MaxCrashes

\* A task is settled once in the journal, over all restarts, and every task an
\* opened session knows from an earlier process is settled.
SettledOnce ==
    /\ \A i, j \in DOMAIN journal :
           journal[i] = journal[j] /\ journal[i][1] = "settle" => i = j
    /\ Up => \A t \in Tasks : Has("start", t) /\ status[t] = "none" => Has("settle", t)

\* A result that task_wait or task_stop has reported is not announced again: no
\* notice of that task's end is read after the report, in whatever order the
\* settlement, the calls and a crash come.  With the types, and SettledOnce.
ReportedOnce ==
    /\ BackgroundTypeOK /\ SettledOnce
    /\ \A i, j \in DOMAIN journal :
        i < j /\ journal[i][1] = "report" =>
            journal[j] \notin {<<"read done", journal[i][2]>>, <<"read lost", journal[i][2]>>}

\* The model learns of every task that ends, by a notice or by a report, unless the user
\* has stopped it (that notice waits for a turn), the process dies, the scheduler is shut
\* again and again, or for ever, or the session is released over the notice or before its
\* wake.  No wake is lost to a turn that ends, a run being settled, a pause or a hold.
EveryEndIsTold ==
    <>[](sched # "shut") =>
        \A t \in Tasks :
            status[t] = "ended" /\ delivery[t] # "stopped" ~>
                \/ Has("read done", t) \/ Has("report", t) \/ status[t] = "none"
                \/ missed

\* The claim of docs/design-docs/collaboration/agent-background-tasks.md:62: a session that
\* is idle, and not paused, is woken.
IdleIsWoken ==
    <>[](sched = "open") =>
        \A t \in Tasks :
            status[t] = "ended" /\ delivery[t] # "stopped" ~>
                Has("read done", t) \/ Has("report", t) \/ status[t] = "none"

=============================================================================
