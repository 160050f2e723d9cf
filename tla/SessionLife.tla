------------------------------ MODULE SessionLife ------------------------------
(***************************************************************************)
(* Which sessions of a host are open, who opens and closes them, and what  *)
(* hangs on an open handle: RuntimeSessionController (core/runtime/src/    *)
(* session/session-controller.ts), the managers of AgentService            *)
(* (core/agent-service/src/service.ts) and the part of a rewind that holds *)
(* and reopens a session (application.ts).                                 *)
(*                                                                         *)
(* Everything runs in one process; a step is what happens between two      *)
(* awaits.  The writer lease is the one of WriterLease, seen by calls of   *)
(* one living process: free, or taken and then refused to everybody else.  *)
(***************************************************************************)
EXTENDS FiniteSets, QueueOrder

CONSTANTS
    Sessions,   \* persistent main sessions
    Clients,    \* calls of the host's clients (submitTask and the like)
    Parent,     \* the session a side chat reads, or None
    None,
    Views,      \* the sets of sessions the renderers show together
    MaxIdle,    \* maxIdleSessions: idle sessions that stay resident
    Rewindable, \* bound: the sessions whose users rewind them ...
    MaxRewinds, \* ... and how often a rewind holds a session
    Stops       \* bound: whether the host is shut down

ASSUME LifeAssumption ==
    /\ None \notin Sessions
    /\ Parent \in [Sessions -> Sessions \cup {None}]
    /\ \A s \in Sessions : Parent[s] # s
    /\ Views \subseteq SUBSET Sessions
    /\ MaxIdle \in Nat
    /\ Rewindable \subseteq Sessions
    /\ MaxRewinds \in Nat
    /\ Stops \in BOOLEAN

VARIABLES
    recent,     \* the sessions in #open, from the least to the most recently used
    closing,    \* #closing: why a session that left #open is not free yet
    lease,      \* the owner of every session's writer lease
    call,       \* the resume calls: of clients, managers and rewinds
    mgr,        \* #sessions and #settled of the agent service
    busy,       \* sessions whose manager has a queue, a Run or a claim
    asked,      \* submissions under way, and tasks that no manager knows
    observed,   \* #observed: sessions a renderer shows
    rewind,     \* where the rewind of a session is
    rewinds,    \* the rewinds that held a session
    sweep,      \* the sweep pass and its triggers
    host        \* how far the shutdown of the host is

vars == <<recent, closing, lease, call, mgr, busy, asked, observed, rewind,
          rewinds, sweep, host>>

Manager(s) == <<"manager", s>>
Rewinder(s) == <<"rewind", s>>
Handle == <<"handle">>      \* the owner of a lease once the session is in #open
Resumers == Clients \cup {Manager(s) : s \in Sessions}
                    \cup {Rewinder(s) : s \in Rewindable}

\* Every owner has an identity of its own.
ASSUME OwnersAssumption ==
    /\ None \notin Resumers \cup {Handle} /\ Handle \notin Resumers
    /\ \A s \in Sessions : Manager(s) \notin Clients /\ Rewinder(s) \notin Clients

Open == Elems(recent)

\* A session a rewind holds: the application refuses new tasks for it.
Held(s) == rewind[s] # "no"

Touched(s) == IF s \in Open THEN Push(Without(recent, {s}), s) ELSE recent

\* requestSweep: a trigger while one is queued, or after closeAll, adds none.
Disposed == host.at \notin {"up", "draining"}

\* Mutant of StorageClosed: an open does not ask whether storage is closed.
StorageForgetsClose == FALSE

StorageClosed == host.at \in {"storage", "down"}
SweepRequested == [sweep EXCEPT !.queued = @ \/ ~Disposed]

Init ==
    /\ recent = EmptyQueue
    /\ closing = [s \in Sessions |-> "no"]
    /\ lease = [s \in Sessions |-> None]
    /\ call = [c \in Resumers |-> [at |-> "idle", on |-> None, rival |-> FALSE]]
    /\ mgr = [s \in Sessions |-> "none"]
    /\ busy = {}
    /\ asked = [lane |-> {}, astray |-> {}, left |-> {}]
    /\ observed = {}
    /\ rewind = [s \in Sessions |-> "no"]
    /\ rewinds = 0
    /\ sweep = [queued |-> FALSE, on |-> FALSE, again |-> FALSE, todo |-> EmptyQueue]
    /\ host = [at |-> "up", of |-> {}]

(***************************************************************************)
(* resume.                                                                 *)
(***************************************************************************)
Opening == {"opening", "recovering"}

Rivals(c, s) == {d \in Resumers \ {c} : call[d].on = s /\ call[d].at \in Opening}

\* The calls after c enters resume for s at the given place.  rival is a history
\* variable: did another call open s at the same time?
Entered(c, s, at) ==
    [d \in Resumers |->
        IF d = c THEN [at |-> at, on |-> s,
                       rival |-> at = "opening" /\ Rivals(c, s) # {}]
        ELSE IF at = "opening" /\ d \in Rivals(c, s)
        THEN [call[d] EXCEPT !.rival = TRUE] ELSE call[d]]

\* Mutant of Resumed: a session that is closing is not awaited.
ResumedAtOnce(c, s) == Entered(c, s, IF s \in Open THEN "ok" ELSE "opening")

\* An open session is returned, one that is closing is awaited, any other is
\* opened.
Resumed(c, s) ==
    Entered(c, s, IF s \in Open THEN "ok"
                  ELSE IF closing[s] # "no" THEN "waiting" ELSE "opening")

\* c has submitted a task and waits for the answer.
Waits(c) == \E p \in asked.lane \cup asked.astray : p[1] = c

\* A client's call, refused while a rewind holds the session.
ClientResumes(c, s) ==
    /\ call[c].at = "idle"
    /\ ~Waits(c)
    /\ ~Held(s)
    /\ call' = Resumed(c, s)
    /\ recent' = Touched(s)
    /\ UNCHANGED <<closing, lease, mgr, busy, asked, observed, rewind, rewinds, sweep,
                   host>>

\* The awaited closing is over: resume starts again.
ResumeWakes(c) ==
    /\ call[c].at = "waiting"
    /\ closing[call[c].on] = "no"
    /\ call' = Resumed(c, call[c].on)
    /\ recent' = Touched(call[c].on)
    /\ UNCHANGED <<closing, lease, mgr, busy, asked, observed, rewind, rewinds, sweep,
                   host>>

\* Storage opens the journal: the writer lease decides between the calls that
\* open one session, and a storage that is closed by now gives no handle.
StorageOpens(c) ==
    LET s == call[c].on
        free == lease[s] = None
    IN
    /\ call[c].at = "opening"
    /\ IF StorageClosed \/ ~free
       THEN /\ call' = [call EXCEPT ![c].at = IF free THEN "failed" ELSE "locked"]
            /\ UNCHANGED lease
       ELSE /\ lease' = [lease EXCEPT ![s] = c]
            /\ call' = [call EXCEPT ![c].at = "recovering"]
    /\ UNCHANGED <<recent, closing, mgr, busy, asked, observed, rewind, rewinds, sweep,
                   host>>

\* Recovery is done: the handle enters #open.
Recovers(c) ==
    LET s == call[c].on IN
    /\ call[c].at = "recovering"
    /\ call' = [call EXCEPT ![c].at = "ok"]
    /\ IF s \in Open
       THEN /\ lease' = [lease EXCEPT ![s] = IF @ = c THEN None ELSE @]
            /\ UNCHANGED <<recent, sweep>>
       ELSE /\ recent' = Push(recent, s)
            /\ lease' = [lease EXCEPT ![s] = IF @ = c THEN Handle ELSE @]
            /\ sweep' = SweepRequested
    /\ UNCHANGED <<closing, mgr, busy, asked, observed, rewind, rewinds, host>>

RecoveryFails(c) ==
    /\ call[c].at = "recovering"
    /\ lease' = [lease EXCEPT ![call[c].on] = IF @ = c THEN None ELSE @]
    /\ call' = [call EXCEPT ![c].at = "failed"]
    /\ UNCHANGED <<recent, closing, mgr, busy, asked, observed, rewind, rewinds, sweep,
                   host>>

Answered(c) == call[c].at \in {"ok", "locked", "failed"}

Hangup(c) == [call EXCEPT ![c] = [at |-> "idle", on |-> None, rival |-> FALSE]]

\* The client is done with its handle, or shows the error.
ClientEnds(c) ==
    /\ Answered(c)
    /\ call' = Hangup(c)
    /\ UNCHANGED <<recent, closing, lease, mgr, busy, asked, observed, rewind, rewinds,
                   sweep, host>>

(***************************************************************************)
(* Managers of the agent service.                                          *)
(***************************************************************************)
\* Any request that needs a manager (a snapshot, a command, a submit) starts
\* one opening that all share.  openSession takes an open handle or resumes.
OpenManager(s) ==
    /\ host.at = "up"
    /\ mgr[s] = "none"
    /\ mgr' = [mgr EXCEPT ![s] = "opening"]
    /\ call' = Resumed(Manager(s), s)
    /\ recent' = Touched(s)
    /\ UNCHANGED <<closing, lease, busy, asked, observed, rewind, rewinds, sweep, host>>

\* A rewind whose initialize threw: session/rewound is appended all the same,
\* if the handle that rewrite returned still lives.
Thrown(stage) == CASE stage \in {"announce", "prompt"} -> "no"
                   [] stage = "stale" -> "unreported"
                   [] OTHER -> stage

\* The ledger is open: the manager settles, with the tasks it finds queued.  A
\* lost writer lease is forgotten and tried again by the next request, any other
\* failure stays cached.
ManagerSettles(s) ==
    /\ mgr[s] = "opening"
    /\ Answered(Manager(s))
    /\ call' = Hangup(Manager(s))
    /\ \/ /\ call[Manager(s)].at = "ok"
          /\ mgr' = [mgr EXCEPT ![s] = "ready"]
          /\ busy' = busy \cup (asked.left \cap {s})
          /\ asked' = [asked EXCEPT !.left = @ \ {s}]
          /\ UNCHANGED rewind
       \/ /\ call[Manager(s)].at \in {"ok", "failed"}
          /\ mgr' = [mgr EXCEPT ![s] = "failed"]
          /\ UNCHANGED <<busy, asked, rewind>>
       \/ /\ call[Manager(s)].at = "locked"
          /\ mgr' = [mgr EXCEPT ![s] = "none"]
          /\ rewind' = [rewind EXCEPT ![s] = Thrown(@)]
          /\ UNCHANGED <<busy, asked>>
    /\ UNCHANGED <<recent, closing, lease, observed, rewinds, sweep, host>>

\* A client that passed the check for a hold submits a task: the submission
\* waits in the lane of the ledger, where neither the pins nor the gate see it.
Submits(c) ==
    LET s == call[c].on IN
    /\ call[c].at = "ok"
    /\ mgr[s] = "ready"
    /\ host.at = "up"
    /\ asked' = [asked EXCEPT !.lane = @ \cup {<<c, s>>}]
    /\ call' = Hangup(c)
    /\ UNCHANGED <<recent, closing, lease, mgr, busy, observed, rewind, rewinds,
                   sweep, host>>

\* The submission of c has been answered; that of a rewind ends its hold.
Settled(c, s) == [asked EXCEPT !.lane = @ \ {<<c, s>>}, !.astray = @ \ {<<c, s>>}]

HoldOver(c, s) ==
    [rewind EXCEPT ![s] = IF c = Rewinder(s) /\ @ = "submitting" THEN "no" ELSE @]

\* The commit is durable and the task is queued.
Accepted(c, s) ==
    /\ <<c, s>> \in asked.lane
    /\ mgr[s] = "ready"
    /\ lease[s] = Handle /\ ~StorageClosed
    /\ busy' = busy \cup {s}
    /\ asked' = Settled(c, s)
    /\ rewind' = HoldOver(c, s)
    /\ UNCHANGED <<recent, closing, lease, call, mgr, observed, rewinds, sweep, host>>

\* The submission is rejected, or its commit fails and blocks the ledger.
Declined(c, s) ==
    /\ <<c, s>> \in asked.lane
    /\ mgr' \in {mgr, [mgr EXCEPT ![s] = IF @ = "ready" THEN "failed" ELSE @]}
    /\ asked' = Settled(c, s)
    /\ rewind' = HoldOver(c, s)
    /\ UNCHANGED <<recent, closing, lease, call, busy, observed, rewinds, sweep, host>>

\* The manager was dropped meanwhile.  The commit that reaches the journal before
\* the handle is closed gives the client its receipt, but nobody starts the task.
AcceptedAstray(c, s) ==
    /\ <<c, s>> \in asked.astray
    /\ asked' \in {Settled(c, s), [Settled(c, s) EXCEPT !.left = @ \cup {s}]}
    /\ rewind' = HoldOver(c, s)
    /\ UNCHANGED <<recent, closing, lease, call, mgr, busy, observed, rewinds, sweep,
                   host>>

Submission(c) ==
    \E s \in Sessions : Accepted(c, s) \/ Declined(c, s) \/ AcceptedAstray(c, s)

\* The last Run has ended; the snapshot without a running Run asks for a sweep.
WorkEnds(s) ==
    /\ s \in busy
    /\ busy' = busy \ {s}
    /\ sweep' = SweepRequested
    /\ UNCHANGED <<recent, closing, lease, call, mgr, asked, observed, rewind,
                   rewinds, host>>

\* The release gate: canRelease of the agent service.  A manager that is
\* opening, or failed, is in #sessions and not in #settled.
GateOpen(s) == mgr[s] = "none" \/ (mgr[s] = "ready" /\ s \notin busy)

(***************************************************************************)
(* Release of idle sessions.  The gate and the pins (a running Run, a      *)
(* queued task) are unregistered when the runtime starts to dispose.       *)
(***************************************************************************)
Registered == host.at = "up"

\* The agent service drops a manager that has settled, and only that.
Dropped(s) == [mgr EXCEPT ![s] = IF Registered /\ @ = "ready" THEN "none" ELSE @]

\* What is left of the submissions once the manager of s is dropped, and once its
\* handle is closed.
OnTo(s, lane) == {p \in lane : p[2] = s}

Strayed(s) == IF mgr[s] = "ready" /\ Dropped(s)[s] = "none"
              THEN [asked EXCEPT !.lane = @ \ OnTo(s, asked.lane),
                                 !.astray = @ \cup OnTo(s, asked.lane)]
              ELSE asked

CutOff(s) == [asked EXCEPT !.lane = @ \ OnTo(s, asked.lane),
                           !.astray = @ \ OnTo(s, asked.astray)]

IsReleasable(s) ==
    /\ s \in Open
    /\ s \notin observed
    /\ Registered => s \notin busy /\ GateOpen(s)
    /\ \A o \in Open \ {s} : Parent[o] # s

Idle == {s \in Open : IsReleasable(s)}

\* Those that are shown are touched one by one, in any order.
SetObserved(ids) ==
    LET shown == ids \cap Open IN
    /\ ids # observed
    /\ observed' = ids
    /\ \E order \in SUBSET (shown \X shown) :
          /\ IsQueueOf(order, shown)
          /\ recent' = Without(recent, shown) \cup order \cup ((Open \ shown) \X shown)
    /\ sweep' = SweepRequested
    /\ UNCHANGED <<closing, lease, call, mgr, busy, asked, rewind, rewinds, host>>

\* The least recently used of the idle sessions, as many as are too many.
Excess ==
    LET Over(s) == Cardinality({t \in Idle : <<s, t>> \in recent}) > MaxIdle
    IN Without(recent, Open \ {s \in Idle : Over(s)})

ComesNext(s) == IsFirst(sweep.todo, s, Elems(sweep.todo))

Scanned(sw) == IF Disposed THEN [sw EXCEPT !.on = FALSE, !.again = FALSE]
               ELSE [sw EXCEPT !.on = TRUE, !.again = FALSE, !.todo = Excess]

\* The queued trigger: join the pass that runs, or start one.
SweepStarts ==
    /\ sweep.queued
    /\ LET sw == [sweep EXCEPT !.queued = FALSE] IN
       sweep' = IF sw.on THEN [sw EXCEPT !.again = TRUE] ELSE Scanned(sw)
    /\ UNCHANGED <<recent, closing, lease, call, mgr, busy, asked, observed, rewind,
                   rewinds, host>>

\* Mutant of StillReleasable: release trusts the scan.
StillOpen(s) == closing[s] = "no" /\ s \in Open

StillReleasable(s) == closing[s] = "no" /\ IsReleasable(s)

\* release: the check, the removal and the gate's own release are one step.
\* A rewind that was about to use the handle is left with a dead one, and a
\* submission in the lane with a manager that is no longer there.
SweepReleases ==
    \E s \in Elems(sweep.todo) :
       /\ ComesNext(s) /\ closing[s] # "release"
       /\ IF StillReleasable(s)
          THEN /\ recent' = Without(recent, {s})
               /\ closing' = [closing EXCEPT ![s] = "release"]
               /\ mgr' = Dropped(s)
               /\ asked' = Strayed(s)
               /\ rewind' = [rewind EXCEPT ![s] = IF @ = "announce" THEN "stale" ELSE @]
               /\ UNCHANGED sweep
          ELSE /\ sweep' = [sweep EXCEPT !.todo = Without(@, {s})]
               /\ UNCHANGED <<recent, closing, mgr, asked, rewind>>
       /\ UNCHANGED <<lease, call, busy, observed, rewinds, host>>

\* Flush and close are done, the lease is free, the closing is forgotten and
\* the pass goes on.  A submission that has not committed by now fails.
Released(s) ==
    /\ closing[s] = "release"
    /\ closing' = [closing EXCEPT ![s] = "no"]
    /\ lease' = [lease EXCEPT ![s] = None]
    /\ asked' = CutOff(s)
    /\ rewind' = [rewind EXCEPT ![s] = IF @ = "submitting" THEN "no" ELSE @]
    /\ sweep' = [sweep EXCEPT !.todo = Without(@, {s})]
    /\ UNCHANGED <<recent, call, mgr, busy, observed, rewinds, host>>

SweepEnds ==
    /\ sweep.on
    /\ sweep.todo = EmptyQueue
    /\ sweep' = IF sweep.again THEN Scanned(sweep) ELSE [sweep EXCEPT !.on = FALSE]
    /\ UNCHANGED <<recent, closing, lease, call, mgr, busy, asked, observed, rewind,
                   rewinds, host>>

(***************************************************************************)
(* Rewind: hold the session, stop what runs, rewrite, reopen, announce.    *)
(***************************************************************************)
RewindHolds(s) ==
    /\ s \in Open
    /\ mgr[s] = "ready"
    /\ ~Held(s)
    /\ rewinds < MaxRewinds
    /\ rewinds' = rewinds + 1
    /\ rewind' = [rewind EXCEPT ![s] = "held"]
    /\ UNCHANGED <<recent, closing, lease, call, mgr, busy, asked, observed, sweep, host>>

\* Mutant of RewindRefused: the refusal is thrown past the release of the hold.
RewindRefusedHolding(s) == rewind[s] = "held" /\ s \in busy /\ UNCHANGED vars

\* Work is running: the rewind is refused.
RewindRefused(s) ==
    /\ rewind[s] = "held"
    /\ s \in busy
    /\ rewind' = [rewind EXCEPT ![s] = "no"]
    /\ UNCHANGED <<recent, closing, lease, call, mgr, busy, asked, observed, rewinds,
                   sweep, host>>

\* Only wakes are queued: stopAll takes the subagents that run and waits for the
\* result of each, which one whose opening fails by then never gives.
RewindStops(s) ==
    /\ rewind[s] = "held"
    /\ s \notin busy
    /\ \E stage \in {"stopped", "stuck"} : rewind' = [rewind EXCEPT ![s] = stage]
    /\ UNCHANGED <<recent, closing, lease, call, mgr, busy, asked, observed, rewinds,
                   sweep, host>>

\* Background work is stopped; the session may have been swept meanwhile.
RewindResumes(s) ==
    /\ rewind[s] = "stopped"
    /\ rewind' = [rewind EXCEPT ![s] = "resuming"]
    /\ call' = Resumed(Rewinder(s), s)
    /\ recent' = Touched(s)
    /\ UNCHANGED <<closing, lease, mgr, busy, asked, observed, rewinds, sweep, host>>

\* rewrite: refused, or the session leaves #open with its manager.
RewriteStarts(s) ==
    /\ rewind[s] = "resuming"
    /\ Answered(Rewinder(s))
    /\ call' = Hangup(Rewinder(s))
    /\ IF /\ call[Rewinder(s)].at = "ok"
          /\ s \in Open
          /\ closing[s] = "no"
          /\ Registered => GateOpen(s)
       THEN /\ rewind' = [rewind EXCEPT ![s] = "closing"]
            /\ recent' = Without(recent, {s})
            /\ closing' = [closing EXCEPT ![s] = "rewrite"]
            /\ mgr' = Dropped(s)
            /\ asked' = Strayed(s)
       ELSE /\ rewind' = [rewind EXCEPT ![s] = "no"]
            /\ UNCHANGED <<recent, closing, mgr, asked>>
    /\ UNCHANGED <<lease, busy, observed, rewinds, sweep, host>>

\* The closing is over, in the step that ends it rewrite goes on first: it
\* reopens the session, be the journal rewritten or not.
Reopens(s, stage) ==
    /\ closing' = [closing EXCEPT ![s] = "no"]
    /\ call' = Entered(Rewinder(s), s, IF s \in Open THEN "ok" ELSE "opening")
    /\ rewind' = [rewind EXCEPT ![s] = stage]

\* The handle is closed, what has not been committed to it fails, and storage
\* takes the lease once more to rewrite the journal.  Or the closing failed, or
\* storage is closed.
RewriteLocks(s) ==
    /\ rewind[s] = "closing"
    /\ asked' = CutOff(s)
    /\ \/ /\ ~StorageClosed
          /\ lease' = [lease EXCEPT ![s] = Rewinder(s)]
          /\ rewind' = [rewind EXCEPT ![s] = "rewriting"]
          /\ UNCHANGED <<closing, call>>
       \/ /\ lease' = [lease EXCEPT ![s] = None]
          /\ Reopens(s, "restoring")
    /\ UNCHANGED <<recent, mgr, busy, observed, rewinds, sweep, host>>

\* The journal is another one, or it is refused, as it is when a task was
\* accepted after the cut was chosen.  That storage is closed by now is not asked.
RewriteEnds(s) ==
    /\ rewind[s] = "rewriting"
    /\ lease' = [lease EXCEPT ![s] = None]
    /\ \/ Reopens(s, "restoring")
       \/ s \notin asked.left /\ Reopens(s, "reopening")
    /\ UNCHANGED <<recent, mgr, busy, asked, observed, rewinds, sweep, host>>

\* The unchanged journal is open again (or not): the failure is thrown.
RewindFails(s) ==
    /\ rewind[s] = "restoring"
    /\ Answered(Rewinder(s))
    /\ call' = Hangup(Rewinder(s))
    /\ rewind' = [rewind EXCEPT ![s] = "no"]
    /\ UNCHANGED <<recent, closing, lease, mgr, busy, asked, observed, rewinds, sweep, host>>

\* The rewritten session is open again, or rewrite throws although the journal
\* is another one.
RewindReopened(s) ==
    /\ rewind[s] = "reopening"
    /\ Answered(Rewinder(s))
    /\ call' = Hangup(Rewinder(s))
    /\ rewind' = [rewind EXCEPT ![s] = IF call[Rewinder(s)].at = "ok"
                                       THEN "announce" ELSE "unreported"]
    /\ UNCHANGED <<recent, closing, lease, mgr, busy, asked, observed, rewinds, sweep, host>>

\* initialize has the manager opened again, and session/rewound is appended to
\* the handle that rewrite returned.
RewindAnnounces(s) ==
    /\ rewind[s] \in {"announce", "stale"}
    /\ mgr[s] \in {"ready", "failed"} \/ host.at # "up"
    /\ rewind' = [rewind EXCEPT ![s] =
                     IF @ = "announce" /\ mgr[s] = "ready" /\ host.at = "up"
                     THEN "prompt" ELSE Thrown(@)]
    /\ UNCHANGED <<recent, closing, lease, call, mgr, busy, asked, observed, rewinds,
                   sweep, host>>

\* The prompt is submitted; the hold ends with the answer, or without a manager.
RewindSubmits(s) ==
    /\ rewind[s] = "prompt"
    /\ \/ /\ mgr[s] = "ready" /\ host.at = "up"
          /\ asked' = [asked EXCEPT !.lane = @ \cup {<<Rewinder(s), s>>}]
          /\ rewind' = [rewind EXCEPT ![s] = "submitting"]
       \/ /\ mgr[s] = "failed" \/ host.at # "up"
          /\ rewind' = [rewind EXCEPT ![s] = "no"]
          /\ UNCHANGED asked
    /\ UNCHANGED <<recent, closing, lease, call, mgr, busy, observed, rewinds, sweep,
                   host>>

\* The hold of a rewind that threw is released, too.
RewindThrows(s) ==
    /\ rewind[s] = "unreported"
    /\ rewind' = [rewind EXCEPT ![s] = "no"]
    /\ UNCHANGED <<recent, closing, lease, call, mgr, busy, asked, observed, rewinds, sweep,
                   host>>

(***************************************************************************)
(* Shutdown: dispose of the agent runtime, closeAll, close of storage.     *)
(***************************************************************************)
Quiesce ==
    /\ Stops
    /\ host.at = "up"
    /\ host' = [host EXCEPT !.at = "draining"]
    /\ UNCHANGED <<recent, closing, lease, call, mgr, busy, asked, observed, rewind,
                   rewinds, sweep>>

CloseAll ==
    /\ host.at = "draining"
    /\ busy = {}
    /\ \A s \in Sessions : mgr[s] # "opening"
    /\ host' = [host EXCEPT !.at = "sweeps"]
    /\ UNCHANGED <<recent, closing, lease, call, mgr, busy, asked, observed, rewind,
                   rewinds, sweep>>

AwaitClosings ==
    /\ host.at = "sweeps"
    /\ ~sweep.on
    /\ host' = [at |-> "closings", of |-> {s \in Sessions : closing[s] # "no"}]
    /\ UNCHANGED <<recent, closing, lease, call, mgr, busy, asked, observed, rewind,
                   rewinds, sweep>>

ClearOpen ==
    /\ host.at = "closings"
    /\ \A s \in host.of : closing[s] = "no"
    /\ host' = [at |-> "handles", of |-> Open]
    /\ recent' = EmptyQueue
    /\ rewind' = [s \in Sessions |-> IF rewind[s] = "announce" THEN "stale"
                                     ELSE rewind[s]]
    /\ UNCHANGED <<closing, lease, call, mgr, busy, asked, observed, rewinds, sweep>>

\* The handles are closed; close of the storage: no open starts any more ...
StorageCloses ==
    /\ host.at = "handles"
    /\ host' = [at |-> "storage", of |-> {}]
    /\ lease' = [s \in Sessions |-> IF s \in host.of THEN None ELSE lease[s]]
    /\ UNCHANGED <<recent, closing, call, mgr, busy, asked, observed, rewind, rewinds, sweep>>

\* ... and when those under way have ended, the handles still there are closed.
\* A rewrite under way has a lease and no handle: nobody waits for it.
HostDown ==
    /\ host.at = "storage"
    /\ \A c \in Resumers : call[c].at # "opening"
    /\ host' = [host EXCEPT !.at = "down"]
    /\ lease' = [s \in Sessions |-> IF rewind[s] = "rewriting" THEN lease[s] ELSE None]
    /\ UNCHANGED <<recent, closing, call, mgr, busy, asked, observed, rewind, rewinds, sweep>>

-----------------------------------------------------------------------------
Calls(c) == ResumeWakes(c) \/ StorageOpens(c) \/ Recovers(c) \/ RecoveryFails(c)

ClientCalls(c) == ClientEnds(c) \/ Submits(c) \/ \E s \in Sessions : ClientResumes(c, s)

RewindSteps(s) ==
    \/ RewindRefused(s) \/ RewindStops(s) \/ RewindResumes(s) \/ RewriteStarts(s)
    \/ RewriteLocks(s) \/ RewriteEnds(s) \/ RewindFails(s) \/ RewindReopened(s)
    \/ RewindThrows(s)

Sweeping == SweepStarts \/ SweepReleases \/ SweepEnds

Shutdown == Quiesce \/ CloseAll \/ AwaitClosings \/ ClearOpen \/ StorageCloses
            \/ HostDown

Next ==
    \/ \E c \in Resumers : Calls(c) \/ Submission(c)
    \/ \E c \in Clients : ClientCalls(c)
    \/ \E s \in Sessions : OpenManager(s) \/ ManagerSettles(s) \/ WorkEnds(s)
    \/ \E ids \in Views : SetObserved(ids)
    \/ Sweeping
    \/ \E s \in Sessions : Released(s)
    \/ \E s \in Rewindable : \/ RewindHolds(s) \/ RewindSteps(s)
                             \/ RewindAnnounces(s) \/ RewindSubmits(s)
    \/ Shutdown

\* Promises settle and continuations run.  Clients, renderers and the user are
\* not fair.  Who waits for a closing or a manager waits for one promise and is
\* woken even if the session closes again at once: strong fairness.
Fairness ==
    /\ \A c \in Resumers : /\ WF_vars(Calls(c)) /\ SF_vars(ResumeWakes(c))
                           /\ WF_vars(Submission(c))
    /\ WF_vars(Sweeping)
    /\ \A s \in Sessions :
        /\ WF_vars(ManagerSettles(s))
        /\ WF_vars(Released(s))
    /\ \A s \in Rewindable :
        /\ WF_vars(RewindSteps(s))
        /\ WF_vars(rewind[s] \in {"announce", "stale", "prompt"} /\ OpenManager(s))
        /\ SF_vars(RewindAnnounces(s) \/ RewindSubmits(s))

Spec == Init /\ [][Next]_vars /\ Fairness

-----------------------------------------------------------------------------
TypeOK ==
    /\ IsQueueOf(recent, Open) /\ Open \subseteq Sessions
    /\ closing \in [Sessions -> {"no", "release", "rewrite"}]
    /\ lease \in [Sessions -> {None, Handle} \cup Resumers]
    /\ \A c \in Resumers :
        /\ call[c].at \in Opening \cup {"idle", "waiting", "ok", "locked", "failed"}
        /\ call[c].on \in Sessions \cup {None}
    /\ mgr \in [Sessions -> {"none", "opening", "ready", "failed"}]
    /\ busy \subseteq Sessions /\ observed \subseteq Sessions
    /\ rewind \in [Sessions -> {"no", "held", "stopped", "stuck", "resuming", "closing",
          "rewriting", "restoring", "reopening", "announce", "stale", "prompt",
          "submitting", "unreported"}]
    /\ asked.lane \cup asked.astray \subseteq Resumers \X Sessions
    /\ asked.left \subseteq Sessions
    /\ IsQueueOf(sweep.todo, Elems(sweep.todo)) /\ Elems(sweep.todo) \subseteq Sessions
    /\ host.of \subseteq Sessions

\* A reopen waits for the old handle: a resume is refused with
\* SESSION_WRITER_LOCKED only because another resume opens the same session,
\* never because of a handle that a release or a rewrite is closing (resume;
\* closeAll makes nobody wait).  The variables have their types.
LoneResumeSucceeds ==
    TypeOK /\ (host.at \notin {"handles", "storage", "down"} =>
        \A c \in Resumers : call[c].at = "locked" => call[c].rival)

\* While the host is up no session leaves #open under a Run, a queued task or a
\* manager that is opening, a manager that settled is dropped in the same step,
\* and no session is released under a side chat that reads it (isReleasable,
\* canRelease and the gates of rewrite, checked again after every await).  A
\* submission that still waits in the lane is not among this: see TasksKeepManager.
WorkKeepsSession ==
    [][host.at = "up" => \A s \in Open \ Open' :
        /\ s \notin busy
        /\ mgr[s] # "opening" /\ mgr'[s] # "ready"
        /\ closing'[s] = "release" => \A o \in Open : Parent[o] # s]_vars

\* Nothing submits to a manager that loses its session (release of the agent
\* service, which says so): no accepted task is left in a journal without one.
\* It fails: a submission may wait in the lane of the manager that is dropped.
TasksKeepManager == asked.left = {}

\* Every hold whose stops return ends, however the rewind ends: a session is not
\* left refusing its user's messages (rewindAndSubmit releases the hold it took).
HoldsEnd == \A s \in Sessions : Held(s) ~> ~Held(s) \/ rewind[s] = "stuck"

\* Every hold ends.  It fails: stopAll may wait for ever.
EveryHoldEnds == \A s \in Sessions : Held(s) ~> ~Held(s)

\* When storage has closed, no handle is left that keeps a session's writer
\* lock, not even that of a resume that was under way during the shutdown: only
\* a rewrite that storage does not wait for may have one (closeAll, and close of
\* JsonlSessionStorage), and HoldsEnd says that such a rewrite ends.
ShutdownFreesLeases ==
    host.at = "down" =>
        \A s \in Sessions :
            lease[s] # None => lease[s] = Rewinder(s) /\ rewind[s] = "rewriting"

\* When storage has closed, every lease is free.  It fails for a rewrite that
\* begins while closeAll waits.
DownHoldsNothing == host.at = "down" => \A s \in Sessions : lease[s] = None

=============================================================================
