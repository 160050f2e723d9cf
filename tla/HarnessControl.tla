---------------------------- MODULE HarnessControl ----------------------------
(***************************************************************************)
(* Which harness a run executes on: HarnessControl (harness-control/src/   *)
(* service.ts) over HarnessGenerations (composition/boot/src/harness-      *)
(* generations.ts) and SelectionStore (selection-store.ts).                *)
(*                                                                         *)
(* A generation is a mounted composition.  It is prepared outside of any   *)
(* order; selections, acquisitions and discards pass one gate, a chain of  *)
(* promises.  The log of selections is on disk and survives the process.   *)
(* A restored generation has the name of the one its row was written for.  *)
(***************************************************************************)
EXTENDS Naturals, Sequences, FiniteSets

CONSTANTS
    Branches,    \* harnesses beside "main"; each belongs to a session
    Callers,     \* calls under way at a time; each serves one after another
    MaxGens,     \* bound: compositions ever prepared
    MaxStarts    \* bound: starts of the process

Harnesses == {"main"} \cup Branches
Gens == 1 .. MaxGens
None == 0

ASSUME HarnessAssumption ==
    /\ "main" \notin Branches
    /\ MaxGens \in Nat /\ MaxStarts \in Nat

VARIABLES
    log,      \* the rows on disk: [of, gen, rev, byHost]
    lock,     \* who has the store: "free", "mine" or "other"
    records,  \* the rows as the process knows them
    failure,  \* the store refuses everything from now on
    gen,      \* the generations
    current,  \* the one selected for each harness
    cands,    \* the candidates that may be activated or discarded
    blocked,  \* for each harness why it cannot run, or "no"
    star,     \* the same for all harnesses: blocked.get("*")
    life,     \* "down", "up", "closing" or "closed"
    boot,     \* how far initialize() is: "open", "load", "builtin" or "done"
    gate,     \* calls queued behind the gate; the head has it
    call,     \* the calls: place, generation, harness, and whether its signal is aborted
    starts,
    done, dropped, unsure, faulted  \* what was answered, and whether storage has failed

disk == <<log, lock>>
memory == <<records, failure>>
mounts == <<gen, current>>
states == <<blocked, star>>
process == <<life, boot, starts>>
history == <<done, dropped, unsure, faulted>>
vars == <<disk, memory, mounts, cands, states, process, gate, call, history>>

(***************************************************************************)
(* Rows and generations.                                                   *)
(***************************************************************************)
Rows(s, h) == {i \in DOMAIN s : s[i].of = h}
LastRow(s, h) == s[CHOOSE i \in Rows(s, h) : \A j \in Rows(s, h) : j <= i]
Rev(s, h) == IF Rows(s, h) = {} THEN 0 ELSE LastRow(s, h).rev
Recorded(s, g) == \E i \in DOMAIN s : s[i].gen = g

Unmounted == [of |-> "main", exp |-> 0, src |-> 0, state |-> "none", users |-> 0]
Gone == [Unmounted EXCEPT !.state = "gone"]
Unused == {g \in Gens : gen[g].state = "none"}
IsNext(g) == g \in Unused /\ \A f \in Unused : g <= f

\* #collect: a retired generation without users is cleaned up.
Collect(G, g) ==
    IF G[g].state = "retired" /\ G[g].users = 0
    THEN [G EXCEPT ![g].state = "cleaning"] ELSE G
Retire(G, g) == Collect([G EXCEPT ![g].state = "retired"], g)

LeaveUse(G, g) == Collect([G EXCEPT ![g].users = @ - 1], g)

\* The row of g, and what activate() and restore() do with it.
RowOf(g, byHost) == [of |-> gen[g].of, gen |-> g, rev |-> gen[g].exp + 1, byHost |-> byHost]
CanPublish(g) ==
    /\ gen[g].state = "ready"
    /\ current[gen[g].of] # None => gen[current[gen[g].of]].exp + 1 = gen[g].exp
Publish(g) ==
    LET before == current[gen[g].of] IN
    LET G == [gen EXCEPT ![g].state = "current"] IN
    /\ gen' = IF before = None THEN G ELSE Retire(G, before)
    /\ current' = [current EXCEPT ![gen[g].of] = g]

\* store.assertOwned
Owned == ~failure /\ lock = "mine"
HasGate(c) == gate # <<>> /\ Head(gate) = c
Leave == gate' = Tail(gate)
Idle == [at |-> "idle", on |-> None, of |-> "main", aborted |-> FALSE]
Begin(c, place, g, h) ==
    call' = [call EXCEPT ![c] = [at |-> place, on |-> g, of |-> h, aborted |-> FALSE]]
Goto(c, place) == call' = [call EXCEPT ![c].at = place]
End(c) == call' = [call EXCEPT ![c] = Idle]
Accepting == life = "up"
Enqueue(c) == gate' = Append(gate, c)
Started == boot = "done" \/ \E c \in Callers : call[c].at = "retrying"

Init ==
    /\ log = <<>> /\ lock = "free" /\ records = <<>> /\ failure = FALSE
    /\ gen = [g \in Gens |-> Unmounted] /\ current = [h \in Harnesses |-> None]
    /\ cands = {} /\ blocked = [h \in Harnesses |-> "no"] /\ star = "no"
    /\ life = "down" /\ boot = "done" /\ starts = 0 /\ gate = <<>>
    /\ call = [c \in Callers |-> Idle]
    /\ done = {} /\ dropped = {} /\ unsure = {} /\ faulted = FALSE

(***************************************************************************)
(* initialize(), at startup and again when the store was locked then.      *)
(***************************************************************************)
Start ==
    /\ life = "down" /\ starts < MaxStarts
    /\ life' = "up" /\ boot' = "open" /\ starts' = starts + 1
    /\ UNCHANGED <<disk, memory, mounts, cands, states, gate, call, history>>

\* The rows are read once the lock is held; a log that cannot be read blocks all.
Open ==
    /\ boot = "open"
    /\ \/ /\ lock = "free" /\ lock' = "mine" /\ records' = log
          /\ boot' = "load" /\ star' = "no" /\ UNCHANGED <<failure, faulted>>
       \/ /\ lock = "free" /\ lock' = "mine" /\ failure' = TRUE /\ faulted' = TRUE
          /\ boot' = "done" /\ star' = "broken" /\ UNCHANGED records
       \/ /\ lock # "free" /\ boot' = "done" /\ star' = "locked"
          /\ UNCHANGED <<lock, memory, faulted>>
    /\ UNCHANGED <<log, mounts, cands, blocked, life, starts, gate, call, done, dropped, unsure>>

ToLoad == {h \in Harnesses : Rows(records, h) # {} /\ current[h] = None /\ blocked[h] \in {"no", "failed"}}

Restored(row) ==
    [of |-> row.of, exp |-> row.rev - 1, src |-> 0, state |-> "current", users |-> 0]

\* A selection whose artifacts are damaged, or whose host contract has changed, is blocked.
Load(h) ==
    /\ boot = "load" /\ h \in ToLoad
    /\ \/ LET row == LastRow(records, h) IN
          /\ gen' = [gen EXCEPT ![row.gen] = Restored(row)]
          /\ current' = [current EXCEPT ![h] = row.gen]
          /\ UNCHANGED blocked
       \/ \E why \in {"contract", "damaged"} : blocked' = [blocked EXCEPT ![h] = why]
          /\ UNCHANGED mounts
    /\ UNCHANGED <<disk, memory, cands, star, process, gate, call, history>>

Loaded ==
    /\ boot = "load" /\ ToLoad = {} /\ boot' = "builtin"
    /\ UNCHANGED <<disk, memory, mounts, cands, states, life, starts, gate, call, history>>

\* The builtin is selected when "main" has no row, and anew after an update of the
\* application while the host alone has made selections.
MayUpgrade ==
    /\ Rows(records, "main") # {}
    /\ \A i \in DOMAIN records : records[i].of = "main" /\ records[i].byHost
    /\ blocked["main"] \in {"no", "contract"}

\* Nothing to select: the builtin is the one that runs.
KeepBuiltin ==
    /\ boot = "builtin" /\ Rows(records, "main") # {}
    /\ MayUpgrade => blocked["main"] = "no"
    /\ boot' = "done"
    /\ UNCHANGED <<disk, memory, mounts, cands, states, life, starts, gate, call, history>>

SelectBuiltin(g) ==
    /\ boot = "builtin" /\ (Rows(records, "main") = {} \/ MayUpgrade) /\ IsNext(g) /\ Owned
    /\ LET row == [of |-> "main", gen |-> g, rev |-> Rev(records, "main") + 1, byHost |-> TRUE]
           G == [gen EXCEPT ![g] = Restored(row)] IN
       /\ log' = Append(log, row) /\ records' = Append(records, row)
       /\ gen' = IF current["main"] = None THEN G ELSE Retire(G, current["main"])
    /\ current' = [current EXCEPT !["main"] = g]
    /\ blocked' = [blocked EXCEPT !["main"] = "no"]
    /\ boot' = "done"
    /\ UNCHANGED <<lock, failure, cands, star, life, starts, gate, call, history>>

\* The builtin cannot be mounted, or its row cannot be written.
BuiltinFails ==
    /\ boot = "builtin" /\ (Rows(records, "main") = {} \/ MayUpgrade)
    /\ star' = "broken" /\ boot' = "done"
    /\ \/ UNCHANGED <<log, memory, faulted>>
       \/ failure' = TRUE /\ faulted' = TRUE /\ UNCHANGED <<log, records>>
    /\ UNCHANGED <<lock, mounts, cands, blocked, life, starts, gate, call, done, dropped, unsure>>

(***************************************************************************)
(* Candidates: prepare, prepareBranch, prepareRollback.                    *)
(***************************************************************************)
HasBaseline(h) ==
    \/ Rows(records, h) # {}
    \/ h \in Branches /\ Rows(records, "main") # {}

Prepare(c, h, g) ==
    /\ call[c].at = "idle" /\ Accepting /\ Started /\ HasBaseline(h) /\ IsNext(g)
    /\ gen' = [gen EXCEPT ![g] =
          [of |-> h, exp |-> Rev(records, h), state |-> "mounting", users |-> 0,
           src |-> IF h \in Branches /\ Rev(records, h) = 0 THEN Rev(records, "main") ELSE 0]]
    /\ Begin(c, "mounting", g, h)
    /\ UNCHANGED <<disk, memory, current, cands, states, process, gate, history>>

Mounted(c) ==
    /\ call[c].at = "mounting" /\ End(c)
    /\ LET g == call[c].on IN
       \/ /\ Accepting
          /\ gen' = [gen EXCEPT ![g].state = "ready"] /\ cands' = cands \cup {g}
       \/ ~Accepting /\ gen' = Retire(gen, g) /\ UNCHANGED cands
       \/ gen' = [gen EXCEPT ![g] = Gone] /\ UNCHANGED cands
    /\ UNCHANGED <<disk, memory, current, states, process, gate, history>>

(***************************************************************************)
(* activate: asked for by candidate, decided by the host, and committed    *)
(* behind the gate.  The activation has the candidate's name; a repeated   *)
(* one is answered from the records.                                       *)
(***************************************************************************)
Activate(c, g) ==
    /\ call[c].at = "idle" /\ Accepting
    /\ g \in cands /\ ~Recorded(records, g)
    /\ Begin(c, "authorizing", g, gen[g].of)
    /\ UNCHANGED <<disk, memory, mounts, cands, states, process, gate, history>>

Authorized(c) ==
    /\ call[c].at = "authorizing"
    /\ IF Accepting
       THEN Enqueue(c) /\ Goto(c, "queued")
       ELSE End(c) /\ UNCHANGED gate
    /\ UNCHANGED <<disk, memory, mounts, cands, states, process, history>>

SourceHolds(g) == gen[g].src # 0 => Rev(records, "main") = gen[g].src

(* Mutants of MayCommit: the baseline, or the candidate, is not looked up again. *)
MayCommitStale(c) == call[c].on \in cands /\ SourceHolds(call[c].on)
MayCommitLooked(c) == SourceHolds(call[c].on) /\ Rev(records, gen[call[c].on].of) = gen[call[c].on].exp
MayCommit(c) ==
    LET g == call[c].on IN
    g \in cands /\ SourceHolds(g) /\ Rev(records, gen[g].of) = gen[g].exp

\* What the gate finds: a repeated activation, one that is denied or has expired or may
\* not be committed, or one to write.
Commit(c) ==
    LET g == call[c].on IN
    /\ call[c].at = "queued" /\ HasGate(c)
    /\ \/ Recorded(records, g) /\ done' = done \cup {g} /\ End(c) /\ Leave
       \/ ~Recorded(records, g) /\ End(c) /\ Leave /\ UNCHANGED done
       \/ ~Recorded(records, g) /\ MayCommit(c) /\ Goto(c, "writing") /\ UNCHANGED <<gate, done>>
    /\ UNCHANGED <<disk, memory, mounts, cands, states, process, dropped, unsure, faulted>>

\* #validate: the row continues its harness's rows, its activation is new.
Valid(g) == Rev(records, gen[g].of) = gen[g].exp /\ ~Recorded(records, g)

(* Mutant of CommitFails: the error is thrown and nothing is blocked. *)
CommitFailsQuietly(c) == End(c) /\ Leave /\ UNCHANGED <<failure, blocked>>
CommitFails(c) ==
    /\ failure' = TRUE /\ blocked' = [blocked EXCEPT ![gen[call[c].on].of] = "failed"]
    /\ End(c) /\ Leave

\* The row is written and synced, unless the disk fails before.
Write(c) ==
    /\ call[c].at = "writing"
    /\ \/ /\ Owned /\ Valid(call[c].on)
          /\ log' = Append(log, RowOf(call[c].on, FALSE)) /\ Goto(c, "written")
          /\ UNCHANGED <<failure, blocked, gate, faulted>>
       \/ ~(Owned /\ Valid(call[c].on)) /\ CommitFails(c) /\ UNCHANGED <<log, faulted>>
       \/ Owned /\ CommitFails(c) /\ faulted' = TRUE /\ UNCHANGED log
    /\ UNCHANGED <<lock, records, mounts, cands, star, process, done, dropped, unsure>>

Acknowledge(c) ==
    LET g == call[c].on IN
    /\ call[c].at = "written"
    /\ records' = Append(records, RowOf(g, FALSE))
    /\ IF CanPublish(g)
       THEN /\ Publish(g) /\ cands' = cands \ {g}
            /\ blocked' = [blocked EXCEPT ![gen[g].of] = "no"]
            /\ done' = done \cup {g} /\ End(c) /\ Leave /\ UNCHANGED failure
       ELSE /\ blocked' = [blocked EXCEPT ![gen[g].of] = "failed"]
            /\ End(c) /\ Leave /\ UNCHANGED <<failure, mounts, cands, done>>
    /\ UNCHANGED <<disk, star, process, dropped, unsure, faulted>>

\* The row is on the disk, and what follows its write fails: the directory's sync or the
\* check that the store is still this host's.
LateFailure(c) ==
    /\ call[c].at = "written" /\ CommitFails(c)
    /\ unsure' = unsure \cup {call[c].on} /\ faulted' = TRUE
    /\ UNCHANGED <<disk, records, mounts, cands, star, process, done, dropped>>

(***************************************************************************)
(* discard: the gate takes the candidate out, its mount goes afterwards.   *)
(***************************************************************************)
Discard(c, g) ==
    /\ call[c].at = "idle" /\ Accepting /\ g \in cands
    /\ Enqueue(c) /\ Begin(c, "dropping", g, gen[g].of)
    /\ UNCHANGED <<disk, memory, mounts, cands, states, process, history>>

TakeOut(c) ==
    /\ call[c].at = "dropping" /\ HasGate(c) /\ Leave
    /\ cands' = cands \ {call[c].on}
    /\ IF call[c].on \in cands THEN Goto(c, "dropped") ELSE End(c)
    /\ UNCHANGED <<disk, memory, mounts, states, process, history>>

Dropped(c) ==
    LET g == call[c].on IN
    /\ call[c].at = "dropped" /\ End(c)
    /\ gen' = IF gen[g].state = "ready" THEN Retire(gen, g) ELSE Collect(gen, g)
    /\ dropped' = dropped \cup {g}
    /\ UNCHANGED <<disk, memory, current, cands, states, process, gate, done, unsure, faulted>>

(***************************************************************************)
(* acquire: what is selected, or the generation a running caller has.      *)
(***************************************************************************)
Live(g) == gen[g].users > 0 /\ gen[g].state \in {"current", "retired"}

Acquire(c, h, pin) ==
    /\ call[c].at = "idle" /\ Accepting /\ Started
    /\ pin # None => Live(pin) /\ gen[pin].of = h
    /\ Enqueue(c) /\ Begin(c, "asking", pin, h)
    /\ UNCHANGED <<disk, memory, mounts, cands, states, process, history>>

\* The caller is answered at once; its call goes on in the gate.
Abort(c) ==
    /\ call[c].at \in {"asking", "retrying", "checking", "granted"} /\ ~call[c].aborted
    /\ call' = [call EXCEPT ![c].aborted = TRUE]
    /\ UNCHANGED <<disk, memory, mounts, cands, states, process, gate, history>>

IsBlocked(h) == star # "no" \/ blocked[h] # "no"

\* Behind the gate: a locked startup is tried again, then the blocks are looked at.
Ask(c) ==
    /\ HasGate(c)
    /\ \/ call[c].at = "asking" /\ call[c].aborted /\ End(c) /\ Leave /\ UNCHANGED boot
       \/ /\ call[c].at = "asking" /\ ~call[c].aborted /\ star = "locked"
          /\ Goto(c, "retrying") /\ boot' = "open" /\ UNCHANGED gate
       \/ /\ \/ call[c].at = "asking" /\ ~call[c].aborted /\ star # "locked"
             \/ call[c].at = "retrying" /\ boot = "done"
          /\ IF IsBlocked(call[c].of) THEN End(c) /\ Leave
             ELSE Goto(c, "checking") /\ UNCHANGED gate
          /\ UNCHANGED boot
    /\ UNCHANGED <<disk, memory, mounts, cands, states, life, starts, history>>

\* What manager.acquire finds, at most one.
Choice(c) ==
    {g \in Gens : gen[g].of = call[c].of
        /\ IF call[c].on = None THEN current[call[c].of] = g
           ELSE call[c].on = g /\ (gen[g].state = "current" \/ Live(g))}

\* The ownership of the store is checked last; then the lease is made at once.
Grant(c) ==
    /\ call[c].at = "checking" /\ HasGate(c) /\ Leave
    /\ failure' = ~Owned
    /\ \/ \E g \in Choice(c) :
            /\ Owned /\ ~call[c].aborted
            /\ gen' = [gen EXCEPT ![g].users = @ + 1]
            /\ call' = [call EXCEPT ![c].at = "granted", ![c].on = g]
       \/ /\ ~Owned \/ call[c].aborted \/ Choice(c) = {}
          /\ End(c) /\ UNCHANGED gen
    /\ UNCHANGED <<disk, records, current, cands, states, process, history>>

(* Mutant of Deliver: a lease that comes too late is nobody's. *)
DeliverToNobody(c) ==
    /\ call[c].at = "granted" /\ IF call[c].aborted THEN End(c) ELSE Goto(c, "holding")
    /\ UNCHANGED <<disk, memory, mounts, cands, states, process, gate, history>>
\* The caller has the lease, unless it has given up meanwhile.
Deliver(c) ==
    /\ call[c].at = "granted" /\ Goto(c, IF call[c].aborted THEN "releasing" ELSE "holding")
    /\ UNCHANGED <<disk, memory, mounts, cands, states, process, gate, history>>

\* The lease's scope is disposed before the generation loses its user.
Release(c) ==
    /\ call[c].at = "holding" /\ Goto(c, "releasing")
    /\ UNCHANGED <<disk, memory, mounts, cands, states, process, gate, history>>
Released(c) ==
    /\ call[c].at = "releasing" /\ End(c)
    /\ gen' = LeaveUse(gen, call[c].on)
    /\ UNCHANGED <<disk, memory, current, cands, states, process, gate, history>>

\* The mount is disposed, or fails to be: nothing but close()'s answer depends on it.
Dispose(g) ==
    /\ gen[g].state = "cleaning"
    /\ gen' = [gen EXCEPT ![g] = Gone]
    /\ UNCHANGED <<disk, memory, current, cands, states, process, gate, call, history>>

(***************************************************************************)
(* close, and the end of the process.                                      *)
(***************************************************************************)
Close ==
    /\ life = "up" /\ Started /\ life' = "closing"
    /\ UNCHANGED <<disk, memory, mounts, cands, states, boot, starts, gate, call, history>>

\* The gate has drained: every generation retires.
CloseManager ==
    /\ life = "closing" /\ gate = <<>> /\ life' = "closed"
    /\ gen' = [g \in Gens |->
          IF gen[g].state \in {"current", "ready"} THEN Retire(gen, g)[g] ELSE gen[g]]
    /\ current' = [h \in Harnesses |-> None]
    /\ UNCHANGED <<disk, memory, cands, states, boot, starts, gate, call, history>>

Vacant == \A g \in Gens : gen[g].users = 0 /\ gen[g].state \notin {"mounting", "cleaning"}

\* The memory of a process that is over; names of generations are never used again.
Forget ==
    /\ life' = "down" /\ boot' = "done" /\ records' = <<>> /\ failure' = FALSE
    /\ gen' = [g \in Gens |-> IF gen[g].state = "none" THEN gen[g]
                              ELSE Gone]
    /\ current' = [h \in Harnesses |-> None] /\ cands' = {}
    /\ blocked' = [h \in Harnesses |-> "no"] /\ star' = "no" /\ gate' = <<>>
    /\ call' = [c \in Callers |-> Idle]
    /\ lock' = IF lock = "mine" THEN "free" ELSE lock
    /\ UNCHANGED <<log, starts, history>>

\* store.close gives the lock back.
CloseStore == life = "closed" /\ lock = "mine" /\ Vacant /\ lock' = "free"
    /\ UNCHANGED <<log, memory, mounts, cands, states, process, gate, call, history>>
Exit == life = "closed" /\ Vacant /\ lock # "mine" /\ Forget
Crash == life # "down" /\ Forget

\* Another host with the same data root has the store for a while.
OtherTakes == lock = "free" /\ log # <<>> /\ lock' = "other"
    /\ UNCHANGED <<log, memory, mounts, cands, states, process, gate, call, history>>
OtherLeaves == lock = "other" /\ lock' = "free"
    /\ UNCHANGED <<log, memory, mounts, cands, states, process, gate, call, history>>

Booting ==
    \/ Open \/ Loaded \/ KeepBuiltin
    \/ \E h \in Harnesses : Load(h)
    \/ BuiltinFails \/ \E g \in Gens : SelectBuiltin(g)
Serve(c) ==
    \/ Mounted(c) \/ Commit(c) \/ Write(c) \/ Acknowledge(c) \/ LateFailure(c)
    \/ TakeOut(c) \/ Dropped(c) \/ Ask(c) \/ Grant(c) \/ Deliver(c) \/ Released(c)
Closing == CloseManager \/ CloseStore \/ Exit
Host == Booting \/ Closing \/ (\E c \in Callers : Serve(c)) \/ (\E g \in Gens : Dispose(g))
Client(c) ==
    \/ \E h \in Harnesses : \E g \in Gens : Prepare(c, h, g)
    \/ \E g \in Gens : Activate(c, g) \/ Discard(c, g)
    \/ \E h \in Harnesses : \E pin \in Gens \cup {None} : Acquire(c, h, pin)
    \/ Authorized(c) \/ Abort(c) \/ Release(c)

Next ==
    \/ Host \/ Start \/ Close \/ Crash \/ OtherTakes \/ OtherLeaves
    \/ \E c \in Callers : Client(c)

Spec == Init /\ [][Next]_vars

-----------------------------------------------------------------------------
Places == {"idle", "mounting", "authorizing", "queued", "writing", "written", "dropping",
           "dropped", "asking", "retrying", "checking", "granted", "holding", "releasing"}
States == {"none", "mounting", "ready", "current", "retired", "cleaning", "gone"}
Row == [of : Harnesses, gen : Gens, rev : Nat \ {0}, byHost : BOOLEAN]

(* The types of the variables. *)
TypeOK ==
    /\ log \in Seq(Row) /\ records \in Seq(Row) /\ lock \in {"free", "mine", "other"}
    /\ failure \in BOOLEAN /\ faulted \in BOOLEAN
    /\ gen \in [Gens -> [of : Harnesses, exp : Nat, src : Nat, state : States, users : Nat]]
    /\ current \in [Harnesses -> Gens \cup {None}]
    /\ cands \subseteq Gens /\ done \subseteq Gens /\ dropped \subseteq Gens /\ unsure \subseteq Gens
    /\ blocked \in [Harnesses -> {"no", "contract", "damaged", "failed"}]
    /\ star \in {"no", "locked", "broken"}
    /\ life \in {"down", "up", "closing", "closed"} /\ starts \in 0 .. MaxStarts
    /\ boot \in {"open", "load", "builtin", "done"} /\ gate \in Seq(Callers)
    /\ call \in [Callers -> [at : Places, on : Gens \cup {None}, of : Harnesses, aborted : BOOLEAN]]

Users(g) == {c \in Callers : call[c].on = g /\ call[c].at \in {"granted", "holding", "releasing"}}

(* The types, and: whoever has a lease has a mounted generation, whatever   *)
(* was selected, discarded or closed since, and the store is this host's.   *)
(* Each user of a generation is such a caller: a wait that was aborted while*)
(* its lease was being made leaves none.  A generation that is not selected *)
(* any more has a user, or its clean-up has begun.                          *)
LeaseIsGood ==
    /\ TypeOK
    /\ \A g \in Gens :
          /\ gen[g].users = Cardinality(Users(g))
          /\ gen[g].state = "retired" => gen[g].users > 0
          /\ Users(g) # {} => gen[g].state \in {"current", "retired"} /\ lock = "mine"

(* A lease is given on what the log on disk says at that moment, also when  *)
(* an append has failed whose row has reached the disk; a pinned one on the *)
(* generation that some caller still uses or that is the selected one.      *)
AdmittedAsWritten ==
    [][\A c \in Callers : call[c].at = "checking" /\ call'[c].at = "granted" =>
        \/ call'[c].on = LastRow(log, call[c].of).gen
        \/ call[c].on = call'[c].on /\ Live(call[c].on)]_vars

(* A selection that was acknowledged stays in the log; a candidate that was *)
(* discarded gets into it only by an append that nobody could acknowledge.  *)
AnswersHold ==
    /\ \A g \in done : Recorded(log, g)
    /\ \A g \in dropped \ unsure : ~Recorded(log, g)

(* The store refuses further work, and a harness is blocked behind a        *)
(* failed activation, only after a fault of the disk: no order of calls,    *)
(* restarts and hosts that take turns makes it reject a row, find itself    *)
(* without its lock, or write a row that it cannot publish.                 *)
OnlyFaultsBlock == failure \/ (\E h \in Harnesses : blocked[h] = "failed") => faulted
=============================================================================
