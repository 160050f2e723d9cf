------------------------------- MODULE ToolCalls -------------------------------
(***************************************************************************)
(* The tool calls of one step, from admission to their results:            *)
(* ToolExecutionScheduler.executeBatch (core/tool-runtime/src/scheduler.ts)*)
(* with PreparedToolExecution (prepared-execution.ts), the ordered commits *)
(* (ordered-commit.ts) and the lease each call holds on its registration   *)
(* (activation-lease.ts).                                                  *)
(*                                                                         *)
(* Every call is a command: "full-access" lets it pass, a session grant    *)
(* lets it pass in the other modes, "auto-review" asks a reviewer and then *)
(* a person, "default" asks a person.  While a call awaits anything, the   *)
(* user may change the mode, answer, give or revoke the grant, and abort;  *)
(* an answer that the host has accepted is on its way for a while.         *)
(***************************************************************************)
EXTENDS Naturals, Sequences, FiniteSets

CONSTANTS
    N,           \* calls of the batch
    Exclusive,   \* those whose tool runs alone; the others run side by side
    MaxParallel, \* bodies of a group that run at a time
    MaxChanges   \* bound: changes of the permission mode

Calls == 1 .. N

ASSUME ToolAssumption ==
    /\ N \in Nat /\ MaxParallel \in Nat \ {0} /\ MaxChanges \in Nat
    /\ Exclusive \subseteq Calls

VARIABLES
    at,       \* where each call is
    mode,     \* the mode its loop has read, later #admittedMode
    by,       \* what admits it: "mode", "grant", "review" or "person"
    host,     \* its request at the host: "none", "open", or how it ended there
    asked, decided,  \* requests and decisions the journal has of it
    ran,      \* calls whose body was invoked
    refused,  \* calls that a person refused at the host
    lease,    \* calls that hold their lease
    results,  \* the results in the journal
    failure,  \* a commit has failed
    perm, granted,  \* the mode and the session grant, which the user changes
    aborted, changes

place == <<at, mode, by>>
talk == <<host, asked, decided, refused>>
out == <<ran, lease, results, failure>>
choice == <<perm, granted, aborted, changes>>
vars == <<place, talk, out, choice>>

Modes == {"default", "auto-review", "full-access"}

\* prepareBatch takes every lease and every commit slot at once.
Init ==
    /\ at = [i \in Calls |-> "new"]
    /\ mode = [i \in Calls |-> "default"] /\ by = [i \in Calls |-> "mode"]
    /\ host = [i \in Calls |-> "none"]
    /\ asked = [i \in Calls |-> 0] /\ decided = [i \in Calls |-> 0]
    /\ ran = {} /\ refused = {} /\ lease = Calls /\ results = <<>> /\ failure = FALSE
    /\ perm \in Modes /\ granted \in BOOLEAN
    /\ aborted = FALSE /\ changes = 0

Staged == {"staged", "body", "ready", "over"}
Done(i) == at[i] = "over"
Goto(i, where) == at' = [at EXCEPT ![i] = where]

(***************************************************************************)
(* The order of a batch: an exclusive call waits for all before it, and    *)
(* all behind it wait for it; the calls between two exclusive ones are     *)
(* staged one after another before the first of their bodies runs.         *)
(***************************************************************************)
Before(i) == 1 .. i - 1
Group(i) ==
    {j \in Calls : \A k \in Exclusive : k # i /\ k # j /\ (k < i <=> k < j)} \cup {i}

(* Mutant of MyTurn: an exclusive call starts when those before it are staged. *)
MyTurnStaged(i) == ~failure /\ \A j \in Before(i) : at[j] \in Staged
MyTurn(i) ==
    /\ ~failure
    /\ \A j \in Before(i) : IF j \in Group(i) THEN at[j] \in Staged ELSE Done(j)

\* runBounded takes the calls of a group in their order.
MayRun(i) ==
    /\ \A j \in Group(i) : at[j] \in Staged /\ (j < i => at[j] # "staged")
    /\ Cardinality({j \in Calls : at[j] = "body"}) < MaxParallel

(***************************************************************************)
(* Admission.                                                              *)
(***************************************************************************)
\* Terminal results and the result of the body wait for their slot.
Terminal(i) == Goto(i, "staged") /\ by' = [by EXCEPT ![i] = "denied"]

\* The loop reads the mode; extracting the resources and the tool's own rule are awaited.
Enter(i) ==
    /\ at[i] = "new" /\ MyTurn(i)
    /\ IF aborted THEN Terminal(i) /\ UNCHANGED mode
       ELSE Goto(i, "judge") /\ mode' = [mode EXCEPT ![i] = perm] /\ UNCHANGED by
    /\ UNCHANGED <<talk, out, choice>>

\* "mode-changed": once more round the loop, which looks at the abort only in #recheck.
Again(i) == Goto(i, "judge") /\ mode' = [mode EXCEPT ![i] = perm]

Judge(i) ==
    /\ at[i] = "judge"
    /\ CASE mode[i] = "full-access" -> Goto(i, "recheck") /\ by' = [by EXCEPT ![i] = "mode"]
         [] mode[i] # "full-access" /\ granted -> Goto(i, "recheck") /\ by' = [by EXCEPT ![i] = "grant"]
         [] mode[i] = "auto-review" /\ ~granted -> Goto(i, "review") /\ UNCHANGED by
         [] OTHER -> Goto(i, "ask") /\ UNCHANGED by
    /\ UNCHANGED <<mode, talk, out, choice>>

\* The reviewer approves; or it refuses, fails or takes too long and a person is asked;
\* a change of the mode interrupts it.
Review(i) ==
    /\ at[i] = "review"
    /\ \/ aborted /\ Terminal(i) /\ UNCHANGED mode
       \/ ~aborted /\ perm # mode[i] /\ Again(i) /\ UNCHANGED by
       \/ ~aborted /\ perm = mode[i] /\ Goto(i, "recheck") /\ by' = [by EXCEPT ![i] = "review"] /\ UNCHANGED mode
       \/ ~aborted /\ perm = mode[i] /\ Goto(i, "ask") /\ UNCHANGED <<mode, by>>
    /\ UNCHANGED <<talk, out, choice>>

\* "permission/asked" is recorded and the host has the request; a mode that has changed
\* meanwhile withdraws it at once.
Ask(i) ==
    /\ at[i] = "ask"
    /\ Goto(i, IF perm = mode[i] THEN "waiting" ELSE "closing")
    /\ asked' = [asked EXCEPT ![i] = @ + 1]
    /\ host' = [host EXCEPT ![i] = "open"]
    /\ UNCHANGED <<mode, by, decided, refused, out, choice>>

Decided(i) == decided' = [decided EXCEPT ![i] = @ + 1]

(* Mutant of Withdrawn: whatever comes back after a change of the mode is put aside. *)
WithdrawnAlways(i) == at[i] = "closing"
\* An answer after the withdrawal counts for nothing, unless it is a refusal.
Withdrawn(i) == at[i] = "closing" /\ host[i] # "deny"

Receive(i) ==
    /\ at[i] \in {"waiting", "closing"} /\ host[i] \notin {"none", "open"}
    /\ Decided(i)
    /\ host' = [host EXCEPT ![i] = "none"]
    /\ CASE Withdrawn(i) -> Again(i) /\ UNCHANGED <<by, granted>>
         [] ~Withdrawn(i) /\ host[i] \in {"deny", "aborted"} -> Terminal(i) /\ UNCHANGED <<mode, granted>>
         [] OTHER -> /\ Goto(i, "recheck") /\ by' = [by EXCEPT ![i] = IF host[i] = "session" THEN "grant" ELSE "person"]
                     /\ granted' = (granted \/ host[i] = "session") /\ UNCHANGED mode
    /\ UNCHANGED <<asked, refused, out, perm, aborted, changes>>

\* The request expires, or the abort of the batch ends it.
Expire(i) ==
    /\ at[i] \in {"waiting", "closing"}
    /\ Decided(i) /\ Terminal(i)
    /\ host' = [host EXCEPT ![i] = "none"]
    /\ UNCHANGED <<mode, asked, refused, out, choice>>

\* #recheck looks at abort and mode before it awaits the resources ...
Recheck(i) ==
    /\ at[i] = "recheck"
    /\ IF aborted \/ perm # mode[i] THEN Terminal(i) ELSE Goto(i, "reread") /\ UNCHANGED by
    /\ UNCHANGED <<mode, talk, out, choice>>

\* ... and at the grant after it.  The dispatch is recorded and checkpointed next.
Reread(i) ==
    /\ at[i] = "reread"
    /\ IF by[i] = "grant" /\ ~granted THEN Terminal(i) ELSE Goto(i, "dispatch") /\ UNCHANGED by
    /\ UNCHANGED <<mode, talk, out, choice>>

Checkpoint(i) ==
    /\ at[i] = "dispatch"
    /\ \/ Terminal(i)   \* the checkpoint fails
       \/ by[i] = "grant" /\ ~granted /\ Terminal(i)
       \/ perm # mode[i] /\ Terminal(i)
       \/ (by[i] = "grant" => granted) /\ perm = mode[i] /\ Goto(i, "staged") /\ UNCHANGED by
    /\ UNCHANGED <<mode, talk, out, choice>>

(***************************************************************************)
(* Bodies and results.                                                     *)
(***************************************************************************)
(* Mutant of Invoke: the mode is not looked at again when the body's turn comes. *)
InvokeUnchecked(i) ==
    /\ at[i] = "staged" /\ MayRun(i)
    /\ IF by[i] # "denied"
       THEN Goto(i, "body") /\ ran' = ran \cup {i} ELSE Goto(i, "ready") /\ UNCHANGED ran
    /\ UNCHANGED <<mode, by, talk, lease, results, failure, choice>>

\* The mode may have changed while other calls were staged or other bodies ran.
Invoke(i) ==
    /\ at[i] = "staged" /\ MayRun(i)
    /\ IF by[i] # "denied" /\ perm = mode[i]
       THEN Goto(i, "body") /\ ran' = ran \cup {i} ELSE Goto(i, "ready") /\ UNCHANGED ran
    /\ UNCHANGED <<mode, by, talk, lease, results, failure, choice>>

BodyEnds(i) ==
    /\ at[i] = "body"
    /\ Goto(i, "ready")
    /\ UNCHANGED <<mode, by, talk, out, choice>>

(* Mutant of ItsSlot: a call that was denied gives its slot to nobody. *)
ItsSlotAfterBodies(i) == \A j \in Before(i) : Done(j) /\ j \in ran
ItsSlot(i) == \A j \in Before(i) : Done(j)

\* Its slot has come: the result is written and the lease given back, also when the write
\* fails; all results behind a failure are refused.
Commit(i) ==
    /\ at[i] = "ready"
    /\ \/ /\ ~failure /\ ItsSlot(i)
          /\ \/ results' = Append(results, i) /\ UNCHANGED failure
             \/ failure' = TRUE /\ UNCHANGED results
       \/ failure /\ UNCHANGED <<results, failure>>
    /\ Goto(i, "over")
    /\ lease' = lease \ {i}
    /\ UNCHANGED <<mode, by, talk, ran, choice>>

\* executeBatch gives up: what has not started is disposed of.  dispose awaits the slot first,
\* which a failed commit refuses, so the lease is not given back.
Abandon(i) ==
    /\ failure /\ at[i] = "new"
    /\ \A j \in Before(i) : Done(j)
    /\ Goto(i, "over")
    /\ UNCHANGED <<mode, by, talk, out, choice>>

(***************************************************************************)
(* The user and the host.                                                  *)
(***************************************************************************)
\* The listener of a waiting call wakes it; an answer already received goes first.
SetMode ==
    /\ changes < MaxChanges /\ changes' = changes + 1
    /\ \E m \in Modes \ {perm} :
         /\ perm' = m
         /\ at' = [i \in Calls |-> IF at[i] = "waiting" /\ mode[i] # m THEN "closing" ELSE at[i]]
    /\ UNCHANGED <<mode, by, talk, out, granted, aborted>>

Answer(i) ==
    /\ host[i] = "open"
    /\ \E answer \in {"once", "session", "deny"} :
         /\ host' = [host EXCEPT ![i] = answer]
         /\ refused' = IF answer = "deny" THEN refused \cup {i} ELSE refused
    /\ UNCHANGED <<place, asked, decided, out, choice>>

\* The withdrawal, or the abort, reaches the host before an answer does.
Cancel(i) ==
    /\ host[i] = "open" /\ (at[i] = "closing" \/ aborted)
    /\ host' = [host EXCEPT ![i] = "aborted"]
    /\ UNCHANGED <<place, asked, decided, refused, out, choice>>

Revoke == granted /\ granted' = FALSE /\ UNCHANGED <<place, talk, out, perm, aborted, changes>>
Abort == ~aborted /\ aborted' = TRUE /\ UNCHANGED <<place, talk, out, perm, granted, changes>>

Proceed(i) ==
    \/ Enter(i) \/ Judge(i) \/ Review(i) \/ Ask(i) \/ Receive(i) \/ Expire(i)
    \/ Recheck(i) \/ Reread(i) \/ Checkpoint(i)
    \/ Invoke(i) \/ BodyEnds(i) \/ Commit(i) \/ Abandon(i)

Next ==
    \/ \E i \in Calls : Proceed(i) \/ Answer(i) \/ Cancel(i)
    \/ SetMode \/ Revoke \/ Abort

\* Promises settle: requests and reviews have deadlines, and bodies are taken to end.
Spec == Init /\ [][Next]_vars /\ \A i \in Calls : WF_vars(Proceed(i))
-----------------------------------------------------------------------------
Places == {"new", "judge", "review", "ask", "waiting", "closing", "recheck", "reread",
           "dispatch", "staged", "body", "ready", "over"}

TypeOK ==
    /\ at \in [Calls -> Places] /\ mode \in [Calls -> Modes]
    /\ by \in [Calls -> {"mode", "grant", "review", "person", "denied"}]
    /\ host \in [Calls -> {"none", "open", "once", "session", "deny", "aborted"}]
    /\ asked \in [Calls -> Nat] /\ decided \in [Calls -> Nat]
    /\ ran \subseteq Calls /\ refused \subseteq Calls /\ lease \subseteq Calls
    /\ results \in Seq(Calls) /\ failure \in BOOLEAN
    /\ perm \in Modes /\ granted \in BOOLEAN /\ aborted \in BOOLEAN /\ changes \in Nat

\* A call that a person has refused never runs, although a change of the mode overtook
\* the answer and the new mode would let the call pass (requestApproval, :415-424).
RefusalIsFinal == refused \cap ran = {}

\* Whatever the user changed while the call was judged, asked about, staged or queued
\* behind other bodies: its body starts under the mode it was admitted in, and what
\* admitted it counts in this mode - "default" needs a person or a grant (stage, the
\* two rechecks and invoke of runBody).
StartsAsAdmitted ==
    [][\A i \in ran' \ ran :
        /\ perm = mode[i]
        /\ by[i] = "mode" => perm = "full-access"
        /\ by[i] = "review" => perm = "auto-review"
        /\ by[i] # "denied" /\ asked[i] = decided[i]]_vars

\* While the body of an exclusive call runs, no other call is anywhere between its
\* admission and its result: the results before it are in the journal, in the order of
\* the calls, and those behind it have not been looked at (executeBatch, ordered commit).
ExclusiveSeesAll ==
    \A i \in Exclusive : at[i] = "body" =>
        /\ results = [k \in Before(i) |-> k]
        /\ \A j \in Calls : j > i => at[j] = "new"

\* Every batch ends, whatever is refused, withdrawn, aborted or fails to commit: no slot
\* waits for a call that will not use its own (ordered-commit.ts, dispose).
BatchEnds == <>(\A i \in Calls : Done(i))
=============================================================================
