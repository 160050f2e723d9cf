------------------------------- MODULE RewindCut -------------------------------
(***************************************************************************)
(* Editing an earlier question of a session: where the journal is cut, and *)
(* what follows the kept prefix.  resolveRewindCut and rewindAndSubmit     *)
(* (core/agent-service/src/rewind-cut.ts, application.ts) with             *)
(* rewriteJsonlPrefix (session/session-persistence-jsonl/src/rewind.ts).   *)
(*                                                                         *)
(* The journal is a sequence of <<kind, id>>.  A question p is accepted,   *)
(* starts and ends its run; runs follow one another, a question may be     *)
(* accepted while another runs.  Work begun in a run ends at any later     *)
(* moment, as announced ("ended") or without ("settle").  A Bash task puts *)
(* its notice before the end it announces; when the user stops it from the *)
(* app, or a restart has lost it, it settles first and is told of after    *)
(* that ("late").  An activation of the subagent is announced after its    *)
(* end.  A grant is added in a run and revoked at any time; "mode" is one  *)
(* of the seven kinds of session setting, each treated alike.              *)
(* SessionLife has how a rewind holds, closes and reopens the session, and *)
(* Subagents how it stops subagents; here everything has been stopped.     *)
(***************************************************************************)
EXTENDS Naturals, Sequences, FiniteSets, FiniteSetsExt

CONSTANTS
    Bash,        \* background Bash tasks
    Agent,       \* activations of one subagent
    Grants,      \* session grants
    MaxTurns,    \* bound: questions in a journal
    MaxModes,    \* bound: changes of the setting
    MaxTogether, \* bound: pieces of work, late notices, grants and changes of a setting in a journal
    MaxRewrites  \* bound: rewrites begun

ASSUME RewindAssumption ==
    /\ IsFiniteSet(Bash) /\ IsFiniteSet(Agent) /\ IsFiniteSet(Grants) /\ Bash \cap Agent = {}
    /\ {MaxTurns, MaxModes, MaxTogether, MaxRewrites} \subseteq Nat

VARIABLES
    journal,    \* the events of the session
    inherited,  \* how many of them a fork copied from its parent
    phase,      \* of the rewind: "idle", "chosen", "archived" or "swapped"
    plan,       \* the cut and the closing events chosen, and the length they were chosen for
    archive,    \* the copy of the old journal in recovery/, while the rewind is under way
    rewrites    \* counter of the bound

rewriteVars == <<journal, inherited, phase, plan, archive, rewrites>>
rest == <<inherited, phase, plan, archive, rewrites>>

Questions == 1 .. MaxTurns
Works == Bash \cup Agent
NoPlan == [cut |-> 0, closing |-> <<>>, expected |-> 0]

RewriteInit ==
    /\ inherited \in {0, 3}
    /\ journal = SubSeq(<<<<"accept", 1>>, <<"start", 1>>, <<"end", 1>>>>, 1, inherited)
    /\ phase = "idle" /\ plan = NoPlan /\ archive = <<>>
    /\ rewrites = 0

(***************************************************************************)
(* What a journal says.                                                    *)
(***************************************************************************)
In(l, kind, x) == \E i \in DOMAIN l : l[i] = <<kind, x>>
Times(l, kind, x) == Cardinality({i \in DOMAIN l : l[i] = <<kind, x>>})
At(l, kind, x) == CHOOSE i \in DOMAIN l : l[i] = <<kind, x>>
Ongoing(l) == {p \in Questions : In(l, "start", p) /\ ~In(l, "end", p)}
Queue(l) == {p \in Questions : In(l, "accept", p) /\ ~In(l, "start", p) /\ ~In(l, "cancel", p)}
Begun(l) == {w \in Works : In(l, "begin", w)}
IsOver(l, w) == In(l, "settle", w) \/ In(l, "ended", w)
OpenWork(l) == {w \in Begun(l) : ~IsOver(l, w)}
Granted(l) == {g \in Grants : In(l, "grant", g) /\ ~In(l, "revoke", g)}
Modes(l) == {i \in DOMAIN l : l[i][1] = "mode"}
Latest(l) == IF Modes(l) = {} THEN 0 ELSE l[Max(Modes(l))][2]
Pending(l, t) == In(l, "notice", t) /\ ~In(l, "discard", t)
\* A late notice is a message of its own, which nobody takes back.
Tells(l, t) == Pending(l, t) \/ In(l, "late", t)

(***************************************************************************)
(* The life of the session outside a rewind.                               *)
(***************************************************************************)
Log(kind, x) == journal' = Append(journal, <<kind, x>>) /\ UNCHANGED rest
AtRest == phase = "idle"
\* The session's life; after the last rewrite of the bound it is not followed further.
Lives == AtRest /\ rewrites < MaxRewrites
Room == Cardinality({i \in DOMAIN journal : journal[i][1] \in {"begin", "late", "grant", "mode"}}) < MaxTogether
Seen(p) == In(journal, "accept", p)

\* Numbers stand for random ids: one whose every trace is dropped is as good as new.
Accept(p) == Lives /\ ~Seen(p) /\ (\A q \in 1 .. p - 1 : Seen(q)) /\ Log("accept", p)
Start(p) == Lives /\ Ongoing(journal) = {} /\ p \in Queue(journal) /\ Log("start", p)
End(p) == Lives /\ p \in Ongoing(journal) /\ Log("end", p)

Begin(w) ==
    /\ Lives /\ Room /\ Ongoing(journal) # {}
    /\ ~In(journal, "begin", w) /\ ~In(journal, "notice", w) /\ ~In(journal, "late", w)
    /\ w \in Agent => OpenWork(journal) \cap Agent = {}
    /\ Log("begin", w)

\* The notice, which who takes the result discards until the task has settled otherwise.
Notice(t) == Lives /\ t \in Bash \cap OpenWork(journal) /\ ~In(journal, "notice", t) /\ Log("notice", t)
Discard(t) ==
    /\ Lives /\ Ongoing(journal) # {}
    /\ t \in Bash /\ Pending(journal, t) /\ ~In(journal, "settle", t)
    /\ Log("discard", t)
\* The settlement: the announced one; and the one of a task stopped, waited for or lost, also
\* lost when its notice stood already.
Ended(t) == Lives /\ t \in OpenWork(journal) /\ (t \in Bash => In(journal, "notice", t)) /\ Log("ended", t)
Settle(t) == Lives /\ t \in OpenWork(journal) /\ Log("settle", t)
\* What the user has stopped, and what a restart has lost, is told of behind its settlement,
\* unless the process dies in between; a rewind that has seen the task settled does not wait.
Late(t) ==
    /\ Lives \/ phase = "chosen"
    /\ Room /\ t \in Bash /\ In(journal, "settle", t) /\ ~In(journal, "late", t)
    /\ Log("late", t)
Told(w) == w \in Agent => (In(journal, "ended", w) => In(journal, "notice", w))
NoticeEnd(w) == Lives /\ w \in Begun(journal) /\ ~Told(w) /\ Log("notice", w)

Grant(g) == Lives /\ Room /\ Ongoing(journal) # {} /\ ~In(journal, "grant", g) /\ Log("grant", g)
Revoke(g) == Lives /\ g \in Granted(journal) /\ Log("revoke", g)
\* Also while the session is held: no hold stops the title that is generated after a run.
SetMode ==
    /\ Lives \/ phase = "chosen"
    /\ Room /\ Latest(journal) < MaxModes /\ Log("mode", Latest(journal) + 1)

(***************************************************************************)
(* The cut.                                                                *)
(***************************************************************************)
ClosedPrefix(l) == Ongoing(l) = {}

\* The first candidate behind what is inherited whose prefix is closed; 0 if none is.
CutOf(l, p) ==
    LET accept == At(l, "accept", p)
        start == At(l, "start", p)
        Fits(c) == c > inherited /\ ClosedPrefix(SubSeq(l, 1, c - 1))
    IN IF Fits(accept) THEN accept ELSE IF Fits(start) THEN start ELSE 0

\* The notice of an activation carries the subagent, not the activation.
SameKey(w, v) == w = v \/ {w, v} \subseteq Agent

(* Mutant of Copied: a notice is copied also when somebody has taken the result. *)
CopiedDiscarded(kept, dropped, e) ==
    \/ e[1] \in {"settle", "ended"} /\ e[2] \in OpenWork(kept)
    \/ e[1] = "notice" /\ \E w \in OpenWork(kept) : SameKey(e[2], w)
    \/ e[1] = "late" /\ e[2] \in OpenWork(kept)
    \/ e[1] = "revoke" /\ e[2] \in Granted(kept)
(* Mutant of Copied: permissions follow the prefix altogether. *)
CopiedWithoutRevokes(kept, dropped, e) ==
    \/ e[1] \in {"settle", "ended"} /\ e[2] \in OpenWork(kept)
    \/ e[1] = "notice" /\ ~In(dropped, "discard", e[2]) /\ \E w \in OpenWork(kept) : SameKey(e[2], w)
    \/ e[1] = "late" /\ e[2] \in OpenWork(kept)
(* Mutant of Copied: only an end that was announced is copied. *)
CopiedAnnounced(kept, dropped, e) ==
    \/ e[1] = "ended" /\ e[2] \in OpenWork(kept)
    \/ e[1] = "notice" /\ ~In(dropped, "discard", e[2]) /\ \E w \in OpenWork(kept) : SameKey(e[2], w)
    \/ e[1] = "late" /\ e[2] \in OpenWork(kept)
    \/ e[1] = "revoke" /\ e[2] \in Granted(kept)
\* The dropped events that follow the prefix: how work open at the cut ended later, and
\* the revocation of a grant that is kept.
Copied(kept, dropped, e) ==
    \/ e[1] \in {"settle", "ended"} /\ e[2] \in OpenWork(kept)
    \/ e[1] = "notice" /\ ~In(dropped, "discard", e[2]) /\ \E w \in OpenWork(kept) : SameKey(e[2], w)
    \/ e[1] = "late" /\ e[2] \in OpenWork(kept)
    \/ e[1] = "revoke" /\ e[2] \in Granted(kept)

\* Positions in their order; the one element of this set.
InOrder(S) == {f \in [1 .. Cardinality(S) -> S] : \A i, j \in DOMAIN f : i < j => f[i] < f[j]}

Waiting(kept) == {i \in DOMAIN kept : kept[i][1] = "accept" /\ kept[i][2] \in Queue(kept)}
Follows(kept, dropped) == {i \in DOMAIN dropped : Copied(kept, dropped, dropped[i])}
Setting(l) == IF Modes(l) = {} THEN <<>> ELSE <<l[Max(Modes(l))]>>

\* The events behind the prefix, by the positions of those they are made from.
Closing(kept, dropped, q, c) ==
    [i \in DOMAIN q |-> <<"cancel", kept[q[i]][2]>>] \o [i \in DOMAIN c |-> dropped[c[i]]]
      \o Setting(dropped)

(***************************************************************************)
(* The rewind.                                                             *)
(***************************************************************************)
\* Nothing runs, no question waits, all work is settled and each activation is announced.
Quiesced ==
    /\ Ongoing(journal) = {} /\ Queue(journal) = {}
    /\ OpenWork(journal) = {} /\ \A w \in Works : Told(w)

Choose(p) ==
    /\ Lives /\ Quiesced
    /\ In(journal, "start", p) /\ CutOf(journal, p) # 0
    /\ LET cut == CutOf(journal, p)
           kept == SubSeq(journal, 1, cut - 1)
           dropped == SubSeq(journal, cut, Len(journal)) IN
         \E q \in InOrder(Waiting(kept)), c \in InOrder(Follows(kept, dropped)) :
           plan' = [cut |-> cut, expected |-> Len(journal), closing |-> Closing(kept, dropped, q, c)]
    /\ phase' = "chosen" /\ rewrites' = rewrites + 1
    /\ UNCHANGED <<journal, inherited, archive>>

(* Mutant of Archive: the journal may have grown since the cut was chosen. *)
ArchiveUnchecked ==
    /\ phase = "chosen"
    /\ phase' = "archived" /\ archive' = journal
    /\ UNCHANGED <<journal, inherited, plan, rewrites>>

\* The session is closed and its file read again under the lease.  An event since the choice
\* fails the rewind; otherwise the old file is copied and the new one written beside it.
Archive ==
    /\ phase = "chosen"
    /\ IF Len(journal) = plan.expected
       THEN phase' = "archived" /\ archive' = journal /\ UNCHANGED plan
       ELSE phase' = "idle" /\ plan' = NoPlan /\ UNCHANGED archive
    /\ UNCHANGED <<journal, inherited, rewrites>>

Rename ==
    /\ phase = "archived"
    /\ phase' = "swapped"
    /\ journal' = SubSeq(journal, 1, plan.cut - 1) \o plan.closing
    /\ UNCHANGED <<inherited, plan, archive, rewrites>>

\* Open again, the session says so to those who follow its journal.
Reopen ==
    /\ phase = "swapped"
    /\ phase' = "idle" /\ plan' = NoPlan /\ archive' = <<>>
    /\ journal' = Append(journal, <<"rewound", plan.cut>>)
    /\ UNCHANGED <<inherited, rewrites>>

\* The process dies in a rewind: what is on disk is what the next one opens.  Outside a
\* rewind a restart ends runs and work like End and Settle do.
Crash ==
    /\ ~AtRest
    /\ phase' = "idle" /\ plan' = NoPlan /\ archive' = <<>>
    /\ UNCHANGED <<journal, inherited, rewrites>>

RewriteNext ==
    \/ \E p \in Questions : Accept(p) \/ Start(p) \/ End(p) \/ Choose(p)
    \/ \E g \in Grants : Grant(g) \/ Revoke(g)
    \/ \E w \in Works :
         \/ Begin(w) \/ Notice(w) \/ Discard(w) \/ Ended(w) \/ Settle(w)
         \/ Late(w) \/ NoticeEnd(w)
    \/ SetMode \/ Archive \/ Rename \/ Reopen \/ Crash

RewriteSpec == RewriteInit /\ [][RewriteNext]_rewriteVars

(***************************************************************************)
(* Properties.                                                             *)
(***************************************************************************)
Kinds == {"accept", "start", "end", "cancel", "begin", "notice", "discard", "ended", "settle", "late",
          "grant", "revoke", "mode", "rewound"}

\* The variables have their types, and no event but a setting or a mark of a rewind is in
\* a journal twice: closing events never repeat what the prefix has.
RewriteTypeOK ==
    /\ phase \in {"idle", "chosen", "archived", "swapped"}
    /\ \A i \in DOMAIN journal :
         /\ journal[i][1] \in Kinds
         /\ journal[i][1] \notin {"mode", "rewound"} => Times(journal, journal[i][1], journal[i][2]) = 1

\* The types, and: the rewritten journal is closed (rewind-cut.ts: "so it stays closed"):
\* no run, no question that waits, and each piece of work that began in it is over exactly
\* once, also when an earlier rewind has left closing events in the prefix.
RewrittenIsClosed ==
    RewriteTypeOK /\ (phase = "swapped" =>
      /\ Ongoing(journal) = {} /\ Queue(journal) = {}
      /\ \A w \in Works : Times(journal, "settle", w) + Times(journal, "ended", w)
                            = Times(journal, "begin", w))

\* A rewind never brings back a permission that the user has revoked.
RightsNeverWiden == phase = "swapped" => Granted(journal) \subseteq Granted(archive)

\* The session keeps the settings it had, also one that changes while the rewind is at work.
SettingsKept == phase = "swapped" => Latest(journal) = Latest(archive)

\* A Bash task that was open at the cut (rewind-cut.ts: it "gets the settle (and notification)
\* it received later"): the new turn is told of its end just when the old timeline would tell
\* it, or told it in the part that is dropped, whether the notice stands before the settlement
\* or behind it.  Of a task that was over at the cut it is told what the prefix tells and no
\* more: a late notice behind the cut is lost.
EndsAreTold ==
    phase = "swapped" => \A t \in Bash :
      LET kept == SubSeq(archive, 1, plan.cut - 1) IN
      /\ t \in OpenWork(kept) => (Tells(journal, t) <=> Tells(archive, t) \/ Tells(kept, t))
      /\ t \in Begun(kept) \ OpenWork(kept) => (Tells(journal, t) <=> Tells(kept, t))

\* What the design says of the tasks open at the cut: a notice is copied when the settlement
\* was announced, and "the one that was stopped is not notified"
\* (agent-edit-resend-rewind.md:88,94).  The code copies the late notice of a user's stop.
StoppedIsNotTold ==
    phase = "swapped" => \A t \in Bash :
      LET kept == SubSeq(archive, 1, plan.cut - 1) IN
      t \in OpenWork(kept) /\ Tells(journal, t) /\ ~Tells(kept, t) => In(archive, "ended", t)
=============================================================================
