----------------------------- MODULE WriterLease -----------------------------
(***************************************************************************)
(* The writer lease of one persistent session, a lock directory with the   *)
(* record of its owner in it: SessionWriterLease of                        *)
(* session/session-persistence-jsonl/src/writer-lease.ts.  Several         *)
(* processes, and several leases of one process, run its calls against the *)
(* same directory; every await is a point where the others may move, and a *)
(* process may die at any of them.  A lease stands for the nonce of the    *)
(* attempt that wins: an attempt that does not win leaves its nonce        *)
(* nowhere.  An owner record that is missing and one that is empty or cut  *)
(* short are the same to every reader (readOwner throws) and are both None.*)
(* mishaps is a history of what befell the leases, for the properties: no  *)
(* action looks at it.                                                     *)
(* Init, Next and Spec carry the module's name, since PersistenceProofs    *)
(* proves about this module and about SessionLog together.                 *)
(***************************************************************************)
EXTENDS Naturals, FiniteSets

CONSTANTS
    Leases,     \* the acquire calls, each with the nonce it would record
    Procs,      \* the processes, named by pid; a pid is not reused
    ProcOf,     \* the process of every lease
    None,       \* no owner record
    Faults      \* the file-system calls that may fail for reasons of their own

ASSUME LeaseAssumption ==
    /\ None \notin Leases
    /\ ProcOf \in [Leases -> Procs]
    /\ Faults \subseteq {"mkdir", "write", "rename", "read", "rm"}

Attempts == 3

VARIABLES
    dir,        \* does .writer-lock exist?
    owner,      \* the lease named by .writer-lock/owner.json, or None
    aside,      \* aside[l]: the record inside recovery/stale-lock-<l>, or None
    alive,      \* the processes that run
    call,       \* where every lease is
    tries,      \* attempts used by an acquire
    seen,       \* the owner record an acquire has read
    lost,       \* the leases that found out they are no longer the owner
    beat,       \* leases whose heartbeat has checked and not yet written
    mishaps     \* history: the kinds of Mishaps that have happened

leaseVars == <<dir, owner, aside, alive, call, tries, seen, lost, beat, mishaps>>

Acquiring == {"mkdir", "write", "undo", "read", "judge", "rename"}
Holding == {"held", "writing"}
Releasing == {"dispose", "unlink", "rmdir"}
Over == {"failed", "closed", "dead"}
\* A mkdir, an rm or a dispose's read that failed; a heartbeat still in flight
\* when its own lease is given back; a pid that went away between a peer's read
\* of its record and the peer's kill(pid, 0), its lock given back before.
Mishaps == {"mkdir", "rm", "read", "beat", "judged"}
Calls == {"idle"} \cup Acquiring \cup Holding \cup Releasing \cup Over

Goto(l, c) == call' = [call EXCEPT ![l] = c]

At(l, c) == call[l] = c

MayFail(c) == c \in Faults

Mishap(m) == mishaps' = mishaps \cup {m}

LeaseInit ==
    /\ dir = FALSE
    /\ owner = None
    /\ aside = [l \in Leases |-> None]
    /\ alive = Procs
    /\ call = [l \in Leases |-> "idle"]
    /\ tries = [l \in Leases |-> 0]
    /\ seen = [l \in Leases |-> None]
    /\ lost = {}
    /\ beat = {}
    /\ mishaps = {}

(***************************************************************************)
(* acquire.                                                                *)
(***************************************************************************)
Acquire(l) ==
    /\ At(l, "idle")
    /\ Goto(l, "mkdir")
    /\ UNCHANGED <<dir, owner, aside, alive, tries, seen, lost, beat, mishaps>>

\* mkdir is the atomic claim; EEXIST sends the attempt to the owner record, and
\* any other error to the removal of whatever stands there.
Mkdir(l) ==
    /\ At(l, "mkdir")
    /\ tries' = [tries EXCEPT ![l] = @ + 1]
    /\ \/ /\ dir' = TRUE
          /\ Goto(l, IF dir THEN "read" ELSE "write")
          /\ mishaps' = mishaps
       \/ /\ MayFail("mkdir")
          /\ Goto(l, "undo")
          /\ Mishap("mkdir")
          /\ dir' = dir
    /\ UNCHANGED <<owner, aside, alive, seen, lost, beat>>

\* The record goes into the new directory; the lease exists from here on.
WriteOwner(l) ==
    /\ At(l, "write")
    /\ dir /\ owner = None
    /\ owner' = l
    /\ Goto(l, "held")
    /\ UNCHANGED <<dir, aside, alive, tries, seen, lost, beat, mishaps>>

(* Mutant of WriteFails: the directory stays behind. *)
WriteFailsHalfway(l) ==
    /\ At(l, "write")
    /\ Goto(l, IF dir /\ owner # None THEN "read" ELSE "failed")
    /\ UNCHANGED <<dir, owner, aside, alive, tries, seen, lost, beat, mishaps>>

\* The record cannot be written: it is there already (EEXIST), the directory is
\* gone (ENOENT), or any other error.
WriteFails(l) ==
    /\ At(l, "write")
    /\ MayFail("write") \/ ~dir \/ owner # None
    /\ Goto(l, IF dir /\ owner # None THEN "read" ELSE "undo")
    /\ UNCHANGED <<dir, owner, aside, alive, tries, seen, lost, beat, mishaps>>

\* The lock directory is removed, whosever it is; an rm that fails, having
\* removed nothing or the record alone, is swallowed.
Undo(l) ==
    /\ At(l, "undo")
    /\ \/ dir' = FALSE /\ owner' = None /\ mishaps' = mishaps
       \/ MayFail("rm") /\ Mishap("rm") /\ dir' = dir /\ owner' \in {owner, None}
    /\ Goto(l, "failed")
    /\ UNCHANGED <<aside, alive, tries, seen, lost, beat>>

\* readOwner throws when there is no record to read; that error leaves acquire.
ReadOwner(l) ==
    /\ At(l, "read")
    /\ seen' = [seen EXCEPT ![l] = owner]
    /\ \/ owner # None /\ Goto(l, "judge")
       \/ (owner = None \/ MayFail("read")) /\ Goto(l, "failed")
    /\ UNCHANGED <<dir, owner, aside, alive, tries, lost, beat, mishaps>>

\* kill(pid, 0), some time after the read: SESSION_WRITER_LOCKED if it runs.
Judge(l) ==
    /\ At(l, "judge")
    /\ Goto(l, IF ProcOf[seen[l]] \in alive THEN "failed" ELSE "rename")
    /\ UNCHANGED <<dir, owner, aside, alive, tries, seen, lost, beat, mishaps>>

\* What follows a rename that went through or that met ENOENT.
Retry(l) == Goto(l, IF tries[l] < Attempts THEN "mkdir" ELSE "failed")

(* Mutant of Rename: the stale lock is put aside under a name of the attempt, *)
(* not of the owner, so that a second rename succeeds too.                   *)
RenameToOwnName(l) ==
    /\ At(l, "rename")
    /\ Retry(l)
    /\ IF dir
       THEN aside' = [aside EXCEPT ![seen[l]] = owner] /\ dir' = FALSE /\ owner' = None
       ELSE UNCHANGED <<dir, owner, aside>>
    /\ UNCHANGED <<alive, tries, seen, lost, beat, mishaps>>

\* The whole directory moves, whatever record it holds by now.  A rename onto a
\* directory that is not empty fails with ENOTEMPTY, which acquire rethrows as it
\* does any other error.
Rename(l) ==
    LET n == seen[l] IN
    /\ At(l, "rename")
    /\ \/ /\ dir /\ aside[n] = None
          /\ aside' = [aside EXCEPT ![n] = owner]
          /\ dir' = FALSE
          /\ owner' = None
          /\ Retry(l)
       \/ /\ ~dir
          /\ Retry(l)
          /\ UNCHANGED <<dir, owner, aside>>
       \/ /\ MayFail("rename") \/ (dir /\ aside[n] # None)
          /\ Goto(l, "failed")
          /\ UNCHANGED <<dir, owner, aside>>
    /\ UNCHANGED <<alive, tries, seen, lost, beat, mishaps>>

(***************************************************************************)
(* A lease in use.  assertOwned is what every append and flush of the      *)
(* storage handle begins with; the write it licenses ends at EndWrite.     *)
(***************************************************************************)
AssertOwned(l) ==
    /\ At(l, "held")
    /\ \/ /\ l \notin lost /\ owner = l
          /\ Goto(l, "writing")
          /\ lost' = lost
       \/ /\ l \in lost \/ owner # l \/ MayFail("read")
          /\ lost' = lost \cup {l}
          /\ call' = call
    /\ UNCHANGED <<dir, owner, aside, alive, tries, seen, beat, mishaps>>

EndWrite(l) ==
    /\ At(l, "writing")
    /\ Goto(l, "held")
    /\ UNCHANGED <<dir, owner, aside, alive, tries, seen, lost, beat, mishaps>>

\* The timer runs until dispose or loss.
BeatCheck(l) ==
    /\ call[l] \in Holding /\ l \notin lost \cup beat
    /\ \/ owner = l /\ beat' = beat \cup {l} /\ lost' = lost
       \/ (owner # l \/ MayFail("read")) /\ beat' = beat /\ lost' = lost \cup {l}
    /\ UNCHANGED <<dir, owner, aside, alive, call, tries, seen, mishaps>>

\* The temporary file and its rename to owner.json: they take effect in one
\* directory or fail, and nothing looks at the nonce again.
BeatWrite(l) ==
    /\ l \in beat
    /\ beat' = beat \ {l}
    /\ \/ dir /\ owner' = l /\ lost' = lost
       \/ (~dir \/ MayFail("write")) /\ owner' = owner /\ lost' = lost \cup {l}
    /\ UNCHANGED <<dir, aside, alive, call, tries, seen, mishaps>>

(***************************************************************************)
(* dispose: read the record, and remove the directory if it is one's own.  *)
(* rm first unlinks the record and then the directory.  A read that fails  *)
(* counts as a lock that is another's, and an rm that fails is not retried:*)
(* the lease is over either way.                                           *)
(***************************************************************************)
Dispose(l) ==
    /\ At(l, "held")
    /\ Goto(l, "dispose")
    /\ UNCHANGED <<dir, owner, aside, alive, tries, seen, lost, beat, mishaps>>

ReadOwn(l) ==
    /\ At(l, "dispose")
    /\ \/ Goto(l, IF owner = l THEN "unlink" ELSE "closed") /\ mishaps' = mishaps
       \/ MayFail("read") /\ Goto(l, "closed") /\ Mishap("read")
    /\ UNCHANGED <<dir, owner, aside, alive, tries, seen, lost, beat>>

\* dispose clears the timer and does not wait for a heartbeat in flight.
Unlink(l) ==
    /\ At(l, "unlink")
    /\ \/ /\ owner' = None
          /\ Goto(l, "rmdir")
          /\ IF l \in beat THEN Mishap("beat") ELSE mishaps' = mishaps
       \/ /\ MayFail("rm")
          /\ Goto(l, "closed")
          /\ Mishap("rm")
          /\ owner' = owner
    /\ UNCHANGED <<dir, aside, alive, tries, seen, lost, beat>>

\* A directory that has got a record again is not empty, and stays.
Rmdir(l) ==
    /\ At(l, "rmdir")
    /\ \/ dir' = (dir /\ owner # None) /\ mishaps' = mishaps
       \/ MayFail("rm") /\ Mishap("rm") /\ dir' = dir
    /\ Goto(l, "closed")
    /\ UNCHANGED <<owner, aside, alive, tries, seen, lost, beat>>

(***************************************************************************)
(* A process exits or is killed, at any point of its own calls and of its  *)
(* peers': the pid that a peer is about to try may have gone since the peer*)
(* read the record, and the lock may by then be another's.                 *)
(***************************************************************************)
Die(p) ==
    /\ p \in alive
    /\ alive' = alive \ {p}
    /\ call' = [l \in Leases |-> IF ProcOf[l] = p THEN "dead" ELSE call[l]]
    /\ beat' = {l \in beat : ProcOf[l] # p}
    /\ IF \E l \in Leases : At(l, "judge") /\ ProcOf[seen[l]] = p /\ owner # seen[l]
       THEN Mishap("judged")
       ELSE mishaps' = mishaps
    /\ UNCHANGED <<dir, owner, aside, tries, seen, lost>>

Step(l) ==
    \/ Acquire(l) \/ Mkdir(l) \/ WriteOwner(l) \/ WriteFails(l) \/ Undo(l)
    \/ ReadOwner(l) \/ Judge(l) \/ Rename(l)
    \/ AssertOwned(l) \/ EndWrite(l) \/ BeatCheck(l) \/ BeatWrite(l)
    \/ Dispose(l) \/ ReadOwn(l) \/ Unlink(l) \/ Rmdir(l)

LeaseNext ==
    \/ \E l \in Leases : Step(l)
    \/ \E p \in Procs : Die(p)

LeaseSpec == LeaseInit /\ [][LeaseNext]_leaseVars

(***************************************************************************)
(* Properties.                                                             *)
(***************************************************************************)
LeaseTypeOK ==
    /\ dir \in BOOLEAN
    /\ owner \in Leases \cup {None}
    /\ aside \in [Leases -> Leases \cup {None}]
    /\ alive \subseteq Procs
    /\ call \in [Leases -> Calls]
    /\ tries \in [Leases -> 0..Attempts]
    /\ seen \in [Leases -> Leases \cup {None}]
    /\ \A l \in Leases : call[l] \in {"judge", "rename"} => seen[l] # None
    /\ lost \subseteq Leases
    /\ beat \subseteq Leases
    /\ mishaps \subseteq Mishaps

\* No foreign call has removed a lock, written into one or moved one: no mkdir
\* has failed in a way that ends in an rm, no heartbeat has outlived its lease,
\* no owner has given its lock back and died between a peer's two calls.
Undisturbed == mishaps \cap {"mkdir", "beat", "judged"} = {}

\* A healthy lease, one that has not been given back and whose process runs, is
\* the one the lock names: "the second writer cannot steal a lease that is still
\* healthy" (section 12 of the session format specification), so two leases are
\* never healthy at once.
NeverStolen ==
    \A l \in Leases : call[l] \in Holding => dir /\ owner = l

\* What acquire ensures of that promise: however takeovers race each other and
\* the deaths of owners, and whatever writes, reads, renames and removals fail, a
\* healthy lease is stolen only after one of the three events of Undisturbed.
HealthyKept == Undisturbed => NeverStolen

\* Likewise, what a takeover puts aside under the nonce of the owner it has judged
\* dead is that owner's record, and that owner's process is gone.
AsideIsDead ==
    Undisturbed =>
        \A l \in Leases :
            aside[l] # None => aside[l] = l /\ ProcOf[l] \notin alive

\* When no process has died and every call has come to its end, whether it
\* failed on the way or gave the lease back, the lock is gone, unless one of the
\* calls that remove it, or that find out whose it is, failed.
NothingLeft ==
    mishaps = {} /\ alive = Procs /\ (\A l \in Leases : call[l] \in {"idle"} \cup Over) => ~dir

\* A lock without a readable owner record is being made or removed by a process
\* that runs: any other lock can be taken over as soon as its owner has exited
\* (the comment in acquire and section 12 of the format specification).
CanBeTakenOver ==
    dir /\ owner = None =>
        \E l \in Leases : call[l] \in {"write", "undo", "rmdir"}

=============================================================================
