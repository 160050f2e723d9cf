-------------------------- MODULE PersistenceProofs --------------------------
(***************************************************************************)
(* What the JSONL persistence of a session promises: its writer lease      *)
(* (WriterLease) and the files behind it (SessionLog).                     *)
(***************************************************************************)
EXTENDS WriterLease, SessionLog, SequenceTheorems, TLAPS

(***************************************************************************)
(* A healthy lease is not taken, for every number of processes and of      *)
(* acquire calls and whichever calls fail, as long as nothing has disturbed*)
(* the leases (Undisturbed).  The argument: the lock names its owner from  *)
(* the moment the owner record is written until it is unlinked by the same *)
(* lease; whoever makes or removes the directory is alone with it while it *)
(* holds no record; and a rename that can still come was decided against an*)
(* owner that is dead and whose lock is either still there or already      *)
(* aside, where the rename meets a directory that is not empty.            *)
(***************************************************************************)
Named == Holding \cup {"dispose", "unlink"}
Bare == {"write", "undo", "rmdir"}

\* A record lies in a directory; only dead processes have dead leases.
Records == owner # None => dir
Deaths == \A l \in Leases : call[l] = "dead" <=> ProcOf[l] \notin alive

\* An attempt starts while there are attempts left.
AttemptsLeft == \A l \in Leases : call[l] \in {"idle", "mkdir"} => tries[l] < Attempts

\* A lease in use is named by the lock, and so is one whose heartbeat is in flight.
NamesHolder == \A l \in Leases : call[l] \in Named => dir /\ owner = l
BeatsNamed == \A l \in beat : dir /\ owner = l /\ ProcOf[l] \in alive

\* A lock without a record belongs to the one lease that makes or removes it.
BareAlone ==
    /\ \A l \in Leases : call[l] \in Bare => dir /\ owner = None
    /\ \A l, m \in Leases : call[l] \in Bare /\ call[m] \in Bare => l = m

\* An owner that was read and has died since left its lock, here or aside.
SeenDead(n) == ProcOf[n] \notin alive /\ (owner = n \/ aside[n] # None)
Decided ==
    \A l \in Leases :
        /\ call[l] = "judge" => seen[l] \in Leases /\ (ProcOf[seen[l]] \in alive \/ SeenDead(seen[l]))
        /\ call[l] = "rename" => seen[l] \in Leases /\ SeenDead(seen[l])

\* The locks put aside are those of the dead they are named after.
PutAside == \A l \in Leases : aside[l] # None => aside[l] = l /\ ProcOf[l] \notin alive

\* What holds whatever happens, and what holds of leases nothing has disturbed.
Sound == LeaseTypeOK /\ AttemptsLeft /\ Records /\ Deaths
Kept == NamesHolder /\ BeatsNamed /\ BareAlone /\ Decided /\ PutAside

LeaseInv == Sound /\ (Undisturbed => Kept)

USE DEF At, Goto

\* The invariant holds while there is no lock.
LEMMA InitLease == LeaseInit => LeaseInv
<1> SUFFICES ASSUME LeaseInit PROVE LeaseInv
  OBVIOUS
<1> USE LeaseAssumption DEF LeaseInit, Attempts
<1>1. LeaseTypeOK
  <2>1. dir \in BOOLEAN
    BY Zenon
  <2>2. /\ owner \in Leases \cup {None} /\ alive \subseteq Procs
        /\ aside \in [Leases -> Leases \cup {None}]
        /\ seen \in [Leases -> Leases \cup {None}]
    OBVIOUS
  <2>3. /\ call \in [Leases -> Calls] /\ tries \in [Leases -> 0..Attempts]
        /\ \A l \in Leases : call[l] \in {"judge", "rename"} => seen[l] # None
        /\ lost \subseteq Leases /\ beat \subseteq Leases /\ mishaps \subseteq Mishaps
    BY DEF Calls
  <2> QED
    BY <2>1, <2>2, <2>3 DEF LeaseTypeOK
<1>2. AttemptsLeft /\ Records /\ PutAside
  BY DEF AttemptsLeft, Records, PutAside
<1>3. Deaths
  BY DEF Deaths
<1>4. NamesHolder /\ BeatsNamed /\ BareAlone /\ Decided
  BY SMTT(30) DEF NamesHolder, BeatsNamed, BareAlone, Decided, Named, Bare, Holding
<1> QED
  BY <1>1, <1>2, <1>3, <1>4 DEF LeaseInv, Sound, Kept

\* Every file-system call, failing or not, keeps what holds whatever happens.
LEMMA StepSound ==
  ASSUME Sound, [LeaseNext]_leaseVars
  PROVE  Sound'
<1> USE LeaseAssumption
    DEF Sound, LeaseTypeOK, AttemptsLeft, Attempts, Records, Deaths, Calls, Acquiring, Holding,
        Releasing, Over, Mishap, Mishaps
<1>1. ASSUME NEW l \in Leases, Acquire(l) PROVE Sound'
  BY <1>1 DEF Acquire
<1>2. ASSUME NEW l \in Leases, Mkdir(l) PROVE Sound'
  <2> USE <1>2 DEF Mkdir
  <2>1. LeaseTypeOK'
    <3>1. dir \in BOOLEAN
      BY Zenon
    <3>2. (dir' = TRUE) \/ (dir' = dir)
      OBVIOUS
    <3>3. dir' \in BOOLEAN
      <4>1. CASE dir' = TRUE
        BY ONLY <4>1, Zenon
      <4>2. CASE dir' = dir
        BY ONLY <3>1, <4>2, Zenon
      <4> QED
        BY ONLY <3>2, <4>1, <4>2, Zenon
    <3>4. /\ owner' \in Leases \cup {None} /\ alive' \subseteq Procs
          /\ aside' \in [Leases -> Leases \cup {None}]
          /\ seen' \in [Leases -> Leases \cup {None}]
          /\ tries' \in [Leases -> 0..Attempts]
      OBVIOUS
    <3>5. /\ call' \in [Leases -> Calls]
          /\ \A m \in Leases : call'[m] \in {"judge", "rename"} => seen'[m] # None
      OBVIOUS
    <3>6. lost' \subseteq Leases /\ beat' \subseteq Leases /\ mishaps' \subseteq Mishaps
      OBVIOUS
    <3> QED
      BY ONLY <3>3, <3>4, <3>5, <3>6 DEF LeaseTypeOK
  <2>2. AttemptsLeft' /\ Records'
    OBVIOUS
  <2>3. Deaths'
    OBVIOUS
  <2> QED
    BY <2>1, <2>2, <2>3
<1>3. ASSUME NEW l \in Leases, WriteOwner(l) PROVE Sound'
  BY <1>3 DEF WriteOwner
<1>4. ASSUME NEW l \in Leases, WriteFails(l) PROVE Sound'
  BY <1>4 DEF WriteFails
<1>5. ASSUME NEW l \in Leases, Undo(l) PROVE Sound'
  <2> USE <1>5 DEF Undo
  <2>1. LeaseTypeOK'
    <3>1. dir' \in BOOLEAN
      BY Zenon
    <3> QED
      BY <3>1
  <2>2. AttemptsLeft' /\ Records'
    OBVIOUS
  <2>3. Deaths'
    OBVIOUS
  <2> QED
    BY <2>1, <2>2, <2>3
<1>6. ASSUME NEW l \in Leases, ReadOwner(l) PROVE Sound'
  BY <1>6 DEF ReadOwner
<1>7. ASSUME NEW l \in Leases, Judge(l) PROVE Sound'
  BY <1>7 DEF Judge
<1>8. ASSUME NEW l \in Leases, Rename(l) PROVE Sound'
  <2> USE <1>8 DEF Rename, Retry
  <2>1. LeaseTypeOK'
    <3>1. dir \in BOOLEAN
      BY Zenon
    <3>2. (dir' = FALSE) \/ (dir' = dir)
      OBVIOUS
    <3>3. dir' \in BOOLEAN
      <4>1. CASE dir' = FALSE
        BY ONLY <4>1, Zenon
      <4>2. CASE dir' = dir
        BY ONLY <3>1, <4>2, Zenon
      <4> QED
        BY ONLY <3>2, <4>1, <4>2, Zenon
    <3>4. /\ owner' \in Leases \cup {None} /\ alive' \subseteq Procs
          /\ aside' \in [Leases -> Leases \cup {None}]
          /\ seen' \in [Leases -> Leases \cup {None}]
          /\ tries' \in [Leases -> 0..Attempts]
      OBVIOUS
    <3>5. /\ call' \in [Leases -> Calls]
          /\ \A m \in Leases : call'[m] \in {"judge", "rename"} => seen'[m] # None
      OBVIOUS
    <3>6. lost' \subseteq Leases /\ beat' \subseteq Leases /\ mishaps' \subseteq Mishaps
      OBVIOUS
    <3> QED
      BY ONLY <3>3, <3>4, <3>5, <3>6 DEF LeaseTypeOK
  <2>2. AttemptsLeft' /\ Records'
    OBVIOUS
  <2>3. Deaths'
    OBVIOUS
  <2> QED
    BY <2>1, <2>2, <2>3
<1>9. ASSUME NEW l \in Leases, AssertOwned(l) PROVE Sound'
  BY <1>9 DEF AssertOwned
<1>10. ASSUME NEW l \in Leases, EndWrite(l) PROVE Sound'
  BY <1>10 DEF EndWrite
<1>11. ASSUME NEW l \in Leases, BeatCheck(l) PROVE Sound'
  BY <1>11 DEF BeatCheck
<1>12. ASSUME NEW l \in Leases, BeatWrite(l) PROVE Sound'
  BY <1>12 DEF BeatWrite
<1>13. ASSUME NEW l \in Leases, Dispose(l) PROVE Sound'
  BY <1>13 DEF Dispose
<1>14. ASSUME NEW l \in Leases, ReadOwn(l) PROVE Sound'
  BY <1>14 DEF ReadOwn
<1>15. ASSUME NEW l \in Leases, Unlink(l) PROVE Sound'
  <2> USE <1>15 DEF Unlink
  <2>1. LeaseTypeOK'
    <3>1. dir' \in BOOLEAN
      BY Zenon
    <3>2. /\ owner' \in Leases \cup {None} /\ alive' \subseteq Procs
          /\ aside' \in [Leases -> Leases \cup {None}]
          /\ seen' \in [Leases -> Leases \cup {None}]
          /\ tries' \in [Leases -> 0..Attempts]
      OBVIOUS
    <3>3. /\ call' \in [Leases -> Calls]
          /\ \A m \in Leases : call'[m] \in {"judge", "rename"} => seen'[m] # None
      OBVIOUS
    <3>4. lost' \subseteq Leases /\ beat' \subseteq Leases /\ mishaps' \subseteq Mishaps
      <4>1. CASE l \in beat
        BY <4>1
      <4>2. CASE l \notin beat
        BY <4>2
      <4> QED
        BY <4>1, <4>2
    <3> QED
      BY ONLY <3>1, <3>2, <3>3, <3>4 DEF LeaseTypeOK
  <2>2. AttemptsLeft' /\ Records'
    OBVIOUS
  <2>3. Deaths'
    OBVIOUS
  <2> QED
    BY <2>1, <2>2, <2>3
<1>16. ASSUME NEW l \in Leases, Rmdir(l) PROVE Sound'
  <2> USE <1>16 DEF Rmdir
  <2>1. LeaseTypeOK'
    <3>1. dir' \in BOOLEAN
      BY Zenon
    <3> QED
      BY <3>1
  <2>2. AttemptsLeft' /\ Records'
    OBVIOUS
  <2>3. Deaths'
    OBVIOUS
  <2> QED
    BY <2>1, <2>2, <2>3
<1>17. ASSUME NEW p \in Procs, Die(p) PROVE Sound'
  BY <1>17 DEF Die
<1>18. CASE UNCHANGED leaseVars
  BY <1>18 DEF leaseVars
<1> QED
  BY <1>1, <1>2, <1>3, <1>4, <1>5, <1>6, <1>7, <1>8, <1>9, <1>10, <1>11, <1>12, <1>13, <1>14, <1>15, <1>16, <1>17, <1>18, ZenonT(40) DEF LeaseNext, Step

\* A mishap is not forgotten, so leases that are undisturbed always were.
LEMMA MishapsStay ==
  ASSUME [LeaseNext]_leaseVars, Undisturbed'
  PROVE  Undisturbed
<1>1. mishaps \subseteq mishaps'
  <2> USE DEF Mishap
  <2>1. ASSUME NEW l \in Leases, Step(l) PROVE mishaps \subseteq mishaps'
    <3>1. CASE Acquire(l) \/ WriteOwner(l) \/ WriteFails(l) \/ ReadOwner(l) \/ Judge(l)
      BY <3>1 DEF Acquire, WriteOwner, WriteFails, ReadOwner, Judge
    <3>2. CASE Mkdir(l) \/ Undo(l) \/ ReadOwn(l)
      BY <3>2 DEF Mkdir, Undo, ReadOwn
    <3>3. CASE Unlink(l) \/ Rmdir(l)
      BY <3>3 DEF Unlink, Rmdir
    <3>4. CASE Rename(l)
      BY <3>4 DEF Rename
    <3>5. CASE AssertOwned(l) \/ EndWrite(l) \/ BeatCheck(l) \/ BeatWrite(l) \/ Dispose(l)
      BY <3>5 DEF AssertOwned, EndWrite, BeatCheck, BeatWrite, Dispose
    <3> QED
      BY <2>1, <3>1, <3>2, <3>3, <3>4, <3>5 DEF Step
  <2>2. ASSUME NEW p \in Procs, Die(p) PROVE mishaps \subseteq mishaps'
    BY <2>2 DEF Die
  <2> QED
    BY <2>1, <2>2 DEF LeaseNext, leaseVars
<1> QED
  BY <1>1 DEF Undisturbed

\* A step that disturbs nothing keeps every healthy lease.
LEMMA StepKept ==
  ASSUME Sound, Kept, Undisturbed', [LeaseNext]_leaseVars
  PROVE  Kept'
<1> USE LeaseAssumption
    DEF Sound, LeaseTypeOK, Records, Deaths, Kept, NamesHolder, BeatsNamed, BareAlone, Decided,
        SeenDead, PutAside, Named, Bare, Holding, Undisturbed, Mishap
<1>1. ASSUME NEW l \in Leases, Acquire(l) PROVE Kept'
  BY <1>1 DEF Acquire
<1>2. ASSUME NEW l \in Leases, Mkdir(l) PROVE Kept'
  <2> USE <1>2 DEF Mkdir
  <2>1. NamesHolder' /\ BeatsNamed'
    OBVIOUS
  <2>2. BareAlone'
    OBVIOUS
  <2>3. Decided'
    OBVIOUS
  <2>4. PutAside'
    OBVIOUS
  <2> QED
    BY <2>1, <2>2, <2>3, <2>4
<1>3. ASSUME NEW l \in Leases, WriteOwner(l) PROVE Kept'
  BY <1>3 DEF WriteOwner
<1>4. ASSUME NEW l \in Leases, WriteFails(l) PROVE Kept'
  BY <1>4 DEF WriteFails
<1>5. ASSUME NEW l \in Leases, Undo(l) PROVE Kept'
  <2> USE <1>5 DEF Undo
  <2>1. NamesHolder' /\ BeatsNamed'
    OBVIOUS
  <2>2. BareAlone'
    OBVIOUS
  <2>3. Decided'
    OBVIOUS
  <2>4. PutAside'
    OBVIOUS
  <2> QED
    BY <2>1, <2>2, <2>3, <2>4
<1>6. ASSUME NEW l \in Leases, ReadOwner(l) PROVE Kept'
  BY <1>6 DEF ReadOwner
<1>7. ASSUME NEW l \in Leases, Judge(l) PROVE Kept'
  BY <1>7 DEF Judge
<1>8. ASSUME NEW l \in Leases, Rename(l) PROVE Kept'
  <2> USE <1>8 DEF Rename, Retry
  <2>1. NamesHolder' /\ BeatsNamed'
    OBVIOUS
  <2>2. BareAlone'
    OBVIOUS
  <2>3. Decided'
    OBVIOUS
  <2>4. PutAside'
    OBVIOUS
  <2> QED
    BY <2>1, <2>2, <2>3, <2>4
<1>9. ASSUME NEW l \in Leases, AssertOwned(l) PROVE Kept'
  BY <1>9 DEF AssertOwned
<1>10. ASSUME NEW l \in Leases, EndWrite(l) PROVE Kept'
  BY <1>10 DEF EndWrite
<1>11. ASSUME NEW l \in Leases, BeatCheck(l) PROVE Kept'
  BY <1>11 DEF BeatCheck
<1>12. ASSUME NEW l \in Leases, BeatWrite(l) PROVE Kept'
  BY <1>12 DEF BeatWrite
<1>13. ASSUME NEW l \in Leases, Dispose(l) PROVE Kept'
  BY <1>13 DEF Dispose
<1>14. ASSUME NEW l \in Leases, ReadOwn(l) PROVE Kept'
  BY <1>14 DEF ReadOwn
<1>15. ASSUME NEW l \in Leases, Unlink(l) PROVE Kept'
  <2> USE <1>15 DEF Unlink
  <2>1. NamesHolder'
    OBVIOUS
  <2>5. BeatsNamed'
    OBVIOUS
  <2>2. BareAlone'
    OBVIOUS
  <2>3. Decided'
    OBVIOUS
  <2>4. PutAside'
    OBVIOUS
  <2> QED
    BY <2>1, <2>2, <2>3, <2>4, <2>5
<1>16. ASSUME NEW l \in Leases, Rmdir(l) PROVE Kept'
  <2> USE <1>16 DEF Rmdir
  <2>1. NamesHolder' /\ BeatsNamed'
    OBVIOUS
  <2>2. BareAlone'
    OBVIOUS
  <2>3. Decided'
    OBVIOUS
  <2>4. PutAside'
    OBVIOUS
  <2> QED
    BY <2>1, <2>2, <2>3, <2>4
<1>17. ASSUME NEW p \in Procs, Die(p) PROVE Kept'
  BY <1>17 DEF Die
<1>18. CASE UNCHANGED leaseVars
  BY <1>18 DEF leaseVars
<1> QED
  BY <1>1, <1>2, <1>3, <1>4, <1>5, <1>6, <1>7, <1>8, <1>9, <1>10, <1>11, <1>12, <1>13, <1>14, <1>15, <1>16, <1>17, <1>18, ZenonT(40) DEF LeaseNext, Step

\* The invariant holds at every moment.
LEMMA LeaseInductive == LeaseSpec => []LeaseInv
<1>1. LeaseInit => LeaseInv
  BY InitLease
<1>2. LeaseInv /\ [LeaseNext]_leaseVars => LeaseInv'
  BY StepSound, StepKept, MishapsStay DEF LeaseInv
<1> QED
  BY <1>1, <1>2, PTL DEF LeaseSpec

(***************************************************************************)
(* The lease's variables keep their types (writer-lease.ts), whichever     *)
(* calls fail and whoever dies; no attempt is counted beyond the third and *)
(* no lock is judged without an owner record.                              *)
(***************************************************************************)
THEOREM LeaseTypes == LeaseSpec => []LeaseTypeOK
<1>1. LeaseInv => LeaseTypeOK
  BY DEF LeaseInv, Sound
<1> QED
  BY <1>1, LeaseInductive, PTL

(***************************************************************************)
(* As long as a lease is in use and its process runs, the lock names it:   *)
(* takeovers, heartbeats and disposals of other leases, failing calls and  *)
(* crashes take it away only after a failed mkdir, a heartbeat in flight at*)
(* its lease's disposal, or a death between a peer's read and its judgment *)
(* of a lock given back before (Undisturbed).                              *)
(***************************************************************************)
THEOREM LeaseIsKept == LeaseSpec => []HealthyKept
<1>1. LeaseInv => HealthyKept
  BY DEF LeaseInv, Kept, NamesHolder, Named, HealthyKept, NeverStolen
<1> QED
  BY <1>1, LeaseInductive, PTL

(***************************************************************************)
(* Under the same condition a takeover puts aside the lock it has judged   *)
(* stale and never another.                                                *)
(***************************************************************************)
THEOREM OnlyDeadAside == LeaseSpec => []AsideIsDead
<1>1. LeaseInv => AsideIsDead
  BY DEF LeaseInv, Kept, PutAside, AsideIsDead
<1> QED
  BY <1>1, LeaseInductive, PTL

\* While nobody has died and nothing gone amiss, the lock has a lease that will
\* remove it.
Tended ==
    mishaps = {} /\ dir => alive # Procs \/ \E l \in Leases : call[l] \in Named \cup Bare

\* Every step keeps that a lock has a lease which is on its way to remove it.
LEMMA StepTended ==
  ASSUME LeaseInv, Tended, [LeaseNext]_leaseVars
  PROVE  Tended'
<1> USE DEF Tended, Named, Bare, Holding, Mishap
<1>1. /\ dir \in BOOLEAN /\ alive \subseteq Procs /\ call \in [Leases -> Calls]
      /\ None \notin Leases
      /\ mishaps = {} =>
            /\ \A l \in Leases : call[l] \in Named => dir /\ owner = l
            /\ \A l \in Leases : call[l] \in Bare => dir /\ owner = None
  BY LeaseAssumption DEF LeaseInv, Sound, Kept, Undisturbed, LeaseTypeOK, NamesHolder, BareAlone
<1>2. ASSUME NEW l \in Leases, Step(l) PROVE Tended'
  <2>1. CASE Acquire(l) \/ ReadOwner(l) \/ Judge(l)
    BY <1>1, <2>1 DEF Acquire, ReadOwner, Judge
  <2>2. CASE Mkdir(l)
    BY <1>1, <2>2 DEF Mkdir
  <2>3. CASE WriteOwner(l) \/ WriteFails(l)
    BY <1>1, <2>3 DEF WriteOwner, WriteFails
  <2>4. CASE Undo(l) \/ Rmdir(l)
    BY <1>1, <2>4 DEF Undo, Rmdir
  <2>5. CASE Rename(l)
    BY <1>1, <2>5 DEF Rename, Retry
  <2>6. CASE AssertOwned(l) \/ EndWrite(l)
    BY <1>1, <2>6 DEF AssertOwned, EndWrite
  <2>7. CASE BeatCheck(l) \/ BeatWrite(l)
    BY <1>1, <2>7 DEF BeatCheck, BeatWrite
  <2>8. CASE Dispose(l) \/ ReadOwn(l)
    BY <1>1, <2>8 DEF Dispose, ReadOwn
  <2>9. CASE Unlink(l)
    BY <1>1, <2>9 DEF Unlink
  <2> QED
    BY <1>2, <2>1, <2>2, <2>3, <2>4, <2>5, <2>6, <2>7, <2>8, <2>9 DEF Step
<1>3. ASSUME NEW p \in Procs, Die(p) PROVE Tended'
  BY <1>1, <1>3 DEF Die
<1>4. CASE UNCHANGED leaseVars
  BY <1>4 DEF leaseVars
<1> QED
  BY <1>2, <1>3, <1>4 DEF LeaseNext

(***************************************************************************)
(* While no process has died and no call that removes the lock or finds its*)
(* owner has failed, acquire calls that have failed or given the lock back *)
(* leave no lock behind, whichever other call of theirs failed.            *)
(***************************************************************************)
THEOREM NoLockIsLeft == LeaseSpec => []NothingLeft
<1>1. LeaseInit => Tended
  BY DEF LeaseInit, Tended
<1>2. LeaseInv /\ Tended /\ [LeaseNext]_leaseVars => Tended'
  BY StepTended
<1>3. Tended => NothingLeft
  BY DEF Tended, NothingLeft, Named, Bare, Holding, Over
<1> QED
  BY <1>1, <1>2, <1>3, LeaseInductive, PTL DEF LeaseSpec

(***************************************************************************)
(* What the session files promise for every size of the queue and of the   *)
(* batches: while a session is live, every accepted event is durable, in   *)
(* the write, queued or still to be enqueued, in order; and what a flush   *)
(* or a close has acknowledged stays in the file, unless a power loss has  *)
(* struck rows that an opening had taken over unsynced.                    *)
(*                                                                         *)
(* The argument: the journal is cut into consecutive segments, which are   *)
(* the durable events, the write, the queue and the rest of the call that  *)
(* enqueues; the writer's position is where the second one begins, until   *)
(* its fsync moves it to the end; the durable rows were covered by an      *)
(* fsync of this process or were on the disk when it opened the session.   *)
(***************************************************************************)
\* What each part of the lane and of the queue may look like together.
Control ==
    /\ writing # "no" \/ barrier => Live /\ ~blocked
    /\ writing = "no" => active = <<>>
    /\ lane # "append" => todo = <<>>
    /\ lane = "append" => phase = "open"
    /\ lane = "close" <=> phase = "closing"
    /\ lane \in {"flush", "close"} => barrier
    /\ ~Live /\ ~blocked => pending = <<>>

\* The producer waits as soon as the queue is full.
Bounded ==
    /\ Len(pending) + Len(active) <= MaxQueue
    /\ ~barrier /\ ~blocked => Len(pending) + Len(active) < MaxQueue

\* The events of s are those of the journal from position n on.
Segment(s, n) ==
    /\ n + Len(s) <= Len(journal)
    /\ \A i \in 1..Len(s) : s[i] = journal[n + i]

InLine ==
    /\ durable <= Len(journal)
    /\ Segment(active, durable)
    /\ Segment(pending, durable + Len(active))
    /\ Segment(todo, durable + Len(active) + Len(pending))
    /\ ~blocked => Len(journal) = durable + Len(active) + Len(pending) + Len(todo)

\* The file is where the write of the active batch has got to.
Written ==
    /\ Segment(file, 0)
    /\ durable <= Len(file)
    /\ durable <= synced \/ durable <= taken
    /\ ~blocked =>
        /\ writing \in {"no", "check"} =>
              position = durable /\ Len(file) = durable /\ ~torn
        /\ writing = "write" =>
              /\ position = durable
              /\ durable <= Len(file) /\ Len(file) <= durable + Len(active)
              /\ torn => Len(file) < durable + Len(active)
        /\ writing = "confirm" =>
              /\ position = durable + Len(active) /\ Len(file) = position
              /\ synced = position /\ ~torn

\* The acknowledged events are in the file, synced or taken over, and the durable
\* ones hold them all.
Acked ==
    /\ Len(acked) <= Len(file)
    /\ Len(acked) <= synced \/ Len(acked) <= taken
    /\ \A i \in 1..Len(acked) : acked[i] = file[i]
    /\ Live => Len(acked) <= durable

\* Nobody makes more events than are counted.
Counted == Len(file) <= made /\ (Live => Len(journal) <= made)

IInv ==
    /\ TypeOK /\ Control /\ Bounded /\ Counted
    /\ Live => InLine /\ Written
    /\ gap \/ Acked

-----------------------------------------------------------------------------
USE QueueAssumption, BoundAssumption
USE DEF queue, disk, past, Live, Ready, Fresh, StartWrite, WriteFailed, Events

\* TypeOK, one variable at a time.
Types ==
  /\ phase \in {"open", "closing", "closed", "down"}
  /\ lane \in {"idle", "append", "flush", "close"}
  /\ writing \in {"no", "check", "write", "confirm"}
  /\ journal \in Seq(Events) /\ todo \in Seq(Events) /\ pending \in Seq(Events)
  /\ active \in Seq(Events) /\ file \in Seq(Events) /\ acked \in Seq(Events)
  /\ durable \in 0..MaxEvents /\ position \in 0..MaxEvents
  /\ synced \in 0..Len(file)
  /\ made \in 0..MaxEvents /\ taken \in 0..MaxEvents /\ crashes \in 0..MaxCrashes

Flags ==
  /\ owned \in BOOLEAN /\ timer \in BOOLEAN /\ barrier \in BOOLEAN
  /\ blocked \in BOOLEAN /\ torn \in BOOLEAN /\ gap \in BOOLEAN

\* The types, taken apart into those of sequences and numbers and those of
\* flags.
LEMMA TypesAre == TypeOK <=> Types /\ Flags
<1>1. TypeOK => Types /\ Flags
  BY DEF TypeOK, Types, Flags
<1>2. ASSUME Types, Flags PROVE TypeOK
  <2>1. {journal, todo, pending, active, file, acked} \subseteq Seq(Events)
    BY <1>2 DEF Types
  <2>2. {owned, timer, barrier, blocked, torn, gap} \subseteq BOOLEAN
    BY <1>2, Zenon DEF Flags
  <2> QED
    BY <1>2, <2>1, <2>2 DEF TypeOK, Types
<1> QED
  BY <1>1, <1>2

\* Lengths and counters are natural numbers.
LEMMA Lengths ==
  ASSUME Types
  PROVE  /\ Len(journal) \in Nat /\ Len(todo) \in Nat /\ Len(pending) \in Nat
         /\ Len(active) \in Nat /\ Len(file) \in Nat /\ Len(acked) \in Nat
         /\ durable \in Nat /\ position \in Nat /\ synced \in Nat /\ made \in Nat
         /\ taken \in Nat
  BY LenProperties DEF Types

\* The invariant holds of a session that has just been created.
LEMMA InitIInv == Init => IInv
<1> SUFFICES ASSUME Init PROVE IInv
  OBVIOUS
<1> USE DEF Init
<1>1. Len(<<>>) = 0 /\ <<>> \in Seq(Events)
  OBVIOUS
<1>2. TypeOK
  <2>1. Flags
    BY Zenon DEF Flags
  <2> QED
    BY <1>1, <2>1, TypesAre, Lengths DEF Types
<1>3. Control /\ Bounded /\ Counted /\ Acked
  BY <1>1 DEF Control, Bounded, Counted, Acked
<1>4. InLine /\ Written
  BY <1>1 DEF InLine, Written, Segment
<1> QED
  BY <1>2, <1>3, <1>4 DEF IInv

\* Every step keeps which parts of the lane and of the queue may meet.
LEMMA StepControl ==
  ASSUME TypeOK, Control, [Next]_vars
  PROVE  Control'
<1> USE TypesAre, Lengths DEF Types, Flags, Control
<1>1. ASSUME NEW k \in 1..MaxBatch, Accept(k) PROVE Control'
  BY <1>1 DEF Accept
<1>2. CASE Flush
  BY <1>2 DEF Flush
<1>3. CASE Close
  BY <1>3 DEF Close
<1>4. CASE Enqueue
  BY <1>4 DEF Enqueue
<1>5. CASE EndAppend
  BY <1>5 DEF EndAppend
<1>6. CASE DrainWrite
  BY <1>6 DEF DrainWrite
<1>7. CASE Drained
  BY <1>7 DEF Drained
<1>8. CASE CheckOwned
  BY <1>8 DEF CheckOwned
<1>9. CASE WriteRow
  BY <1>9 DEF WriteRow
<1>10. CASE Fsync
  BY <1>10 DEF Fsync
<1>11. CASE Confirm
  BY <1>11 DEF Confirm
<1>12. CASE ConfirmFails
  BY <1>12 DEF ConfirmFails
<1>13. CASE TimerFires
  BY <1>13 DEF TimerFires
<1>14. CASE WriteError
  BY <1>14 DEF WriteError
<1>15. CASE LoseLease
  BY <1>15 DEF LoseLease
<1>16. CASE Crash
  BY <1>16 DEF Crash
<1>18. CASE Open
  BY <1>18 DEF Open
<1>19. CASE Repair
  BY <1>19 DEF Repair
<1>20. CASE UNCHANGED vars
  BY <1>20 DEF vars
<1> QED
  BY <1>1, <1>2, <1>3, <1>4, <1>5, <1>6, <1>7, <1>8, <1>9, <1>10, <1>11, <1>12, <1>13, <1>14,
     <1>15, <1>16, <1>18, <1>19, <1>20 DEF Next, Work

\* What the actions do to sequences of events.
LEMMA Numbered ==
  ASSUME TypeOK, NEW k \in Nat, made + k <= MaxEvents
  PROVE  /\ [i \in 1..k |-> made + i] \in Seq(Events)
         /\ Len([i \in 1..k |-> made + i]) = k
<1>1. \A i \in 1..k : made + i \in Events
  BY DEF TypeOK
<1> QED
  BY <1>1

\* Head and tail of a batch, position by position.
LEMMA HeadAndTail ==
  ASSUME NEW s \in Seq(Events), s # <<>>
  PROVE  /\ Head(s) \in Events /\ Head(s) = s[1] /\ Tail(s) \in Seq(Events)
         /\ Len(s) \in Nat \ {0} /\ Len(Tail(s)) = Len(s) - 1
         /\ \A i \in 1..Len(Tail(s)) : Tail(s)[i] = s[i + 1]
  BY HeadTailProperties, EmptySeq

\* The first rows of a file, position by position.
LEMMA FirstRows ==
  ASSUME NEW s \in Seq(Events), NEW n \in 0..Len(s)
  PROVE  /\ SubSeq(s, 1, n) \in Seq(Events) /\ Len(SubSeq(s, 1, n)) = n
         /\ \A i \in 1..n : SubSeq(s, 1, n)[i] = s[i]
<1>1. n \in Int /\ \A i \in 1..n : s[i] \in Events
  BY LenProperties
<1> QED
  BY <1>1, SubSeqProperties

\* Two batches joined, position by position.
LEMMA Joined ==
  ASSUME NEW s \in Seq(Events), NEW t \in Seq(Events)
  PROVE  /\ s \o t \in Seq(Events) /\ Len(s \o t) = Len(s) + Len(t)
         /\ \A i \in 1..Len(s) + Len(t) : (s \o t)[i] = IF i <= Len(s) THEN s[i] ELSE t[i - Len(s)]
  BY ConcatProperties

\* A file with one more row, position by position.
LEMMA OneMore ==
  ASSUME NEW s \in Seq(Events), NEW e \in Events
  PROVE  /\ Append(s, e) \in Seq(Events) /\ Len(Append(s, e)) = Len(s) + 1
         /\ \A i \in 1..Len(s) : Append(s, e)[i] = s[i]
         /\ Append(s, e)[Len(s) + 1] = e
  BY AppendProperties

\* Consecutive segments make one segment.
LEMMA Spliced ==
  ASSUME Types, NEW s \in Seq(Events), NEW t \in Seq(Events), NEW n \in Nat,
         Segment(s, n), Segment(t, n + Len(s))
  PROVE  Segment(s \o t, n)
<1>1. Len(s) \in Nat /\ Len(t) \in Nat /\ Len(journal) \in Nat
  BY Lengths, LenProperties
<1> DEFINE both == s \o t
<1>2. /\ Len(both) = Len(s) + Len(t)
      /\ \A i \in 1..Len(s) + Len(t) :
            both[i] = IF i <= Len(s) THEN s[i] ELSE t[i - Len(s)]
  BY <1>1, Joined
<1> HIDE DEF both
<1>3. n + Len(both) <= Len(journal)
  BY <1>1, <1>2 DEF Segment
<1>4. ASSUME NEW i \in 1..Len(both) PROVE both[i] = journal[n + i]
  <2>1. CASE i <= Len(s)
    <3>1. i \in 1..Len(s) /\ both[i] = s[i]
      BY <2>1, <1>4, <1>1, <1>2
    <3>2. s[i] = journal[n + i]
      BY <3>1 DEF Segment
    <3> QED
      BY <3>1, <3>2
  <2>2. CASE i > Len(s)
    <3>1. i - Len(s) \in 1..Len(t)
      BY <2>2, <1>4, <1>1, <1>2
    <3>2. t[i - Len(s)] = journal[(n + Len(s)) + (i - Len(s))]
      BY <3>1 DEF Segment
    <3>3. (n + Len(s)) + (i - Len(s)) = n + i
      BY <1>1
    <3> QED
      BY <3>2, <3>3, <2>2, <1>4, <1>1, <1>2
  <2> QED
    BY <2>1, <2>2, <1>1, <1>2
<1> QED
  BY <1>3, <1>4 DEF Segment, both

\* A failed write puts the batch in front of the queue.
LEMMA Requeued ==
  ASSUME Types
  PROVE  /\ active \o pending \in Seq(Events) /\ <<>> \in Seq(Events) /\ Len(<<>>) = 0
         /\ Len(active \o pending) = Len(active) + Len(pending)
         /\ \A n \in Nat : Segment(active, n) /\ Segment(pending, n + Len(active))
                => Segment(active \o pending, n)
<1>1. active \in Seq(Events) /\ pending \in Seq(Events)
  BY DEF Types
<1>2. <<>> \in Seq(Events) /\ Len(<<>>) = 0
  OBVIOUS
<1> QED
  BY <1>1, <1>2, Joined, Spliced

\* A segment of the journal is one of every longer journal, and what is put
\* behind the journal is its last segment.
LEMMA Longer ==
  ASSUME Types, NEW e \in Seq(Events), NEW s \in Seq(Events), NEW n \in Nat, Segment(s, n)
  PROVE  /\ n + Len(s) <= Len(journal \o e)
         /\ \A i \in 1..Len(s) : s[i] = (journal \o e)[n + i]
<1>1. /\ journal \in Seq(Events) /\ Len(journal) \in Nat /\ Len(e) \in Nat
      /\ Len(s) \in Nat
  BY Lengths, LenProperties DEF Types
<1> DEFINE longer == journal \o e
<1>2. /\ Len(longer) = Len(journal) + Len(e)
      /\ \A i \in 1..Len(journal) + Len(e) :
            longer[i] = IF i <= Len(journal) THEN journal[i] ELSE e[i - Len(journal)]
  BY <1>1, Joined
<1>3. n + Len(s) <= Len(journal)
  BY DEF Segment
<1> HIDE DEF longer
<1>4. ASSUME NEW i \in 1..Len(s) PROVE s[i] = longer[n + i]
  <2>1. s[i] = journal[n + i]
    BY DEF Segment
  <2>2. n + i \in 1..Len(journal) + Len(e) /\ n + i <= Len(journal)
    BY <1>1, <1>3
  <2>3. longer[n + i] = journal[n + i]
    BY <1>2, <2>2
  <2> QED
    BY <2>1, <2>3
<1>5. n + Len(s) <= Len(longer)
  BY <1>1, <1>2, <1>3
<1> QED
  BY <1>4, <1>5 DEF longer

\* Every step keeps the types of the flags.
LEMMA StepFlags ==
  ASSUME Flags, [Next]_vars
  PROVE  Flags'
<1> USE DEF Flags
<1>1. ASSUME NEW k \in 1..MaxBatch, Accept(k) PROVE Flags'
  BY <1>1, Zenon DEF Accept
<1>2. CASE Flush
  BY <1>2, Zenon DEF Flush
<1>3. CASE Close
  BY <1>3, Zenon DEF Close
<1>4. CASE Enqueue
  <2>1. barrier' \in BOOLEAN
    BY <1>4 DEF Enqueue
  <2> QED
    BY <1>4, <2>1, Zenon DEF Enqueue
<1>5. CASE EndAppend
  BY <1>5, Zenon DEF EndAppend
<1>6. CASE DrainWrite
  BY <1>6, Zenon DEF DrainWrite
<1>7. CASE Drained
  BY <1>7, Zenon DEF Drained
<1>8. CASE CheckOwned
  BY <1>8, Zenon DEF CheckOwned
<1>9. CASE WriteRow
  BY <1>9, Zenon DEF WriteRow
<1>10. CASE Fsync
  BY <1>10, Zenon DEF Fsync
<1>11. CASE Confirm
  BY <1>11, Zenon DEF Confirm
<1>12. CASE ConfirmFails
  BY <1>12, Zenon DEF ConfirmFails
<1>13. CASE TimerFires
  BY <1>13, Zenon DEF TimerFires
<1>14. CASE WriteError
  BY <1>14, Zenon DEF WriteError
<1>15. CASE LoseLease
  BY <1>15, Zenon DEF LoseLease
<1>16. CASE Crash
  BY <1>16, Zenon DEF Crash
<1>18. CASE Open
  BY <1>18, Zenon DEF Open
<1>19. CASE Repair
  BY <1>19, Zenon DEF Repair
<1>20. CASE UNCHANGED vars
  BY <1>20, Zenon DEF vars
<1> QED
  BY <1>1, <1>2, <1>3, <1>4, <1>5, <1>6, <1>7, <1>8, <1>9, <1>10, <1>11, <1>12, <1>13, <1>14,
     <1>15, <1>16, <1>18, <1>19, <1>20 DEF Next, Work

\* Every step keeps the types of sequences and numbers.
LEMMA StepTypes ==
  ASSUME IInv, [Next]_vars
  PROVE  Types'
<1>0. /\ Types /\ Flags /\ Control /\ Counted
      /\ Live => InLine /\ Written
  BY TypesAre DEF IInv
<1>1. ASSUME NEW k \in 1..MaxBatch, Accept(k) PROVE Types'
  <2>1. k \in Nat /\ made + k <= MaxEvents
    BY <1>0, <1>1, Lengths DEF Accept, Types
  <2>2. journal' \in Seq(Events) /\ todo' \in Seq(Events)
    BY <1>0, <1>1, <2>1, TypesAre, Numbered, Joined DEF Accept, Types
  <2> QED
    BY <1>0, <1>1, <2>1, <2>2, Lengths DEF Accept, Types
<1>2. CASE Flush
  BY <1>0, <1>2, Lengths DEF Flush, Types
<1>3. CASE Close
  BY <1>0, <1>3, Lengths DEF Close, Types
<1>4. CASE Enqueue
  <2>1. /\ Tail(todo) \in Seq(Events) /\ Append(pending, Head(todo)) \in Seq(Events)
        /\ <<>> \in Seq(Events)
    BY <1>0, <1>4, HeadAndTail, OneMore DEF Enqueue, Types
  <2> QED
    BY <1>0, <1>4, <2>1, Lengths DEF Enqueue, Types
<1>5. CASE EndAppend
  BY <1>0, <1>5, Lengths DEF EndAppend, Types
<1>6. CASE DrainWrite
  BY <1>0, <1>6, Lengths DEF DrainWrite, Types
<1>7. CASE Drained
  BY <1>0, <1>7, Lengths DEF Drained, Types
<1>8. CASE CheckOwned
  <2>2. CASE owned
    BY <1>0, <1>8, <2>2, Lengths DEF CheckOwned, Types
  <2>3. CASE ~owned
    BY <1>0, <1>8, <2>3, Requeued, Lengths DEF CheckOwned, Types
  <2> QED
    BY <2>2, <2>3
<1>9. CASE WriteRow
  <2>1. Len(file) - position + 1 \in 1..Len(active)
    BY <1>0, <1>9, Lengths DEF WriteRow, Written, Types, Control
  <2>2. active[Len(file) - position + 1] \in Events
    BY <1>0, <2>1, ElementOfSeq, Lengths DEF Types
  <2>3. Append(file, active[Len(file) - position + 1]) \in Seq(Events)
        /\ Len(Append(file, active[Len(file) - position + 1])) = Len(file) + 1
    BY <1>0, <2>2, OneMore, Lengths DEF Types
  <2>4. file' \in Seq(Events) /\ Len(file) <= Len(file')
    <3>1. CASE torn
      BY <1>0, <1>9, <2>3, <3>1, Lengths DEF WriteRow, Types
    <3>2. CASE ~torn
      BY <1>0, <1>9, <3>2, Lengths DEF WriteRow, Types
    <3> QED
      BY <3>1, <3>2
  <2> QED
    BY <1>0, <1>9, <2>4, Lengths DEF WriteRow, Types
<1>10. CASE Fsync
  <2>1. Len(file) \in 0..MaxEvents
    BY <1>0, Lengths DEF Counted, Types
  <2> QED
    BY <1>0, <1>10, <2>1, Lengths DEF Fsync, Types
<1>11. CASE Confirm
  <2>1. Live /\ Len(journal) <= made
    BY <1>0, <1>11, Lengths DEF Confirm, Counted, Types, Control
  <2>2. durable + Len(active) <= Len(journal)
    BY <1>0, <2>1, Lengths DEF InLine, Segment, Types
  <2>3. durable + Len(active) \in 0..MaxEvents
    <3>1. /\ durable + Len(active) \in Nat /\ Len(journal) \in Nat
          /\ made \in Nat /\ made <= MaxEvents
      BY <1>0, Lengths DEF Types
    <3> QED
      BY <3>1, <2>1, <2>2
  <2> QED
    BY <1>0, <1>11, <2>3, Lengths DEF Confirm, Types
<1>12. CASE ConfirmFails
  BY <1>0, <1>12, Requeued, Lengths DEF ConfirmFails, Types
<1>13. CASE TimerFires
  <2>1. <<>> \in Seq(Events)
    OBVIOUS
  <2>2. active' \in Seq(Events) /\ pending' \in Seq(Events) /\ writing' \in {writing, "check"}
    BY <1>0, <1>13, <2>1 DEF TimerFires, Types
  <2>3. UNCHANGED <<phase, lane, journal, todo, file, acked, durable, position, synced, made, taken, crashes>>
    BY <1>13 DEF TimerFires
  <2> QED
    BY <1>0, <2>2, <2>3 DEF Types
<1>14. CASE WriteError
  <2>2. position \in 0..Len(file)
    BY <1>0, <1>14, Lengths DEF WriteError, Written, Types, Control
  <2>3. SubSeq(file, 1, position) \in Seq(Events) /\ Len(SubSeq(file, 1, position)) = position
    BY <1>0, <2>2, FirstRows, Lengths DEF Types
  <2>4. file' \in Seq(Events) /\ synced' \in 0..Len(file')
    <3>1. CASE UNCHANGED disk
      BY <1>0, <3>1, Lengths DEF Types
    <3>2. CASE file' = SubSeq(file, 1, position) /\ synced' = position
      BY <1>0, <3>2, <2>2, <2>3, Lengths DEF Types
    <3> QED
      BY <1>0, <1>14, <3>1, <3>2, Lengths DEF WriteError, Types
  <2> QED
    BY <1>0, <1>14, <2>4, Requeued, Lengths DEF WriteError, Types
<1>15. CASE LoseLease
  BY <1>0, <1>15, Lengths DEF LoseLease, Types
<1>16. CASE Crash
  <2>1. <<>> \in Seq(Events) /\ Len(<<>>) = 0
    BY <1>0, Lengths DEF Types
  <2>2. \A n \in synced..Len(file) :
           n \in Nat /\ SubSeq(file, 1, n) \in Seq(Events) /\ Len(SubSeq(file, 1, n)) = n
    <3> TAKE n \in synced..Len(file)
    <3>1. n \in 0..Len(file)
      BY <1>0, Lengths DEF Types
    <3> QED
      BY <1>0, <3>1, FirstRows, Lengths DEF Types
  <2>3. file' \in Seq(Events) /\ synced' \in 0..Len(file')
    <3>1. CASE UNCHANGED disk
      BY <1>0, <3>1, Lengths DEF Types
    <3>2. CASE \E n \in synced..Len(file) : file' = SubSeq(file, 1, n) /\ synced' = n
      <4>1. PICK n \in synced..Len(file) : file' = SubSeq(file, 1, n) /\ synced' = n
        BY <1>0, <3>2, Lengths DEF Types
      <4>2. n \in Nat /\ SubSeq(file, 1, n) \in Seq(Events) /\ Len(SubSeq(file, 1, n)) = n
        BY <1>0, <2>2, Lengths DEF Types
      <4> QED
        BY <1>0, <4>1, <4>2, Lengths DEF Types
    <3> QED
      BY <1>0, <1>16, <3>1, <3>2, Lengths DEF Crash, Types
  <2>4. crashes' \in 0..MaxCrashes
    <3>1. crashes < MaxCrashes /\ crashes' = crashes + 1
      BY <1>0, <1>16, Lengths DEF Crash, Types
    <3>2. crashes \in 0..MaxCrashes
      BY <1>0, Lengths DEF Types
    <3> QED
      BY <3>1, <3>2
  <2> QED
    BY <1>0, <1>16, <2>1, <2>3, <2>4, Lengths DEF Crash, Types
<1>18. CASE Open
  <2>1. Len(file) \in 0..MaxEvents
    BY <1>0, Lengths DEF Counted, Types
  <2> QED
    BY <1>0, <1>18, <2>1, Lengths DEF Open, Types
<1>19. CASE Repair
  BY <1>0, <1>19, Lengths DEF Repair, Types
<1>20. CASE UNCHANGED vars
  BY <1>0, <1>20, Lengths DEF vars, Types
<1> QED
  BY <1>1, <1>2, <1>3, <1>4, <1>5, <1>6, <1>7, <1>8, <1>9, <1>10, <1>11, <1>12, <1>13, <1>14,
     <1>15, <1>16, <1>18, <1>19, <1>20 DEF Next, Work

\* The event that fills the queue starts a write or makes its producer wait.
LEMMA EnqueueBounded ==
  ASSUME Types, Bounded, Enqueue
  PROVE  Bounded'
<1>1. todo # <<>> /\ Len(Append(pending, Head(todo))) = Len(pending) + 1
  BY HeadAndTail, OneMore DEF Types, Enqueue
<1>2. Len(pending) \in Nat /\ Len(active) \in Nat /\ Len(<<>>) = 0
  BY Lengths
<1>3. Len(pending) + Len(active) < MaxQueue /\ ~barrier /\ ~blocked
  BY DEF Enqueue, Bounded
<1> DEFINE longer == Append(pending, Head(todo))
<1>4. /\ barrier' = (Len(longer) + Len(active) >= MaxQueue) /\ blocked' = blocked
      /\ \/ active' = longer /\ pending' = <<>> /\ Len(longer) >= MaxQueue
         \/ active' = active /\ pending' = longer
  BY DEF Enqueue
<1> HIDE DEF longer
<1>5. Len(longer) = Len(pending) + 1
  BY <1>1 DEF longer
<1>6. CASE active' = longer /\ pending' = <<>> /\ Len(longer) >= MaxQueue
  <2>1. barrier' <=> Len(pending) + 1 + Len(active) >= MaxQueue
    BY <1>2, <1>4, <1>5
  <2>2. /\ Len(active') = Len(pending) + 1 /\ Len(pending') = 0
        /\ Len(pending) + 1 >= MaxQueue
    BY <1>2, <1>5, <1>6
  <2> QED
    BY <1>2, <1>3, <2>1, <2>2 DEF Bounded
<1>7. CASE active' = active /\ pending' = longer
  <2>1. barrier' <=> Len(pending) + 1 + Len(active) >= MaxQueue
    BY <1>2, <1>4, <1>5
  <2>2. active' = active /\ Len(pending') = Len(pending) + 1
    BY <1>5, <1>7
  <2> QED
    BY <1>2, <1>3, <2>1, <2>2 DEF Bounded
<1> QED
  BY <1>4, <1>6, <1>7

\* Every step keeps the bounds of the queue.
LEMMA StepBounded ==
  ASSUME Types, Flags, Control, Bounded, [Next]_vars
  PROVE  Bounded'
<1> USE Lengths DEF Types, Flags, Control, Bounded
<1>1. ASSUME NEW k \in 1..MaxBatch, Accept(k) PROVE Bounded'
  BY <1>1 DEF Accept
<1>2. CASE Flush
  BY <1>2 DEF Flush
<1>3. CASE Close
  BY <1>3 DEF Close
<1>4. CASE Enqueue
  BY <1>4, EnqueueBounded
<1>5. CASE EndAppend
  BY <1>5 DEF EndAppend
<1>6. CASE DrainWrite
  BY <1>6 DEF DrainWrite
<1>7. CASE Drained
  BY <1>7 DEF Drained
<1>8. CASE CheckOwned
  BY SMTT(20), <1>8 DEF CheckOwned
<1>9. CASE WriteRow
  BY <1>9 DEF WriteRow
<1>10. CASE Fsync
  BY <1>10 DEF Fsync
<1>11. CASE Confirm
  BY <1>11 DEF Confirm
<1>12. CASE ConfirmFails
  BY <1>12 DEF ConfirmFails
<1>13. CASE TimerFires
  BY SMTT(20), <1>13 DEF TimerFires
<1>14. CASE WriteError
  BY <1>14 DEF WriteError
<1>15. CASE LoseLease
  BY <1>15 DEF LoseLease
<1>16. CASE Crash
  BY <1>16 DEF Crash
<1>18. CASE Open
  BY <1>18 DEF Open
<1>19. CASE Repair
  BY <1>19 DEF Repair
<1>20. CASE UNCHANGED vars
  BY <1>20 DEF vars
<1> QED
  BY <1>1, <1>2, <1>3, <1>4, <1>5, <1>6, <1>7, <1>8, <1>9, <1>10, <1>11, <1>12, <1>13, <1>14,
     <1>15, <1>16, <1>18, <1>19, <1>20 DEF Next, Work

\* Every step keeps the count of accepted events.
LEMMA StepCounted ==
  ASSUME IInv, [Next]_vars
  PROVE  Counted'
<1>1. /\ Types /\ Flags /\ Control /\ Counted
      /\ Live => InLine /\ Written
  BY TypesAre DEF IInv
<1>2. ASSUME NEW k \in 1..MaxBatch, Accept(k) PROVE Counted'
  <2>1. k \in Nat /\ made + k <= MaxEvents /\ Live /\ made' = made + k /\ file' = file
    BY <1>2 DEF Accept
  <2>2. Len(journal') = Len(journal) + k
    BY <1>1, <1>2, <2>1, TypesAre, Numbered, Joined DEF Accept, Types
  <2> QED
    BY SMTT(20), <1>1, <2>1, <2>2, Lengths DEF Counted
<1>3. CASE WriteRow
  <2>1. Live /\ InLine /\ Written /\ ~blocked
    BY <1>1, <1>3 DEF WriteRow, Control
  <2>2. position = durable /\ Len(file) < durable + Len(active)
    BY <1>1, <1>3, <2>1, Lengths DEF WriteRow, Written
  <2>3. active[Len(file) - position + 1] \in Events
    <3>1. Len(file) - position + 1 \in 1..Len(active)
      BY <1>1, <2>1, <2>2, Lengths DEF Written
    <3> QED
      BY <1>1, <3>1, ElementOfSeq DEF Types
  <2>4. Len(Append(file, active[Len(file) - position + 1])) = Len(file) + 1
    BY <1>1, <2>3, OneMore DEF Types
  <2>5. Len(file') \in {Len(file), Len(file) + 1} /\ UNCHANGED <<journal, made, phase>>
    BY <1>3, <2>4 DEF WriteRow
  <2>6. durable + Len(active) <= Len(journal) /\ Len(journal) <= made
    BY <1>1, <2>1 DEF InLine, Counted, Segment
  <2> QED
    BY <1>1, <2>1, <2>2, <2>5, <2>6, Lengths DEF Counted
<1>4. CASE WriteError
  <2>1. position \in 0..Len(file)
    BY <1>1, <1>4, Lengths DEF WriteError, Control, Written
  <2>2. Len(SubSeq(file, 1, position)) = position
    BY <1>1, <2>1, FirstRows DEF Types
  <2>3. Len(file') = Len(file) \/ Len(file') = position
    BY <1>4, <2>2 DEF WriteError
  <2>4. made' = made /\ journal' = journal /\ Live
    BY <1>1, <1>4 DEF WriteError, Control
  <2> QED
    BY <1>1, <2>1, <2>3, <2>4, Lengths DEF Counted
<1>5. CASE Crash
  <2>1. Len(file') <= Len(file)
    <3>1. CASE UNCHANGED disk
      BY <1>1, <3>1, Lengths
    <3>2. ASSUME NEW n \in synced..Len(file), file' = SubSeq(file, 1, n)
          PROVE  Len(file') <= Len(file)
      <4>1. n \in 0..Len(file)
        BY <1>1, Lengths
      <4> QED
        BY <1>1, <3>2, <4>1, FirstRows DEF Types
    <3> QED
      BY <1>5, <3>1, <3>2 DEF Crash
  <2>2. made' = made /\ phase' = "down" /\ Len(file') \in Nat
    <3>1. file' \in Seq(Events)
      BY <1>5, StepTypes DEF Types
    <3> QED
      BY <1>5, <3>1 DEF Crash
  <2> QED
    BY <1>1, <2>1, <2>2, Lengths DEF Counted
<1>6. CASE Open
  BY <1>1, <1>6 DEF Open, Counted
<1>7. CASE Flush
  BY <1>1, <1>7 DEF Flush, Counted, Control
<1>8. CASE Close
  BY <1>1, <1>8 DEF Close, Counted, Control
<1>9. CASE Enqueue
  BY <1>1, <1>9 DEF Enqueue, Counted, Control
<1>10. CASE EndAppend
  BY <1>1, <1>10 DEF EndAppend, Counted, Control
<1>11. CASE DrainWrite
  BY <1>1, <1>11 DEF DrainWrite, Counted, Control
<1>12. CASE Drained
  BY <1>1, <1>12 DEF Drained, Counted, Control
<1>13. CASE CheckOwned
  BY <1>1, <1>13 DEF CheckOwned, Counted, Control
<1>14. CASE Fsync
  BY <1>1, <1>14 DEF Fsync, Counted, Control
<1>15. CASE Confirm
  BY <1>1, <1>15 DEF Confirm, Counted, Control
<1>16. CASE ConfirmFails
  BY <1>1, <1>16 DEF ConfirmFails, Counted, Control
<1>17. CASE TimerFires
  BY <1>1, <1>17 DEF TimerFires, Counted, Control
<1>18. CASE LoseLease
  BY <1>1, <1>18 DEF LoseLease, Counted, Control
<1>20. CASE Repair
  BY <1>1, <1>20 DEF Repair, Counted, Control
<1>21. CASE UNCHANGED vars
  BY <1>1, <1>21 DEF vars, Counted
<1> QED
  BY <1>2, <1>3, <1>4, <1>5, <1>6, <1>7, <1>8, <1>9, <1>10, <1>11, <1>12, <1>13, <1>14, <1>15,
     <1>16, <1>17, <1>18, <1>20, <1>21 DEF Next, Work

\* A failed write puts its batch back in front of the queue, and the order
\* is the journal's still.
LEMMA FailedInLine ==
  ASSUME IInv, Live, WriteFailed, UNCHANGED <<journal, durable>>, Types'
  PROVE  InLine'
<1>1. Types
  BY TypesAre DEF IInv
<1>2. InLine
  BY DEF IInv
<1>3. durable \in Nat /\ Len(active) \in Nat /\ Len(pending) \in Nat
  BY <1>1, Lengths
<1>4. /\ Segment(active \o pending, durable)
      /\ Len(active \o pending) = Len(active) + Len(pending)
  BY <1>1, <1>2, <1>3, Requeued DEF InLine
<1>5. /\ journal' = journal /\ durable' = durable /\ pending' = active \o pending
      /\ active' = <<>> /\ Len(active') = 0 /\ blocked' = TRUE
      /\ (todo' = todo \/ Len(todo') = 0)
  BY Requeued, <1>1
<1>6. durable' <= Len(journal') /\ Segment(active, durable)'
  BY <1>1, <1>2, <1>3, <1>5, Lengths DEF InLine, Segment
<1>7. Segment(pending, durable + Len(active))'
  BY <1>3, <1>4, <1>5 DEF Segment
<1>8. Segment(todo, durable + Len(active) + Len(pending))'
  <2>1. durable' + Len(active') + Len(pending') = durable + Len(active) + Len(pending)
    BY <1>3, <1>4, <1>5
  <2>2. durable + Len(active) + Len(pending) <= Len(journal)
    BY <1>1, <1>2, <1>3, Lengths DEF InLine, Segment
  <2>3. CASE todo' = todo
    BY <1>2, <1>5, <2>1, <2>3 DEF InLine, Segment
  <2>4. CASE Len(todo') = 0
    <3>1. durable' + Len(active') + Len(pending') + Len(todo') <= Len(journal')
      <4>1. durable' + Len(active') + Len(pending') \in Nat
        BY <1>3, <2>1
      <4>2. Len(journal') = Len(journal)
        BY <1>5
      <4> QED
        BY <2>1, <2>2, <2>4, <4>1, <4>2
    <3> QED
      BY <2>4, <3>1 DEF Segment
  <2> QED
    BY <1>5, <2>3, <2>4
<1> QED
  BY <1>5, <1>6, <1>7, <1>8 DEF InLine

\* New events are put behind the journal and wait in todo.
LEMMA AcceptInLine ==
  ASSUME Types, Control, InLine, Live, NEW k \in 1..MaxBatch, Accept(k)
  PROVE  InLine'
<1> DEFINE events == [i \in 1..k |-> made + i]
<1>1. /\ k \in Nat /\ made + k <= MaxEvents /\ ~blocked /\ todo = <<>>
      /\ journal' = journal \o events /\ todo' = events /\ active' = active
      /\ pending' = pending /\ durable' = durable /\ blocked' = blocked
  BY DEF Accept, Control
<1>2. /\ Len(journal) \in Nat /\ Len(active) \in Nat /\ Len(pending) \in Nat
      /\ durable \in Nat /\ Len(todo) = 0
  BY <1>1, Lengths
<1>3. events \in Seq(Events) /\ Len(events) = k
  BY <1>1, Numbered DEF Types
<1> HIDE DEF events
<1>4. /\ Len(journal \o events) = Len(journal) + k
      /\ \A i \in 1..Len(journal) + k :
            (journal \o events)[i] = IF i <= Len(journal) THEN journal[i]
                                     ELSE events[i - Len(journal)]
  BY <1>3, Joined DEF Types
<1>5. Len(journal) = durable + Len(active) + Len(pending)
  BY <1>1, <1>2 DEF InLine
<1>6. Segment(active, durable)'
  <2>1. Segment(active, durable) /\ active \in Seq(Events) /\ durable \in Nat
    BY <1>2 DEF InLine, Types
  <2>2. /\ durable + Len(active) <= Len(journal \o events)
        /\ \A i \in 1..Len(active) : active[i] = (journal \o events)[durable + i]
    BY <1>3, <2>1, Longer
  <2> QED
    BY <1>1, <2>2 DEF Segment
<1>7. Segment(pending, durable + Len(active))'
  <2>1. Segment(pending, durable + Len(active)) /\ pending \in Seq(Events)
    BY DEF InLine, Types
  <2>2. durable + Len(active) \in Nat
    BY <1>2
  <2>3. /\ durable + Len(active) + Len(pending) <= Len(journal \o events)
        /\ \A i \in 1..Len(pending) :
              pending[i] = (journal \o events)[durable + Len(active) + i]
    BY <1>3, <2>1, <2>2, Longer
  <2> QED
    BY <1>1, <2>3 DEF Segment
<1>8. Segment(todo, durable + Len(active) + Len(pending))'
  <2>1. ASSUME NEW i \in 1..k PROVE (journal \o events)[Len(journal) + i] = events[i]
    <3>1. /\ Len(journal) + i \in 1..Len(journal) + k /\ ~(Len(journal) + i <= Len(journal))
          /\ (Len(journal) + i) - Len(journal) = i
      BY <1>1, <1>2
    <3> QED
      BY <1>4, <3>1
  <2>2. durable' + Len(active') + Len(pending') = Len(journal) /\ Len(todo') = k
    BY <1>1, <1>3, <1>5
  <2>3. Len(journal) + k <= Len(journal')
    BY <1>1, <1>2, <1>4
  <2>4. \A i \in 1..k : todo'[i] = journal'[Len(journal) + i]
    BY <1>1, <2>1
  <2> QED
    BY <2>2, <2>3, <2>4 DEF Segment
<1>9. durable' <= Len(journal') /\ Len(todo') = k /\ Len(journal') = Len(journal) + k
  BY <1>1, <1>2, <1>3, <1>4, <1>5
<1> QED
  BY <1>1, <1>2, <1>5, <1>6, <1>7, <1>8, <1>9 DEF InLine

\* The head of todo follows the end of pending.
LEMMA EnqueueInLine ==
  ASSUME Types, Control, InLine, Enqueue
  PROVE  InLine'
<1> DEFINE longer == Append(pending, Head(todo))
           rest == Tail(todo)
<1>1. /\ todo # <<>> /\ journal' = journal /\ durable' = durable /\ ~blocked
      /\ blocked' = blocked /\ todo' = rest
  BY DEF Enqueue
<1>2. \/ active = <<>> /\ active' = longer /\ pending' = <<>>
      \/ active' = active /\ pending' = longer
  BY DEF Enqueue, Control
<1>3. /\ Len(journal) \in Nat /\ Len(active) \in Nat /\ Len(pending) \in Nat
      /\ durable \in Nat
  BY Lengths
<1>4. /\ Head(todo) \in Events /\ Head(todo) = todo[1]
      /\ Len(todo) \in Nat \ {0} /\ Len(rest) = Len(todo) - 1
      /\ \A i \in 1..Len(rest) : rest[i] = todo[i + 1]
  BY <1>1, HeadAndTail DEF Types
<1>5. /\ Len(longer) = Len(pending) + 1
      /\ \A i \in 1..Len(pending) : longer[i] = pending[i]
      /\ longer[Len(pending) + 1] = todo[1]
  BY <1>4, OneMore DEF Types
<1> HIDE DEF longer, rest
<1> DEFINE n == durable + Len(active)
<1>6. /\ n \in Nat /\ n + Len(pending) + Len(todo) = Len(journal)
      /\ \A i \in 1..Len(pending) : pending[i] = journal[n + i]
      /\ \A i \in 1..Len(todo) : todo[i] = journal[n + Len(pending) + i]
  BY <1>1, <1>3, <1>4 DEF InLine, Segment
<1>7. durable <= Len(journal) /\ Segment(active, durable)
  BY DEF InLine
<1> HIDE DEF n
<1>8. Segment(longer, n)
  <2>1. todo[1] = journal[n + Len(pending) + 1]
    BY <1>4, <1>6
  <2>2. n + Len(longer) <= Len(journal)
    BY <1>3, <1>4, <1>5, <1>6
  <2>3. ASSUME NEW i \in 1..Len(longer) PROVE longer[i] = journal[n + i]
    <3>1. CASE i \in 1..Len(pending)
      BY <3>1, <1>5, <1>6
    <3>2. CASE i = Len(pending) + 1
      <4>1. n + i = n + Len(pending) + 1
        BY <3>2, <1>3, <1>6
      <4> QED
        BY <3>2, <4>1, <1>5, <2>1
    <3> QED
      BY <2>3, <3>1, <3>2, <1>3, <1>5
  <2> QED
    BY <2>2, <2>3 DEF Segment
<1>9. Segment(rest, n + Len(longer))
  <2>1. n + Len(longer) + Len(rest) <= Len(journal)
    BY <1>3, <1>4, <1>5, <1>6
  <2>2. ASSUME NEW i \in 1..Len(rest) PROVE rest[i] = journal[n + Len(longer) + i]
    <3>1. /\ i + 1 \in 1..Len(todo)
          /\ n + Len(pending) + (i + 1) = n + Len(longer) + i
      BY <1>3, <1>4, <1>5, <1>6
    <3> QED
      BY <1>4, <1>6, <3>1
  <2> QED
    BY <2>1, <2>2 DEF Segment
<1>10. Len(journal) = n + Len(longer) + Len(rest)
  BY SMTT(20), <1>3, <1>4, <1>5, <1>6
<1>11. CASE active = <<>> /\ active' = longer /\ pending' = <<>>
  <2>1. Len(active) = 0 /\ Len(pending') = 0 /\ n = durable
    BY <1>11, <1>3 DEF n
  <2>2. Segment(active, durable)' /\ durable' <= Len(journal')
    BY <1>1, <1>7, <1>8, <1>11, <2>1 DEF Segment
  <2>3. Segment(pending, durable + Len(active))'
    BY <1>1, <1>3, <1>8, <1>11, <2>1, <1>5 DEF Segment
  <2>4. durable' + Len(active') + Len(pending') = n + Len(longer)
    BY <1>1, <1>3, <1>5, <1>11, <2>1
  <2>5. Segment(todo, durable + Len(active) + Len(pending))'
    BY <1>1, <1>9, <2>4 DEF Segment
  <2> QED
    BY <1>1, <1>10, <2>2, <2>3, <2>4, <2>5 DEF InLine
<1>12. CASE active' = active /\ pending' = longer
  <2>1. Segment(active, durable)' /\ durable' <= Len(journal')
    BY <1>1, <1>7, <1>12 DEF Segment
  <2>2. durable' + Len(active') = n
    BY <1>1, <1>12 DEF n
  <2>3. Segment(pending, durable + Len(active))'
    BY <1>1, <1>8, <1>12, <2>2 DEF Segment
  <2>4. Segment(todo, durable + Len(active) + Len(pending))'
    BY <1>1, <1>9, <1>12, <2>2 DEF Segment
  <2> QED
    BY <1>1, <1>10, <1>12, <2>1, <2>2, <2>3, <2>4 DEF InLine
<1> QED
  BY <1>2, <1>11, <1>12

\* A segment may be handed on whole.
LEMMA MovedInLine ==
  ASSUME Types, Control, InLine, UNCHANGED <<journal, todo, blocked>>,
         \/ active' = <<>> /\ pending' = pending /\ durable' = durable + Len(active)
         \/ active = <<>> /\ active' = pending /\ pending' = <<>> /\ durable' = durable
         \/ UNCHANGED <<active, pending, durable>>
  PROVE  InLine'
<1>1. /\ Len(journal) \in Nat /\ Len(active) \in Nat /\ Len(pending) \in Nat
      /\ durable \in Nat /\ Len(<<>>) = 0
  BY Lengths
<1>2. CASE active' = <<>> /\ pending' = pending /\ durable' = durable + Len(active)
  BY <1>1, <1>2 DEF InLine, Segment
<1>3. CASE active = <<>> /\ active' = pending /\ pending' = <<>> /\ durable' = durable
  BY <1>1, <1>3 DEF InLine, Segment
<1>4. CASE UNCHANGED <<active, pending, durable>>
  BY <1>4 DEF InLine, Segment
<1> QED
  BY <1>2, <1>3, <1>4

\* Every step of a live session keeps durable events, batch, queue and
\* what is to be enqueued in the journal's order.
LEMMA StepInLine ==
  ASSUME IInv, Types', Live', [Next]_vars
  PROVE  InLine'
<1>1. Types /\ Flags /\ Control /\ (Live => InLine)
  BY TypesAre DEF IInv
<1>2. ASSUME NEW k \in 1..MaxBatch, Accept(k) PROVE InLine'
  <2>1. Live
    BY <1>2 DEF Accept
  <2> QED
    BY <1>1, <1>2, <2>1, AcceptInLine
<1>3. CASE Enqueue
  <2>1. Live
    BY <1>1, <1>3 DEF Enqueue, Control
  <2> QED
    BY <1>1, <1>3, <2>1, EnqueueInLine
<1>4. CASE Flush
  <2>1. /\ Live /\ UNCHANGED <<journal, todo, blocked>>
        /\ \/ active' = <<>> /\ pending' = pending /\ durable' = durable + Len(active)
           \/ active = <<>> /\ active' = pending /\ pending' = <<>> /\ durable' = durable
           \/ UNCHANGED <<active, pending, durable>>
    BY <1>1, <1>4 DEF Flush, Control
  <2> QED
    BY <1>1, <2>1, MovedInLine
<1>5. CASE Close
  <2>1. /\ Live /\ UNCHANGED <<journal, todo, blocked>>
        /\ \/ active' = <<>> /\ pending' = pending /\ durable' = durable + Len(active)
           \/ active = <<>> /\ active' = pending /\ pending' = <<>> /\ durable' = durable
           \/ UNCHANGED <<active, pending, durable>>
    BY <1>1, <1>5 DEF Close, Control
  <2> QED
    BY <1>1, <2>1, MovedInLine
<1>6. CASE DrainWrite
  <2>1. /\ Live /\ UNCHANGED <<journal, todo, blocked>>
        /\ \/ active' = <<>> /\ pending' = pending /\ durable' = durable + Len(active)
           \/ active = <<>> /\ active' = pending /\ pending' = <<>> /\ durable' = durable
           \/ UNCHANGED <<active, pending, durable>>
    BY <1>1, <1>6 DEF DrainWrite, Control
  <2> QED
    BY <1>1, <2>1, MovedInLine
<1>7. CASE Drained
  <2>1. /\ Live /\ UNCHANGED <<journal, todo, blocked>>
        /\ \/ active' = <<>> /\ pending' = pending /\ durable' = durable + Len(active)
           \/ active = <<>> /\ active' = pending /\ pending' = <<>> /\ durable' = durable
           \/ UNCHANGED <<active, pending, durable>>
    BY <1>1, <1>7 DEF Drained, Control
  <2> QED
    BY <1>1, <2>1, MovedInLine
<1>8. CASE WriteRow
  <2>1. /\ Live /\ UNCHANGED <<journal, todo, blocked>>
        /\ \/ active' = <<>> /\ pending' = pending /\ durable' = durable + Len(active)
           \/ active = <<>> /\ active' = pending /\ pending' = <<>> /\ durable' = durable
           \/ UNCHANGED <<active, pending, durable>>
    BY <1>1, <1>8 DEF WriteRow, Control
  <2> QED
    BY <1>1, <2>1, MovedInLine
<1>9. CASE Fsync
  <2>1. /\ Live /\ UNCHANGED <<journal, todo, blocked>>
        /\ \/ active' = <<>> /\ pending' = pending /\ durable' = durable + Len(active)
           \/ active = <<>> /\ active' = pending /\ pending' = <<>> /\ durable' = durable
           \/ UNCHANGED <<active, pending, durable>>
    BY <1>1, <1>9 DEF Fsync, Control
  <2> QED
    BY <1>1, <2>1, MovedInLine
<1>10. CASE Confirm
  <2>1. /\ Live /\ UNCHANGED <<journal, todo, blocked>>
        /\ \/ active' = <<>> /\ pending' = pending /\ durable' = durable + Len(active)
           \/ active = <<>> /\ active' = pending /\ pending' = <<>> /\ durable' = durable
           \/ UNCHANGED <<active, pending, durable>>
    BY <1>1, <1>10 DEF Confirm, Control
  <2> QED
    BY <1>1, <2>1, MovedInLine
<1>11. CASE TimerFires
  <2>1. /\ Live /\ UNCHANGED <<journal, todo, blocked>>
        /\ \/ active' = <<>> /\ pending' = pending /\ durable' = durable + Len(active)
           \/ active = <<>> /\ active' = pending /\ pending' = <<>> /\ durable' = durable
           \/ UNCHANGED <<active, pending, durable>>
    BY <1>1, <1>11 DEF TimerFires, Control
  <2> QED
    BY <1>1, <2>1, MovedInLine
<1>12. CASE LoseLease
  <2>1. /\ Live /\ UNCHANGED <<journal, todo, blocked>>
        /\ \/ active' = <<>> /\ pending' = pending /\ durable' = durable + Len(active)
           \/ active = <<>> /\ active' = pending /\ pending' = <<>> /\ durable' = durable
           \/ UNCHANGED <<active, pending, durable>>
    BY <1>1, <1>12 DEF LoseLease, Control
  <2> QED
    BY <1>1, <2>1, MovedInLine
<1>13. CASE EndAppend
  <2>1. Live /\ UNCHANGED <<journal, active, pending, durable, blocked>>
    BY <1>1, <1>13 DEF EndAppend, Control
  <2>2. todo' = <<>> /\ (todo = <<>> \/ blocked)
    BY <1>13 DEF EndAppend
  <2> QED
    BY <1>1, <2>1, <2>2, Lengths DEF InLine, Segment
<1>14. CASE CheckOwned
  <2>1. CASE owned
    <3>1. Live /\ UNCHANGED <<journal, todo, blocked, active, pending, durable>>
      BY <1>1, <1>14, <2>1 DEF CheckOwned, Control
    <3> QED
      BY <1>1, <3>1, MovedInLine
  <2>2. CASE ~owned
    <3>1. Live /\ WriteFailed /\ UNCHANGED <<journal, durable>>
      BY <1>1, <1>14, <2>2 DEF CheckOwned, Control
    <3> QED
      BY <3>1, FailedInLine
  <2> QED
    BY <2>1, <2>2
<1>15. CASE ConfirmFails
  <2>1. Live /\ WriteFailed /\ UNCHANGED <<journal, durable>>
    BY <1>1, <1>15 DEF ConfirmFails, Control
  <2> QED
    BY <2>1, FailedInLine
<1>16. CASE WriteError
  <2>1. Live /\ WriteFailed /\ UNCHANGED <<journal, durable>>
    BY <1>1, <1>16 DEF WriteError, Control
  <2> QED
    BY <2>1, FailedInLine
<1>17. CASE Crash
  BY <1>17 DEF Crash
<1>19. CASE Repair
  BY <1>19 DEF Repair
<1>20. CASE Open
  BY <1>20, Lengths DEF Open, InLine, Segment
<1>21. CASE UNCHANGED vars
  <2>1. Live /\ UNCHANGED <<journal, todo, blocked, active, pending, durable>>
    BY <1>21 DEF vars
  <2> QED
    BY <1>1, <2>1, MovedInLine
<1> QED
  BY <1>2, <1>3, <1>4, <1>5, <1>6, <1>7, <1>8, <1>9, <1>10, <1>11, <1>12, <1>13, <1>14, <1>15,
     <1>16, <1>17, <1>19, <1>20, <1>21 DEF Next, Work

\* What leaves the file and the writer alone leaves them where the write is: a
\* write that begins writes nothing yet, and a blocked queue asks for no position.
LEMMA SameWritten ==
  ASSUME Written, UNCHANGED <<journal, durable, file, torn, synced, position, taken>>,
         \/ UNCHANGED <<active, writing, blocked>>
         \/ writing = "no" /\ writing' = "check" /\ blocked' = blocked
         \/ blocked' = TRUE
  PROVE  Written'
  BY DEF Written, Segment

\* The check of the lease before a write leaves file and position alone.
LEMMA CheckWritten ==
  ASSUME Types, Control, Live => Written, CheckOwned
  PROVE  Written'
<1>1. /\ Live /\ Written /\ writing = "check" /\ ~blocked
      /\ UNCHANGED <<journal, durable, file, torn, synced, position, taken>>
  BY DEF CheckOwned, Control
<1>2. CASE blocked' = TRUE
  BY <1>1, <1>2, SameWritten
<1>3. CASE writing' = "write" /\ UNCHANGED <<active, blocked>>
  <2>1. position = durable /\ Len(file) = durable /\ ~torn
    BY <1>1 DEF Written
  <2>2. Segment(file, 0)'
    BY <1>1 DEF Written, Segment
  <2> QED
    BY <1>1, <1>3, <2>1, <2>2, Lengths DEF Written
<1> QED
  BY <1>2, <1>3 DEF CheckOwned

\* Every step of a live session keeps the file tied to the batch in the
\* write.
LEMMA StepWritten ==
  ASSUME IInv, Types', Live', [Next]_vars
  PROVE  Written'
<1>1. /\ Types /\ Flags /\ Control /\ Counted
      /\ Live => InLine /\ Written
  BY TypesAre DEF IInv
<1>2. ASSUME NEW k \in 1..MaxBatch, Accept(k) PROVE Written'
  <2>1. /\ Live /\ k \in Nat /\ made + k <= MaxEvents
        /\ journal' = journal \o [i \in 1..k |-> made + i]
        /\ UNCHANGED <<active, writing, position, durable, blocked, file, torn, synced, taken>>
    BY <1>2 DEF Accept
  <2>2. [i \in 1..k |-> made + i] \in Seq(Events)
    BY <1>1, <2>1, TypesAre, Numbered
  <2>3. Segment(file, 0) /\ file \in Seq(Events) /\ 0 \in Nat
    BY <1>1, <2>1 DEF Written, Types
  <2>4. Segment(file, 0)'
    <3>1. /\ 0 + Len(file) <= Len(journal')
          /\ \A i \in 1..Len(file) : file[i] = journal'[0 + i]
      BY ZenonT(40), <1>1, <2>1, <2>2, <2>3, Longer
    <3> QED
      BY <2>1, <3>1 DEF Segment
  <2> QED
    BY <1>1, <2>1, <2>4 DEF Written
<1>3. CASE WriteRow
  <2> DEFINE new == Append(file, active[Len(file) - position + 1])
  <2>1. Live /\ InLine /\ Written /\ ~blocked
    BY <1>1, <1>3 DEF WriteRow, Control
  <2>2. position = durable /\ durable <= Len(file) /\ Len(file) < durable + Len(active)
    BY <1>1, <1>3, <2>1, Lengths DEF WriteRow, Written
  <2>3. Len(file) - position + 1 \in 1..Len(active)
    BY <1>1, <2>2, Lengths
  <2>4. active[Len(file) - position + 1] \in Events
    BY <1>1, <2>3, ElementOfSeq DEF Types
  <2>5. /\ Len(new) = Len(file) + 1
        /\ \A i \in 1..Len(file) : new[i] = file[i]
        /\ new[Len(file) + 1] = active[Len(file) - position + 1]
    BY <1>1, <2>4, OneMore DEF Types
  <2> HIDE DEF new
  <2>6. active[Len(file) - position + 1] = journal[Len(file) + 1]
    <3>1. active[Len(file) - position + 1] = journal[durable + (Len(file) - position + 1)]
      BY <2>1, <2>3 DEF InLine, Segment
    <3>2. durable + (Len(file) - position + 1) = Len(file) + 1
      BY <1>1, <2>2, Lengths
    <3> QED
      BY <3>1, <3>2
  <2>7. Len(file) + 1 <= Len(journal)
    BY <1>1, <2>1, <2>2, Lengths DEF InLine, Segment
  <2>8. Segment(new, 0)
    <3>1. \A i \in 1..Len(file) : file[i] = journal[i]
      BY <1>1, <2>1, Lengths DEF Written, Segment
    <3>2. ASSUME NEW i \in 1..Len(new) PROVE new[i] = journal[0 + i]
      <4>1. i \in 1..Len(file) \/ i = Len(file) + 1
        <5>1. Len(file) \in Nat /\ i \in 1..(Len(file) + 1)
          BY <1>1, <2>5, Lengths
        <5> QED
          BY <5>1
      <4>2. CASE i \in 1..Len(file)
        BY <2>5, <3>1, <4>2
      <4>3. CASE i = Len(file) + 1
        BY <1>1, <2>5, <2>6, <4>3, Lengths
      <4> QED
        BY <4>1, <4>2, <4>3
    <3> QED
      BY <2>5, <2>7, <3>2 DEF Segment
  <2>9. /\ UNCHANGED <<journal, active, writing, position, durable, blocked, synced, taken>>
        /\ writing = "write"
        /\ \/ ~torn /\ torn' /\ file' = file
           \/ torn /\ ~torn' /\ file' = new
    BY <1>1, <1>3 DEF WriteRow, Flags, new
  <2>10. Segment(file, 0)'
    BY <2>1, <2>8, <2>9 DEF Written, Segment
  <2>11. Len(file') \in {Len(file), Len(file) + 1} /\ (torn' => file' = file)
    BY <2>5, <2>9
  <2> QED
    BY <1>1, <2>1, <2>2, <2>9, <2>10, <2>11, Lengths DEF Written
<1>4. CASE Fsync
  <2>1. /\ Live /\ Written /\ ~blocked /\ writing = "write" /\ writing' = "confirm"
        /\ Len(file) - position = Len(active) /\ position' = Len(file) /\ synced' = Len(file)
        /\ UNCHANGED <<journal, active, durable, blocked, file, torn, taken>>
    BY <1>1, <1>4 DEF Fsync, Control
  <2>2. position = durable
    BY <2>1 DEF Written
  <2>3. Len(file) = durable + Len(active)
    BY <1>1, <2>1, <2>2, Lengths
  <2>4. ~torn
    BY <1>1, <2>1, <2>3, Lengths DEF Written
  <2>5. Segment(file, 0)'
    BY <2>1 DEF Written, Segment
  <2> QED
    BY <1>1, <2>1, <2>2, <2>3, <2>4, <2>5, Lengths DEF Written
<1>5. CASE Confirm
  <2>1. /\ Live /\ Written /\ ~blocked /\ writing = "confirm" /\ writing' = "no"
        /\ durable' = durable + Len(active)
        /\ UNCHANGED <<journal, position, blocked, file, torn, synced, taken>>
    BY <1>1, <1>5 DEF Confirm, Control
  <2>2. /\ position = durable + Len(active) /\ Len(file) = position
        /\ synced = position /\ ~torn
    BY <2>1 DEF Written
  <2>3. Segment(file, 0)'
    BY <2>1 DEF Written, Segment
  <2> QED
    BY <1>1, <2>1, <2>2, <2>3, Lengths DEF Written
<1>6. CASE WriteError
  <2>1. /\ Live /\ Written /\ position = durable /\ blocked' = TRUE
        /\ UNCHANGED <<journal, durable, taken>>
    BY <1>1, <1>6 DEF WriteError, Control, Written
  <2>2. CASE UNCHANGED disk
    BY <2>1, <2>2 DEF Written, Segment
  <2>3. CASE file' = SubSeq(file, 1, position) /\ synced' = position
    <3>1. position \in 0..Len(file)
      BY <1>1, <2>1, Lengths DEF Written
    <3>2. Len(file') = position /\ \A i \in 1..position : file'[i] = file[i]
      BY <1>1, <2>3, <3>1, FirstRows DEF Types
    <3>3. Segment(file, 0)'
      <4>1. \A i \in 1..position : file[i] = journal[0 + i] /\ i \in 1..Len(file)
        BY <1>1, <2>1, <3>1, Lengths DEF Written, Segment
      <4>2. 0 + Len(file') <= Len(journal')
        BY <1>1, <2>1, <3>1, <3>2, Lengths DEF Written, Segment
      <4> QED
        BY <2>1, <3>2, <4>1, <4>2 DEF Segment
    <3>4. durable' = position
      BY <2>1
    <3> QED
      BY <1>1, <2>1, <2>3, <3>2, <3>3, <3>4, Lengths DEF Written
  <2> QED
    BY <1>6, <2>2, <2>3 DEF WriteError
<1>7. CASE Open
  <2>1. /\ journal' = file /\ file' = file /\ durable' = Len(file) /\ position' = Len(file)
        /\ synced' = synced /\ torn' = torn /\ ~torn /\ writing' = "no"
        /\ taken' = Len(file)
    BY <1>7 DEF Open
  <2>2. Segment(file, 0)'
    BY <1>1, <2>1, Lengths DEF Segment
  <2> QED
    BY <1>1, <2>1, <2>2, Lengths DEF Written
<1>8. CASE Flush
  BY <1>1, <1>8, SameWritten DEF Flush, Control
<1>9. CASE Close
  BY <1>1, <1>9, SameWritten DEF Close, Control
<1>10. CASE Drained
  BY <1>1, <1>10, SameWritten DEF Drained, Control
<1>11. CASE LoseLease
  BY <1>1, <1>11, SameWritten DEF LoseLease, Control
<1>12. CASE Enqueue
  BY <1>1, <1>12, SameWritten DEF Enqueue, Control
<1>13. CASE DrainWrite
  BY <1>1, <1>13, SameWritten DEF DrainWrite, Control
<1>14. CASE TimerFires
  BY <1>1, <1>14, SameWritten DEF TimerFires, Control
<1>15. CASE EndAppend
  BY <1>1, <1>15, SameWritten DEF EndAppend, Control
<1>16. CASE CheckOwned
  BY <1>1, <1>16, CheckWritten DEF CheckOwned, Control
<1>17. CASE ConfirmFails
  BY <1>1, <1>17, SameWritten DEF ConfirmFails, Control
<1>18. CASE Crash
  BY <1>18 DEF Crash
<1>20. CASE Repair
  BY <1>20 DEF Repair
<1>21. CASE UNCHANGED vars
  BY <1>1, <1>21, SameWritten DEF vars
<1> QED
  BY <1>2, <1>3, <1>4, <1>5, <1>6, <1>7, <1>8, <1>9, <1>10, <1>11, <1>12, <1>13, <1>14, <1>15,
     <1>16, <1>17, <1>18, <1>20, <1>21 DEF Next, Work

\* Only a power loss opens a gap, one that cuts rows the last opening has taken,
\* and a gap is never closed.
LEMMA GapStays ==
  ASSUME [Next]_vars, ~gap'
  PROVE  ~gap
<1>1. CASE Crash
  BY <1>1, Zenon DEF Crash
<1>2. CASE UNCHANGED gap
  BY <1>2, Zenon
<1>3. CASE ~Crash
  BY <1>2, <1>3, Zenon DEF Next, Work, Accept, Flush, Close, Enqueue, EndAppend, DrainWrite, Drained,
     CheckOwned, WriteRow, Fsync, Confirm, ConfirmFails, TimerFires, WriteError, LoseLease, Open,
     Repair, vars
<1> QED
  BY <1>1, <1>3

\* Every step keeps what was acknowledged on the part of the file that is
\* safe.
LEMMA StepAcked ==
  ASSUME IInv, ~gap', Types', [Next]_vars
  PROVE  Acked'
<1>1. /\ Types /\ Flags /\ Control /\ Acked
      /\ Live => InLine /\ Written
  BY GapStays, TypesAre DEF IInv
<1>2. CASE Drained
  <2>1. /\ Live /\ InLine /\ Written
        /\ UNCHANGED <<journal, durable, file, synced, taken>>
    BY <1>1, <1>2 DEF Drained, Control
  <2>2. CASE acked' = acked
    BY <1>1, <2>1, <2>2, Lengths DEF Acked
  <2>3. CASE acked' = journal /\ durable >= Len(journal)
    <3>1. /\ durable = Len(journal) /\ Len(file) = durable
          /\ durable <= synced \/ durable <= taken
      BY <1>1, <2>1, <2>3, Lengths DEF InLine, Written, Segment
    <3>2. \A i \in 1..Len(journal) : journal[i] = file[i]
      <4>1. \A i \in 1..Len(file) : file[i] = journal[i]
        BY <1>1, <2>1, Lengths DEF Written, Segment
      <4> QED
        BY <3>1, <4>1
    <3> QED
      BY <1>1, <2>1, <2>3, <3>1, <3>2, Lengths DEF Acked
  <2> QED
    BY <1>2, <2>2, <2>3 DEF Drained
<1>3. CASE WriteRow
  <2>1. Live /\ InLine /\ Written /\ ~blocked /\ writing = "write"
    BY <1>1, <1>3 DEF WriteRow, Control
  <2>2. Len(file) - position + 1 \in 1..Len(active)
    BY <1>1, <1>3, <2>1, Lengths DEF WriteRow, Written
  <2>3. active[Len(file) - position + 1] \in Events
    BY <1>1, <2>2, ElementOfSeq DEF Types
  <2>4. \A i \in 1..Len(file) : file'[i] = file[i]
    <3>1. \A i \in 1..Len(file) : Append(file, active[Len(file) - position + 1])[i] = file[i]
      BY <1>1, <2>3, OneMore DEF Types
    <3> QED
      BY <1>3, <3>1 DEF WriteRow
  <2>5. UNCHANGED <<acked, synced, durable, phase, taken>>
    BY <1>3 DEF WriteRow
  <2>6. \A i \in 1..Len(acked) : i \in 1..Len(file)
    BY <1>1, Lengths DEF Acked, Types
  <2>7. Len(file') = Len(file) \/ Len(file') = Len(file) + 1
    BY <1>1, <1>3, <2>3, OneMore DEF WriteRow, Types
  <2>8. Len(acked') <= Len(file')
    BY <1>1, <2>5, <2>7, Lengths DEF Acked
  <2> QED
    BY <1>1, <2>4, <2>5, <2>6, <2>8 DEF Acked
<1>4. CASE Fsync
  <2>1. synced' = Len(file) /\ UNCHANGED <<acked, file, durable, phase, taken>>
    BY <1>4 DEF Fsync
  <2> QED
    BY <1>1, <2>1, Lengths DEF Acked, Types
<1>5. CASE Confirm
  <2>1. durable' = durable + Len(active) /\ UNCHANGED <<acked, file, synced, phase, taken>>
    BY <1>5 DEF Confirm
  <2> QED
    BY <1>1, <2>1, Lengths DEF Acked
<1>6. CASE WriteError
  <2>1. /\ Live /\ Written /\ position = durable /\ UNCHANGED <<acked, durable, taken>>
        /\ Len(acked) <= durable
    BY <1>1, <1>6 DEF WriteError, Control, Written, Acked
  <2>2. CASE UNCHANGED disk
    BY <1>1, <2>1, <2>2 DEF Acked
  <2>3. CASE file' = SubSeq(file, 1, position) /\ synced' = position
    <3>1. position \in 0..Len(file)
      BY <1>1, <2>1, Lengths DEF Written
    <3>2. Len(file') = position /\ \A i \in 1..position : file'[i] = file[i]
      BY <1>1, <2>3, <3>1, FirstRows DEF Types
    <3>3. \A i \in 1..Len(acked) : i \in 1..position
      BY <1>1, <2>1, Lengths
    <3> QED
      BY <1>1, <2>1, <2>3, <3>2, <3>3 DEF Acked
  <2> QED
    BY <1>6, <2>2, <2>3 DEF WriteError
<1>7. CASE Crash
  <2>1. UNCHANGED <<acked, taken>> /\ phase' = "down"
    BY <1>7 DEF Crash
  <2>2. CASE UNCHANGED disk
    BY <1>1, <2>1, <2>2 DEF Acked
  <2>3. ASSUME NEW n \in synced..Len(file), file' = SubSeq(file, 1, n), synced' = n,
               gap' = (gap \/ n < taken)
        PROVE  Acked'
    <3>0. ~(n < taken)
      BY <2>3, Zenon
    <3>1. n \in 0..Len(file) /\ Len(acked) <= n
      BY <1>1, <3>0, Lengths DEF Acked
    <3>2. Len(file') = n /\ \A i \in 1..n : file'[i] = file[i]
      BY SMTT(20), <1>1, <2>3, <3>1, FirstRows DEF Types
    <3>3. \A i \in 1..Len(acked) : i \in 1..n
      BY <1>1, <3>1, Lengths
    <3> QED
      BY <1>1, <2>1, <2>3, <3>1, <3>2, <3>3 DEF Acked
  <2> QED
    BY <1>7, <2>2, <2>3 DEF Crash
<1>8. CASE Open
  <2>1. UNCHANGED <<acked, file, synced>> /\ durable' = Len(file) /\ taken' = Len(file)
    BY <1>8 DEF Open
  <2> QED
    BY <1>1, <2>1, Lengths DEF Acked, Types
<1>10. CASE Repair
  BY <1>1, <1>10, Lengths DEF Repair, Acked, Types
<1>11. ASSUME NEW k \in 1..MaxBatch, Accept(k) PROVE Acked'
  BY <1>1, <1>11 DEF Accept, Acked
<1>12. CASE Flush
  BY <1>1, <1>12 DEF Flush, Acked, Control
<1>13. CASE Close
  BY <1>1, <1>13 DEF Close, Acked, Control
<1>14. CASE Enqueue
  BY <1>1, <1>14 DEF Enqueue, Acked, Control
<1>15. CASE EndAppend
  BY <1>1, <1>15 DEF EndAppend, Acked, Control
<1>16. CASE DrainWrite
  BY <1>1, <1>16 DEF DrainWrite, Acked, Control
<1>17. CASE CheckOwned
  BY <1>1, <1>17 DEF CheckOwned, Acked, Control
<1>18. CASE ConfirmFails
  BY <1>1, <1>18 DEF ConfirmFails, Acked, Control
<1>19. CASE TimerFires
  BY <1>1, <1>19 DEF TimerFires, Acked, Control
<1>20. CASE LoseLease
  BY <1>1, <1>20 DEF LoseLease, Acked, Control
<1>21. CASE UNCHANGED vars
  BY <1>1, <1>21 DEF vars, Acked
<1> QED
  BY <1>2, <1>3, <1>4, <1>5, <1>6, <1>7, <1>8, <1>10, <1>11, <1>12, <1>13, <1>14, <1>15,
     <1>16, <1>17, <1>18, <1>19, <1>20, <1>21 DEF Next, Work

-----------------------------------------------------------------------------
\* Every step keeps the invariant.
LEMMA StepIInv == IInv /\ [Next]_vars => IInv'
<1> SUFFICES ASSUME IInv, [Next]_vars PROVE IInv'
  OBVIOUS
<1>1. Types /\ Flags /\ Control /\ Bounded
  BY TypesAre DEF IInv
<1>2. Types' /\ Flags' /\ Control' /\ Bounded'
  BY <1>1, TypesAre, StepTypes, StepFlags, StepControl, StepBounded
<1>3. TypeOK'
  <2>1. Types' /\ Flags' => TypeOK'
    BY TypesAre, PTL
  <2> QED
    BY <1>2, <2>1
<1>4. Counted' /\ (Live' => InLine' /\ Written') /\ (gap' \/ Acked')
  BY <1>2, StepCounted, StepInLine, StepWritten, StepAcked
<1> QED
  BY <1>2, <1>3, <1>4 DEF IInv

\* The invariant holds at every moment.
LEMMA Invariant == Spec => []IInv
  BY InitIInv, StepIInv, PTL DEF Spec

\* What follows the journal from its first event on is a prefix of it.
LEMMA FromTheStart ==
  ASSUME Types, NEW s \in Seq(Events), Segment(s, 0)
  PROVE  IsPrefix(s, journal) /\ (Len(s) = Len(journal) => s = journal)
<1>1. Len(s) \in Nat /\ Len(journal) \in Nat /\ journal \in Seq(Events)
  BY Lengths, LenProperties DEF Types
<1>2. Len(s) <= Len(journal) /\ \A i \in 1..Len(s) : s[i] = journal[i]
  BY <1>1 DEF Segment
<1>3. /\ SubSeq(s, 1, Len(s)) \in Seq(Events) /\ Len(SubSeq(s, 1, Len(s))) = Len(s)
      /\ \A i \in 1..Len(s) : SubSeq(s, 1, Len(s))[i] = s[i]
  BY <1>1, FirstRows
<1>4. /\ SubSeq(journal, 1, Len(s)) \in Seq(Events)
      /\ Len(SubSeq(journal, 1, Len(s))) = Len(s)
      /\ \A i \in 1..Len(s) : SubSeq(journal, 1, Len(s))[i] = journal[i]
  BY <1>1, <1>2, FirstRows
<1>5. SubSeq(s, 1, Len(s)) = SubSeq(journal, 1, Len(s))
  BY <1>2, <1>3, <1>4, SeqEqual
<1>6. Len(s) = Len(journal) => s = journal
  BY <1>1, <1>2, SeqEqual
<1> QED
  BY <1>2, <1>5, <1>6 DEF IsPrefix

\* For every size of the queue and of the batches, and however often the process
\* dies: while a session is live, each accepted event is durable, in the write,
\* queued or still to be enqueued, in the order of acceptance and never twice
\* (Accounted; the queue of SessionWriteBehind, coordinator.ts and storage.ts).
THEOREM EventsAreAccounted == Spec => []Accounted
<1>1. ASSUME IInv PROVE Accounted
  <2>1. TypeOK /\ Types /\ BoundedQueue
    BY <1>1, TypesAre DEF IInv, Bounded, BoundedQueue
  <2>2. ASSUME Live
        PROVE  /\ IsPrefix(SubSeq(journal, 1, durable) \o active \o pending \o todo, journal)
               /\ blocked \/ SubSeq(journal, 1, durable) \o active \o pending \o todo = journal
               /\ IsPrefix(file, journal)
               /\ durable <= Len(file)
    <3>1. InLine /\ Written
      BY <1>1, <2>2 DEF IInv
    <3>2. /\ Len(journal) \in Nat /\ Len(active) \in Nat /\ Len(pending) \in Nat
          /\ Len(todo) \in Nat /\ durable \in Nat
          /\ active \in Seq(Events) /\ pending \in Seq(Events) /\ todo \in Seq(Events)
          /\ file \in Seq(Events) /\ journal \in Seq(Events)
      BY <2>1, Lengths DEF Types
    <3> DEFINE a == SubSeq(journal, 1, durable)
               b == a \o active
               c == b \o pending
               d == c \o todo
    <3>3. a \in Seq(Events) /\ Len(a) = durable /\ Segment(a, 0)
      <4>1. durable \in 0..Len(journal)
        BY <3>1, <3>2 DEF InLine
      <4>2. /\ a \in Seq(Events) /\ Len(a) = durable
            /\ \A i \in 1..durable : a[i] = journal[i]
        BY <3>2, <4>1, FirstRows
      <4> HIDE DEF a
      <4> QED
        BY <3>2, <4>1, <4>2 DEF Segment
    <3> HIDE DEF a
    <3>4. b \in Seq(Events) /\ Len(b) = durable + Len(active) /\ Segment(b, 0)
      <4>1. 0 + Len(a) = durable /\ Segment(active, durable)
        BY <3>1, <3>2, <3>3 DEF InLine
      <4>2. Segment(b, 0)
        BY <2>1, <3>2, <3>3, <4>1, Spliced
      <4>3. b \in Seq(Events) /\ Len(b) = Len(a) + Len(active)
        BY <3>2, <3>3, Joined
      <4> QED
        BY <3>2, <3>3, <4>2, <4>3
    <3> HIDE DEF b
    <3>5. /\ c \in Seq(Events) /\ Len(c) = durable + Len(active) + Len(pending)
          /\ Segment(c, 0)
      <4>1. 0 + Len(b) = durable + Len(active) /\ Segment(pending, durable + Len(active))
        BY <3>1, <3>2, <3>4 DEF InLine
      <4>2. Segment(c, 0)
        BY <2>1, <3>2, <3>4, <4>1, Spliced
      <4>3. c \in Seq(Events) /\ Len(c) = Len(b) + Len(pending)
        BY <3>2, <3>4, Joined
      <4> QED
        BY <3>4, <4>2, <4>3
    <3> HIDE DEF c
    <3>6. /\ d \in Seq(Events)
          /\ Len(d) = durable + Len(active) + Len(pending) + Len(todo)
          /\ Segment(d, 0)
      <4>1. /\ 0 + Len(c) = durable + Len(active) + Len(pending)
            /\ Segment(todo, durable + Len(active) + Len(pending))
        BY <3>1, <3>2, <3>5 DEF InLine
      <4>2. Segment(d, 0)
        BY <2>1, <3>2, <3>5, <4>1, Spliced
      <4>3. d \in Seq(Events) /\ Len(d) = Len(c) + Len(todo)
        BY <3>2, <3>5, Joined
      <4> QED
        BY <3>5, <4>2, <4>3
    <3> HIDE DEF d
    <3>7. IsPrefix(d, journal) /\ (blocked \/ d = journal)
      <4>1. ~blocked => Len(d) = Len(journal)
        BY <3>1, <3>6 DEF InLine
      <4> QED
        BY <2>1, <3>6, <4>1, FromTheStart
    <3>8. IsPrefix(file, journal) /\ durable <= Len(file)
      BY <2>1, <3>1, <3>2, FromTheStart DEF Written
    <3> QED
      BY <3>7, <3>8 DEF a, b, c, d
  <2> QED
    BY <2>1, <2>2 DEF Accounted
<1> QED
  BY <1>1, Invariant, PTL

\* What a flush or a close has reported durable is in the file for good, through
\* every failure, truncation, crash, repair and opening, covered by an fsync or
\* taken over by the last opening; only a power loss that cuts rows which an opening
\* has taken over before the disk had them can undo it (AckedKept).
THEOREM AckedIsKept == Spec => []AckedKept
<1>1. ASSUME IInv, ~gap
      PROVE  IsPrefix(acked, file) /\ (Len(acked) <= synced \/ Len(acked) <= taken)
  <2>1. Types /\ Acked
    BY <1>1, TypesAre DEF IInv
  <2>2. /\ acked \in Seq(Events) /\ file \in Seq(Events) /\ Len(acked) \in Nat
        /\ Len(file) \in Nat /\ Len(acked) <= Len(file)
    BY <2>1, Lengths DEF Types, Acked
  <2>3. Len(acked) \in 0..Len(file) /\ Len(acked) \in 0..Len(acked)
    BY <2>2
  <2>4. /\ SubSeq(acked, 1, Len(acked)) \in Seq(Events)
        /\ Len(SubSeq(acked, 1, Len(acked))) = Len(acked)
        /\ \A i \in 1..Len(acked) : SubSeq(acked, 1, Len(acked))[i] = acked[i]
    BY <2>2, <2>3, FirstRows
  <2>5. /\ SubSeq(file, 1, Len(acked)) \in Seq(Events)
        /\ Len(SubSeq(file, 1, Len(acked))) = Len(acked)
        /\ \A i \in 1..Len(acked) : SubSeq(file, 1, Len(acked))[i] = file[i]
    BY <2>2, <2>3, FirstRows
  <2>6. \A i \in 1..Len(acked) : acked[i] = file[i]
    BY <2>1 DEF Acked
  <2>7. SubSeq(acked, 1, Len(acked)) = SubSeq(file, 1, Len(acked))
    BY <2>4, <2>5, <2>6, SeqEqual
  <2>8. Len(acked) <= synced \/ Len(acked) <= taken
    BY <2>1 DEF Acked
  <2> QED
    BY <2>2, <2>7, <2>8 DEF IsPrefix
<1>2. IInv => AckedKept
  BY <1>1 DEF AckedKept
<1> QED
  BY <1>2, Invariant, PTL
=============================================================================
