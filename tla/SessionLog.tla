----------------------------- MODULE SessionLog ------------------------------
(***************************************************************************)
(* The path of a session event from append to the disk, and back after a   *)
(* crash.                                                                  *)
(*                                                                         *)
(*   SessionHandle (session-persistence/src/session.ts) runs one call at a *)
(*     time in its mutation lane, accepts events into the journal and      *)
(*     hands them to the coordinator;                                      *)
(*   SessionPersistenceCoordinator with SessionWriteBehind (coordinator.ts,*)
(*     write-behind.ts) queues them, writes them in batches, by timer or   *)
(*     under a barrier, and blocks for good at the first failure;          *)
(*   the storage handle with JsonlSessionWriter (session-persistence-jsonl,*)
(*     storage.ts, jsonl-writer.ts) checks the lease, writes the rows,     *)
(*     fsyncs them, and truncates the file when that fails;                *)
(*   open and repairTornJsonlSession (storage.ts, jsonl-reader.ts,         *)
(*     repair.ts) read the file back, and refuse or repair a torn row.     *)
(*                                                                         *)
(* An event is the number of its acceptance; its seq is its position in    *)
(* the journal.  Sizes are counted in events, never in bytes.  The lease   *)
(* is one bit here, and WriterLease says how far that bit can be trusted.  *)
(***************************************************************************)
EXTENDS Naturals, Sequences, SequencesExt

CONSTANTS
    MaxQueue,   \* SessionWriteBehindOptions.maxEvents
    MaxBatch,   \* bound: events of one appendMany
    MaxEvents,  \* bound: events accepted over all openings
    MaxCrashes  \* bound: process deaths

ASSUME QueueAssumption == MaxQueue \in Nat \ {0}
ASSUME BoundAssumption ==
    MaxBatch \in Nat /\ MaxEvents \in Nat /\ MaxCrashes \in Nat

VARIABLES
    \* the live session
    phase,      \* "open", "closing", "closed", or "down" after a crash
    journal,    \* the accepted events of SessionJournal
    lane,       \* the call that runs in the mutation lane
    todo,       \* accepted events it has still to enqueue
    owned,      \* does the lock still name this writer?
    \* the write-behind queue
    pending, active, timer, barrier,
    blocked,    \* #blocked of the queue; the same fault blocks handle and storage
    durable,    \* durableSeq + 1
    \* the storage handle and its writer
    writing,    \* where the write of the active batch is
    position,   \* JsonlSessionWriter.#position, in rows
    \* the disk
    file, torn, \* the whole rows, and whether part of another one follows
    synced,     \* how many rows are on the disk for certain
    \* history, for the properties
    made, crashes,
    acked,      \* the journal of the last flush or close that reported success
    taken,      \* how many rows the last opening found in the file
    gap         \* has a power loss cut rows that an opening had taken?

queue == <<pending, active, timer, barrier, blocked, durable>>
disk == <<file, torn, synced>>
past == <<acked, taken, gap>>
vars == <<phase, journal, lane, todo, owned, queue, writing, position, disk,
          made, crashes, past>>

Live == phase \in {"open", "closing"}

\* A handle over these rows, which SessionStore.bind takes for durable.
Fresh(rows) ==
    /\ journal' = rows /\ durable' = Len(rows) /\ position' = Len(rows)
    /\ lane' = "idle" /\ todo' = <<>> /\ owned' = TRUE
    /\ pending' = <<>> /\ active' = <<>> /\ writing' = "no"
    /\ timer' = FALSE /\ barrier' = FALSE /\ blocked' = FALSE

\* create has published the header and nothing is accepted yet.
Init ==
    /\ phase = "open" /\ journal = <<>> /\ durable = 0 /\ position = 0
    /\ lane = "idle" /\ todo = <<>> /\ owned = TRUE
    /\ pending = <<>> /\ active = <<>> /\ writing = "no"
    /\ timer = FALSE /\ barrier = FALSE /\ blocked = FALSE
    /\ file = <<>> /\ torn = FALSE /\ synced = 0
    /\ made = 0 /\ crashes = 0 /\ acked = <<>> /\ taken = 0 /\ gap = FALSE

(***************************************************************************)
(* The mutation lane.  A call that finds the handle closed or blocked, or  *)
(* the lease lost, throws and changes nothing.                             *)
(***************************************************************************)
Ready == phase = "open" /\ lane = "idle"

\* append and appendMany: the events are accepted at once, enqueued one by one.
Accept(k) ==
    LET events == [i \in 1..k |-> made + i] IN
    /\ Ready /\ ~blocked /\ owned
    /\ made + k <= MaxEvents
    /\ made' = made + k
    /\ journal' = journal \o events
    /\ todo' = events
    /\ lane' = "append"
    /\ UNCHANGED <<phase, owned, queue, writing, position, disk, crashes, past>>

\* flush raises the barrier and cancels the timer.
Flush ==
    /\ Ready /\ ~blocked
    /\ lane' = "flush"
    /\ barrier' = TRUE /\ timer' = FALSE
    /\ UNCHANGED <<phase, journal, todo, owned, pending, active, blocked, durable,
                   writing, position, disk, made, crashes, past>>

\* close flushes too, and goes on when that fails; a blocked queue fails at once.
\* The coordinator's second flush can only repeat what the first one did.
Close ==
    /\ Ready
    /\ phase' = IF blocked THEN "closed" ELSE "closing"
    /\ lane' = IF blocked THEN "idle" ELSE "close"
    /\ barrier' = ~blocked /\ timer' = FALSE
    /\ UNCHANGED <<journal, todo, owned, pending, active, blocked, durable,
                   writing, position, disk, made, crashes, past>>

(***************************************************************************)
(* SessionWriteBehind.                                                     *)
(***************************************************************************)
StartWrite(events) ==
    /\ active' = events
    /\ pending' = <<>>
    /\ writing' = "check"

\* enqueue and waitForCapacity: an event arms the timer, or, when it fills the
\* queue, starts a write and makes the producer wait behind a barrier.
Enqueue ==
    LET longer == Append(pending, Head(todo))
        full == Len(longer) + Len(active) >= MaxQueue IN
    /\ lane = "append" /\ todo # <<>> /\ ~barrier /\ ~blocked
    /\ todo' = Tail(todo)
    /\ IF Len(longer) >= MaxQueue /\ writing = "no"
       THEN StartWrite(longer)
       ELSE pending' = longer /\ UNCHANGED <<active, writing>>
    /\ timer' = (~full /\ (timer \/ writing = "no"))
    /\ barrier' = full
    /\ UNCHANGED <<phase, journal, lane, owned, blocked, durable, position, disk,
                   made, crashes, past>>

\* The call ends with its last event, or because a write that ran meanwhile has
\* failed: enqueue throws, and what is left of the call is never enqueued.
EndAppend ==
    /\ lane = "append" /\ ~barrier
    /\ todo = <<>> \/ blocked
    /\ lane' = "idle" /\ todo' = <<>>
    /\ UNCHANGED <<phase, journal, owned, queue, writing, position, disk,
                   made, crashes, past>>

\* The timer starts a background write; a write in flight makes it do nothing,
\* because that write arms it again.
TimerFires ==
    /\ timer
    /\ timer' = FALSE
    /\ IF writing = "no" /\ pending # <<>> /\ ~barrier /\ ~blocked
       THEN StartWrite(pending)
       ELSE UNCHANGED <<pending, active, writing>>
    /\ UNCHANGED <<phase, journal, lane, todo, owned, barrier, blocked, durable,
                   position, disk, made, crashes, past>>

\* Behind the barrier the queue is written until it is empty.
DrainWrite ==
    /\ barrier /\ writing = "no" /\ pending # <<>>
    /\ StartWrite(pending)
    /\ UNCHANGED <<phase, journal, lane, todo, owned, timer, barrier, blocked,
                   durable, position, disk, made, crashes, past>>

\* The drained call goes on.  flush and close succeed if the lock is still ours
\* and the durable prefix reaches the journal's end.
Drained ==
    /\ barrier /\ writing = "no" /\ pending = <<>>
    /\ barrier' = FALSE
    /\ lane' = IF lane = "append" THEN "append" ELSE "idle"
    /\ phase' = IF lane = "close" THEN "closed" ELSE phase
    /\ acked' = IF lane # "append" /\ owned /\ durable >= Len(journal)
                THEN journal ELSE acked
    /\ UNCHANGED <<journal, todo, owned, pending, active, timer, blocked, durable,
                   writing, position, disk, made, crashes, taken, gap>>

(* Mutant of WriteFailed: the failed batch goes behind what came in since. *)
WriteFailedBehind ==
    /\ pending' = pending \o active /\ active' = <<>> /\ writing' = "no"
    /\ blocked' = TRUE
    /\ barrier' = FALSE
    /\ lane' = IF barrier THEN "idle" ELSE lane
    /\ todo' = IF barrier THEN <<>> ELSE todo
    /\ phase' = IF barrier /\ lane = "close" THEN "closed" ELSE phase

\* A failed write: the batch goes back in front of the queue, the queue blocks
\* for good, and the call behind the barrier fails.
WriteFailed ==
    /\ pending' = active \o pending /\ active' = <<>> /\ writing' = "no"
    /\ blocked' = TRUE
    /\ barrier' = FALSE
    /\ lane' = IF barrier THEN "idle" ELSE lane
    /\ todo' = IF barrier THEN <<>> ELSE todo
    /\ phase' = IF barrier /\ lane = "close" THEN "closed" ELSE phase

(***************************************************************************)
(* The storage handle's append and flush, and JsonlSessionWriter.append.   *)
(***************************************************************************)
CheckOwned ==
    /\ writing = "check"
    /\ IF owned
       THEN writing' = "write" /\ UNCHANGED <<phase, lane, todo, pending, active, barrier, blocked>>
       ELSE WriteFailed
    /\ UNCHANGED <<journal, owned, timer, durable, position, disk, made, crashes, past>>

\* A row reaches the file in two parts, so that it can be cut.
WriteRow ==
    LET written == Len(file) - position IN
    /\ writing = "write" /\ written < Len(active)
    /\ torn' = ~torn
    /\ file' = IF torn THEN Append(file, active[written + 1]) ELSE file
    /\ UNCHANGED <<phase, journal, lane, todo, owned, queue, writing, position, synced,
                   made, crashes, past>>

(* Mutant of Fsync: the rows are left to the system. *)
FsyncLater ==
    /\ writing = "write" /\ Len(file) - position = Len(active)
    /\ position' = Len(file)
    /\ writing' = "confirm"
    /\ UNCHANGED <<phase, journal, lane, todo, owned, queue, file, torn, synced,
                   made, crashes, past>>

Fsync ==
    /\ writing = "write" /\ Len(file) - position = Len(active)
    /\ synced' = Len(file)
    /\ position' = Len(file)
    /\ writing' = "confirm"
    /\ UNCHANGED <<phase, journal, lane, todo, owned, queue, file, torn,
                   made, crashes, past>>

\* A write or fsync error: the file is cut back and fsynced, or that fails too
\* and the writer is corrupt.
WriteError ==
    /\ writing = "write"
    /\ \/ /\ file' = SubSeq(file, 1, position)
          /\ torn' = FALSE
          /\ synced' = position
       \/ UNCHANGED disk
    /\ WriteFailed
    /\ UNCHANGED <<journal, owned, timer, durable, position, made, crashes, past>>

(* Mutant of Confirm: the timer is not armed for what came in meanwhile. *)
ConfirmOnce ==
    /\ writing = "confirm" /\ owned
    /\ durable' = durable + Len(active)
    /\ active' = <<>> /\ writing' = "no"
    /\ UNCHANGED <<phase, journal, lane, todo, owned, pending, timer, barrier, blocked,
                   position, disk, made, crashes, past>>

\* driver.flush asks for the lease once more.  Then the prefix is durable, and
\* the timer is armed for what has come in since.
Confirm ==
    /\ writing = "confirm" /\ owned
    /\ durable' = durable + Len(active)
    /\ active' = <<>> /\ writing' = "no"
    /\ timer' = (timer \/ pending # <<>>)
    /\ UNCHANGED <<phase, journal, lane, todo, owned, pending, barrier, blocked,
                   position, disk, made, crashes, past>>

\* The rows are on the disk and the call fails all the same: the lock is lost, or
\* the file cannot be examined.
ConfirmFails ==
    /\ writing = "confirm"
    /\ WriteFailed
    /\ UNCHANGED <<journal, owned, timer, durable, position, disk, made, crashes, past>>

LoseLease ==
    /\ Live /\ owned
    /\ owned' = FALSE
    /\ UNCHANGED <<phase, journal, lane, todo, queue, writing, position, disk,
                   made, crashes, past>>

(***************************************************************************)
(* The process dies and the file keeps what was written, or the machine    *)
(* stops and rows no fsync has covered are lost from the end of the file,  *)
(* perhaps in the middle of one.                                           *)
(***************************************************************************)
Crash ==
    /\ crashes < MaxCrashes
    /\ crashes' = crashes + 1
    /\ phase' = "down"
    /\ \/ Live /\ UNCHANGED <<disk, gap>>
       \/ \E n \in synced..Len(file) :
             /\ file' = SubSeq(file, 1, n)
             /\ torn' \in {FALSE, torn \/ n < Len(file)}
             /\ synced' = n
             /\ gap' = (gap \/ n < taken)
    /\ Fresh(<<>>)
    /\ UNCHANGED <<made, acked, taken>>

\* open reads the rows and refuses a torn one.  It does not fsync what it reads,
\* and takes all of it for durable.
Open ==
    /\ ~Live /\ ~torn
    /\ phase' = "open"
    /\ Fresh(file)
    /\ taken' = Len(file)
    /\ UNCHANGED <<disk, made, crashes, acked, gap>>

\* repairTornJsonlSession publishes the whole rows in a new, fsynced file.
Repair ==
    /\ ~Live /\ torn
    /\ torn' = FALSE
    /\ synced' = Len(file)
    /\ UNCHANGED <<phase, journal, lane, todo, owned, queue, writing, position, file,
                   made, crashes, past>>

Work ==
    \/ Enqueue \/ EndAppend \/ DrainWrite \/ Drained
    \/ CheckOwned \/ WriteRow \/ Fsync \/ Confirm \/ ConfirmFails

Next ==
    \/ \E k \in 1..MaxBatch : Accept(k)
    \/ Flush \/ Close
    \/ Work \/ TimerFires
    \/ WriteError \/ LoseLease
    \/ Crash \/ Open \/ Repair

\* The event loop runs what is ready and fires its timers, and file calls return.
\* Nobody has to call flush, and no write has to fail.
Spec == Init /\ [][Next]_vars /\ WF_vars(Work) /\ WF_vars(TimerFires)

(***************************************************************************)
(* Properties.                                                             *)
(***************************************************************************)
Events == 1..MaxEvents

TypeOK ==
    /\ phase \in {"open", "closing", "closed", "down"}
    /\ lane \in {"idle", "append", "flush", "close"}
    /\ writing \in {"no", "check", "write", "confirm"}
    /\ {journal, todo, pending, active, file, acked} \subseteq Seq(Events)
    /\ {owned, timer, barrier, blocked, torn, gap} \subseteq BOOLEAN
    /\ durable \in 0..MaxEvents /\ position \in 0..MaxEvents
    /\ synced \in 0..Len(file)
    /\ made \in 0..MaxEvents /\ taken \in 0..MaxEvents /\ crashes \in 0..MaxCrashes

\* A slow disk cannot pile up events: the producer waits at the queue's limit.
BoundedQueue == Len(pending) + Len(active) <= MaxQueue

\* While a session is live, each accepted event is durable, in the write, queued
\* or still to be enqueued, in the order of acceptance and never twice, also
\* after a failure, which keeps its batch; and the file never holds anything but
\* a prefix of what was accepted.  The variables have their types, and queue and write
\* together keep to the queue's limit.
Accounted ==
    /\ TypeOK /\ BoundedQueue
    /\ Live => /\ IsPrefix(SubSeq(journal, 1, durable) \o active \o pending \o todo, journal)
               /\ blocked \/ SubSeq(journal, 1, durable) \o active \o pending \o todo = journal
               /\ IsPrefix(file, journal)
               /\ durable <= Len(file)

\* What a flush or a close has reported durable is in the file and on the disk:
\* flush "may return successfully only after all accepted events satisfy the
\* platform durability contract" (section 11 of the session format specification).
AckedSurvives == IsPrefix(acked, SubSeq(file, 1, synced))

\* What the code ensures of that: reported events were covered by an fsync or are
\* rows the last opening found, and they stay in the file through every failure,
\* truncation, crash, repair and opening, unless a power loss strikes rows that
\* an opening has found and no fsync has covered.
AckedKept ==
    ~gap => /\ IsPrefix(acked, file)
            /\ Len(acked) <= synced \/ Len(acked) <= taken

\* Every accepted event becomes durable without anybody calling flush, unless
\* the writer blocks or the session is closed or dies.
EventuallyDurable ==
    \A n \in Events :
        phase = "open" /\ Len(journal) >= n ~> durable >= n \/ blocked \/ phase # "open"

=============================================================================
