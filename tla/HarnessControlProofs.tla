-------------------------- MODULE HarnessControlProofs -------------------------
(***************************************************************************)
(* What the control of the harnesses promises, for any number of harnesses,*)
(* calls and generations: a lease is on a mounted generation whose users   *)
(* are counted, a selection that was acknowledged stays in the log, only a *)
(* fault of the disk blocks a harness, and a lease is given on what the    *)
(* log says.                                                               *)
(***************************************************************************)
EXTENDS HarnessControl, FiniteSetTheorems, SequenceTheorems, TLAPS

Running == life \in {"up", "closing"}
At(c, places) == call[c].at \in places
Nobody(place) == \A c \in Callers : call[c].at # place

\* The call that is past the gate is the gate's head, and none is when it closes.
Gated ==
    /\ \A c \in Callers : At(c, {"writing", "written", "retrying", "checking"}) => HasGate(c)
    /\ ~Running => gate = <<>>

\* Which generation a call is about, and what that is while it is being mounted.
Mounting ==
    /\ \A c \in Callers : ~At(c, {"idle", "asking", "retrying", "checking"}) => call[c].on \in Gens
    /\ \A c \in Callers : call[c].at = "mounting" => gen[call[c].on].state = "mounting"
    /\ \A c, d \in Callers :
          call[c].at = "mounting" /\ call[d].at = "mounting" /\ call[c].on = call[d].on => c = d

\* Before the rows are read nothing is selected, mounted or prepared.
Unread == life = "down" \/ boot = "open" \/ star = "locked"
Empty ==
    /\ Unread =>
        /\ records = <<>> /\ cands = {} /\ ~failure
        /\ \A h \in Harnesses : current[h] = None
        /\ \A g \in Gens : gen[g].state \in {"none", "gone"}
        /\ \A c \in Callers : At(c, {"idle", "asking", "retrying"})
    /\ life = "down" =>
        /\ boot = "done" /\ star = "no" /\ lock # "mine"
        /\ \A c \in Callers : call[c].at = "idle"

\* initialize() runs at startup, or for the call that holds the gate.
BootAlone ==
    boot # "done" =>
        /\ Running
        /\ \A c \in Callers : At(c, {"idle", "mounting", "authorizing", "queued", "dropping",
                                     "asking", "retrying"})
        /\ \/ \E c \in Callers : call[c].at = "retrying"
           \/ life = "up" /\ cands = {} /\ \A c \in Callers : call[c].at = "idle"
        /\ boot # "open" => star = "no"
        /\ boot = "load" => ~failure

\* Whoever has read the rows has the store, until it is closed.
LockMine ==
    /\ Running /\ ~Unread => lock = "mine"
    /\ \A c \in Callers : call[c].at = "checking" => star = "no" /\ boot = "done"

\* The process knows the rows of the log, except for the one it is writing.
SameLog ==
    /\ lock = "mine" /\ ~failure /\ Nobody("written") => records = log
    /\ \A c \in Callers : call[c].at = "written" =>
          ~failure /\ log = Append(records, RowOf(call[c].on, FALSE))

\* What is being written is a candidate that may still be selected.
WritingOK ==
    \A c \in Callers : At(c, {"writing", "written"}) =>
        /\ call[c].on \in cands /\ Valid(call[c].on)

\* Each harness with rows has a last one; each row is about a generation of its own.
HasLast(s) == \A h \in Harnesses : Rows(s, h) # {} =>
    \E i \in Rows(s, h) : \A j \in Rows(s, h) : j <= i
RowsOK ==
    /\ HasLast(log) /\ HasLast(records)
    /\ \A g \in Gens : Recorded(records, g) => Recorded(log, g)
    /\ \A i, j \in DOMAIN log : log[i].gen = log[j].gen => i = j
    /\ \A i \in DOMAIN log :
          /\ gen[log[i].gen].state \notin {"none", "mounting"}
          /\ gen[log[i].gen].state # "gone" => gen[log[i].gen].of = log[i].of
          /\ boot = "load" => gen[log[i].gen].state \in {"gone", "current"}

\* The selected generation is the one of the last row.
Selected ==
    /\ \A h \in Harnesses : current[h] # None =>
          /\ gen[current[h]].state = "current" /\ gen[current[h]].of = h
          /\ Rows(records, h) # {}
          /\ LastRow(records, h).gen = current[h]
          /\ LastRow(records, h).rev = gen[current[h]].exp + 1
    /\ \A g \in Gens : gen[g].state = "current" => current[gen[g].of] = g

CandOK ==
    \A g \in cands :
        /\ gen[g].state \notin {"none", "mounting"}
        /\ Running => gen[g].state = "ready"
        /\ Recorded(log, g) => g \in unsure \/ \E c \in Callers : call[c].at = "written" /\ call[c].on = g

\* A discarded candidate is none any more, and its row is not in the log.
OutOfUse(g) == g \notin cands /\ gen[g].state \notin {"none", "mounting"}
               /\ (Recorded(log, g) => g \in unsure)
DropOK ==
    /\ \A g \in dropped : OutOfUse(g)
    /\ \A c \in Callers : call[c].at = "dropped" => OutOfUse(call[c].on)

\* What was acknowledged is in the log.
Answered == \A g \in done : Recorded(log, g)

UsersOK ==
    \A g \in Gens :
          /\ IsFiniteSet(Users(g)) /\ gen[g].users = Cardinality(Users(g))
          /\ gen[g].state = "retired" => gen[g].users > 0
          /\ Users(g) # {} => gen[g].state \in {"current", "retired"} /\ lock = "mine"

IInv ==
    /\ TypeOK /\ Gated /\ Mounting /\ Empty /\ BootAlone /\ LockMine /\ SameLog
    /\ WritingOK /\ RowsOK /\ Selected /\ CandOK /\ DropOK /\ UsersOK
    /\ Answered
    /\ OnlyFaultsBlock
-----------------------------------------------------------------------------
USE HarnessAssumption
USE DEF disk, memory, mounts, states, process, history, Harnesses, Gens, None

Places3 == {"granted", "holding", "releasing"}
CallType == [at : Places, on : Gens \cup {None}, of : Harnesses, aborted : BOOLEAN]
GenType == [of : Harnesses, exp : Nat, src : Nat, state : States, users : Nat]

(***************************************************************************)
(* What a step does to one call, to one generation, to the gate and to the *)
(* rows.                                                                   *)
(***************************************************************************)
Others(c) == \A d \in Callers : d # c => call'[d] = call[d]
OtherGens(g) == \A f \in Gens : f # g => gen'[f] = gen[f]

\* A call that goes on to its next await keeps its harness, generation and
\* abort; the other calls keep everything.
LEMMA GotoIs ==
  ASSUME TypeOK, NEW c \in Callers, NEW place \in Places, Goto(c, place)
  PROVE  /\ call' \in [Callers -> CallType] /\ Others(c)
         /\ call'[c].at = place /\ call'[c].on = call[c].on /\ call'[c].of = call[c].of
         /\ call'[c].aborted = call[c].aborted
  BY DEF TypeOK, Goto, CallType, Others

\* A call that begins is at its first await, with the harness and
\* generation it asks for.
LEMMA BeginIs ==
  ASSUME TypeOK, NEW c \in Callers, NEW place \in Places, NEW g \in Gens \cup {None},
         NEW h \in Harnesses, Begin(c, place, g, h)
  PROVE  /\ call' \in [Callers -> CallType] /\ Others(c)
         /\ call'[c].at = place /\ call'[c].on = g /\ call'[c].of = h
  BY DEF TypeOK, Begin, CallType, Others

\* A call that returns is idle again; the other calls keep everything.
LEMMA EndIs ==
  ASSUME TypeOK, NEW c \in Callers, End(c)
  PROVE  call' \in [Callers -> CallType] /\ Others(c) /\ call'[c].at = "idle"
  BY DEF TypeOK, End, Idle, CallType, Places, Others

\* A call that was not behind the gate may leave it to the next one.
LEMMA LeaveGate ==
  ASSUME TypeOK, NEW c \in Callers, HasGate(c), Leave
  PROVE  gate' \in Seq(Callers)
  BY HeadTailProperties DEF TypeOK, HasGate, Leave

\* Who joins the gate's queue takes the gate from nobody.
LEMMA JoinGate ==
  ASSUME TypeOK, NEW c \in Callers, Enqueue(c)
  PROVE  gate' \in Seq(Callers) /\ \A d \in Callers : HasGate(d) => HasGate(d)'
<1>0. gate \in Seq(Callers) /\ gate' = Append(gate, c)
  BY DEF TypeOK, Enqueue
<1>1. gate' \in Seq(Callers) /\ gate' # <<>> /\ Len(gate') = Len(gate) + 1
      /\ Len(gate) \in Nat /\ \A i \in 1..Len(gate) : gate'[i] = gate[i]
  BY <1>0, AppendProperties, LenProperties
<1>2. gate # <<>> => Len(gate) \in Nat \ {0} /\ Head(gate) = gate[1] /\ Head(gate') = gate'[1]
  BY <1>1, EmptySeq DEF TypeOK
<1> QED
  BY <1>1, <1>2 DEF HasGate

\* A generation that changes its state keeps its harness, revision and
\* users.
LEMMA StateIs ==
  ASSUME NEW G \in [Gens -> GenType], NEW g \in Gens, NEW s \in States
  PROVE  /\ [G EXCEPT ![g].state = s] \in [Gens -> GenType]
         /\ \A f \in Gens : f # g => [G EXCEPT ![g].state = s][f] = G[f]
         /\ \A f \in Gens : /\ [G EXCEPT ![g].state = s][f].of = G[f].of
                            /\ [G EXCEPT ![g].state = s][f].exp = G[f].exp
                            /\ [G EXCEPT ![g].state = s][f].users = G[f].users
         /\ [G EXCEPT ![g].state = s][g].state = s
  BY DEF GenType

\* retire(): a generation without users goes to cleanup at once, any other
\* waits.
LEMMA RetireIs ==
  ASSUME NEW G \in [Gens -> GenType], NEW g \in Gens
  PROVE  /\ Retire(G, g) \in [Gens -> GenType]
         /\ \A f \in Gens : f # g => Retire(G, g)[f] = G[f]
         /\ Retire(G, g)[g].of = G[g].of /\ Retire(G, g)[g].exp = G[g].exp
         /\ Retire(G, g)[g].users = G[g].users
         /\ Retire(G, g)[g].state = IF G[g].users = 0 THEN "cleaning" ELSE "retired"
  BY DEF Retire, Collect, GenType, States

\* #collect(): only a retired generation without users goes to cleanup.
LEMMA CollectIs ==
  ASSUME NEW G \in [Gens -> GenType], NEW g \in Gens
  PROVE  /\ Collect(G, g) \in [Gens -> GenType]
         /\ \A f \in Gens : f # g => Collect(G, g)[f] = G[f]
         /\ Collect(G, g)[g].of = G[g].of /\ Collect(G, g)[g].exp = G[g].exp
         /\ Collect(G, g)[g].users = G[g].users
         /\ Collect(G, g)[g].state = IF G[g].state = "retired" /\ G[g].users = 0
                                     THEN "cleaning" ELSE G[g].state
  BY DEF Collect, GenType, States

\* The end of a use takes one user from its generation, and cleans it up
\* when it was the last of a retired one.
LEMMA LeaveUseIs ==
  ASSUME TypeOK, NEW g \in Gens, gen[g].users > 0, gen' = LeaveUse(gen, g)
  PROVE  /\ gen' \in [Gens -> GenType] /\ OtherGens(g)
         /\ gen'[g].of = gen[g].of /\ gen'[g].exp = gen[g].exp
         /\ gen'[g].users = gen[g].users - 1
         /\ gen'[g].state = IF gen[g].state = "retired" /\ gen[g].users = 1
                            THEN "cleaning" ELSE gen[g].state
<1> DEFINE G == [gen EXCEPT ![g].users = @ - 1]
<1>1. /\ G \in [Gens -> GenType] /\ \A f \in Gens : f # g => G[f] = gen[f]
      /\ G[g].of = gen[g].of /\ G[g].exp = gen[g].exp /\ G[g].state = gen[g].state
      /\ G[g].users = gen[g].users - 1
  <2>1. gen \in [Gens -> GenType] /\ gen[g].users - 1 \in Nat
    BY DEF TypeOK, GenType
  <2> QED
    BY <2>1 DEF GenType
<1>2. gen' = Collect(G, g)
  BY DEF LeaveUse
<1> HIDE DEF G
<1>3. gen[g].users - 1 = 0 <=> gen[g].users = 1
  BY DEF TypeOK
<1>4. /\ Collect(G, g) \in [Gens -> GenType]
      /\ \A f \in Gens : f # g => Collect(G, g)[f] = G[f]
      /\ Collect(G, g)[g].of = G[g].of /\ Collect(G, g)[g].exp = G[g].exp
      /\ Collect(G, g)[g].users = G[g].users
      /\ Collect(G, g)[g].state = IF G[g].state = "retired" /\ G[g].users = 0
                                  THEN "cleaning" ELSE G[g].state
  BY <1>1, CollectIs
<1> QED
  BY <1>1, <1>2, <1>3, <1>4 DEF OtherGens

\* A longer log: its last rows, and the generations in it.
LEMMA LongerLog ==
  ASSUME NEW s \in Seq(Row), HasLast(s), NEW r \in Row
  PROVE  /\ Append(s, r) \in Seq(Row) /\ HasLast(Append(s, r))
         /\ \A g \in Gens : Recorded(Append(s, r), g) <=> Recorded(s, g) \/ r.gen = g
         /\ \A h \in Harnesses : h # r.of =>
               /\ Rows(Append(s, r), h) = Rows(s, h)
               /\ Rows(s, h) # {} => LastRow(Append(s, r), h) = LastRow(s, h)
         /\ Rows(Append(s, r), r.of) # {} /\ LastRow(Append(s, r), r.of) = r
<1> DEFINE t == Append(s, r)
<1>1. /\ t \in Seq(Row) /\ Len(s) \in Nat /\ Len(t) = Len(s) + 1
      /\ DOMAIN s = 1..Len(s) /\ DOMAIN t = 1..Len(s) + 1
      /\ \A i \in 1..Len(s) : t[i] = s[i]
      /\ t[Len(s) + 1] = r
  BY AppendProperties, LenProperties
<1> HIDE DEF t
<1>2. ASSUME NEW g \in Gens PROVE Recorded(t, g) <=> Recorded(s, g) \/ r.gen = g
  <2>1. \A i \in DOMAIN t : i \in DOMAIN s \/ i = Len(s) + 1
    BY <1>1
  <2> QED
    BY <1>1, <2>1 DEF Recorded
<1>3. ASSUME NEW h \in Harnesses, h # r.of PROVE Rows(t, h) = Rows(s, h)
  BY <1>1, <1>3 DEF Rows
<1>4. ASSUME NEW h \in Harnesses, h # r.of, Rows(s, h) # {}
      PROVE  LastRow(t, h) = LastRow(s, h)
  <2> DEFINE last == CHOOSE i \in Rows(s, h) : \A j \in Rows(s, h) : j <= i
  <2>1. last \in Rows(s, h)
    BY <1>4 DEF HasLast
  <2>2. LastRow(s, h) = s[last] /\ LastRow(t, h) = t[last]
    BY <1>3, <1>4 DEF LastRow
  <2> QED
    BY <1>1, <2>1, <2>2 DEF Rows
<1>5. /\ Len(s) + 1 \in Rows(t, r.of)
      /\ \A j \in Rows(t, r.of) : j \in Nat /\ j <= Len(s) + 1
  BY <1>1 DEF Rows
<1>6. LastRow(t, r.of) = r
  <2> DEFINE last == CHOOSE i \in Rows(t, r.of) : \A j \in Rows(t, r.of) : j <= i
  <2>1. last \in Rows(t, r.of) /\ \A j \in Rows(t, r.of) : j <= last
    BY <1>5
  <2>2. last = Len(s) + 1
    <3> HIDE DEF last
    <3> QED
      BY <1>1, <1>5, <2>1
  <2> QED
    BY <1>1, <2>2 DEF LastRow
<1>7. HasLast(t)
  <2> SUFFICES ASSUME NEW h \in Harnesses, Rows(t, h) # {}
               PROVE  \E i \in Rows(t, h) : \A j \in Rows(t, h) : j <= i
    BY DEF HasLast
  <2>1. CASE h = r.of
    BY <1>5, <2>1
  <2>2. CASE h # r.of
    BY <1>3, <2>2 DEF HasLast
  <2> QED
    BY <2>1, <2>2
<1> QED
  BY <1>1, <1>2, <1>3, <1>4, <1>5, <1>6, <1>7 DEF t

\* A harness's last row is a row of the log about that harness, and its
\* revision is the harness's.
LEMMA LastIs ==
  ASSUME NEW s \in Seq(Row), HasLast(s), NEW h \in Harnesses
  PROVE  /\ Rev(s, h) \in Nat
         /\ Rows(s, h) # {} =>
              /\ LastRow(s, h) \in Row /\ LastRow(s, h).of = h
              /\ \E i \in DOMAIN s : LastRow(s, h) = s[i]
              /\ Rev(s, h) = LastRow(s, h).rev
<1>1. ASSUME Rows(s, h) # {}
      PROVE  /\ LastRow(s, h) \in Row /\ LastRow(s, h).of = h
             /\ \E i \in DOMAIN s : LastRow(s, h) = s[i]
  <2> DEFINE last == CHOOSE i \in Rows(s, h) : \A j \in Rows(s, h) : j <= i
  <2>1. last \in Rows(s, h)
    BY <1>1 DEF HasLast
  <2>2. last \in DOMAIN s /\ s[last].of = h
    BY <2>1 DEF Rows
  <2>3. s[last] \in Row
    BY <2>2, ElementOfSeq, LenProperties
  <2> QED
    BY <2>2, <2>3 DEF LastRow
<1>2. CASE Rows(s, h) = {}
  BY <1>2 DEF Rev
<1>3. CASE Rows(s, h) # {}
  BY <1>1, <1>3 DEF Rev, Row
<1> QED
  BY <1>1, <1>2, <1>3

-----------------------------------------------------------------------------
(***************************************************************************)
(* The invariant is kept, action by action.                                *)
(***************************************************************************)
Leased(c) == call[c].at \in {"granted", "holding", "releasing"}

\* The types, one value at a time.
Typed ==
    /\ \A c \in Callers : /\ call[c].at \in Places /\ call[c].on \in Gens \cup {None}
                          /\ call[c].of \in Harnesses
    /\ \A g \in Gens : /\ gen[g].of \in Harnesses /\ gen[g].exp \in Nat
                       /\ gen[g].state \in States /\ gen[g].users \in Nat
    /\ \A h \in Harnesses : current[h] \in Gens \cup {None}
    /\ \A i \in DOMAIN log : log[i].gen \in Gens /\ log[i].of \in Harnesses /\ log[i].rev \in Nat
    /\ cands \subseteq Gens /\ dropped \subseteq Gens /\ done \subseteq Gens

\* The types, one variable's field at a time.
LEMMA TypesAre == TypeOK => Typed
<1> SUFFICES ASSUME TypeOK PROVE Typed
  OBVIOUS
<1>1. \A i \in DOMAIN log : log[i] \in Row
  BY ElementOfSeq, LenProperties DEF TypeOK
<1> QED
  BY <1>1 DEF TypeOK, Typed, Row

\* One row more.
LEMMA RowAdded ==
  ASSUME NEW s \in Seq(Row), NEW r \in Row, NEW t, t = Append(s, r)
  PROVE  /\ DOMAIN t = 1..Len(s) + 1 /\ DOMAIN s = 1..Len(s) /\ Len(s) \in Nat
         /\ \A i \in DOMAIN s : t[i] = s[i]
         /\ t[Len(s) + 1] = r
         /\ \A i \in DOMAIN t : i \in DOMAIN s \/ i = Len(s) + 1
<1>1. /\ t \in Seq(Row) /\ Len(s) \in Nat /\ Len(t) = Len(s) + 1
      /\ DOMAIN s = 1..Len(s) /\ DOMAIN t = 1..Len(t)
      /\ \A i \in 1..Len(s) : t[i] = s[i]
      /\ t[Len(s) + 1] = r
  BY AppendProperties, LenProperties
<1> QED
  BY <1>1

\* A row about a generation that had none leaves the generations of the
\* rows distinct.
LEMMA StillUnique ==
  ASSUME NEW s \in Seq(Row), NEW r \in Row, NEW t, t = Append(s, r),
         \A i, j \in DOMAIN s : s[i].gen = s[j].gen => i = j, ~Recorded(s, r.gen)
  PROVE  \A i, j \in DOMAIN t : t[i].gen = t[j].gen => i = j
<1>1. /\ \A i \in DOMAIN s : t[i] = s[i]
      /\ t[Len(s) + 1] = r
      /\ \A i \in DOMAIN t : i \in DOMAIN s \/ i = Len(s) + 1
  BY RowAdded
<1>2. \A i \in DOMAIN s : s[i].gen # r.gen
  BY DEF Recorded
<1> SUFFICES ASSUME NEW i \in DOMAIN t, NEW j \in DOMAIN t, t[i].gen = t[j].gen
             PROVE  i = j
  OBVIOUS
<1>3. CASE i \in DOMAIN s /\ j \in DOMAIN s
  <2>1. s[i].gen = s[j].gen
    BY <1>1, <1>3
  <2> QED
    BY <1>3, <2>1
<1>4. CASE i \in DOMAIN s /\ j = Len(s) + 1
  BY <1>1, <1>2, <1>4
<1>5. CASE i = Len(s) + 1 /\ j \in DOMAIN s
  BY <1>1, <1>2, <1>5
<1> QED
  BY <1>1, <1>3, <1>4, <1>5

\* The row that an activation writes names its generation, harness and the
\* next revision.
LEMMA RowIs ==
  ASSUME Typed, NEW g \in Gens
  PROVE  /\ RowOf(g, FALSE) \in Row /\ RowOf(g, FALSE).gen = g
         /\ RowOf(g, FALSE).of = gen[g].of /\ RowOf(g, FALSE).rev = gen[g].exp + 1
<1>1. gen[g].of \in Harnesses /\ gen[g].exp \in Nat
  BY DEF Typed
<1>2. gen[g].exp + 1 \in Nat \ {0}
  BY <1>1
<1> QED
  BY <1>1, <1>2 DEF RowOf, Row

\* A call that neither gets nor gives up a lease changes the users of no
\* generation.
LEMMA UsersStay ==
  ASSUME NEW c \in Callers, Others(c), Leased(c)' <=> Leased(c),
         Leased(c) => call'[c].on = call[c].on
  PROVE  \A g \in Gens : Users(g)' = Users(g)
  BY DEF Users, Others, Leased

\* The count of users stays right where users stay and no generation in
\* use leaves the states that may be used.
LEMMA UsersKept ==
  ASSUME UsersOK, lock' = lock \/ lock' = "mine",
         \A g \in Gens :
            /\ gen'[g].users = gen[g].users /\ Users(g)' = Users(g)
            /\ gen'[g].state = "retired" => gen[g].state = "retired" \/ gen[g].users > 0
            /\ gen[g].users > 0 /\ gen[g].state \in {"current", "retired"} =>
                  gen'[g].state \in {"current", "retired"}
  PROVE  UsersOK'
<1> SUFFICES ASSUME NEW g \in Gens
             PROVE  /\ IsFiniteSet(Users(g)') /\ gen'[g].users = Cardinality(Users(g)')
                    /\ gen'[g].state = "retired" => gen'[g].users > 0
                    /\ Users(g)' # {} => gen'[g].state \in {"current", "retired"} /\ lock' = "mine"
  BY DEF UsersOK
<1>1. /\ IsFiniteSet(Users(g)) /\ gen[g].users = Cardinality(Users(g))
      /\ gen[g].state = "retired" => gen[g].users > 0
      /\ Users(g) # {} => gen[g].state \in {"current", "retired"} /\ lock = "mine"
  BY DEF UsersOK
<1>2. Users(g) # {} => gen[g].users > 0
  <2>1. Cardinality(Users(g)) \in Nat /\ (Cardinality(Users(g)) = 0 <=> Users(g) = {})
    BY <1>1, FS_EmptySet, FS_CardinalityType
  <2> QED
    BY <1>1, <2>1
<1> QED
  BY <1>1, <1>2

\* A generation that is neither current nor retired has no users.
LEMMA NoUsers ==
  ASSUME UsersOK, NEW g \in Gens, gen[g].state \notin {"current", "retired"}
  PROVE  Users(g) = {} /\ gen[g].users = 0
  BY FS_EmptySet DEF UsersOK

(***************************************************************************)
(* Parts of the invariant that a step keeps because it does little.        *)
(***************************************************************************)
LEMMA SameLogKept ==
  ASSUME SameLog, UNCHANGED <<log, records, lock, failure>>,
         \A d \in Callers : call'[d].at = "written" <=> call[d].at = "written",
         \A d \in Callers : call[d].at = "written" =>
            /\ call'[d].on = call[d].on
            /\ gen'[call[d].on].of = gen[call[d].on].of
            /\ gen'[call[d].on].exp = gen[call[d].on].exp
  PROVE  SameLog'
  BY DEF SameLog, Nobody, RowOf

\* What is being written may still be selected, when the records stay and
\* the writers keep their candidates.
LEMMA WritingKept ==
  ASSUME WritingOK, records' = records,
         \A d \in Callers : At(d, {"writing", "written"})' =>
            /\ At(d, {"writing", "written"}) /\ call'[d].on = call[d].on
            /\ call[d].on \in cands => call[d].on \in cands'
            /\ call[d].on \in cands => /\ gen'[call[d].on].of = gen[call[d].on].of
                                       /\ gen'[call[d].on].exp = gen[call[d].on].exp
  PROVE  WritingOK'
  BY DEF WritingOK, Valid, At

\* The candidates stay as they should be when none is added, and neither
\* their states nor the rows change.
LEMMA CandKept ==
  ASSUME CandOK, UNCHANGED <<log, unsure>>, Running' => Running, cands' \subseteq cands,
         \A g \in cands' : gen'[g].state = gen[g].state,
         \A d \in Callers : call[d].at = "written" =>
            call'[d].at = "written" /\ call'[d].on = call[d].on
  PROVE  CandOK'
<1> SUFFICES ASSUME NEW g \in cands'
             PROVE  /\ gen'[g].state \notin {"none", "mounting"}
                    /\ Running' => gen'[g].state = "ready"
                    /\ Recorded(log', g) => \/ g \in unsure'
                                            \/ \E c \in Callers : call'[c].at = "written" /\ call'[c].on = g
  BY DEF CandOK
<1> QED
  BY DEF CandOK

\* What was or is being discarded stays out of use when no candidate comes
\* back.
LEMMA DropKept ==
  ASSUME DropOK, Typed, Mounting, UNCHANGED <<log, unsure, dropped>>,
         \A g \in cands' : g \in cands \/ gen[g].state = "mounting",
         \A g \in Gens : gen[g].state \notin {"none", "mounting"} =>
                         gen'[g].state \notin {"none", "mounting"},
         \A d \in Callers : call'[d].at = "dropped" =>
                         call[d].at = "dropped" /\ call'[d].on = call[d].on
  PROVE  DropOK'
<1>1. \A g \in Gens : OutOfUse(g) => OutOfUse(g)'
  BY DEF OutOfUse
<1>2. \A d \in Callers : call[d].at = "dropped" => call[d].on \in Gens
  BY DEF Mounting, At
<1> QED
  BY <1>1, <1>2 DEF DropOK, Typed

\* The rows stay as they should be when no generation of theirs is
\* forgotten or mounted again.
LEMMA RowsKept ==
  ASSUME RowsOK, Typed, UNCHANGED <<log, records>>, boot' = "load" => boot = "load",
         \A g \in Gens : gen[g].state \notin {"none", "mounting"} =>
            /\ gen'[g].state \notin {"none", "mounting"}
            /\ gen'[g].state # "gone" => gen[g].state # "gone" /\ gen'[g].of = gen[g].of
            /\ boot = "load" /\ gen[g].state \in {"gone", "current"} =>
                  gen'[g].state \in {"gone", "current"}
  PROVE  RowsOK'
  BY DEF RowsOK, Typed

\* Selection and rows go on to agree when neither changes and the current
\* generations stay current.
LEMMA SelectedKept ==
  ASSUME Selected, Typed, UNCHANGED <<records, current>>,
         \A g \in Gens : /\ gen'[g].state = "current" <=> gen[g].state = "current"
                         /\ gen[g].state = "current" => /\ gen'[g].of = gen[g].of
                                                        /\ gen'[g].exp = gen[g].exp
  PROVE  Selected'
<1>1. ASSUME NEW h \in Harnesses, current'[h] # None
      PROVE  /\ gen'[current'[h]].state = "current" /\ gen'[current'[h]].of = h
             /\ Rows(records', h) # {}
             /\ LastRow(records', h).gen = current'[h]
             /\ LastRow(records', h).rev = gen'[current'[h]].exp + 1
  <2>1. current' = current /\ records' = records /\ current[h] \in Gens
    BY <1>1 DEF Typed
  <2>2. /\ gen[current[h]].state = "current" /\ gen[current[h]].of = h
        /\ Rows(records, h) # {}
        /\ LastRow(records, h).gen = current[h]
        /\ LastRow(records, h).rev = gen[current[h]].exp + 1
    BY <1>1, <2>1 DEF Selected
  <2>3. /\ gen'[current[h]].state = "current" /\ gen'[current[h]].of = h
        /\ gen'[current[h]].exp = gen[current[h]].exp
    BY <2>1, <2>2
  <2> QED
    BY <2>1, <2>2, <2>3
<1>2. ASSUME NEW g \in Gens, gen'[g].state = "current"
      PROVE  current'[gen'[g].of] = g
  BY <1>2 DEF Selected
<1> QED
  BY <1>1, <1>2 DEF Selected

\* The start of a process keeps the invariant.
LEMMA StepStart ==
  ASSUME IInv, Start
  PROVE  IInv'
<1>0. /\ TypeOK /\ Gated /\ Mounting /\ Empty /\ BootAlone /\ LockMine /\ SameLog
      /\ WritingOK /\ RowsOK /\ Selected /\ CandOK /\ DropOK /\ UsersOK
      /\ Answered /\ OnlyFaultsBlock /\ Typed
  BY TypesAre DEF IInv
<1>do. /\ life = "down" /\ life' = "up" /\ boot' = "open" /\ starts' \in 0..MaxStarts
       /\ UNCHANGED <<log, lock, records, failure, gen, current, cands, blocked, star,
                       gate, call, done, dropped, unsure, faulted>>
  BY <1>0 DEF Start, TypeOK
<1>1. TypeOK'
  BY <1>0, <1>do DEF TypeOK, CallType, GenType
<1>2. Gated'
  BY <1>0, <1>do DEF Gated, HasGate, At, Running
<1>3. Mounting'
  BY <1>0, <1>do DEF Mounting, At, Typed
<1>4. Empty'
  BY <1>0, <1>do DEF Empty, Unread, At
<1>5. BootAlone'
  BY <1>0, <1>do DEF BootAlone, Running, At, Empty, Unread
<1>6. LockMine'
  BY <1>0, <1>do DEF LockMine, Unread, Running, Empty
<1>7. SameLog'
  BY <1>0, <1>do DEF SameLog, Nobody, RowOf
<1>8. WritingOK'
  BY <1>0, <1>do DEF WritingOK, Valid, At
<1>9. RowsOK'
  BY <1>0, <1>do DEF RowsOK, Typed
<1>10. Selected'
  BY <1>0, <1>do DEF Selected, Typed
<1>11. CandOK'
  BY <1>0, <1>do DEF CandOK, Running, Typed, Empty, Unread
<1>12. DropOK'
  BY <1>0, <1>do DEF DropOK, OutOfUse, Typed
<1>13. UsersOK'
  BY <1>0, <1>do DEF UsersOK, Users
<1>14. Answered'
  BY <1>0, <1>do DEF Answered
<1>15. OnlyFaultsBlock'
  BY <1>0, <1>do DEF OnlyFaultsBlock
<1> QED
  BY <1>1, <1>2, <1>3, <1>4, <1>5, <1>6, <1>7, <1>8,
     <1>9, <1>10, <1>11, <1>12, <1>13, <1>14, <1>15 DEF IInv

\* The beginning of prepare keeps the invariant.
LEMMA StepPrepare ==
  ASSUME IInv, NEW c \in Callers, NEW h \in Harnesses, NEW g \in Gens, Prepare(c, h, g)
  PROVE  IInv'
<1>0. /\ TypeOK /\ Gated /\ Mounting /\ Empty /\ BootAlone /\ LockMine /\ SameLog
      /\ WritingOK /\ RowsOK /\ Selected /\ CandOK /\ DropOK /\ UsersOK
      /\ Answered /\ OnlyFaultsBlock /\ Typed
  BY TypesAre DEF IInv
<1>do. /\ call[c].at = "idle" /\ life = "up" /\ Started /\ ~Unread /\ gen[g].state = "none"
       /\ UNCHANGED <<log, lock, records, failure, current, cands, blocked, star, life,
                       boot, gate, starts, done, dropped, unsure, faulted>>
  <2>1. /\ call[c].at = "idle" /\ life = "up" /\ Started /\ HasBaseline(h) /\ gen[g].state = "none"
        /\ UNCHANGED <<log, lock, records, failure, current, cands, blocked, star, life,
                       boot, gate, starts, done, dropped, unsure, faulted>>
    BY DEF Prepare, Accepting, IsNext, Unused
  <2>2. records # <<>>
    BY <2>1 DEF HasBaseline, Rows
  <2> QED
    BY <1>0, <2>1, <2>2 DEF Empty
<1>call. Others(c) /\ call'[c].at = "mounting" /\ call'[c].on = g
  BY <1>0, BeginIs DEF Prepare, Places
<1>gen. OtherGens(g) /\ gen'[g].state = "mounting" /\ gen'[g].users = 0
  BY <1>0 DEF Prepare, TypeOK, OtherGens
<1>types. call' \in [Callers -> CallType] /\ gen' \in [Gens -> GenType]
  <2>1. Rev(records, h) \in Nat /\ Rev(records, "main") \in Nat
    BY <1>0, LastIs DEF TypeOK, RowsOK
  <2>2. call' \in [Callers -> CallType]
    BY <1>0, BeginIs DEF Prepare, Places
  <2>3. gen' \in [Gens -> GenType]
    BY <1>0, <2>1 DEF Prepare, TypeOK, GenType, States
  <2> QED
    BY <2>2, <2>3
<1>cands. \A f \in cands : gen'[f] = gen[f]
  BY <1>0, <1>do, <1>gen DEF OtherGens, CandOK, Typed
<1>run. Running' <=> Running
  BY <1>do DEF Running
<1>1. TypeOK'
  BY <1>0, <1>do, <1>types DEF TypeOK, CallType, GenType
<1>2. Gated'
  BY <1>0, <1>do, <1>call DEF Gated, HasGate, At, Running, Others
<1>3. Mounting'
  <2>1. \A d \in Callers : d # c /\ call[d].at = "mounting" => call[d].on # g
    BY <1>0, <1>do DEF Mounting
  <2>2. \A d \in Callers : call'[d].at = "mounting" => gen'[call'[d].on].state = "mounting"
    BY <1>0, <1>call, <1>gen, <2>1 DEF Mounting, Others, OtherGens, At, Places
  <2>3. \A d, e \in Callers : call'[d].at = "mounting" /\ call'[e].at = "mounting"
           /\ call'[d].on = call'[e].on => d = e
    BY <1>0, <1>call, <2>1 DEF Mounting, Others
  <2> QED
    BY <1>0, <1>call, <2>2, <2>3 DEF Mounting, Others, At
<1>4. Empty'
  BY <1>0, <1>do, <1>call, <1>gen DEF Empty, Unread, At, Others, OtherGens
<1>5. BootAlone'
  BY <1>0, <1>do, <1>call DEF BootAlone, Running, At, Others, Started
<1>6. LockMine'
  BY <1>0, <1>do, <1>call DEF LockMine, Unread, Running, Others
<1>7. SameLog'
  BY <1>0, <1>do, <1>call, <1>gen, SameLogKept, <1>cands DEF WritingOK, At, Others, OtherGens
<1>8. WritingOK'
  BY <1>0, <1>do, <1>call, <1>gen, WritingKept, <1>cands DEF At, Others, OtherGens
<1>9. RowsOK'
  BY <1>0, <1>do, <1>gen, RowsKept DEF Typed, OtherGens
<1>10. Selected'
  BY <1>0, <1>do, <1>gen, SelectedKept DEF Typed, OtherGens
<1>11. CandOK'
  BY <1>0, <1>do, <1>call, <1>gen, CandKept, <1>cands, <1>run DEF Others, OtherGens
<1>12. DropOK'
  BY <1>0, <1>do, <1>call, <1>gen, DropKept DEF Typed, Others, OtherGens
<1>13. UsersOK'
  <2>1. \A f \in Gens : Users(f)' = Users(f)
    BY <1>do, <1>call, UsersStay DEF Leased
  <2>2. gen[g].users = 0
    BY <1>0, <1>do, NoUsers
  <2> QED
    BY <1>0, <1>do, <1>gen, <2>1, <2>2, UsersKept DEF OtherGens
<1>14. Answered'
  BY <1>0, <1>do DEF Answered
<1>15. OnlyFaultsBlock'
  BY <1>0, <1>do DEF OnlyFaultsBlock
<1> QED
  BY <1>1, <1>2, <1>3, <1>4, <1>5, <1>6, <1>7, <1>8,
     <1>9, <1>10, <1>11, <1>12, <1>13, <1>14, <1>15 DEF IInv

\* The call of activate keeps the invariant.
LEMMA StepActivate ==
  ASSUME IInv, NEW c \in Callers, NEW g \in Gens, Activate(c, g)
  PROVE  IInv'
<1>0. /\ TypeOK /\ Gated /\ Mounting /\ Empty /\ BootAlone /\ LockMine /\ SameLog
      /\ WritingOK /\ RowsOK /\ Selected /\ CandOK /\ DropOK /\ UsersOK
      /\ Answered /\ OnlyFaultsBlock /\ Typed
  BY TypesAre DEF IInv
<1>do. /\ call[c].at = "idle" /\ life = "up" /\ g \in cands /\ gate' = gate
       /\ UNCHANGED <<log, lock, records, failure, gen, current, cands, blocked, star,
                       life, boot, starts, done, dropped, unsure, faulted>>
  BY <1>0 DEF Activate, Accepting
<1>begin. /\ Begin(c, "authorizing", g, gen[g].of)
          /\ "authorizing" \in Places /\ gen[g].of \in Harnesses /\ g \in Gens \cup {None}
  BY <1>0 DEF Activate, Places, Typed
<1>call. Others(c) /\ call'[c].at = "authorizing" /\ call'[c].on = g
  <2> HIDE DEF Gens, None, Harnesses
  <2> QED
    BY <1>0, <1>begin, BeginIs
<1>types. call' \in [Callers -> CallType] /\ gate' \in Seq(Callers)
  <2>1. call' \in [Callers -> CallType]
    BY <1>0, <1>begin, BeginIs
  <2>2. gate' \in Seq(Callers)
    BY <1>0, <1>do DEF TypeOK
  <2> QED
    BY <2>1, <2>2
<1>gate. \A d \in Callers : HasGate(d) => HasGate(d)'
  BY <1>0, <1>do DEF HasGate
<1>1. TypeOK'
  BY <1>0, <1>do, <1>types DEF TypeOK, CallType, GenType
<1>2. Gated'
  BY <1>0, <1>do, <1>call, <1>gate DEF Gated, At, Running, Others
<1>3. Mounting'
  BY <1>0, <1>do, <1>call DEF Mounting, At, Typed, Others
<1>4. Empty'
  BY <1>0, <1>do, <1>call DEF Empty, Unread, At, Others
<1>5. BootAlone'
  BY <1>0, <1>do, <1>call DEF BootAlone, Running, At, Others, Started
<1>6. LockMine'
  BY <1>0, <1>do, <1>call DEF LockMine, Unread, Running, Others
<1>7. SameLog'
  BY <1>0, <1>do, <1>call, SameLogKept DEF Others
<1>8. WritingOK'
  BY <1>0, <1>do, <1>call, WritingKept DEF At, Others
<1>9. RowsOK'
  BY <1>0, <1>do, RowsKept
<1>10. Selected'
  BY <1>0, <1>do, SelectedKept
<1>11. CandOK'
  BY <1>0, <1>do, <1>call, CandKept DEF Running, Others
<1>12. DropOK'
  BY <1>0, <1>do, <1>call, DropKept DEF Others
<1>13. UsersOK'
  <2>1. \A f \in Gens : Users(f)' = Users(f)
    BY <1>0, <1>do, <1>call, UsersStay DEF Leased
  <2> QED
    BY <1>0, <1>do, <2>1, UsersKept
<1>14. Answered'
  BY <1>0, <1>do DEF Answered
<1>15. OnlyFaultsBlock'
  BY <1>0, <1>do DEF OnlyFaultsBlock
<1> QED
  BY <1>1, <1>2, <1>3, <1>4, <1>5, <1>6, <1>7, <1>8,
     <1>9, <1>10, <1>11, <1>12, <1>13, <1>14, <1>15 DEF IInv

\* The call of discard keeps the invariant.
LEMMA StepDiscard ==
  ASSUME IInv, NEW c \in Callers, NEW g \in Gens, Discard(c, g)
  PROVE  IInv'
<1>0. /\ TypeOK /\ Gated /\ Mounting /\ Empty /\ BootAlone /\ LockMine /\ SameLog
      /\ WritingOK /\ RowsOK /\ Selected /\ CandOK /\ DropOK /\ UsersOK
      /\ Answered /\ OnlyFaultsBlock /\ Typed
  BY TypesAre DEF IInv
<1>do. /\ call[c].at = "idle" /\ life = "up" /\ g \in cands
       /\ UNCHANGED <<log, lock, records, failure, gen, current, cands, blocked, star,
                       life, boot, starts, done, dropped, unsure, faulted>>
  BY <1>0 DEF Discard, Accepting
<1>begin. Others(c) /\ call'[c].at = "dropping" /\ call'[c].on = g /\ call' \in [Callers -> CallType]
  <2>1. TypeOK /\ gen[g].of \in Harnesses /\ "dropping" \in Places /\ g \in Gens \cup {None}
    BY <1>0 DEF Typed, Places
  <2>2. Begin(c, "dropping", g, gen[g].of)
    BY DEF Discard
  <2> QED
    BY <2>1, <2>2 DEF Begin, TypeOK, CallType, Others
<1>call. Others(c) /\ call'[c].at = "dropping" /\ call'[c].on = g
  BY <1>0, <1>begin
<1>types. call' \in [Callers -> CallType] /\ gate' \in Seq(Callers)
  <2>1. call' \in [Callers -> CallType]
    BY <1>0, <1>begin
  <2>2. gate' \in Seq(Callers)
    BY <1>0, JoinGate DEF Discard
  <2> QED
    BY <2>1, <2>2
<1>gate. \A d \in Callers : HasGate(d) => HasGate(d)'
  BY <1>0, JoinGate DEF Discard
<1>1. TypeOK'
  BY <1>0, <1>do, <1>types DEF TypeOK, CallType, GenType
<1>2. Gated'
  BY <1>0, <1>do, <1>call, <1>gate DEF Gated, At, Running, Others
<1>3. Mounting'
  BY <1>0, <1>do, <1>call DEF Mounting, At, Typed, Others
<1>4. Empty'
  BY <1>0, <1>do, <1>call DEF Empty, Unread, At, Others
<1>5. BootAlone'
  BY <1>0, <1>do, <1>call DEF BootAlone, Running, At, Others, Started
<1>6. LockMine'
  BY <1>0, <1>do, <1>call DEF LockMine, Unread, Running, Others
<1>7. SameLog'
  BY <1>0, <1>do, <1>call, SameLogKept DEF Others
<1>8. WritingOK'
  BY <1>0, <1>do, <1>call, WritingKept DEF At, Others
<1>9. RowsOK'
  BY <1>0, <1>do, RowsKept
<1>10. Selected'
  BY <1>0, <1>do, SelectedKept
<1>11. CandOK'
  BY <1>0, <1>do, <1>call, CandKept DEF Running, Others
<1>12. DropOK'
  BY <1>0, <1>do, <1>call, DropKept DEF Others
<1>13. UsersOK'
  <2>1. \A f \in Gens : Users(f)' = Users(f)
    BY <1>0, <1>do, <1>call, UsersStay DEF Leased
  <2> QED
    BY <1>0, <1>do, <2>1, UsersKept
<1>14. Answered'
  BY <1>0, <1>do DEF Answered
<1>15. OnlyFaultsBlock'
  BY <1>0, <1>do DEF OnlyFaultsBlock
<1> QED
  BY <1>1, <1>2, <1>3, <1>4, <1>5, <1>6, <1>7, <1>8,
     <1>9, <1>10, <1>11, <1>12, <1>13, <1>14, <1>15 DEF IInv

\* The call of acquire keeps the invariant.
LEMMA StepAcquire ==
  ASSUME IInv, NEW c \in Callers, NEW h \in Harnesses, NEW pin \in Gens \cup {None}, Acquire(c, h, pin)
  PROVE  IInv'
<1>0. /\ TypeOK /\ Gated /\ Mounting /\ Empty /\ BootAlone /\ LockMine /\ SameLog
      /\ WritingOK /\ RowsOK /\ Selected /\ CandOK /\ DropOK /\ UsersOK
      /\ Answered /\ OnlyFaultsBlock /\ Typed
  BY TypesAre DEF IInv
<1>do. /\ call[c].at = "idle" /\ life = "up" /\ Started
       /\ UNCHANGED <<log, lock, records, failure, gen, current, cands, blocked, star,
                       life, boot, starts, done, dropped, unsure, faulted>>
  BY <1>0 DEF Acquire, Accepting
<1>call. Others(c) /\ call'[c].at = "asking" /\ call'[c].on = pin
  BY <1>0, BeginIs DEF Acquire, Places
<1>types. call' \in [Callers -> CallType] /\ gate' \in Seq(Callers)
  <2>1. call' \in [Callers -> CallType]
    BY <1>0, BeginIs DEF Acquire, Places
  <2>2. gate' \in Seq(Callers)
    BY <1>0, JoinGate DEF Acquire
  <2> QED
    BY <2>1, <2>2
<1>gate. \A d \in Callers : HasGate(d) => HasGate(d)'
  BY <1>0, JoinGate DEF Acquire
<1>1. TypeOK'
  BY <1>0, <1>do, <1>types DEF TypeOK, CallType, GenType
<1>2. Gated'
  BY <1>0, <1>do, <1>call, <1>gate DEF Gated, At, Running, Others
<1>3. Mounting'
  BY <1>0, <1>do, <1>call DEF Mounting, At, Typed, Others
<1>4. Empty'
  BY <1>0, <1>do, <1>call DEF Empty, Unread, At, Others
<1>5. BootAlone'
  BY <1>0, <1>do, <1>call DEF BootAlone, Running, At, Others, Started
<1>6. LockMine'
  BY <1>0, <1>do, <1>call DEF LockMine, Unread, Running, Others
<1>7. SameLog'
  BY <1>0, <1>do, <1>call, SameLogKept DEF Others
<1>8. WritingOK'
  BY <1>0, <1>do, <1>call, WritingKept DEF At, Others
<1>9. RowsOK'
  BY <1>0, <1>do, RowsKept
<1>10. Selected'
  BY <1>0, <1>do, SelectedKept
<1>11. CandOK'
  BY <1>0, <1>do, <1>call, CandKept DEF Running, Others
<1>12. DropOK'
  BY <1>0, <1>do, <1>call, DropKept DEF Others
<1>13. UsersOK'
  <2>1. \A f \in Gens : Users(f)' = Users(f)
    BY <1>0, <1>do, <1>call, UsersStay DEF Leased
  <2> QED
    BY <1>0, <1>do, <2>1, UsersKept
<1>14. Answered'
  BY <1>0, <1>do DEF Answered
<1>15. OnlyFaultsBlock'
  BY <1>0, <1>do DEF OnlyFaultsBlock
<1> QED
  BY <1>1, <1>2, <1>3, <1>4, <1>5, <1>6, <1>7, <1>8,
     <1>9, <1>10, <1>11, <1>12, <1>13, <1>14, <1>15 DEF IInv

\* A granted lease that reaches its caller keeps the invariant.
LEMMA StepDeliver ==
  ASSUME IInv, NEW c \in Callers, Deliver(c)
  PROVE  IInv'
<1>0. /\ TypeOK /\ Gated /\ Mounting /\ Empty /\ BootAlone /\ LockMine /\ SameLog
      /\ WritingOK /\ RowsOK /\ Selected /\ CandOK /\ DropOK /\ UsersOK
      /\ Answered /\ OnlyFaultsBlock /\ Typed
  BY TypesAre DEF IInv
<1>do. /\ call[c].at = "granted" /\ gate' = gate
       /\ UNCHANGED <<log, lock, records, failure, gen, current, cands, blocked, star,
                       life, boot, starts, done, dropped, unsure, faulted>>
  BY <1>0 DEF Deliver
<1>call. Others(c) /\ call'[c].at = (IF call[c].aborted THEN "releasing" ELSE "holding") /\ call'[c].on = call[c].on
  BY <1>0, GotoIs DEF Deliver, Places
<1>types. call' \in [Callers -> CallType] /\ gate' \in Seq(Callers)
  <2>1. call' \in [Callers -> CallType]
    BY <1>0, GotoIs DEF Deliver, Places
  <2>2. gate' \in Seq(Callers)
    BY <1>0, <1>do DEF TypeOK
  <2> QED
    BY <2>1, <2>2
<1>gate. \A d \in Callers : HasGate(d) => HasGate(d)'
  BY <1>0, <1>do DEF HasGate
<1>1. TypeOK'
  BY <1>0, <1>do, <1>types DEF TypeOK, CallType, GenType
<1>2. Gated'
  BY <1>0, <1>do, <1>call, <1>gate DEF Gated, At, Running, Others
<1>3. Mounting'
  BY <1>0, <1>do, <1>call DEF Mounting, At, Typed, Others
<1>4. Empty'
  BY <1>0, <1>do, <1>call DEF Empty, Unread, At, Others
<1>5. BootAlone'
  BY <1>0, <1>do, <1>call DEF BootAlone, Running, At, Others, Started
<1>6. LockMine'
  BY <1>0, <1>do, <1>call DEF LockMine, Unread, Running, Others
<1>7. SameLog'
  BY <1>0, <1>do, <1>call, SameLogKept DEF Others
<1>8. WritingOK'
  BY <1>0, <1>do, <1>call, WritingKept DEF At, Others
<1>9. RowsOK'
  BY <1>0, <1>do, RowsKept
<1>10. Selected'
  BY <1>0, <1>do, SelectedKept
<1>11. CandOK'
  BY <1>0, <1>do, <1>call, CandKept DEF Running, Others
<1>12. DropOK'
  BY <1>0, <1>do, <1>call, DropKept DEF Others
<1>13. UsersOK'
  <2>1. \A f \in Gens : Users(f)' = Users(f)
    BY <1>0, <1>do, <1>call, UsersStay DEF Leased
  <2> QED
    BY <1>0, <1>do, <2>1, UsersKept
<1>14. Answered'
  BY <1>0, <1>do DEF Answered
<1>15. OnlyFaultsBlock'
  BY <1>0, <1>do DEF OnlyFaultsBlock
<1> QED
  BY <1>1, <1>2, <1>3, <1>4, <1>5, <1>6, <1>7, <1>8,
     <1>9, <1>10, <1>11, <1>12, <1>13, <1>14, <1>15 DEF IInv

\* The beginning of a release keeps the invariant.
LEMMA StepRelease ==
  ASSUME IInv, NEW c \in Callers, Release(c)
  PROVE  IInv'
<1>0. /\ TypeOK /\ Gated /\ Mounting /\ Empty /\ BootAlone /\ LockMine /\ SameLog
      /\ WritingOK /\ RowsOK /\ Selected /\ CandOK /\ DropOK /\ UsersOK
      /\ Answered /\ OnlyFaultsBlock /\ Typed
  BY TypesAre DEF IInv
<1>do. /\ call[c].at = "holding" /\ gate' = gate
       /\ UNCHANGED <<log, lock, records, failure, gen, current, cands, blocked, star,
                       life, boot, starts, done, dropped, unsure, faulted>>
  BY <1>0 DEF Release
<1>call. Others(c) /\ call'[c].at = "releasing" /\ call'[c].on = call[c].on
  BY <1>0, GotoIs DEF Release, Places
<1>types. call' \in [Callers -> CallType] /\ gate' \in Seq(Callers)
  <2>1. call' \in [Callers -> CallType]
    BY <1>0, GotoIs DEF Release, Places
  <2>2. gate' \in Seq(Callers)
    BY <1>0, <1>do DEF TypeOK
  <2> QED
    BY <2>1, <2>2
<1>gate. \A d \in Callers : HasGate(d) => HasGate(d)'
  BY <1>0, <1>do DEF HasGate
<1>1. TypeOK'
  BY <1>0, <1>do, <1>types DEF TypeOK, CallType, GenType
<1>2. Gated'
  BY <1>0, <1>do, <1>call, <1>gate DEF Gated, At, Running, Others
<1>3. Mounting'
  BY <1>0, <1>do, <1>call DEF Mounting, At, Typed, Others
<1>4. Empty'
  BY <1>0, <1>do, <1>call DEF Empty, Unread, At, Others
<1>5. BootAlone'
  BY <1>0, <1>do, <1>call DEF BootAlone, Running, At, Others, Started
<1>6. LockMine'
  BY <1>0, <1>do, <1>call DEF LockMine, Unread, Running, Others
<1>7. SameLog'
  BY <1>0, <1>do, <1>call, SameLogKept DEF Others
<1>8. WritingOK'
  BY <1>0, <1>do, <1>call, WritingKept DEF At, Others
<1>9. RowsOK'
  BY <1>0, <1>do, RowsKept
<1>10. Selected'
  BY <1>0, <1>do, SelectedKept
<1>11. CandOK'
  BY <1>0, <1>do, <1>call, CandKept DEF Running, Others
<1>12. DropOK'
  BY <1>0, <1>do, <1>call, DropKept DEF Others
<1>13. UsersOK'
  <2>1. \A f \in Gens : Users(f)' = Users(f)
    BY <1>0, <1>do, <1>call, UsersStay DEF Leased
  <2> QED
    BY <1>0, <1>do, <2>1, UsersKept
<1>14. Answered'
  BY <1>0, <1>do DEF Answered
<1>15. OnlyFaultsBlock'
  BY <1>0, <1>do DEF OnlyFaultsBlock
<1> QED
  BY <1>1, <1>2, <1>3, <1>4, <1>5, <1>6, <1>7, <1>8,
     <1>9, <1>10, <1>11, <1>12, <1>13, <1>14, <1>15 DEF IInv

\* The abort of an acquisition keeps the invariant.
LEMMA StepAbort ==
  ASSUME IInv, NEW c \in Callers, Abort(c)
  PROVE  IInv'
<1>0. /\ TypeOK /\ Gated /\ Mounting /\ Empty /\ BootAlone /\ LockMine /\ SameLog
      /\ WritingOK /\ RowsOK /\ Selected /\ CandOK /\ DropOK /\ UsersOK
      /\ Answered /\ OnlyFaultsBlock /\ Typed
  BY TypesAre DEF IInv
<1>do. /\ At(c, {"asking", "retrying", "checking", "granted"}) /\ gate' = gate
       /\ UNCHANGED <<log, lock, records, failure, gen, current, cands, blocked, star,
                       life, boot, starts, done, dropped, unsure, faulted>>
  BY <1>0 DEF Abort, At
<1>call. Others(c) /\ call'[c].at = call[c].at /\ call'[c].on = call[c].on
  BY <1>0, TypesAre DEF Abort, TypeOK, CallType, Others
<1>types. call' \in [Callers -> CallType] /\ gate' \in Seq(Callers)
  <2>1. call' \in [Callers -> CallType]
    BY <1>0, TypesAre DEF Abort, TypeOK, CallType, Others
  <2>2. gate' \in Seq(Callers)
    BY <1>0, <1>do DEF TypeOK
  <2> QED
    BY <2>1, <2>2
<1>gate. \A d \in Callers : HasGate(d) => HasGate(d)'
  BY <1>0, <1>do DEF HasGate
<1>1. TypeOK'
  BY <1>0, <1>do, <1>types DEF TypeOK, CallType, GenType
<1>2. Gated'
  BY <1>0, <1>do, <1>call, <1>gate DEF Gated, At, Running, Others
<1>3. Mounting'
  BY <1>0, <1>do, <1>call DEF Mounting, At, Typed, Others
<1>4. Empty'
  BY <1>0, <1>do, <1>call DEF Empty, Unread, At, Others
<1>5. BootAlone'
  BY <1>0, <1>do, <1>call DEF BootAlone, Running, At, Others, Started
<1>6. LockMine'
  BY <1>0, <1>do, <1>call DEF LockMine, Unread, Running, Others
<1>7. SameLog'
  BY <1>0, <1>do, <1>call, SameLogKept DEF Others
<1>8. WritingOK'
  BY <1>0, <1>do, <1>call, WritingKept DEF At, Others
<1>9. RowsOK'
  BY <1>0, <1>do, RowsKept
<1>10. Selected'
  BY <1>0, <1>do, SelectedKept
<1>11. CandOK'
  BY <1>0, <1>do, <1>call, CandKept DEF Running, Others
<1>12. DropOK'
  BY <1>0, <1>do, <1>call, DropKept DEF Others
<1>13. UsersOK'
  <2>1. \A f \in Gens : Users(f)' = Users(f)
    BY <1>0, <1>do, <1>call, UsersStay DEF Leased
  <2> QED
    BY <1>0, <1>do, <2>1, UsersKept
<1>14. Answered'
  BY <1>0, <1>do DEF Answered
<1>15. OnlyFaultsBlock'
  BY <1>0, <1>do DEF OnlyFaultsBlock
<1> QED
  BY <1>1, <1>2, <1>3, <1>4, <1>5, <1>6, <1>7, <1>8,
     <1>9, <1>10, <1>11, <1>12, <1>13, <1>14, <1>15 DEF IInv

\* The decision on an activation's authorization keeps the invariant.
LEMMA StepAuthorized ==
  ASSUME IInv, NEW c \in Callers, Authorized(c)
  PROVE  IInv'
<1>0. /\ TypeOK /\ Gated /\ Mounting /\ Empty /\ BootAlone /\ LockMine /\ SameLog
      /\ WritingOK /\ RowsOK /\ Selected /\ CandOK /\ DropOK /\ UsersOK
      /\ Answered /\ OnlyFaultsBlock /\ Typed
  BY TypesAre DEF IInv
<1>do. /\ call[c].at = "authorizing"
       /\ UNCHANGED <<log, lock, records, failure, gen, current, cands, blocked, star,
                       life, boot, starts, done, dropped, unsure, faulted>>
  BY DEF Authorized
<1>call. Others(c) /\ ((call'[c].at = "queued" /\ life = "up" /\ call'[c].on = call[c].on) \/ call'[c].at = "idle")
  BY <1>0, GotoIs, EndIs DEF Authorized, Accepting, Places
<1>types. call' \in [Callers -> CallType] /\ gate' \in Seq(Callers)
  <2>1. call' \in [Callers -> CallType]
    BY <1>0, GotoIs, EndIs DEF Authorized, Places
  <2>2. gate' \in Seq(Callers)
    BY <1>0, JoinGate DEF Authorized, TypeOK
  <2> QED
    BY <2>1, <2>2
<1>gate. /\ \A d \in Callers : HasGate(d) => HasGate(d)'
         /\ life # "up" => gate' = gate
  BY <1>0, JoinGate DEF Authorized, HasGate, Accepting
<1>1. TypeOK'
  BY <1>0, <1>do, <1>types DEF TypeOK, CallType, GenType
<1>2. Gated'
  BY <1>0, <1>do, <1>call, <1>gate DEF Gated, At, Running, Others
<1>3. Mounting'
  BY <1>0, <1>do, <1>call DEF Mounting, At, Typed, Others
<1>4. Empty'
  BY <1>0, <1>do, <1>call DEF Empty, Unread, At, Others
<1>5. BootAlone'
  BY <1>0, <1>do, <1>call DEF BootAlone, Running, At, Others
<1>6. LockMine'
  BY <1>0, <1>do, <1>call DEF LockMine, Unread, Running, Others
<1>7. SameLog'
  BY <1>0, <1>do, <1>call, SameLogKept DEF At, Others
<1>8. WritingOK'
  BY <1>0, <1>do, <1>call, WritingKept DEF At, Others
<1>9. RowsOK'
  BY <1>0, <1>do, RowsKept
<1>10. Selected'
  BY <1>0, <1>do, SelectedKept
<1>11. CandOK'
  BY <1>0, <1>do, <1>call, CandKept DEF Running, At, Others
<1>12. DropOK'
  BY <1>0, <1>do, <1>call, DropKept DEF At, Others
<1>13. UsersOK'
  <2>1. \A f \in Gens : Users(f)' = Users(f)
    BY <1>0, <1>do, <1>call, UsersStay DEF Leased, At
  <2> QED
    BY <1>0, <1>do, <2>1, UsersKept
<1>14. Answered'
  BY <1>0, <1>do DEF Answered
<1>15. OnlyFaultsBlock'
  BY <1>0, <1>do DEF OnlyFaultsBlock
<1> QED
  BY <1>1, <1>2, <1>3, <1>4, <1>5, <1>6, <1>7, <1>8,
     <1>9, <1>10, <1>11, <1>12, <1>13, <1>14, <1>15 DEF IInv

\* The checks of an activation behind the gate keep the invariant: what it
\* goes on to write may be selected.
LEMMA StepCommit ==
  ASSUME IInv, NEW c \in Callers, Commit(c)
  PROVE  IInv'
<1>0. /\ TypeOK /\ Gated /\ Mounting /\ Empty /\ BootAlone /\ LockMine /\ SameLog
      /\ WritingOK /\ RowsOK /\ Selected /\ CandOK /\ DropOK /\ UsersOK
      /\ Answered /\ OnlyFaultsBlock /\ Typed
  BY TypesAre DEF IInv
<1>do. /\ call[c].at = "queued" /\ HasGate(c)
       /\ UNCHANGED <<log, lock, records, failure, gen, current, cands, blocked, star,
                       life, boot, starts, dropped, unsure, faulted>>
  BY DEF Commit
<1>call. /\ Others(c)
         /\ \/ call'[c].at = "writing" /\ call'[c].on = call[c].on /\ MayCommit(c)
                /\ ~Recorded(records, call[c].on) /\ gate' = gate
            \/ call'[c].at = "idle"
  BY <1>0, GotoIs, EndIs DEF Commit, Places
<1>alone. /\ \A d \in Callers : ~At(d, {"writing", "written", "retrying", "checking"})
          /\ Running
  BY <1>0, <1>do DEF Gated, HasGate, At
<1>free. boot = "done" /\ ~Unread
  BY <1>0, <1>do, <1>alone DEF BootAlone, Empty, At
<1>types. call' \in [Callers -> CallType] /\ gate' \in Seq(Callers) /\ done' \subseteq Gens
  <2>1. call' \in [Callers -> CallType]
    BY <1>0, GotoIs, EndIs DEF Commit, Places
  <2>2. gate' \in Seq(Callers)
    BY <1>0, LeaveGate DEF Commit, TypeOK
  <2>3. done' \subseteq Gens
    <3>1. call[c].on \in Gens /\ done \subseteq Gens
      BY <1>0, <1>do DEF Typed, Mounting, At
    <3>2. done' = done \/ done' = done \cup {call[c].on}
      BY DEF Commit
    <3> QED
      BY <3>1, <3>2
  <2> QED
    BY <2>1, <2>2, <2>3
<1>1. TypeOK'
  BY <1>0, <1>do, <1>types DEF TypeOK, CallType, GenType
<1>2. Gated'
  BY <1>0, <1>do, <1>call, <1>alone DEF Gated, At, Others, HasGate, Running
<1>3. Mounting'
  BY <1>0, <1>do, <1>call DEF Mounting, At, Typed, Others
<1>4. Empty'
  BY <1>0, <1>do, <1>call, <1>free DEF Empty, Unread, At, Others, Unread
<1>5. BootAlone'
  BY <1>0, <1>do, <1>call, <1>free DEF BootAlone, Running, At, Others
<1>6. LockMine'
  BY <1>0, <1>do, <1>call DEF LockMine, Unread, Running, Others
<1>7. SameLog'
  BY <1>0, <1>do, <1>call, SameLogKept DEF At, Others
<1>8. WritingOK'
  BY <1>0, <1>do, <1>call, <1>alone DEF WritingOK, Valid, MayCommit, At, Others
<1>9. RowsOK'
  BY <1>0, <1>do, RowsKept
<1>10. Selected'
  BY <1>0, <1>do, SelectedKept
<1>11. CandOK'
  BY <1>0, <1>do, <1>call, CandKept DEF Running, At, Others
<1>12. DropOK'
  BY <1>0, <1>do, <1>call, DropKept DEF At, Others
<1>13. UsersOK'
  <2>1. \A f \in Gens : Users(f)' = Users(f)
    BY <1>0, <1>do, <1>call, UsersStay DEF Leased, At
  <2> QED
    BY <1>0, <1>do, <2>1, UsersKept
<1>14. Answered'
  BY <1>0, <1>do DEF Answered, Commit, RowsOK, Mounting, At
<1>15. OnlyFaultsBlock'
  BY <1>0, <1>do DEF OnlyFaultsBlock
<1> QED
  BY <1>1, <1>2, <1>3, <1>4, <1>5, <1>6, <1>7, <1>8,
     <1>9, <1>10, <1>11, <1>12, <1>13, <1>14, <1>15 DEF IInv

\* A discard that takes its candidate out keeps the invariant.
LEMMA StepTakeOut ==
  ASSUME IInv, NEW c \in Callers, TakeOut(c)
  PROVE  IInv'
<1>0. /\ TypeOK /\ Gated /\ Mounting /\ Empty /\ BootAlone /\ LockMine /\ SameLog
      /\ WritingOK /\ RowsOK /\ Selected /\ CandOK /\ DropOK /\ UsersOK
      /\ Answered /\ OnlyFaultsBlock /\ Typed
  BY TypesAre DEF IInv
<1>do. /\ call[c].at = "dropping" /\ HasGate(c) /\ cands' = cands \ {call[c].on}
       /\ UNCHANGED <<log, lock, records, failure, gen, current, blocked, star, life,
                       boot, starts, done, dropped, unsure, faulted>>
  BY DEF TakeOut
<1>call. /\ Others(c)
         /\ \/ call'[c].at = "dropped" /\ call'[c].on = call[c].on /\ call[c].on \in cands
            \/ call'[c].at = "idle"
  BY <1>0, GotoIs, EndIs DEF TakeOut, Places
<1>alone. /\ \A d \in Callers : ~At(d, {"writing", "written", "retrying", "checking"})
          /\ Running
  BY <1>0, <1>do DEF Gated, HasGate, At
<1>free. boot = "done" /\ ~Unread
  BY <1>0, <1>do, <1>alone DEF BootAlone, Empty, At
<1>types. call' \in [Callers -> CallType] /\ gate' \in Seq(Callers)
  <2>1. call' \in [Callers -> CallType]
    BY <1>0, GotoIs, EndIs DEF TakeOut, Places
  <2>2. gate' \in Seq(Callers)
    BY <1>0, LeaveGate DEF TakeOut
  <2> QED
    BY <2>1, <2>2
<1>1. TypeOK'
  BY <1>0, <1>do, <1>types DEF TypeOK, CallType, GenType
<1>2. Gated'
  BY <1>0, <1>do, <1>call, <1>alone DEF Gated, At, Others, Running
<1>3. Mounting'
  BY <1>0, <1>do, <1>call DEF Mounting, At, Typed, Others
<1>4. Empty'
  BY <1>0, <1>do, <1>call, <1>free DEF Empty, Unread, At, Others, Unread
<1>5. BootAlone'
  BY <1>0, <1>do, <1>call, <1>free DEF BootAlone, Running, At, Others
<1>6. LockMine'
  BY <1>0, <1>do, <1>call DEF LockMine, Unread, Running, Others
<1>7. SameLog'
  BY <1>0, <1>do, <1>call, SameLogKept DEF At, Others
<1>8. WritingOK'
  BY <1>0, <1>do, <1>call, WritingKept, <1>alone DEF At, Others
<1>9. RowsOK'
  BY <1>0, <1>do, RowsKept
<1>10. Selected'
  BY <1>0, <1>do, SelectedKept
<1>11. CandOK'
  BY <1>0, <1>do, <1>call, CandKept DEF Running, At, Others
<1>12. DropOK'
  <2>1. \A f \in Gens : OutOfUse(f) => OutOfUse(f)'
    BY <1>do DEF OutOfUse
  <2>2. call'[c].at = "dropped" => OutOfUse(call[c].on)'
    <3>1. SUFFICES ASSUME call[c].on \in cands, call'[c].on = call[c].on
                   PROVE  OutOfUse(call[c].on)'
      BY <1>call
    <3>2. ~ \E d \in Callers : call[d].at = "written" /\ call[d].on = call[c].on
      BY <1>alone DEF At
    <3>3. gen[call[c].on].state = "ready" /\ (Recorded(log, call[c].on) => call[c].on \in unsure)
      BY <1>0, <1>alone, <3>1, <3>2 DEF CandOK
    <3> QED
      BY <1>do, <3>1, <3>3 DEF OutOfUse
  <2>3. \A d \in Callers : call[d].at = "dropped" => call[d].on \in Gens
    BY <1>0 DEF Mounting, At
  <2> QED
    BY <1>0, <1>do, <1>call, <2>1, <2>2, <2>3 DEF DropOK, Others, Typed
<1>13. UsersOK'
  <2>1. \A f \in Gens : Users(f)' = Users(f)
    BY <1>0, <1>do, <1>call, UsersStay DEF Leased, At
  <2> QED
    BY <1>0, <1>do, <2>1, UsersKept
<1>14. Answered'
  BY <1>0, <1>do DEF Answered
<1>15. OnlyFaultsBlock'
  BY <1>0, <1>do DEF OnlyFaultsBlock
<1> QED
  BY <1>1, <1>2, <1>3, <1>4, <1>5, <1>6, <1>7, <1>8,
     <1>9, <1>10, <1>11, <1>12, <1>13, <1>14, <1>15 DEF IInv

\* The end of a discard keeps the invariant.
LEMMA StepDropped ==
  ASSUME IInv, NEW c \in Callers, Dropped(c)
  PROVE  IInv'
<1>0. /\ TypeOK /\ Gated /\ Mounting /\ Empty /\ BootAlone /\ LockMine /\ SameLog
      /\ WritingOK /\ RowsOK /\ Selected /\ CandOK /\ DropOK /\ UsersOK
      /\ Answered /\ OnlyFaultsBlock /\ Typed
  BY TypesAre DEF IInv
<1>g. call[c].on \in Gens /\ OutOfUse(call[c].on) /\ call[c].at = "dropped"
  BY <1>0 DEF Dropped, Mounting, At, DropOK
<1>none. gen[call[c].on].state = "ready" => gen[call[c].on].users = 0
  BY <1>0, <1>g, NoUsers
<1>held. gen[call[c].on].state = "retired" => gen[call[c].on].users # 0
  BY <1>0, <1>g DEF UsersOK
<1>do. /\ call[c].at = "dropped" /\ dropped' = dropped \cup {call[c].on}
       /\ UNCHANGED <<log, lock, records, failure, current, cands, blocked, star, life,
                       boot, gate, starts, done, unsure, faulted>>
  BY DEF Dropped
<1>call. Others(c) /\ call'[c].at = "idle" /\ call' \in [Callers -> CallType]
  BY <1>0, EndIs DEF Dropped
<1>gen. /\ OtherGens(call[c].on) /\ gen' \in [Gens -> GenType]
        /\ gen'[call[c].on].of = gen[call[c].on].of /\ gen'[call[c].on].exp = gen[call[c].on].exp
        /\ gen'[call[c].on].users = gen[call[c].on].users
        /\ gen'[call[c].on].state = IF gen[call[c].on].state = "ready" THEN "cleaning"
                                    ELSE gen[call[c].on].state
  <2>1. gen \in [Gens -> GenType]
    BY <1>0 DEF TypeOK, GenType
  <2>2. gen' = IF gen[call[c].on].state = "ready" THEN Retire(gen, call[c].on)
               ELSE Collect(gen, call[c].on)
    BY DEF Dropped
  <2>3. CASE gen[call[c].on].state = "ready"
    BY <1>g, <1>none, <2>1, <2>2, <2>3, RetireIs DEF OtherGens
  <2>4. CASE gen[call[c].on].state # "ready"
    BY <1>g, <1>held, <2>1, <2>2, <2>4, CollectIs DEF OtherGens
  <2> QED
    BY <2>3, <2>4
<1>types. call' \in [Callers -> CallType] /\ gen' \in [Gens -> GenType] /\ dropped' \subseteq Gens
  BY <1>0, <1>g, <1>do, <1>call, <1>gen DEF Typed
<1>cands. \A f \in cands : gen'[f] = gen[f]
  BY <1>0, <1>g, <1>gen DEF OtherGens, OutOfUse, Typed
<1>run. Running' <=> Running
  BY <1>do DEF Running
<1>1. TypeOK'
  BY <1>0, <1>do, <1>types DEF TypeOK, CallType, GenType
<1>2. Gated'
  BY <1>0, <1>do, <1>call DEF Gated, HasGate, At, Running, Others
<1>3. Mounting'
  <2>1. \A d \in Callers : call'[d].at = "mounting" => d # c /\ call[d].at = "mounting" /\ call'[d] = call[d]
    BY <1>call DEF Others
  <2>2. \A d \in Callers : d # c /\ call[d].at = "mounting" =>
           call[d].on \in Gens /\ call[d].on # call[c].on
    BY <1>0, <1>g DEF Mounting, At, OutOfUse
  <2>3. \A d \in Callers : call'[d].at = "mounting" => gen'[call'[d].on].state = "mounting"
    BY <1>0, <1>gen, <2>1, <2>2 DEF Mounting, OtherGens
  <2>4. \A d, e \in Callers : call'[d].at = "mounting" /\ call'[e].at = "mounting"
           /\ call'[d].on = call'[e].on => d = e
    BY <1>0, <2>1 DEF Mounting
  <2> QED
    BY <1>0, <1>call, <2>3, <2>4 DEF Mounting, Others, At
<1>4. Empty'
  BY <1>0, <1>do, <1>call, <1>gen DEF Empty, Unread, At, Others, OtherGens
<1>5. BootAlone'
  BY <1>0, <1>do, <1>call DEF BootAlone, Running, At, Others
<1>6. LockMine'
  BY <1>0, <1>do, <1>call DEF LockMine, Unread, Running, Others
<1>7. SameLog'
  BY <1>0, <1>do, <1>call, <1>gen, SameLogKept, <1>cands DEF WritingOK, At, Others, OtherGens
<1>8. WritingOK'
  BY <1>0, <1>do, <1>call, <1>gen, WritingKept, <1>cands DEF At, Others, OtherGens
<1>9. RowsOK'
  BY <1>0, <1>do, <1>gen, RowsKept, <1>g DEF Typed, OtherGens
<1>10. Selected'
  BY <1>0, <1>do, <1>gen, SelectedKept, <1>g DEF Typed, OtherGens
<1>11. CandOK'
  BY <1>0, <1>do, <1>call, <1>gen, CandKept, <1>cands, <1>run DEF Others, OtherGens
<1>12. DropOK'
  <2>1. \A f \in Gens : OutOfUse(f) => OutOfUse(f)'
    BY <1>do, <1>g, <1>gen DEF OutOfUse, OtherGens
  <2>3. \A d \in Callers : call[d].at = "dropped" => call[d].on \in Gens
    BY <1>0 DEF Mounting, At
  <2> QED
    BY <1>0, <1>do, <1>g, <1>call, <2>1, <2>3 DEF DropOK, Others, Typed
<1>13. UsersOK'
  <2>1. \A f \in Gens : Users(f)' = Users(f)
    BY <1>0, <1>do, <1>call, UsersStay DEF Leased
  <2> QED
    BY <1>0, <1>do, <1>g, <1>gen, <2>1, UsersKept DEF OtherGens
<1>14. Answered'
  BY <1>0, <1>do DEF Answered
<1>15. OnlyFaultsBlock'
  BY <1>0, <1>do DEF OnlyFaultsBlock
<1> QED
  BY <1>1, <1>2, <1>3, <1>4, <1>5, <1>6, <1>7, <1>8,
     <1>9, <1>10, <1>11, <1>12, <1>13, <1>14, <1>15 DEF IInv

\* The end of a mount, failed or not, keeps the invariant.
LEMMA StepMounted ==
  ASSUME IInv, NEW c \in Callers, Mounted(c)
  PROVE  IInv'
<1>0. /\ TypeOK /\ Gated /\ Mounting /\ Empty /\ BootAlone /\ LockMine /\ SameLog
      /\ WritingOK /\ RowsOK /\ Selected /\ CandOK /\ DropOK /\ UsersOK
      /\ Answered /\ OnlyFaultsBlock /\ Typed
  BY TypesAre DEF IInv
<1>g. call[c].on \in Gens /\ gen[call[c].on].state = "mounting" /\ call[c].at = "mounting"
  BY <1>0 DEF Mounted, Mounting, At
<1>none. gen[call[c].on].users = 0 /\ Users(call[c].on) = {}
  BY <1>0, <1>g, NoUsers
<1>do. /\ call[c].at = "mounting"
       /\ UNCHANGED <<log, lock, records, failure, current, blocked, star, life, boot,
                       gate, starts, done, dropped, unsure, faulted>>
  BY DEF Mounted
<1>call. Others(c) /\ call'[c].at = "idle" /\ call' \in [Callers -> CallType]
  BY <1>0, EndIs DEF Mounted
<1>gen. /\ OtherGens(call[c].on) /\ gen' \in [Gens -> GenType]
        /\ gen'[call[c].on].users = 0
        /\ \/ gen'[call[c].on].state = "ready" /\ cands' = cands \cup {call[c].on} /\ life = "up"
           \/ gen'[call[c].on].state \in {"cleaning", "gone"} /\ cands' = cands
  <2>1. gen \in [Gens -> GenType]
    BY <1>0 DEF TypeOK, GenType
  <2>2. CASE gen' = [gen EXCEPT ![call[c].on].state = "ready"] /\ cands' = cands \cup {call[c].on} /\ life = "up"
    <3>1. gen[call[c].on] \in GenType /\ call[c].on \in Gens /\ "ready" \in States
      BY <1>g, <2>1 DEF States
    <3>2. [gen[call[c].on] EXCEPT !.state = "ready"] \in GenType
      BY <3>1 DEF GenType
    <3>3. gen' = [gen EXCEPT ![call[c].on] = [gen[call[c].on] EXCEPT !.state = "ready"]]
      BY <2>2
    <3>4. [gen[call[c].on] EXCEPT !.state = "ready"].users = gen[call[c].on].users
          /\ [gen[call[c].on] EXCEPT !.state = "ready"].state = "ready"
      BY <3>1 DEF GenType
    <3> QED
      BY <1>g, <1>none, <2>1, <2>2, <3>1, <3>2, <3>3, <3>4 DEF OtherGens
  <2>3. CASE gen' = Retire(gen, call[c].on) /\ cands' = cands
    BY <1>g, <1>none, <2>1, <2>3, RetireIs DEF OtherGens
  <2>4. CASE gen' = [gen EXCEPT ![call[c].on] = Gone] /\ cands' = cands
    BY <1>g, <2>1, <2>4 DEF OtherGens, GenType, States, Gone, Unmounted
  <2> QED
    BY <2>2, <2>3, <2>4 DEF Mounted, Accepting
<1>types. call' \in [Callers -> CallType] /\ gen' \in [Gens -> GenType] /\ cands' \subseteq Gens
  BY <1>0, <1>g, <1>do, <1>call, <1>gen DEF Typed
<1>cands. \A f \in cands : gen'[f] = gen[f] /\ f # call[c].on
  BY <1>0, <1>g, <1>gen DEF OtherGens, CandOK, Typed
<1>run. Running' <=> Running
  BY <1>do DEF Running
<1>new. ~Recorded(log, call[c].on)
  BY <1>0, <1>g DEF RowsOK, Recorded
<1>1. TypeOK'
  BY <1>0, <1>do, <1>types DEF TypeOK, CallType, GenType
<1>2. Gated'
  BY <1>0, <1>do, <1>call DEF Gated, HasGate, At, Running, Others
<1>3. Mounting'
  <2>1. \A d \in Callers : call'[d].at = "mounting" => d # c /\ call[d].at = "mounting" /\ call'[d] = call[d]
    BY <1>call DEF Others
  <2>2. \A d \in Callers : d # c /\ call[d].at = "mounting" =>
           call[d].on \in Gens /\ call[d].on # call[c].on
    BY <1>0, <1>g DEF Mounting, At, OutOfUse
  <2>3. \A d \in Callers : call'[d].at = "mounting" => gen'[call'[d].on].state = "mounting"
    BY <1>0, <1>gen, <2>1, <2>2 DEF Mounting, OtherGens
  <2>4. \A d, e \in Callers : call'[d].at = "mounting" /\ call'[e].at = "mounting"
           /\ call'[d].on = call'[e].on => d = e
    BY <1>0, <2>1 DEF Mounting
  <2> QED
    BY <1>0, <1>call, <2>3, <2>4 DEF Mounting, Others, At
<1>4. Empty'
  BY <1>0, <1>do, <1>call, <1>gen DEF Empty, Unread, At, Others, OtherGens
<1>5. BootAlone'
  BY <1>0, <1>do, <1>call DEF BootAlone, Running, At, Others
<1>6. LockMine'
  BY <1>0, <1>do, <1>call DEF LockMine, Unread, Running, Others
<1>7. SameLog'
  BY <1>0, <1>do, <1>call, <1>gen, SameLogKept, <1>cands DEF WritingOK, At, Others, OtherGens
<1>8. WritingOK'
  BY <1>0, <1>do, <1>call, <1>gen, WritingKept, <1>cands DEF At, Others, OtherGens
<1>9. RowsOK'
  BY <1>0, <1>do, <1>gen, RowsKept, <1>g DEF Typed, OtherGens
<1>10. Selected'
  BY <1>0, <1>do, <1>gen, SelectedKept, <1>g DEF Typed, OtherGens
<1>11. CandOK'
  <2>1. CASE cands' = cands
    BY <1>0, <1>do, <1>call, <1>gen, <1>cands, <1>run, <2>1, CandKept DEF Others
  <2>2. CASE cands' = cands \cup {call[c].on} /\ gen'[call[c].on].state = "ready"
    <3>1. \A f \in cands' : f # call[c].on => f \in cands
      BY <2>2
    <3> QED
      BY <1>0, <1>do, <1>call, <1>cands, <1>run, <1>new, <2>2, <3>1 DEF CandOK, Others
  <2> QED
    BY <1>gen, <2>1, <2>2
<1>12. DropOK'
  BY <1>0, <1>do, <1>call, <1>gen, DropKept, <1>g DEF Others, OtherGens
<1>13. UsersOK'
  <2>1. \A f \in Gens : Users(f)' = Users(f)
    BY <1>0, <1>do, <1>call, UsersStay DEF Leased
  <2> QED
    BY <1>0, <1>do, <1>g, <1>none, <1>gen, <2>1, UsersKept DEF OtherGens
<1>14. Answered'
  BY <1>0, <1>do DEF Answered
<1>15. OnlyFaultsBlock'
  BY <1>0, <1>do DEF OnlyFaultsBlock
<1> QED
  BY <1>1, <1>2, <1>3, <1>4, <1>5, <1>6, <1>7, <1>8,
     <1>9, <1>10, <1>11, <1>12, <1>13, <1>14, <1>15 DEF IInv

\* Asked for and refused: the call leaves the gate and nothing else changes.
LEMMA CallLeaves ==
  ASSUME IInv, NEW c \in Callers, HasGate(c), End(c), Leave,
         At(c, {"asking", "retrying", "checking"}), call[c].at # "asking" => boot = "done",
         UNCHANGED <<log, lock, records, failure, gen, current, cands, blocked, star,
                       life, boot, starts, done, dropped, unsure, faulted>>
  PROVE  IInv'
<1>0. /\ TypeOK /\ Gated /\ Mounting /\ Empty /\ BootAlone /\ LockMine /\ SameLog
      /\ WritingOK /\ RowsOK /\ Selected /\ CandOK /\ DropOK /\ UsersOK
      /\ Answered /\ OnlyFaultsBlock /\ Typed
  BY TypesAre DEF IInv
<1>do. /\ At(c, {"asking", "retrying", "checking"}) /\ HasGate(c)
       /\ call[c].at # "asking" => boot = "done"
       /\ UNCHANGED <<log, lock, records, failure, gen, current, cands, blocked, star,
                       life, boot, starts, done, dropped, unsure, faulted>>
  OBVIOUS
<1>call. Others(c) /\ call'[c].at = "idle"
  BY <1>0, EndIs
<1>alone. /\ \A d \in Callers : At(d, {"writing", "written", "retrying", "checking"}) => d = c
          /\ Running
  BY <1>0, <1>do DEF Gated, HasGate
<1>types. call' \in [Callers -> CallType] /\ gate' \in Seq(Callers)
  BY <1>0, EndIs, LeaveGate
<1>1. TypeOK'
  BY <1>0, <1>do, <1>types DEF TypeOK, CallType, GenType
<1>2. Gated'
  BY <1>0, <1>do, <1>call, <1>alone DEF Gated, At, Others, HasGate, Running
<1>3. Mounting'
  BY <1>0, <1>do, <1>call DEF Mounting, At, Typed, Others
<1>4. Empty'
  BY <1>0, <1>do, <1>call DEF Empty, Unread, At, Others
<1>5. BootAlone'
  <2>1. boot = "done"
    BY <1>0, <1>do, <1>alone DEF BootAlone, At
  <2> QED
    BY <1>do, <2>1 DEF BootAlone
<1>6. LockMine'
  BY <1>0, <1>do, <1>call DEF LockMine, Unread, Running, Others
<1>7. SameLog'
  BY <1>0, <1>do, <1>call, SameLogKept DEF At, Others
<1>8. WritingOK'
  BY <1>0, <1>do, <1>call, WritingKept DEF At, Others
<1>9. RowsOK'
  BY <1>0, <1>do, RowsKept
<1>10. Selected'
  BY <1>0, <1>do, SelectedKept
<1>11. CandOK'
  BY <1>0, <1>do, <1>call, CandKept DEF Running, At, Others
<1>12. DropOK'
  BY <1>0, <1>do, <1>call, DropKept DEF At, Others
<1>13. UsersOK'
  <2>1. \A f \in Gens : Users(f)' = Users(f)
    BY <1>0, <1>do, <1>call, UsersStay DEF Leased, At
  <2> QED
    BY <1>0, <1>do, <2>1, UsersKept
<1>14. Answered'
  BY <1>0, <1>do DEF Answered
<1>15. OnlyFaultsBlock'
  BY <1>0, <1>do DEF OnlyFaultsBlock
<1> QED
  BY <1>1, <1>2, <1>3, <1>4, <1>5, <1>6, <1>7, <1>8,
     <1>9, <1>10, <1>11, <1>12, <1>13, <1>14, <1>15 DEF IInv

\* An acquisition that retries the startup keeps the invariant: nobody
\* writes beside it.
LEMMA AskRetries ==
  ASSUME IInv, NEW c \in Callers, HasGate(c), call[c].at = "asking", star = "locked",
         Goto(c, "retrying"), boot' = "open", UNCHANGED <<log, lock, records, failure, gen, current, cands, blocked, star,
                       life, gate, starts, done, dropped, unsure, faulted>>
  PROVE  IInv'
<1>0. /\ TypeOK /\ Gated /\ Mounting /\ Empty /\ BootAlone /\ LockMine /\ SameLog
      /\ WritingOK /\ RowsOK /\ Selected /\ CandOK /\ DropOK /\ UsersOK
      /\ Answered /\ OnlyFaultsBlock /\ Typed
  BY TypesAre DEF IInv
<1>do. /\ call[c].at = "asking" /\ HasGate(c) /\ star = "locked" /\ boot' = "open" /\ Unread
       /\ UNCHANGED <<log, lock, records, failure, gen, current, cands, blocked, star,
                       life, gate, starts, done, dropped, unsure, faulted>>
  BY DEF Unread
<1>call. Others(c) /\ call'[c].at = "retrying" /\ call'[c].on = call[c].on
  BY <1>0, GotoIs DEF Places
<1>types. call' \in [Callers -> CallType] /\ boot' \in {"open", "load", "builtin", "done"}
  BY <1>0, <1>do, GotoIs DEF Places
<1>alone. /\ \A d \in Callers : At(d, {"writing", "written", "retrying", "checking"}) => d = c
          /\ Running
  BY <1>0, <1>do DEF Gated, HasGate
<1>1. TypeOK'
  BY <1>0, <1>do, <1>types DEF TypeOK, CallType, GenType
<1>2. Gated'
  BY <1>0, <1>do, <1>call, <1>alone DEF Gated, At, Others, HasGate, Running
<1>3. Mounting'
  BY <1>0, <1>do, <1>call DEF Mounting, At, Typed, Others
<1>4. Empty'
  BY <1>0, <1>do, <1>call, <1>alone DEF Empty, Unread, At, Others, Running
<1>5. BootAlone'
  BY <1>0, <1>do, <1>call, <1>alone DEF BootAlone, Running, At, Others, Empty
<1>6. LockMine'
  BY <1>0, <1>do, <1>call DEF LockMine, Unread, Running, Others
<1>7. SameLog'
  BY <1>0, <1>do, <1>call, SameLogKept DEF At, Others
<1>8. WritingOK'
  BY <1>0, <1>do, <1>call, WritingKept DEF At, Others
<1>9. RowsOK'
  BY <1>0, <1>do, RowsKept
<1>10. Selected'
  BY <1>0, <1>do, SelectedKept
<1>11. CandOK'
  BY <1>0, <1>do, <1>call, CandKept DEF Running, At, Others
<1>12. DropOK'
  BY <1>0, <1>do, <1>call, DropKept DEF At, Others
<1>13. UsersOK'
  <2>1. \A f \in Gens : Users(f)' = Users(f)
    BY <1>0, <1>do, <1>call, UsersStay DEF Leased, At
  <2> QED
    BY <1>0, <1>do, <2>1, UsersKept
<1>14. Answered'
  BY <1>0, <1>do DEF Answered
<1>15. OnlyFaultsBlock'
  BY <1>0, <1>do DEF OnlyFaultsBlock
<1> QED
  BY <1>1, <1>2, <1>3, <1>4, <1>5, <1>6, <1>7, <1>8,
     <1>9, <1>10, <1>11, <1>12, <1>13, <1>14, <1>15 DEF IInv

\* An acquisition that finds the startup done, or has retried it, keeps
\* the invariant.
LEMMA AskChecks ==
  ASSUME IInv, NEW c \in Callers, HasGate(c), At(c, {"asking", "retrying"}),
         call[c].at = "retrying" => boot = "done", star = "no",
         Goto(c, "checking"), UNCHANGED <<log, lock, records, failure, gen, current, cands, blocked, star,
                       life, boot, gate, starts, done, dropped, unsure, faulted>>
  PROVE  IInv'
<1>0. /\ TypeOK /\ Gated /\ Mounting /\ Empty /\ BootAlone /\ LockMine /\ SameLog
      /\ WritingOK /\ RowsOK /\ Selected /\ CandOK /\ DropOK /\ UsersOK
      /\ Answered /\ OnlyFaultsBlock /\ Typed
  BY TypesAre DEF IInv
<1>do. /\ At(c, {"asking", "retrying"}) /\ HasGate(c) /\ star = "no"
       /\ call[c].at = "retrying" => boot = "done"
       /\ UNCHANGED <<log, lock, records, failure, gen, current, cands, blocked, star,
                       life, boot, gate, starts, done, dropped, unsure, faulted>>
  OBVIOUS
<1>call. Others(c) /\ call'[c].at = "checking" /\ call'[c].on = call[c].on
  BY <1>0, GotoIs DEF Places
<1>types. call' \in [Callers -> CallType]
  BY <1>0, <1>do, GotoIs DEF Places
<1>alone. /\ \A d \in Callers : At(d, {"writing", "written", "retrying", "checking"}) => d = c
          /\ Running
  BY <1>0, <1>do DEF Gated, HasGate
<1>free. boot = "done" /\ ~Unread
  BY <1>0, <1>do, <1>alone DEF BootAlone, Unread, At, Running
<1>1. TypeOK'
  BY <1>0, <1>do, <1>types DEF TypeOK, CallType, GenType
<1>2. Gated'
  BY <1>0, <1>do, <1>call, <1>alone DEF Gated, At, Others, HasGate, Running
<1>3. Mounting'
  BY <1>0, <1>do, <1>call DEF Mounting, At, Typed, Others
<1>4. Empty'
  BY <1>0, <1>do, <1>call, <1>free DEF Empty, Unread, At, Others
<1>5. BootAlone'
  BY <1>0, <1>do, <1>call, <1>free DEF BootAlone, Running, At, Others
<1>6. LockMine'
  BY <1>0, <1>do, <1>call, <1>free DEF LockMine, Unread, Running, Others
<1>7. SameLog'
  BY <1>0, <1>do, <1>call, SameLogKept DEF At, Others
<1>8. WritingOK'
  BY <1>0, <1>do, <1>call, WritingKept DEF At, Others
<1>9. RowsOK'
  BY <1>0, <1>do, RowsKept
<1>10. Selected'
  BY <1>0, <1>do, SelectedKept
<1>11. CandOK'
  BY <1>0, <1>do, <1>call, CandKept DEF Running, At, Others
<1>12. DropOK'
  BY <1>0, <1>do, <1>call, DropKept DEF At, Others
<1>13. UsersOK'
  <2>1. \A f \in Gens : Users(f)' = Users(f)
    BY <1>0, <1>do, <1>call, UsersStay DEF Leased, At
  <2> QED
    BY <1>0, <1>do, <2>1, UsersKept
<1>14. Answered'
  BY <1>0, <1>do DEF Answered
<1>15. OnlyFaultsBlock'
  BY <1>0, <1>do DEF OnlyFaultsBlock
<1> QED
  BY <1>1, <1>2, <1>3, <1>4, <1>5, <1>6, <1>7, <1>8,
     <1>9, <1>10, <1>11, <1>12, <1>13, <1>14, <1>15 DEF IInv

\* The lease is made.
LEMMA Granted ==
  ASSUME IInv, NEW c \in Callers, HasGate(c), Leave, call[c].at = "checking",
         NEW g \in Choice(c), gen' = [gen EXCEPT ![g].users = @ + 1],
         call' = [call EXCEPT ![c].at = "granted", ![c].on = g],
         UNCHANGED <<log, lock, records, failure, current, cands, blocked, star, life,
                       boot, starts, done, dropped, unsure, faulted>>
  PROVE  IInv'
<1>0. /\ TypeOK /\ Gated /\ Mounting /\ Empty /\ BootAlone /\ LockMine /\ SameLog
      /\ WritingOK /\ RowsOK /\ Selected /\ CandOK /\ DropOK /\ UsersOK
      /\ Answered /\ OnlyFaultsBlock /\ Typed
  BY TypesAre DEF IInv
<1>do. /\ call[c].at = "checking" /\ HasGate(c)
       /\ UNCHANGED <<log, lock, records, failure, current, cands, blocked, star, life,
                       boot, starts, done, dropped, unsure, faulted>>
  OBVIOUS
<1>call. /\ Others(c) /\ call'[c].at = "granted" /\ call'[c].on = g
         /\ call' \in [Callers -> CallType]
  <2>1. g \in Gens \cup {None} /\ call \in [Callers -> CallType] /\ "granted" \in Places
    BY <1>0 DEF Choice, TypeOK, CallType, Places
  <2>2. call' = [call EXCEPT ![c] = [call[c] EXCEPT !.at = "granted", !.on = g]]
    BY <2>1 DEF CallType
  <2>3. [call[c] EXCEPT !.at = "granted", !.on = g] \in CallType
    BY <2>1 DEF CallType
  <2> QED
    BY <2>1, <2>2, <2>3 DEF Others, CallType
<1>alone. /\ \A d \in Callers : At(d, {"writing", "written", "retrying", "checking"}) => d = c
          /\ Running
  BY <1>0, <1>do DEF Gated, HasGate
<1>free. boot = "done" /\ ~Unread /\ lock = "mine"
  BY <1>0, <1>do, <1>alone DEF BootAlone, Empty, At, LockMine
<1>g. g \in Gens /\ gen[g].state \in {"current", "retired"} /\ g \notin cands
  <2>1. g \in Gens
    BY DEF Choice
  <2>2. gen[g].state \in {"current", "retired"}
    <3>1. /\ call[c].on = None => current[call[c].of] = g
          /\ call[c].on # None => gen[g].state = "current" \/ Live(g)
      BY DEF Choice
    <3>2. call[c].on = None => current[call[c].of] # None /\ call[c].of \in Harnesses
      BY <1>0, <2>1, <3>1 DEF Typed
    <3>3. call[c].on = None => gen[g].state = "current"
      BY <1>0, <3>1, <3>2 DEF Selected
    <3> QED
      BY <3>1, <3>3 DEF Live
  <2> QED
    BY <1>0, <1>alone, <2>1, <2>2 DEF CandOK
<1>gen. /\ OtherGens(g) /\ gen' \in [Gens -> GenType]
        /\ gen'[g].of = gen[g].of /\ gen'[g].exp = gen[g].exp /\ gen'[g].state = gen[g].state
        /\ gen'[g].users = gen[g].users + 1
  <2>1. gen \in [Gens -> GenType] /\ gen[g].users \in Nat /\ gen[g] \in GenType
    BY <1>0, <1>g DEF TypeOK, GenType
  <2>2. gen' = [gen EXCEPT ![g] = [gen[g] EXCEPT !.users = gen[g].users + 1]]
    BY <2>1 DEF GenType
  <2>n. gen[g].users + 1 \in Nat
    BY <2>1
  <2>3. [gen[g] EXCEPT !.users = gen[g].users + 1] \in GenType
    BY <2>1, <2>n DEF GenType
  <2> QED
    BY <1>g, <2>1, <2>2, <2>3 DEF OtherGens, GenType
<1>types. call' \in [Callers -> CallType] /\ gen' \in [Gens -> GenType] /\ gate' \in Seq(Callers)
  BY <1>0, <1>call, <1>gen, LeaveGate
<1>cands. \A f \in cands : gen'[f] = gen[f]
  BY <1>0, <1>g, <1>gen DEF OtherGens, Typed
<1>run. Running' <=> Running
  BY <1>do DEF Running
<1>1. TypeOK'
  BY <1>0, <1>do, <1>types DEF TypeOK, CallType, GenType
<1>2. Gated'
  BY <1>0, <1>do, <1>call, <1>alone DEF Gated, At, Others, HasGate, Running
<1>3. Mounting'
  <2>1. \A d \in Callers : call'[d].at = "mounting" => d # c /\ call[d].at = "mounting" /\ call'[d] = call[d]
    BY <1>call DEF Others
  <2>2. \A d \in Callers : call[d].at = "mounting" => gen'[call[d].on].state = "mounting"
    BY <1>0, <1>gen DEF Mounting, OtherGens, At
  <2> QED
    BY <1>0, <1>g, <1>call, <2>1, <2>2 DEF Mounting, Others, At
<1>4. Empty'
  BY <1>0, <1>do, <1>call, <1>gen, <1>free DEF Empty, Unread, At, Others, OtherGens
<1>5. BootAlone'
  BY <1>0, <1>do, <1>call, <1>free DEF BootAlone, Running, At, Others
<1>6. LockMine'
  BY <1>0, <1>do, <1>call DEF LockMine, Unread, Running, Others
<1>7. SameLog'
  BY <1>0, <1>do, <1>call, <1>gen, SameLogKept, <1>cands DEF WritingOK, At, Others, OtherGens
<1>8. WritingOK'
  BY <1>0, <1>do, <1>call, <1>gen, WritingKept, <1>cands DEF At, Others, OtherGens
<1>9. RowsOK'
  BY <1>0, <1>do, <1>gen, RowsKept DEF Typed, OtherGens
<1>10. Selected'
  BY <1>0, <1>do, <1>gen, SelectedKept DEF Typed, OtherGens
<1>11. CandOK'
  BY <1>0, <1>do, <1>call, <1>gen, CandKept, <1>cands, <1>run DEF Others, OtherGens
<1>12. DropOK'
  BY <1>0, <1>do, <1>call, <1>gen, DropKept DEF Typed, Others, OtherGens
<1>13. UsersOK'
  <2>1. Users(g)' = Users(g) \cup {c} /\ c \notin Users(g)
    BY <1>do, <1>call DEF Users, Others
  <2>2. \A f \in Gens : f # g => Users(f)' = Users(f)
    <3>1. ASSUME NEW f \in Gens, f # g PROVE \A d \in Callers : d \in Users(f)' <=> d \in Users(f)
      BY <1>do, <1>call, <3>1 DEF Users, Others
    <3> QED
      BY <3>1 DEF Users
  <2>3. /\ IsFiniteSet(Users(g)) /\ gen[g].users = Cardinality(Users(g)) /\ gen[g].users \in Nat
    BY <1>0, <1>g DEF UsersOK, Typed
  <2>4. IsFiniteSet(Users(g)') /\ gen'[g].users = Cardinality(Users(g)')
    BY <1>gen, <2>1, <2>3, FS_AddElement
  <2>5. gen'[g].users > 0
    BY <1>gen, <2>3
  <2> QED
    BY <1>0, <1>do, <1>free, <1>g, <1>gen, <2>2, <2>4, <2>5 DEF UsersOK, OtherGens
<1>14. Answered'
  BY <1>0, <1>do DEF Answered
<1>15. OnlyFaultsBlock'
  BY <1>0, <1>do DEF OnlyFaultsBlock
<1> QED
  BY <1>1, <1>2, <1>3, <1>4, <1>5, <1>6, <1>7, <1>8,
     <1>9, <1>10, <1>11, <1>12, <1>13, <1>14, <1>15 DEF IInv

\* The end of a lease keeps the invariant: its generation loses exactly
\* one user.
LEMMA StepReleased ==
  ASSUME IInv, NEW c \in Callers, Released(c)
  PROVE  IInv'
<1>0. /\ TypeOK /\ Gated /\ Mounting /\ Empty /\ BootAlone /\ LockMine /\ SameLog
      /\ WritingOK /\ RowsOK /\ Selected /\ CandOK /\ DropOK /\ UsersOK
      /\ Answered /\ OnlyFaultsBlock /\ Typed
  BY TypesAre DEF IInv
<1>g. /\ call[c].at = "releasing" /\ call[c].on \in Gens /\ c \in Users(call[c].on)
  BY <1>0 DEF Released, Mounting, At, Users
<1>users. /\ gen[call[c].on].users > 0 /\ gen[call[c].on].state \in {"current", "retired"}
          /\ lock = "mine"
          /\ IsFiniteSet(Users(call[c].on)) /\ gen[call[c].on].users = Cardinality(Users(call[c].on))
          /\ gen[call[c].on].users \in Nat
  <2>1. /\ IsFiniteSet(Users(call[c].on)) /\ gen[call[c].on].users = Cardinality(Users(call[c].on))
        /\ Users(call[c].on) # {} => gen[call[c].on].state \in {"current", "retired"} /\ lock = "mine"
    BY <1>0, <1>g DEF UsersOK
  <2>2. Cardinality(Users(call[c].on)) \in Nat /\ Cardinality(Users(call[c].on)) # 0
    BY <1>g, <2>1, FS_EmptySet, FS_CardinalityType
  <2> QED
    BY <1>g, <2>1, <2>2
<1>do. /\ call[c].at = "releasing"
       /\ UNCHANGED <<log, lock, records, failure, current, cands, blocked, star, life,
                       boot, gate, starts, done, dropped, unsure, faulted>>
  BY DEF Released
<1>call. Others(c) /\ call'[c].at = "idle" /\ call' \in [Callers -> CallType]
  BY <1>0, EndIs DEF Released
<1>gen. /\ OtherGens(call[c].on) /\ gen' \in [Gens -> GenType]
        /\ gen'[call[c].on].of = gen[call[c].on].of /\ gen'[call[c].on].exp = gen[call[c].on].exp
        /\ gen'[call[c].on].users = gen[call[c].on].users - 1
        /\ gen'[call[c].on].state = IF gen[call[c].on].state = "retired" /\ gen[call[c].on].users = 1
                                    THEN "cleaning" ELSE gen[call[c].on].state
  <2>1. gen' = LeaveUse(gen, call[c].on)
    BY DEF Released
  <2> QED
    BY <1>0, <1>g, <1>users, <2>1, LeaveUseIs
<1>types. call' \in [Callers -> CallType] /\ gen' \in [Gens -> GenType]
  BY <1>call, <1>gen
<1>run. Running' <=> Running
  BY <1>do DEF Running
<1>free. boot = "done" /\ ~Unread
  BY <1>0, <1>do, <1>users DEF BootAlone, Empty, At
<1>same. \A f \in Gens : gen'[f].of = gen[f].of /\ gen'[f].exp = gen[f].exp
  BY <1>gen DEF OtherGens
<1>1. TypeOK'
  BY <1>0, <1>do, <1>types DEF TypeOK, CallType, GenType
<1>2. Gated'
  BY <1>0, <1>do, <1>call DEF Gated, HasGate, At, Running, Others
<1>3. Mounting'
  <2>1. \A d \in Callers : call'[d].at = "mounting" => d # c /\ call[d].at = "mounting" /\ call'[d] = call[d]
    BY <1>call DEF Others
  <2>2. \A d \in Callers : call[d].at = "mounting" => gen'[call[d].on].state = "mounting"
    <3>1. \A d \in Callers : call[d].at = "mounting" => call[d].on \in Gens /\ call[d].on # call[c].on
      BY <1>0, <1>users DEF Mounting, At
    <3> QED
      BY <1>0, <1>gen, <3>1 DEF Mounting, OtherGens
  <2> QED
    BY <1>0, <1>g, <1>call, <2>1, <2>2 DEF Mounting, Others, At
<1>4. Empty'
  BY <1>0, <1>do, <1>call, <1>gen, <1>free DEF Empty, Unread, At, Others, OtherGens, Unread
<1>5. BootAlone'
  BY <1>0, <1>do, <1>call, <1>free DEF BootAlone, Running, At, Others
<1>6. LockMine'
  BY <1>0, <1>do, <1>call DEF LockMine, Unread, Running, Others
<1>7. SameLog'
  BY <1>0, <1>do, <1>call, <1>gen, SameLogKept, <1>same DEF Mounting, At, Others, OtherGens
<1>8. WritingOK'
  BY <1>0, <1>do, <1>call, <1>gen, WritingKept, <1>same DEF At, Mounting, Others, OtherGens
<1>9. RowsOK'
  BY <1>0, <1>do, <1>gen, RowsKept, <1>users, <1>g DEF Typed, OtherGens
<1>10. Selected'
  BY <1>0, <1>do, <1>gen, SelectedKept, <1>users, <1>g DEF Typed, OtherGens
<1>11. CandOK'
  <2>1. ASSUME NEW f \in cands
        PROVE  /\ gen'[f].state \notin {"none", "mounting"}
               /\ Running => gen'[f].state = "ready"
    <3>1. f \in Gens /\ gen[f].state \notin {"none", "mounting"} /\ (Running => gen[f].state = "ready")
      BY <1>0 DEF CandOK, Typed
    <3> QED
      BY <1>g, <1>users, <1>gen, <3>1 DEF OtherGens
  <2> QED
    BY <1>0, <1>do, <1>call, <1>run, <2>1 DEF CandOK, Others
<1>12. DropOK'
  BY <1>0, <1>do, <1>call, <1>gen, DropKept, <1>users, <1>g DEF Typed, Others, OtherGens
<1>13. UsersOK'
  <2>0. PICK g \in Gens : g = call[c].on
    BY <1>g
  <2>1. Users(g)' = Users(g) \ {c}
    BY <2>0, <1>do, <1>call DEF Users, Others
  <2>2. \A f \in Gens : f # g => Users(f)' = Users(f)
    <3>1. ASSUME NEW f \in Gens, f # g PROVE \A d \in Callers : d \in Users(f)' <=> d \in Users(f)
      BY <2>0, <1>do, <1>call, <3>1 DEF Users, Others
    <3> QED
      BY <3>1 DEF Users
  <2>4. IsFiniteSet(Users(g) \ {c})
        /\ gen'[g].users = Cardinality(Users(g) \ {c})
    BY <2>0, <1>g, <1>users, <1>gen, FS_RemoveElement
  <2>5. gen'[g].state = "retired" => gen'[g].users > 0
    BY <2>0, <1>users, <1>gen
  <2>6. Users(g) \ {c} # {} => gen'[g].state \in {"current", "retired"}
    <3>1. Users(g) \ {c} # {} => Cardinality(Users(g) \ {c}) # 0
      BY <2>4, FS_EmptySet
    <3> QED
      BY <2>0, <1>users, <1>gen, <2>4, <3>1
  <2> QED
    BY <2>0, <1>0, <1>do, <1>g, <1>users, <1>gen, <2>1, <2>2, <2>4, <2>5, <2>6 DEF UsersOK, OtherGens
<1>14. Answered'
  BY <1>0, <1>do DEF Answered
<1>15. OnlyFaultsBlock'
  BY <1>0, <1>do DEF OnlyFaultsBlock
<1> QED
  BY <1>1, <1>2, <1>3, <1>4, <1>5, <1>6, <1>7, <1>8,
     <1>9, <1>10, <1>11, <1>12, <1>13, <1>14, <1>15 DEF IInv

\* The end of a cleanup keeps the invariant.
LEMMA StepDispose ==
  ASSUME IInv, NEW g \in Gens, Dispose(g)
  PROVE  IInv'
<1>0. /\ TypeOK /\ Gated /\ Mounting /\ Empty /\ BootAlone /\ LockMine /\ SameLog
      /\ WritingOK /\ RowsOK /\ Selected /\ CandOK /\ DropOK /\ UsersOK
      /\ Answered /\ OnlyFaultsBlock /\ Typed
  BY TypesAre DEF IInv
<1>do. /\ gen[g].state = "cleaning"
       /\ UNCHANGED <<log, lock, records, failure, current, cands, blocked, star, life,
                       boot, gate, call, starts, done, dropped, unsure, faulted>>
  BY DEF Dispose
<1>none. gen[g].users = 0
  BY <1>0, <1>do, NoUsers
<1>gen. OtherGens(g) /\ gen' \in [Gens -> GenType] /\ gen'[g].state = "gone" /\ gen'[g].users = 0
  BY <1>0 DEF Dispose, TypeOK, OtherGens, GenType, Gone, Unmounted, States
<1>types. gen' \in [Gens -> GenType]
  BY <1>gen
<1>writing. \A d \in Callers : At(d, {"writing", "written"}) => call[d].on \in cands /\ call[d].on # g /\ call[d].on \in Gens
  <2>1. \A d \in Callers : At(d, {"writing", "written"}) => Running /\ call[d].on \in cands
    BY <1>0 DEF Gated, HasGate, WritingOK, At
  <2> QED
    BY <1>0, <1>do, <2>1 DEF CandOK, Typed
<1>users. \A f \in Gens : Users(f)' = Users(f)
  BY <1>do DEF Users
<1>1. TypeOK'
  BY <1>0, <1>do, <1>types DEF TypeOK, CallType, GenType
<1>2. Gated'
  BY <1>0, <1>do DEF Gated, HasGate, At, Running
<1>3. Mounting'
  BY <1>0, <1>do, <1>gen DEF Mounting, At, Typed, OtherGens
<1>4. Empty'
  BY <1>0, <1>do, <1>gen DEF Empty, Unread, At, OtherGens
<1>5. BootAlone'
  BY <1>0, <1>do DEF BootAlone, Running, At
<1>6. LockMine'
  BY <1>0, <1>do DEF LockMine, Unread, Running
<1>7. SameLog'
  BY <1>0, <1>do, <1>gen, SameLogKept, <1>writing DEF At, OtherGens
<1>8. WritingOK'
  BY <1>0, <1>do, <1>gen, WritingKept, <1>writing DEF At, OtherGens
<1>9. RowsOK'
  BY <1>0, <1>do, <1>gen, RowsKept DEF OtherGens
<1>10. Selected'
  BY <1>0, <1>do, <1>gen, SelectedKept DEF OtherGens
<1>11. CandOK'
  <2>1. ASSUME NEW f \in cands
        PROVE  /\ gen'[f].state \notin {"none", "mounting"}
               /\ Running => gen'[f].state = "ready"
    <3>1. f \in Gens /\ gen[f].state \notin {"none", "mounting"} /\ (Running => gen[f].state = "ready")
      BY <1>0 DEF CandOK, Typed
    <3> QED
      BY <1>do, <1>gen, <3>1 DEF OtherGens
  <2> QED
    BY <1>0, <1>do, <2>1 DEF CandOK, Running
<1>12. DropOK'
  BY <1>0, <1>do, <1>gen, DropKept DEF OtherGens
<1>13. UsersOK'
  BY <1>0, <1>do, <1>none, <1>gen, <1>users, UsersKept DEF OtherGens
<1>14. Answered'
  BY <1>0, <1>do DEF Answered
<1>15. OnlyFaultsBlock'
  BY <1>0, <1>do DEF OnlyFaultsBlock
<1> QED
  BY <1>1, <1>2, <1>3, <1>4, <1>5, <1>6, <1>7, <1>8,
     <1>9, <1>10, <1>11, <1>12, <1>13, <1>14, <1>15 DEF IInv

\* The disk has failed: the store refuses everything from now on.
LEMMA WriteFails ==
  ASSUME IInv, NEW c \in Callers, At(c, {"writing", "written"}), CommitFails(c), faulted' = TRUE,
         unsure' = unsure \/ unsure' = unsure \cup {call[c].on},
         call[c].at = "written" => call[c].on \in unsure',
         UNCHANGED <<log, lock, records, gen, current, cands, star, life, boot,
                       starts, done, dropped>>
  PROVE  IInv'
<1>0. /\ TypeOK /\ Gated /\ Mounting /\ Empty /\ BootAlone /\ LockMine /\ SameLog
      /\ WritingOK /\ RowsOK /\ Selected /\ CandOK /\ DropOK /\ UsersOK
      /\ Answered /\ OnlyFaultsBlock /\ Typed
  BY TypesAre DEF IInv
<1>do. /\ At(c, {"writing", "written"}) /\ failure' = TRUE /\ faulted' = TRUE
       /\ unsure \subseteq unsure' /\ (call[c].at = "written" => call[c].on \in unsure')
       /\ UNCHANGED <<log, lock, records, gen, current, cands, star, life, boot,
                       starts, done, dropped>>
  BY DEF CommitFails
<1>call. Others(c) /\ call'[c].at = "idle" /\ call' \in [Callers -> CallType]
  BY <1>0, EndIs DEF CommitFails
<1>alone. /\ \A d \in Callers : At(d, {"writing", "written", "retrying", "checking"}) => d = c
          /\ Running /\ HasGate(c)
  BY <1>0, <1>do DEF Gated, HasGate, At
<1>free. boot = "done" /\ ~Unread /\ lock = "mine"
  BY <1>0, <1>do, <1>alone DEF BootAlone, Empty, At, LockMine
<1>g. /\ call[c].on \in Gens /\ call[c].on \in cands /\ Valid(call[c].on) /\ gen[call[c].on].state = "ready"
  BY <1>0, <1>do, <1>alone DEF WritingOK, CandOK, At, Typed
<1>types. /\ call' \in [Callers -> CallType] /\ gate' \in Seq(Callers) /\ unsure' \subseteq Gens
         /\ blocked' \in [Harnesses -> {"no", "contract", "damaged", "failed"}]
  <2>1. gate' \in Seq(Callers)
    BY <1>0, <1>alone, LeaveGate DEF CommitFails
  <2>2. blocked' \in [Harnesses -> {"no", "contract", "damaged", "failed"}]
    BY <1>0 DEF TypeOK, CommitFails
  <2>3. unsure' \subseteq Gens
    BY <1>0, <1>g DEF TypeOK
  <2> QED
    BY <1>call, <2>1, <2>2, <2>3
<1>1. TypeOK'
  BY <1>0, <1>do, <1>types DEF TypeOK, CallType, GenType
<1>2. Gated'
  BY <1>0, <1>do, <1>call, <1>alone DEF Gated, At, Others, HasGate, Running
<1>3. Mounting'
  BY <1>0, <1>do, <1>call DEF Mounting, At, Typed, Others
<1>4. Empty'
  BY <1>0, <1>do, <1>call, <1>free DEF Empty, Unread, At, Others
<1>5. BootAlone'
  BY <1>0, <1>do, <1>call, <1>free DEF BootAlone, Running, At, Others
<1>6. LockMine'
  BY <1>0, <1>do, <1>call DEF LockMine, Unread, Running, Others
<1>7. SameLog'
  BY <1>do, <1>call, <1>alone DEF SameLog, Others, At
<1>8. WritingOK'
  BY <1>0, <1>do, <1>call, WritingKept DEF At, Others
<1>9. RowsOK'
  BY <1>0, <1>do, RowsKept
<1>10. Selected'
  BY <1>0, <1>do, SelectedKept
<1>11. CandOK'
  <2>1. ASSUME NEW f \in cands, Recorded(log, f) PROVE f \in unsure'
    BY <1>0, <1>do, <1>alone, <2>1 DEF CandOK, At
  <2> QED
    BY <1>0, <1>do, <2>1 DEF CandOK, Running
<1>12. DropOK'
  <2>1. \A f \in Gens : OutOfUse(f) => OutOfUse(f)'
    BY <1>do DEF OutOfUse
  <2>3. \A d \in Callers : call[d].at = "dropped" => call[d].on \in Gens
    BY <1>0 DEF Mounting, At
  <2> QED
    BY <1>0, <1>do, <1>call, <2>1, <2>3 DEF DropOK, Others, Typed
<1>13. UsersOK'
  <2>1. \A f \in Gens : Users(f)' = Users(f)
    BY <1>0, <1>do, <1>call, UsersStay DEF Leased, At
  <2> QED
    BY <1>0, <1>do, <2>1, UsersKept
<1>14. Answered'
  BY <1>0, <1>do DEF Answered
<1>15. OnlyFaultsBlock'
  BY <1>0, <1>do DEF OnlyFaultsBlock
<1> QED
  BY <1>1, <1>2, <1>3, <1>4, <1>5, <1>6, <1>7, <1>8,
     <1>9, <1>10, <1>11, <1>12, <1>13, <1>14, <1>15 DEF IInv

\* The row is written.
LEMMA RowWritten ==
  ASSUME IInv, NEW c \in Callers, call[c].at = "writing", Owned,
         log' = Append(log, RowOf(call[c].on, FALSE)), Goto(c, "written"),
         UNCHANGED <<lock, records, failure, gen, current, cands, blocked, star, life,
                       boot, gate, starts, done, dropped, unsure, faulted>>
  PROVE  IInv'
<1>0. /\ TypeOK /\ Gated /\ Mounting /\ Empty /\ BootAlone /\ LockMine /\ SameLog
      /\ WritingOK /\ RowsOK /\ Selected /\ CandOK /\ DropOK /\ UsersOK
      /\ Answered /\ OnlyFaultsBlock /\ Typed
  BY TypesAre DEF IInv
<1>do. /\ call[c].at = "writing" /\ ~failure
       /\ UNCHANGED <<lock, records, failure, gen, current, cands, blocked, star, life,
                       boot, gate, starts, done, dropped, unsure, faulted>>
  BY DEF Owned
<1>call. Others(c) /\ call'[c].at = "written" /\ call'[c].on = call[c].on /\ call' \in [Callers -> CallType]
  BY <1>0, GotoIs DEF Places
<1>alone. /\ \A d \in Callers : At(d, {"writing", "written", "retrying", "checking"}) => d = c
          /\ Running /\ HasGate(c)
  BY <1>0, <1>do DEF Gated, HasGate, At
<1>free. boot = "done" /\ ~Unread /\ lock = "mine"
  BY <1>0, <1>do, <1>alone DEF BootAlone, Empty, At, LockMine
<1>g. /\ call[c].on \in Gens /\ call[c].on \in cands /\ Valid(call[c].on) /\ gen[call[c].on].state = "ready"
  BY <1>0, <1>do, <1>alone DEF WritingOK, CandOK, At, Typed
<1>row. PICK r \in Row : log' = Append(log, r) /\ r = RowOf(call[c].on, FALSE)
                        /\ r.gen = call[c].on /\ r.of = gen[call[c].on].of
  <2>1. /\ RowOf(call[c].on, FALSE) \in Row /\ RowOf(call[c].on, FALSE).gen = call[c].on
        /\ RowOf(call[c].on, FALSE).of = gen[call[c].on].of
    BY <1>0, <1>g, RowIs
  <2> QED
    BY <2>1
<1>same. records = log
  BY <1>0, <1>do, <1>alone, <1>free DEF SameLog, Nobody, At
<1>log. /\ log' \in Seq(Row) /\ HasLast(log')
        /\ \A f \in Gens : Recorded(log', f) <=> Recorded(log, f) \/ f = call[c].on
  <2>1. log \in Seq(Row) /\ HasLast(log)
    BY <1>0 DEF TypeOK, RowsOK
  <2>2. /\ Append(log, r) \in Seq(Row) /\ HasLast(Append(log, r))
        /\ \A f \in Gens : Recorded(Append(log, r), f) <=> Recorded(log, f) \/ r.gen = f
    BY <2>1, LongerLog
  <2> QED
    BY <1>row, <2>2
<1>new. ~Recorded(log, call[c].on)
  BY <1>g, <1>same DEF Valid
<1>types. call' \in [Callers -> CallType] /\ log' \in Seq(Row)
  BY <1>call, <1>log
<1>1. TypeOK'
  BY <1>0, <1>do, <1>types DEF TypeOK, CallType, GenType
<1>2. Gated'
  BY <1>0, <1>do, <1>call, <1>alone DEF Gated, At, Others, HasGate, Running
<1>3. Mounting'
  BY SMTT(30), <1>0, <1>do, <1>call DEF Mounting, At, Typed, Others
<1>4. Empty'
  BY <1>0, <1>do, <1>call, <1>free DEF Empty, Unread, At, Others
<1>5. BootAlone'
  BY <1>0, <1>do, <1>call, <1>free DEF BootAlone, Running, At, Others
<1>6. LockMine'
  BY <1>0, <1>do, <1>call DEF LockMine, Unread, Running, Others
<1>7. SameLog'
  <2>1. \A d \in Callers : call'[d].at = "written" => d = c
    BY <1>call, <1>alone DEF Others, At
  <2>2. log' = Append(records', RowOf(call[c].on, FALSE)')
    BY <1>do, <1>call, <1>row, <1>same DEF RowOf
  <2>3. ASSUME NEW d \in Callers, call'[d].at = "written"
        PROVE  ~failure' /\ log' = Append(records', RowOf(call[d].on, FALSE)')
    <3>1. d = c
      BY <2>1, <2>3
    <3> QED
      BY <1>do, <2>2, <3>1 DEF RowOf
  <2>4. ~Nobody("written")'
    BY <1>call DEF Nobody
  <2> QED
    BY <2>3, <2>4 DEF SameLog
<1>8. WritingOK'
  BY <1>0, <1>do, <1>call, WritingKept, <1>alone DEF At, Others
<1>9. RowsOK'
  <2>0. log \in Seq(Row) /\ log' = Append(log, r)
    BY <1>0, <1>row DEF TypeOK
  <2>1. /\ DOMAIN log' = 1..Len(log) + 1 /\ DOMAIN log = 1..Len(log) /\ Len(log) \in Nat
        /\ \A i \in DOMAIN log : log'[i] = log[i]
        /\ log'[Len(log) + 1] = r
        /\ \A i \in DOMAIN log' : i \in DOMAIN log \/ i = Len(log) + 1
    BY <2>0, RowAdded
  <2>4. \A i, j \in DOMAIN log' : log'[i].gen = log'[j].gen => i = j
    <3>1. (\A i, j \in DOMAIN log : log[i].gen = log[j].gen => i = j) /\ ~Recorded(log, r.gen)
      BY <1>0, <1>row, <1>new DEF RowsOK
    <3> QED
      BY <2>0, <3>1, StillUnique
  <2>5. ASSUME NEW i \in DOMAIN log'
        PROVE  /\ gen[log'[i].gen].state \notin {"none", "mounting"}
               /\ gen[log'[i].gen].state # "gone" => gen[log'[i].gen].of = log'[i].of
    <3>1. CASE i \in DOMAIN log
      <4>1. log'[i] = log[i]
        BY <2>1, <3>1
      <4> QED
        BY <1>0, <3>1, <4>1 DEF RowsOK
    <3>2. CASE i = Len(log) + 1
      BY <1>g, <1>row, <2>1, <3>2
    <3> QED
      BY <2>1, <3>1, <3>2
  <2>6. \A f \in Gens : Recorded(records, f) => Recorded(log', f)
    BY <1>same, <1>log
  <2>7. HasLast(records')
    BY <1>0, <1>do DEF RowsOK
  <2> QED
    BY <1>do, <1>free, <1>log, <2>4, <2>5, <2>6, <2>7 DEF RowsOK
<1>10. Selected'
  BY <1>0, <1>do, SelectedKept
<1>11. CandOK'
  <2>1. ASSUME NEW f \in cands, Recorded(log', f)
        PROVE  f \in unsure \/ \E d \in Callers : call'[d].at = "written" /\ call'[d].on = f
    <3>1. Recorded(log, f) => f \in unsure
      BY <1>0, <1>do, <1>alone DEF CandOK, At
    <3> QED
      BY <1>0, <1>call, <1>log, <2>1, <3>1 DEF Typed
  <2>2. ASSUME NEW f \in cands
        PROVE  gen[f].state \notin {"none", "mounting"} /\ (Running => gen[f].state = "ready")
    BY <1>0 DEF CandOK
  <2>3. Running' <=> Running
    BY <1>do DEF Running
  <2> QED
    BY <1>do, <2>1, <2>2, <2>3 DEF CandOK
<1>12. DropOK'
  <2>1. \A f \in Gens : OutOfUse(f) => OutOfUse(f)'
    BY <1>do, <1>g, <1>log DEF OutOfUse
  <2>3. \A d \in Callers : call[d].at = "dropped" => call[d].on \in Gens
    BY <1>0 DEF Mounting, At
  <2> QED
    BY <1>0, <1>do, <1>call, <2>1, <2>3 DEF DropOK, Others, Typed
<1>13. UsersOK'
  <2>1. \A f \in Gens : Users(f)' = Users(f)
    BY <1>0, <1>do, <1>call, UsersStay DEF Leased, At
  <2> QED
    BY <1>0, <1>do, <2>1, UsersKept
<1>14. Answered'
  BY <1>0, <1>do, <1>log DEF Answered, Typed
<1>15. OnlyFaultsBlock'
  BY <1>0, <1>do DEF OnlyFaultsBlock
<1> QED
  BY <1>1, <1>2, <1>3, <1>4, <1>5, <1>6, <1>7, <1>8,
     <1>9, <1>10, <1>11, <1>12, <1>13, <1>14, <1>15 DEF IInv

\* An append that is acknowledged keeps the invariant: records and
\* selection follow the log together.
LEMMA StepAcknowledge ==
  ASSUME IInv, NEW c \in Callers, Acknowledge(c)
  PROVE  IInv'
<1>0. /\ TypeOK /\ Gated /\ Mounting /\ Empty /\ BootAlone /\ LockMine /\ SameLog
      /\ WritingOK /\ RowsOK /\ Selected /\ CandOK /\ DropOK /\ UsersOK
      /\ Answered /\ OnlyFaultsBlock /\ Typed
  BY TypesAre DEF IInv
<1>do. /\ call[c].at = "written" /\ records' = Append(records, RowOf(call[c].on, FALSE))
       /\ UNCHANGED <<log, lock, star, life, boot, starts, dropped, unsure, faulted>>
  BY DEF Acknowledge
<1>alone. /\ \A d \in Callers : At(d, {"writing", "written", "retrying", "checking"}) => d = c
          /\ Running /\ HasGate(c)
  BY <1>0, <1>do DEF Gated, HasGate, At
<1>free. boot = "done" /\ ~Unread /\ lock = "mine"
  BY <1>0, <1>do, <1>alone DEF BootAlone, Empty, At, LockMine
<1>g. /\ call[c].on \in Gens /\ call[c].on \in cands /\ Valid(call[c].on) /\ gen[call[c].on].state = "ready"
  BY <1>0, <1>do, <1>alone DEF WritingOK, CandOK, At, Typed
<1>h. PICK h \in Harnesses : h = gen[call[c].on].of
  BY <1>0, <1>g DEF Typed
<1>log. ~failure /\ log = Append(records, RowOf(call[c].on, FALSE)) /\ log' = log /\ records' = log
  BY <1>0, <1>do DEF SameLog
<1>row. PICK r \in Row : /\ log = Append(records, r)
                        /\ r.gen = call[c].on /\ r.of = h /\ r.rev = gen[call[c].on].exp + 1
  <2>1. /\ RowOf(call[c].on, FALSE) \in Row /\ RowOf(call[c].on, FALSE).gen = call[c].on
        /\ RowOf(call[c].on, FALSE).of = h /\ RowOf(call[c].on, FALSE).rev = gen[call[c].on].exp + 1
    BY <1>0, <1>g, <1>h, RowIs
  <2> QED
    BY <1>log, <2>1
<1>rows. /\ \A f \in Gens : Recorded(log, f) <=> Recorded(records, f) \/ f = call[c].on
         /\ \A k \in Harnesses : k # h =>
               /\ Rows(log, k) = Rows(records, k)
               /\ Rows(records, k) # {} => LastRow(log, k) = LastRow(records, k)
         /\ Rows(log, h) # {} /\ LastRow(log, h) = r
  <2>1. records \in Seq(Row) /\ HasLast(records)
    BY <1>0 DEF TypeOK, RowsOK
  <2>2. /\ \A f \in Gens : Recorded(Append(records, r), f) <=> Recorded(records, f) \/ r.gen = f
        /\ \A k \in Harnesses : k # r.of =>
               /\ Rows(Append(records, r), k) = Rows(records, k)
               /\ Rows(records, k) # {} => LastRow(Append(records, r), k) = LastRow(records, k)
        /\ Rows(Append(records, r), r.of) # {} /\ LastRow(Append(records, r), r.of) = r
    BY <2>1, LongerLog
  <2> QED
    BY <1>row, <2>2
<1>can. /\ CanPublish(call[c].on)
        /\ current[h] # None => /\ current[h] \in Gens /\ gen[current[h]].state = "current"
                               /\ gen[current[h]].of = h /\ current[h] # call[c].on
  <2>1. current[h] # None => /\ current[h] \in Gens /\ gen[current[h]].state = "current"
                             /\ gen[current[h]].of = h /\ current[h] # call[c].on
    BY <1>0, <1>g DEF Selected, Typed
  <2>2. current[h] # None => Rows(records, h) # {} /\ LastRow(records, h).rev = gen[current[h]].exp + 1
    BY <1>0 DEF Selected
  <2>3. Rev(records, h) = gen[call[c].on].exp
    BY <1>g, <1>h DEF Valid
  <2> QED
    BY <1>g, <1>h, <2>1, <2>2, <2>3 DEF CanPublish, Rev
<1>call. Others(c) /\ call'[c].at = "idle" /\ call' \in [Callers -> CallType]
  BY <1>0, <1>can, EndIs DEF Acknowledge
<1>after. /\ Leave /\ cands' = cands \ {call[c].on} /\ done' = done \cup {call[c].on}
          /\ failure' = failure /\ blocked' = [blocked EXCEPT ![h] = "no"]
          /\ current' = [current EXCEPT ![h] = call[c].on]
          /\ gen' = IF current[h] = None THEN [gen EXCEPT ![call[c].on].state = "current"]
                    ELSE Retire([gen EXCEPT ![call[c].on].state = "current"], current[h])
  BY <1>h, <1>can DEF Acknowledge, Publish
<1>gen. /\ gen' \in [Gens -> GenType]
        /\ \A f \in Gens : f # call[c].on /\ f # current[h] => gen'[f] = gen[f]
        /\ \A f \in Gens : gen'[f].of = gen[f].of /\ gen'[f].exp = gen[f].exp /\ gen'[f].users = gen[f].users
        /\ gen'[call[c].on].state = "current"
        /\ current[h] # None =>
             gen'[current[h]].state = IF gen[current[h]].users = 0 THEN "cleaning" ELSE "retired"
  <2> DEFINE G == [gen EXCEPT ![call[c].on].state = "current"]
  <2>1. /\ G \in [Gens -> GenType]
        /\ \A f \in Gens : f # call[c].on => G[f] = gen[f]
        /\ \A f \in Gens : G[f].of = gen[f].of /\ G[f].exp = gen[f].exp /\ G[f].users = gen[f].users
        /\ G[call[c].on].state = "current"
    <3>1. gen \in [Gens -> GenType] /\ "current" \in States
      BY <1>0 DEF TypeOK, GenType, States
    <3> QED
      BY <1>g, <3>1, StateIs
  <2>2. gen' = IF current[h] = None THEN G ELSE Retire(G, current[h])
    BY <1>after
  <2> HIDE DEF G
  <2>3. CASE current[h] = None
    BY <2>1, <2>2, <2>3
  <2>4. CASE current[h] # None
    <3>1. /\ Retire(G, current[h]) \in [Gens -> GenType]
          /\ \A f \in Gens : f # current[h] => Retire(G, current[h])[f] = G[f]
          /\ Retire(G, current[h])[current[h]].of = G[current[h]].of
          /\ Retire(G, current[h])[current[h]].exp = G[current[h]].exp
          /\ Retire(G, current[h])[current[h]].users = G[current[h]].users
          /\ Retire(G, current[h])[current[h]].state = IF G[current[h]].users = 0 THEN "cleaning" ELSE "retired"
      BY <1>can, <2>1, <2>4, RetireIs
    <3> QED
      BY <1>g, <1>can, <2>1, <2>2, <2>4, <3>1
  <2> QED
    BY <2>3, <2>4
<1>types. /\ call' \in [Callers -> CallType] /\ gen' \in [Gens -> GenType] /\ records' \in Seq(Row)
         /\ gate' \in Seq(Callers) /\ cands' \subseteq Gens /\ done' \subseteq Gens
         /\ current' \in [Harnesses -> Gens \cup {None}] /\ failure' \in BOOLEAN
         /\ blocked' \in [Harnesses -> {"no", "contract", "damaged", "failed"}]
  <2>1. gate' \in Seq(Callers)
    BY <1>0, <1>alone, <1>after, LeaveGate
  <2>2. records' \in Seq(Row) /\ failure' \in BOOLEAN
    BY <1>0, <1>log, <1>after DEF TypeOK
  <2>3. cands' \subseteq Gens /\ done' \subseteq Gens
    BY <1>0, <1>g, <1>after DEF Typed
  <2>4. /\ current' \in [Harnesses -> Gens \cup {None}]
        /\ blocked' \in [Harnesses -> {"no", "contract", "damaged", "failed"}]
    BY <1>0, <1>g, <1>after DEF TypeOK
  <2> QED
    BY <1>call, <1>gen, <2>1, <2>2, <2>3, <2>4
<1>cands. \A f \in cands : f # call[c].on => gen'[f] = gen[f] /\ f # current[h]
  <2>1. \A f \in cands : f \in Gens /\ gen[f].state = "ready"
    BY <1>0, <1>alone DEF CandOK, Typed
  <2>2. \A f \in cands : f # current[h]
    BY <1>can, <2>1
  <2> QED
    BY <1>gen, <2>1, <2>2
<1>run. Running' <=> Running
  BY <1>do DEF Running
<1>known. \A f \in Gens : gen[f].state \notin {"none", "mounting"} =>
           gen'[f].state \notin {"none", "mounting"}
  BY <1>can, <1>gen
<1>1. TypeOK'
  BY <1>0, <1>do, <1>types DEF TypeOK, CallType, GenType
<1>2. Gated'
  BY <1>0, <1>do, <1>call, <1>alone DEF Gated, At, Others, HasGate, Running
<1>3. Mounting'
  <2>1. \A d \in Callers : call'[d].at = "mounting" => d # c /\ call[d].at = "mounting" /\ call'[d] = call[d]
    BY <1>call DEF Others
  <2>2. \A d \in Callers : call[d].at = "mounting" => gen'[call[d].on].state = "mounting"
    <3>1. \A d \in Callers : call[d].at = "mounting" =>
             gen[call[d].on].state = "mounting" /\ call[d].on \in Gens /\ call[d].on # call[c].on /\ call[d].on # current[h]
      BY <1>0, <1>g, <1>can DEF Mounting, At
    <3> QED
      BY <1>gen, <3>1
  <2> QED
    BY <1>0, <1>g, <1>call, <2>1, <2>2 DEF Mounting, Others, At
<1>4. Empty'
  BY <1>0, <1>do, <1>free DEF Empty, Unread
<1>5. BootAlone'
  BY <1>do, <1>free DEF BootAlone
<1>6. LockMine'
  BY <1>0, <1>do, <1>call, <1>free DEF LockMine, Others
<1>7. SameLog'
  <2>1. Nobody("written")'
    BY <1>call, <1>alone DEF Others, At, Nobody
  <2> QED
    BY <1>log, <2>1 DEF SameLog, Nobody
<1>8. WritingOK'
  BY <1>call, <1>alone DEF WritingOK, Others, At
<1>9. RowsOK'
  <2>1. HasLast(log) /\ (\A i, j \in DOMAIN log : log[i].gen = log[j].gen => i = j)
    BY <1>0 DEF RowsOK
  <2>2. ASSUME NEW i \in DOMAIN log
        PROVE  /\ gen'[log[i].gen].state \notin {"none", "mounting"}
               /\ gen'[log[i].gen].state # "gone" => gen'[log[i].gen].of = log[i].of
    <3>1. /\ log[i].gen \in Gens /\ gen[log[i].gen].state \notin {"none", "mounting"}
          /\ gen[log[i].gen].state # "gone" => gen[log[i].gen].of = log[i].of
      BY <1>0 DEF RowsOK, Typed
    <3>2. gen'[log[i].gen].state # "gone" => gen[log[i].gen].state # "gone"
      BY <1>g, <1>can, <1>gen, <3>1
    <3> QED
      BY <1>gen, <1>known, <3>1, <3>2
  <2> QED
    BY <1>do, <1>log, <1>free, <2>1, <2>2 DEF RowsOK
<1>10. Selected'
  <2>1. ASSUME NEW k \in Harnesses, current'[k] # None
        PROVE  /\ gen'[current'[k]].state = "current" /\ gen'[current'[k]].of = k
               /\ Rows(log, k) # {}
               /\ LastRow(log, k).gen = current'[k]
               /\ LastRow(log, k).rev = gen'[current'[k]].exp + 1
    <3>1. CASE k = h
      <4>1. current'[k] = call[c].on
        BY <1>0, <1>after, <3>1 DEF TypeOK
      <4>2. /\ gen'[call[c].on].state = "current" /\ gen'[call[c].on].of = h
            /\ gen'[call[c].on].exp = gen[call[c].on].exp
        BY <1>g, <1>h, <1>gen
      <4>3. Rows(log, h) # {} /\ LastRow(log, h) = r
        BY <1>rows
      <4>4. r.gen = call[c].on /\ r.rev = gen[call[c].on].exp + 1
        BY <1>row
      <4> QED
        BY <3>1, <4>1, <4>2, <4>3, <4>4
    <3>2. CASE k # h
      <4>1. current'[k] = current[k] /\ current[k] # None /\ current[k] \in Gens
        BY <1>0, <1>after, <2>1, <3>2 DEF TypeOK, Typed
      <4>2. /\ gen[current[k]].state = "current" /\ gen[current[k]].of = k
            /\ Rows(records, k) # {}
            /\ LastRow(records, k).gen = current[k]
            /\ LastRow(records, k).rev = gen[current[k]].exp + 1
        BY <1>0, <4>1 DEF Selected
      <4>3. gen'[current[k]] = gen[current[k]]
        BY <1>g, <1>can, <1>gen, <3>2, <4>1, <4>2
      <4> QED
        BY <1>rows, <3>2, <4>1, <4>2, <4>3
    <3> QED
      BY <3>1, <3>2
  <2>2. ASSUME NEW f \in Gens, gen'[f].state = "current" PROVE current'[gen'[f].of] = f
    <3>1. CASE f = call[c].on
      BY <1>0, <1>h, <1>after, <1>gen, <3>1 DEF TypeOK
    <3>2. CASE f # call[c].on
      <4>1. f # current[h] /\ gen'[f] = gen[f]
        BY <1>can, <1>gen, <2>2, <3>2
      <4>2. current[gen[f].of] = f /\ gen[f].of \in Harnesses
        BY <1>0, <2>2, <4>1 DEF Selected, Typed
      <4>3. gen[f].of # h
        BY <4>1, <4>2
      <4> QED
        BY <1>0, <1>after, <4>1, <4>2, <4>3 DEF TypeOK
    <3> QED
      BY <3>1, <3>2
  <2> QED
    BY <1>log, <2>1, <2>2 DEF Selected
<1>11. CandOK'
  <2>1. ASSUME NEW f \in cands'
        PROVE  /\ gen'[f].state \notin {"none", "mounting"} /\ (Running => gen'[f].state = "ready")
               /\ Recorded(log, f) => f \in unsure
    <3>1. f \in cands /\ f # call[c].on /\ gen'[f] = gen[f]
      BY <1>after, <1>cands, <2>1
    <3>2. ~ \E d \in Callers : call[d].at = "written" /\ call[d].on = f
      BY <1>alone, <3>1 DEF At
    <3> QED
      BY <1>0, <3>1, <3>2 DEF CandOK
  <2> QED
    BY <1>do, <1>run, <2>1 DEF CandOK
<1>12. DropOK'
  <2>1. \A f \in Gens : OutOfUse(f) => OutOfUse(f)'
    BY <1>do, <1>after, <1>known DEF OutOfUse
  <2>3. \A d \in Callers : call[d].at = "dropped" => call[d].on \in Gens
    BY <1>0 DEF Mounting, At
  <2> QED
    BY <1>0, <1>do, <1>call, <2>1, <2>3 DEF DropOK, Others, Typed
<1>13. UsersOK'
  <2>1. \A f \in Gens : Users(f)' = Users(f)
    BY <1>0, <1>do, <1>call, UsersStay DEF Leased
  <2>2. \A f \in Gens :
           /\ gen'[f].users = gen[f].users
           /\ gen'[f].state = "retired" => gen[f].state = "retired" \/ gen[f].users > 0
           /\ gen[f].users > 0 /\ gen[f].state \in {"current", "retired"} =>
                 gen'[f].state \in {"current", "retired"}
    BY <1>0, <1>g, <1>can, <1>gen DEF Typed
  <2> QED
    BY <1>0, <1>do, <2>1, <2>2, UsersKept
<1>14. Answered'
  <2>1. \A f \in done' : f \in done \/ f = call[c].on
    BY <1>after
  <2>2. \A f \in done : Recorded(log, f)
    BY <1>0 DEF Answered
  <2>3. Recorded(log, call[c].on)
    BY <1>g, <1>rows
  <2> QED
    BY <1>do, <2>1, <2>2, <2>3 DEF Answered
<1>15. OnlyFaultsBlock'
  BY <1>0, <1>do, <1>after DEF OnlyFaultsBlock, TypeOK
<1> QED
  BY <1>1, <1>2, <1>3, <1>4, <1>5, <1>6, <1>7, <1>8,
     <1>9, <1>10, <1>11, <1>12, <1>13, <1>14, <1>15 DEF IInv

\* The store is opened and its rows are read.
LEMMA Opened ==
  ASSUME IInv, boot = "open", lock = "free", lock' = "mine", records' = log, boot' = "load", star' = "no",
         UNCHANGED <<log, failure, gen, current, cands, blocked, life, gate, call,
                       starts, done, dropped, unsure, faulted>>
  PROVE  IInv'
<1>0. /\ TypeOK /\ Gated /\ Mounting /\ Empty /\ BootAlone /\ LockMine /\ SameLog
      /\ WritingOK /\ RowsOK /\ Selected /\ CandOK /\ DropOK /\ UsersOK
      /\ Answered /\ OnlyFaultsBlock /\ Typed
  BY TypesAre DEF IInv
<1>do. /\ boot = "open" /\ boot' = "load" /\ star' = "no" /\ lock = "free" /\ lock' = "mine" /\ records' = log
       /\ UNCHANGED <<log, failure, gen, current, cands, blocked, life, gate, call,
                       starts, done, dropped, unsure, faulted>>
  OBVIOUS
<1>free. /\ Running /\ Unread /\ life # "down" /\ cands = {} /\ ~failure
         /\ \A c \in Callers : At(c, {"idle", "asking", "retrying"})
         /\ \A h \in Harnesses : current[h] = None
         /\ \A g \in Gens : gen[g].state \in {"none", "gone"}
         /\ HasLast(log)
  BY <1>0, <1>do DEF BootAlone, Unread, Running, Empty, RowsOK
<1>read. ~Unread'
  BY <1>do, <1>free DEF Unread
<1>users. \A f \in Gens : Users(f)' = Users(f)
  BY <1>do DEF Users
<1>run. Running' <=> Running
  BY <1>do DEF Running
<1>1. TypeOK'
  BY <1>0, <1>do DEF TypeOK
<1>2. Gated'
  BY <1>0, <1>do DEF Gated, HasGate, At, Running
<1>3. Mounting'
  BY <1>0, <1>do DEF Mounting, At, Typed
<1>4. Empty'
  BY <1>do, <1>free, <1>read DEF Empty
<1>5. BootAlone'
  <2>1. \/ \E c \in Callers : call[c].at = "retrying"
        \/ life = "up" /\ cands = {} /\ \A c \in Callers : call[c].at = "idle"
    BY <1>0, <1>do DEF BootAlone
  <2> QED
    BY <1>do, <1>free, <1>run, <2>1 DEF BootAlone, At
<1>6. LockMine'
  BY <1>0, <1>do DEF LockMine, Unread, Running
<1>7. SameLog'
  BY <1>do, <1>free DEF SameLog, At
<1>8. WritingOK'
  BY <1>do, <1>free DEF WritingOK, At
<1>9. RowsOK'
  <2>1. \A i \in DOMAIN log : log[i].gen \in Gens
    BY <1>0 DEF Typed
  <2> QED
    BY <1>0, <1>do, <1>free, <2>1 DEF RowsOK
<1>10. Selected'
  BY <1>do, <1>free DEF Selected
<1>11. CandOK'
  BY <1>do, <1>free DEF CandOK
<1>12. DropOK'
  BY <1>0, <1>do, DropKept
<1>13. UsersOK'
  BY <1>0, <1>do, UsersKept, <1>users
<1>14. Answered'
  BY <1>0, <1>do DEF Answered
<1>15. OnlyFaultsBlock'
  BY <1>0, <1>do DEF OnlyFaultsBlock
<1> QED
  BY <1>1, <1>2, <1>3, <1>4, <1>5, <1>6, <1>7, <1>8,
     <1>9, <1>10, <1>11, <1>12, <1>13, <1>14, <1>15 DEF IInv

\* The rows cannot be read.
LEMMA OpenFails ==
  ASSUME IInv, boot = "open", lock = "free", lock' = "mine", failure' = TRUE, faulted' = TRUE, boot' = "done", star' = "broken",
         UNCHANGED <<log, records, gen, current, cands, blocked, life, gate, call,
                       starts, done, dropped, unsure>>
  PROVE  IInv'
<1>0. /\ TypeOK /\ Gated /\ Mounting /\ Empty /\ BootAlone /\ LockMine /\ SameLog
      /\ WritingOK /\ RowsOK /\ Selected /\ CandOK /\ DropOK /\ UsersOK
      /\ Answered /\ OnlyFaultsBlock /\ Typed
  BY TypesAre DEF IInv
<1>do. /\ boot = "open" /\ boot' = "done" /\ star' = "broken" /\ lock = "free" /\ lock' = "mine" /\ failure' = TRUE /\ faulted' = TRUE
       /\ UNCHANGED <<log, records, gen, current, cands, blocked, life, gate, call,
                       starts, done, dropped, unsure>>
  OBVIOUS
<1>free. /\ Running /\ Unread /\ life # "down"
         /\ \A c \in Callers : At(c, {"idle", "asking", "retrying"})
  BY <1>0, <1>do DEF BootAlone, Unread, Running, Empty
<1>read. ~Unread'
  BY <1>do, <1>free DEF Unread
<1>users. \A f \in Gens : Users(f)' = Users(f)
  BY <1>do DEF Users
<1>run. Running' <=> Running
  BY <1>do DEF Running
<1>1. TypeOK'
  BY <1>0, <1>do DEF TypeOK, CallType, GenType
<1>2. Gated'
  BY <1>0, <1>do DEF Gated, HasGate, At, Running
<1>3. Mounting'
  BY <1>0, <1>do DEF Mounting, At, Typed
<1>4. Empty'
  BY <1>do, <1>free, <1>read DEF Empty
<1>5. BootAlone'
  BY <1>0, <1>do DEF BootAlone, Running, At
<1>6. LockMine'
  BY <1>do, <1>free DEF LockMine, At
<1>7. SameLog'
  BY <1>do, <1>free DEF SameLog, At
<1>8. WritingOK'
  BY <1>0, <1>do, WritingKept DEF At
<1>9. RowsOK'
  BY <1>0, <1>do, RowsKept
<1>10. Selected'
  BY <1>0, <1>do, SelectedKept
<1>11. CandOK'
  BY <1>0, <1>do, CandKept DEF Running
<1>12. DropOK'
  BY <1>0, <1>do, DropKept
<1>13. UsersOK'
  BY <1>0, <1>do, UsersKept, <1>users
<1>14. Answered'
  BY <1>0, <1>do DEF Answered
<1>15. OnlyFaultsBlock'
  BY <1>0, <1>do DEF OnlyFaultsBlock
<1> QED
  BY <1>1, <1>2, <1>3, <1>4, <1>5, <1>6, <1>7, <1>8,
     <1>9, <1>10, <1>11, <1>12, <1>13, <1>14, <1>15 DEF IInv

\* Another host has the store.
LEMMA OpenLocked ==
  ASSUME IInv, boot = "open", lock # "free", boot' = "done", star' = "locked",
         UNCHANGED <<log, lock, records, failure, gen, current, cands, blocked, life,
                       gate, call, starts, done, dropped, unsure, faulted>>
  PROVE  IInv'
<1>0. /\ TypeOK /\ Gated /\ Mounting /\ Empty /\ BootAlone /\ LockMine /\ SameLog
      /\ WritingOK /\ RowsOK /\ Selected /\ CandOK /\ DropOK /\ UsersOK
      /\ Answered /\ OnlyFaultsBlock /\ Typed
  BY TypesAre DEF IInv
<1>do. /\ boot = "open" /\ boot' = "done" /\ star' = "locked"
       /\ UNCHANGED <<log, lock, records, failure, gen, current, cands, blocked, life,
                       gate, call, starts, done, dropped, unsure, faulted>>
  OBVIOUS
<1>free. /\ Running /\ Unread /\ life # "down"
         /\ \A c \in Callers : At(c, {"idle", "asking", "retrying"})
  BY <1>0, <1>do DEF BootAlone, Unread, Running, Empty
<1>read. Unread'
  BY <1>do DEF Unread
<1>users. \A f \in Gens : Users(f)' = Users(f)
  BY <1>do DEF Users
<1>run. Running' <=> Running
  BY <1>do DEF Running
<1>1. TypeOK'
  BY <1>0, <1>do DEF TypeOK, CallType, GenType
<1>2. Gated'
  BY <1>0, <1>do DEF Gated, HasGate, At, Running
<1>3. Mounting'
  BY <1>0, <1>do DEF Mounting, At, Typed
<1>4. Empty'
  BY <1>0, <1>do, <1>free, <1>read DEF Empty, At
<1>5. BootAlone'
  BY <1>0, <1>do DEF BootAlone, Running, At
<1>6. LockMine'
  BY <1>do, <1>free, <1>read DEF LockMine, At
<1>7. SameLog'
  BY <1>0, <1>do, SameLogKept
<1>8. WritingOK'
  BY <1>0, <1>do, WritingKept DEF At
<1>9. RowsOK'
  BY <1>0, <1>do, RowsKept
<1>10. Selected'
  BY <1>0, <1>do, SelectedKept
<1>11. CandOK'
  BY <1>0, <1>do, CandKept DEF Running
<1>12. DropOK'
  BY <1>0, <1>do, DropKept
<1>13. UsersOK'
  BY <1>0, <1>do, UsersKept, <1>users
<1>14. Answered'
  BY <1>0, <1>do DEF Answered
<1>15. OnlyFaultsBlock'
  BY <1>0, <1>do DEF OnlyFaultsBlock
<1> QED
  BY <1>1, <1>2, <1>3, <1>4, <1>5, <1>6, <1>7, <1>8,
     <1>9, <1>10, <1>11, <1>12, <1>13, <1>14, <1>15 DEF IInv

\* The end of the loading keeps the invariant: every harness with rows is
\* selected or blocked.
LEMMA StepLoaded ==
  ASSUME IInv, Loaded
  PROVE  IInv'
<1>0. /\ TypeOK /\ Gated /\ Mounting /\ Empty /\ BootAlone /\ LockMine /\ SameLog
      /\ WritingOK /\ RowsOK /\ Selected /\ CandOK /\ DropOK /\ UsersOK
      /\ Answered /\ OnlyFaultsBlock /\ Typed
  BY TypesAre DEF IInv
<1>do. /\ boot = "load" /\ boot' = "builtin"
       /\ UNCHANGED <<log, lock, records, failure, gen, current, cands, blocked, star,
                       life, gate, call, starts, done, dropped, unsure, faulted>>
  BY DEF Loaded
<1>free. /\ Running /\ star = "no" /\ ~Unread /\ lock = "mine"
         /\ \A c \in Callers : At(c, {"idle", "mounting", "authorizing", "queued", "dropping",
                                       "asking", "retrying"})
  BY <1>0, <1>do DEF BootAlone, Unread, Running, LockMine
<1>users. \A f \in Gens : Users(f)' = Users(f)
  BY <1>do DEF Users
<1>run. Running' <=> Running
  BY <1>do DEF Running
<1>1. TypeOK'
  BY <1>0, <1>do DEF TypeOK, CallType, GenType
<1>2. Gated'
  BY <1>0, <1>do DEF Gated, HasGate, At, Running
<1>3. Mounting'
  BY <1>0, <1>do DEF Mounting, At, Typed
<1>4. Empty'
  BY <1>0, <1>do, <1>free DEF Empty, Unread, Running
<1>5. BootAlone'
  BY <1>0, <1>do DEF BootAlone, Running, At
<1>6. LockMine'
  BY <1>0, <1>do DEF LockMine, Unread, Running
<1>7. SameLog'
  BY <1>0, <1>do, SameLogKept
<1>8. WritingOK'
  BY <1>0, <1>do, WritingKept DEF At
<1>9. RowsOK'
  BY <1>0, <1>do, RowsKept
<1>10. Selected'
  BY <1>0, <1>do, SelectedKept
<1>11. CandOK'
  BY <1>0, <1>do, CandKept DEF Running
<1>12. DropOK'
  BY <1>0, <1>do, DropKept
<1>13. UsersOK'
  BY <1>0, <1>do, UsersKept, <1>users
<1>14. Answered'
  BY <1>0, <1>do DEF Answered
<1>15. OnlyFaultsBlock'
  BY <1>0, <1>do DEF OnlyFaultsBlock
<1> QED
  BY <1>1, <1>2, <1>3, <1>4, <1>5, <1>6, <1>7, <1>8,
     <1>9, <1>10, <1>11, <1>12, <1>13, <1>14, <1>15 DEF IInv

\* A startup that leaves the builtin as it is keeps the invariant.
LEMMA StepKeepBuiltin ==
  ASSUME IInv, KeepBuiltin
  PROVE  IInv'
<1>0. /\ TypeOK /\ Gated /\ Mounting /\ Empty /\ BootAlone /\ LockMine /\ SameLog
      /\ WritingOK /\ RowsOK /\ Selected /\ CandOK /\ DropOK /\ UsersOK
      /\ Answered /\ OnlyFaultsBlock /\ Typed
  BY TypesAre DEF IInv
<1>do. /\ boot = "builtin" /\ boot' = "done"
       /\ UNCHANGED <<log, lock, records, failure, gen, current, cands, blocked, star,
                       life, gate, call, starts, done, dropped, unsure, faulted>>
  BY DEF KeepBuiltin
<1>free. /\ Running /\ star = "no" /\ ~Unread /\ lock = "mine"
         /\ \A c \in Callers : At(c, {"idle", "mounting", "authorizing", "queued", "dropping",
                                       "asking", "retrying"})
  BY <1>0, <1>do DEF BootAlone, Unread, Running, LockMine
<1>users. \A f \in Gens : Users(f)' = Users(f)
  BY <1>do DEF Users
<1>run. Running' <=> Running
  BY <1>do DEF Running
<1>1. TypeOK'
  BY <1>0, <1>do DEF TypeOK, CallType, GenType
<1>2. Gated'
  BY <1>0, <1>do DEF Gated, HasGate, At, Running
<1>3. Mounting'
  BY <1>0, <1>do DEF Mounting, At, Typed
<1>4. Empty'
  BY <1>0, <1>do, <1>free DEF Empty, Unread, Running
<1>5. BootAlone'
  BY <1>0, <1>do DEF BootAlone, Running, At
<1>6. LockMine'
  BY <1>0, <1>do DEF LockMine, Unread, Running
<1>7. SameLog'
  BY <1>0, <1>do, SameLogKept
<1>8. WritingOK'
  BY <1>0, <1>do, WritingKept DEF At
<1>9. RowsOK'
  BY <1>0, <1>do, RowsKept
<1>10. Selected'
  BY <1>0, <1>do, SelectedKept
<1>11. CandOK'
  BY <1>0, <1>do, CandKept DEF Running
<1>12. DropOK'
  BY <1>0, <1>do, DropKept
<1>13. UsersOK'
  BY <1>0, <1>do, UsersKept, <1>users
<1>14. Answered'
  BY <1>0, <1>do DEF Answered
<1>15. OnlyFaultsBlock'
  BY <1>0, <1>do DEF OnlyFaultsBlock
<1> QED
  BY <1>1, <1>2, <1>3, <1>4, <1>5, <1>6, <1>7, <1>8,
     <1>9, <1>10, <1>11, <1>12, <1>13, <1>14, <1>15 DEF IInv

\* A startup whose builtin cannot be mounted keeps the invariant.
LEMMA StepBuiltinFails ==
  ASSUME IInv, BuiltinFails
  PROVE  IInv'
<1>0. /\ TypeOK /\ Gated /\ Mounting /\ Empty /\ BootAlone /\ LockMine /\ SameLog
      /\ WritingOK /\ RowsOK /\ Selected /\ CandOK /\ DropOK /\ UsersOK
      /\ Answered /\ OnlyFaultsBlock /\ Typed
  BY TypesAre DEF IInv
<1>do. /\ boot = "builtin" /\ boot' = "done" /\ star' = "broken"
       /\ ((failure' = failure /\ faulted' = faulted) \/ (failure' = TRUE /\ faulted' = TRUE))
       /\ UNCHANGED <<log, lock, records, gen, current, cands, blocked, life, gate,
                       call, starts, done, dropped, unsure>>
  <2>1. boot = "builtin" /\ boot' = "done" /\ star' = "broken"
    BY DEF BuiltinFails
  <2>2. (failure' = failure /\ faulted' = faulted) \/ (failure' = TRUE /\ faulted' = TRUE)
    <3>1. UNCHANGED <<log, memory, faulted>> \/ (failure' = TRUE /\ faulted' = TRUE)
      BY DEF BuiltinFails
    <3> QED
      BY <3>1
  <2>3. UNCHANGED <<log, lock, records, gen, current, cands, blocked, life, gate,
                       call, starts, done, dropped, unsure>>
    BY DEF BuiltinFails
  <2> QED
    BY <2>1, <2>2, <2>3
<1>free. /\ Running /\ star = "no" /\ ~Unread /\ lock = "mine"
         /\ \A c \in Callers : At(c, {"idle", "mounting", "authorizing", "queued", "dropping",
                                       "asking", "retrying"})
  BY <1>0, <1>do DEF BootAlone, Unread, Running, LockMine
<1>users. \A f \in Gens : Users(f)' = Users(f)
  BY <1>do DEF Users
<1>run. Running' <=> Running
  BY <1>do DEF Running
<1>1. TypeOK'
  BY <1>0, <1>do DEF TypeOK, CallType, GenType
<1>2. Gated'
  BY <1>0, <1>do DEF Gated, HasGate, At, Running
<1>3. Mounting'
  BY <1>0, <1>do DEF Mounting, At, Typed
<1>4. Empty'
  BY <1>0, <1>do, <1>free DEF Empty, Unread, Running
<1>5. BootAlone'
  BY <1>0, <1>do DEF BootAlone, Running, At
<1>6. LockMine'
  BY <1>do, <1>free DEF LockMine, At
<1>7. SameLog'
  BY <1>0, <1>do, <1>free DEF SameLog, At, Nobody
<1>8. WritingOK'
  BY <1>0, <1>do, WritingKept DEF At
<1>9. RowsOK'
  BY <1>0, <1>do, RowsKept
<1>10. Selected'
  BY <1>0, <1>do, SelectedKept
<1>11. CandOK'
  BY <1>0, <1>do, CandKept DEF Running
<1>12. DropOK'
  BY <1>0, <1>do, DropKept
<1>13. UsersOK'
  BY <1>0, <1>do, UsersKept, <1>users
<1>14. Answered'
  BY <1>0, <1>do DEF Answered
<1>15. OnlyFaultsBlock'
  BY <1>0, <1>do DEF OnlyFaultsBlock
<1> QED
  BY <1>1, <1>2, <1>3, <1>4, <1>5, <1>6, <1>7, <1>8,
     <1>9, <1>10, <1>11, <1>12, <1>13, <1>14, <1>15 DEF IInv

\* The beginning of close keeps the invariant.
LEMMA StepClose ==
  ASSUME IInv, Close
  PROVE  IInv'
<1>0. /\ TypeOK /\ Gated /\ Mounting /\ Empty /\ BootAlone /\ LockMine /\ SameLog
      /\ WritingOK /\ RowsOK /\ Selected /\ CandOK /\ DropOK /\ UsersOK
      /\ Answered /\ OnlyFaultsBlock /\ Typed
  BY TypesAre DEF IInv
<1>do. /\ life = "up" /\ life' = "closing" /\ Started
       /\ UNCHANGED <<log, lock, records, failure, gen, current, cands, blocked, star,
                       boot, gate, call, starts, done, dropped, unsure, faulted>>
  BY DEF Close
<1>users. \A f \in Gens : Users(f)' = Users(f)
  BY <1>do DEF Users
<1>run. Running' <=> Running
  BY <1>do DEF Running
<1>1. TypeOK'
  BY <1>0, <1>do DEF TypeOK, CallType, GenType
<1>2. Gated'
  BY <1>0, <1>do DEF Gated, HasGate, At, Running
<1>3. Mounting'
  BY <1>0, <1>do DEF Mounting, At, Typed
<1>4. Empty'
  BY <1>0, <1>do DEF Empty, Unread, At
<1>5. BootAlone'
  BY <1>0, <1>do DEF BootAlone, Running, At, Started
<1>6. LockMine'
  BY <1>0, <1>do DEF LockMine, Unread, Running
<1>7. SameLog'
  BY <1>0, <1>do, SameLogKept
<1>8. WritingOK'
  BY <1>0, <1>do, WritingKept DEF At
<1>9. RowsOK'
  BY <1>0, <1>do, RowsKept
<1>10. Selected'
  BY <1>0, <1>do, SelectedKept
<1>11. CandOK'
  BY <1>0, <1>do, CandKept DEF Running
<1>12. DropOK'
  BY <1>0, <1>do, DropKept
<1>13. UsersOK'
  BY <1>0, <1>do, UsersKept, <1>users
<1>14. Answered'
  BY <1>0, <1>do DEF Answered
<1>15. OnlyFaultsBlock'
  BY <1>0, <1>do DEF OnlyFaultsBlock
<1> QED
  BY <1>1, <1>2, <1>3, <1>4, <1>5, <1>6, <1>7, <1>8,
     <1>9, <1>10, <1>11, <1>12, <1>13, <1>14, <1>15 DEF IInv

\* Another host that takes the store's lease keeps the invariant.
LEMMA StepOtherTakes ==
  ASSUME IInv, OtherTakes
  PROVE  IInv'
<1>0. /\ TypeOK /\ Gated /\ Mounting /\ Empty /\ BootAlone /\ LockMine /\ SameLog
      /\ WritingOK /\ RowsOK /\ Selected /\ CandOK /\ DropOK /\ UsersOK
      /\ Answered /\ OnlyFaultsBlock /\ Typed
  BY TypesAre DEF IInv
<1>do. /\ lock = "free" /\ lock' = "other"
       /\ UNCHANGED <<log, records, failure, gen, current, cands, blocked, star, life,
                       boot, gate, call, starts, done, dropped, unsure, faulted>>
  BY DEF OtherTakes
<1>users. \A f \in Gens : Users(f)' = Users(f)
  BY <1>do DEF Users
<1>run. Running' <=> Running
  BY <1>do DEF Running
<1>1. TypeOK'
  BY <1>0, <1>do DEF TypeOK, CallType, GenType
<1>2. Gated'
  BY <1>0, <1>do DEF Gated, HasGate, At, Running
<1>3. Mounting'
  BY <1>0, <1>do DEF Mounting, At, Typed
<1>4. Empty'
  BY <1>0, <1>do DEF Empty, Unread, At
<1>5. BootAlone'
  BY <1>0, <1>do DEF BootAlone, Running, At
<1>6. LockMine'
  BY <1>0, <1>do DEF LockMine, Unread, Running
<1>7. SameLog'
  BY <1>0, <1>do DEF SameLog, RowOf
<1>8. WritingOK'
  BY <1>0, <1>do, WritingKept DEF At
<1>9. RowsOK'
  BY <1>0, <1>do, RowsKept
<1>10. Selected'
  BY <1>0, <1>do, SelectedKept
<1>11. CandOK'
  BY <1>0, <1>do, CandKept DEF Running
<1>12. DropOK'
  BY <1>0, <1>do, DropKept
<1>13. UsersOK'
  BY <1>0, <1>do, <1>users DEF UsersOK
<1>14. Answered'
  BY <1>0, <1>do DEF Answered
<1>15. OnlyFaultsBlock'
  BY <1>0, <1>do DEF OnlyFaultsBlock
<1> QED
  BY <1>1, <1>2, <1>3, <1>4, <1>5, <1>6, <1>7, <1>8,
     <1>9, <1>10, <1>11, <1>12, <1>13, <1>14, <1>15 DEF IInv

\* Another host that gives the store's lease back keeps the invariant.
LEMMA StepOtherLeaves ==
  ASSUME IInv, OtherLeaves
  PROVE  IInv'
<1>0. /\ TypeOK /\ Gated /\ Mounting /\ Empty /\ BootAlone /\ LockMine /\ SameLog
      /\ WritingOK /\ RowsOK /\ Selected /\ CandOK /\ DropOK /\ UsersOK
      /\ Answered /\ OnlyFaultsBlock /\ Typed
  BY TypesAre DEF IInv
<1>do. /\ lock = "other" /\ lock' = "free"
       /\ UNCHANGED <<log, records, failure, gen, current, cands, blocked, star, life,
                       boot, gate, call, starts, done, dropped, unsure, faulted>>
  BY DEF OtherLeaves
<1>users. \A f \in Gens : Users(f)' = Users(f)
  BY <1>do DEF Users
<1>run. Running' <=> Running
  BY <1>do DEF Running
<1>1. TypeOK'
  BY <1>0, <1>do DEF TypeOK, CallType, GenType
<1>2. Gated'
  BY <1>0, <1>do DEF Gated, HasGate, At, Running
<1>3. Mounting'
  BY <1>0, <1>do DEF Mounting, At, Typed
<1>4. Empty'
  BY <1>0, <1>do DEF Empty, Unread, At
<1>5. BootAlone'
  BY <1>0, <1>do DEF BootAlone, Running, At
<1>6. LockMine'
  BY <1>0, <1>do DEF LockMine, Unread, Running
<1>7. SameLog'
  BY <1>0, <1>do DEF SameLog, RowOf
<1>8. WritingOK'
  BY <1>0, <1>do, WritingKept DEF At
<1>9. RowsOK'
  BY <1>0, <1>do, RowsKept
<1>10. Selected'
  BY <1>0, <1>do, SelectedKept
<1>11. CandOK'
  BY <1>0, <1>do, CandKept DEF Running
<1>12. DropOK'
  BY <1>0, <1>do, DropKept
<1>13. UsersOK'
  BY <1>0, <1>do, <1>users DEF UsersOK
<1>14. Answered'
  BY <1>0, <1>do DEF Answered
<1>15. OnlyFaultsBlock'
  BY <1>0, <1>do DEF OnlyFaultsBlock
<1> QED
  BY <1>1, <1>2, <1>3, <1>4, <1>5, <1>6, <1>7, <1>8,
     <1>9, <1>10, <1>11, <1>12, <1>13, <1>14, <1>15 DEF IInv

\* The closing of the store keeps the invariant.
LEMMA StepCloseStore ==
  ASSUME IInv, CloseStore
  PROVE  IInv'
<1>0. /\ TypeOK /\ Gated /\ Mounting /\ Empty /\ BootAlone /\ LockMine /\ SameLog
      /\ WritingOK /\ RowsOK /\ Selected /\ CandOK /\ DropOK /\ UsersOK
      /\ Answered /\ OnlyFaultsBlock /\ Typed
  BY TypesAre DEF IInv
<1>do. /\ life = "closed" /\ lock = "mine" /\ lock' = "free" /\ Vacant
       /\ UNCHANGED <<log, records, failure, gen, current, cands, blocked, star, life,
                       boot, gate, call, starts, done, dropped, unsure, faulted>>
  BY DEF CloseStore
<1>none. \A f \in Gens : Users(f) = {}
  <2>1. ASSUME NEW f \in Gens PROVE Users(f) = {}
    <3>1. IsFiniteSet(Users(f)) /\ Cardinality(Users(f)) = 0
      BY <1>0, <1>do DEF UsersOK, Vacant
    <3> QED
      BY <3>1, FS_EmptySet
  <2> QED
    BY <2>1
<1>users. \A f \in Gens : Users(f)' = Users(f)
  BY <1>do DEF Users
<1>run. Running' <=> Running
  BY <1>do DEF Running
<1>1. TypeOK'
  BY <1>0, <1>do DEF TypeOK, CallType, GenType
<1>2. Gated'
  BY <1>0, <1>do DEF Gated, HasGate, At, Running
<1>3. Mounting'
  BY <1>0, <1>do DEF Mounting, At, Typed
<1>4. Empty'
  BY <1>0, <1>do DEF Empty, Unread, At
<1>5. BootAlone'
  BY <1>0, <1>do DEF BootAlone, Running, At
<1>6. LockMine'
  BY <1>0, <1>do DEF LockMine, Unread, Running
<1>7. SameLog'
  BY <1>0, <1>do DEF SameLog, RowOf
<1>8. WritingOK'
  BY <1>0, <1>do, WritingKept DEF At
<1>9. RowsOK'
  BY <1>0, <1>do, RowsKept
<1>10. Selected'
  BY <1>0, <1>do, SelectedKept
<1>11. CandOK'
  BY <1>0, <1>do, CandKept DEF Running
<1>12. DropOK'
  BY <1>0, <1>do, DropKept
<1>13. UsersOK'
  BY <1>0, <1>do, <1>none, <1>users DEF UsersOK
<1>14. Answered'
  BY <1>0, <1>do DEF Answered
<1>15. OnlyFaultsBlock'
  BY <1>0, <1>do DEF OnlyFaultsBlock
<1> QED
  BY <1>1, <1>2, <1>3, <1>4, <1>5, <1>6, <1>7, <1>8,
     <1>9, <1>10, <1>11, <1>12, <1>13, <1>14, <1>15 DEF IInv

\* The closing of the manager keeps the invariant.
LEMMA StepCloseManager ==
  ASSUME IInv, CloseManager
  PROVE  IInv'
<1>0. /\ TypeOK /\ Gated /\ Mounting /\ Empty /\ BootAlone /\ LockMine /\ SameLog
      /\ WritingOK /\ RowsOK /\ Selected /\ CandOK /\ DropOK /\ UsersOK
      /\ Answered /\ OnlyFaultsBlock /\ Typed
  BY TypesAre DEF IInv
<1>do. /\ life = "closing" /\ gate = <<>> /\ life' = "closed" /\ current' = [h \in Harnesses |-> None]
       /\ UNCHANGED <<log, lock, records, failure, cands, blocked, star, boot, gate,
                       call, starts, done, dropped, unsure, faulted>>
  BY DEF CloseManager
<1>alone. \A d \in Callers : ~At(d, {"writing", "written", "retrying", "checking"})
  BY <1>0, <1>do DEF Gated, HasGate
<1>gen. /\ gen' \in [Gens -> GenType]
        /\ \A f \in Gens :
              /\ gen'[f].of = gen[f].of /\ gen'[f].exp = gen[f].exp /\ gen'[f].users = gen[f].users
              /\ gen'[f].state = IF gen[f].state \in {"current", "ready"}
                                 THEN IF gen[f].users = 0 THEN "cleaning" ELSE "retired"
                                 ELSE gen[f].state
  <2>1. gen \in [Gens -> GenType]
    BY <1>0 DEF TypeOK, GenType
  <2>2. ASSUME NEW f \in Gens
        PROVE  /\ gen'[f] \in GenType
               /\ gen'[f].of = gen[f].of /\ gen'[f].exp = gen[f].exp /\ gen'[f].users = gen[f].users
               /\ gen'[f].state = IF gen[f].state \in {"current", "ready"}
                                  THEN IF gen[f].users = 0 THEN "cleaning" ELSE "retired"
                                  ELSE gen[f].state
    <3>1. gen'[f] = IF gen[f].state \in {"current", "ready"} THEN Retire(gen, f)[f] ELSE gen[f]
      BY DEF CloseManager
    <3>2. /\ Retire(gen, f)[f].of = gen[f].of /\ Retire(gen, f)[f].exp = gen[f].exp
          /\ Retire(gen, f)[f].users = gen[f].users
          /\ Retire(gen, f)[f].state = IF gen[f].users = 0 THEN "cleaning" ELSE "retired"
          /\ Retire(gen, f)[f] \in GenType
      BY <2>1, RetireIs
    <3> QED
      BY <2>1, <3>1, <3>2
  <2>3. gen' = [g \in Gens |-> gen'[g]]
    BY DEF CloseManager
  <2> QED
    BY <2>2, <2>3
<1>boot. boot = "done" /\ Running /\ ~Running'
  BY <1>0, <1>do, <1>alone DEF BootAlone, At, Running
<1>users. \A f \in Gens : Users(f)' = Users(f)
  BY <1>do DEF Users
<1>known. \A f \in Gens : gen[f].state \notin {"none", "mounting"} => gen'[f].state \notin {"none", "mounting"}
  BY <1>gen
<1>1. TypeOK'
  BY <1>0, <1>do, <1>gen DEF TypeOK, GenType
<1>2. Gated'
  BY <1>0, <1>do, <1>alone DEF Gated, At
<1>3. Mounting'
  BY <1>0, <1>do, <1>gen DEF Mounting, At, Typed, OtherGens
<1>4. Empty'
  BY <1>0, <1>do, <1>gen DEF Empty, Unread, At
<1>5. BootAlone'
  BY <1>do, <1>boot DEF BootAlone
<1>6. LockMine'
  BY <1>0, <1>do, <1>boot DEF LockMine
<1>7. SameLog'
  BY <1>0, <1>do, <1>alone DEF SameLog, At, Nobody
<1>8. WritingOK'
  BY <1>do, <1>alone DEF WritingOK, At
<1>9. RowsOK'
  BY <1>0, <1>do, <1>gen, RowsKept, <1>boot DEF OtherGens
<1>10. Selected'
  <2>1. \A f \in Gens : gen'[f].state # "current"
    BY <1>gen
  <2> QED
    BY <1>do, <2>1 DEF Selected
<1>11. CandOK'
  <2>1. \A f \in cands : Recorded(log, f) => f \in unsure
    BY <1>0, <1>alone DEF CandOK, At
  <2>2. \A f \in cands : gen'[f].state \notin {"none", "mounting"}
    BY <1>0, <1>known DEF CandOK, Typed
  <2> QED
    BY <1>do, <1>boot, <2>1, <2>2 DEF CandOK
<1>12. DropOK'
  BY <1>0, <1>do, <1>gen, DropKept, <1>known DEF OtherGens
<1>13. UsersOK'
  <2>1. \A f \in Gens :
           /\ gen'[f].state = "retired" => gen[f].state = "retired" \/ gen[f].users > 0
           /\ gen[f].users > 0 /\ gen[f].state \in {"current", "retired"} =>
                 gen'[f].state \in {"current", "retired"}
    BY <1>0, <1>gen DEF Typed
  <2> QED
    BY <1>0, <1>do, <1>gen, <1>users, <2>1, UsersKept
<1>14. Answered'
  BY <1>0, <1>do DEF Answered
<1>15. OnlyFaultsBlock'
  BY <1>0, <1>do DEF OnlyFaultsBlock
<1> QED
  BY <1>1, <1>2, <1>3, <1>4, <1>5, <1>6, <1>7, <1>8,
     <1>9, <1>10, <1>11, <1>12, <1>13, <1>14, <1>15 DEF IInv

\* The process is over: the log stays, and nothing of what was in memory.
LEMMA Forgets ==
  ASSUME IInv, Forget
  PROVE  IInv'
<1>0. /\ TypeOK /\ Gated /\ Mounting /\ Empty /\ BootAlone /\ LockMine /\ SameLog
      /\ WritingOK /\ RowsOK /\ Selected /\ CandOK /\ DropOK /\ UsersOK
      /\ Answered /\ OnlyFaultsBlock /\ Typed
  BY TypesAre DEF IInv
<1>do. /\ life' = "down" /\ boot' = "done" /\ records' = <<>> /\ failure' = FALSE
       /\ current' = [h \in Harnesses |-> None] /\ cands' = {}
       /\ blocked' = [h \in Harnesses |-> "no"] /\ star' = "no" /\ gate' = <<>>
       /\ call' = [c \in Callers |-> Idle] /\ lock' # "mine" /\ lock' \in {"free", "mine", "other"}
       /\ UNCHANGED <<log, starts, done, dropped, unsure, faulted>>
  BY <1>0 DEF Forget, TypeOK
<1>calls. \A c \in Callers : call'[c].at = "idle"
  BY <1>do DEF Idle
<1>gens. /\ gen' \in [Gens -> GenType]
        /\ \A f \in Gens : /\ gen'[f].state = IF gen[f].state = "none" THEN "none" ELSE "gone"
                           /\ gen'[f].users = 0
  <2>1. gen \in [Gens -> GenType] /\ Gone \in GenType /\ Gone.state = "gone" /\ Gone.users = 0
    BY <1>0 DEF TypeOK, GenType, Gone, Unmounted, States
  <2>2. gen' = [g \in Gens |-> IF gen[g].state = "none" THEN gen[g] ELSE Gone]
    BY DEF Forget
  <2>3. \A f \in Gens : gen[f].state = "none" => gen[f].users = 0
    BY <1>0, NoUsers
  <2> QED
    BY <2>1, <2>2, <2>3
<1>users. \A f \in Gens : Users(f)' = {}
  BY <1>calls DEF Users
<1>down. Unread' /\ ~Running'
  BY <1>do DEF Unread, Running
<1>rows. HasLast(records') /\ \A g \in Gens : ~Recorded(records', g)
  BY <1>do DEF HasLast, Rows, Recorded
<1>1. TypeOK'
  <2>1. call' \in [Callers -> CallType]
    BY <1>do DEF Idle, CallType, Places
  <2>2. records' \in Seq(Row) /\ gate' \in Seq(Callers)
    BY <1>do, EmptySeq
  <2>3. /\ current' \in [Harnesses -> Gens \cup {None}]
        /\ blocked' \in [Harnesses -> {"no", "contract", "damaged", "failed"}]
    BY <1>do
  <2> QED
    BY <1>0, <1>do, <1>gens, <2>1, <2>2, <2>3 DEF TypeOK, CallType, GenType
<1>2. Gated'
  BY <1>do, <1>calls DEF Gated, At
<1>3. Mounting'
  BY <1>calls DEF Mounting, At
<1>4. Empty'
  BY <1>do, <1>calls, <1>gens DEF Empty, At
<1>5. BootAlone'
  BY <1>do DEF BootAlone
<1>6. LockMine'
  BY <1>calls, <1>down DEF LockMine
<1>7. SameLog'
  BY <1>do, <1>calls DEF SameLog
<1>8. WritingOK'
  BY <1>calls DEF WritingOK, At
<1>9. RowsOK'
  <2>1. \A i \in DOMAIN log : gen'[log[i].gen].state = "gone"
    BY <1>0, <1>gens DEF RowsOK, Typed
  <2> QED
    BY <1>0, <1>do, <1>rows, <2>1 DEF RowsOK
<1>10. Selected'
  <2>1. \A f \in Gens : gen'[f].state # "current"
    BY <1>gens
  <2> QED
    BY <1>do, <2>1 DEF Selected
<1>11. CandOK'
  BY <1>do DEF CandOK
<1>12. DropOK'
  <2>1. \A f \in Gens : OutOfUse(f) => OutOfUse(f)'
    BY <1>do, <1>gens DEF OutOfUse
  <2> QED
    BY <1>0, <1>do, <1>calls, <2>1 DEF DropOK, Typed
<1>13. UsersOK'
  BY <1>gens, <1>users, FS_EmptySet DEF UsersOK
<1>14. Answered'
  BY <1>0, <1>do DEF Answered
<1>15. OnlyFaultsBlock'
  BY <1>do DEF OnlyFaultsBlock
<1> QED
  BY <1>1, <1>2, <1>3, <1>4, <1>5, <1>6, <1>7, <1>8,
     <1>9, <1>10, <1>11, <1>12, <1>13, <1>14, <1>15 DEF IInv

\* A selection that cannot be restored is blocked.
LEMMA LoadBlocks ==
  ASSUME IInv, NEW h \in Harnesses, NEW why \in {"contract", "damaged"}, boot = "load",
         blocked' = [blocked EXCEPT ![h] = why],
         UNCHANGED <<log, lock, records, failure, gen, current, cands, star, life,
                       boot, gate, call, starts, done, dropped, unsure, faulted>>
  PROVE  IInv'
<1>0. /\ TypeOK /\ Gated /\ Mounting /\ Empty /\ BootAlone /\ LockMine /\ SameLog
      /\ WritingOK /\ RowsOK /\ Selected /\ CandOK /\ DropOK /\ UsersOK
      /\ Answered /\ OnlyFaultsBlock /\ Typed
  BY TypesAre DEF IInv
<1>do. /\ boot = "load" /\ blocked' = [blocked EXCEPT ![h] = why]
       /\ UNCHANGED <<log, lock, records, failure, gen, current, cands, star, life,
                       boot, gate, call, starts, done, dropped, unsure, faulted>>
  OBVIOUS
<1>users. \A f \in Gens : Users(f)' = Users(f)
  BY <1>do DEF Users
<1>run. Running' <=> Running
  BY <1>do DEF Running
<1>1. TypeOK'
  BY <1>0, <1>do DEF TypeOK, CallType, GenType
<1>2. Gated'
  BY <1>0, <1>do DEF Gated, HasGate, At, Running
<1>3. Mounting'
  BY <1>0, <1>do DEF Mounting, At, Typed
<1>4. Empty'
  BY <1>0, <1>do DEF Empty, Unread, At
<1>5. BootAlone'
  BY <1>0, <1>do DEF BootAlone, Running, At
<1>6. LockMine'
  BY <1>0, <1>do DEF LockMine, Unread, Running
<1>7. SameLog'
  BY <1>0, <1>do, SameLogKept
<1>8. WritingOK'
  BY <1>0, <1>do, WritingKept DEF At
<1>9. RowsOK'
  BY <1>0, <1>do, RowsKept
<1>10. Selected'
  BY <1>0, <1>do, SelectedKept
<1>11. CandOK'
  BY <1>0, <1>do, CandKept DEF Running
<1>12. DropOK'
  BY <1>0, <1>do, DropKept
<1>13. UsersOK'
  BY <1>0, <1>do, UsersKept, <1>users
<1>14. Answered'
  BY <1>0, <1>do DEF Answered
<1>15. OnlyFaultsBlock'
  <2>1. \A k \in Harnesses : blocked'[k] = "failed" => blocked[k] = "failed"
    BY <1>0, <1>do DEF TypeOK
  <2> QED
    BY <1>0, <1>do, <2>1 DEF OnlyFaultsBlock
<1> QED
  BY <1>1, <1>2, <1>3, <1>4, <1>5, <1>6, <1>7, <1>8,
     <1>9, <1>10, <1>11, <1>12, <1>13, <1>14, <1>15 DEF IInv

\* The last selection of a harness is mounted again.
LEMMA Loads ==
  ASSUME IInv, NEW h \in Harnesses, boot = "load", h \in ToLoad,
         gen' = [gen EXCEPT ![LastRow(records, h).gen] = Restored(LastRow(records, h))],
         current' = [current EXCEPT ![h] = LastRow(records, h).gen],
         UNCHANGED <<log, lock, records, failure, cands, blocked, star, life, boot,
                       gate, call, starts, done, dropped, unsure, faulted>>
  PROVE  IInv'
<1>0. /\ TypeOK /\ Gated /\ Mounting /\ Empty /\ BootAlone /\ LockMine /\ SameLog
      /\ WritingOK /\ RowsOK /\ Selected /\ CandOK /\ DropOK /\ UsersOK
      /\ Answered /\ OnlyFaultsBlock /\ Typed
  BY TypesAre DEF IInv
<1>do. /\ boot = "load" /\ ~failure /\ UNCHANGED <<log, lock, records, failure, cands, blocked, star, life, boot,
                       gate, call, starts, done, dropped, unsure, faulted>>
  BY <1>0 DEF BootAlone
<1>free. /\ Running /\ star = "no" /\ ~Unread /\ lock = "mine"
         /\ \A c \in Callers : At(c, {"idle", "mounting", "authorizing", "queued", "dropping",
                                       "asking", "retrying"})
  BY <1>0, <1>do DEF BootAlone, Unread, Running, LockMine
<1>same. records = log
  BY <1>0, <1>do, <1>free DEF SameLog, Nobody, At
<1>users. \A f \in Gens : Users(f)' = Users(f)
  BY <1>do DEF Users
<1>h. Rows(records, h) # {} /\ current[h] = None
  BY DEF ToLoad
<1>row. /\ LastRow(records, h) \in Row /\ LastRow(records, h).of = h
        /\ \E i \in DOMAIN log : LastRow(records, h) = log[i]
  BY <1>0, <1>h, <1>same, LastIs DEF TypeOK, RowsOK
<1>g. PICK g \in Gens : g = LastRow(records, h).gen
  BY <1>row DEF Row
<1>i. PICK i \in DOMAIN log : log[i].gen = g /\ log[i].of = h
  BY <1>row, <1>g
<1>gone. gen[g].state = "gone"
  <2>1. gen[g].state \in {"gone", "current"} /\ (gen[g].state = "current" => gen[g].of = h)
    BY <1>0, <1>do, <1>i DEF RowsOK
  <2>2. gen[g].state = "current" => current[gen[g].of] = g
    BY <1>0 DEF Selected
  <2> QED
    BY <1>h, <2>1, <2>2
<1>none. gen[g].users = 0 /\ Users(g) = {}
  BY <1>0, <1>gone, NoUsers
<1>cur. current' \in [Harnesses -> Gens \cup {None}] /\ current'[h] = g
        /\ \A k \in Harnesses : k # h => current'[k] = current[k]
  BY <1>0, <1>g DEF TypeOK
<1>gen. /\ gen' \in [Gens -> GenType] /\ OtherGens(g)
        /\ gen'[g].of = h /\ gen'[g].exp + 1 = LastRow(records, h).rev /\ gen'[g].state = "current"
        /\ gen'[g].users = 0
  <2>1. gen \in [Gens -> GenType]
    BY <1>0 DEF TypeOK, GenType
  <2>2. LastRow(records, h).rev \in Nat \ {0}
    BY <1>row DEF Row
  <2>3. LastRow(records, h).rev - 1 \in Nat /\ LastRow(records, h).rev - 1 + 1 = LastRow(records, h).rev
    BY <2>2
  <2>4. PICK new : new = Restored(LastRow(records, h))
    OBVIOUS
  <2>5. /\ new \in GenType /\ new.of = h /\ new.exp = LastRow(records, h).rev - 1
        /\ new.state = "current" /\ new.users = 0
    BY <1>row, <2>3, <2>4 DEF Restored, GenType, States
  <2>6. gen' = [gen EXCEPT ![g] = new]
    BY <1>g, <2>4
  <2> QED
    BY <2>1, <2>3, <2>5, <2>6 DEF OtherGens
<1>cands. \A f \in cands : gen'[f] = gen[f] /\ f # g
  BY <1>0, <1>free, <1>gone, <1>gen DEF CandOK, OtherGens, Typed
<1>run. Running' <=> Running
  BY <1>do DEF Running
<1>1. TypeOK'
  BY <1>0, <1>do, <1>cur, <1>gen DEF TypeOK, GenType
<1>2. Gated'
  BY <1>0, <1>do DEF Gated, HasGate, At, Running
<1>3. Mounting'
  <2>1. \A d \in Callers : call[d].at = "mounting" => call[d].on \in Gens /\ call[d].on # g
    BY <1>0, <1>gone DEF Mounting, At
  <2> QED
    BY <1>0, <1>do, <1>gen, <2>1 DEF Mounting, At, OtherGens
<1>4. Empty'
  BY <1>0, <1>do, <1>free DEF Empty, Unread
<1>5. BootAlone'
  BY <1>0, <1>do DEF BootAlone, Running, At
<1>6. LockMine'
  BY <1>0, <1>do DEF LockMine, Unread, Running
<1>7. SameLog'
  BY <1>do, <1>same, <1>free DEF SameLog, At
<1>8. WritingOK'
  BY <1>do, <1>free DEF WritingOK, At
<1>9. RowsOK'
  <2>1. ASSUME NEW j \in DOMAIN log
        PROVE  /\ gen'[log[j].gen].state \notin {"none", "mounting"}
               /\ gen'[log[j].gen].state # "gone" => gen'[log[j].gen].of = log[j].of
               /\ gen'[log[j].gen].state \in {"gone", "current"}
    <3>1. CASE log[j].gen = g
      <4>1. j = i
        BY <1>0, <1>i, <3>1 DEF RowsOK
      <4> QED
        BY <1>i, <1>gen, <4>1
    <3>2. CASE log[j].gen # g
      <4>1. gen'[log[j].gen] = gen[log[j].gen]
        BY <1>0, <1>gen, <3>2 DEF OtherGens, Typed
      <4> QED
        BY <1>0, <1>do, <4>1 DEF RowsOK
    <3> QED
      BY <3>1, <3>2
  <2> QED
    BY <1>0, <1>do, <2>1 DEF RowsOK
<1>10. Selected'
  <2>1. ASSUME NEW k \in Harnesses, current'[k] # None
        PROVE  /\ gen'[current'[k]].state = "current" /\ gen'[current'[k]].of = k
               /\ Rows(records, k) # {}
               /\ LastRow(records, k).gen = current'[k]
               /\ LastRow(records, k).rev = gen'[current'[k]].exp + 1
    <3>1. CASE k = h
      BY <1>h, <1>g, <1>cur, <1>gen, <3>1
    <3>2. CASE k # h
      <4>1. current'[k] = current[k] /\ current[k] # None /\ current[k] \in Gens
        BY <1>0, <1>cur, <2>1, <3>2 DEF Typed
      <4>2. /\ gen[current[k]].state = "current" /\ gen[current[k]].of = k
            /\ Rows(records, k) # {}
            /\ LastRow(records, k).gen = current[k]
            /\ LastRow(records, k).rev = gen[current[k]].exp + 1
        BY <1>0, <4>1 DEF Selected
      <4>3. gen'[current[k]] = gen[current[k]]
        BY <1>gone, <1>gen, <4>1, <4>2 DEF OtherGens
      <4> QED
        BY <4>1, <4>2, <4>3
    <3> QED
      BY <3>1, <3>2
  <2>2. ASSUME NEW f \in Gens, gen'[f].state = "current" PROVE current'[gen'[f].of] = f
    <3>1. CASE f = g
      BY <1>cur, <1>gen, <3>1
    <3>2. CASE f # g
      <4>1. gen'[f] = gen[f]
        BY <1>gen, <3>2 DEF OtherGens
      <4>2. current[gen[f].of] = f /\ gen[f].of \in Harnesses
        BY <1>0, <2>2, <4>1 DEF Selected, Typed
      <4>3. gen[f].of # h
        BY <1>h, <4>2
      <4> QED
        BY <1>cur, <4>1, <4>2, <4>3
    <3> QED
      BY <3>1, <3>2
  <2> QED
    BY <1>do, <2>1, <2>2 DEF Selected
<1>11. CandOK'
  BY <1>0, <1>do, <1>gen, CandKept, <1>cands, <1>run DEF OtherGens
<1>12. DropOK'
  BY <1>0, <1>do, <1>gen, DropKept DEF Typed, OtherGens
<1>13. UsersOK'
  BY <1>0, <1>do, <1>gen, UsersKept, <1>none, <1>users DEF OtherGens
<1>14. Answered'
  BY <1>0, <1>do DEF Answered
<1>15. OnlyFaultsBlock'
  BY <1>0, <1>do DEF OnlyFaultsBlock
<1> QED
  BY <1>1, <1>2, <1>3, <1>4, <1>5, <1>6, <1>7, <1>8,
     <1>9, <1>10, <1>11, <1>12, <1>13, <1>14, <1>15 DEF IInv

\* The startup's selection of the builtin keeps the invariant.
LEMMA StepSelectBuiltin ==
  ASSUME IInv, NEW g \in Gens, SelectBuiltin(g)
  PROVE  IInv'
<1>0. /\ TypeOK /\ Gated /\ Mounting /\ Empty /\ BootAlone /\ LockMine /\ SameLog
      /\ WritingOK /\ RowsOK /\ Selected /\ CandOK /\ DropOK /\ UsersOK
      /\ Answered /\ OnlyFaultsBlock /\ Typed
  BY TypesAre DEF IInv
<1>do. /\ boot = "builtin" /\ boot' = "done" /\ ~failure /\ gen[g].state = "none"
       /\ UNCHANGED <<lock, failure, cands, star, life, gate, call, starts, done,
                       dropped, unsure, faulted>>
  BY DEF SelectBuiltin, IsNext, Unused, Owned
<1>free. /\ Running /\ star = "no" /\ ~Unread /\ lock = "mine"
         /\ \A c \in Callers : At(c, {"idle", "mounting", "authorizing", "queued", "dropping",
                                       "asking", "retrying"})
  BY <1>0, <1>do DEF BootAlone, Unread, Running, LockMine
<1>same. records = log
  BY <1>0, <1>do, <1>free DEF SameLog, Nobody, At
<1>users. \A f \in Gens : Users(f)' = Users(f)
  BY <1>do DEF Users
<1>main. "main" \in Harnesses
  OBVIOUS
<1>rev. Rev(records, "main") \in Nat /\ Rev(records, "main") + 1 \in Nat \ {0}
  BY <1>0, <1>main, LastIs DEF TypeOK, RowsOK
<1>row. PICK r \in Row :
          /\ r.of = "main" /\ r.gen = g /\ r.rev = Rev(records, "main") + 1
          /\ r = [of |-> "main", gen |-> g, rev |-> Rev(records, "main") + 1, byHost |-> TRUE]
  BY <1>rev DEF Row
<1>after. /\ log' = Append(log, r) /\ records' = Append(records, r)
          /\ current' = [current EXCEPT !["main"] = g]
          /\ blocked' = [blocked EXCEPT !["main"] = "no"]
          /\ gen' = IF current["main"] = None THEN [gen EXCEPT ![g] = Restored(r)]
                    ELSE Retire([gen EXCEPT ![g] = Restored(r)], current["main"])
  BY <1>row DEF SelectBuiltin
<1>eq. records' = log'
  BY <1>same, <1>after
<1>new. ~Recorded(log, g) /\ g \notin cands
  BY <1>0, <1>do DEF RowsOK, Recorded, CandOK
<1>rows. /\ log' \in Seq(Row) /\ HasLast(log')
         /\ \A f \in Gens : Recorded(log', f) <=> Recorded(log, f) \/ f = g
         /\ \A k \in Harnesses : k # "main" =>
               /\ Rows(log', k) = Rows(records, k)
               /\ Rows(records, k) # {} => LastRow(log', k) = LastRow(records, k)
         /\ Rows(log', "main") # {} /\ LastRow(log', "main") = r
  <2>1. log \in Seq(Row) /\ HasLast(log)
    BY <1>0 DEF TypeOK, RowsOK
  <2>2. /\ Append(log, r) \in Seq(Row) /\ HasLast(Append(log, r))
        /\ \A f \in Gens : Recorded(Append(log, r), f) <=> Recorded(log, f) \/ r.gen = f
        /\ \A k \in Harnesses : k # r.of =>
               /\ Rows(Append(log, r), k) = Rows(log, k)
               /\ Rows(log, k) # {} => LastRow(Append(log, r), k) = LastRow(log, k)
        /\ Rows(Append(log, r), r.of) # {} /\ LastRow(Append(log, r), r.of) = r
    BY <2>1, LongerLog
  <2>3. log' = Append(log, r) /\ records = log
    BY <1>same, <1>after
  <2> QED
    BY <1>row, <2>2, <2>3
<1>can. current["main"] # None => /\ current["main"] \in Gens /\ gen[current["main"]].state = "current"
                                  /\ gen[current["main"]].of = "main" /\ current["main"] # g
  BY <1>0, <1>do, <1>main DEF Selected, Typed
<1>none. gen[g].users = 0 /\ Users(g) = {}
  BY <1>0, <1>do, NoUsers
<1>gen. /\ gen' \in [Gens -> GenType]
        /\ \A f \in Gens : f # g /\ f # current["main"] => gen'[f] = gen[f]
        /\ \A f \in Gens : f # g => gen'[f].of = gen[f].of /\ gen'[f].users = gen[f].users
        /\ gen'[g].of = "main" /\ gen'[g].exp + 1 = r.rev /\ gen'[g].state = "current" /\ gen'[g].users = 0
        /\ current["main"] # None =>
             gen'[current["main"]].state = IF gen[current["main"]].users = 0 THEN "cleaning" ELSE "retired"
  <2>1. PICK new : new = Restored(r)
    OBVIOUS
  <2>2. /\ new \in GenType /\ new.of = "main" /\ new.exp + 1 = r.rev
        /\ new.state = "current" /\ new.users = 0
    <3>1. r.rev - 1 = Rev(records, "main") /\ r.rev - 1 \in Nat
      BY <1>rev, <1>row
    <3>2. /\ new \in GenType /\ new.of = "main" /\ new.exp = r.rev - 1
          /\ new.state = "current" /\ new.users = 0
      BY <1>main, <1>row, <2>1, <3>1 DEF Restored, GenType, States
    <3> QED
      BY <1>rev, <1>row, <3>1, <3>2
  <2>3. PICK G : G = [gen EXCEPT ![g] = new]
    OBVIOUS
  <2>4. G \in [Gens -> GenType] /\ G[g] = new /\ \A f \in Gens : f # g => G[f] = gen[f]
    <3>1. gen \in [Gens -> GenType]
      BY <1>0 DEF TypeOK, GenType
    <3> QED
      BY <2>2, <2>3, <3>1
  <2>5. gen' = IF current["main"] = None THEN G ELSE Retire(G, current["main"])
    BY <1>after, <2>1, <2>3
  <2>6. CASE current["main"] = None
    BY <2>2, <2>4, <2>5, <2>6
  <2>7. CASE current["main"] # None
    <3>1. /\ Retire(G, current["main"]) \in [Gens -> GenType]
          /\ \A f \in Gens : f # current["main"] => Retire(G, current["main"])[f] = G[f]
          /\ Retire(G, current["main"])[current["main"]].of = G[current["main"]].of
          /\ Retire(G, current["main"])[current["main"]].users = G[current["main"]].users
          /\ Retire(G, current["main"])[current["main"]].state =
                 IF G[current["main"]].users = 0 THEN "cleaning" ELSE "retired"
      BY <1>can, <2>4, <2>7, RetireIs
    <3> QED
      BY <1>can, <2>2, <2>4, <2>5, <2>7, <3>1
  <2> QED
    BY <2>6, <2>7
<1>cands. \A f \in cands : gen'[f] = gen[f] /\ f # g
  BY <1>0, <1>free, <1>new, <1>can, <1>gen DEF CandOK, Typed
<1>run. Running' <=> Running
  BY <1>do DEF Running
<1>known. \A f \in Gens : gen[f].state \notin {"none", "mounting"} =>
           gen'[f].state \notin {"none", "mounting"}
  BY <1>can, <1>gen
<1>1. TypeOK'
  <2>1. /\ current' \in [Harnesses -> Gens \cup {None}]
        /\ blocked' \in [Harnesses -> {"no", "contract", "damaged", "failed"}]
    BY <1>0, <1>after DEF TypeOK
  <2> QED
    BY <1>0, <1>do, <1>rows, <1>eq, <1>gen, <2>1 DEF TypeOK, GenType
<1>2. Gated'
  BY <1>0, <1>do DEF Gated, HasGate, At, Running
<1>3. Mounting'
  <2>1. \A d \in Callers : call[d].at = "mounting" =>
          call[d].on \in Gens /\ call[d].on # g /\ call[d].on # current["main"]
    BY <1>0, <1>do, <1>can DEF Mounting, At
  <2> QED
    BY <1>0, <1>do, <1>gen, <2>1 DEF Mounting, At
<1>4. Empty'
  BY <1>0, <1>do, <1>free DEF Empty, Unread, Running
<1>5. BootAlone'
  BY <1>do DEF BootAlone
<1>6. LockMine'
  BY <1>0, <1>do DEF LockMine, Unread, Running
<1>7. SameLog'
  BY <1>do, <1>eq, <1>free DEF SameLog, At
<1>8. WritingOK'
  BY <1>do, <1>free DEF WritingOK, At
<1>9. RowsOK'
  <2>1. /\ \A j \in DOMAIN log : log'[j] = log[j]
        /\ log'[Len(log) + 1] = r
        /\ \A j \in DOMAIN log' : j \in DOMAIN log \/ j = Len(log) + 1
    <3>1. log \in Seq(Row) /\ log' = Append(log, r)
      BY <1>0, <1>after DEF TypeOK
    <3> QED
      BY <3>1, RowAdded
  <2>2. \A i, j \in DOMAIN log' : log'[i].gen = log'[j].gen => i = j
    <3>1. (\A i, j \in DOMAIN log : log[i].gen = log[j].gen => i = j) /\ ~Recorded(log, r.gen)
      BY <1>0, <1>row, <1>new DEF RowsOK
    <3>2. log \in Seq(Row) /\ log' = Append(log, r)
      BY <1>0, <1>after DEF TypeOK
    <3> QED
      BY <3>1, <3>2, StillUnique
  <2>3. ASSUME NEW j \in DOMAIN log'
        PROVE  /\ gen'[log'[j].gen].state \notin {"none", "mounting"}
               /\ gen'[log'[j].gen].state # "gone" => gen'[log'[j].gen].of = log'[j].of
    <3>1. CASE j \in DOMAIN log
      <4>1. log'[j] = log[j] /\ log[j].gen \in Gens /\ log[j].gen # g
        BY <1>0, <1>new, <2>1, <3>1 DEF Typed, Recorded
      <4>2. /\ gen[log[j].gen].state \notin {"none", "mounting"}
            /\ gen[log[j].gen].state # "gone" => gen[log[j].gen].of = log[j].of
        BY <1>0, <3>1 DEF RowsOK
      <4>3. gen'[log[j].gen].state # "gone" => gen[log[j].gen].state # "gone"
        BY <1>can, <1>gen, <4>1
      <4> QED
        BY <1>gen, <1>known, <4>1, <4>2, <4>3
    <3>2. CASE j = Len(log) + 1
      BY <1>row, <1>gen, <2>1, <3>2
    <3> QED
      BY <2>1, <3>1, <3>2
  <2> QED
    BY <1>do, <1>eq, <1>rows, <2>2, <2>3 DEF RowsOK
<1>10. Selected'
  <2>1. ASSUME NEW k \in Harnesses, current'[k] # None
        PROVE  /\ gen'[current'[k]].state = "current" /\ gen'[current'[k]].of = k
               /\ Rows(log', k) # {}
               /\ LastRow(log', k).gen = current'[k]
               /\ LastRow(log', k).rev = gen'[current'[k]].exp + 1
    <3>1. CASE k = "main"
      <4>1. current'[k] = g
        BY <1>0, <1>after, <3>1 DEF TypeOK
      <4> QED
        BY <1>row, <1>rows, <1>gen, <3>1, <4>1
    <3>2. CASE k # "main"
      <4>1. current'[k] = current[k] /\ current[k] # None /\ current[k] \in Gens
        BY <1>0, <1>after, <2>1, <3>2 DEF TypeOK, Typed
      <4>2. /\ gen[current[k]].state = "current" /\ gen[current[k]].of = k
            /\ Rows(records, k) # {}
            /\ LastRow(records, k).gen = current[k]
            /\ LastRow(records, k).rev = gen[current[k]].exp + 1
        BY <1>0, <4>1 DEF Selected
      <4>3. gen'[current[k]] = gen[current[k]]
        BY <1>do, <1>can, <1>gen, <3>2, <4>1, <4>2
      <4> QED
        BY <1>rows, <3>2, <4>1, <4>2, <4>3
    <3> QED
      BY <3>1, <3>2
  <2>2. ASSUME NEW f \in Gens, gen'[f].state = "current" PROVE current'[gen'[f].of] = f
    <3>1. CASE f = g
      BY <1>0, <1>main, <1>after, <1>gen, <3>1 DEF TypeOK
    <3>2. CASE f # g
      <4>1. f # current["main"] /\ gen'[f] = gen[f]
        BY <1>can, <1>gen, <2>2, <3>2
      <4>2. current[gen[f].of] = f /\ gen[f].of \in Harnesses
        BY <1>0, <2>2, <4>1 DEF Selected, Typed
      <4>3. gen[f].of # "main"
        BY <4>1, <4>2
      <4> QED
        BY <1>0, <1>after, <4>1, <4>2, <4>3 DEF TypeOK
    <3> QED
      BY <3>1, <3>2
  <2> QED
    BY <1>eq, <2>1, <2>2 DEF Selected
<1>11. CandOK'
  <2>1. ASSUME NEW f \in cands
        PROVE  /\ gen'[f].state \notin {"none", "mounting"} /\ (Running => gen'[f].state = "ready")
               /\ Recorded(log', f) => f \in unsure
    <3>1. ~ \E d \in Callers : call[d].at = "written" /\ call[d].on = f
      BY <1>free DEF At
    <3>2. Recorded(log', f) => Recorded(log, f)
      BY <1>0, <1>cands, <1>rows, <2>1 DEF Typed
    <3> QED
      BY <1>0, <1>cands, <3>1, <3>2 DEF CandOK
  <2> QED
    BY <1>do, <1>run, <2>1 DEF CandOK
<1>12. DropOK'
  <2>1. \A f \in Gens : OutOfUse(f) => OutOfUse(f)'
    BY <1>do, <1>rows, <1>known DEF OutOfUse
  <2>3. \A d \in Callers : call[d].at = "dropped" => call[d].on \in Gens
    BY <1>0 DEF Mounting, At
  <2> QED
    BY <1>0, <1>do, <2>1, <2>3 DEF DropOK, Typed
<1>13. UsersOK'
  <2>2. \A f \in Gens :
           /\ gen'[f].users = gen[f].users
           /\ gen'[f].state = "retired" => gen[f].state = "retired" \/ gen[f].users > 0
           /\ gen[f].users > 0 /\ gen[f].state \in {"current", "retired"} =>
                 gen'[f].state \in {"current", "retired"}
    BY <1>0, <1>none, <1>can, <1>gen DEF Typed
  <2> QED
    BY <1>0, <1>do, <1>users, <2>2, UsersKept
<1>14. Answered'
  BY <1>0, <1>do, <1>rows DEF Answered, Typed
<1>15. OnlyFaultsBlock'
  BY <1>0, <1>do, <1>after DEF OnlyFaultsBlock, TypeOK
<1> QED
  BY <1>1, <1>2, <1>3, <1>4, <1>5, <1>6, <1>7, <1>8,
     <1>9, <1>10, <1>11, <1>12, <1>13, <1>14, <1>15 DEF IInv

-----------------------------------------------------------------------------
(***************************************************************************)
(* The actions that have more than one outcome.                            *)
(***************************************************************************)
LEMMA StepOpen ==
  ASSUME IInv, Open
  PROVE  IInv'
<1>1. CASE /\ lock = "free" /\ lock' = "mine" /\ records' = log
           /\ boot' = "load" /\ star' = "no" /\ UNCHANGED <<failure, faulted>>
  BY <1>1, Opened DEF Open
<1>2. CASE /\ lock = "free" /\ lock' = "mine" /\ failure' = TRUE /\ faulted' = TRUE
           /\ boot' = "done" /\ star' = "broken" /\ UNCHANGED records
  BY <1>2, OpenFails DEF Open
<1>3. CASE /\ lock # "free" /\ boot' = "done" /\ star' = "locked"
           /\ UNCHANGED <<lock, memory, faulted>>
  BY <1>3, OpenLocked DEF Open
<1> QED
  BY <1>1, <1>2, <1>3 DEF Open

\* Loading a harness that the rows select, or blocking it, keeps the
\* invariant.
LEMMA StepLoad ==
  ASSUME IInv, NEW h \in Harnesses, Load(h)
  PROVE  IInv'
<1>1. CASE \E why \in {"contract", "damaged"} : blocked' = [blocked EXCEPT ![h] = why]
                                               /\ UNCHANGED mounts
  BY <1>1, LoadBlocks DEF Load
<1>2. CASE /\ gen' = [gen EXCEPT ![LastRow(records, h).gen] = Restored(LastRow(records, h))]
           /\ current' = [current EXCEPT ![h] = LastRow(records, h).gen]
           /\ UNCHANGED blocked
  BY <1>2, Loads DEF Load
<1> QED
  BY <1>1, <1>2 DEF Load

\* An append that puts its row on disk, or fails before it, keeps the
\* invariant.
LEMMA StepWrite ==
  ASSUME IInv, NEW c \in Callers, Write(c)
  PROVE  IInv'
<1>0. /\ TypeOK /\ Gated /\ Empty /\ BootAlone /\ LockMine /\ WritingOK /\ OnlyFaultsBlock
  BY DEF IInv
<1>w. /\ call[c].at = "writing" /\ At(c, {"writing", "written"})
      /\ UNCHANGED <<lock, records, mounts, cands, star, process, done, dropped, unsure>>
  BY DEF Write, At
<1>1. CASE /\ Owned /\ Valid(call[c].on)
           /\ log' = Append(log, RowOf(call[c].on, FALSE)) /\ Goto(c, "written")
           /\ UNCHANGED <<failure, blocked, gate, faulted>>
  BY <1>w, <1>1, RowWritten
<1>2. CASE ~(Owned /\ Valid(call[c].on)) /\ CommitFails(c) /\ UNCHANGED <<log, faulted>>
  <2>1. Valid(call[c].on)
    BY <1>0, <1>w DEF WritingOK
  <2>2. HasGate(c) /\ Running
    BY <1>0, <1>w DEF Gated, At, HasGate
  <2>3. ~Unread
    BY <1>0, <1>w DEF Empty, At
  <2>4. faulted
    BY <1>0, <1>2, <2>1, <2>2, <2>3 DEF LockMine, Owned, OnlyFaultsBlock
  <2>5. faulted' = TRUE
    BY <1>0, <1>2, <2>4 DEF TypeOK
  <2> QED
    BY <1>w, <1>2, <2>5, WriteFails
<1>3. CASE Owned /\ CommitFails(c) /\ faulted' = TRUE /\ UNCHANGED log
  BY <1>w, <1>3, WriteFails
<1> QED
  BY <1>1, <1>2, <1>3 DEF Write

\* An append that fails after its row is durable keeps the invariant.
LEMMA StepLateFailure ==
  ASSUME IInv, NEW c \in Callers, LateFailure(c)
  PROVE  IInv'
<1>1. /\ At(c, {"writing", "written"}) /\ CommitFails(c) /\ faulted' = TRUE
      /\ unsure' = unsure \cup {call[c].on}
      /\ UNCHANGED <<disk, records, mounts, cands, star, process, done, dropped>>
  BY DEF LateFailure, At
<1>2. call[c].on \in unsure'
  BY <1>1
<1> QED
  BY <1>1, <1>2, WriteFails

\* An acquisition at the head of the gate keeps the invariant.
LEMMA StepAsk ==
  ASSUME IInv, NEW c \in Callers, Ask(c)
  PROVE  IInv'
<1>a. /\ HasGate(c)
      /\ UNCHANGED <<disk, memory, mounts, cands, states, life, starts, history>>
  BY DEF Ask
<1>1. CASE call[c].at = "asking" /\ call[c].aborted /\ End(c) /\ Leave /\ UNCHANGED boot
  BY <1>a, <1>1, CallLeaves DEF At
<1>2. CASE /\ call[c].at = "asking" /\ ~call[c].aborted /\ star = "locked"
           /\ Goto(c, "retrying") /\ boot' = "open" /\ UNCHANGED gate
  BY <1>a, <1>2, AskRetries
<1>3. CASE /\ \/ call[c].at = "asking" /\ ~call[c].aborted /\ star # "locked"
              \/ call[c].at = "retrying" /\ boot = "done"
           /\ IF IsBlocked(call[c].of) THEN End(c) /\ Leave
              ELSE Goto(c, "checking") /\ UNCHANGED gate
           /\ UNCHANGED boot
  <2>1. At(c, {"asking", "retrying"}) /\ At(c, {"asking", "retrying", "checking"})
        /\ (call[c].at # "asking" => boot = "done") /\ (call[c].at = "retrying" => boot = "done")
    BY <1>3 DEF At
  <2>2. CASE IsBlocked(call[c].of)
    BY <1>a, <1>3, <2>1, <2>2, CallLeaves
  <2>3. CASE ~IsBlocked(call[c].of)
    <3>1. star = "no"
      BY <2>3 DEF IsBlocked
    <3> QED
      BY <1>a, <1>3, <2>1, <2>3, <3>1, AskChecks
  <2> QED
    BY <2>2, <2>3
<1> QED
  BY <1>1, <1>2, <1>3 DEF Ask

\* A lease is made while the store is this host's, or the call is refused.
LEMMA Checking ==
  ASSUME IInv, NEW c \in Callers, call[c].at = "checking"
  PROVE  boot = "done" /\ ~Unread /\ Running /\ lock = "mine"
<1>1. HasGate(c) /\ Running
  BY DEF IInv, Gated, At, HasGate
<1>2. ~Unread
  BY DEF IInv, Empty, At
<1> QED
  BY <1>1, <1>2 DEF IInv, LockMine

\* Granting or refusing a lease keeps the invariant.
LEMMA StepGrant ==
  ASSUME IInv, NEW c \in Callers, Grant(c)
  PROVE  IInv'
<1>a. /\ call[c].at = "checking" /\ HasGate(c) /\ Leave /\ failure' = ~Owned
      /\ UNCHANGED <<disk, records, current, cands, states, process, history>>
  BY DEF Grant
<1>b. boot = "done" /\ lock = "mine" /\ failure \in BOOLEAN
  BY <1>a, Checking DEF IInv, TypeOK
<1>c. failure' = failure
  BY <1>a, <1>b DEF Owned
<1>1. CASE \E g \in Choice(c) :
             /\ Owned /\ ~call[c].aborted
             /\ gen' = [gen EXCEPT ![g].users = @ + 1]
             /\ call' = [call EXCEPT ![c].at = "granted", ![c].on = g]
  <2>1. PICK g \in Choice(c) : /\ gen' = [gen EXCEPT ![g].users = @ + 1]
                               /\ call' = [call EXCEPT ![c].at = "granted", ![c].on = g]
    BY <1>1
  <2> QED
    BY <1>a, <1>c, <2>1, Granted
<1>2. CASE End(c) /\ UNCHANGED gen
  BY <1>a, <1>b, <1>c, <1>2, CallLeaves DEF At
<1> QED
  BY <1>1, <1>2 DEF Grant

(***************************************************************************)
(* The invariant holds at first and after every step.                      *)
(***************************************************************************)
LEMMA InitIInv == Init => IInv
<1> SUFFICES ASSUME Init PROVE IInv
  OBVIOUS
<1>0. /\ \A c \in Callers : call[c].at = "idle"
      /\ \A g \in Gens : gen[g] = Unmounted
      /\ \A h \in Harnesses : current[h] = None /\ blocked[h] = "no"
  BY DEF Init, Idle
<1>1. TypeOK
  <2>1. call \in [Callers -> CallType] /\ gen \in [Gens -> GenType]
    BY DEF Init, Idle, CallType, Places, Unmounted, GenType, States
  <2>2. log \in Seq(Row) /\ records \in Seq(Row) /\ gate \in Seq(Callers)
    BY EmptySeq DEF Init
  <2>3. /\ current \in [Harnesses -> Gens \cup {None}]
        /\ blocked \in [Harnesses -> {"no", "contract", "damaged", "failed"}]
        /\ starts \in 0..MaxStarts
    BY DEF Init
  <2> QED
    BY <2>1, <2>2, <2>3 DEF Init, TypeOK, CallType, GenType
<1>2. \A g \in Gens : Users(g) = {}
  BY <1>0 DEF Users
<1>3. UsersOK
  BY <1>0, <1>2, FS_EmptySet DEF UsersOK, Unmounted
<1>4. Gated /\ Mounting /\ Empty /\ BootAlone /\ LockMine
  BY <1>0 DEF Init, Gated, Mounting, Empty, BootAlone, LockMine, At, Running, Unread, Unmounted
<1>5. HasLast(log) /\ HasLast(records) /\ \A g \in Gens : ~Recorded(records, g)
  BY DEF Init, HasLast, Rows, Recorded
<1>6. RowsOK
  BY <1>5 DEF Init, RowsOK
<1>7. SameLog /\ WritingOK /\ Selected
  BY <1>0 DEF Init, SameLog, WritingOK, Selected, At, Unmounted
<1>8. CandOK /\ DropOK /\ Answered /\ OnlyFaultsBlock
  BY <1>0 DEF Init, CandOK, DropOK, Answered, OnlyFaultsBlock
<1> QED
  BY <1>1, <1>3, <1>4, <1>6, <1>7, <1>8 DEF IInv

\* Nothing happens.
LEMMA Stutter ==
  ASSUME IInv, UNCHANGED vars
  PROVE  IInv'
<1>0. UNCHANGED <<log, lock, records, failure, gen, current, cands, blocked, star, life, boot,
                  gate, call, starts, done, dropped, unsure, faulted>>
  BY DEF vars
<1>1. \A g \in Gens : Users(g)' = Users(g)
  BY <1>0 DEF Users
<1>2. UsersOK'
  BY <1>0, <1>1 DEF IInv, UsersOK
<1>3. (TypeOK /\ Gated /\ Mounting /\ Empty /\ BootAlone /\ LockMine)'
  <2>1. TypeOK' /\ Gated' /\ BootAlone'
    BY <1>0 DEF IInv, TypeOK, Gated, BootAlone, At, Running, HasGate
  <2>2. Mounting' /\ Empty' /\ LockMine'
    BY <1>0 DEF IInv, Mounting, Empty, LockMine, At, Running, Unread
  <2> QED
    BY <2>1, <2>2
<1>4. (SameLog /\ WritingOK /\ RowsOK /\ Selected)'
  BY <1>0 DEF IInv, SameLog, WritingOK, RowsOK, Selected, At, Valid, RowOf, Nobody
<1>5. (CandOK /\ DropOK /\ Answered /\ OnlyFaultsBlock)'
  BY <1>0 DEF IInv, CandOK, DropOK, OutOfUse, Answered, OnlyFaultsBlock, Running
<1> QED
  BY <1>2, <1>3, <1>4, <1>5 DEF IInv

\* Every step keeps the invariant.
LEMMA StepIInv == IInv /\ [Next]_vars => IInv'
<1> SUFFICES ASSUME IInv, [Next]_vars PROVE IInv'
  OBVIOUS
<1>1. CASE Booting
  <2>1. CASE Open
    BY <2>1, StepOpen
  <2>2. CASE Loaded
    BY <2>2, StepLoaded
  <2>3. CASE KeepBuiltin
    BY <2>3, StepKeepBuiltin
  <2>4. CASE \E h \in Harnesses : Load(h)
    BY <2>4, StepLoad
  <2>5. CASE BuiltinFails
    BY <2>5, StepBuiltinFails
  <2>6. CASE \E g \in Gens : SelectBuiltin(g)
    BY <2>6, StepSelectBuiltin
  <2> QED
    BY <1>1, <2>1, <2>2, <2>3, <2>4, <2>5, <2>6 DEF Booting
<1>2. CASE Closing
  <2>1. CASE CloseManager
    BY <2>1, StepCloseManager
  <2>2. CASE CloseStore
    BY <2>2, StepCloseStore
  <2>3. CASE Exit
    BY <2>3, Forgets DEF Exit
  <2> QED
    BY <1>2, <2>1, <2>2, <2>3 DEF Closing
<1>3. ASSUME NEW c \in Callers, Serve(c) PROVE IInv'
  <2>1. CASE Mounted(c)
    BY <2>1, StepMounted
  <2>2. CASE Commit(c)
    BY <2>2, StepCommit
  <2>3. CASE Write(c)
    BY <2>3, StepWrite
  <2>4. CASE Acknowledge(c)
    BY <2>4, StepAcknowledge
  <2>5. CASE LateFailure(c)
    BY <2>5, StepLateFailure
  <2>6. CASE TakeOut(c)
    BY <2>6, StepTakeOut
  <2>7. CASE Dropped(c)
    BY <2>7, StepDropped
  <2>8. CASE Ask(c)
    BY <2>8, StepAsk
  <2>9. CASE Grant(c)
    BY <2>9, StepGrant
  <2>10. CASE Deliver(c)
    BY <2>10, StepDeliver
  <2>11. CASE Released(c)
    BY <2>11, StepReleased
  <2> QED
    BY <1>3, <2>1, <2>2, <2>3, <2>4, <2>5, <2>6, <2>7, <2>8, <2>9, <2>10, <2>11 DEF Serve
<1>4. ASSUME NEW g \in Gens, Dispose(g) PROVE IInv'
  BY <1>4, StepDispose
<1>5. ASSUME NEW c \in Callers, Client(c) PROVE IInv'
  <2>1. CASE \E h \in Harnesses : \E g \in Gens : Prepare(c, h, g)
    BY <2>1, StepPrepare
  <2>2. CASE \E g \in Gens : Activate(c, g) \/ Discard(c, g)
    BY <2>2, StepActivate, StepDiscard
  <2>3. CASE \E h \in Harnesses : \E pin \in Gens \cup {None} : Acquire(c, h, pin)
    BY <2>3, StepAcquire
  <2>4. CASE Authorized(c)
    BY <2>4, StepAuthorized
  <2>5. CASE Abort(c)
    BY <2>5, StepAbort
  <2>6. CASE Release(c)
    BY <2>6, StepRelease
  <2> QED
    BY <1>5, <2>1, <2>2, <2>3, <2>4, <2>5, <2>6 DEF Client
<1>6. CASE Start
  BY <1>6, StepStart
<1>7. CASE Close
  BY <1>7, StepClose
<1>8. CASE Crash
  BY <1>8, Forgets DEF Crash
<1>9. CASE OtherTakes
  BY <1>9, StepOtherTakes
<1>10. CASE OtherLeaves
  BY <1>10, StepOtherLeaves
<1>11. CASE UNCHANGED vars
  BY <1>11, Stutter
<1> QED
  BY <1>1, <1>2, <1>3, <1>4, <1>5, <1>6, <1>7, <1>8, <1>9, <1>10, <1>11 DEF Next, Host

\* The invariant holds at every moment.
LEMMA Invariance == Spec => []IInv
  BY InitIInv, StepIInv, PTL DEF Spec

-----------------------------------------------------------------------------
(***************************************************************************)
(* The promises.                                                           *)
(***************************************************************************)

(* Whoever has a lease has a mounted generation and the store is this       *)
(* host's; the users that a generation counts are those callers, and one    *)
(* that is selected no more and has none of them is being cleaned up.       *)
THEOREM LeasesAreGood == Spec => []LeaseIsGood
<1>1. IInv => LeaseIsGood
  BY DEF IInv, UsersOK, LeaseIsGood
<1> QED
  BY <1>1, Invariance, PTL

(* What activate() has acknowledged is in the log for ever, whatever failed *)
(* or crashed since, and a candidate that was discarded never gets into it, *)
(* except by an append whose outcome nobody was told.                       *)
THEOREM AnswersAreKept == Spec => []AnswersHold
<1>1. IInv => AnswersHold
  BY DEF IInv, Answered, DropOK, OutOfUse, AnswersHold
<1> QED
  BY <1>1, Invariance, PTL

(* Without a fault of the disk the store never refuses and no harness is    *)
(* ever blocked behind an activation that failed.                           *)
THEOREM FaultsAlone == Spec => []OnlyFaultsBlock
<1>1. IInv => OnlyFaultsBlock
  BY DEF IInv
<1> QED
  BY <1>1, Invariance, PTL

Admission ==
    \A c \in Callers : call[c].at = "checking" /\ call'[c].at = "granted" =>
        \/ call'[c].on = LastRow(log, call[c].of).gen
        \/ call[c].on = call'[c].on /\ Live(call[c].on)

\* A lease is granted on the generation of its harness's last row, or on
\* the live one that the caller has pinned.
LEMMA Admits ==
  ASSUME IInv, NEW c \in Callers, Grant(c), call'[c].at = "granted"
  PROVE  \/ call'[c].on = LastRow(log, call[c].of).gen
         \/ call[c].on = call'[c].on /\ Live(call[c].on)
<1>0. TypeOK /\ Typed /\ Selected /\ SameLog /\ Gated
  BY TypesAre DEF IInv
<1>1. call[c].at = "checking" /\ boot = "done" /\ lock = "mine" /\ HasGate(c)
  BY Checking DEF Grant
<1>2. PICK g \in Choice(c) : Owned /\ call' = [call EXCEPT ![c].at = "granted", ![c].on = g]
  <2>1. ~End(c)
    BY <1>0, EndIs
  <2> QED
    BY <2>1 DEF Grant
<1>3. call'[c].on = g /\ g \in Gens /\ gen[g].of = call[c].of /\ call[c].of \in Harnesses
  <2>1. call \in [Callers -> CallType] /\ call[c].of \in Harnesses
    BY <1>0 DEF TypeOK, CallType
  <2> QED
    BY <1>2, <2>1 DEF Choice, CallType
<1>4. records = log
  <2>1. Nobody("written")
    BY <1>0, <1>1 DEF Gated, HasGate, Nobody, At
  <2> QED
    BY <1>0, <1>1, <1>2, <2>1 DEF SameLog, Owned
<1>s. current[call[c].of] = g => g = LastRow(log, call[c].of).gen
  <2>1. g # None
    BY <1>3
  <2>2. current[call[c].of] # None => LastRow(records, call[c].of).gen = current[call[c].of]
    BY <1>0, <1>3 DEF Selected
  <2> QED
    BY <1>4, <2>1, <2>2
<1>5. gen[g].state = "current" => g = LastRow(log, call[c].of).gen
  <2>1. gen[g].state = "current" => current[call[c].of] = g
    BY <1>0, <1>3 DEF Selected
  <2> QED
    BY <1>s, <2>1
<1>6. CASE call[c].on = None
  <2>1. current[call[c].of] = g
    BY <1>6 DEF Choice
  <2> QED
    BY <1>3, <1>s, <2>1
<1>7. CASE call[c].on # None
  <2>1. call[c].on = g /\ (gen[g].state = "current" \/ Live(g))
    BY <1>7 DEF Choice
  <2> QED
    BY <1>3, <1>5, <2>1
<1> QED
  BY <1>6, <1>7

\* Nothing but Grant gives a lease.
LEMMA GrantsOnly ==
  ASSUME IInv, Next, NEW c \in Callers, call[c].at = "checking", call'[c].at = "granted"
  PROVE  Grant(c)
<1>0. TypeOK
  BY DEF IInv
<1>1. ASSUME NEW d \in Callers, Serve(d), ~Grant(d) PROVE FALSE
  <2>1. CASE Mounted(d)
    BY <1>0, <2>1, EndIs DEF Mounted, Others
  <2>2. CASE Commit(d)
    BY <1>0, <2>2, EndIs, GotoIs DEF Commit, Others, Places
  <2>3. CASE Write(d)
    BY <1>0, <2>3, EndIs, GotoIs DEF Write, CommitFails, Others, Places
  <2>4. CASE Acknowledge(d)
    BY <1>0, <2>4, EndIs DEF Acknowledge, Others
  <2>5. CASE LateFailure(d)
    BY <1>0, <2>5, EndIs DEF LateFailure, CommitFails, Others
  <2>6. CASE TakeOut(d)
    BY <1>0, <2>6, EndIs, GotoIs DEF TakeOut, Others, Places
  <2>7. CASE Dropped(d)
    BY <1>0, <2>7, EndIs DEF Dropped, Others
  <2>8. CASE Ask(d)
    BY <1>0, <2>8, EndIs, GotoIs DEF Ask, Others, Places
  <2>9. CASE Deliver(d)
    BY <1>0, <2>9, GotoIs DEF Deliver, Others, Places
  <2>10. CASE Released(d)
    BY <1>0, <2>10, EndIs DEF Released, Others
  <2> QED
    BY <1>1, <2>1, <2>2, <2>3, <2>4, <2>5, <2>6, <2>7, <2>8, <2>9, <2>10 DEF Serve
<1>2. ASSUME NEW d \in Callers, Client(d) PROVE FALSE
  <2>1. ASSUME NEW h \in Harnesses, NEW g \in Gens, Prepare(d, h, g) PROVE FALSE
    BY <1>0, <2>1, BeginIs DEF Prepare, Others, Places
  <2>2. ASSUME NEW g \in Gens, Activate(d, g) PROVE FALSE
    BY <1>0, <2>2 DEF Activate, Begin, TypeOK
  <2>3. ASSUME NEW g \in Gens, Discard(d, g) PROVE FALSE
    BY <1>0, <2>3 DEF Discard, Begin, TypeOK
  <2>4. ASSUME NEW h \in Harnesses, NEW pin \in Gens \cup {None}, Acquire(d, h, pin) PROVE FALSE
    BY <1>0, <2>4, BeginIs DEF Acquire, Others, Places
  <2>5. CASE Authorized(d)
    BY <1>0, <2>5, EndIs, GotoIs DEF Authorized, Others, Places
  <2>6. CASE Abort(d)
    BY <1>0, <2>6 DEF Abort, TypeOK
  <2>7. CASE Release(d)
    BY <1>0, <2>7, GotoIs DEF Release, Others, Places
  <2> QED
    BY <1>2, <2>1, <2>2, <2>3, <2>4, <2>5, <2>6, <2>7 DEF Client
<1>3. ASSUME Booting PROVE FALSE
  <2>1. call' = call
    BY <1>3 DEF Booting, Open, Loaded, KeepBuiltin, Load, BuiltinFails, SelectBuiltin
  <2> QED
    BY <2>1
<1>4. ASSUME Forget PROVE FALSE
  BY <1>4 DEF Forget, Idle
<1>5. ASSUME Closing PROVE FALSE
  <2>1. Forget \/ call' = call
    BY <1>5 DEF Closing, CloseManager, CloseStore, Exit
  <2> QED
    BY <1>4, <2>1
<1>6. ASSUME Start \/ Close \/ OtherTakes \/ OtherLeaves \/ \E g \in Gens : Dispose(g)
      PROVE  FALSE
  BY <1>6 DEF Start, Close, OtherTakes, OtherLeaves, Dispose
<1>7. ASSUME Crash PROVE FALSE
  BY <1>4, <1>7 DEF Crash
<1>8. PICK d \in Callers : Serve(d)
  <2>1. ~Booting /\ ~Closing /\ ~Crash
    BY <1>3, <1>5, <1>7
  <2>2. ~(Start \/ Close \/ OtherTakes \/ OtherLeaves \/ \E g \in Gens : Dispose(g))
    BY <1>6
  <2>3. ~ \E d \in Callers : Client(d)
    BY <1>2
  <2>4. \E d \in Callers : Serve(d)
    BY <2>1, <2>2, <2>3 DEF Next, Host
  <2> QED
    BY <2>4
<1>9. Grant(d)
  BY <1>1, <1>8
<1> QED
  <2>1. d # c => call'[c] = call[c]
    BY <1>0, <1>9, EndIs DEF Grant, Others, TypeOK
  <2> QED
    BY <1>9, <2>1

(* A lease is given on the generation of the last row that the disk has at  *)
(* that moment, or, pinned, on the one that a caller still uses.            *)
THEOREM AdmitsAsWritten == Spec => AdmittedAsWritten
<1>1. IInv /\ [Next]_vars => [Admission]_vars
  <2> SUFFICES ASSUME IInv, Next PROVE Admission
    OBVIOUS
  <2> SUFFICES ASSUME NEW c \in Callers, call[c].at = "checking", call'[c].at = "granted"
               PROVE  \/ call'[c].on = LastRow(log, call[c].of).gen
                      \/ call[c].on = call'[c].on /\ Live(call[c].on)
    BY DEF Admission
  <2> QED
    BY GrantsOnly, Admits
<1>2. Spec => [][Admission]_vars
  BY <1>1, Invariance, PTL DEF Spec
<1> QED
  BY <1>2 DEF Admission, AdmittedAsWritten

=============================================================================
