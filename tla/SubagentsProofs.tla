-------------------------- MODULE SubagentsProofs --------------------------
(***************************************************************************)
(* What the manager of subagents promises for any number of agents,        *)
(* messages, rewinds and process deaths: an end reaches one reader, no     *)
(* message that was delivered is stranded, and what the tree shows as      *)
(* running is run.                                                         *)
(*                                                                         *)
(* Agents share nothing but the flush of the journal and the count of      *)
(* messages.  The invariant is therefore one of a single agent, stated of  *)
(* the values of its variables: l its part of the journal, n its           *)
(* registered activation, r its activations, k its lock, x its inbox, y    *)
(* the synchronous call and c what is to be recovered.  `Serial` is its    *)
(* heart: an activation starts only when all before it are settled in the  *)
(* journal, which is true of every prefix that a crash may leave.          *)
(***************************************************************************)
EXTENDS Subagents, FiniteSetTheorems, FunctionTheorems, SequenceTheorems, TLAPS

Whats == {"start", "notice"} \cup Settles
Events == Whats \X (Nat \ {0})
Waiting == {"message", "continue", "decide"} \X (Agents \cup {Root})
Activation == [at : {"opening", "logged", "turn", "decide", "settling", "recorded", "noticed",
                     "over", "failed"},
               by : Agents \cup {Root}, delivery : {"caller", "parent", "dropped"},
               aborted : BOOLEAN, end : {"none", "completed", "failed"}]

\* Where the registered activation is.
Place(n, r) == IF n = 0 THEN "none" ELSE r[n].at
Ending == {"settling", "recorded", "noticed"}

Types(l, f, n, r, k, x, o, y, c) ==
  /\ l \in Seq(Events) /\ f \in 0..Len(l) /\ r \in Seq(Activation) /\ k \in Seq(Waiting)
  /\ n \in Nat /\ x \in Nat /\ c \in Nat
  /\ o \in {"no", "caller", "parent"} /\ y \in {"no", "waiting", "moved", "result"}

\* One activation is registered at most, the last one; a call of agent_fork has none yet.
Registered(n, r, o) ==
  /\ n # 0 => n = Len(r) /\ n >= 1 /\ r[n].at \notin {"over", "failed"}
  /\ \A i \in 1..Len(r) : i # n => r[i].at \in {"over", "failed"}
  /\ Place(n, r) \in {"opening", "logged"} => r[n].end = "none"
  /\ o # "no" => r = <<>>

\* An activation starts in the journal when those before it are settled there.
Serial(l) ==
  \A i, j \in 1..Len(l) : i < j /\ l[i][1] = "start" /\ l[j][1] = "start" =>
    /\ l[i][2] < l[j][2]
    /\ \E d \in 1..Len(l) : d < j /\ l[d][1] \in Settles /\ l[d][2] = l[i][2]

\* One settle, and one notice behind a settle that asks for one.
Once(l) ==
  /\ \A i, j \in 1..Len(l) : l[i][1] \in Settles /\ l[j][1] \in Settles /\ l[i][2] = l[j][2] => i = j
  /\ \A i, j \in 1..Len(l) : l[i][1] = "notice" /\ l[j] = l[i] => i = j
  /\ \A j \in 1..Len(l) : l[j][1] = "notice" =>
       \E d \in 1..Len(l) : d < j /\ l[d][1] \in {"notified", "lost"} /\ l[d][2] = l[j][2]

\* The journal and what is registered.
Journal(l, n, r, c) ==
  /\ Serial(l) /\ Once(l)
  /\ \A i \in 1..Len(l) : l[i][2] <= Len(r) /\ (Place(n, r) = "opening" => l[i][2] # n)
  /\ OpenIn(l) \subseteq (IF c = 0 THEN {n} ELSE {c})
  /\ Place(n, r) \in {"logged", "turn", "decide", "settling"} => n \in OpenIn(l)
  /\ Place(n, r) \in {"recorded", "noticed"} =>
       <<"start", n>> \in Logged(l) /\ <<Outcome(r[n].delivery), n>> \in Logged(l)
  /\ Place(n, r) = "recorded" => <<"notice", n>> \notin Logged(l)
  /\ c # 0 => /\ <<"start", c>> \in Logged(l) /\ <<"notice", c>> \notin Logged(l)
              /\ \A d \in Settles \ {"lost"} : <<d, c>> \notin Logged(l)

\* The lock and what is registered.
Locked(l, n, r, k) ==
  /\ k # <<>> => Starts(l) # {}
  /\ n > 1 /\ Place(n, r) \in {"opening", "logged"} => k # <<>> /\ k[1][1] = "continue"
  /\ \A i \in 1..Len(k) : k[i][1] = "continue" =>
       i = 1 /\ n > 1 /\ Place(n, r) \in {"opening", "logged"}
  /\ \A i, j \in 1..Len(k) : k[i][1] = "decide" /\ k[j][1] = "decide" => i = j
  /\ \A i \in 1..Len(k) : k[i][1] = "decide" => Place(n, r) \in Ending \cup {"decide"}
  /\ Place(n, r) \in Ending => k # <<>> /\ k[1][1] = "decide"

\* The synchronous call of the first activation.
Synchronous(l, n, r, y) ==
  /\ y # "no" => r # <<>>
  /\ y = "waiting" => /\ n = 1 /\ Place(n, r) \in Ending \cup {"turn", "decide"}
                      /\ r[1].delivery = "caller"
  /\ y = "moved" => /\ <<"returned", 1>> \notin Logged(l)
                    /\ n = 1 => r[1].delivery # "caller"
  /\ y = "result" => <<"returned", 1>> \in Logged(l)

\* Unread messages have an activation behind every completed one, and an activation
\* that completes has none.
Heard(n, r, x) ==
  /\ \A i \in 1..Len(r) : i # n /\ r[i].end = "completed" /\ x > 0 =>
       \E j \in 1..Len(r) : j > i /\ r[j].at \notin {"opening", "failed"}
  /\ Place(n, r) \in Ending /\ r[n].end = "completed" => x = 0

\* Messages in the inbox, in the lock and on their way to a new activation were sent.
Messages(k) == {i \in 1..Len(k) : k[i][1] = "message"}
Sent(n, r, k, x, s) ==
  x + Cardinality(Messages(k)) + (IF n > 1 /\ Place(n, r) = "opening" THEN 1 ELSE 0) <= s

Good(l, f, n, r, k, x, o, y, c, s) ==
  /\ Types(l, f, n, r, k, x, o, y, c)
  /\ Registered(n, r, o) /\ Journal(l, n, r, c) /\ Locked(l, n, r, k)
  /\ Synchronous(l, n, r, y) /\ Heard(n, r, x) /\ Sent(n, r, k, x, s)

AgentOK(a) == Good(log[a], flushed[a], active[a], run[a], lock[a], inbox[a], fork[a], sync[a],
                   recon[a], messages)

Shape ==
  /\ DOMAIN log = Agents /\ DOMAIN flushed = Agents /\ DOMAIN active = Agents
  /\ DOMAIN run = Agents /\ DOMAIN lock = Agents /\ DOMAIN inbox = Agents
  /\ DOMAIN fork = Agents /\ DOMAIN sync = Agents /\ DOMAIN recon = Agents

\* While something is recovered nothing runs.
Recovering ==
  ~Up => /\ rewind = "no"
         /\ \A a \in Agents : active[a] = 0 /\ lock[a] = <<>> /\ fork[a] = "no" /\ sync[a] = "no"

Common ==
  /\ messages \in 0..MaxMessages
  /\ rewind \in {"no", "stopping", "stopped"} /\ (waits # {} => rewind = "stopping")

IInv == Shape /\ Common /\ Recovering /\ \A a \in Agents : AgentOK(a)

-----------------------------------------------------------------------------
(***************************************************************************)
(* The journal about an agent.                                             *)
(***************************************************************************)
\* An event is logged when it has a position.
LEMMA LoggedIs ==
  ASSUME NEW l \in Seq(Events)
  PROVE  /\ Logged(l) \subseteq Events
         /\ \A e : e \in Logged(l) <=> \E i \in 1..Len(l) : l[i] = e
         /\ \A i \in 1..Len(l) : /\ l[i] \in Events /\ l[i] \in Logged(l)
                                 /\ l[i] = <<l[i][1], l[i][2]>>
<1>1. DOMAIN l = 1..Len(l) /\ \A i \in 1..Len(l) : l[i] \in Events
  OBVIOUS
<1>2. \A e \in Events : e = <<e[1], e[2]>>
  BY DEF Events
<1> QED
  BY <1>1, <1>2 DEF Logged

\* Starts and open activations, by the events of the journal.
LEMMA OpenIs ==
  ASSUME NEW l \in Seq(Events)
  PROVE  /\ \A m : m \in Starts(l) <=> <<"start", m>> \in Logged(l)
         /\ \A m : m \in OpenIn(l) <=> /\ <<"start", m>> \in Logged(l)
                                       /\ \A d \in Settles : <<d, m>> \notin Logged(l)
<1>1. \A e \in Logged(l) : e = <<e[1], e[2]>>
  BY LoggedIs DEF Events
<1>2. \A m : m \in Starts(l) <=> <<"start", m>> \in Logged(l)
  <2> SUFFICES ASSUME NEW m
               PROVE  m \in Starts(l) <=> <<"start", m>> \in Logged(l)
    OBVIOUS
  <2>1. ASSUME m \in Starts(l) PROVE <<"start", m>> \in Logged(l)
    BY <1>1, <2>1 DEF Starts
  <2>2. ASSUME <<"start", m>> \in Logged(l) PROVE m \in Starts(l)
    <3>1. <<"start", m>>[1] = "start" /\ <<"start", m>>[2] = m
      OBVIOUS
    <3> QED
      BY <2>2, <3>1 DEF Starts
  <2> QED
    BY <2>1, <2>2
<1> QED
  BY <1>2 DEF OpenIn

\* One event more.
LEMMA OneMore ==
  ASSUME NEW l \in Seq(Events), NEW e \in Events
  PROVE  LET h == Append(l, e)
         IN  /\ h \in Seq(Events) /\ Len(h) = Len(l) + 1 /\ Len(l) \in Nat
             /\ \A i \in 1..Len(l) : h[i] = l[i]
             /\ h[Len(l) + 1] = e
             /\ Logged(h) = Logged(l) \cup {e}
<1> DEFINE h == Append(l, e)
<1>1. /\ h \in Seq(Events) /\ Len(h) = Len(l) + 1 /\ Len(l) \in Nat
      /\ \A i \in 1..Len(l) : h[i] = l[i]
      /\ h[Len(l) + 1] = e
  BY AppendProperties, LenProperties
<1> HIDE DEF h
<1>2. \A d : d \in Logged(h) <=> d \in Logged(l) \/ d = e
  <2>1. \A i \in 1..Len(h) : i \in 1..Len(l) \/ i = Len(l) + 1
    BY <1>1
  <2>2. \A i \in 1..Len(l) : i \in 1..Len(h)
    BY <1>1
  <2>3. Len(l) + 1 \in 1..Len(h)
    BY <1>1
  <2> QED
    <3>1. \A d : d \in Logged(h) <=> \E i \in 1..Len(h) : h[i] = d
      BY <1>1, LoggedIs
    <3>2. \A d : d \in Logged(l) <=> \E i \in 1..Len(l) : l[i] = d
      BY LoggedIs
    <3> QED
      BY <1>1, <2>1, <2>2, <2>3, <3>1, <3>2
<1> QED
  BY <1>1, <1>2 DEF h

\* What is left of the journal by a crash.
LEMMA Prefix ==
  ASSUME NEW l \in Seq(Events), NEW b \in 0..Len(l)
  PROVE  LET h == SubSeq(l, 1, b)
         IN  /\ h \in Seq(Events) /\ Len(h) = b
             /\ \A i \in 1..b : h[i] = l[i] /\ i \in 1..Len(l)
             /\ Logged(h) \subseteq Logged(l)
<1> DEFINE h == SubSeq(l, 1, b)
<1>1. /\ h \in Seq(Events) /\ Len(h) = b
      /\ \A i \in 1..b : h[i] = l[i] /\ i \in 1..Len(l)
  BY SubSeqProperties, LenProperties
<1> HIDE DEF h
<1>2. Logged(h) \subseteq Logged(l)
  BY <1>1, LoggedIs
<1> QED
  BY <1>1, <1>2 DEF h

(***************************************************************************)
(* The lock of a child.                                                    *)
(***************************************************************************)
\* The next one in the queue gets the lock.
LEMMA Shifted ==
  ASSUME NEW k \in Seq(Waiting), k # <<>>
  PROVE  LET q == Tail(k)
         IN  /\ q \in Seq(Waiting) /\ Len(q) = Len(k) - 1 /\ Len(k) \in Nat /\ Len(k) >= 1
             /\ \A i \in 1..Len(q) : q[i] = k[i + 1] /\ i + 1 \in 1..Len(k)
             /\ IsFiniteSet(Messages(k)) /\ IsFiniteSet(Messages(q))
             /\ Cardinality(Messages(k)) \in Nat /\ Cardinality(Messages(q)) \in Nat
             /\ Cardinality(Messages(k)) = Cardinality(Messages(q))
                                             + (IF k[1][1] = "message" THEN 1 ELSE 0)
<1> DEFINE q == Tail(k)
<1>1. /\ q \in Seq(Waiting) /\ Len(q) = Len(k) - 1 /\ Len(k) \in Nat /\ Len(k) >= 1
      /\ \A i \in 1..Len(q) : q[i] = k[i + 1] /\ i + 1 \in 1..Len(k)
  BY HeadTailProperties, LenProperties, EmptySeq
<1> HIDE DEF q
<1>2. IsFiniteSet(Messages(k)) /\ IsFiniteSet(Messages(q))
  <2>1. IsFiniteSet(1..Len(k)) /\ IsFiniteSet(1..Len(q))
    BY <1>1, FS_Interval
  <2>2. Messages(k) \subseteq 1..Len(k) /\ Messages(q) \subseteq 1..Len(q)
    BY DEF Messages
  <2> QED
    BY <2>1, <2>2, FS_Subset
<1> DEFINE later == {i \in Messages(k) : i # 1}
           g == [i \in Messages(q) |-> i + 1]
<1>3. g \in Bijection(Messages(q), later)
  <2>1. \A i \in Messages(q) : i + 1 \in later
    BY <1>1 DEF Messages
  <2>2. \A j \in later : j - 1 \in Messages(q) /\ g[j - 1] = j
    <3> TAKE j \in later
    <3>1. j \in 2..Len(k) /\ k[j][1] = "message" /\ j - 1 \in 1..Len(q)
      BY <1>1 DEF Messages
    <3>2. q[j - 1] = k[j]
      BY <1>1, <3>1
    <3>3. j - 1 \in Messages(q)
      BY <3>1, <3>2 DEF Messages
    <3>4. g[j - 1] = (j - 1) + 1
      BY <3>3
    <3> QED
      BY <3>1, <3>3, <3>4
  <2>3. \A i, j \in Messages(q) : g[i] = g[j] => i = j
    BY DEF Messages
  <2> QED
    BY <2>1, <2>2, <2>3, Fun_IsBij
<1> HIDE DEF g
<1>4. IsFiniteSet(later) /\ Cardinality(later) = Cardinality(Messages(q))
  BY <1>2, <1>3, FS_Bijection DEF ExistsBijection
<1> HIDE DEF later
<1>5. Cardinality(Messages(k)) \in Nat /\ Cardinality(Messages(q)) \in Nat
  BY <1>2, FS_CardinalityType
<1>6. Cardinality(Messages(k)) = Cardinality(Messages(q)) + (IF k[1][1] = "message" THEN 1 ELSE 0)
  <2>1. CASE k[1][1] = "message"
    <3>1. 1 \in Messages(k) /\ later = Messages(k) \ {1}
      BY <1>1, <2>1 DEF Messages, later
    <3>2. Cardinality(Messages(k) \ {1}) = Cardinality(Messages(k)) - 1
      BY <1>2, <3>1, FS_RemoveElement
    <3> QED
      BY <1>4, <1>5, <2>1, <3>1, <3>2
  <2>2. CASE k[1][1] # "message"
    <3>1. later = Messages(k)
      BY <2>2 DEF Messages, later
    <3> QED
      BY <1>4, <1>5, <2>2, <3>1
  <2> QED
    BY <2>1, <2>2
<1> QED
  BY <1>1, <1>2, <1>5, <1>6 DEF q

\* One more waits for the lock.
LEMMA Joined ==
  ASSUME NEW k \in Seq(Waiting), NEW w \in Waiting
  PROVE  LET q == Append(k, w)
         IN  /\ q \in Seq(Waiting) /\ Len(q) = Len(k) + 1 /\ Len(k) \in Nat
             /\ \A i \in 1..Len(k) : q[i] = k[i]
             /\ q[Len(k) + 1] = w /\ q # <<>>
             /\ Cardinality(Messages(k)) \in Nat
             /\ Cardinality(Messages(q)) = Cardinality(Messages(k))
                                             + (IF w[1] = "message" THEN 1 ELSE 0)
<1> DEFINE q == Append(k, w)
<1>1. /\ q \in Seq(Waiting) /\ Len(q) = Len(k) + 1 /\ Len(k) \in Nat
      /\ \A i \in 1..Len(k) : q[i] = k[i]
      /\ q[Len(k) + 1] = w /\ q # <<>>
  BY AppendProperties, LenProperties
<1> HIDE DEF q
<1>2. IsFiniteSet(Messages(k))
  <2>1. IsFiniteSet(1..Len(k)) /\ Messages(k) \subseteq 1..Len(k)
    BY <1>1, FS_Interval DEF Messages
  <2> QED
    BY <2>1, FS_Subset
<1>3. CASE w[1] = "message"
  <2>1. Messages(q) = Messages(k) \cup {Len(k) + 1} /\ Len(k) + 1 \notin Messages(k)
    BY <1>1, <1>3 DEF Messages
  <2> QED
    BY <1>1, <1>2, <1>3, <2>1, FS_AddElement, FS_CardinalityType DEF q
<1>4. CASE w[1] # "message"
  <2>1. Messages(q) = Messages(k)
    BY <1>1, <1>4 DEF Messages
  <2> QED
    BY <1>1, <1>2, <1>4, <2>1, FS_CardinalityType DEF q
<1> QED
  BY <1>3, <1>4

-----------------------------------------------------------------------------
(***************************************************************************)
(* Activations.                                                            *)
(***************************************************************************)
\* The facts about an agent that every step uses.
LEMMA Base ==
  ASSUME NEW l, NEW f, NEW n, NEW r, NEW k, NEW x, NEW o, NEW y, NEW c, NEW s,
         Good(l, f, n, r, k, x, o, y, c, s)
  PROVE  /\ l \in Seq(Events) /\ Len(l) \in Nat /\ f \in 0..Len(l)
         /\ r \in Seq(Activation) /\ Len(r) \in Nat /\ n \in 0..Len(r)
         /\ \A i \in 1..Len(r) : r[i] \in Activation
         /\ k \in Seq(Waiting) /\ Len(k) \in Nat /\ \A i \in 1..Len(k) : k[i] \in Waiting
         /\ k = <<>> \/ 1 \in 1..Len(k)
         /\ \A i \in 1..Len(l) : l[i][2] \in Nat \ {0} /\ l[i][2] <= Len(r)
         /\ n # 0 => n \in 1..Len(r) /\ n = Len(r) /\ r[n] \in Activation /\ Place(n, r) = r[n].at
         /\ n = 0 => Place(n, r) = "none"
<1>1. /\ l \in Seq(Events) /\ f \in 0..Len(l) /\ r \in Seq(Activation) /\ k \in Seq(Waiting) /\ n \in Nat
      /\ n # 0 => n = Len(r) /\ n >= 1
      /\ \A i \in 1..Len(l) : l[i][2] <= Len(r)
  BY DEF Good, Types, Registered, Journal
<1>2. Len(l) \in Nat /\ Len(r) \in Nat /\ Len(k) \in Nat
  BY <1>1, LenProperties
<1>3. /\ \A i \in 1..Len(r) : r[i] \in Activation
      /\ \A i \in 1..Len(k) : k[i] \in Waiting
      /\ \A i \in 1..Len(l) : l[i] \in Events
  BY <1>1, ElementOfSeq
<1>4. \A i \in 1..Len(l) : l[i][2] \in Nat \ {0}
  BY <1>3 DEF Events
<1>5. k = <<>> \/ 1 \in 1..Len(k)
  BY <1>1, <1>2, EmptySeq
<1> QED
  BY <1>1, <1>2, <1>3, <1>4, <1>5 DEF Place

\* An agent that nothing has been registered for has no journal, lock or call.
LEMMA Untouched ==
  ASSUME NEW l, NEW f, NEW n, NEW r, NEW k, NEW x, NEW o, NEW y, NEW c, NEW s,
         Good(l, f, n, r, k, x, o, y, c, s),
         r = <<>> \/ (Len(r) = 1 /\ Place(n, r) = "opening")
  PROVE  l = <<>> /\ Logged(l) = {} /\ Starts(l) = {} /\ k = <<>> /\ (r = <<>> => n = 0 /\ y = "no")
<1>1. /\ \A i \in 1..Len(l) : l[i][2] \in Nat \ {0} /\ l[i][2] <= Len(r)
      /\ l \in Seq(Events) /\ Len(l) \in Nat
  BY Base
<1>2. Len(r) = 0 \/ (Len(r) = 1 /\ \A i \in 1..Len(l) : l[i][2] # 1)
  <2>1. CASE r = <<>>
    <3>1. r = <<>> => Len(r) = 0
      OBVIOUS
    <3> QED
      BY <2>1, <3>1
  <2>2. CASE Len(r) = 1 /\ Place(n, r) = "opening"
    <3>1. n = 1
      BY <2>2, Base
    <3> QED
      BY <2>2, <3>1 DEF Good, Journal
  <2> QED
    BY <2>1, <2>2
<1>3. \A m \in Nat \ {0} : m <= Len(r) => Len(r) = 1 /\ m = 1
  <2>1. Len(r) = 0 \/ Len(r) = 1
    BY <1>2
  <2>2. \A u \in {0, 1} : \A m \in Nat \ {0} : m <= u => u = 1 /\ m = 1
    OBVIOUS
  <2> QED
    BY <2>1, <2>2
<1>4. \A i \in 1..Len(l) : FALSE
  BY <1>1, <1>2, <1>3
<1>5. l = <<>>
  BY <1>1, <1>4, EmptySeq
<1>6. Logged(l) = {}
  BY <1>1, <1>4, LoggedIs
<1>7. Starts(l) = {}
  BY <1>1, <1>6, OpenIs
<1>8. k = <<>>
  BY <1>7 DEF Good, Locked
<1>9. r = <<>> => n = 0 /\ y = "no"
  <2>1. r = <<>> => Len(r) = 0
    OBVIOUS
  <2> QED
    BY <2>1 DEF Good, Types, Registered, Synchronous
<1> QED
  BY <1>5, <1>6, <1>7, <1>8, <1>9

\* The messages that wait for a lock are finitely many.
LEMMA CountIs ==
  ASSUME NEW k \in Seq(Waiting)
  PROVE  IsFiniteSet(Messages(k)) /\ Cardinality(Messages(k)) \in Nat
<1>1. IsFiniteSet(1..Len(k)) /\ Messages(k) \subseteq 1..Len(k)
  BY LenProperties, FS_Interval DEF Messages
<1> QED
  BY <1>1, FS_Subset, FS_CardinalityType

\* A flush, and a message to another agent, concern nobody.
LEMMA Elsewhere ==
  ASSUME NEW l, NEW f, NEW n, NEW r, NEW k, NEW x, NEW o, NEW y, NEW c, NEW s \in Nat,
         Good(l, f, n, r, k, x, o, y, c, s),
         NEW g \in {f, Len(l)}, NEW t \in Nat, s <= t
  PROVE  Good(l, g, n, r, k, x, o, y, c, t)
<1>1. g \in 0..Len(l)
  BY Base
<1>2. Sent(n, r, k, x, t)
  <2>1. Cardinality(Messages(k)) \in Nat
    BY Base, CountIs
  <2> QED
    BY <2>1 DEF Good, Sent, Types
<1> QED
  BY <1>1, <1>2 DEF Good, Types

\* q is r but for its activation n.
Changed(r, n, q) ==
  q \in Seq(Activation) /\ Len(q) = Len(r) /\ \A i \in 1..Len(r) : i # n => q[i] = r[i]

\* An update of one activation.
LEMMA Updated ==
  ASSUME NEW r \in Seq(Activation), NEW n \in 1..Len(r), NEW v \in Activation
  PROVE  LET q == [r EXCEPT ![n] = v] IN Changed(r, n, q) /\ q[n] = v
<1>1. r \in [1..Len(r) -> Activation] /\ Len(r) \in Nat
  OBVIOUS
<1>2. [r EXCEPT ![n] = v] \in [1..Len(r) -> Activation]
  BY <1>1
<1>3. [r EXCEPT ![n] = v] \in Seq(Activation) /\ Len([r EXCEPT ![n] = v]) = Len(r)
  BY <1>1, <1>2, SeqDef
<1> QED
  BY <1>1, <1>3 DEF Changed

-----------------------------------------------------------------------------
(***************************************************************************)
(* The steps of one agent.  q is what its activations become.              *)
(***************************************************************************)
Going == {"logged", "turn", "decide"} \cup Ending

\* The agent of an activation that is on its way.
LEMMA Goes ==
  ASSUME NEW l, NEW f, NEW n, NEW r, NEW k, NEW x, NEW o, NEW y, NEW s,
         Good(l, f, n, r, k, x, o, y, 0, s), n # 0,
         NEW q, Changed(r, n, q), q[n].at \in Going, q[n].at = "logged" => q[n].end = "none",
         NEW z \in Nat, q[n].at \in Ending /\ q[n].end = "completed" => z = 0
  PROVE  Place(n, q) = q[n].at /\ Registered(n, q, o) /\ Heard(n, q, z)
<1>1. /\ r \in Seq(Activation) /\ Len(r) \in Nat /\ n \in 1..Len(r) /\ n = Len(r)
      /\ o = "no"
  <2>1. r \in Seq(Activation) /\ Len(r) \in Nat /\ n \in 1..Len(r) /\ n = Len(r)
    BY Base
  <2>2. r # <<>>
    BY <2>1
  <2> QED
    BY <2>1, <2>2 DEF Good, Registered
<1>2. q[n].at \notin {"over", "failed", "opening", "none"}
  BY DEF Going, Ending
<1>3. Place(n, q) = q[n].at
  BY DEF Place
<1>4. \A i \in 1..Len(q) : i # n => q[i] = r[i] /\ r[i].at \in {"over", "failed"}
  BY DEF Good, Registered, Changed
<1>5. Registered(n, q, o)
  BY <1>1, <1>2, <1>3, <1>4 DEF Registered, Changed
<1>6. Heard(n, q, z)
  <2>1. n \in 1..Len(q) /\ q[n].at \notin {"opening", "failed"} /\ \A i \in 1..Len(q) : i # n => n > i
    BY <1>1, <1>2 DEF Changed
  <2> QED
    BY <1>3, <2>1 DEF Heard
<1> QED
  BY <1>3, <1>5, <1>6

\* A journal that nothing is written to.
LEMMA SameJournal ==
  ASSUME NEW l, NEW n, NEW r, NEW q, NEW c, Journal(l, n, r, c), Len(q) = Len(r),
         {Place(n, r), Place(n, q)} \subseteq {"logged", "turn", "decide", "settling"}
  PROVE  Journal(l, n, q, c)
BY DEF Journal

\* A lock that nobody takes or leaves.
LEMMA SameLock ==
  ASSUME NEW l, NEW n, NEW r, NEW q, NEW k, Locked(l, n, r, k),
         \/ {Place(n, r), Place(n, q)} \subseteq {"opening", "logged"}
         \/ {Place(n, r), Place(n, q)} = {"turn"}
         \/ {Place(n, r), Place(n, q)} \subseteq Ending
         \/ {Place(n, r), Place(n, q)} = {"decide"}
  PROVE  Locked(l, n, q, k)
BY DEF Locked, Ending

\* The lock passes to the next in the queue.
LEMMA LockPassed ==
  ASSUME NEW l, NEW f, NEW n, NEW r, NEW k, NEW x, NEW o, NEW y, NEW c, NEW s,
         Good(l, f, n, r, k, x, o, y, c, s), k # <<>>,
         NEW m, NEW q, Place(m, q) \notin Ending, m > 1 => Place(m, q) \notin {"opening", "logged"},
         k[1][1] = "decide" \/ Place(m, q) = "decide" \/ Place(n, r) \notin Ending \cup {"decide"},
         NEW h, Starts(l) # {} => Starts(h) # {}
  PROVE  Locked(h, m, q, Tail(k))
<1> DEFINE t == Tail(k)
<1>1. k \in Seq(Waiting)
  BY Base
<1>2. /\ Len(t) = Len(k) - 1 /\ Len(k) \in Nat /\ Len(k) >= 1
      /\ \A i \in 1..Len(t) : t[i] = k[i + 1] /\ i + 1 \in 1..Len(k)
  BY <1>1, Shifted
<1> HIDE DEF t
<1>3. \A i \in 1..Len(t) : i + 1 # 1 /\ \A j \in 1..Len(t) : i + 1 = j + 1 => i = j
  BY <1>2
<1>4. \A i \in 1..Len(t) : t[i][1] # "continue"
  BY <1>2, <1>3 DEF Good, Locked
<1>5. \A i, j \in 1..Len(t) : t[i][1] = "decide" /\ t[j][1] = "decide" => i = j
  BY <1>2, <1>3 DEF Good, Locked
<1>6. \A i \in 1..Len(t) : t[i][1] = "decide" => Place(m, q) = "decide"
  <2>1. 1 \in 1..Len(k)
    BY <1>2
  <2> QED
    BY <1>2, <1>3, <2>1 DEF Good, Locked
<1>7. Starts(h) # {}
  BY DEF Good, Locked
<1> QED
  BY <1>4, <1>5, <1>6, <1>7 DEF Locked, t

\* A journal that something else than a start is written to.
LEMMA SerialMore ==
  ASSUME NEW l \in Seq(Events), NEW e \in Events, Serial(l), e[1] # "start"
  PROVE  Serial(Append(l, e))
<1> DEFINE h == Append(l, e)
<1>1. /\ Len(h) = Len(l) + 1 /\ Len(l) \in Nat
      /\ \A i \in 1..Len(l) : h[i] = l[i]
      /\ h[Len(l) + 1] = e
  BY OneMore
<1> HIDE DEF h
<1>2. \A i \in 1..Len(h) : h[i][1] = "start" => i \in 1..Len(l) /\ h[i] = l[i]
  BY <1>1
<1>3. \A i \in 1..Len(l) : i \in 1..Len(h) /\ h[i] = l[i]
  BY <1>1
<1> QED
  BY <1>2, <1>3 DEF Serial, h

\* A start, the settle of an activation not settled yet, its one notice.
LEMMA OnceMore ==
  ASSUME NEW l \in Seq(Events), NEW e \in Events, Once(l),
         \/ e[1] = "start"
         \/ e[1] \in Settles /\ \A d \in Settles : <<d, e[2]>> \notin Logged(l)
         \/ /\ e[1] = "notice" /\ e \notin Logged(l)
            /\ <<"notified", e[2]>> \in Logged(l) \/ <<"lost", e[2]>> \in Logged(l)
  PROVE  Once(Append(l, e))
<1> DEFINE h == Append(l, e)
<1>1. /\ Len(h) = Len(l) + 1 /\ Len(l) \in Nat
      /\ \A i \in 1..Len(l) : h[i] = l[i] /\ i \in 1..Len(h)
      /\ h[Len(l) + 1] = e
  BY OneMore
<1> HIDE DEF h
<1>2. \A i \in 1..Len(h) : i \in 1..Len(l) \/ i = Len(l) + 1
  BY <1>1
<1>3. \A i \in 1..Len(l) : l[i] \in Logged(l) /\ l[i] = <<l[i][1], l[i][2]>>
  BY LoggedIs
<1>4. \A i, j \in 1..Len(h) : h[i][1] \in Settles /\ h[j][1] \in Settles /\ h[i][2] = h[j][2] => i = j
  <2>1. \A i, j \in 1..Len(l) : h[i][1] \in Settles /\ h[j][1] \in Settles /\ h[i][2] = h[j][2] => i = j
    BY <1>1 DEF Once
  <2>2. ASSUME NEW i \in 1..Len(l), e[1] \in Settles, h[i][1] \in Settles, h[i][2] = e[2] PROVE FALSE
    <3>1. <<l[i][1], e[2]>> \in Logged(l) /\ l[i][1] \in Settles
      <4>1. h[i] = l[i] /\ l[i] \in Logged(l) /\ l[i] = <<l[i][1], l[i][2]>>
        BY <1>1, <1>3
      <4> QED
        BY <4>1, <2>2
    <3>2. e[1] # "start" /\ e[1] # "notice"
      BY <2>2 DEF Settles
    <3> QED
      BY <3>1, <3>2
  <2> QED
    BY <1>1, <1>2, <2>1, <2>2
<1>5. \A i, j \in 1..Len(h) : h[i][1] = "notice" /\ h[j] = h[i] => i = j
  <2>1. \A i, j \in 1..Len(l) : h[i][1] = "notice" /\ h[j] = h[i] => i = j
    BY <1>1 DEF Once
  <2>2. ASSUME NEW i \in 1..Len(l), e[1] = "notice", h[i] = e PROVE FALSE
    <3>1. e \in Logged(l)
      BY <1>1, <1>3, <2>2
    <3>2. e[1] \notin Settles
      BY <2>2 DEF Settles
    <3> QED
      BY <3>1, <3>2, <2>2
  <2> SUFFICES ASSUME NEW i \in 1..Len(h), NEW j \in 1..Len(h), h[i][1] = "notice", h[j] = h[i]
               PROVE  i = j
    OBVIOUS
  <2>3. CASE i \in 1..Len(l) /\ j \in 1..Len(l)
    BY <2>1, <2>3
  <2>4. CASE i \in 1..Len(l) /\ j = Len(l) + 1
    BY <1>1, <2>2, <2>4
  <2>5. CASE i = Len(l) + 1 /\ j \in 1..Len(l)
    BY <1>1, <2>2, <2>5
  <2> QED
    BY <1>2, <2>3, <2>4, <2>5
<1>6. \A j \in 1..Len(h) : h[j][1] = "notice" =>
        \E d \in 1..Len(h) : d < j /\ h[d][1] \in {"notified", "lost"} /\ h[d][2] = h[j][2]
  <2>1. SUFFICES ASSUME NEW j \in 1..Len(h), h[j][1] = "notice"
                 PROVE  \E d \in 1..Len(l) : d < j /\ l[d][1] \in {"notified", "lost"} /\ l[d][2] = h[j][2]
    <3>1. \A d \in 1..Len(l) : d \in 1..Len(h) /\ h[d][1] = l[d][1] /\ h[d][2] = l[d][2]
      BY <1>1
    <3> QED
      BY <3>1
  <2>2. CASE j \in 1..Len(l)
    BY <1>1, <2>1, <2>2 DEF Once
  <2>3. CASE j = Len(l) + 1
    <3>1. <<"notified", e[2]>> \in Logged(l) \/ <<"lost", e[2]>> \in Logged(l)
      BY <1>1, <2>1, <2>3 DEF Settles
    <3>2. PICK d \in 1..Len(l) : l[d][1] \in {"notified", "lost"} /\ l[d][2] = e[2]
      BY <3>1, LoggedIs
    <3>3. d < j
      BY <1>1, <2>3
    <3> QED
      BY <1>1, <2>3, <3>2, <3>3
  <2> QED
    BY <1>2, <2>2, <2>3
<1> QED
  BY <1>4, <1>5, <1>6 DEF Once, h

\* What is open after one more event.
LEMMA OpenMore ==
  ASSUME NEW l \in Seq(Events), NEW e \in Events, NEW h, Logged(h) = Logged(l) \cup {e},
         h \in Seq(Events)
  PROVE  /\ Starts(l) \subseteq Starts(h)
         /\ e[1] = "start" => OpenIn(h) \subseteq OpenIn(l) \cup {e[2]}
         /\ e[1] \in Settles => OpenIn(h) = OpenIn(l) \ {e[2]}
         /\ e[1] = "notice" => OpenIn(h) \subseteq OpenIn(l)
<1>1. \A d, m : <<d, m>> \in Logged(h) <=> <<d, m>> \in Logged(l) \/ (d = e[1] /\ m = e[2])
  <2>1. e = <<e[1], e[2]>>
    BY DEF Events
  <2>2. \A d, m : <<d, m>> = e <=> d = e[1] /\ m = e[2]
    BY <2>1
  <2> QED
    BY <2>2
<1>2. /\ \A m : m \in Starts(h) <=> <<"start", m>> \in Logged(h)
      /\ \A m : m \in OpenIn(h) <=> /\ <<"start", m>> \in Logged(h)
                                    /\ \A d \in Settles : <<d, m>> \notin Logged(h)
  BY OpenIs
<1>3. /\ \A m : m \in Starts(l) <=> <<"start", m>> \in Logged(l)
      /\ \A m : m \in OpenIn(l) <=> /\ <<"start", m>> \in Logged(l)
                                    /\ \A d \in Settles : <<d, m>> \notin Logged(l)
  BY OpenIs
<1>4. "start" \notin Settles /\ "notice" \notin Settles /\ "start" # "notice"
  BY DEF Settles
<1>5. Starts(l) \subseteq Starts(h)
  BY <1>1, <1>2, <1>3
<1>6. e[1] = "start" => OpenIn(h) \subseteq OpenIn(l) \cup {e[2]}
  <2>1. ASSUME NEW m \in OpenIn(h), m # e[2] PROVE m \in OpenIn(l)
    BY <1>1, <1>2, <1>3, <2>1
  <2> QED
    BY <2>1
<1>7. ASSUME e[1] \in Settles PROVE OpenIn(h) = OpenIn(l) \ {e[2]}
  <2>1. \A m : m \in OpenIn(h) <=> m \in OpenIn(l) /\ m # e[2]
    BY <1>1, <1>2, <1>3, <1>4, <1>7
  <2> QED
    BY <2>1
<1>8. ASSUME e[1] = "notice" PROVE OpenIn(h) \subseteq OpenIn(l)
  <2>0. \A d \in Settles \cup {"start"} : \A m : <<d, m>> \in Logged(h) <=> <<d, m>> \in Logged(l)
    BY <1>1, <1>4, <1>8
  <2>1. \A m : m \in OpenIn(h) <=> m \in OpenIn(l)
    BY <1>2, <1>3, <2>0
  <2> QED
    BY <2>1
<1> QED
  BY <1>5, <1>6, <1>7, <1>8

\* agent or agent_fork registers the first activation.
LEMMA FirstReserved ==
  ASSUME NEW l, NEW f, NEW n, NEW r, NEW k, NEW x, NEW o, NEW y, NEW c, NEW s,
         Good(l, f, n, r, k, x, o, y, c, s), r = <<>>,
         NEW v \in Activation, v.at = "opening", v.end = "none", NEW g \in {f, Len(l)}
  PROVE  Good(l, g, Len(r) + 1, Append(r, v), k, x, "no", y, c, s)
<1> DEFINE q == Append(r, v)
           m == Len(r) + 1
<1>1. /\ l = <<>> /\ Logged(l) = {} /\ Starts(l) = {} /\ k = <<>> /\ n = 0 /\ y = "no"
      /\ l \in Seq(Events) /\ g \in 0..Len(l)
  BY Untouched, Base
<1>2. q \in Seq(Activation) /\ Len(q) = 1 /\ q[1] = v /\ m = 1
  OBVIOUS
<1> HIDE DEF q, m
<1>3. Place(m, q) = "opening"
  BY <1>2 DEF Place
<1>4. Types(l, g, m, q, k, x, "no", y, c)
  BY <1>1, <1>2 DEF Good, Types
<1>5. Registered(m, q, "no")
  BY <1>2, <1>3 DEF Registered
<1>6. Journal(l, m, q, c)
  <2>1. OpenIn(l) = {}
    BY <1>1 DEF OpenIn
  <2>2. \A i \in 1..Len(l) : FALSE
    BY <1>1
  <2> QED
    BY <1>1, <1>3, <2>1, <2>2 DEF Good, Journal, Ending
<1>7. Locked(l, m, q, k)
  <2>1. \A i \in 1..Len(k) : FALSE
    BY <1>1
  <2> QED
    BY <1>1, <1>2, <1>3, <2>1 DEF Locked, Ending
<1>8. Synchronous(l, m, q, y)
  BY <1>1 DEF Synchronous
<1>9. Heard(m, q, x)
  BY <1>2, <1>3 DEF Heard, Ending
<1>10. Sent(m, q, k, x, s)
  <2>1. x + Cardinality(Messages(k)) <= s /\ x \in Nat /\ Cardinality(Messages(k)) \in Nat
    <3>1. x + Cardinality(Messages(k)) + 0 <= s
      BY <1>1 DEF Good, Sent
    <3> QED
      BY <3>1, CountIs DEF Good, Types
  <2> QED
    BY <1>2, <2>1 DEF Sent
<1> QED
  BY <1>4, <1>5, <1>6, <1>7, <1>8, <1>9, <1>10 DEF Good, q, m

\* The child session is there and the start is logged.
LEMMA OpenedStep ==
  ASSUME NEW l, NEW f, NEW n, NEW r, NEW k, NEW x, NEW o, NEW y, NEW s,
         Good(l, f, n, r, k, x, o, y, 0, s), Place(n, r) = "opening",
         NEW q, Changed(r, n, q),
         q[n].at = "logged", q[n].end = "none", q[n].delivery = r[n].delivery
  PROVE  Good(Append(l, <<"start", n>>), f, n, q, k, IF n > 1 THEN x + 1 ELSE x, o, y, 0, s)
<1> DEFINE e == <<"start", n>>
           h == Append(l, e)
           z == IF n > 1 THEN x + 1 ELSE x
<1>1. /\ l \in Seq(Events) /\ Len(l) \in Nat /\ f \in 0..Len(l)
      /\ r \in Seq(Activation) /\ Len(r) \in Nat /\ n \in 1..Len(r) /\ n = Len(r)
      /\ \A i \in 1..Len(l) : l[i][2] \in Nat \ {0} /\ l[i][2] < n
      /\ x \in Nat /\ z \in Nat
  <2>1. n # 0
    BY DEF Place
  <2>2. \A i \in 1..Len(l) : l[i][2] # n
    BY DEF Good, Journal
  <2>3. /\ l \in Seq(Events) /\ Len(l) \in Nat /\ f \in 0..Len(l) /\ x \in Nat
        /\ r \in Seq(Activation) /\ Len(r) \in Nat /\ n \in 1..Len(r) /\ n = Len(r)
        /\ \A i \in 1..Len(l) : l[i][2] \in Nat \ {0} /\ l[i][2] <= Len(r)
    BY <2>1, Base DEF Good, Types
  <2>4. z \in Nat
    BY <2>3
  <2>5. \A i \in 1..Len(l) : l[i][2] < n
    BY <2>2, <2>3
  <2> QED
    BY <2>3, <2>4, <2>5
<1>2. e \in Events /\ e[1] = "start" /\ e[2] = n
  BY <1>1 DEF Events, Whats
<1>3. /\ h \in Seq(Events) /\ Len(h) = Len(l) + 1
      /\ \A i \in 1..Len(l) : h[i] = l[i] /\ i \in 1..Len(h)
      /\ h[Len(l) + 1] = e
      /\ Logged(h) = Logged(l) \cup {e}
  <2>1. /\ h \in Seq(Events) /\ Len(h) = Len(l) + 1 /\ Len(l) \in Nat
        /\ \A i \in 1..Len(l) : h[i] = l[i]
        /\ h[Len(l) + 1] = e
        /\ Logged(h) = Logged(l) \cup {e}
    BY <1>1, <1>2, OneMore
  <2>2. \A i \in 1..Len(l) : i \in 1..(Len(l) + 1)
    BY <2>1
  <2> QED
    BY <2>1, <2>2
<1> HIDE DEF h, e
<1>4. /\ Place(n, q) = "logged" /\ Registered(n, q, o) /\ Heard(n, q, z)
      /\ q \in Seq(Activation) /\ Len(q) = n
  <2>1. n # 0 /\ q[n].at \in Going /\ q[n].at \notin Ending
    BY <1>1 DEF Going, Ending
  <2> HIDE DEF z
  <2>2. /\ Place(n, q) = q[n].at /\ Registered(n, q, o) /\ Heard(n, q, z)
    BY <1>1, <2>1, Goes
  <2> QED
    BY <1>1, <2>2 DEF Changed
<1> HIDE DEF z
<1>5. Types(h, f, n, q, k, z, o, y, 0)
  BY <1>1, <1>3, <1>4 DEF Good, Types
<1>6. Serial(h)
  <2>1. SUFFICES ASSUME NEW i \in 1..Len(h), NEW j \in 1..Len(h),
                        i < j, h[i][1] = "start", h[j][1] = "start"
                 PROVE  /\ h[i][2] < h[j][2]
                        /\ \E d \in 1..Len(h) : d < j /\ h[d][1] \in Settles /\ h[d][2] = h[i][2]
    BY DEF Serial
  <2>2. i \in 1..Len(l) /\ h[i] = l[i]
    BY <1>1, <1>3, <2>1
  <2>3. CASE j \in 1..Len(l)
    BY <1>3, <2>1, <2>2, <2>3 DEF Good, Journal, Serial
  <2>4. CASE j = Len(l) + 1
    <3>1. h[j][2] = n /\ l[i][2] < n /\ l[i] = <<"start", l[i][2]>> /\ l[i] \in Logged(l)
      BY <1>1, <1>2, <1>3, <2>1, <2>2, <2>4, LoggedIs
    <3>2. l[i][2] \notin OpenIn(l)
      BY <1>1, <3>1 DEF Good, Journal
    <3>3. PICK d \in Settles : <<d, l[i][2]>> \in Logged(l)
      BY <1>1, <3>1, <3>2, OpenIs
    <3>4. PICK p \in 1..Len(l) : l[p] = <<d, l[i][2]>>
      BY <1>1, <3>3, LoggedIs
    <3>5. p < j /\ h[p] = l[p] /\ p \in 1..Len(h)
      BY <1>1, <1>3, <2>4, <3>4
    <3> QED
      BY <2>2, <3>1, <3>3, <3>4, <3>5
  <2> QED
    BY <1>1, <1>3, <2>3, <2>4
<1>7. Once(h)
  BY <1>1, <1>2, OnceMore DEF Good, Journal, h
<1>8. Journal(h, n, q, 0)
  <2>1. \A i \in 1..Len(h) : h[i][2] <= Len(q)
    <3>1. \A i \in 1..Len(h) : i \in 1..Len(l) \/ i = Len(l) + 1
      BY <1>1, <1>3
    <3>2. h[Len(l) + 1][2] = n
      BY <1>2, <1>3
    <3>3. \A i \in 1..Len(l) : h[i][2] \in Nat /\ h[i][2] < n
      BY <1>1, <1>3
    <3> SUFFICES ASSUME NEW i \in 1..Len(h) PROVE h[i][2] <= n
      BY <1>4
    <3>4. n \in Nat
      BY <1>1
    <3>5. CASE i \in 1..Len(l)
      BY <3>3, <3>4, <3>5
    <3>6. CASE i = Len(l) + 1
      BY <3>2, <3>4, <3>6
    <3> QED
      BY <3>1, <3>5, <3>6
  <2>2. OpenIn(h) \subseteq {n}
    BY <1>1, <1>2, <1>3, OpenMore DEF Good, Journal
  <2>3. n \in OpenIn(h)
    <3>1. \A d \in Settles : <<d, n>> \notin Logged(h)
      <4>1. \A d : <<d, n>> \notin Logged(l)
        <5> SUFFICES ASSUME NEW d, <<d, n>> \in Logged(l) PROVE FALSE
          OBVIOUS
        <5>1. PICK i \in 1..Len(l) : l[i] = <<d, n>>
          BY <1>1, LoggedIs
        <5> QED
          BY <1>1, <5>1
      <4>2. \A d \in Settles : <<d, n>> # e
        BY DEF Settles, e
      <4> QED
        BY <1>3, <4>1, <4>2
    <3> QED
      BY <1>3, <3>1, OpenIs DEF e
  <2> QED
    BY <1>4, <1>6, <1>7, <2>1, <2>2, <2>3 DEF Journal
<1>9. Locked(h, n, q, k)
  <2>1. Locked(l, n, q, k)
    BY <1>4, SameLock DEF Good
  <2>2. Starts(l) \subseteq Starts(h)
    <3>1. l \in Seq(Events) /\ e \in Events /\ h \in Seq(Events) /\ Logged(h) = Logged(l) \cup {e}
      BY <1>1, <1>2, <1>3
    <3> QED
      BY <3>1, OpenMore
  <2> QED
    BY <2>1, <2>2 DEF Locked
<1>10. Synchronous(h, n, q, y)
  <2>1. y # "waiting"
    BY DEF Good, Synchronous, Ending
  <2>2. <<"returned", 1>> \in Logged(h) <=> <<"returned", 1>> \in Logged(l)
    BY <1>3 DEF e
  <2>3. q # <<>>
    BY <1>1, <1>4
  <2> QED
    BY <1>4, <2>1, <2>2, <2>3 DEF Good, Synchronous
<1>11. Sent(n, q, k, z, s)
  <2>1. Cardinality(Messages(k)) \in Nat
    BY Base, CountIs
  <2>2. x + Cardinality(Messages(k)) + (IF n > 1 THEN 1 ELSE 0) <= s
    BY DEF Good, Sent
  <2>3. z + Cardinality(Messages(k)) + 0 <= s
    <3>1. CASE n > 1
      BY <1>1, <2>1, <2>2, <3>1 DEF z
    <3>2. CASE ~(n > 1)
      BY <1>1, <2>1, <2>2, <3>2 DEF z
    <3> QED
      BY <3>1, <3>2
  <2> QED
    BY <1>4, <2>3 DEF Sent
<1> QED
  BY <1>4, <1>5, <1>8, <1>9, <1>10, <1>11 DEF Good, h, e, z

\* The messages of an agent, in numbers.
LEMMA SentIs ==
  ASSUME NEW l, NEW f, NEW n, NEW r, NEW k, NEW x, NEW o, NEW y, NEW c, NEW s \in Nat,
         Good(l, f, n, r, k, x, o, y, c, s)
  PROVE  /\ x \in Nat /\ Cardinality(Messages(k)) \in Nat
         /\ x + Cardinality(Messages(k)) <= s
         /\ n > 1 /\ Place(n, r) = "opening" => x + Cardinality(Messages(k)) + 1 <= s
<1>1. x \in Nat /\ Cardinality(Messages(k)) \in Nat
  BY CountIs DEF Good, Types
<1>2. CASE n > 1 /\ Place(n, r) = "opening"
  <2>1. x + Cardinality(Messages(k)) + 1 <= s
    BY <1>2 DEF Good, Sent
  <2> QED
    BY <1>1, <2>1
<1>3. CASE ~(n > 1 /\ Place(n, r) = "opening")
  <2>1. x + Cardinality(Messages(k)) + 0 <= s
    BY <1>3 DEF Good, Sent
  <2> QED
    BY <1>1, <1>3, <2>1
<1> QED
  BY <1>2, <1>3

\* They were all sent, when none of them opens an activation.
LEMMA SentThen ==
  ASSUME NEW n, NEW r, NEW k, NEW x \in Nat, NEW s \in Nat,
         Cardinality(Messages(k)) \in Nat, x + Cardinality(Messages(k)) <= s,
         ~(n > 1) \/ Place(n, r) # "opening"
  PROVE  Sent(n, r, k, x, s)
<1>1. x + Cardinality(Messages(k)) + 0 <= s
  OBVIOUS
<1> QED
  BY <1>1 DEF Sent

\* The delivery of an activation changes, or it is aborted, before it settles.
LEMMA RelabelledStep ==
  ASSUME NEW l, NEW f, NEW n, NEW r, NEW k, NEW x, NEW o, NEW y, NEW s,
         Good(l, f, n, r, k, x, o, y, 0, s), n # 0, Place(n, r) \notin Ending,
         NEW q, Changed(r, n, q), q[n].at = r[n].at, q[n].end = r[n].end,
         NEW z \in {"no", "waiting", "moved", "result"}, Synchronous(l, n, q, z)
  PROVE  Good(l, f, n, q, k, x, o, z, 0, s)
<1>1. /\ r \in Seq(Activation) /\ Len(r) \in Nat /\ n \in 1..Len(r) /\ n = Len(r)
      /\ q \in Seq(Activation) /\ Len(q) = Len(r) /\ r # <<>>
      /\ \A i \in 1..Len(r) : q[i].at = r[i].at /\ q[i].end = r[i].end
  <2>1. r \in Seq(Activation) /\ Len(r) \in Nat /\ n \in 1..Len(r) /\ n = Len(r)
    BY Base
  <2> QED
    BY <2>1 DEF Changed
<1>2. Place(n, q) = Place(n, r)
  BY DEF Place
<1>3. Types(l, f, n, q, k, x, o, z, 0)
  BY <1>1 DEF Good, Types
<1>4. Registered(n, q, o)
  BY <1>1, <1>2 DEF Good, Registered
<1>5. Journal(l, n, q, 0)
  BY <1>1, <1>2 DEF Good, Journal, Ending
<1>6. Locked(l, n, q, k)
  BY <1>2 DEF Good, Locked
<1>7. Heard(n, q, x)
  BY <1>1, <1>2 DEF Good, Heard
<1>8. Sent(n, q, k, x, s)
  BY <1>2 DEF Good, Sent
<1> QED
  BY <1>3, <1>4, <1>5, <1>6, <1>7, <1>8 DEF Good

\* The opening of an activation fails.
LEMMA OpenFailsStep ==
  ASSUME NEW l, NEW f, NEW n, NEW r, NEW k, NEW x, NEW o, NEW y, NEW s \in Nat,
         Good(l, f, n, r, k, x, o, y, 0, s), Place(n, r) = "opening",
         NEW q, Changed(r, n, q), q[n].at = "failed", q[n].end = r[n].end
  PROVE  Good(l, f, 0, q, IF n > 1 THEN Tail(k) ELSE k, x, o, y, 0, s)
<1> DEFINE t == IF n > 1 THEN Tail(k) ELSE k
<1>1. /\ l \in Seq(Events) /\ Len(l) \in Nat
      /\ r \in Seq(Activation) /\ Len(r) \in Nat /\ n \in 1..Len(r) /\ n = Len(r) /\ r # <<>>
      /\ q \in Seq(Activation) /\ Len(q) = Len(r) /\ q # <<>>
      /\ k \in Seq(Waiting) /\ r[n].at = "opening" /\ r[n].end = "none"
  <2>1. n # 0
    BY DEF Place
  <2>2. /\ l \in Seq(Events) /\ Len(l) \in Nat /\ k \in Seq(Waiting)
        /\ r \in Seq(Activation) /\ Len(r) \in Nat /\ n \in 1..Len(r) /\ n = Len(r)
    BY <2>1, Base
  <2>3. r[n].at = "opening" /\ r[n].end = "none"
    BY <2>1 DEF Good, Registered, Place
  <2> QED
    BY <2>2, <2>3 DEF Changed
<1>2. Place(0, q) = "none"
  BY DEF Place
<1>3. /\ t \in Seq(Waiting) /\ Locked(l, 0, q, t)
      /\ Cardinality(Messages(t)) \in Nat /\ x + Cardinality(Messages(t)) <= s
  <2>1. CASE n > 1
    <3>1. k # <<>> /\ k[1][1] = "continue"
      BY <2>1 DEF Good, Locked
    <3>2. /\ Tail(k) \in Seq(Waiting) /\ Cardinality(Messages(Tail(k))) \in Nat
          /\ Cardinality(Messages(k)) = Cardinality(Messages(Tail(k)))
      <4>1. Cardinality(Messages(k)) = Cardinality(Messages(Tail(k))) + 0
        BY <1>1, <3>1, Shifted
      <4> QED
        BY <1>1, <3>1, <4>1, Shifted
    <3>3. Locked(l, 0, q, Tail(k))
      BY <1>2, <3>1, LockPassed DEF Ending
    <3> QED
      BY <2>1, <3>2, <3>3, SentIs
  <2>2. CASE ~(n > 1)
    <3>0. Len(r) = 1
      BY <1>1, <2>2
    <3>1. k = <<>>
      BY <3>0, Untouched
    <3>2. \A i \in 1..Len(k) : FALSE
      BY <3>1
    <3>3. Locked(l, 0, q, k)
      BY <1>2, <3>1, <3>2 DEF Locked, Ending
    <3> QED
      BY <1>1, <2>2, <3>3, SentIs
  <2> QED
    BY <2>1, <2>2
<1> HIDE DEF t
<1>4. Types(l, f, 0, q, t, x, o, y, 0)
  BY <1>1, <1>3 DEF Good, Types
<1>5. Registered(0, q, o)
  BY <1>1, <1>2 DEF Good, Registered, Changed
<1>6. Journal(l, 0, q, 0)
  <2>1. \A i \in 1..Len(l) : l[i][2] # n /\ l[i][2] <= Len(q)
    BY <1>1 DEF Good, Journal
  <2>2. OpenIn(l) = {}
    <3>1. <<"start", n>> \notin Logged(l)
      BY <1>1, <2>1, LoggedIs
    <3> QED
      BY <1>1, <3>1, OpenIs DEF Good, Journal
  <2> QED
    BY <1>2, <2>1, <2>2 DEF Good, Journal, Ending
<1>7. Synchronous(l, 0, q, y)
  BY <1>1 DEF Good, Synchronous, Ending
<1>8. Heard(0, q, x)
  <2>1. SUFFICES ASSUME NEW i \in 1..Len(r), q[i].end = "completed", x > 0
                 PROVE  \E j \in 1..Len(r) : j > i /\ q[j].at \notin {"opening", "failed"}
    BY <1>1, <1>2 DEF Heard, Ending
  <2>2. i # n /\ q[i] = r[i]
    BY <1>1, <2>1 DEF Changed
  <2>3. PICK j \in 1..Len(r) : j > i /\ r[j].at \notin {"opening", "failed"}
    BY <2>1, <2>2 DEF Good, Heard
  <2>4. j # n /\ q[j] = r[j]
    BY <1>1, <2>3 DEF Changed
  <2> QED
    BY <2>3, <2>4
<1>9. Sent(0, q, t, x, s)
  <2>1. x \in Nat /\ ~(0 > 1)
    BY SentIs
  <2> QED
    BY <1>3, <2>1, SentThen
<1> QED
  BY <1>4, <1>5, <1>6, <1>3, <1>7, <1>8, <1>9 DEF Good, t

\* The start is durable: the activation runs, and a synchronous call waits for it.
LEMMA BegunStep ==
  ASSUME NEW l, NEW f, NEW n, NEW r, NEW k, NEW x, NEW o, NEW y, NEW s \in Nat,
         Good(l, f, n, r, k, x, o, y, 0, s), Place(n, r) = "logged",
         NEW q, Changed(r, n, q),
         q[n].at = "turn", q[n].end = r[n].end, q[n].delivery = r[n].delivery
  PROVE  Good(l, Len(l), n, q, IF n > 1 THEN Tail(k) ELSE k, x, o,
              IF n = 1 /\ r[1].delivery = "caller" THEN "waiting" ELSE y, 0, s)
<1> DEFINE t == IF n > 1 THEN Tail(k) ELSE k
           z == IF n = 1 /\ r[1].delivery = "caller" THEN "waiting" ELSE y
<1>1. /\ l \in Seq(Events) /\ Len(l) \in Nat /\ k \in Seq(Waiting)
      /\ n # 0 /\ n \in 1..Len(r) /\ n = Len(r) /\ Len(r) \in Nat
      /\ q \in Seq(Activation) /\ Len(q) = Len(r) /\ q # <<>>
  <2>1. n # 0
    BY DEF Place
  <2>2. /\ l \in Seq(Events) /\ Len(l) \in Nat /\ k \in Seq(Waiting)
        /\ n \in 1..Len(r) /\ n = Len(r) /\ Len(r) \in Nat
    BY <2>1, Base
  <2> QED
    BY <2>1, <2>2 DEF Changed
<1>2. /\ Place(n, q) = "turn" /\ Registered(n, q, o) /\ Heard(n, q, x)
  <2>1. x \in Nat /\ q[n].at \in Going /\ q[n].at \notin Ending
    BY DEF Good, Types, Going, Ending
  <2>2. Place(n, q) = q[n].at /\ Registered(n, q, o) /\ Heard(n, q, x)
    BY <1>1, <2>1, Goes
  <2> QED
    BY <2>2
<1>3. /\ t \in Seq(Waiting) /\ Locked(l, n, q, t)
      /\ Cardinality(Messages(t)) \in Nat /\ x + Cardinality(Messages(t)) <= s
  <2>1. CASE n > 1
    <3>1. k # <<>> /\ k[1][1] = "continue"
      BY <2>1 DEF Good, Locked
    <3>2. /\ Tail(k) \in Seq(Waiting) /\ Cardinality(Messages(Tail(k))) \in Nat
          /\ Cardinality(Messages(k)) = Cardinality(Messages(Tail(k)))
      <4>1. Cardinality(Messages(k)) = Cardinality(Messages(Tail(k))) + 0
        BY <1>1, <3>1, Shifted
      <4> QED
        BY <1>1, <3>1, <4>1, Shifted
    <3>3. Locked(l, n, q, Tail(k))
      <4>1. Place(n, q) \notin Ending /\ Place(n, r) \notin Ending \cup {"decide"}
        BY <1>2 DEF Ending
      <4> QED
        BY <1>2, <3>1, <4>1, LockPassed
    <3> QED
      BY <2>1, <3>2, <3>3, SentIs
  <2>2. CASE ~(n > 1)
    <3>1. Locked(l, n, q, k)
      BY <1>2, <2>2 DEF Good, Locked, Ending
    <3> QED
      BY <1>1, <2>2, <3>1, SentIs
  <2> QED
    BY <2>1, <2>2
<1>4. Types(l, Len(l), n, q, t, x, o, z, 0)
  <2>1. Len(l) \in 0..Len(l) /\ z \in {"no", "waiting", "moved", "result"}
    BY <1>1 DEF Good, Types
  <2> HIDE DEF t, z
  <2> QED
    BY <1>1, <1>3, <2>1 DEF Good, Types
<1>5. Journal(l, n, q, 0)
  BY <1>1, <1>2, SameJournal DEF Good
<1>6. Synchronous(l, n, q, z)
  <2>1. y # "waiting"
    BY DEF Good, Synchronous, Ending
  <2>2. CASE n = 1 /\ r[1].delivery = "caller"
    BY <1>1, <1>2, <2>2 DEF Synchronous
  <2>3. CASE ~(n = 1 /\ r[1].delivery = "caller")
    BY <1>1, <1>2, <2>1, <2>3 DEF Good, Synchronous
  <2> QED
    BY <2>2, <2>3
<1> HIDE DEF t, z
<1>7. Sent(n, q, t, x, s)
  <2>1. x \in Nat /\ Place(n, q) # "opening"
    BY <1>2, SentIs
  <2> QED
    BY <1>3, <2>1, SentThen
<1> QED
  BY <1>2, <1>3, <1>4, <1>5, <1>6, <1>7 DEF Good, t, z

\* A step of the child reads its inbox.
LEMMA ClaimStep ==
  ASSUME NEW l, NEW f, NEW n, NEW r, NEW k, NEW x, NEW o, NEW y, NEW s \in Nat,
         Good(l, f, n, r, k, x, o, y, 0, s), Place(n, r) = "turn"
  PROVE  Good(l, f, n, r, k, 0, o, y, 0, s)
<1>1. Types(l, f, n, r, k, 0, o, y, 0)
  BY DEF Good, Types
<1>2. Heard(n, r, 0)
  BY DEF Heard
<1>3. Sent(n, r, k, 0, s)
  <2>1. 0 + Cardinality(Messages(k)) <= s /\ Cardinality(Messages(k)) \in Nat
    BY SentIs
  <2> QED
    BY <2>1, SentThen
<1> QED
  BY <1>1, <1>2, <1>3 DEF Good

\* A message reaches an activation that reads its inbox again.
LEMMA DeliverStep ==
  ASSUME NEW l, NEW f, NEW n, NEW r, NEW k, NEW x, NEW o, NEW y, NEW s \in Nat,
         Good(l, f, n, r, k, x, o, y, 0, s), Place(n, r) \in {"logged", "turn", "decide"},
         k # <<>>, k[1][1] = "message"
  PROVE  Good(l, f, n, r, Tail(k), x + 1, o, y, 0, s)
<1> DEFINE t == Tail(k)
<1>1. k \in Seq(Waiting) /\ 1 \in 1..Len(k) /\ n # 0 /\ r \in Seq(Activation) /\ Len(r) \in Nat
      /\ Place(n, r) = r[n].at
  <2>1. n # 0
    BY DEF Place
  <2> QED
    BY <2>1, Base
<1>2. /\ t \in Seq(Waiting) /\ Cardinality(Messages(t)) \in Nat
      /\ Cardinality(Messages(k)) = Cardinality(Messages(t)) + 1
  BY <1>1, Shifted
<1>3. Place(n, r) \notin Ending /\ (n > 1 => Place(n, r) \notin {"opening", "logged"})
      /\ k[1][1] # "decide" /\ (Place(n, r) = "decide" \/ Place(n, r) \notin Ending \cup {"decide"})
  BY DEF Good, Locked, Ending
<1>4. Locked(l, n, r, t)
  BY <1>3, LockPassed
<1> HIDE DEF t
<1>5. x \in Nat /\ x + 1 \in Nat /\ (x + 1) + Cardinality(Messages(t)) <= s
  <2>1. x \in Nat /\ x + Cardinality(Messages(k)) <= s
    BY SentIs
  <2> QED
    BY <1>2, <2>1
<1>6. Types(l, f, n, r, t, x + 1, o, y, 0)
  BY <1>2, <1>5 DEF Good, Types
<1>7. Heard(n, r, x + 1)
  <2>1. Changed(r, n, r)
    BY <1>1 DEF Changed
  <2>2. r[n].at \in Going /\ r[n].at \notin Ending
    BY <1>1 DEF Going, Ending
  <2>3. r[n].at = "logged" => r[n].end = "none"
    BY <1>1 DEF Good, Registered
  <2> QED
    BY <1>1, <1>5, <2>1, <2>2, <2>3, Goes
<1>8. Sent(n, r, t, x + 1, s)
  <2>1. Place(n, r) # "opening"
    OBVIOUS
  <2> QED
    BY <1>2, <1>5, <2>1, SentThen
<1> QED
  BY <1>4, <1>6, <1>7, <1>8 DEF Good, t

\* A message that finds no such activation finds none at all: the lock is held by the
\* opening and by the settling of an activation.
LEMMA Idle ==
  ASSUME NEW l, NEW f, NEW n, NEW r, NEW k, NEW x, NEW o, NEW y, NEW c, NEW s,
         Good(l, f, n, r, k, x, o, y, c, s), Place(n, r) \notin {"logged", "turn", "decide"},
         k # <<>>, k[1][1] = "message"
  PROVE  /\ n = 0 /\ Place(n, r) = "none" /\ Len(r) >= 1 /\ r # <<>>
         /\ \A i \in 1..Len(k) : k[i][1] = "message"
<1>1. /\ k \in Seq(Waiting) /\ Len(k) \in Nat /\ 1 \in 1..Len(k)
      /\ \A i \in 1..Len(k) : k[i] \in Waiting
      /\ l \in Seq(Events) /\ r \in Seq(Activation) /\ Len(r) \in Nat
      /\ n # 0 => n \in 1..Len(r) /\ n = Len(r) /\ r[n] \in Activation /\ Place(n, r) = r[n].at
      /\ n = 0 => Place(n, r) = "none"
      /\ \A i \in 1..Len(l) : l[i][2] \in Nat \ {0} /\ l[i][2] <= Len(r)
  BY Base
<1>2. Place(n, r) \notin Ending
  BY DEF Good, Locked
<1>3. Place(n, r) # "opening"
  <2> SUFFICES ASSUME Place(n, r) = "opening" PROVE FALSE
    OBVIOUS
  <2>1. n # 0
    BY <1>1
  <2>2. CASE n > 1
    BY <2>2 DEF Good, Locked
  <2>3. CASE n = 1
    BY <1>1, <2>3, Untouched
  <2> QED
    BY <1>1, <2>1, <2>2, <2>3
<1>4. n = 0
  <2> SUFFICES ASSUME n # 0 PROVE FALSE
    OBVIOUS
  <2>1. r[n].at \in {"over", "failed"}
    BY <1>1, <1>2, <1>3 DEF Activation, Ending
  <2> QED
    BY <2>1 DEF Good, Registered
<1>5. \A i \in 1..Len(k) : k[i][1] = "message"
  <2>1. \A i \in 1..Len(k) : k[i][1] \notin {"continue", "decide"}
    BY <1>1, <1>4 DEF Good, Locked, Ending
  <2> QED
    BY <1>1, <2>1 DEF Waiting
<1>6. Len(r) >= 1
  <2>1. Starts(l) # {}
    BY DEF Good, Locked
  <2>2. PICK m : <<"start", m>> \in Logged(l)
    BY <1>1, <2>1, OpenIs
  <2>3. PICK i \in 1..Len(l) : l[i] = <<"start", m>>
    BY <1>1, <2>2, LoggedIs
  <2> QED
    BY <1>1, <2>3
<1> QED
  BY <1>1, <1>4, <1>5, <1>6

\* A message that may not start another activation is gone.
LEMMA RefuseStep ==
  ASSUME NEW l, NEW f, NEW n, NEW r, NEW k, NEW x, NEW o, NEW y, NEW c, NEW s \in Nat,
         Good(l, f, n, r, k, x, o, y, c, s), Place(n, r) \notin {"logged", "turn", "decide"},
         k # <<>>, k[1][1] = "message"
  PROVE  Good(l, f, n, r, Tail(k), x, o, y, c, s)
<1> DEFINE t == Tail(k)
<1>1. k \in Seq(Waiting) /\ n = 0 /\ Place(n, r) = "none"
  BY Base, Idle
<1>2. /\ t \in Seq(Waiting) /\ Cardinality(Messages(t)) \in Nat
      /\ Cardinality(Messages(k)) = Cardinality(Messages(t)) + 1
  BY <1>1, Shifted
<1>3. Place(n, r) \notin Ending \cup {"decide", "opening", "logged"}
  BY <1>1 DEF Ending
<1>4. Locked(l, n, r, t)
  BY <1>3, LockPassed
<1> HIDE DEF t
<1>5. Types(l, f, n, r, t, x, o, y, c)
  BY <1>2 DEF Good, Types
<1>6. Sent(n, r, t, x, s)
  <2>1. x \in Nat /\ x + Cardinality(Messages(k)) <= s
    BY SentIs
  <2>2. x + Cardinality(Messages(t)) <= s
    BY <1>2, <2>1
  <2> QED
    BY <1>2, <1>3, <2>1, <2>2, SentThen
<1> QED
  BY <1>4, <1>5, <1>6 DEF Good, t

\* A message starts another activation, which keeps the lock.
LEMMA ContinueStep ==
  ASSUME NEW l, NEW f, NEW n, NEW r, NEW k, NEW x, NEW o, NEW y, NEW s \in Nat,
         Good(l, f, n, r, k, x, o, y, 0, s), Place(n, r) \notin {"logged", "turn", "decide"},
         k # <<>>, k[1][1] = "message",
         NEW v \in Activation, v.at = "opening", v.end = "none",
         NEW t \in Seq(Waiting), Len(t) = Len(k), t[1][1] = "continue",
         \A i \in 1..Len(k) : i # 1 => t[i] = k[i]
  PROVE  Good(l, f, Len(r) + 1, Append(r, v), t, x, o, y, 0, s)
<1> DEFINE q == Append(r, v)
           m == Len(r) + 1
<1>1. /\ k \in Seq(Waiting) /\ Len(k) \in Nat /\ 1 \in 1..Len(k) /\ l \in Seq(Events)
      /\ r \in Seq(Activation) /\ Len(r) \in Nat /\ Len(r) >= 1 /\ r # <<>>
      /\ n = 0 /\ Place(n, r) = "none"
      /\ \A i \in 1..Len(l) : l[i][2] \in Nat \ {0} /\ l[i][2] <= Len(r)
      /\ \A i \in 1..Len(k) : k[i][1] = "message"
  BY Base, Idle
<1>2. /\ q \in Seq(Activation) /\ Len(q) = m /\ q[m] = v /\ m > 1 /\ m \in Nat /\ q # <<>>
      /\ \A i \in 1..Len(r) : q[i] = r[i] /\ i < m /\ i \in 1..m /\ i # m
      /\ \A i \in 1..m : i # m => i \in 1..Len(r)
  BY <1>1
<1> HIDE DEF q, m
<1>3. Place(m, q) = "opening"
  BY <1>2 DEF Place
<1>4. Types(l, f, m, q, t, x, o, y, 0)
  BY <1>2 DEF Good, Types
<1>5. Registered(m, q, o)
  <2>1. o = "no"
    BY <1>1 DEF Good, Registered
  <2>2. \A i \in 1..Len(q) : i # m => q[i].at \in {"over", "failed"}
    BY <1>1, <1>2 DEF Good, Registered
  <2> QED
    BY <1>2, <1>3, <2>1, <2>2 DEF Registered
<1>6. Journal(l, m, q, 0)
  <2>1. OpenIn(l) = {}
    <3>1. <<"start", 0>> \notin Logged(l)
      BY <1>1, LoggedIs
    <3> QED
      BY <1>1, <3>1, OpenIs DEF Good, Journal
  <2>2. \A i \in 1..Len(l) : l[i][2] <= Len(q) /\ l[i][2] # m
    <3>1. \A a, b \in Nat : a <= b => a <= b + 1 /\ a # b + 1
      OBVIOUS
    <3> QED
      BY <1>1, <1>2, <3>1 DEF m
  <2> QED
    BY <1>3, <2>1, <2>2 DEF Good, Journal, Ending
<1>7. Locked(l, m, q, t)
  <2>1. \A i \in 1..Len(t) : i # 1 => t[i][1] = "message"
    BY <1>1
  <2>2. t # <<>> /\ Starts(l) # {}
    <3>1. Len(t) # 0
      BY <1>1
    <3> QED
      BY <3>1 DEF Good, Locked
  <2> QED
    BY <1>2, <1>3, <2>1, <2>2 DEF Locked, Ending
<1>8. Synchronous(l, m, q, y)
  BY <1>1, <1>2 DEF Good, Synchronous
<1>9. Heard(m, q, x)
  <2>1. SUFFICES ASSUME NEW i \in 1..Len(q), i # m, q[i].end = "completed", x > 0
                 PROVE  \E j \in 1..Len(q) : j > i /\ q[j].at \notin {"opening", "failed"}
    BY <1>3 DEF Heard, Ending
  <2>2. i \in 1..Len(r) /\ r[i].end = "completed" /\ i # n
    BY <1>1, <1>2, <2>1
  <2>3. PICK j \in 1..Len(r) : j > i /\ r[j].at \notin {"opening", "failed"}
    BY <2>1, <2>2 DEF Good, Heard
  <2> QED
    BY <1>2, <2>3
<1>10. Sent(m, q, t, x, s)
  <2>1. x \in Nat /\ Cardinality(Messages(k)) \in Nat /\ x + Cardinality(Messages(k)) <= s
    BY SentIs
  <2>2. Messages(t) = Messages(k) \ {1} /\ 1 \in Messages(k)
    BY <1>1 DEF Messages
  <2>3. Cardinality(Messages(t)) = Cardinality(Messages(k)) - 1
    BY <1>1, <2>2, CountIs, FS_RemoveElement
  <2>4. x + Cardinality(Messages(t)) + 1 <= s
    BY <2>1, <2>3
  <2> QED
    BY <1>2, <1>3, <2>4 DEF Sent
<1> QED
  BY <1>4, <1>5, <1>6, <1>7, <1>8, <1>9, <1>10 DEF Good, q, m

\* The turn ends: the activation waits for the lock, to decide what becomes of it.
LEMMA EndTurnStep ==
  ASSUME NEW l, NEW f, NEW n, NEW r, NEW k, NEW x, NEW o, NEW y, NEW s \in Nat,
         Good(l, f, n, r, k, x, o, y, 0, s), Place(n, r) = "turn",
         NEW q, Changed(r, n, q), q[n].at = "decide", q[n].delivery = r[n].delivery,
         NEW w \in Waiting, w[1] = "decide"
  PROVE  Good(l, f, n, q, Append(k, w), x, o, y, 0, s)
<1> DEFINE t == Append(k, w)
<1>1. /\ k \in Seq(Waiting) /\ n # 0 /\ n \in 1..Len(r) /\ l \in Seq(Events) /\ Len(r) \in Nat
      /\ q \in Seq(Activation) /\ Len(q) = Len(r) /\ q # <<>>
  <2>1. n # 0
    BY DEF Place
  <2>2. k \in Seq(Waiting) /\ n \in 1..Len(r) /\ l \in Seq(Events) /\ Len(r) \in Nat
    BY <2>1, Base
  <2> QED
    BY <2>1, <2>2 DEF Changed
<1>2. Place(n, q) = "decide" /\ Registered(n, q, o) /\ Heard(n, q, x)
  <2>1. x \in Nat /\ q[n].at \in Going /\ q[n].at \notin Ending
    BY DEF Good, Types, Going, Ending
  <2>2. Place(n, q) = q[n].at /\ Registered(n, q, o) /\ Heard(n, q, x)
    BY <1>1, <2>1, Goes
  <2> QED
    BY <2>2
<1>3. /\ t \in Seq(Waiting) /\ Len(t) = Len(k) + 1 /\ Len(k) \in Nat
      /\ \A i \in 1..Len(k) : t[i] = k[i]
      /\ t[Len(k) + 1] = w /\ Cardinality(Messages(k)) \in Nat
      /\ Cardinality(Messages(t)) = Cardinality(Messages(k)) + 0
  BY <1>1, Joined
<1> HIDE DEF t
<1>4. Types(l, f, n, q, t, x, o, y, 0)
  BY <1>1, <1>3 DEF Good, Types
<1>5. Journal(l, n, q, 0)
  BY <1>1, <1>2, SameJournal DEF Good
<1>6. Locked(l, n, q, t)
  <2>1. \A i \in 1..Len(t) : i \in 1..Len(k) \/ i = Len(k) + 1
    BY <1>3
  <2>2. \A i \in 1..Len(k) : k[i][1] \notin {"continue", "decide"}
    BY DEF Good, Locked, Ending
  <2>3. \A i \in 1..Len(t) : t[i][1] # "continue"
    BY <1>3, <2>1, <2>2
  <2>4. \A i, j \in 1..Len(t) : t[i][1] = "decide" /\ t[j][1] = "decide" => i = j
    BY <1>3, <2>1, <2>2
  <2>5. Starts(l) # {}
    BY <1>1, OpenIs DEF Good, Journal
  <2> QED
    BY <1>2, <2>3, <2>4, <2>5 DEF Locked, Ending
<1>7. Synchronous(l, n, q, y)
  BY <1>1, <1>2 DEF Good, Synchronous
<1>8. Sent(n, q, t, x, s)
  <2>1. x \in Nat /\ x + Cardinality(Messages(t)) <= s /\ Cardinality(Messages(t)) \in Nat
    BY <1>3, SentIs
  <2>2. Place(n, q) # "opening"
    BY <1>2
  <2> QED
    BY <2>1, <2>2, SentThen
<1> QED
  BY <1>2, <1>4, <1>5, <1>6, <1>7, <1>8 DEF Good, t

\* A message came late: another turn.
LEMMA AgainStep ==
  ASSUME NEW l, NEW f, NEW n, NEW r, NEW k, NEW x, NEW o, NEW y, NEW s \in Nat,
         Good(l, f, n, r, k, x, o, y, 0, s), Place(n, r) = "decide",
         k # <<>>, k[1][1] = "decide",
         NEW q, Changed(r, n, q), q[n].at = "turn", q[n].delivery = r[n].delivery
  PROVE  Good(l, f, n, q, Tail(k), x, o, y, 0, s)
<1> DEFINE t == Tail(k)
<1>1. /\ k \in Seq(Waiting) /\ n # 0 /\ n \in 1..Len(r) /\ l \in Seq(Events) /\ Len(r) \in Nat
      /\ q \in Seq(Activation) /\ Len(q) = Len(r) /\ q # <<>>
  <2>1. n # 0
    BY DEF Place
  <2>2. k \in Seq(Waiting) /\ n \in 1..Len(r) /\ l \in Seq(Events) /\ Len(r) \in Nat
    BY <2>1, Base
  <2> QED
    BY <2>1, <2>2 DEF Changed
<1>2. Place(n, q) = "turn" /\ Registered(n, q, o) /\ Heard(n, q, x)
  <2>1. x \in Nat /\ q[n].at \in Going /\ q[n].at \notin Ending
    BY DEF Good, Types, Going, Ending
  <2>2. Place(n, q) = q[n].at /\ Registered(n, q, o) /\ Heard(n, q, x)
    BY <1>1, <2>1, Goes
  <2> QED
    BY <2>2
<1>3. /\ t \in Seq(Waiting) /\ Cardinality(Messages(t)) \in Nat
      /\ Cardinality(Messages(k)) = Cardinality(Messages(t)) + 0
  BY <1>1, Shifted
<1>4. Locked(l, n, q, t)
  <2>1. Place(n, q) \notin Ending \cup {"opening", "logged"}
    BY <1>2 DEF Ending
  <2> QED
    BY <1>1, <2>1, LockPassed
<1> HIDE DEF t
<1>5. Types(l, f, n, q, t, x, o, y, 0)
  BY <1>1, <1>3 DEF Good, Types
<1>6. Journal(l, n, q, 0)
  BY <1>1, <1>2, SameJournal DEF Good
<1>7. Synchronous(l, n, q, y)
  BY <1>1, <1>2 DEF Good, Synchronous
<1>8. Sent(n, q, t, x, s)
  <2>1. x \in Nat /\ x + Cardinality(Messages(t)) <= s
    BY <1>3, SentIs
  <2>2. Place(n, q) # "opening"
    BY <1>2
  <2> QED
    BY <1>3, <2>1, <2>2, SentThen
<1> QED
  BY <1>2, <1>4, <1>5, <1>6, <1>7, <1>8 DEF Good, t

\* The activation is over: it keeps the lock until it is closed.
LEMMA SettleStep ==
  ASSUME NEW l, NEW f, NEW n, NEW r, NEW k, NEW x, NEW o, NEW y, NEW s \in Nat,
         Good(l, f, n, r, k, x, o, y, 0, s), Place(n, r) = "decide",
         k # <<>>, k[1][1] = "decide",
         NEW q, Changed(r, n, q), q[n].at = "settling", q[n].delivery = r[n].delivery,
         q[n].end = "completed" => x = 0
  PROVE  Good(l, f, n, q, k, x, o, y, 0, s)
<1>1. /\ k \in Seq(Waiting) /\ n # 0 /\ n \in 1..Len(r) /\ l \in Seq(Events) /\ Len(r) \in Nat
      /\ q \in Seq(Activation) /\ Len(q) = Len(r) /\ q # <<>>
  <2>1. n # 0
    BY DEF Place
  <2>2. k \in Seq(Waiting) /\ n \in 1..Len(r) /\ l \in Seq(Events) /\ Len(r) \in Nat
    BY <2>1, Base
  <2> QED
    BY <2>1, <2>2 DEF Changed
<1>2. Place(n, q) = "settling" /\ Registered(n, q, o) /\ Heard(n, q, x)
  <2>1. x \in Nat /\ q[n].at \in Going
    BY DEF Good, Types, Going, Ending
  <2>2. Place(n, q) = q[n].at /\ Registered(n, q, o) /\ Heard(n, q, x)
    BY <1>1, <2>1, Goes
  <2> QED
    BY <2>2
<1>3. Types(l, f, n, q, k, x, o, y, 0)
  BY <1>1 DEF Good, Types
<1>4. Journal(l, n, q, 0)
  BY <1>1, <1>2, SameJournal DEF Good
<1>5. Locked(l, n, q, k)
  BY <1>2 DEF Good, Locked, Ending
<1>6. Synchronous(l, n, q, y)
  BY <1>1, <1>2 DEF Good, Synchronous, Ending
<1>7. Sent(n, q, k, x, s)
  <2>1. x \in Nat /\ x + Cardinality(Messages(k)) <= s /\ Cardinality(Messages(k)) \in Nat
    BY SentIs
  <2>2. Place(n, q) # "opening"
    BY <1>2
  <2> QED
    BY <2>1, <2>2, SentThen
<1> QED
  BY <1>2, <1>3, <1>4, <1>5, <1>6, <1>7 DEF Good

\* The settle is written, for the reader the activation has by now.
LEMMA RecordStep ==
  ASSUME NEW l, NEW f, NEW n, NEW r, NEW k, NEW x, NEW o, NEW y, NEW s \in Nat,
         Good(l, f, n, r, k, x, o, y, 0, s), Place(n, r) = "settling",
         NEW q, Changed(r, n, q), q[n].at = "recorded", q[n].delivery = r[n].delivery,
         q[n].end = r[n].end
  PROVE  Good(Append(l, <<Outcome(r[n].delivery), n>>), f, n, q, k, x, o, y, 0, s)
<1> DEFINE e == <<Outcome(r[n].delivery), n>>
           h == Append(l, e)
<1>1. /\ n # 0 /\ n \in 1..Len(r) /\ n \in Nat \ {0} /\ Len(r) \in Nat
      /\ l \in Seq(Events) /\ Len(l) \in Nat /\ f \in 0..Len(l) /\ r[n] \in Activation
      /\ \A i \in 1..Len(l) : l[i][2] <= Len(r)
      /\ q \in Seq(Activation) /\ Len(q) = Len(r) /\ q # <<>> /\ Place(n, r) = r[n].at
  <2>1. n # 0
    BY DEF Place
  <2>2. /\ n \in 1..Len(r) /\ Len(r) \in Nat /\ l \in Seq(Events) /\ Len(l) \in Nat
        /\ f \in 0..Len(l) /\ r[n] \in Activation /\ Place(n, r) = r[n].at
        /\ \A i \in 1..Len(l) : l[i][2] <= Len(r)
    BY <2>1, Base
  <2> QED
    BY <2>1, <2>2 DEF Changed
<1>2. /\ Outcome(r[n].delivery) \in {"returned", "notified", "dropped"}
      /\ r[n].delivery # "caller" => Outcome(r[n].delivery) # "returned"
  BY DEF Outcome
<1>3. /\ e \in Events /\ e[1] \in Settles /\ e[1] # "start" /\ e[1] # "lost" /\ e[2] = n
      /\ e[1] = Outcome(r[n].delivery)
  BY <1>1, <1>2 DEF Events, Whats, Settles
<1>4. /\ h \in Seq(Events) /\ Len(h) = Len(l) + 1
      /\ \A i \in 1..Len(l) : h[i] = l[i]
      /\ h[Len(l) + 1] = e
      /\ Logged(h) = Logged(l) \cup {e}
  BY <1>1, <1>3, OneMore
<1>5. n \in OpenIn(l)
  BY DEF Good, Journal
<1>6. Serial(h) /\ Once(h)
  <2>1. \A d \in Settles : <<d, n>> \notin Logged(l)
    BY <1>1, <1>5, OpenIs
  <2> HIDE DEF h, e
  <2>2. Serial(Append(l, e))
    BY <1>1, <1>3, SerialMore DEF Good, Journal
  <2>3. Once(Append(l, e))
    BY <1>1, <1>3, <2>1, OnceMore DEF Good, Journal
  <2> QED
    BY <2>2, <2>3 DEF h
<1> HIDE DEF h, e
<1>7. Place(n, q) = "recorded" /\ Registered(n, q, o) /\ Heard(n, q, x)
  <2>1. x \in Nat /\ q[n].at \in Going
    BY DEF Good, Types, Going, Ending
  <2>2. q[n].end = "completed" => x = 0
    BY <1>1 DEF Good, Heard, Ending
  <2>3. Place(n, q) = q[n].at /\ Registered(n, q, o) /\ Heard(n, q, x)
    BY <1>1, <2>1, <2>2, Goes
  <2> QED
    BY <2>3
<1>8. Types(h, f, n, q, k, x, o, y, 0)
  BY <1>1, <1>4 DEF Good, Types
<1>9. Journal(h, n, q, 0)
  <2>1. \A i \in 1..Len(h) : h[i][2] <= Len(q)
    <3>1. \A i \in 1..Len(h) : i \in 1..Len(l) \/ i = Len(l) + 1
      BY <1>1, <1>4
    <3> QED
      BY <1>1, <1>3, <1>4, <3>1
  <2>2. OpenIn(h) \subseteq {n}
    <3>1. OpenIn(h) = OpenIn(l) \ {e[2]}
      BY <1>1, <1>3, <1>4, OpenMore
    <3>2. OpenIn(l) \subseteq {n}
      BY DEF Good, Journal
    <3> QED
      BY <3>1, <3>2
  <2>3. <<"start", n>> \in Logged(h) /\ e \in Logged(h)
    BY <1>1, <1>4, <1>5, OpenIs
  <2>4. <<"notice", n>> \notin Logged(h)
    <3>1. <<"notice", n>> \notin Logged(l)
      <4> SUFFICES ASSUME <<"notice", n>> \in Logged(l) PROVE FALSE
        OBVIOUS
      <4>1. PICK j \in 1..Len(l) : l[j] = <<"notice", n>>
        BY <1>1, LoggedIs
      <4>2. PICK d \in 1..Len(l) : l[d][1] \in {"notified", "lost"} /\ l[d][2] = n
        BY <4>1 DEF Good, Journal, Once
      <4>3. <<l[d][1], n>> \in Logged(l) /\ l[d][1] \in Settles
        BY <1>1, <4>2, LoggedIs DEF Settles
      <4> QED
        BY <1>1, <1>5, <4>3, OpenIs
    <3>2. <<"notice", n>> # e
      BY <1>2 DEF e
    <3> QED
      BY <1>4, <3>1, <3>2
  <2> QED
    BY <1>6, <1>7, <2>1, <2>2, <2>3, <2>4 DEF Journal, e
<1>10. Locked(h, n, q, k)
  <2>1. Locked(l, n, q, k)
    BY <1>7, SameLock DEF Good, Ending
  <2>2. Starts(l) \subseteq Starts(h)
    BY <1>1, <1>3, <1>4, OpenMore
  <2> QED
    BY <2>1, <2>2 DEF Locked
<1>11. Synchronous(h, n, q, y)
  <2>1. y = "moved" => <<"returned", 1>> \notin Logged(h)
    <3>1. ASSUME y = "moved" PROVE <<"returned", 1>> # e
      BY <1>2, <3>1 DEF Good, Synchronous, e
    <3> QED
      BY <1>4, <3>1 DEF Good, Synchronous
  <2>2. y = "result" => <<"returned", 1>> \in Logged(h)
    BY <1>4 DEF Good, Synchronous
  <2> QED
    BY <1>1, <1>7, <2>1, <2>2 DEF Good, Synchronous, Ending
<1>12. Sent(n, q, k, x, s)
  <2>1. x \in Nat /\ x + Cardinality(Messages(k)) <= s /\ Cardinality(Messages(k)) \in Nat
    BY SentIs
  <2>2. Place(n, q) # "opening"
    BY <1>7
  <2> QED
    BY <2>1, <2>2, SentThen
<1> QED
  BY <1>7, <1>8, <1>9, <1>10, <1>11, <1>12 DEF Good, h, e

\* A settle for the parent is followed by its notice, any other by none.
LEMMA NotifyStep ==
  ASSUME NEW l, NEW f, NEW n, NEW r, NEW k, NEW x, NEW o, NEW y, NEW s \in Nat,
         Good(l, f, n, r, k, x, o, y, 0, s), Place(n, r) = "recorded",
         NEW q, Changed(r, n, q), q[n].at = "noticed", q[n].delivery = r[n].delivery,
         q[n].end = r[n].end,
         NEW h, h = IF <<"notified", n>> \in Logged(l) THEN Append(l, <<"notice", n>>) ELSE l
  PROVE  Good(h, f, n, q, k, x, o, y, 0, s)
<1> DEFINE e == <<"notice", n>>
<1>1. /\ n # 0 /\ n \in 1..Len(r) /\ n \in Nat \ {0} /\ Len(r) \in Nat
      /\ l \in Seq(Events) /\ Len(l) \in Nat /\ f \in 0..Len(l) /\ r[n] \in Activation
      /\ \A i \in 1..Len(l) : l[i][2] <= Len(r)
      /\ q \in Seq(Activation) /\ Len(q) = Len(r) /\ q # <<>> /\ Place(n, r) = r[n].at
  <2>1. n # 0
    BY DEF Place
  <2>2. /\ n \in 1..Len(r) /\ Len(r) \in Nat /\ l \in Seq(Events) /\ Len(l) \in Nat
        /\ f \in 0..Len(l) /\ r[n] \in Activation /\ Place(n, r) = r[n].at
        /\ \A i \in 1..Len(l) : l[i][2] <= Len(r)
    BY <2>1, Base
  <2> QED
    BY <2>1, <2>2 DEF Changed
<1>2. Place(n, q) = "noticed" /\ Registered(n, q, o) /\ Heard(n, q, x)
  <2>1. x \in Nat /\ q[n].at \in Going
    BY DEF Good, Types, Going, Ending
  <2>2. q[n].end = "completed" => x = 0
    BY <1>1 DEF Good, Heard, Ending
  <2>3. Place(n, q) = q[n].at /\ Registered(n, q, o) /\ Heard(n, q, x)
    BY <1>1, <2>1, <2>2, Goes
  <2> QED
    BY <2>3
<1>3. e \in Events /\ e[1] = "notice" /\ e[2] = n
  BY <1>1 DEF Events, Whats
<1>4. /\ Serial(l) /\ Once(l) /\ OpenIn(l) \subseteq {n} /\ <<"start", n>> \in Logged(l)
      /\ <<Outcome(r[n].delivery), n>> \in Logged(l) /\ e \notin Logged(l)
  BY DEF Good, Journal
<1> HIDE DEF e
<1>5. CASE <<"notified", n>> \notin Logged(l)
  <2>1. Journal(l, n, q, 0)
    BY <1>1, <1>2, <1>4 DEF Good, Journal
  <2>2. Types(l, f, n, q, k, x, o, y, 0)
    BY <1>1 DEF Good, Types
  <2>3. Locked(l, n, q, k)
    BY <1>2, SameLock DEF Good, Ending
  <2>4. Synchronous(l, n, q, y)
    BY <1>1, <1>2 DEF Good, Synchronous, Ending
  <2>5. Sent(n, q, k, x, s)
    <3>1. x \in Nat /\ x + Cardinality(Messages(k)) <= s /\ Cardinality(Messages(k)) \in Nat
      BY SentIs
    <3>2. Place(n, q) # "opening"
      BY <1>2
    <3> QED
      BY <3>1, <3>2, SentThen
  <2>6. h = l
    BY <1>5
  <2> QED
    BY <1>2, <2>1, <2>2, <2>3, <2>4, <2>5, <2>6 DEF Good
<1>6. CASE <<"notified", n>> \in Logged(l)
  <2>1. h = Append(l, e)
    BY <1>6 DEF e
  <2>2. /\ h \in Seq(Events) /\ Len(h) = Len(l) + 1
        /\ \A i \in 1..Len(l) : h[i] = l[i]
        /\ h[Len(l) + 1] = e
        /\ Logged(h) = Logged(l) \cup {e}
    <3>1. LET j == Append(l, e)
          IN  /\ j \in Seq(Events) /\ Len(j) = Len(l) + 1
              /\ \A i \in 1..Len(l) : j[i] = l[i]
              /\ j[Len(l) + 1] = e
              /\ Logged(j) = Logged(l) \cup {e}
      BY <1>1, <1>3, OneMore
    <3> QED
      BY <2>1, <3>1
  <2>3. Serial(h) /\ Once(h)
    <3>1. Serial(Append(l, e))
      BY <1>1, <1>3, <1>4, SerialMore
    <3>2. Once(Append(l, e))
      BY <1>1, <1>3, <1>4, <1>6, OnceMore
    <3> QED
      BY <2>1, <3>1, <3>2
  <2>4. Types(h, f, n, q, k, x, o, y, 0)
    BY <1>1, <2>2 DEF Good, Types
  <2>5. Journal(h, n, q, 0)
    <3>1. \A i \in 1..Len(h) : h[i][2] <= Len(q)
      <4>1. \A i \in 1..Len(h) : i \in 1..Len(l) \/ i = Len(l) + 1
        BY <1>1, <2>2
      <4> QED
        BY <1>1, <1>3, <2>2, <4>1
    <3>2. OpenIn(h) \subseteq {n}
      <4>1. OpenIn(h) \subseteq OpenIn(l)
        BY <1>1, <1>3, <2>2, OpenMore
      <4> QED
        BY <1>4, <4>1
    <3> QED
      BY <1>1, <1>2, <1>4, <2>2, <2>3, <3>1, <3>2 DEF Journal, e
  <2>6. Locked(h, n, q, k)
    <3>1. Locked(l, n, q, k)
      BY <1>2, SameLock DEF Good, Ending
    <3>2. Starts(l) \subseteq Starts(h)
      BY <1>1, <1>3, <2>2, OpenMore
    <3> QED
      BY <3>1, <3>2 DEF Locked
  <2>7. Synchronous(h, n, q, y)
    <3>1. <<"returned", 1>> \in Logged(h) <=> <<"returned", 1>> \in Logged(l)
      BY <2>2 DEF e
    <3> QED
      BY <1>1, <1>2, <3>1 DEF Good, Synchronous, Ending
  <2>8. Sent(n, q, k, x, s)
    <3>1. x \in Nat /\ x + Cardinality(Messages(k)) <= s /\ Cardinality(Messages(k)) \in Nat
      BY SentIs
    <3>2. Place(n, q) # "opening"
      BY <1>2
    <3> QED
      BY <3>1, <3>2, SentThen
  <2> QED
    BY <1>2, <2>3, <2>4, <2>5, <2>6, <2>7, <2>8 DEF Good
<1> QED
  BY <1>5, <1>6

\* The activation is forgotten and its result goes to the call that waits for it.
LEMMA CloseStep ==
  ASSUME NEW l, NEW f, NEW n, NEW r, NEW k, NEW x, NEW o, NEW y, NEW s \in Nat,
         Good(l, f, n, r, k, x, o, y, 0, s), Place(n, r) = "noticed",
         NEW q, Changed(r, n, q), q[n].at = "over", q[n].end = r[n].end
  PROVE  Good(l, Len(l), 0, q, Tail(k), x, o,
              IF n = 1 /\ y = "waiting" THEN "result" ELSE y, 0, s)
<1> DEFINE t == Tail(k)
           z == IF n = 1 /\ y = "waiting" THEN "result" ELSE y
<1>1. /\ n # 0 /\ n \in 1..Len(r) /\ n = Len(r) /\ Len(r) \in Nat /\ r[n] \in Activation
      /\ l \in Seq(Events) /\ Len(l) \in Nat /\ k \in Seq(Waiting)
      /\ \A i \in 1..Len(l) : l[i][2] <= Len(r)
      /\ q \in Seq(Activation) /\ Len(q) = Len(r) /\ q # <<>> /\ r # <<>>
      /\ Place(n, r) = r[n].at
  <2>1. n # 0
    BY DEF Place
  <2>2. /\ n \in 1..Len(r) /\ n = Len(r) /\ Len(r) \in Nat /\ r \in Seq(Activation)
        /\ r[n] \in Activation /\ Place(n, r) = r[n].at
        /\ l \in Seq(Events) /\ Len(l) \in Nat /\ k \in Seq(Waiting)
        /\ \A i \in 1..Len(l) : l[i][2] <= Len(r)
    BY <2>1, Base
  <2> QED
    BY <2>1, <2>2 DEF Changed
<1>2. Place(0, q) = "none"
  BY DEF Place
<1>3. k # <<>> /\ k[1][1] = "decide"
  BY DEF Good, Locked, Ending
<1>4. /\ t \in Seq(Waiting) /\ Cardinality(Messages(t)) \in Nat
      /\ Cardinality(Messages(k)) = Cardinality(Messages(t)) + 0
  BY <1>1, <1>3, Shifted
<1>5. Locked(l, 0, q, t)
  <2>1. Place(0, q) \notin Ending
    BY <1>2 DEF Ending
  <2> QED
    BY <1>3, <2>1, LockPassed
<1> HIDE DEF t
<1>6. Types(l, Len(l), 0, q, t, x, o, z, 0)
  <2>1. Len(l) \in 0..Len(l) /\ z \in {"no", "waiting", "moved", "result"}
    BY <1>1 DEF Good, Types
  <2> HIDE DEF z
  <2> QED
    BY <1>1, <1>4, <2>1 DEF Good, Types
<1>7. Registered(0, q, o)
  BY <1>1, <1>2 DEF Good, Registered, Changed
<1>8. <<Outcome(r[n].delivery), n>> \in Logged(l)
  BY DEF Good, Journal
<1>9. Journal(l, 0, q, 0)
  <2>1. n \notin OpenIn(l)
    <3>1. Outcome(r[n].delivery) \in Settles
      BY DEF Outcome, Settles
    <3> QED
      BY <1>1, <1>8, <3>1, OpenIs
  <2>2. OpenIn(l) \subseteq {n}
    BY DEF Good, Journal
  <2>3. OpenIn(l) = {}
    BY <2>1, <2>2
  <2> QED
    BY <1>1, <1>2, <2>3 DEF Good, Journal, Ending
<1>10. Synchronous(l, 0, q, z)
  <2>1. CASE y = "waiting"
    <3>1. n = 1 /\ r[1].delivery = "caller" /\ z = "result"
      BY <2>1 DEF Good, Synchronous
    <3>2. <<"returned", 1>> \in Logged(l)
      BY <1>8, <3>1 DEF Outcome
    <3> QED
      BY <1>1, <3>1, <3>2 DEF Synchronous
  <2>2. CASE y # "waiting"
    BY <1>1, <2>2 DEF Good, Synchronous
  <2> QED
    BY <2>1, <2>2
<1> HIDE DEF z
<1>11. Heard(0, q, x)
  <2>1. SUFFICES ASSUME NEW i \in 1..Len(r), q[i].end = "completed", x > 0
                 PROVE  \E j \in 1..Len(r) : j > i /\ q[j].at \notin {"opening", "failed"}
    BY <1>1, <1>2 DEF Heard, Ending
  <2>2. i # n
    <3>1. r[n].end = "completed" => x = 0
      BY <1>1 DEF Good, Heard, Ending
    <3> QED
      BY <1>1, <2>1, <3>1
  <2>3. q[n].at \notin {"opening", "failed"} /\ n > i /\ n \in 1..Len(r)
    BY <1>1, <2>1, <2>2
  <2> QED
    BY <2>3
<1>12. Sent(0, q, t, x, s)
  <2>1. x \in Nat /\ x + Cardinality(Messages(t)) <= s
    BY <1>4, SentIs
  <2>2. Place(0, q) # "opening"
    BY <1>2
  <2> QED
    BY <1>4, <2>1, <2>2, SentThen
<1> QED
  BY <1>5, <1>6, <1>7, <1>9, <1>10, <1>11, <1>12 DEF Good, t, z

\* recoverLost settles an activation that was cut off.
LEMMA LostStep ==
  ASSUME NEW l, NEW f, NEW r, NEW k, NEW x, NEW o, NEW y, NEW c, NEW s \in Nat,
         Good(l, f, 0, r, k, x, o, y, c, s), c \in OpenIn(l), y = "no"
  PROVE  Good(Append(l, <<"lost", c>>), f, 0, r, k, x, o, y, c, s)
<1> DEFINE e == <<"lost", c>>
           h == Append(l, e)
<1>1. /\ l \in Seq(Events) /\ Len(l) \in Nat /\ f \in 0..Len(l) /\ Place(0, r) = "none"
      /\ Len(r) \in Nat
      /\ \A i \in 1..Len(l) : l[i][2] \in Nat \ {0} /\ l[i][2] <= Len(r)
  BY Base
<1>2. /\ <<"start", c>> \in Logged(l) /\ \A d \in Settles : <<d, c>> \notin Logged(l)
      /\ c \in Nat \ {0} /\ c <= Len(r)
  <2>1. <<"start", c>> \in Logged(l) /\ \A d \in Settles : <<d, c>> \notin Logged(l)
    BY <1>1, OpenIs
  <2>2. PICK i \in 1..Len(l) : l[i] = <<"start", c>>
    BY <1>1, <2>1, LoggedIs
  <2> QED
    BY <1>1, <2>1, <2>2
<1>3. e \in Events /\ e[1] = "lost" /\ e[2] = c /\ e[1] \in Settles /\ e[1] # "start"
  BY <1>2 DEF Events, Whats, Settles
<1>4. /\ h \in Seq(Events) /\ Len(h) = Len(l) + 1
      /\ \A i \in 1..Len(l) : h[i] = l[i]
      /\ h[Len(l) + 1] = e
      /\ Logged(h) = Logged(l) \cup {e}
  BY <1>1, <1>3, OneMore
<1> HIDE DEF h, e
<1>5. Serial(h) /\ Once(h)
  <2>1. Serial(Append(l, e))
    BY <1>1, <1>3, SerialMore DEF Good, Journal
  <2>2. Once(Append(l, e))
    BY <1>1, <1>2, <1>3, OnceMore DEF Good, Journal
  <2> QED
    BY <2>1, <2>2 DEF h
<1>6. Types(h, f, 0, r, k, x, o, y, c)
  BY <1>1, <1>4 DEF Good, Types
<1>7. Journal(h, 0, r, c)
  <2>1. \A i \in 1..Len(h) : h[i][2] <= Len(r)
    <3>1. \A i \in 1..Len(h) : i \in 1..Len(l) \/ i = Len(l) + 1
      BY <1>1, <1>4
    <3> QED
      BY <1>1, <1>2, <1>3, <1>4, <3>1
  <2>2. OpenIn(h) \subseteq {c}
    <3>1. OpenIn(h) = OpenIn(l) \ {e[2]}
      BY <1>1, <1>3, <1>4, OpenMore
    <3>2. OpenIn(l) \subseteq {c}
      BY <1>2 DEF Good, Journal
    <3> QED
      BY <3>1, <3>2
  <2>3. <<"start", c>> \in Logged(h) /\ <<"notice", c>> \notin Logged(h)
    <3>1. <<"notice", c>> \notin Logged(l)
      BY <1>2 DEF Good, Journal
    <3>2. <<"notice", c>> # e
      BY DEF e
    <3> QED
      BY <1>2, <1>4, <3>1, <3>2
  <2>4. \A d \in Settles \ {"lost"} : <<d, c>> \notin Logged(h)
    <3>1. \A d \in Settles \ {"lost"} : <<d, c>> # e
      BY DEF e
    <3> QED
      BY <1>2, <1>4, <3>1
  <2> QED
    BY <1>1, <1>2, <1>5, <2>1, <2>2, <2>3, <2>4 DEF Journal, Ending
<1>8. Locked(h, 0, r, k)
  <2>1. Starts(l) \subseteq Starts(h)
    BY <1>1, <1>3, <1>4, OpenMore
  <2> QED
    BY <2>1 DEF Good, Locked
<1>9. Synchronous(h, 0, r, y)
  BY DEF Synchronous
<1> QED
  BY <1>6, <1>7, <1>8, <1>9 DEF Good, h, e

\* And then tells the main agent.
LEMMA ToldStep ==
  ASSUME NEW l, NEW f, NEW r, NEW k, NEW x, NEW o, NEW y, NEW c, NEW s \in Nat,
         Good(l, f, 0, r, k, x, o, y, c, s), c # 0, c \notin OpenIn(l), y = "no"
  PROVE  Good(Append(l, <<"notice", c>>), f, 0, r, k, x, o, y, 0, s)
<1> DEFINE e == <<"notice", c>>
           h == Append(l, e)
<1>1. /\ l \in Seq(Events) /\ Len(l) \in Nat /\ f \in 0..Len(l) /\ Place(0, r) = "none"
      /\ Len(r) \in Nat
      /\ \A i \in 1..Len(l) : l[i][2] \in Nat \ {0} /\ l[i][2] <= Len(r)
  BY Base
<1>2. /\ <<"lost", c>> \in Logged(l) /\ <<"notice", c>> \notin Logged(l)
      /\ c \in Nat \ {0} /\ c <= Len(r)
  <2>1. /\ <<"start", c>> \in Logged(l) /\ <<"notice", c>> \notin Logged(l)
        /\ \A d \in Settles \ {"lost"} : <<d, c>> \notin Logged(l)
    BY DEF Good, Journal
  <2>2. <<"lost", c>> \in Logged(l)
    BY <1>1, <2>1, OpenIs
  <2>3. PICK i \in 1..Len(l) : l[i] = <<"start", c>>
    BY <1>1, <2>1, LoggedIs
  <2> QED
    BY <1>1, <2>1, <2>2, <2>3
<1>3. e \in Events /\ e[1] = "notice" /\ e[2] = c /\ e \notin Logged(l)
  BY <1>2 DEF Events, Whats
<1>4. /\ h \in Seq(Events) /\ Len(h) = Len(l) + 1
      /\ \A i \in 1..Len(l) : h[i] = l[i]
      /\ h[Len(l) + 1] = e
      /\ Logged(h) = Logged(l) \cup {e}
  BY <1>1, <1>3, OneMore
<1> HIDE DEF h, e
<1>5. Serial(h) /\ Once(h)
  <2>1. Serial(Append(l, e))
    BY <1>1, <1>3, SerialMore DEF Good, Journal
  <2>2. Once(Append(l, e))
    BY <1>1, <1>2, <1>3, OnceMore DEF Good, Journal
  <2> QED
    BY <2>1, <2>2 DEF h
<1>6. Types(h, f, 0, r, k, x, o, y, 0)
  BY <1>1, <1>4 DEF Good, Types
<1>7. Journal(h, 0, r, 0)
  <2>1. \A i \in 1..Len(h) : h[i][2] <= Len(r)
    <3>1. \A i \in 1..Len(h) : i \in 1..Len(l) \/ i = Len(l) + 1
      BY <1>1, <1>4
    <3> QED
      BY <1>1, <1>2, <1>3, <1>4, <3>1
  <2>2. OpenIn(h) \subseteq {0}
    <3>1. OpenIn(h) \subseteq OpenIn(l)
      BY <1>1, <1>3, <1>4, OpenMore
    <3>2. OpenIn(l) \subseteq {c}
      BY DEF Good, Journal
    <3> QED
      BY <3>1, <3>2
  <2> QED
    BY <1>1, <1>5, <2>1, <2>2 DEF Journal, Ending
<1>8. Locked(h, 0, r, k)
  <2>1. Starts(l) \subseteq Starts(h)
    BY <1>1, <1>3, <1>4, OpenMore
  <2> QED
    BY <2>1 DEF Good, Locked
<1>9. Synchronous(h, 0, r, y)
  BY DEF Synchronous
<1> QED
  BY <1>6, <1>7, <1>8, <1>9 DEF Good, h, e

\* In a serial journal one activation is open at most, the last one.
LEMMA OpenIsLast ==
  ASSUME NEW l \in Seq(Events), Serial(l)
  PROVE  /\ RunningActivation(l) = OpenIn(l)
         /\ \A m, p \in OpenIn(l) : m = p
<1>1. /\ \A m : m \in Starts(l) => \E i \in 1..Len(l) : l[i] = <<"start", m>>
      /\ \A m \in OpenIn(l) : /\ \A d \in Settles : <<d, m>> \notin Logged(l)
                              /\ \E i \in 1..Len(l) : l[i] = <<"start", m>>
      /\ OpenIn(l) \subseteq Starts(l) /\ Starts(l) \subseteq Nat
      /\ \A i \in 1..Len(l) : l[i] \in Logged(l) /\ l[i] = <<l[i][1], l[i][2]>>
      /\ Len(l) \in Nat
  <2>1. \A m : m \in Starts(l) => m \in Nat
    <3> SUFFICES ASSUME NEW m \in Starts(l) PROVE m \in Nat
      OBVIOUS
    <3>1. <<"start", m>> \in Events
      BY OpenIs, LoggedIs
    <3> QED
      BY <3>1 DEF Events
  <2> QED
    BY <2>1, OpenIs, LoggedIs, LenProperties
<1>2. ASSUME NEW m \in OpenIn(l), NEW p \in Starts(l)
      PROVE  p <= m
  <2>1. PICK i \in 1..Len(l) : l[i] = <<"start", m>>
    BY <1>1
  <2>2. PICK j \in 1..Len(l) : l[j] = <<"start", p>>
    BY <1>1
  <2>3. ~(i < j)
    <3> SUFFICES ASSUME i < j PROVE FALSE
      OBVIOUS
    <3>1. PICK d \in 1..Len(l) : l[d][1] \in Settles /\ l[d][2] = m
      BY <2>1, <2>2 DEF Serial
    <3> QED
      BY <1>1, <3>1
  <2>4. j < i => p < m
    BY <2>1, <2>2 DEF Serial
  <2>5. i \in Nat /\ j \in Nat /\ m \in Nat /\ p \in Nat
    BY <1>1
  <2>6. CASE i = j
    BY <2>1, <2>2, <2>5, <2>6
  <2>7. CASE j < i
    BY <2>4, <2>5, <2>7
  <2> QED
    BY <2>3, <2>5, <2>6, <2>7
<1>3. RunningActivation(l) = OpenIn(l)
  BY <1>2 DEF RunningActivation
<1>4. \A m, p \in OpenIn(l) : m = p
  <2>1. \A m, p \in OpenIn(l) : m <= p /\ p <= m /\ m \in Nat /\ p \in Nat
    BY <1>1, <1>2
  <2>2. \A m, p \in Nat : m <= p /\ p <= m => m = p
    OBVIOUS
  <2> QED
    BY <2>1, <2>2
<1> QED
  BY <1>3, <1>4

\* Every prefix of a journal is serial, and ends an activation once.
LEMMA PrefixGood ==
  ASSUME NEW l \in Seq(Events), NEW b \in 0..Len(l), Serial(l), Once(l)
  PROVE  Serial(SubSeq(l, 1, b)) /\ Once(SubSeq(l, 1, b))
<1> DEFINE h == SubSeq(l, 1, b)
<1>1. /\ Len(h) = b /\ b \in Nat /\ Len(l) \in Nat
      /\ \A i \in 1..b : h[i] = l[i] /\ i \in 1..Len(l)
  BY Prefix, LenProperties
<1> HIDE DEF h
<1>2. \A d \in 1..Len(l), j \in 1..b : d < j => d \in 1..b
  BY <1>1
<1>3. Serial(h)
  <2>1. SUFFICES ASSUME NEW i \in 1..Len(h), NEW j \in 1..Len(h), i < j,
                        h[i][1] = "start", h[j][1] = "start"
                 PROVE  /\ h[i][2] < h[j][2]
                        /\ \E d \in 1..Len(h) : d < j /\ h[d][1] \in Settles /\ h[d][2] = h[i][2]
    BY DEF Serial
  <2>2. /\ i \in 1..b /\ j \in 1..b /\ i \in 1..Len(l) /\ j \in 1..Len(l)
        /\ h[i] = l[i] /\ h[j] = l[j]
    BY <1>1
  <2>3. /\ l[i][2] < l[j][2]
        /\ \E d \in 1..Len(l) : d < j /\ l[d][1] \in Settles /\ l[d][2] = l[i][2]
    BY <2>1, <2>2 DEF Serial
  <2>4. PICK d \in 1..Len(l) : d < j /\ l[d][1] \in Settles /\ l[d][2] = l[i][2]
    BY <2>3
  <2>5. d \in 1..Len(h) /\ h[d] = l[d]
    BY <1>1, <1>2, <2>2, <2>4
  <2> QED
    BY <2>2, <2>3, <2>4, <2>5
<1>4. Once(h)
  <2>1. \A i, j \in 1..Len(h) : h[i][1] \in Settles /\ h[j][1] \in Settles /\ h[i][2] = h[j][2] => i = j
    BY <1>1 DEF Once
  <2>2. \A i, j \in 1..Len(h) : h[i][1] = "notice" /\ h[j] = h[i] => i = j
    BY <1>1 DEF Once
  <2>3. \A j \in 1..Len(h) : h[j][1] = "notice" =>
          \E d \in 1..Len(h) : d < j /\ h[d][1] \in {"notified", "lost"} /\ h[d][2] = h[j][2]
    BY <1>1, <1>2 DEF Once
  <2> QED
    BY <2>1, <2>2, <2>3 DEF Once
<1> QED
  BY <1>3, <1>4 DEF h

\* The process dies.
LEMMA CrashStep ==
  ASSUME NEW l, NEW f, NEW n, NEW r, NEW k, NEW x, NEW o, NEW y, NEW c, NEW s \in Nat,
         Good(l, f, n, r, k, x, o, y, c, s), NEW b \in 0..Len(l),
         NEW z \in Nat, z = x \/ (n # 0 /\ z <= s),
         NEW q, Changed(r, n, q), n # 0 => q[n].at = "over" /\ q[n].end = "failed",
         NEW h, h = SubSeq(l, 1, b),
         NEW u, OpenIn(h) = {} => u = 0, OpenIn(h) # {} => u \in OpenIn(h)
  PROVE  Good(h, b, 0, q, <<>>, z, "no", "no", u, s)
<1>1. /\ l \in Seq(Events) /\ Len(l) \in Nat
      /\ r \in Seq(Activation) /\ Len(r) \in Nat /\ n \in 0..Len(r)
      /\ q \in Seq(Activation) /\ Len(q) = Len(r)
      /\ \A i \in 1..Len(l) : l[i][2] \in Nat \ {0} /\ l[i][2] <= Len(r)
      /\ n # 0 => n \in 1..Len(r) /\ n = Len(r)
  BY Base DEF Changed
<1>2. /\ h \in Seq(Events) /\ Len(h) = b
      /\ \A i \in 1..b : h[i] = l[i] /\ i \in 1..Len(l)
  BY <1>1, Prefix
<1>3. Serial(h) /\ Once(h)
  BY <1>1, PrefixGood DEF Good, Journal
<1>4. /\ \A i \in 1..Len(h) : h[i][2] \in Nat \ {0} /\ h[i][2] <= Len(q)
      /\ OpenIn(h) \subseteq Nat \ {0}
  <2>1. \A i \in 1..Len(h) : h[i][2] \in Nat \ {0} /\ h[i][2] <= Len(q)
    BY <1>1, <1>2
  <2>2. ASSUME NEW m \in OpenIn(h) PROVE m \in Nat \ {0}
    <3>1. PICK i \in 1..Len(h) : h[i] = <<"start", m>>
      BY <1>2, OpenIs, LoggedIs
    <3> QED
      BY <2>1, <3>1
  <2> QED
    BY <2>1, <2>2
<1>5. u \in Nat /\ OpenIn(h) \subseteq (IF u = 0 THEN {0} ELSE {u}) /\ (u # 0 => u \in OpenIn(h))
  <2>1. \A m, p \in OpenIn(h) : m = p
    BY <1>2, <1>3, OpenIsLast
  <2> QED
    BY <1>4, <2>1
<1>6. Place(0, q) = "none"
  BY DEF Place
<1>7. Types(h, b, 0, q, <<>>, z, "no", "no", u)
  <2>1. <<>> \in Seq(Waiting)
    OBVIOUS
  <2> QED
    BY <1>1, <1>2, <1>5, <2>1 DEF Types
<1>8. Registered(0, q, "no")
  BY <1>1, <1>6 DEF Good, Registered, Changed
<1>9. Journal(h, 0, q, u)
  <2>1. u # 0 => /\ <<"start", u>> \in Logged(h) /\ \A d \in Settles : <<d, u>> \notin Logged(h)
    BY <1>2, <1>5, OpenIs
  <2>2. u # 0 => <<"notice", u>> \notin Logged(h)
    <3> SUFFICES ASSUME u # 0, <<"notice", u>> \in Logged(h) PROVE FALSE
      OBVIOUS
    <3>1. PICK j \in 1..Len(h) : h[j] = <<"notice", u>>
      BY <1>2, LoggedIs
    <3>2. PICK d \in 1..Len(h) : h[d][1] \in {"notified", "lost"} /\ h[d][2] = u
      BY <1>3, <3>1 DEF Once
    <3>3. <<h[d][1], u>> \in Logged(h) /\ h[d][1] \in Settles
      BY <1>2, <3>2, LoggedIs DEF Settles
    <3> QED
      BY <2>1, <3>3
  <2> QED
    BY <1>3, <1>4, <1>5, <1>6, <2>1, <2>2 DEF Journal
<1>10. Locked(h, 0, q, <<>>)
  <2>1. \A i \in 1..Len(<<>>) : FALSE
    OBVIOUS
  <2> QED
    BY <1>6, <2>1 DEF Locked, Ending
<1>11. Synchronous(h, 0, q, "no")
  BY DEF Synchronous
<1>12. Heard(0, q, z)
  <2>1. SUFFICES ASSUME NEW i \in 1..Len(r), q[i].end = "completed", z > 0
                 PROVE  \E j \in 1..Len(r) : j > i /\ q[j].at \notin {"opening", "failed"}
    BY <1>1, <1>6 DEF Heard, Ending
  <2>2. i # n /\ q[i] = r[i]
    BY <1>1, <2>1 DEF Changed
  <2>3. CASE n = 0
    <3>1. z = x
      BY <2>3
    <3>2. PICK j \in 1..Len(r) : j > i /\ r[j].at \notin {"opening", "failed"}
      BY <2>1, <2>2, <3>1 DEF Good, Heard
    <3> QED
      BY <1>1, <2>3, <3>2 DEF Changed
  <2>4. CASE n # 0
    BY <1>1, <2>2, <2>4
  <2> QED
    BY <2>3, <2>4
<1>13. Sent(0, q, <<>>, z, s)
  <2>1. Messages(<<>>) = {}
    BY DEF Messages
  <2>2. Cardinality(Messages(<<>>)) = 0
    BY <2>1, FS_EmptySet
  <2>3. z + 0 <= s
    <3>1. x \in Nat /\ x + Cardinality(Messages(k)) <= s /\ Cardinality(Messages(k)) \in Nat
      BY SentIs
    <3> QED
      BY <3>1
  <2>4. 0 \in Nat /\ ~(0 > 1)
    OBVIOUS
  <2> QED
    BY <2>2, <2>3, <2>4, SentThen
<1> QED
  BY <1>7, <1>8, <1>9, <1>10, <1>11, <1>12, <1>13 DEF Good

-----------------------------------------------------------------------------
(***************************************************************************)
(* The actions.                                                            *)
(***************************************************************************)
\* What an action does to an agent it is not about: it may flush the journal.
Kept(a) ==
  /\ log'[a] = log[a] /\ flushed'[a] \in {flushed[a], Len(log[a])}
  /\ active'[a] = active[a] /\ run'[a] = run[a] /\ lock'[a] = lock[a]
  /\ inbox'[a] = inbox[a] /\ fork'[a] = fork[a] /\ sync'[a] = sync[a] /\ recon'[a] = recon[a]

\* Such an agent is as good as before.
LEMMA OthersKept ==
  ASSUME IInv, NEW a \in Agents, Kept(a), messages' \in Nat, messages <= messages'
  PROVE  AgentOK(a)'
<1>1. messages \in Nat /\ AgentOK(a)
  BY SubagentAssumption DEF IInv, Common
<1>2. Good(log[a], flushed'[a], active[a], run[a], lock[a], inbox[a], fork[a], sync[a], recon[a],
           messages')
  BY <1>1, Elsewhere DEF AgentOK, Kept
<1> QED
  BY <1>2 DEF AgentOK, Kept

\* An agent with something registered, queued or called is not being recovered.
LEMMA Live ==
  ASSUME IInv, NEW a \in Agents,
         active[a] # 0 \/ lock[a] # <<>> \/ fork[a] # "no" \/ sync[a] # "no" \/ rewind # "no"
  PROVE  Up /\ \A b \in Agents : recon[b] = 0
BY DEF IInv, Recovering, Up

\* A step of one agent in a session that is not being recovered.
LEMMA OneSteps ==
  ASSUME IInv, NEW a \in Agents, Up, Shape',
         recon' = recon, rewind' = rewind, waits' \subseteq waits,
         messages' \in messages..MaxMessages,
         \A b \in Agents \ {a} : Kept(b),
         Good(log'[a], flushed'[a], active'[a], run'[a], lock'[a], inbox'[a], fork'[a], sync'[a],
              0, messages')
  PROVE  IInv'
<1>1. messages \in Nat /\ MaxMessages \in Nat
  BY SubagentAssumption DEF IInv, Common
<1>2. messages' \in Nat /\ messages <= messages' /\ messages' <= MaxMessages
  BY <1>1
<1>3. recon'[a] = 0
  BY DEF Up
<1>4. AgentOK(a)'
  BY <1>3 DEF AgentOK
<1>5. \A b \in Agents : AgentOK(b)'
  BY <1>2, <1>4, OthersKept
<1>6. Common'
  BY <1>2 DEF IInv, Common
<1>7. Up'
  BY DEF Up
<1>8. Recovering'
  BY <1>7 DEF Recovering
<1> QED
  BY <1>5, <1>6, <1>8 DEF IInv

\* One activation of one agent changes.
LEMMA RunSteps ==
  ASSUME IInv, NEW a \in Agents, active[a] # 0, NEW v \in Activation,
         run' = [run EXCEPT ![a] = [run[a] EXCEPT ![active[a]] = v]]
  PROVE  /\ Changed(run[a], active[a], run'[a]) /\ run'[a][active[a]] = v
         /\ DOMAIN run' = Agents /\ \A b \in Agents \ {a} : run'[b] = run[b]
<1>1. DOMAIN run = Agents /\ AgentOK(a)
  BY DEF IInv, Shape
<1>2. run[a] \in Seq(Activation) /\ active[a] \in 1..Len(run[a])
  BY <1>1, Base DEF AgentOK
<1>3. run'[a] = [run[a] EXCEPT ![active[a]] = v]
  BY <1>1
<1> DEFINE q == [run[a] EXCEPT ![active[a]] = v]
<1>4. Changed(run[a], active[a], q) /\ q[active[a]] = v
  BY <1>2, Updated
<1> QED
  BY <1>1, <1>3, <1>4

\* The registered activation of an agent.
LEMMA Current ==
  ASSUME IInv, NEW a \in Agents, active[a] # 0
  PROVE  /\ run[a][active[a]] \in Activation /\ active[a] \in 1..Len(run[a])
         /\ active[a] = Len(run[a]) /\ active[a] \in Nat /\ run[a] \in Seq(Activation)
         /\ At(a) = Place(active[a], run[a]) /\ At(a) = run[a][active[a]].at
         /\ Up /\ recon[a] = 0 /\ AgentOK(a) /\ Shape /\ messages \in Nat
         /\ MaxMessages \in Nat /\ messages <= MaxMessages
         /\ Good(log[a], flushed[a], active[a], run[a], lock[a], inbox[a], fork[a], sync[a], 0, messages)
<1>1. AgentOK(a) /\ Shape /\ messages \in 0..MaxMessages /\ MaxMessages \in Nat
  BY SubagentAssumption DEF IInv, Common
<1>2. /\ run[a][active[a]] \in Activation /\ active[a] \in 1..Len(run[a])
      /\ active[a] = Len(run[a]) /\ Len(run[a]) \in Nat /\ run[a] \in Seq(Activation)
  BY <1>1, Base DEF AgentOK
<1>3. Up /\ recon[a] = 0
  BY Live
<1> QED
  BY <1>1, <1>2, <1>3 DEF AgentOK, At, Place

\* A transcript that opens writes the start of its activation, the only open one, and frees
\* the lock.
LEMMA StepOpened ==
  ASSUME IInv, NEW a \in Agents, Opened(a)
  PROVE  IInv'
<1>1. active[a] # 0
  BY DEF Opened, At
<1> DEFINE n == active[a]
           v == [run[a][n] EXCEPT !.at = "logged"]
<1>2. /\ v \in Activation /\ v.at = "logged" /\ v.end = "none" /\ v.delivery = run[a][n].delivery
  <2>1. run[a][n] \in Activation /\ run[a][n].end = "none"
    BY <1>1, Current DEF Opened, Good, Registered
  <2> QED
    BY <2>1 DEF Activation
<1>3. run' = [run EXCEPT ![a] = [run[a] EXCEPT ![n] = v]]
  BY <1>1, Current DEF Opened, Step, Shape
<1> HIDE DEF v
<1>4. /\ Changed(run[a], n, run'[a]) /\ run'[a][n] = v
      /\ DOMAIN run' = Agents /\ \A b \in Agents \ {a} : run'[b] = run[b]
  BY <1>1, <1>2, <1>3, RunSteps
<1>5. Good(Append(log[a], <<"start", n>>), flushed[a], n, run'[a], lock[a],
           IF n > 1 THEN inbox[a] + 1 ELSE inbox[a], fork[a], sync[a], 0, messages)
  BY <1>1, <1>2, <1>4, Current, OpenedStep DEF Opened
<1>6. /\ log'[a] = Append(log[a], <<"start", n>>)
      /\ inbox'[a] = IF n > 1 THEN inbox[a] + 1 ELSE inbox[a]
      /\ \A b \in Agents \ {a} : log'[b] = log[b] /\ inbox'[b] = inbox[b]
      /\ DOMAIN log' = Agents /\ DOMAIN inbox' = Agents
  BY <1>1, Current DEF Opened, Write, Shape
<1>7. /\ UNCHANGED <<flushed, active, lock, fork, sync, rewind, waits, recon, messages>>
  BY DEF Opened, counters
<1>8. Shape'
  BY <1>1, <1>4, <1>6, <1>7, Current DEF Shape
<1>9. \A b \in Agents \ {a} : Kept(b)
  BY <1>4, <1>6, <1>7 DEF Kept
<1>10. Good(log'[a], flushed'[a], active'[a], run'[a], lock'[a], inbox'[a], fork'[a], sync'[a],
            0, messages')
  BY <1>5, <1>6, <1>7
<1>11. Up /\ messages' \in messages..MaxMessages
  BY <1>1, <1>7, Current
<1> QED
  BY <1>7, <1>8, <1>9, <1>10, <1>11, OneSteps

\* An agent that has something registered, queued or called, or that is started.
LEMMA Present ==
  ASSUME IInv, NEW a \in Agents, Up
  PROVE  /\ Shape /\ messages \in Nat /\ messages \in messages..MaxMessages
         /\ log[a] \in Seq(Events) /\ Len(log[a]) \in Nat
         /\ lock[a] \in Seq(Waiting) /\ run[a] \in Seq(Activation)
         /\ At(a) = Place(active[a], run[a])
         /\ Good(log[a], flushed[a], active[a], run[a], lock[a], inbox[a], fork[a], sync[a], 0, messages)
<1>1. /\ Shape /\ messages \in 0..MaxMessages /\ MaxMessages \in Nat /\ recon[a] = 0
      /\ Good(log[a], flushed[a], active[a], run[a], lock[a], inbox[a], fork[a], sync[a], recon[a], messages)
  BY SubagentAssumption DEF IInv, Common, AgentOK, Up
<1>2. messages \in messages..MaxMessages /\ messages \in Nat
  BY <1>1
<1>3. /\ log[a] \in Seq(Events) /\ Len(log[a]) \in Nat
      /\ lock[a] \in Seq(Waiting) /\ run[a] \in Seq(Activation)
  BY <1>1, Base
<1> QED
  BY <1>1, <1>2, <1>3 DEF At, Place

\* A spawned agent has its first activation registered, and nothing yet in its journal.
LEMMA StepSpawn ==
  ASSUME IInv, NEW a \in Agents, Spawn(a)
  PROVE  IInv'
<1>1. Up /\ run[a] = <<>> /\ fork[a] = "no"
  BY DEF Spawn, RootCalls, Unused
<1>2. PICK delivery \in {"caller", "parent"} : Reserve(a, Root, delivery)
  BY DEF Spawn
<1> DEFINE v == [at |-> "opening", by |-> Root, delivery |-> delivery, aborted |-> FALSE, end |-> "none"]
<1>3. v \in Activation /\ v.at = "opening" /\ v.end = "none"
  BY DEF Activation
<1>4. /\ run'[a] = Append(run[a], v) /\ active'[a] = Len(run[a]) + 1
      /\ \A b \in Agents \ {a} : run'[b] = run[b] /\ active'[b] = active[b]
      /\ DOMAIN run' = Agents /\ DOMAIN active' = Agents
  BY <1>1, <1>2, Present DEF Reserve, Shape
<1> HIDE DEF v
<1>5. UNCHANGED <<log, flushed, lock, inbox, fork, sync, rewind, waits, recon, messages>>
  BY DEF Spawn, counters
<1>6. Good(log[a], flushed[a], Len(run[a]) + 1, Append(run[a], v), lock[a], inbox[a], "no", sync[a],
           0, messages)
  BY <1>1, <1>3, Present, FirstReserved
<1>7. Good(log'[a], flushed'[a], active'[a], run'[a], lock'[a], inbox'[a], fork'[a], sync'[a],
           0, messages')
  BY <1>1, <1>4, <1>5, <1>6
<1>8. Shape'
  BY <1>1, <1>4, <1>5, Present DEF Shape
<1>9. \A b \in Agents \ {a} : Kept(b)
  BY <1>4, <1>5 DEF Kept
<1>10. messages' \in messages..MaxMessages
  BY <1>1, <1>5, Present
<1> QED
  BY <1>1, <1>5, <1>7, <1>8, <1>9, <1>10, OneSteps

\* A fork that passes its check of the limit has registered nothing yet.
LEMMA StepForkChecked ==
  ASSUME IInv, NEW a \in Agents, ForkChecked(a)
  PROVE  IInv'
<1>1. Up /\ run[a] = <<>>
  BY DEF ForkChecked, RootCalls, Unused
<1>2. PICK delivery \in {"caller", "parent"} : fork' = [fork EXCEPT ![a] = delivery]
  BY DEF ForkChecked
<1>3. /\ fork'[a] = delivery /\ DOMAIN fork' = Agents
      /\ \A b \in Agents \ {a} : fork'[b] = fork[b]
  BY <1>1, <1>2, Present DEF Shape
<1>4. UNCHANGED <<log, flushed, active, run, lock, inbox, sync, rewind, waits, recon, messages>>
  BY DEF ForkChecked, counters
<1>5. Good(log[a], flushed[a], active[a], run[a], lock[a], inbox[a], delivery, sync[a], 0, messages)
  BY <1>1, Present DEF Good, Types, Registered
<1>6. Good(log'[a], flushed'[a], active'[a], run'[a], lock'[a], inbox'[a], fork'[a], sync'[a],
           0, messages')
  BY <1>3, <1>4, <1>5
<1>7. Shape'
  BY <1>1, <1>3, <1>4, Present DEF Shape
<1>8. \A b \in Agents \ {a} : Kept(b)
  BY <1>3, <1>4 DEF Kept
<1>9. messages' \in messages..MaxMessages
  BY <1>1, <1>4, Present
<1> QED
  BY <1>1, <1>4, <1>6, <1>7, <1>8, <1>9, OneSteps

\* A fork that goes on after its await registers its activation like a spawn.
LEMMA StepForkReserved ==
  ASSUME IInv, NEW a \in Agents, ForkReserved(a)
  PROVE  IInv'
<1>1. Up /\ fork[a] # "no"
  BY Live DEF ForkReserved
<1> DEFINE v == [at |-> "opening", by |-> Root, delivery |-> fork[a], aborted |-> FALSE, end |-> "none"]
<1>2. v \in Activation /\ v.at = "opening" /\ v.end = "none" /\ run[a] = <<>>
  <2>1. fork[a] \in {"caller", "parent"} /\ run[a] = <<>>
    BY <1>1, Present DEF Good, Types, Registered
  <2> QED
    BY <2>1 DEF Activation
<1>3. /\ run'[a] = Append(run[a], v) /\ active'[a] = Len(run[a]) + 1 /\ fork'[a] = "no"
      /\ \A b \in Agents \ {a} : run'[b] = run[b] /\ active'[b] = active[b] /\ fork'[b] = fork[b]
      /\ DOMAIN run' = Agents /\ DOMAIN active' = Agents /\ DOMAIN fork' = Agents
  BY <1>1, Present DEF ForkReserved, Reserve, Shape
<1> HIDE DEF v
<1>4. DOMAIN flushed' = Agents /\ \A b \in Agents : flushed'[b] = Len(log[b])
  BY <1>1, Present DEF ForkReserved, Flush, Shape
<1>5. UNCHANGED <<log, lock, inbox, sync, rewind, waits, recon, messages>>
  BY DEF ForkReserved, counters
<1>6. Good(log[a], Len(log[a]), Len(run[a]) + 1, Append(run[a], v), lock[a], inbox[a], "no", sync[a],
           0, messages)
  BY <1>1, <1>2, Present, FirstReserved
<1>7. Good(log'[a], flushed'[a], active'[a], run'[a], lock'[a], inbox'[a], fork'[a], sync'[a],
           0, messages')
  BY <1>3, <1>4, <1>5, <1>6
<1>8. Shape'
  BY <1>1, <1>3, <1>4, <1>5, Present DEF Shape
<1>9. \A b \in Agents \ {a} : Kept(b)
  BY <1>3, <1>4, <1>5 DEF Kept
<1>10. messages' \in messages..MaxMessages
  BY <1>1, <1>5, Present
<1> QED
  BY <1>1, <1>5, <1>7, <1>8, <1>9, <1>10, OneSteps

\* A transcript that does not open leaves nothing in the journal and nothing registered.
LEMMA StepOpenFails ==
  ASSUME IInv, NEW a \in Agents, OpenFails(a)
  PROVE  IInv'
<1>1. active[a] # 0
  BY DEF OpenFails, At
<1> DEFINE n == active[a]
           v == [run[a][n] EXCEPT !.at = "failed"]
<1>2. v \in Activation /\ v.at = "failed" /\ v.end = run[a][n].end
  BY <1>1, Current DEF Activation
<1>3. run' = [run EXCEPT ![a] = [run[a] EXCEPT ![n] = v]]
  BY <1>1, Current DEF OpenFails, Step, Shape
<1> HIDE DEF v
<1>4. /\ Changed(run[a], n, run'[a]) /\ run'[a][n] = v
      /\ DOMAIN run' = Agents /\ \A b \in Agents \ {a} : run'[b] = run[b]
  BY <1>1, <1>2, <1>3, RunSteps
<1>5. Good(log[a], flushed[a], 0, run'[a], IF n > 1 THEN Tail(lock[a]) ELSE lock[a],
           inbox[a], fork[a], sync[a], 0, messages)
  BY <1>1, <1>2, <1>4, Current, OpenFailsStep DEF OpenFails
<1>6. /\ lock'[a] = IF n > 1 THEN Tail(lock[a]) ELSE lock[a]
      /\ active'[a] = 0
      /\ \A b \in Agents \ {a} : lock'[b] = lock[b] /\ active'[b] = active[b]
      /\ DOMAIN lock' = Agents /\ DOMAIN active' = Agents
  BY <1>1, Current DEF OpenFails, Unlock, Shape
<1>7. UNCHANGED <<log, flushed, inbox, fork, sync, rewind, waits, recon, messages>>
  BY DEF OpenFails, counters
<1>8. Shape'
  BY <1>1, <1>4, <1>6, <1>7, Current DEF Shape
<1>9. \A b \in Agents \ {a} : Kept(b)
  BY <1>4, <1>6, <1>7 DEF Kept
<1>10. Good(log'[a], flushed'[a], active'[a], run'[a], lock'[a], inbox'[a], fork'[a], sync'[a],
            0, messages')
  BY <1>5, <1>6, <1>7
<1>11. Up /\ messages' \in messages..MaxMessages
  BY <1>1, <1>7, Current
<1> QED
  BY <1>7, <1>8, <1>9, <1>10, <1>11, OneSteps

\* A begun activation is in its first turn, or its stop is on the way to settle it.
LEMMA StepBegun ==
  ASSUME IInv, NEW a \in Agents, Begun(a)
  PROVE  IInv'
<1>1. active[a] # 0
  BY DEF Begun, At
<1> DEFINE n == active[a]
           v == [run[a][n] EXCEPT !.at = "turn", !.by = Root]
<1>2. /\ v \in Activation /\ v.at = "turn" /\ v.end = run[a][n].end
      /\ v.delivery = run[a][n].delivery
  BY <1>1, Current DEF Activation
<1>3. run' = [run EXCEPT ![a] = [run[a] EXCEPT ![n] = v]]
  BY <1>1, Current DEF Begun, Shape
<1> HIDE DEF v
<1>4. /\ Changed(run[a], n, run'[a]) /\ run'[a][n] = v
      /\ DOMAIN run' = Agents /\ \A b \in Agents \ {a} : run'[b] = run[b]
  BY <1>1, <1>2, <1>3, RunSteps
<1>5. Good(log[a], Len(log[a]), n, run'[a], IF n > 1 THEN Tail(lock[a]) ELSE lock[a],
           inbox[a], fork[a], IF n = 1 /\ run[a][1].delivery = "caller" THEN "waiting" ELSE sync[a],
           0, messages)
  <2>1. /\ Good(log[a], flushed[a], n, run[a], lock[a], inbox[a], fork[a], sync[a], 0, messages)
        /\ Place(n, run[a]) = "logged" /\ messages \in Nat
    BY <1>1, Current DEF Begun
  <2>2. /\ run'[a][n].at = "turn" /\ run'[a][n].end = run[a][n].end
        /\ run'[a][n].delivery = run[a][n].delivery
    BY <1>2, <1>4
  <2> HIDE DEF n
  <2> QED
    BY <1>4, <2>1, <2>2, BegunStep
<1>6. /\ lock'[a] = IF n > 1 THEN Tail(lock[a]) ELSE lock[a]
      /\ sync'[a] = IF n = 1 /\ run[a][1].delivery = "caller" THEN "waiting" ELSE sync[a]
      /\ \A b \in Agents \ {a} : lock'[b] = lock[b] /\ sync'[b] = sync[b]
      /\ DOMAIN lock' = Agents /\ DOMAIN sync' = Agents
  BY <1>1, Current DEF Begun, Unlock, Shape
<1>7. UNCHANGED <<log, active, inbox, fork, rewind, waits, recon, messages>>
  BY DEF Begun, counters
<1>8. DOMAIN flushed' = Agents /\ \A b \in Agents : flushed'[b] = Len(log[b])
  BY DEF Begun, Flush
<1>9. Shape'
  BY <1>1, <1>4, <1>6, <1>7, <1>8, Current DEF Shape
<1>10. \A b \in Agents \ {a} : Kept(b)
  BY <1>4, <1>6, <1>7, <1>8 DEF Kept
<1>11. Good(log'[a], flushed'[a], active'[a], run'[a], lock'[a], inbox'[a], fork'[a], sync'[a],
            0, messages')
  BY <1>5, <1>6, <1>7, <1>8
<1>12. Up /\ messages' \in messages..MaxMessages
  BY <1>1, <1>7, Current
<1> QED
  BY <1>7, <1>9, <1>10, <1>11, <1>12, OneSteps

\* A message to a known agent joins the queue of its lock.
LEMMA SendStep ==
  ASSUME NEW l, NEW f, NEW n, NEW r, NEW k, NEW x, NEW o, NEW y, NEW s \in Nat,
         Good(l, f, n, r, k, x, o, y, 0, s), Starts(l) # {}, NEW w \in Waiting, w[1] = "message"
  PROVE  Good(l, f, n, r, Append(k, w), x, o, y, 0, s + 1)
<1> DEFINE t == Append(k, w)
<1>1. k \in Seq(Waiting)
  BY Base
<1>2. /\ t \in Seq(Waiting) /\ Len(t) = Len(k) + 1 /\ Len(k) \in Nat
      /\ \A i \in 1..Len(k) : t[i] = k[i] /\ i \in 1..Len(t)
      /\ t[Len(k) + 1] = w /\ t # <<>> /\ Cardinality(Messages(k)) \in Nat
      /\ Cardinality(Messages(t)) = Cardinality(Messages(k)) + 1
  <2>1. /\ t \in Seq(Waiting) /\ Len(t) = Len(k) + 1 /\ Len(k) \in Nat
        /\ \A i \in 1..Len(k) : t[i] = k[i]
        /\ t[Len(k) + 1] = w /\ t # <<>> /\ Cardinality(Messages(k)) \in Nat
        /\ Cardinality(Messages(t)) = Cardinality(Messages(k)) + 1
    BY <1>1, Joined
  <2> HIDE DEF t
  <2> QED
    BY <2>1
<1> HIDE DEF t
<1>3. Types(l, f, n, r, t, x, o, y, 0)
  BY <1>2 DEF Good, Types
<1>4. Locked(l, n, r, t)
  <2>1. \A i \in 1..Len(t) : t[i][1] # "message" => i \in 1..Len(k) /\ t[i] = k[i]
    BY <1>2
  <2>2. k # <<>> => t[1] = k[1]
    <3>1. k # <<>> => 1 \in 1..Len(k)
      BY Base
    <3> QED
      BY <1>2, <3>1
  <2> QED
    BY <1>2, <2>1, <2>2 DEF Good, Locked
<1>5. Sent(n, r, t, x, s + 1)
  <2>1. /\ x \in Nat /\ x + Cardinality(Messages(k)) <= s
        /\ n > 1 /\ Place(n, r) = "opening" => x + Cardinality(Messages(k)) + 1 <= s
    BY SentIs
  <2>2. CASE n > 1 /\ Place(n, r) = "opening"
    <3>1. x + Cardinality(Messages(t)) + 1 <= s + 1
      BY <1>2, <2>1, <2>2
    <3> QED
      BY <2>2, <3>1 DEF Sent
  <2>3. CASE ~(n > 1 /\ Place(n, r) = "opening")
    <3>1. x + Cardinality(Messages(t)) + 0 <= s + 1
      BY <1>2, <2>1
    <3> QED
      BY <2>3, <3>1 DEF Sent
  <2> QED
    BY <2>2, <2>3
<1> QED
  BY <1>3, <1>4, <1>5 DEF Good, t

\* A message that is sent waits in the lock of the agent it is for.
LEMMA StepSend ==
  ASSUME IInv, NEW a \in Agents, NEW s \in Agents \cup {Root}, Send(s, a)
  PROVE  IInv'
<1>1. Up /\ Starts(log[a]) # {} /\ messages < MaxMessages /\ messages' = messages + 1
  <2>1. s # Root => Up
    BY Live DEF Send, MaySend, At
  <2> QED
    BY <2>1 DEF Send, MaySend, RootCalls, Known
<1> DEFINE w == <<"message", s>>
<1>2. w \in Waiting /\ w[1] = "message"
  BY DEF Waiting
<1>3. /\ lock'[a] = Append(lock[a], w) /\ DOMAIN lock' = Agents
      /\ \A b \in Agents \ {a} : lock'[b] = lock[b]
  BY <1>1, Present DEF Send, Shape
<1> HIDE DEF w
<1>4. UNCHANGED <<log, flushed, active, run, inbox, fork, sync, rewind, waits, recon>>
  BY DEF Send
<1>5. /\ Good(log[a], flushed[a], active[a], run[a], lock[a], inbox[a], fork[a], sync[a], 0, messages)
      /\ messages \in Nat
  BY <1>1, Present
<1>6. Good(log[a], flushed[a], active[a], run[a], Append(lock[a], w), inbox[a], fork[a], sync[a],
           0, messages + 1)
  BY <1>1, <1>2, <1>5, SendStep
<1>7. Good(log'[a], flushed'[a], active'[a], run'[a], lock'[a], inbox'[a], fork'[a], sync'[a],
           0, messages')
  BY <1>1, <1>3, <1>4, <1>6
<1>8. Shape'
  BY <1>1, <1>3, <1>4, Present DEF Shape
<1>9. \A b \in Agents \ {a} : Kept(b)
  BY <1>3, <1>4 DEF Kept
<1>10. messages' \in messages..MaxMessages
  BY <1>1, <1>5, SubagentAssumption
<1> QED
  BY <1>1, <1>4, <1>7, <1>8, <1>9, <1>10, OneSteps

\* A delivered message has an activation in whose turns it may still be read.
LEMMA StepDeliver ==
  ASSUME IInv, NEW a \in Agents, Deliver(a)
  PROVE  IInv'
<1>1. Up /\ lock[a] # <<>> /\ lock[a][1][1] = "message"
  BY Live DEF Deliver, Holds
<1>2. /\ Good(log[a], flushed[a], active[a], run[a], lock[a], inbox[a], fork[a], sync[a], 0, messages)
      /\ Place(active[a], run[a]) \in {"logged", "turn", "decide"} /\ messages \in Nat
  BY <1>1, Present DEF Deliver, TakesMessages
<1>3. Good(log[a], flushed[a], active[a], run[a], Tail(lock[a]), inbox[a] + 1, fork[a], sync[a],
           0, messages)
  BY <1>1, <1>2, DeliverStep
<1>4. /\ lock'[a] = Tail(lock[a]) /\ inbox'[a] = inbox[a] + 1
      /\ \A b \in Agents \ {a} : lock'[b] = lock[b] /\ inbox'[b] = inbox[b]
      /\ DOMAIN lock' = Agents /\ DOMAIN inbox' = Agents
  BY <1>1, Present DEF Deliver, Unlock, Shape
<1>5. UNCHANGED <<log, flushed, active, run, fork, sync, rewind, waits, recon, messages>>
  BY DEF Deliver, counters
<1>6. Good(log'[a], flushed'[a], active'[a], run'[a], lock'[a], inbox'[a], fork'[a], sync'[a],
           0, messages')
  BY <1>3, <1>4, <1>5
<1>7. Shape'
  BY <1>1, <1>4, <1>5, Present DEF Shape
<1>8. \A b \in Agents \ {a} : Kept(b)
  BY <1>4, <1>5 DEF Kept
<1>9. messages' \in messages..MaxMessages
  BY <1>1, <1>5, Present
<1> QED
  BY <1>1, <1>5, <1>6, <1>7, <1>8, <1>9, OneSteps

\* A message to a settled agent opens the next activation behind all that are settled.
LEMMA StepContinue ==
  ASSUME IInv, NEW a \in Agents, Continue(a)
  PROVE  IInv'
<1>1. Up /\ lock[a] # <<>> /\ lock[a][1][1] = "message"
  BY Live DEF Continue, Holds
<1>2. /\ Good(log[a], flushed[a], active[a], run[a], lock[a], inbox[a], fork[a], sync[a], 0, messages)
      /\ Place(active[a], run[a]) \notin {"logged", "turn", "decide"} /\ messages \in Nat
      /\ lock[a] \in Seq(Waiting) /\ DOMAIN lock = Agents /\ DOMAIN run = Agents
      /\ DOMAIN active = Agents
  BY <1>1, Present DEF Continue, TakesMessages, Shape
<1>3. UNCHANGED <<log, flushed, inbox, fork, sync, rewind, waits, recon, messages>>
  BY DEF Continue, counters
<1>4. /\ Good(log[a], flushed[a], active'[a], run'[a], lock'[a], inbox[a], fork[a], sync[a], 0, messages)
      /\ \A b \in Agents \ {a} : lock'[b] = lock[b] /\ run'[b] = run[b] /\ active'[b] = active[b]
      /\ DOMAIN lock' = Agents /\ DOMAIN run' = Agents /\ DOMAIN active' = Agents
  <2>1. CASE Running < Limit
    <3> DEFINE by == lock[a][1][2]
               v == [at |-> "opening", by |-> by, delivery |-> "parent", aborted |-> FALSE, end |-> "none"]
               t == [lock[a] EXCEPT ![1] = <<"continue", by>>]
    <3>1. 1 \in 1..Len(lock[a]) /\ lock[a][1] \in Waiting /\ Len(lock[a]) \in Nat
      BY <1>1, <1>2, Base
    <3>2. by \in Agents \cup {Root} /\ lock[a][1] = <<lock[a][1][1], by>>
      BY <3>1 DEF Waiting
    <3>3. v \in Activation /\ v.at = "opening" /\ v.end = "none"
      BY <3>2 DEF Activation
    <3>4. <<"continue", by>> \in Waiting
      BY <3>2 DEF Waiting
    <3>5. /\ t \in Seq(Waiting) /\ Len(t) = Len(lock[a]) /\ t[1][1] = "continue"
          /\ \A i \in 1..Len(lock[a]) : i # 1 => t[i] = lock[a][i]
      <4>1. lock[a] \in [1..Len(lock[a]) -> Waiting]
        BY <1>2
      <4>2. t \in [1..Len(lock[a]) -> Waiting]
        BY <3>4, <4>1
      <4>3. t \in Seq(Waiting) /\ Len(t) = Len(lock[a])
        BY <3>1, <4>2, SeqDef
      <4> QED
        BY <3>1, <4>1, <4>3
    <3>6. lock'[a] = t
      <4>1. lock'[a] = [lock[a] EXCEPT ![1] = [lock[a][1] EXCEPT ![1] = "continue"]]
        BY <1>2, <2>1 DEF Continue
      <4>2. [lock[a][1] EXCEPT ![1] = "continue"] = <<"continue", by>>
        BY <3>2
      <4> QED
        BY <4>1, <4>2
    <3>7. /\ run'[a] = Append(run[a], v) /\ active'[a] = Len(run[a]) + 1
          /\ \A b \in Agents \ {a} : lock'[b] = lock[b] /\ run'[b] = run[b] /\ active'[b] = active[b]
          /\ DOMAIN lock' = Agents /\ DOMAIN run' = Agents /\ DOMAIN active' = Agents
      BY <1>2, <2>1 DEF Continue, Reserve
    <3> HIDE DEF t, v
    <3>8. Good(log[a], flushed[a], Len(run[a]) + 1, Append(run[a], v), t, inbox[a], fork[a], sync[a],
               0, messages)
      BY <1>1, <1>2, <3>3, <3>5, ContinueStep
    <3> QED
      BY <3>6, <3>7, <3>8
  <2>2. CASE ~(Running < Limit)
    <3>1. /\ lock'[a] = Tail(lock[a]) /\ run' = run /\ active' = active
          /\ DOMAIN lock' = Agents /\ \A b \in Agents \ {a} : lock'[b] = lock[b]
      BY <1>2, <2>2 DEF Continue, Unlock
    <3>2. Good(log[a], flushed[a], active[a], run[a], Tail(lock[a]), inbox[a], fork[a], sync[a],
               0, messages)
      BY <1>1, <1>2, RefuseStep
    <3> QED
      BY <1>2, <3>1, <3>2
  <2> QED
    BY <2>1, <2>2
<1>5. Good(log'[a], flushed'[a], active'[a], run'[a], lock'[a], inbox'[a], fork'[a], sync'[a],
           0, messages')
  BY <1>3, <1>4
<1>6. Shape'
  BY <1>1, <1>3, <1>4, Present DEF Shape
<1>7. \A b \in Agents \ {a} : Kept(b)
  BY <1>3, <1>4 DEF Kept
<1>8. messages' \in messages..MaxMessages
  BY <1>1, <1>3, Present
<1> QED
  BY <1>1, <1>3, <1>5, <1>6, <1>7, <1>8, OneSteps

\* A turn that claims the inbox leaves no message behind.
LEMMA StepClaim ==
  ASSUME IInv, NEW a \in Agents, Claim(a)
  PROVE  IInv'
<1>1. active[a] # 0
  BY DEF Claim, At
<1>2. Good(log[a], flushed[a], active[a], run[a], lock[a], 0, fork[a], sync[a], 0, messages)
  BY <1>1, Current, ClaimStep DEF Claim
<1>3. inbox'[a] = 0 /\ DOMAIN inbox' = Agents /\ \A b \in Agents \ {a} : inbox'[b] = inbox[b]
  BY <1>1, Current DEF Claim, Shape
<1>4. UNCHANGED <<log, flushed, active, run, lock, fork, sync, rewind, waits, recon, messages>>
  BY DEF Claim, counters, mem
<1>5. Good(log'[a], flushed'[a], active'[a], run'[a], lock'[a], inbox'[a], fork'[a], sync'[a],
           0, messages')
  BY <1>2, <1>3, <1>4
<1>6. Shape'
  BY <1>1, <1>3, <1>4, Current DEF Shape
<1>7. \A b \in Agents \ {a} : Kept(b)
  BY <1>3, <1>4 DEF Kept
<1>8. Up /\ messages' \in messages..MaxMessages
  BY <1>1, <1>4, Current
<1> QED
  BY <1>4, <1>5, <1>6, <1>7, <1>8, OneSteps

\* The end of a turn puts the decision about the next one into the lock's queue.
LEMMA StepEndTurn ==
  ASSUME IInv, NEW a \in Agents, EndTurn(a)
  PROVE  IInv'
<1>1. active[a] # 0
  BY DEF EndTurn, At
<1> DEFINE n == active[a]
<1>2. PICK end \in {"completed", "failed"} :
        run' = [run EXCEPT ![a][n].at = "decide", ![a][n].end = end]
  BY DEF EndTurn
<1> DEFINE v == [run[a][n] EXCEPT !.at = "decide", !.end = end]
           w == <<"decide", a>>
<1>3. v \in Activation /\ v.at = "decide" /\ v.delivery = run[a][n].delivery
  BY <1>1, Current DEF Activation
<1>4. run' = [run EXCEPT ![a] = [run[a] EXCEPT ![n] = v]]
  BY <1>1, <1>2, Current DEF Shape
<1>5. w \in Waiting /\ w[1] = "decide"
  BY DEF Waiting
<1>6. /\ lock'[a] = Append(lock[a], w) /\ DOMAIN lock' = Agents
      /\ \A b \in Agents \ {a} : lock'[b] = lock[b]
  BY <1>1, Current DEF EndTurn, Shape
<1> HIDE DEF v, w
<1>7. /\ Changed(run[a], n, run'[a]) /\ run'[a][n] = v
      /\ DOMAIN run' = Agents /\ \A b \in Agents \ {a} : run'[b] = run[b]
  BY <1>1, <1>3, <1>4, RunSteps
<1>8. Good(log[a], flushed[a], n, run'[a], Append(lock[a], w), inbox[a], fork[a], sync[a], 0, messages)
  <2>1. /\ Good(log[a], flushed[a], n, run[a], lock[a], inbox[a], fork[a], sync[a], 0, messages)
        /\ Place(n, run[a]) = "turn" /\ messages \in Nat
    BY <1>1, Current DEF EndTurn
  <2>2. run'[a][n].at = "decide" /\ run'[a][n].delivery = run[a][n].delivery
    BY <1>3, <1>7
  <2> HIDE DEF n
  <2> QED
    BY <1>5, <1>7, <2>1, <2>2, EndTurnStep
<1>9. UNCHANGED <<log, flushed, active, inbox, fork, sync, rewind, waits, recon, messages>>
  BY DEF EndTurn, counters
<1>10. Shape'
  BY <1>1, <1>6, <1>7, <1>9, Current DEF Shape
<1>11. \A b \in Agents \ {a} : Kept(b)
  BY <1>6, <1>7, <1>9 DEF Kept
<1>12. Good(log'[a], flushed'[a], active'[a], run'[a], lock'[a], inbox'[a], fork'[a], sync'[a],
            0, messages')
  BY <1>6, <1>8, <1>9
<1>13. Up /\ messages' \in messages..MaxMessages
  BY <1>1, <1>9, Current
<1> QED
  BY <1>9, <1>10, <1>11, <1>12, <1>13, OneSteps

\* The decision under the lock: another turn while a message waits, the settlement
\* otherwise.
LEMMA StepDecide ==
  ASSUME IInv, NEW a \in Agents, Decide(a)
  PROVE  IInv'
<1>1. active[a] # 0
  BY DEF Decide, At
<1> DEFINE n == active[a]
<1>2. /\ Good(log[a], flushed[a], n, run[a], lock[a], inbox[a], fork[a], sync[a], 0, messages)
      /\ Place(n, run[a]) = "decide" /\ messages \in Nat
      /\ lock[a] # <<>> /\ lock[a][1][1] = "decide"
  BY <1>1, Current DEF Decide, Holds
<1>3. UNCHANGED <<log, flushed, active, inbox, fork, sync, rewind, waits, recon, messages>>
  BY DEF Decide, counters
<1>4. /\ Good(log[a], flushed[a], n, run'[a], lock'[a], inbox[a], fork[a], sync[a], 0, messages)
      /\ \A b \in Agents \ {a} : run'[b] = run[b] /\ lock'[b] = lock[b]
      /\ DOMAIN run' = Agents /\ DOMAIN lock' = Agents
  <2>1. CASE Again(a)
    <3> DEFINE v == [run[a][n] EXCEPT !.at = "turn"]
    <3>1. v \in Activation /\ v.at = "turn" /\ v.delivery = run[a][n].delivery
      BY <1>1, Current DEF Activation
    <3>2. run' = [run EXCEPT ![a] = [run[a] EXCEPT ![n] = v]]
      BY <1>1, <2>1, Current DEF Decide, Step, Shape
    <3> HIDE DEF v
    <3>3. /\ Changed(run[a], n, run'[a]) /\ run'[a][n] = v
          /\ DOMAIN run' = Agents /\ \A b \in Agents \ {a} : run'[b] = run[b]
      BY <1>1, <3>1, <3>2, RunSteps
    <3>4. /\ lock'[a] = Tail(lock[a]) /\ DOMAIN lock' = Agents
          /\ \A b \in Agents \ {a} : lock'[b] = lock[b]
      BY <1>1, <2>1, Current DEF Decide, Unlock, Shape
    <3>5. run'[a][n].at = "turn" /\ run'[a][n].delivery = run[a][n].delivery
      BY <3>1, <3>3
    <3> HIDE DEF n
    <3>6. Good(log[a], flushed[a], n, run'[a], Tail(lock[a]), inbox[a], fork[a], sync[a], 0, messages)
      BY <1>2, <3>3, <3>5, AgainStep
    <3> QED
      BY <3>3, <3>4, <3>6
  <2>2. CASE ~Again(a)
    <3> DEFINE v == Final(run[a][n])
    <3>1. /\ v \in Activation /\ v.at = "settling" /\ v.delivery = run[a][n].delivery
          /\ v.end = "completed" => run[a][n].end = "completed" /\ ~run[a][n].aborted
      <4> DEFINE g == run[a][n]
      <4>1. g \in Activation
        BY <1>1, Current
      <4> HIDE DEF g
      <4>2. /\ Final(g) \in Activation /\ Final(g).at = "settling" /\ Final(g).delivery = g.delivery
            /\ Final(g).end = "completed" => g.end = "completed" /\ ~g.aborted
        BY <4>1 DEF Activation, Final
      <4> QED
        BY <4>2 DEF g
    <3>2. run' = [run EXCEPT ![a] = [run[a] EXCEPT ![n] = v]] /\ lock' = lock
      BY <1>1, <2>2, Current DEF Decide, Shape
    <3> HIDE DEF v
    <3>3. /\ Changed(run[a], n, run'[a]) /\ run'[a][n] = v
          /\ DOMAIN run' = Agents /\ \A b \in Agents \ {a} : run'[b] = run[b]
      BY <1>1, <3>1, <3>2, RunSteps
    <3>4. v.end = "completed" => inbox[a] = 0
      <4>1. inbox[a] \in Nat
        BY <1>2 DEF Good, Types
      <4>2. v.end = "completed" => ~(inbox[a] > 0)
        BY <2>2, <3>1 DEF Again
      <4> QED
        BY <4>1, <4>2
    <3>5. /\ run'[a][n].at = "settling" /\ run'[a][n].delivery = run[a][n].delivery
          /\ run'[a][n].end = "completed" => inbox[a] = 0
      BY <3>1, <3>3, <3>4
    <3> HIDE DEF n
    <3>6. Good(log[a], flushed[a], n, run'[a], lock[a], inbox[a], fork[a], sync[a], 0, messages)
      BY <1>2, <3>3, <3>5, SettleStep
    <3>7. DOMAIN lock = Agents
      BY DEF IInv, Shape
    <3> QED
      BY <3>2, <3>3, <3>6, <3>7
  <2> QED
    BY <2>1, <2>2
<1>5. Shape'
  BY <1>1, <1>3, <1>4, Current DEF Shape
<1>6. \A b \in Agents \ {a} : Kept(b)
  BY <1>3, <1>4 DEF Kept
<1>7. Good(log'[a], flushed'[a], active'[a], run'[a], lock'[a], inbox'[a], fork'[a], sync'[a],
           0, messages')
  BY <1>3, <1>4
<1>8. Up /\ messages' \in messages..MaxMessages
  BY <1>1, <1>3, Current
<1> QED
  BY <1>3, <1>5, <1>6, <1>7, <1>8, OneSteps

\* The one settlement of an activation is written while it holds the lock.
LEMMA StepRecord ==
  ASSUME IInv, NEW a \in Agents, Record(a)
  PROVE  IInv'
<1>1. active[a] # 0
  BY DEF Record, At
<1> DEFINE n == active[a]
           v == [run[a][n] EXCEPT !.at = "recorded"]
           h == Append(log[a], <<Outcome(run[a][n].delivery), n>>)
<1>2. /\ v \in Activation /\ v.at = "recorded" /\ v.end = run[a][n].end
      /\ v.delivery = run[a][n].delivery
  BY <1>1, Current DEF Activation
<1>3. run' = [run EXCEPT ![a] = [run[a] EXCEPT ![n] = v]]
  BY <1>1, Current DEF Record, Step, Shape
<1> HIDE DEF v
<1>4. /\ Changed(run[a], n, run'[a]) /\ run'[a][n] = v
      /\ DOMAIN run' = Agents /\ \A b \in Agents \ {a} : run'[b] = run[b]
  BY <1>1, <1>2, <1>3, RunSteps
<1>5. Good(h, flushed[a], n, run'[a], lock[a], inbox[a], fork[a], sync[a], 0, messages)
  <2>1. /\ Good(log[a], flushed[a], n, run[a], lock[a], inbox[a], fork[a], sync[a], 0, messages)
        /\ Place(n, run[a]) = "settling" /\ messages \in Nat
    BY <1>1, Current DEF Record
  <2>2. /\ run'[a][n].at = "recorded" /\ run'[a][n].end = run[a][n].end
        /\ run'[a][n].delivery = run[a][n].delivery
    BY <1>2, <1>4
  <2> HIDE DEF n
  <2> QED
    BY <1>4, <2>1, <2>2, RecordStep
<1>6. /\ log'[a] = h /\ DOMAIN log' = Agents
      /\ \A b \in Agents \ {a} : log'[b] = log[b]
  BY <1>1, Current DEF Record, Write, Shape
<1> HIDE DEF h
<1>7. UNCHANGED <<flushed, active, lock, inbox, fork, sync, rewind, waits, recon, messages>>
  BY DEF Record, counters
<1>8. Shape'
  BY <1>1, <1>4, <1>6, <1>7, Current DEF Shape
<1>9. \A b \in Agents \ {a} : Kept(b)
  BY <1>4, <1>6, <1>7 DEF Kept
<1>10. Good(log'[a], flushed'[a], active'[a], run'[a], lock'[a], inbox'[a], fork'[a], sync'[a],
            0, messages')
  BY <1>5, <1>6, <1>7
<1>11. Up /\ messages' \in messages..MaxMessages
  BY <1>1, <1>7, Current
<1> QED
  BY <1>7, <1>8, <1>9, <1>10, <1>11, OneSteps

\* The one notice of an activation, if its settlement asks for it, is written behind it.
LEMMA StepNotify ==
  ASSUME IInv, NEW a \in Agents, Notify(a)
  PROVE  IInv'
<1>1. active[a] # 0
  BY DEF Notify, At
<1> DEFINE n == active[a]
           v == [run[a][n] EXCEPT !.at = "noticed"]
           h == IF <<"notified", n>> \in Logged(log[a]) THEN Append(log[a], <<"notice", n>>) ELSE log[a]
<1>2. /\ v \in Activation /\ v.at = "noticed" /\ v.end = run[a][n].end
      /\ v.delivery = run[a][n].delivery
  BY <1>1, Current DEF Activation
<1>3. run' = [run EXCEPT ![a] = [run[a] EXCEPT ![n] = v]]
  BY <1>1, Current DEF Notify, Step, Shape
<1> HIDE DEF v
<1>4. /\ Changed(run[a], n, run'[a]) /\ run'[a][n] = v
      /\ DOMAIN run' = Agents /\ \A b \in Agents \ {a} : run'[b] = run[b]
  BY <1>1, <1>2, <1>3, RunSteps
<1>5. Good(h, flushed[a], n, run'[a], lock[a], inbox[a], fork[a], sync[a], 0, messages)
  <2>1. /\ Good(log[a], flushed[a], n, run[a], lock[a], inbox[a], fork[a], sync[a], 0, messages)
        /\ Place(n, run[a]) = "recorded" /\ messages \in Nat
    BY <1>1, Current DEF Notify
  <2>2. /\ run'[a][n].at = "noticed" /\ run'[a][n].end = run[a][n].end
        /\ run'[a][n].delivery = run[a][n].delivery
    BY <1>2, <1>4
  <2>3. h = IF <<"notified", n>> \in Logged(log[a]) THEN Append(log[a], <<"notice", n>>) ELSE log[a]
    OBVIOUS
  <2> HIDE DEF n, h
  <2> QED
    BY <1>4, <2>1, <2>2, <2>3, NotifyStep
<1>6. /\ log'[a] = h /\ DOMAIN log' = Agents
      /\ \A b \in Agents \ {a} : log'[b] = log[b]
  BY <1>1, Current DEF Notify, Write, Shape
<1> HIDE DEF h
<1>7. UNCHANGED <<flushed, active, lock, inbox, fork, sync, rewind, waits, recon, messages>>
  BY DEF Notify, counters
<1>8. Shape'
  BY <1>1, <1>4, <1>6, <1>7, Current DEF Shape
<1>9. \A b \in Agents \ {a} : Kept(b)
  BY <1>4, <1>6, <1>7 DEF Kept
<1>10. Good(log'[a], flushed'[a], active'[a], run'[a], lock'[a], inbox'[a], fork'[a], sync'[a],
            0, messages')
  BY <1>5, <1>6, <1>7
<1>11. Up /\ messages' \in messages..MaxMessages
  BY <1>1, <1>7, Current
<1> QED
  BY <1>7, <1>8, <1>9, <1>10, <1>11, OneSteps

\* An activation that is closed is settled in the journal, and nothing is registered any
\* more.
LEMMA StepClose ==
  ASSUME IInv, NEW a \in Agents, Close(a)
  PROVE  IInv'
<1>1. active[a] # 0
  BY DEF Close, At
<1> DEFINE n == active[a]
           v == Past(run[a][n])
<1>2. v \in Activation /\ v.at = "over" /\ v.end = run[a][n].end
  BY <1>1, Current DEF Activation, Past
<1>3. run' = [run EXCEPT ![a] = [run[a] EXCEPT ![n] = v]]
  BY <1>1, Current DEF Close, Shape
<1> HIDE DEF v
<1>4. /\ Changed(run[a], n, run'[a]) /\ run'[a][n] = v
      /\ DOMAIN run' = Agents /\ \A b \in Agents \ {a} : run'[b] = run[b]
  BY <1>1, <1>2, <1>3, RunSteps
<1>5. Good(log[a], Len(log[a]), 0, run'[a], Tail(lock[a]), inbox[a], fork[a],
           IF n = 1 /\ sync[a] = "waiting" THEN "result" ELSE sync[a], 0, messages)
  <2>1. /\ Good(log[a], flushed[a], n, run[a], lock[a], inbox[a], fork[a], sync[a], 0, messages)
        /\ Place(n, run[a]) = "noticed" /\ messages \in Nat
    BY <1>1, Current DEF Close
  <2>2. run'[a][n].at = "over" /\ run'[a][n].end = run[a][n].end
    BY <1>2, <1>4
  <2> HIDE DEF n
  <2> QED
    BY <1>4, <2>1, <2>2, CloseStep
<1>6. /\ lock'[a] = Tail(lock[a]) /\ active'[a] = 0
      /\ sync'[a] = IF n = 1 /\ sync[a] = "waiting" THEN "result" ELSE sync[a]
      /\ \A b \in Agents \ {a} : lock'[b] = lock[b] /\ active'[b] = active[b] /\ sync'[b] = sync[b]
      /\ DOMAIN lock' = Agents /\ DOMAIN active' = Agents /\ DOMAIN sync' = Agents
  BY <1>1, Current DEF Close, Unlock, Shape
<1>7. UNCHANGED <<log, inbox, fork, rewind, recon, messages>> /\ waits' \subseteq waits
  BY DEF Close, counters
<1>8. DOMAIN flushed' = Agents /\ \A b \in Agents : flushed'[b] = Len(log[b])
  BY DEF Close, Flush
<1>9. Shape'
  BY <1>1, <1>4, <1>6, <1>7, <1>8, Current DEF Shape
<1>10. \A b \in Agents \ {a} : Kept(b)
  BY <1>4, <1>6, <1>7, <1>8 DEF Kept
<1>11. Good(log'[a], flushed'[a], active'[a], run'[a], lock'[a], inbox'[a], fork'[a], sync'[a],
            0, messages')
  BY <1>5, <1>6, <1>7, <1>8
<1>12. Up /\ messages' \in messages..MaxMessages
  BY <1>1, <1>7, Current
<1> QED
  BY <1>7, <1>9, <1>10, <1>11, <1>12, OneSteps

\* A call that moves to the background has not had the result and will not get it.
LEMMA StepTimer ==
  ASSUME IInv, NEW a \in Agents, Timer(a)
  PROVE  IInv'
<1>1. Up /\ sync[a] = "waiting"
  BY Live DEF Timer, MayMove
<1>2. active[a] = 1
  BY <1>1, Present DEF Good, Synchronous
<1> DEFINE v == [run[a][1] EXCEPT !.delivery = "parent"]
<1>3. /\ v \in Activation /\ v.at = run[a][1].at /\ v.end = run[a][1].end
      /\ v.delivery = "parent"
  BY <1>2, Current DEF Activation
<1>4. run' = [run EXCEPT ![a] = [run[a] EXCEPT ![active[a]] = v]]
  BY <1>2, Current DEF Timer, Shape
<1> HIDE DEF v
<1>5. /\ Changed(run[a], active[a], run'[a]) /\ run'[a][1] = v
      /\ DOMAIN run' = Agents /\ \A b \in Agents \ {a} : run'[b] = run[b]
  <2>1. active[a] # 0
    BY <1>2
  <2>2. /\ Changed(run[a], active[a], run'[a]) /\ run'[a][active[a]] = v
        /\ DOMAIN run' = Agents /\ \A b \in Agents \ {a} : run'[b] = run[b]
    BY <1>3, <1>4, <2>1, RunSteps
  <2> QED
    BY <1>2, <2>2
<1>6. Good(log[a], flushed[a], active[a], run'[a], lock[a], inbox[a], fork[a], "moved", 0, messages)
  <2>1. /\ Good(log[a], flushed[a], active[a], run[a], lock[a], inbox[a], fork[a], sync[a], 0, messages)
        /\ Place(active[a], run[a]) \notin Ending /\ messages \in Nat /\ run[a] # <<>>
        /\ Place(active[a], run[a]) = run[a][1].at
    BY <1>2, Current DEF Timer, MayMove, Settling, Ending
  <2>2. Place(active[a], run[a]) \in {"turn", "decide"}
    BY <1>1, <2>1 DEF Good, Synchronous
  <2>3. <<"returned", 1>> \notin Logged(log[a])
    <3>1. 1 \in OpenIn(log[a])
      BY <1>2, <2>1, <2>2 DEF Good, Journal
    <3> QED
      BY <3>1 DEF OpenIn, Settles
  <2>4. run'[a] # <<>>
    <3>1. Len(run'[a]) = Len(run[a]) /\ Len(run[a]) # 0
      BY <1>2, <1>5, Current DEF Changed
    <3> QED
      BY <3>1
  <2>5. Synchronous(log[a], active[a], run'[a], "moved")
    BY <1>2, <1>3, <1>5, <2>3, <2>4 DEF Synchronous
  <2>6. run'[a][active[a]].at = run[a][active[a]].at /\ run'[a][active[a]].end = run[a][active[a]].end
    BY <1>2, <1>3, <1>5
  <2>7. active[a] # 0
    BY <1>2
  <2> QED
    BY <1>5, <2>1, <2>5, <2>6, <2>7, RelabelledStep
<1>7. sync'[a] = "moved" /\ DOMAIN sync' = Agents /\ \A b \in Agents \ {a} : sync'[b] = sync[b]
  BY <1>1, Present DEF Timer, Shape
<1>8. UNCHANGED <<log, flushed, active, lock, inbox, fork, rewind, waits, recon, messages>>
  BY DEF Timer, counters
<1>9. Good(log'[a], flushed'[a], active'[a], run'[a], lock'[a], inbox'[a], fork'[a], sync'[a],
           0, messages')
  BY <1>6, <1>7, <1>8
<1>10. Shape'
  BY <1>1, <1>5, <1>7, <1>8, Present DEF Shape
<1>11. \A b \in Agents \ {a} : Kept(b)
  BY <1>5, <1>7, <1>8 DEF Kept
<1>12. messages' \in messages..MaxMessages
  BY <1>1, <1>8, Present
<1> QED
  BY <1>1, <1>8, <1>9, <1>10, <1>11, <1>12, OneSteps

\* An interrupt ends a turn, and the registered activation stays the open one.
LEMMA StepInterrupt ==
  ASSUME IInv, NEW a \in Agents, Interrupt(a)
  PROVE  IInv'
<1>1. active[a] # 0
  BY DEF Interrupt, At
<1> DEFINE n == active[a]
           v == [run[a][n] EXCEPT !.aborted = TRUE]
<1>2. /\ v \in Activation /\ v.at = run[a][n].at /\ v.end = run[a][n].end
      /\ v.delivery = run[a][n].delivery
  BY <1>1, Current DEF Activation
<1>3. run' = [run EXCEPT ![a] = [run[a] EXCEPT ![n] = v]]
  BY <1>1, Current DEF Interrupt, Shape
<1> HIDE DEF v
<1>4. /\ Changed(run[a], n, run'[a]) /\ run'[a][n] = v
      /\ DOMAIN run' = Agents /\ \A b \in Agents \ {a} : run'[b] = run[b]
  BY <1>1, <1>2, <1>3, RunSteps
<1>5. Good(log[a], flushed[a], n, run'[a], lock[a], inbox[a], fork[a], sync[a], 0, messages)
  <2>1. /\ Good(log[a], flushed[a], n, run[a], lock[a], inbox[a], fork[a], sync[a], 0, messages)
        /\ Place(n, run[a]) \notin Ending /\ messages \in Nat /\ n # 0 /\ n \in 1..Len(run[a])
    BY <1>1, Current DEF Interrupt, Ending
  <2>2. run'[a][n].at = run[a][n].at /\ run'[a][n].end = run[a][n].end
    BY <1>2, <1>4
  <2>3. Place(n, run'[a]) = Place(n, run[a]) /\ run'[a] # <<>>
    BY <1>4, <2>1, <2>2 DEF Place, Changed
  <2>4. n = 1 => run'[a][1].delivery = run[a][1].delivery
    BY <1>2, <1>4
  <2>5. Synchronous(log[a], n, run'[a], sync[a]) /\ sync[a] \in {"no", "waiting", "moved", "result"}
    <3> HIDE DEF n
    <3> QED
      BY <2>1, <2>3, <2>4 DEF Good, Synchronous, Types
  <2> HIDE DEF n
  <2> QED
    BY <1>4, <2>1, <2>2, <2>5, RelabelledStep
<1>6. UNCHANGED <<log, flushed, active, lock, inbox, fork, sync, rewind, waits, recon, messages>>
  BY DEF Interrupt, counters
<1>7. Shape'
  BY <1>1, <1>4, <1>6, Current DEF Shape
<1>8. \A b \in Agents \ {a} : Kept(b)
  BY <1>4, <1>6 DEF Kept
<1>9. Good(log'[a], flushed'[a], active'[a], run'[a], lock'[a], inbox'[a], fork'[a], sync'[a],
            0, messages')
  BY <1>5, <1>6
<1>10. Up /\ messages' \in messages..MaxMessages
  BY <1>1, <1>6, Current
<1> QED
  BY <1>6, <1>7, <1>8, <1>9, <1>10, OneSteps

\* stopAll drops every activation that does not settle yet; no call waits for one.
LEMMA StepStopAll ==
  ASSUME IInv, StopAll
  PROVE  IInv'
<1>1. Up /\ \A a \in Agents : sync[a] # "waiting"
  BY DEF StopAll, RootCalls, InCall
<1>2. /\ UNCHANGED <<log, flushed, active, lock, inbox, fork, sync, recon, messages>>
      /\ rewind' = "stopping"
  BY DEF StopAll
<1>3. ASSUME NEW a \in Agents PROVE AgentOK(a)'
  <2> DEFINE n == active[a]
  <2>1. /\ Good(log[a], flushed[a], n, run[a], lock[a], inbox[a], fork[a], sync[a], 0, messages)
        /\ messages \in Nat /\ recon[a] = 0
    BY <1>1, Present DEF Up
  <2>2. Good(log[a], flushed[a], n, run'[a], lock[a], inbox[a], fork[a], sync[a], 0, messages)
    <3>1. CASE active[a] = 0 \/ Settling(a)
      <4>1. run'[a] = run[a]
        BY <3>1 DEF StopAll
      <4> QED
        BY <2>1, <4>1
    <3>2. CASE ~(active[a] = 0 \/ Settling(a))
      <4> DEFINE v == [run[a][n] EXCEPT !.aborted = TRUE, !.delivery = "dropped"]
                 q == [run[a] EXCEPT ![n] = v]
      <4>1. /\ v \in Activation /\ v.at = run[a][n].at /\ v.end = run[a][n].end
            /\ v.delivery = "dropped"
        BY <3>2, Current DEF Activation
      <4>2. run[a] \in Seq(Activation) /\ n \in 1..Len(run[a]) /\ n # 0
        BY <3>2, Current
      <4>3. run'[a] = q
        BY <3>2, <4>2 DEF StopAll
      <4>4. Changed(run[a], n, q) /\ q[n] = v
        BY <4>1, <4>2, Updated
      <4> HIDE DEF v, q
      <4>5. q[n].at = run[a][n].at /\ q[n].end = run[a][n].end /\ q[n].delivery = "dropped"
        BY <4>1, <4>4
      <4>6. Place(n, run[a]) \notin Ending
        BY <3>2, Current DEF Settling, Ending
      <4>7. q # <<>>
        BY <4>2, <4>4 DEF Changed
      <4> HIDE DEF n
      <4>8. Synchronous(log[a], n, q, sync[a]) /\ sync[a] \in {"no", "waiting", "moved", "result"}
        BY <1>1, <2>1, <4>5, <4>7 DEF Good, Synchronous, Types
      <4>9. Good(log[a], flushed[a], n, q, lock[a], inbox[a], fork[a], sync[a], 0, messages)
        BY <2>1, <4>2, <4>4, <4>5, <4>6, <4>8, RelabelledStep
      <4> QED
        BY <4>3, <4>9
    <3> QED
      BY <3>1, <3>2
  <2> QED
    BY <1>2, <2>1, <2>2 DEF AgentOK
<1>4. Shape'
  <2>1. DOMAIN run' = Agents
    BY DEF StopAll
  <2> QED
    BY <1>2, <2>1 DEF IInv, Shape
<1>5. Common'
  BY <1>2 DEF IInv, Common
<1>6. Recovering'
  <2>1. Up'
    BY <1>1, <1>2 DEF Up
  <2> QED
    BY <2>1 DEF Recovering
<1> QED
  BY <1>3, <1>4, <1>5, <1>6 DEF IInv

\* Once every agent has stopped nothing runs, and the rewind may take over.
LEMMA StepStoppedAll ==
  ASSUME IInv, StoppedAll
  PROVE  IInv'
<1>1. /\ UNCHANGED <<log, flushed, active, run, lock, fork, sync, inbox, waits, recon, messages>>
      /\ rewind = "stopping" /\ rewind' = "stopped" /\ waits = {}
  BY DEF StoppedAll, mem, counters
<1>2. \A a \in Agents : AgentOK(a)'
  BY <1>1 DEF IInv, AgentOK
<1>3. Shape' /\ Common'
  BY <1>1 DEF IInv, Shape, Common
<1>4. Recovering'
  <2>1. Up
    BY <1>1 DEF IInv, Recovering
  <2>2. Up'
    BY <1>1, <2>1 DEF Up
  <2> QED
    BY <2>2 DEF Recovering
<1> QED
  BY <1>2, <1>3, <1>4 DEF IInv

\* After a rewind there is nothing to recover.
LEMMA StepRewound ==
  ASSUME IInv, Rewound
  PROVE  IInv'
<1>1. /\ UNCHANGED <<log, flushed, active, run, lock, fork, sync, inbox, waits, messages>>
      /\ rewind = "stopped" /\ rewind' = "no" /\ recon' = Lost(log, active)
  BY DEF Rewound, mem, counters
<1>2. Up
  BY <1>1 DEF IInv, Recovering
<1>3. ASSUME NEW a \in Agents PROVE recon'[a] = 0 /\ recon[a] = 0
  <2>1. OpenIn(log[a]) \subseteq {active[a]}
    BY <1>2, Present DEF Good, Journal
  <2>2. RunningActivation(log[a]) \ {active[a]} = {}
    BY <2>1 DEF RunningActivation
  <2> QED
    BY <1>1, <1>2, <2>2 DEF Lost, Up
<1>4. \A a \in Agents : AgentOK(a)'
  BY <1>1, <1>3 DEF IInv, AgentOK
<1>5. Shape' /\ Common'
  <2>1. DOMAIN recon' = Agents
    BY <1>1 DEF Lost
  <2> QED
    BY <1>1, <2>1 DEF IInv, Shape, Common
<1>6. Recovering'
  <2>1. Up'
    BY <1>3 DEF Up
  <2> QED
    BY <2>1 DEF Recovering
<1> QED
  BY <1>4, <1>5, <1>6 DEF IInv

\* The process dies in any state.
LEMMA StepCrash ==
  ASSUME IInv, Crash
  PROVE  IInv'
<1>1. PICK kept \in {f \in [Agents -> 0 .. MaxLog] : \A a \in Agents : f[a] \in flushed[a] .. Len(log[a])} :
        LET l == [a \in Agents |-> SubSeq(log[a], 1, kept[a])] IN
        log' = l /\ flushed' = kept /\ recon' = Lost(l, [a \in Agents |-> 0])
  BY DEF Crash
<1>2. PICK left \in [Agents -> 0 .. MaxMessages] :
        /\ \A a \in Agents : left[a] = inbox[a] \/ (active[a] # 0 /\ left[a] <= messages)
        /\ inbox' = left
  BY DEF Crash
<1>3. /\ active' = [a \in Agents |-> 0] /\ lock' = [a \in Agents |-> <<>>]
      /\ run' = [a \in Agents |-> [n \in DOMAIN run[a] |->
                   IF n = active[a] THEN Past([run[a][n] EXCEPT !.end = "failed"]) ELSE run[a][n]]]
      /\ fork' = [a \in Agents |-> "no"] /\ sync' = [a \in Agents |-> "no"]
      /\ rewind' = "no" /\ waits' = {} /\ messages' = messages
  BY DEF Crash
<1>4. /\ \A a \in Agents : /\ log'[a] = SubSeq(log[a], 1, kept[a]) /\ flushed'[a] = kept[a]
                           /\ kept[a] \in flushed[a] .. Len(log[a])
      /\ DOMAIN log' = Agents /\ DOMAIN flushed' = Agents /\ DOMAIN recon' = Agents
  BY <1>1 DEF Lost
<1>5. ASSUME NEW a \in Agents PROVE AgentOK(a)'
  <2> DEFINE n == active[a]
             r == run[a]
             q == [i \in DOMAIN r |-> IF i = n THEN Past([r[i] EXCEPT !.end = "failed"]) ELSE r[i]]
             h == SubSeq(log[a], 1, kept[a])
  <2>1. /\ Good(log[a], flushed[a], n, r, lock[a], inbox[a], fork[a], sync[a], recon[a], messages)
        /\ messages \in Nat
    BY SubagentAssumption DEF IInv, AgentOK, Common
  <2>2. /\ r \in Seq(Activation) /\ Len(r) \in Nat /\ n \in 0..Len(r)
        /\ \A i \in 1..Len(r) : r[i] \in Activation
        /\ log[a] \in Seq(Events) /\ Len(log[a]) \in Nat /\ flushed[a] \in 0..Len(log[a])
    BY <2>1, Base
  <2>3. Changed(r, n, q) /\ (n # 0 => q[n].at = "over" /\ q[n].end = "failed")
    <3>1. DOMAIN r = 1..Len(r)
      BY <2>2
    <3>2. \A i \in 1..Len(r) : q[i] \in Activation
      BY <2>2, <3>1 DEF Past, Activation
    <3>3. q \in [1..Len(r) -> Activation]
      BY <3>1, <3>2
    <3>4. q \in Seq(Activation) /\ Len(q) = Len(r)
      <4> DEFINE m == Len(r)
      <4>1. m \in Nat /\ q \in [1..m -> Activation]
        BY <2>2, <3>3
      <4> HIDE DEF q, m
      <4>2. q \in Seq(Activation)
        BY <4>1, SeqDef
      <4>3. Len(q) = m
        BY <4>1, <4>2
      <4> QED
        BY <4>2, <4>3 DEF m
    <3>5. \A i \in 1..Len(r) : q[i] = IF i = n THEN Past([r[i] EXCEPT !.end = "failed"]) ELSE r[i]
      BY <3>1
    <3> HIDE DEF q
    <3>6. Changed(r, n, q)
      BY <3>4, <3>5 DEF Changed
    <3>7. n # 0 => q[n].at = "over" /\ q[n].end = "failed"
      <4> SUFFICES ASSUME n # 0 PROVE q[n].at = "over" /\ q[n].end = "failed"
        OBVIOUS
      <4>0. n \in 1..Len(r)
        BY <2>2
      <4>1. q[n] = Past([r[n] EXCEPT !.end = "failed"]) /\ r[n] \in Activation
        BY <2>2, <3>5, <4>0
      <4>2. [r[n] EXCEPT !.end = "failed"].end = "failed"
        BY <4>1 DEF Activation
      <4> QED
        BY <4>1, <4>2 DEF Past
    <3> QED
      BY <3>6, <3>7
  <2>4. run'[a] = q
    BY <1>3
  <2>5. kept[a] \in 0..Len(log[a])
    BY <1>4, <2>2
  <2>6. left[a] \in Nat /\ (left[a] = inbox[a] \/ (n # 0 /\ left[a] <= messages))
    BY <1>2, SubagentAssumption
  <2>7. h \in Seq(Events) /\ Serial(h)
    BY <2>1, <2>2, <2>5, Prefix, PrefixGood DEF Good, Journal
  <2>8. recon'[a] = LET cut == RunningActivation(h) \ {0}
                    IN IF cut = {} THEN 0 ELSE CHOOSE m \in cut : TRUE
    BY <1>1 DEF Lost
  <2> HIDE DEF h, q
  <2>9. RunningActivation(h) = OpenIn(h) /\ 0 \notin OpenIn(h)
    <3>1. <<"start", 0>> \notin Logged(h)
      <4>1. <<"start", 0>> \notin Events
        BY DEF Events
      <4> QED
        BY <2>7, <4>1, LoggedIs
    <3> QED
      BY <2>7, <3>1, OpenIs, OpenIsLast
  <2>10. (OpenIn(h) = {} => recon'[a] = 0) /\ (OpenIn(h) # {} => recon'[a] \in OpenIn(h))
    <3>1. RunningActivation(h) \ {0} = OpenIn(h)
      BY <2>9
    <3> QED
      BY <2>8, <3>1
  <2>11. h = SubSeq(log[a], 1, kept[a])
    BY DEF h
  <2> HIDE DEF n, r
  <2>12. Good(h, kept[a], 0, q, <<>>, left[a], "no", "no", recon'[a], messages)
    BY <2>1, <2>3, <2>5, <2>6, <2>10, <2>11, CrashStep
  <2> QED
    BY <1>2, <1>3, <1>4, <2>4, <2>11, <2>12 DEF AgentOK
<1>6. Shape'
  BY <1>2, <1>3, <1>4 DEF Shape
<1>7. Common'
  BY <1>3 DEF IInv, Common
<1>8. Recovering'
  BY <1>3 DEF Recovering
<1> QED
  BY <1>5, <1>6, <1>7, <1>8 DEF IInv

\* A step of the recovery of one agent.
LEMMA RecoverySteps ==
  ASSUME IInv, NEW a \in Agents, recon[a] # 0,
         UNCHANGED <<flushed, active, run, lock, fork, sync, inbox, rewind, waits, messages>>,
         DOMAIN log' = Agents, DOMAIN recon' = Agents,
         \A b \in Agents \ {a} : log'[b] = log[b] /\ recon'[b] = recon[b],
         Good(log'[a], flushed[a], 0, run[a], lock[a], inbox[a], fork[a], sync[a], recon'[a], messages)
  PROVE  IInv'
<1>1. ~Up
  BY DEF Up
<1>2. /\ rewind = "no"
      /\ \A b \in Agents : active[b] = 0 /\ lock[b] = <<>> /\ fork[b] = "no" /\ sync[b] = "no"
  BY <1>1 DEF IInv, Recovering
<1>3. \A b \in Agents : AgentOK(b)'
  <2> SUFFICES ASSUME NEW b \in Agents PROVE AgentOK(b)'
    OBVIOUS
  <2>1. CASE b = a
    BY <1>2, <2>1 DEF AgentOK
  <2>2. CASE b # a
    BY <2>2 DEF IInv, AgentOK
  <2> QED
    BY <2>1, <2>2
<1>4. Shape' /\ Common'
  BY DEF IInv, Shape, Common
<1>5. Recovering'
  BY <1>2 DEF Recovering
<1> QED
  BY <1>3, <1>4, <1>5 DEF IInv

\* recoverLost settles the one activation that the prefix left open, which is the last.
LEMMA StepRecoverSettle ==
  ASSUME IInv, NEW a \in Agents, RecoverSettle(a)
  PROVE  IInv'
<1>1. Good(log[a], flushed[a], active[a], run[a], lock[a], inbox[a], fork[a], sync[a], recon[a], messages)
      /\ messages \in Nat
  BY SubagentAssumption DEF IInv, AgentOK, Common
<1>2. recon[a] # 0
  <2>1. /\ log[a] \in Seq(Events)
        /\ \A i \in 1..Len(log[a]) : log[a][i][2] \in Nat \ {0}
    BY <1>1, Base
  <2>2. <<"start", recon[a]>> \in Logged(log[a])
    BY <2>1, OpenIs DEF RecoverSettle
  <2>3. PICK i \in 1..Len(log[a]) : log[a][i] = <<"start", recon[a]>>
    BY <2>1, <2>2, LoggedIs
  <2> QED
    BY <2>1, <2>3
<1>3. active[a] = 0 /\ sync[a] = "no"
  BY <1>2 DEF IInv, Recovering, Up
<1>4. Good(Append(log[a], <<"lost", recon[a]>>), flushed[a], 0, run[a], lock[a], inbox[a], fork[a],
           sync[a], recon[a], messages)
  BY <1>1, <1>3, LostStep DEF RecoverSettle
<1>5. /\ log'[a] = Append(log[a], <<"lost", recon[a]>>) /\ DOMAIN log' = Agents
      /\ \A b \in Agents \ {a} : log'[b] = log[b]
  BY DEF RecoverSettle, Write, IInv, Shape
<1>6. /\ UNCHANGED <<flushed, active, run, lock, fork, sync, inbox, rewind, waits, messages>>
      /\ recon' = recon /\ DOMAIN recon = Agents
  BY DEF RecoverSettle, mem, counters, IInv, Shape
<1> QED
  BY <1>2, <1>4, <1>5, <1>6, RecoverySteps

\* recoverLost gives notice of an activation that is settled without one.
LEMMA StepRecoverNotice ==
  ASSUME IInv, NEW a \in Agents, RecoverNotice(a)
  PROVE  IInv'
<1>1. Good(log[a], flushed[a], active[a], run[a], lock[a], inbox[a], fork[a], sync[a], recon[a], messages)
      /\ messages \in Nat
  BY SubagentAssumption DEF IInv, AgentOK, Common
<1>2. recon[a] # 0 /\ recon[a] \notin OpenIn(log[a])
  BY DEF RecoverNotice
<1>3. active[a] = 0 /\ sync[a] = "no"
  BY <1>2 DEF IInv, Recovering, Up
<1>4. Good(Append(log[a], <<"notice", recon[a]>>), flushed[a], 0, run[a], lock[a], inbox[a], fork[a],
           sync[a], 0, messages)
  BY <1>1, <1>2, <1>3, ToldStep
<1>5. /\ log'[a] = Append(log[a], <<"notice", recon[a]>>) /\ DOMAIN log' = Agents
      /\ recon'[a] = 0 /\ DOMAIN recon' = Agents
      /\ \A b \in Agents \ {a} : log'[b] = log[b] /\ recon'[b] = recon[b]
  BY DEF RecoverNotice, Write, IInv, Shape
<1>6. UNCHANGED <<flushed, active, run, lock, fork, sync, inbox, rewind, waits, messages>>
  BY DEF RecoverNotice, mem, counters
<1> QED
  BY <1>2, <1>4, <1>5, <1>6, RecoverySteps

-----------------------------------------------------------------------------
(***************************************************************************)
(* The invariant.                                                          *)
(***************************************************************************)
LEMMA InitIInv == Init => IInv
<1> SUFFICES ASSUME Init PROVE IInv
  OBVIOUS
<1>1. ASSUME NEW a \in Agents PROVE AgentOK(a)
  <2> DEFINE e == <<>>
  <2>1. /\ Len(e) = 0 /\ e \in Seq(Events) /\ e \in Seq(Activation) /\ e \in Seq(Waiting)
        /\ \A i \in 1..0 : FALSE
    OBVIOUS
  <2> HIDE DEF e
  <2>2. Logged(e) = {}
    BY <2>1, LoggedIs
  <2>3. Starts(e) = {} /\ OpenIn(e) = {} /\ Messages(e) = {}
    BY <2>1, <2>2, OpenIs DEF Messages
  <2>4. Place(0, e) = "none"
    BY DEF Place
  <2>5. Types(e, 0, 0, e, e, 0, "no", "no", 0)
    BY <2>1 DEF Types
  <2>6. Registered(0, e, "no")
    BY <2>1, <2>4 DEF Registered
  <2>7. Journal(e, 0, e, 0)
    BY <2>1, <2>3, <2>4 DEF Journal, Serial, Once
  <2>8. Locked(e, 0, e, e)
    BY <2>1, <2>4 DEF Locked, Ending, e
  <2>9. Synchronous(e, 0, e, "no")
    BY DEF Synchronous
  <2>10. Heard(0, e, 0)
    BY DEF Heard
  <2>11. Sent(0, e, e, 0, 0)
    BY <2>3, <2>4, FS_EmptySet DEF Sent
  <2>12. Good(e, 0, 0, e, e, 0, "no", "no", 0, 0)
    BY <2>5, <2>6, <2>7, <2>8, <2>9, <2>10, <2>11 DEF Good
  <2> QED
    BY <2>12 DEF AgentOK, Init, e
<1>2. Shape
  BY DEF Init, Shape
<1>3. Common
  BY SubagentAssumption DEF Init, Common
<1>4. Recovering
  BY DEF Init, Recovering
<1> QED
  BY <1>1, <1>2, <1>3, <1>4 DEF IInv

\* Every step of the manager, a rewind or a death of the process keeps the invariant.
LEMMA StepIInv == IInv /\ [Next]_vars => IInv'
<1> SUFFICES ASSUME IInv, [Next]_vars PROVE IInv'
  OBVIOUS
<1>1. ASSUME NEW a \in Agents, Spawn(a) PROVE IInv'
  BY <1>1, StepSpawn
<1>2. ASSUME NEW a \in Agents, ForkChecked(a) PROVE IInv'
  BY <1>2, StepForkChecked
<1>3. ASSUME NEW a \in Agents, ForkReserved(a) PROVE IInv'
  BY <1>3, StepForkReserved
<1>4. ASSUME NEW a \in Agents, Proceed(a) PROVE IInv'
  <2>1. CASE Opened(a)
    BY <2>1, StepOpened
  <2>2. CASE OpenFails(a)
    BY <2>2, StepOpenFails
  <2>3. CASE Begun(a)
    BY <2>3, StepBegun
  <2>4. CASE Deliver(a)
    BY <2>4, StepDeliver
  <2>5. CASE Continue(a)
    BY <2>5, StepContinue
  <2>6. CASE Decide(a)
    BY <2>6, StepDecide
  <2>7. CASE Record(a)
    BY <2>7, StepRecord
  <2>8. CASE Notify(a)
    BY <2>8, StepNotify
  <2>9. CASE Close(a)
    BY <2>9, StepClose
  <2>10. CASE RecoverSettle(a)
    BY <2>10, StepRecoverSettle
  <2>11. CASE RecoverNotice(a)
    BY <2>11, StepRecoverNotice
  <2> QED
    BY <1>4, <2>1, <2>2, <2>3, <2>4, <2>5, <2>6, <2>7, <2>8, <2>9, <2>10, <2>11 DEF Proceed
<1>5. ASSUME NEW a \in Agents, Claim(a) PROVE IInv'
  BY <1>5, StepClaim
<1>6. ASSUME NEW a \in Agents, EndTurn(a) PROVE IInv'
  BY <1>6, StepEndTurn
<1>7. ASSUME NEW a \in Agents, Timer(a) PROVE IInv'
  BY <1>7, StepTimer
<1>8. ASSUME NEW a \in Agents, Interrupt(a) PROVE IInv'
  BY <1>8, StepInterrupt
<1>9. ASSUME NEW a \in Agents, NEW s \in Agents \cup {Root}, Send(s, a) PROVE IInv'
  BY <1>9, StepSend
<1>10. CASE StopAll
  BY <1>10, StepStopAll
<1>11. CASE StoppedAll
  BY <1>11, StepStoppedAll
<1>12. CASE Rewound
  BY <1>12, StepRewound
<1>13. CASE Crash
  BY <1>13, StepCrash
<1>14. CASE UNCHANGED vars
  <2>1. UNCHANGED <<log, flushed, active, run, lock, fork, sync, inbox, rewind, waits, recon, messages>>
    BY <1>14 DEF vars, mem, counters
  <2>2. \A a \in Agents : AgentOK(a)'
    BY <2>1 DEF IInv, AgentOK
  <2>3. Shape' /\ Common' /\ Recovering'
    BY <2>1 DEF IInv, Shape, Common, Recovering, Up
  <2> QED
    BY <2>2, <2>3 DEF IInv
<1> QED
  BY <1>1, <1>2, <1>3, <1>4, <1>5, <1>6, <1>7, <1>8, <1>9, <1>10, <1>11, <1>12, <1>13, <1>14
  DEF Next

\* The invariant holds at every moment.
LEMMA AlwaysIInv == Spec => []IInv
  BY InitIInv, StepIInv, PTL DEF Spec

-----------------------------------------------------------------------------
(***************************************************************************)
(* The theorems.                                                           *)
(***************************************************************************)
\* What a count of events of one kind about one activation is, when there is one at most.
LEMMA AtMostOne ==
  ASSUME NEW S, \A i, j \in S : i = j
  PROVE  /\ IsFiniteSet(S) /\ Cardinality(S) \in Nat /\ Cardinality(S) <= 1
         /\ S = {} <=> Cardinality(S) = 0
<1>1. CASE S = {}
  BY <1>1, FS_EmptySet
<1>2. CASE S # {}
  <2>1. PICK i \in S : TRUE
    BY <1>2
  <2>2. S = {i}
    BY <2>1
  <2>3. IsFiniteSet({i}) /\ Cardinality({i}) = 1
    BY FS_Singleton
  <2> QED
    BY <1>2, <2>2, <2>3
<1> QED
  BY <1>1, <1>2

\* Three of the variables are functions: the other lemmas need their domains and values only.
Functional ==
  /\ active = [a \in DOMAIN active |-> active[a]] /\ inbox = [a \in DOMAIN inbox |-> inbox[a]]
  /\ sync = [a \in DOMAIN sync |-> sync[a]]

\* Those variables stay functions.
LEMMA AlwaysFunctional == Spec => []Functional
<1>1. Init => Functional
  BY DEF Init, Functional
<1>2. Functional /\ [Next]_vars => Functional'
  <2> SUFFICES ASSUME Functional, [Next]_vars PROVE Functional'
    OBVIOUS
  <2>1. \/ active' = active
        \/ \E a \in Agents : \E v \in {0, Len(run[a]) + 1} : active' = [active EXCEPT ![a] = v]
        \/ active' = [a \in Agents |-> 0]
    <3>1. ASSUME NEW a \in Agents, Proceed(a) \/ Spawn(a) \/ ForkReserved(a)
          PROVE  \/ active' = active
                 \/ \E b \in Agents : \E v \in {0, Len(run[b]) + 1} : active' = [active EXCEPT ![b] = v]
      BY <3>1 DEF Proceed, Spawn, ForkReserved, Reserve, Opened, OpenFails, Begun, Deliver, Continue,
         Decide, Record, Notify, Close, RecoverSettle, RecoverNotice, mem
    <3>2. CASE Crash
      BY <3>2 DEF Crash
    <3>3. CASE UNCHANGED vars
      BY <3>3 DEF vars, mem
    <3> QED
      BY <3>1, <3>2, <3>3 DEF Next, ForkChecked, Claim, EndTurn, Timer, Interrupt, Send, StopAll,
         StoppedAll, Rewound, mem
  <2>2. \/ inbox' = inbox
        \/ \E a \in Agents : \E v \in {0, inbox[a] + 1} : inbox' = [inbox EXCEPT ![a] = v]
        \/ inbox' \in [Agents -> 0..MaxMessages]
    <3>1. ASSUME NEW a \in Agents, Proceed(a) \/ Claim(a)
          PROVE  \/ inbox' = inbox
                 \/ \E b \in Agents : \E v \in {0, inbox[b] + 1} : inbox' = [inbox EXCEPT ![b] = v]
      BY <3>1 DEF Proceed, Claim, Opened, OpenFails, Begun, Deliver, Continue,
         Decide, Record, Notify, Close, RecoverSettle, RecoverNotice
    <3>2. CASE Crash
      BY <3>2 DEF Crash
    <3>3. CASE UNCHANGED vars
      BY <3>3 DEF vars
    <3> QED
      BY <3>1, <3>2, <3>3 DEF Next, Spawn, ForkChecked, ForkReserved, EndTurn, Timer, Interrupt, Send,
         StopAll, StoppedAll, Rewound
  <2>3. \/ sync' = sync
        \/ \E a \in Agents : \E v \in {"waiting", "moved", "result"} : sync' = [sync EXCEPT ![a] = v]
        \/ sync' = [a \in Agents |-> "no"]
    <3>1. ASSUME NEW a \in Agents, Proceed(a) \/ Timer(a)
          PROVE  \/ sync' = sync
                 \/ \E b \in Agents : \E v \in {"waiting", "moved", "result"} : sync' = [sync EXCEPT ![b] = v]
      BY <3>1 DEF Proceed, Timer, Opened, OpenFails, Begun, Deliver, Continue,
         Decide, Record, Notify, Close, RecoverSettle, RecoverNotice, mem
    <3>2. CASE Crash
      BY <3>2 DEF Crash
    <3>3. CASE UNCHANGED vars
      BY <3>3 DEF vars, mem
    <3> QED
      BY <3>1, <3>2, <3>3 DEF Next, Spawn, ForkChecked, ForkReserved, Claim, EndTurn, Interrupt, Send,
         StopAll, StoppedAll, Rewound, mem
  <2>4. active' = [a \in DOMAIN active' |-> active'[a]]
    BY <2>1 DEF Functional
  <2>5. inbox' = [a \in DOMAIN inbox' |-> inbox'[a]]
    BY <2>2 DEF Functional
  <2>6. sync' = [a \in DOMAIN sync' |-> sync'[a]]
    BY <2>3 DEF Functional
  <2> QED
    BY <2>4, <2>5, <2>6 DEF Functional
<1> QED
  BY <1>1, <1>2, PTL DEF Spec

\* The types follow from the invariant.
LEMMA TypeOKHolds == IInv /\ Functional => TypeOK
<1> SUFFICES ASSUME IInv, Functional PROVE TypeOK
  OBVIOUS
<1>1. ASSUME NEW a \in Agents
      PROVE  /\ active[a] \in Nat /\ inbox[a] \in 0..MaxMessages
             /\ active[a] \in DOMAIN run[a] \cup {0} /\ flushed[a] <= Len(log[a])
             /\ \A n \in DOMAIN run[a] \ {active[a]} : run[a][n].at \in {"over", "failed"}
             /\ sync[a] \in {"no", "waiting", "moved", "result"}
  <2>1. /\ Good(log[a], flushed[a], active[a], run[a], lock[a], inbox[a], fork[a], sync[a],
                recon[a], messages)
        /\ messages \in Nat /\ messages <= MaxMessages /\ MaxMessages \in Nat
    BY SubagentAssumption DEF IInv, AgentOK, Common
  <2>2. inbox[a] \in 0..MaxMessages
    <3>1. /\ inbox[a] \in Nat /\ Cardinality(Messages(lock[a])) \in Nat
          /\ inbox[a] + Cardinality(Messages(lock[a])) <= messages
      BY <2>1, SentIs
    <3> QED
      BY <2>1, <3>1
  <2>3. /\ run[a] \in Seq(Activation) /\ active[a] \in 0..Len(run[a]) /\ Len(run[a]) \in Nat
        /\ flushed[a] \in 0..Len(log[a]) /\ Len(log[a]) \in Nat
    BY <2>1, Base
  <2>4. DOMAIN run[a] = 1..Len(run[a])
    BY <2>3
  <2>5. \A n \in 1..Len(run[a]) : n # active[a] => run[a][n].at \in {"over", "failed"}
    BY <2>1 DEF Good, Registered
  <2>6. sync[a] \in {"no", "waiting", "moved", "result"}
    BY <2>1 DEF Good, Types
  <2> QED
    BY <2>2, <2>3, <2>4, <2>5, <2>6
<1>2. /\ active \in [Agents -> Nat] /\ inbox \in [Agents -> 0 .. MaxMessages]
      /\ sync \in [Agents -> {"no", "waiting", "moved", "result"}]
  BY <1>1 DEF IInv, Shape, Functional
<1> QED
  BY <1>1, <1>2 DEF TypeOK, IInv, Common

\* What the journal holds of an activation: one settlement, and a notice only behind one
\* that asks for it.
LEMMA CountsHold ==
  ASSUME IInv, NEW a \in Agents, NEW n
  PROVE  /\ Count(a, Settles, n) <= 1 /\ Count(a, {"notice"}, n) <= Count(a, {"notified", "lost"}, n)
         /\ n = 1 /\ sync[a] = "moved" => Count(a, {"returned"}, 1) = 0
         /\ n = 1 /\ sync[a] = "result" => Count(a, {"returned"}, 1) = 1
<1> DEFINE l == log[a]
           Of(whats, m) == {i \in DOMAIN l : l[i][2] = m /\ l[i][1] \in whats}
<1>1. Good(l, flushed[a], active[a], run[a], lock[a], inbox[a], fork[a], sync[a], recon[a], messages)
  BY DEF IInv, AgentOK
<1>2. l \in Seq(Events) /\ DOMAIN l = 1..Len(l)
  <2>1. l \in Seq(Events)
    BY <1>1, Base
  <2> QED
    BY <2>1
<1>3. \A i \in 1..Len(l) : l[i] = <<l[i][1], l[i][2]>>
  BY <1>2, LoggedIs
<1> HIDE DEF l
<1>4. Once(l)
  BY <1>1 DEF Good, Journal
<1>5. ASSUME NEW whats \in SUBSET Settles, NEW m
      PROVE  \A i, j \in Of(whats, m) : i = j
  BY <1>2, <1>4 DEF Once
<1>6. \A i, j \in Of({"notice"}, n) : i = j
  <2> SUFFICES ASSUME NEW i \in Of({"notice"}, n), NEW j \in Of({"notice"}, n) PROVE i = j
    OBVIOUS
  <2>1. /\ i \in 1..Len(l) /\ j \in 1..Len(l) /\ l[i][1] = "notice"
        /\ l[i] = <<"notice", n>> /\ l[j] = <<"notice", n>>
    BY <1>2, <1>3
  <2> QED
    BY <1>4, <2>1 DEF Once
<1>7. {"returned"} \subseteq Settles /\ {"notified", "lost"} \subseteq Settles
  BY DEF Settles
<1>8. Of({"notice"}, n) # {} => Of({"notified", "lost"}, n) # {}
  BY <1>2, <1>4 DEF Once
<1>9. \A whats, m : Count(a, whats, m) = Cardinality(Of(whats, m))
  BY DEF Count, l
<1>10. (<<"returned", 1>> \in Logged(l)) <=> Of({"returned"}, 1) # {}
  <2>1. <<"returned", 1>> \in Logged(l) <=> \E i \in 1..Len(l) : l[i] = <<"returned", 1>>
    BY <1>2, LoggedIs
  <2>2. \A i \in 1..Len(l) : l[i] = <<"returned", 1>> <=> l[i][1] = "returned" /\ l[i][2] = 1
    BY <1>3
  <2> QED
    BY <1>2, <2>1, <2>2
<1>11. /\ sync[a] = "moved" => <<"returned", 1>> \notin Logged(l)
       /\ sync[a] = "result" => <<"returned", 1>> \in Logged(l)
  BY <1>1 DEF Good, Synchronous
<1> HIDE DEF Of
<1>12. \A whats \in SUBSET Settles : \A m :
         /\ Cardinality(Of(whats, m)) \in Nat /\ Cardinality(Of(whats, m)) <= 1
         /\ Of(whats, m) = {} <=> Cardinality(Of(whats, m)) = 0
  <2> SUFFICES ASSUME NEW whats \in SUBSET Settles, NEW m
               PROVE  /\ Cardinality(Of(whats, m)) \in Nat /\ Cardinality(Of(whats, m)) <= 1
                      /\ Of(whats, m) = {} <=> Cardinality(Of(whats, m)) = 0
    OBVIOUS
  <2>1. \A i, j \in Of(whats, m) : i = j
    BY <1>5
  <2> QED
    BY <2>1, AtMostOne
<1>13. /\ Cardinality(Of({"notice"}, n)) \in Nat /\ Cardinality(Of({"notice"}, n)) <= 1
       /\ Of({"notice"}, n) = {} <=> Cardinality(Of({"notice"}, n)) = 0
  BY <1>6, AtMostOne
<1>14. Cardinality(Of(Settles, n)) <= 1
  BY <1>12
<1>15. Cardinality(Of({"notice"}, n)) <= Cardinality(Of({"notified", "lost"}, n))
  <2>1. /\ Cardinality(Of({"notified", "lost"}, n)) \in Nat
        /\ Of({"notified", "lost"}, n) = {} <=> Cardinality(Of({"notified", "lost"}, n)) = 0
    BY <1>7, <1>12
  <2> QED
    BY <1>8, <1>13, <2>1
<1>16. /\ Cardinality(Of({"returned"}, 1)) \in Nat /\ Cardinality(Of({"returned"}, 1)) <= 1
       /\ Of({"returned"}, 1) = {} <=> Cardinality(Of({"returned"}, 1)) = 0
  BY <1>7, <1>12
<1>17. sync[a] = "moved" => Cardinality(Of({"returned"}, 1)) = 0
  BY <1>10, <1>11, <1>16
<1>18. sync[a] = "result" => Cardinality(Of({"returned"}, 1)) = 1
  BY <1>10, <1>11, <1>16
<1> QED
  BY <1>9, <1>14, <1>15, <1>17, <1>18

\* An end reaches one reader, whatever of the timer of the synchronous call, the settlement, a rewind and
\* the death of the process comes first (#settle, #moveToBackground, recoverLost).
THEOREM OneReaderEach == Spec => []OneReader
<1>1. IInv /\ Functional => OneReader
  BY TypeOKHolds, CountsHold DEF OneReader
<1> QED
  BY <1>1, AlwaysIInv, AlwaysFunctional, PTL

\* A message that sendMessage called delivered has an activation that may read it behind every
\* one that completed.
THEOREM MessagesAreHeard == Spec => []NoMessageStranded
<1>1. IInv => NoMessageStranded
  <2> SUFFICES ASSUME IInv, NEW a \in Agents, active[a] = 0, inbox[a] > 0,
                      NEW n \in DOMAIN run[a], run[a][n].end = "completed"
               PROVE  \E m \in DOMAIN run[a] : m > n /\ run[a][m].at = "over"
    BY DEF NoMessageStranded
  <2>1. Good(log[a], flushed[a], 0, run[a], lock[a], inbox[a], fork[a], sync[a], recon[a], messages)
    BY DEF IInv, AgentOK
  <2>2. run[a] \in Seq(Activation) /\ DOMAIN run[a] = 1..Len(run[a])
    <3>1. run[a] \in Seq(Activation)
      BY <2>1, Base
    <3> QED
      BY <3>1
  <2>3. PICK m \in 1..Len(run[a]) : m > n /\ run[a][m].at \notin {"opening", "failed"}
    BY <2>1, <2>2 DEF Good, Heard
  <2>4. run[a][m].at \in {"over", "failed"}
    BY <2>1, <2>3 DEF Good, Registered
  <2> QED
    BY <2>2, <2>3, <2>4
<1> QED
  BY <1>1, AlwaysIInv, PTL

\* What the tree shows as running is run: settlement and recovery leave no start behind.
THEOREM ShownIsRun == Spec => []RunningIsRun
<1>1. IInv => RunningIsRun
  <2> SUFFICES ASSUME IInv, Up, NEW a \in Agents PROVE OpenIn(log[a]) \subseteq {active[a]}
    BY DEF RunningIsRun
  <2> QED
    BY Present DEF Good, Journal
<1> QED
  BY <1>1, AlwaysIInv, PTL

=============================================================================
