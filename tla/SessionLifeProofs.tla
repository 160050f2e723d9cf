-------------------------- MODULE SessionLifeProofs --------------------------
(***************************************************************************)
(* What holds for every set of sessions, clients and rewinds: a resume is  *)
(* refused only because of another resume, no session leaves #open under   *)
(* its work, and a shutdown leaves a lease only to a rewrite under way     *)
(* (SessionLife); and for every journal that is rewound, however often: it *)
(* is closed, it grants nothing that was revoked, keeps its settings and   *)
(* tells each end that it told before (RewindCut).                         *)
(***************************************************************************)
EXTENDS SessionLife, RewindCut, FiniteSetTheorems, SequenceTheorems,
        WellFoundedInduction, TLAPS
-----------------------------------------------------------------------------
(* The places a call can be at. *)
Places == Opening \cup {"idle", "waiting", "ok", "locked", "failed"}

(* The stages of a rewind. *)
Stages == {"no", "held", "stopped", "stuck", "resuming", "closing", "rewriting",
           "restoring", "reopening", "announce", "stale", "prompt", "submitting",
           "unreported"}

(* The sessions in #open, and the calls: one that is under way names a session. *)
Ordered == IsQueueOf(recent, Open) /\ Open \subseteq Sessions

Call == [at : Places, on : Sessions \cup {None}, rival : BOOLEAN]

Called ==
    /\ call \in [Resumers -> Call]
    /\ \A c \in Resumers : call[c].at # "idle" => call[c].on \in Sessions

(* The sweep, with its worklist in the order of #open. *)
Sweep == [queued : BOOLEAN, on : BOOLEAN, again : BOOLEAN,
          todo : SUBSET (Sessions \X Sessions)]

Swept(sw) == sw \in Sweep /\ IsQueueOf(sw.todo, Elems(sw.todo))

(* The other variables. *)
Stated ==
    /\ closing \in [Sessions -> {"no", "release", "rewrite"}]
    /\ lease \in [Sessions -> {None, Handle} \cup Resumers]
    /\ mgr \in [Sessions -> {"none", "opening", "ready", "failed"}]
    /\ busy \subseteq Sessions /\ observed \subseteq Sessions
    /\ asked \in [lane : SUBSET (Resumers \X Sessions),
                  astray : SUBSET (Resumers \X Sessions), left : SUBSET Sessions]
    /\ rewind \in [Sessions -> Stages]
    /\ host \in [at : {"up", "draining", "sweeps", "closings", "handles", "storage", "down"},
                 of : SUBSET Sessions]

(* The variables have their types. *)
Typed == Ordered /\ Called /\ Swept(sweep) /\ Stated

(* A manager has a call while it opens, a rewind while it resumes, and a      *)
(* session is closing for a rewrite just while its rewind waits for that.     *)
ManagerCalls == \A s \in Sessions : mgr[s] # "opening" => call[Manager(s)].at = "idle"

RewindCalls ==
    \A s \in Rewindable : rewind[s] \notin {"resuming", "restoring", "reopening"}
                           => call[Rewinder(s)].at = "idle"

RewritesClose ==
    \A s \in Sessions : closing[s] = "rewrite" <=> rewind[s] \in {"closing", "rewriting"}

Linked == ManagerCalls /\ RewindCalls /\ RewritesClose

(* Closing the handles has not begun, and is not over. *)
Running == host.at \in {"up", "draining", "sweeps", "closings"}

Handling == Running \/ host.at = "handles"

(* The sessions with a handle that nobody closes yet: those in #open, and once *)
(* closeAll has cleared #open those that it goes on to close.                  *)
Cleared == IF host.at = "handles" THEN host.of ELSE {}

(* A rewrite of a journal has the lease, whatever becomes of the host. *)
Rewriting ==
    \A s \in Sessions :
        rewind[s] = "rewriting" => s \in Rewindable /\ lease[s] = Rewinder(s)

(* The handle of a session has its lease while the session is open or until   *)
(* it is closed, and never both; a resume has it while it recovers, a rewind   *)
(* while it rewrites, and never else.                                         *)
Owned ==
    /\ \A s \in Sessions :
          lease[s] = Handle <=> \/ s \in Open \cup Cleared
                                \/ closing[s] # "no" /\ rewind[s] # "rewriting"
    /\ \A s \in Open \cup Cleared : closing[s] = "no"
    /\ Open \cap Cleared = {}
    /\ \A c \in Resumers : call[c].at = "recovering" => lease[call[c].on] = c
    /\ \A s \in Sessions, c \in Resumers :
          lease[s] = c => \/ call[c].at = "recovering" /\ call[c].on = s
                          \/ rewind[s] = "rewriting" /\ c = Rewinder(s)
    /\ Rewriting

(* A resume without a rival is the only one that opens its session, which is  *)
(* neither open nor closing; one that found the lease taken had a rival.      *)
Lone ==
    \A c \in Resumers :
        /\ call[c].at = "opening" /\ ~call[c].rival
             => /\ \A d \in Resumers \ {c} :
                      call[d].on = call[c].on => call[d].at \notin Opening
                /\ call[c].on \notin Open /\ closing[call[c].on] = "no"
        /\ call[c].at = "locked" => call[c].rival

(* Work is only where a manager is, ready for it or blocked. *)
Working == \A s \in busy : mgr[s] \in {"ready", "failed"}

IInv == /\ Typed /\ Linked /\ Working /\ Rewriting
        /\ Handling => Owned
        /\ Running => Lone

-----------------------------------------------------------------------------
(***************************************************************************)
(* The orders that stand for the Map #open and for a sweep's worklist.     *)
(***************************************************************************)
(* The elements of an order on S are S. *)
LEMMA ElemsOfOrder ==
  ASSUME NEW S, NEW q, IsQueueOf(q, S)
  PROVE  Elems(q) = S
<1>1. \A p \in q : p[1] \in S
  BY DEF IsQueueOf
<1>2. \A x \in S : <<x, x>> \in q /\ <<x, x>>[1] = x
  BY DEF IsQueueOf
<1> QED
  BY <1>1, <1>2 DEF Elems

(* An order that another one follows is an order, of the elements of both: a   *)
(* session that enters #open and the sessions shown come last.                *)
LEMMA ConcatIsOrder ==
  ASSUME NEW S, NEW q, NEW T, NEW r, IsQueueOf(q, S), IsQueueOf(r, T),
         S \cap T = {}
  PROVE  IsQueueOf(q \cup r \cup (S \X T), S \cup T)
<1> DEFINE p == q \cup r \cup (S \X T)
<1>1. \A x, y : <<x, y>> \in p <=> \/ <<x, y>> \in q
                                   \/ <<x, y>> \in r
                                   \/ x \in S /\ y \in T
  OBVIOUS
<1>2. p \subseteq (S \cup T) \X (S \cup T)
  BY DEF IsQueueOf
<1>3. \A x, y : <<x, y>> \in q => x \in S /\ y \in S
  BY DEF IsQueueOf
<1>4. \A x, y : <<x, y>> \in r => x \in T /\ y \in T
  BY DEF IsQueueOf
<1> HIDE DEF p
<1>5. \A x, y \in S \cup T : <<x, y>> \in p /\ <<y, x>> \in p => x = y
  BY <1>1, <1>3, <1>4 DEF IsQueueOf
<1>6. \A x, y, z \in S \cup T : <<x, y>> \in p /\ <<y, z>> \in p => <<x, z>> \in p
  <2> SUFFICES ASSUME NEW x, NEW y, NEW z, <<x, y>> \in p, <<y, z>> \in p
               PROVE  <<x, z>> \in p
    OBVIOUS
  <2>1. CASE y \in S
    <3>1. <<x, y>> \in q /\ x \in S
      BY <2>1, <1>1, <1>3, <1>4
    <3> QED
      BY <2>1, <3>1, <1>1, <1>3, <1>4 DEF IsQueueOf
  <2>2. CASE y \in T
    <3>1. <<y, z>> \in r /\ z \in T
      BY <2>2, <1>1, <1>3, <1>4
    <3> QED
      BY <2>2, <3>1, <1>1, <1>3, <1>4 DEF IsQueueOf
  <2> QED
    BY <2>1, <2>2, <1>1, <1>3, <1>4
<1>7. \A x, y \in S \cup T : <<x, y>> \in p \/ <<y, x>> \in p
  BY <1>1 DEF IsQueueOf
<1>8. \A x \in S \cup T : <<x, x>> \in p
  BY <1>1 DEF IsQueueOf
<1>9. IsQueueOf(p, S \cup T)
  BY <1>2, <1>5, <1>6, <1>7, <1>8 DEF IsQueueOf
<1> QED
  BY <1>9 DEF p

(* Removing elements keeps the order of the others. *)
LEMMA WithoutKeepsOrder ==
  ASSUME NEW S, NEW q, NEW R, IsQueueOf(q, S)
  PROVE  IsQueueOf(Without(q, R), S \ R)
<1> DEFINE p == Without(q, R)
<1>1. \A x, y : <<x, y>> \in p <=> <<x, y>> \in q /\ x \notin R /\ y \notin R
  BY DEF Without
<1>2. p \subseteq (S \ R) \X (S \ R)
  BY DEF Without, IsQueueOf
<1> HIDE DEF p
<1>3. IsQueueOf(p, S \ R)
  BY <1>1, <1>2 DEF IsQueueOf
<1> QED
  BY <1>3 DEF p

(* A session that enters #open comes last. *)
LEMMA PushKeepsOrder ==
  ASSUME NEW S, NEW q, NEW t, IsQueueOf(q, S), t \notin S
  PROVE  IsQueueOf(Push(q, t), S \cup {t})
<1>1. IsQueueOf({<<t, t>>}, {t})
  BY DEF IsQueueOf
<1>2. IsQueueOf(q \cup {<<t, t>>} \cup (S \X {t}), S \cup {t})
  BY <1>1, ConcatIsOrder
<1> QED
  BY <1>2, ElemsOfOrder DEF Push

(* Nothing is open at first, and nothing is left to sweep. *)
LEMMA EmptyIsOrder == IsQueueOf(EmptyQueue, {}) /\ Elems(EmptyQueue) = {}
BY DEF IsQueueOf, EmptyQueue, Elems

(* A session that is used becomes the most recent of those that are open. *)
LEMMA TouchedOpen ==
  ASSUME NEW s, IsQueueOf(recent, Open), recent' = Touched(s)
  PROVE  IsQueueOf(recent', Open') /\ Open' = Open
<1>1. CASE s \in Open
  <2>1. IsQueueOf(Without(recent, {s}), Open \ {s})
    BY WithoutKeepsOrder
  <2>2. IsQueueOf(Push(Without(recent, {s}), s), (Open \ {s}) \cup {s})
    BY <2>1, PushKeepsOrder
  <2>3. (Open \ {s}) \cup {s} = Open
    BY <1>1
  <2>4. IsQueueOf(recent', Open)
    BY <1>1, <2>2, <2>3 DEF Touched
  <2> QED
    BY <2>4, ElemsOfOrder DEF Open
<1>2. CASE s \notin Open
  BY <1>2 DEF Touched, Open
<1> QED
  BY <1>1, <1>2

(* A session that leaves #open is the only one that does. *)
LEMMA LeftOpen ==
  ASSUME NEW s, IsQueueOf(recent, Open), recent' = Without(recent, {s})
  PROVE  IsQueueOf(recent', Open') /\ Open' = Open \ {s}
<1>1. IsQueueOf(recent', Open \ {s})
  BY WithoutKeepsOrder
<1> QED
  BY <1>1, ElemsOfOrder DEF Open

(* A session that enters #open is the only one that does. *)
LEMMA EnteredOpen ==
  ASSUME NEW s, IsQueueOf(recent, Open), s \notin Open, recent' = Push(recent, s)
  PROVE  IsQueueOf(recent', Open') /\ Open' = Open \cup {s}
<1>1. IsQueueOf(recent', Open \cup {s})
  BY PushKeepsOrder
<1> QED
  BY <1>1, ElemsOfOrder DEF Open

(* To show sessions touches some of those that are open. *)
LEMMA ShownOpen ==
  ASSUME NEW ids, IsQueueOf(recent, Open), SetObserved(ids)
  PROVE  IsQueueOf(recent', Open') /\ Open' = Open
<1> DEFINE shown == ids \cap Open
<1>1. PICK order : /\ IsQueueOf(order, shown)
                   /\ recent' = Without(recent, shown) \cup order
                                  \cup ((Open \ shown) \X shown)
  BY DEF SetObserved
<1>2. IsQueueOf(Without(recent, shown), Open \ shown)
  BY WithoutKeepsOrder
<1>3. IsQueueOf(recent', (Open \ shown) \cup shown)
  BY <1>1, <1>2, ConcatIsOrder
<1>4. (Open \ shown) \cup shown = Open
  OBVIOUS
<1>5. IsQueueOf(recent', Open)
  BY <1>3, <1>4
<1> QED
  BY <1>5, ElemsOfOrder DEF Open

(* No session is open once #open is cleared. *)
LEMMA ClearedOpen ==
  ASSUME recent' = EmptyQueue
  PROVE  IsQueueOf(recent', Open') /\ Open' = {}
BY EmptyIsOrder DEF Open

(* Steps that leave #open alone. *)
LEMMA SameOpen ==
  ASSUME IsQueueOf(recent, Open), recent' = recent
  PROVE  IsQueueOf(recent', Open') /\ Open' = Open
BY DEF Open

-----------------------------------------------------------------------------
(***************************************************************************)
(* The resume calls.                                                       *)
(***************************************************************************)
(* Clients, managers and rewinds have calls of their own. *)
LEMMA Callers ==
  /\ Clients \subseteq Resumers /\ Rewindable \subseteq Sessions
  /\ \A s \in Sessions : Manager(s) \in Resumers /\ Manager(s) \notin Clients
  /\ \A s \in Rewindable : Rewinder(s) \in Resumers
  /\ \A s \in Sessions : Rewinder(s) \notin Clients
  /\ \A s, t \in Sessions : /\ Manager(s) # Rewinder(t)
                            /\ Manager(s) = Manager(t) => s = t
                            /\ Rewinder(s) = Rewinder(t) => s = t
<1>1. \A s, t \in Sessions : /\ Manager(s) # Rewinder(t)
                             /\ Manager(s) = Manager(t) => s = t
                             /\ Rewinder(s) = Rewinder(t) => s = t
  BY DEF Manager, Rewinder
<1> QED
  BY <1>1, LifeAssumption, OwnersAssumption DEF Resumers

(* Another call opens s. *)
Contested(c, s) == \E d \in Resumers \ {c} : call[d].on = s /\ call[d].at \in Opening

(* c enters resume for s, and goes on to open s only if s is free. *)
Joins(c, s) ==
    \E at \in {"ok", "waiting", "opening"} :
        /\ call' = Entered(c, s, at)
        /\ at = "opening" => s \notin Open /\ closing'[s] = "no"

(* What entering resume changes: the place of the call, and who has a rival. *)
LEMMA EnteredCalls ==
  ASSUME Called, NEW c \in Resumers, NEW s \in Sessions, NEW at \in Places,
         call' = Entered(c, s, at)
  PROVE  /\ call' \in [Resumers -> Call]
         /\ call'[c].at = at /\ call'[c].on = s
         /\ call'[c].rival <=> at = "opening" /\ Contested(c, s)
         /\ \A d \in Resumers \ {c} :
               /\ call'[d].at = call[d].at /\ call'[d].on = call[d].on
               /\ call[d].rival => call'[d].rival
               /\ at = "opening" /\ call[d].on = s /\ call[d].at \in Opening
                    => call'[d].rival
<1>1. Rivals(c, s) # {} <=> Contested(c, s)
  BY DEF Rivals, Contested
<1>2. call'[c] = [at |-> at, on |-> s, rival |-> at = "opening" /\ Rivals(c, s) # {}]
  BY DEF Entered
<1>3. ASSUME NEW d \in Resumers \ {c}
      PROVE  /\ call'[d] \in Call
             /\ call'[d].at = call[d].at /\ call'[d].on = call[d].on
             /\ call[d].rival => call'[d].rival
             /\ at = "opening" /\ call[d].on = s /\ call[d].at \in Opening
                  => call'[d].rival
  <2>1. call[d] \in Call
    BY DEF Called, Call
  <2>2. CASE at = "opening" /\ d \in Rivals(c, s)
    <3>1. call'[d] = [call[d] EXCEPT !.rival = TRUE]
      BY <2>2 DEF Entered
    <3> QED
      BY <2>1, <3>1 DEF Call
  <2>3. CASE ~(at = "opening" /\ d \in Rivals(c, s))
    <3>1. call'[d] = call[d]
      BY <2>3 DEF Entered
    <3> QED
      BY <2>1, <2>3, <3>1 DEF Rivals
  <2> QED
    BY <2>2, <2>3
<1>4. call' \in [Resumers -> Call]
  <2>1. call'[c] \in Call
    BY <1>2 DEF Call
  <2>2. call' = [d \in Resumers |-> call'[d]]
    BY DEF Entered
  <2> QED
    BY <1>3, <2>1, <2>2
<1>5. call'[c].at = at /\ call'[c].on = s
  BY <1>2
<1>6. call'[c].rival <=> at = "opening" /\ Contested(c, s)
  <2>1. call'[c].rival = (at = "opening" /\ Rivals(c, s) # {})
    BY <1>2
  <2> QED
    BY <1>1, <2>1
<1> QED
  BY <1>3, <1>4, <1>5, <1>6

(* resume finds the session open, closing or free. *)
LEMMA ResumedJoins ==
  ASSUME NEW c, NEW s, call' = Resumed(c, s), closing' = closing
  PROVE  Joins(c, s)
BY DEF Resumed, Joins

(* Entering resume leaves the calls in order. *)
LEMMA JoinsTyped ==
  ASSUME Called, NEW c \in Resumers, NEW s \in Sessions, Joins(c, s)
  PROVE  /\ call' \in [Resumers -> Call]
         /\ \A d \in Resumers : call'[d].at # "idle" => call'[d].on \in Sessions
         /\ call'[c].at \in {"ok", "waiting", "opening"} /\ call'[c].on = s
         /\ \A d \in Resumers \ {c} : call'[d].at = call[d].at /\ call'[d].on = call[d].on
<1>1. PICK at \in {"ok", "waiting", "opening"} : call' = Entered(c, s, at)
  BY DEF Joins
<1>2. at \in Places /\ at # "idle"
  BY DEF Places, Opening
<1>3. /\ call' \in [Resumers -> Call]
      /\ call'[c].at = at /\ call'[c].on = s
      /\ \A d \in Resumers \ {c} : call'[d].at = call[d].at /\ call'[d].on = call[d].on
  BY <1>1, <1>2, EnteredCalls
<1> QED
  BY <1>2, <1>3 DEF Called

(* A call that moves on, still for the same session. *)
LEMMA MovedCalls ==
  ASSUME Called, NEW c \in Resumers, NEW at \in Places,
         call' = [call EXCEPT ![c].at = at]
  PROVE  /\ call' \in [Resumers -> Call]
         /\ call'[c].at = at /\ call'[c].on = call[c].on
         /\ call'[c].rival <=> call[c].rival
         /\ \A d \in Resumers \ {c} : call'[d] = call[d]
<1>1. call'[c] = [call[c] EXCEPT !.at = at] /\ call[c] \in Call
  BY DEF Called, Call
<1>2. call'[c] \in Call /\ call'[c].at = at /\ call'[c].on = call[c].on
      /\ call'[c].rival = call[c].rival
  BY <1>1 DEF Call
<1>3. \A d \in Resumers \ {c} : call'[d] = call[d]
  BY DEF Called
<1>4. call' \in [Resumers -> Call]
  BY <1>2, <1>3 DEF Called, Call
<1> QED
  BY <1>2, <1>3, <1>4

(* A call that is over. *)
LEMMA HungUp ==
  ASSUME Called, NEW c \in Resumers, call' = Hangup(c)
  PROVE  /\ call' \in [Resumers -> Call]
         /\ call'[c].at = "idle" /\ call'[c].on = None
         /\ \A d \in Resumers \ {c} : call'[d] = call[d]
BY DEF Hangup, Called, Call, Places

-----------------------------------------------------------------------------
(***************************************************************************)
(* The steps keep the types.                                               *)
(***************************************************************************)
(* What a trigger, the start of a pass and a step of it make of the sweep. *)
LEMMA SweepSteps ==
  ASSUME NEW sw, Swept(sw), Open \subseteq Sessions, IsQueueOf(recent, Open)
  PROVE  /\ Swept([sw EXCEPT !.queued = @ \/ ~Disposed])
         /\ Swept([sw EXCEPT !.queued = FALSE])
         /\ Swept([sw EXCEPT !.again = TRUE])
         /\ Swept([sw EXCEPT !.on = FALSE])
         /\ \A s : Swept([sw EXCEPT !.todo = Without(@, {s})])
         /\ Swept(Scanned(sw))
<1>1. Swept([sw EXCEPT !.queued = @ \/ ~Disposed])
  <2> DEFINE q == sw.queued \/ ~Disposed
  <2>1. q \in BOOLEAN
    BY DEF Swept, Sweep
  <2> HIDE DEF q
  <2>2. Swept([sw EXCEPT !.queued = q])
    BY <2>1 DEF Swept, Sweep
  <2>3. [sw EXCEPT !.queued = @ \/ ~Disposed] = [sw EXCEPT !.queued = q]
    BY DEF q
  <2> QED
    BY <2>2, <2>3
<1>2. /\ Swept([sw EXCEPT !.queued = FALSE])
      /\ Swept([sw EXCEPT !.again = TRUE])
      /\ Swept([sw EXCEPT !.on = FALSE])
  BY DEF Swept, Sweep
<1>3. ASSUME NEW s PROVE Swept([sw EXCEPT !.todo = Without(@, {s})])
  <2>1. IsQueueOf(Without(sw.todo, {s}), Elems(sw.todo) \ {s})
    BY WithoutKeepsOrder DEF Swept
  <2>2. Elems(Without(sw.todo, {s})) = Elems(sw.todo) \ {s}
    BY <2>1, ElemsOfOrder
  <2>3. Without(sw.todo, {s}) \in SUBSET (Sessions \X Sessions)
    BY DEF Without, Swept, Sweep
  <2> QED
    BY <2>1, <2>2, <2>3 DEF Swept, Sweep
<1>4. Swept(Scanned(sw))
  <2>1. PICK R : Excess = Without(recent, R)
    BY DEF Excess
  <2>2. IsQueueOf(Excess, Open \ R)
    BY <2>1, WithoutKeepsOrder
  <2>3. IsQueueOf(Excess, Elems(Excess))
    BY <2>2, ElemsOfOrder
  <2>4. Excess \in SUBSET (Sessions \X Sessions)
    BY <2>2 DEF IsQueueOf
  <2>5. Swept([sw EXCEPT !.on = TRUE, !.again = FALSE, !.todo = Excess])
    BY <2>3, <2>4 DEF Swept, Sweep
  <2>6. Swept([sw EXCEPT !.on = FALSE, !.again = FALSE])
    BY DEF Swept, Sweep
  <2> QED
    BY <2>5, <2>6 DEF Scanned
<1> QED
  BY <1>1, <1>2, <1>3, <1>4

(* A rewind that throws stays at a stage of rewinds, at one it may throw from. *)
LEMMA ThrownStages ==
  ASSUME NEW stage \in Stages
  PROVE  /\ Thrown(stage) \in Stages
         /\ stage \notin {"announce", "stale", "prompt"} => Thrown(stage) = stage
         /\ stage \in {"announce", "stale", "prompt"}
               => Thrown(stage) \in {"no", "unreported"}
BY DEF Thrown, Stages

(* A rewrite that ends goes on to open its session. *)
LEMMA RewriteJoins ==
  ASSUME Stated, NEW s \in Rewindable, NEW stage, Reopens(s, stage)
  PROVE  Joins(Rewinder(s), s)
<1>1. closing'[s] = "no"
  BY Callers DEF Reopens, Stated
<1>2. PICK at \in {"ok", "opening"} :
        call' = Entered(Rewinder(s), s, at) /\ (at = "opening" => s \notin Open)
  BY DEF Reopens
<1> QED
  BY <1>1, <1>2 DEF Joins

(* An answered submission may end the hold of its rewind and may have blocked  *)
(* the manager; it is work only where a manager is ready.                      *)
LEMMA SubmissionSteps ==
  ASSUME Stated, NEW c \in Resumers, Submission(c)
  PROVE  /\ UNCHANGED <<recent, closing, lease, call, observed, rewinds, sweep, host>>
         /\ \A t \in Sessions : \/ rewind'[t] = rewind[t]
                                \/ rewind[t] = "submitting" /\ rewind'[t] = "no"
         /\ \A t \in Sessions : \/ mgr'[t] = mgr[t]
                                \/ mgr[t] = "ready" /\ mgr'[t] = "failed"
         /\ \A t \in busy' : t \in busy \/ mgr'[t] = "ready"
         /\ Stated'
<1>1. PICK s \in Sessions : Accepted(c, s) \/ Declined(c, s) \/ AcceptedAstray(c, s)
  BY DEF Submission
<1>2. /\ UNCHANGED <<recent, closing, lease, call, observed, rewinds, sweep, host>>
      /\ rewind' = HoldOver(c, s)
      /\ mgr' \in {mgr, [mgr EXCEPT ![s] = IF @ = "ready" THEN "failed" ELSE @]}
      /\ \/ busy' = busy
         \/ busy' = busy \cup {s} /\ mgr' = mgr /\ mgr[s] = "ready"
      /\ asked' \in {Settled(c, s), [Settled(c, s) EXCEPT !.left = @ \cup {s}]}
  BY <1>1 DEF Accepted, Declined, AcceptedAstray
<1>3. /\ \A t \in Sessions : \/ rewind'[t] = rewind[t]
                             \/ rewind[t] = "submitting" /\ rewind'[t] = "no"
      /\ rewind' \in [Sessions -> Stages]
  BY <1>2 DEF HoldOver, Stated, Stages
<1>4. /\ \A t \in Sessions : \/ mgr'[t] = mgr[t]
                             \/ mgr[t] = "ready" /\ mgr'[t] = "failed"
      /\ mgr' \in [Sessions -> {"none", "opening", "ready", "failed"}]
  BY <1>2 DEF Stated
<1>5. asked' \in [lane : SUBSET (Resumers \X Sessions),
                  astray : SUBSET (Resumers \X Sessions), left : SUBSET Sessions]
  <2>1. Settled(c, s) \in [lane : SUBSET (Resumers \X Sessions),
                           astray : SUBSET (Resumers \X Sessions), left : SUBSET Sessions]
    BY DEF Settled, Stated
  <2>2. [Settled(c, s) EXCEPT !.left = @ \cup {s}]
           \in [lane : SUBSET (Resumers \X Sessions),
               astray : SUBSET (Resumers \X Sessions), left : SUBSET Sessions]
    BY <2>1
  <2> QED
    BY <1>2, <2>1, <2>2
<1>6. busy' \subseteq Sessions /\ \A t \in busy' : t \in busy \/ mgr'[t] = "ready"
  BY <1>2 DEF Stated
<1>7. Stated'
  BY <1>2, <1>3, <1>4, <1>5, <1>6 DEF Stated
<1> QED
  BY <1>2, <1>3, <1>4, <1>6, <1>7

(* What becomes of the submissions when a manager is dropped, and when its     *)
(* handle is closed.                                                          *)
LEMMA AskedKept ==
  ASSUME Stated, NEW s
  PROVE  /\ Strayed(s) \in [lane : SUBSET (Resumers \X Sessions),
                            astray : SUBSET (Resumers \X Sessions), left : SUBSET Sessions]
         /\ CutOff(s) \in [lane : SUBSET (Resumers \X Sessions),
                           astray : SUBSET (Resumers \X Sessions), left : SUBSET Sessions]
BY DEF Strayed, CutOff, OnTo, Stated

(* Every step keeps the types. *)
LEMMA TypedKept ==
  ASSUME Typed, [Next]_vars
  PROVE  Typed'
<1> USE DEF Typed
<1>1. ASSUME UNCHANGED vars PROVE Typed'
  BY <1>1, SameOpen DEF Ordered, Called, Swept, Stated, vars
<1>2. ASSUME NEW c \in Resumers, ResumeWakes(c) PROVE Typed'
  BY <1>2, TouchedOpen, JoinsTyped, ResumedJoins, Callers
  DEF Ordered, Called, Swept, Stated, ResumeWakes, Places, Opening
<1>3. ASSUME NEW c \in Resumers, StorageOpens(c) PROVE Typed'
  <2>1. Ordered'
    BY <1>3, SameOpen, Callers DEF Ordered, StorageOpens
  <2>2. Called'
    BY <1>3, MovedCalls, Callers DEF Called, StorageOpens, Places, Opening
  <2>3. Swept(sweep)'
    BY <1>3 DEF Ordered, Swept, StorageOpens
  <2>4. Stated'
    BY <1>3, Callers DEF Stated, StorageOpens
  <2> QED
    BY <2>1, <2>2, <2>3, <2>4
<1>4. ASSUME NEW c \in Resumers, Recovers(c) PROVE Typed'
  <2> DEFINE s == call[c].on
  <2>1. Ordered'
    <3>1. s \in Sessions
      BY <1>4 DEF Called, Recovers
    <3>2. CASE s \in Open
      BY <1>4, <3>2, SameOpen DEF Ordered, Recovers
    <3>3. CASE s \notin Open
      BY <1>4, <3>1, <3>3, EnteredOpen DEF Ordered, Recovers
    <3> QED
      BY <3>2, <3>3
  <2>2. Called'
    BY <1>4, MovedCalls DEF Called, Recovers, Places, Opening
  <2>3. Swept(sweep)'
    BY <1>4, SweepSteps DEF Ordered, Recovers, SweepRequested
  <2>4. Stated'
    BY <1>4 DEF Stated, Recovers
  <2> QED
    BY <2>1, <2>2, <2>3, <2>4
<1>5. ASSUME NEW c \in Resumers, RecoveryFails(c) PROVE Typed'
  <2>1. Ordered'
    BY <1>5, SameOpen, Callers DEF Ordered, RecoveryFails
  <2>2. Called'
    BY <1>5, MovedCalls, Callers DEF Called, RecoveryFails, Places, Opening
  <2>3. Swept(sweep)'
    BY <1>5 DEF Ordered, Swept, RecoveryFails
  <2>4. Stated'
    BY <1>5, Callers DEF Stated, RecoveryFails
  <2> QED
    BY <2>1, <2>2, <2>3, <2>4
<1>6. ASSUME NEW c \in Clients, NEW s \in Sessions, ClientResumes(c, s) PROVE Typed'
  BY <1>6, TouchedOpen, JoinsTyped, ResumedJoins, Callers
  DEF Ordered, Called, Swept, Stated, ClientResumes, Places, Opening
<1>7. ASSUME NEW c \in Clients, ClientEnds(c) PROVE Typed'
  BY <1>7, SameOpen, HungUp, Callers
  DEF Ordered, Called, Swept, Stated, ClientEnds, Places, Opening
<1>8. ASSUME NEW c \in Clients, Submits(c) PROVE Typed'
  BY <1>8, SameOpen, HungUp, Callers
  DEF Ordered, Called, Swept, Stated, Submits, Places, Opening
<1>9. ASSUME NEW s \in Sessions, OpenManager(s) PROVE Typed'
  BY <1>9, TouchedOpen, JoinsTyped, ResumedJoins, Callers
  DEF Ordered, Called, Swept, Stated, OpenManager, Places, Opening
<1>10. ASSUME NEW s \in Sessions, ManagerSettles(s) PROVE Typed'
  <2>1. Ordered'
    BY <1>10, SameOpen, Callers DEF Ordered, ManagerSettles
  <2>2. Called'
    BY <1>10, HungUp, Callers DEF Called, ManagerSettles, Places, Opening
  <2>3. Swept(sweep)'
    BY <1>10 DEF Ordered, Swept, ManagerSettles
  <2>4. Stated'
    <3>1. /\ busy' \subseteq Sessions
          /\ asked' \in [lane : SUBSET (Resumers \X Sessions),
                         astray : SUBSET (Resumers \X Sessions), left : SUBSET Sessions]
      BY <1>10 DEF Stated, ManagerSettles
    <3> QED
      BY <1>10, <3>1, ThrownStages, Callers DEF Stated, ManagerSettles
  <2> QED
    BY <2>1, <2>2, <2>3, <2>4
<1>11. ASSUME NEW s \in Sessions, WorkEnds(s) PROVE Typed'
  BY <1>11, SameOpen, SweepSteps
  DEF Ordered, Called, Swept, Stated, WorkEnds, SweepRequested
<1>12. ASSUME NEW ids \in Views, SetObserved(ids) PROVE Typed'
  BY <1>12, ShownOpen, SweepSteps, LifeAssumption
  DEF Ordered, Called, Swept, Stated, SetObserved, SweepRequested
<1>13. ASSUME SweepStarts PROVE Typed'
  <2>1. Ordered'
    BY <1>13, SameOpen, Callers DEF Ordered, SweepStarts
  <2>2. Called'
    BY <1>13, Callers DEF Called, SweepStarts
  <2>3. Swept(sweep)'
    BY <1>13, SweepSteps DEF Ordered, Swept, SweepStarts
  <2>4. Stated'
    BY <1>13, Callers DEF Stated, SweepStarts
  <2> QED
    BY <2>1, <2>2, <2>3, <2>4
<1>14. ASSUME SweepReleases PROVE Typed'
  <2>1. Ordered'
    BY <1>14, LeftOpen, SameOpen DEF Ordered, SweepReleases
  <2>2. Called'
    BY <1>14 DEF Called, SweepReleases
  <2>3. Swept(sweep)'
    <3>1. PICK s : sweep' = sweep \/ sweep' = [sweep EXCEPT !.todo = Without(@, {s})]
      BY <1>14 DEF SweepReleases
    <3>2. Swept([sweep EXCEPT !.todo = Without(@, {s})])
      BY SweepSteps DEF Ordered
    <3> QED
      BY <3>1, <3>2
  <2>4. Stated'
    BY <1>14, AskedKept DEF Stated, Stages, SweepReleases, Dropped
  <2> QED
    BY <2>1, <2>2, <2>3, <2>4
<1>15. ASSUME SweepEnds PROVE Typed'
  BY <1>15, SameOpen, SweepSteps DEF Ordered, Called, Swept, Stated, SweepEnds
<1>16. ASSUME NEW s \in Sessions, Released(s) PROVE Typed'
  BY <1>16, SameOpen, SweepSteps, AskedKept
  DEF Ordered, Called, Swept, Stated, Stages, Released
<1>17. ASSUME NEW s \in Rewindable, RewindHolds(s) PROVE Typed'
  BY <1>17, SameOpen, LifeAssumption, Callers
  DEF Ordered, Called, Swept, Stated, RewindHolds, Stages
<1>18. ASSUME NEW s \in Rewindable, RewindRefused(s) PROVE Typed'
  BY <1>18, SameOpen, Callers
  DEF Ordered, Called, Swept, Stated, RewindRefused, Stages
<1>19. ASSUME NEW s \in Rewindable, RewindResumes(s) PROVE Typed'
  BY <1>19, TouchedOpen, JoinsTyped, ResumedJoins, Callers
  DEF Ordered, Called, Swept, Stated, RewindResumes, Places, Opening, Stages
<1>20. ASSUME NEW s \in Rewindable, RewriteStarts(s) PROVE Typed'
  <2>1. Ordered'
    BY <1>20, LeftOpen, SameOpen, Callers DEF Ordered, RewriteStarts
  <2>2. Called'
    BY <1>20, HungUp, Callers DEF Called, RewriteStarts, Places, Opening
  <2>3. Swept(sweep)'
    BY <1>20 DEF Ordered, Swept, RewriteStarts
  <2>4. Stated'
    BY <1>20, AskedKept, Callers DEF Stated, RewriteStarts, Dropped, Stages
  <2> QED
    BY <2>1, <2>2, <2>3, <2>4
<1>21. ASSUME NEW s \in Rewindable, RewriteEnds(s) PROVE Typed'
  <2>1. Ordered'
    BY <1>21, SameOpen DEF Ordered, RewriteEnds
  <2>2. Called'
    BY <1>21, RewriteJoins, JoinsTyped, Callers DEF Called, RewriteEnds
  <2>3. Swept(sweep)'
    BY <1>21 DEF RewriteEnds
  <2>4. Stated'
    BY <1>21, Callers DEF Stated, Stages, RewriteEnds, Reopens
  <2> QED
    BY <2>1, <2>2, <2>3, <2>4
<1>22. ASSUME NEW s \in Rewindable, RewindFails(s) PROVE Typed'
  BY <1>22, SameOpen, HungUp, Callers
  DEF Ordered, Called, Swept, Stated, RewindFails, Places, Opening, Stages
<1>23. ASSUME NEW s \in Rewindable, RewindReopened(s) PROVE Typed'
  BY <1>23, SameOpen, HungUp, Callers
  DEF Ordered, Called, Swept, Stated, RewindReopened, Places, Opening, Stages
<1>24. ASSUME NEW s \in Rewindable, RewindAnnounces(s) PROVE Typed'
  <2>1. Ordered'
    BY <1>24, SameOpen, Callers DEF Ordered, RewindAnnounces
  <2>2. Called'
    BY <1>24, Callers DEF Called, RewindAnnounces
  <2>3. Swept(sweep)'
    BY <1>24 DEF Ordered, Swept, RewindAnnounces
  <2>4. Stated'
    BY <1>24, ThrownStages, Callers DEF Stated, RewindAnnounces, Stages
  <2> QED
    BY <2>1, <2>2, <2>3, <2>4
<1>25. ASSUME NEW s \in Rewindable, RewindThrows(s) PROVE Typed'
  BY <1>25, SameOpen, Callers
  DEF Ordered, Called, Swept, Stated, RewindThrows, Stages
<1>26. ASSUME Quiesce PROVE Typed'
  BY <1>26, SameOpen DEF Ordered, Called, Swept, Stated, Quiesce
<1>27. ASSUME CloseAll PROVE Typed'
  BY <1>27, SameOpen DEF Ordered, Called, Swept, Stated, CloseAll
<1>28. ASSUME AwaitClosings PROVE Typed'
  BY <1>28, SameOpen DEF Ordered, Called, Swept, Stated, AwaitClosings
<1>29. ASSUME ClearOpen PROVE Typed'
  BY <1>29, ClearedOpen DEF Ordered, Called, Swept, Stated, ClearOpen, Stages
<1>30. ASSUME StorageCloses PROVE Typed'
  BY <1>30, SameOpen DEF Ordered, Called, Swept, Stated, StorageCloses
<1>31. ASSUME HostDown PROVE Typed'
  BY <1>31, SameOpen DEF Ordered, Called, Swept, Stated, HostDown
<1>32. ASSUME NEW c \in Resumers, Submission(c) PROVE Typed'
  <2>1. Stated' /\ UNCHANGED <<recent, call, sweep>>
    BY <1>32, SubmissionSteps
  <2> QED
    BY <2>1, SameOpen DEF Ordered, Called, Swept
<1>33. ASSUME NEW s \in Rewindable, RewindStops(s) PROVE Typed'
  BY <1>33, SameOpen, Callers
  DEF Ordered, Called, Swept, Stated, RewindStops, Stages
<1>34. ASSUME NEW s \in Rewindable, RewriteLocks(s) PROVE Typed'
  <2>1. Ordered'
    BY <1>34, SameOpen DEF Ordered, RewriteLocks
  <2>2. Called'
    BY <1>34, RewriteJoins, JoinsTyped, Callers DEF Called, RewriteLocks
  <2>3. Swept(sweep)'
    BY <1>34 DEF RewriteLocks
  <2>4. Stated'
    BY <1>34, AskedKept, Callers DEF Stated, Stages, RewriteLocks, Reopens
  <2> QED
    BY <2>1, <2>2, <2>3, <2>4
<1>35. ASSUME NEW s \in Rewindable, RewindSubmits(s) PROVE Typed'
  <2>1. Stated'
    BY <1>35, Callers DEF Stated, Stages, RewindSubmits
  <2> QED
    BY <1>35, <2>1, SameOpen DEF Ordered, Called, Swept, RewindSubmits
<1> QED
  BY <1>1, <1>2, <1>3, <1>4, <1>5, <1>6, <1>7, <1>8, <1>9, <1>10,
     <1>11, <1>12, <1>13, <1>14, <1>15, <1>16, <1>17, <1>18, <1>19,
     <1>20, <1>21, <1>22, <1>23, <1>24, <1>25, <1>26, <1>27, <1>28,
     <1>29, <1>30, <1>31, <1>32, <1>33, <1>34, <1>35
     DEF Next, Calls, ClientCalls, RewindSteps, Sweeping, Shutdown

-----------------------------------------------------------------------------
(***************************************************************************)
(* Managers, rewinds and closings stay in step.                            *)
(***************************************************************************)
(* Every step keeps the calls of managers and rewinds with their owners. *)
LEMMA LinkedKept ==
  ASSUME Typed, Linked, [Next]_vars
  PROVE  Linked'
<1>0. Called /\ Stated
  BY DEF Typed
<1> USE <1>0
<1>1. ASSUME UNCHANGED vars PROVE Linked'
  BY <1>1
  DEF Linked, ManagerCalls, RewindCalls, RewritesClose, vars, Called, Stated
<1>2. ASSUME NEW c \in Resumers, ResumeWakes(c) PROVE Linked'
  <2>1. \A d \in Resumers : call[d].at = "idle" => call'[d].at = "idle"
    BY <1>2, ResumedJoins, JoinsTyped DEF ResumeWakes, Called
  <2>2. UNCHANGED <<mgr, rewind, closing>>
    BY <1>2 DEF ResumeWakes
  <2> QED
    BY <2>1, <2>2, Callers DEF Linked, ManagerCalls, RewindCalls, RewritesClose
<1>3. ASSUME NEW c \in Resumers, StorageOpens(c) PROVE Linked'
  BY <1>3, MovedCalls, Callers
  DEF Linked, ManagerCalls, RewindCalls, RewritesClose, StorageOpens, Places,
      Opening, Called, Stated
<1>4. ASSUME NEW c \in Resumers, Recovers(c) PROVE Linked'
  BY <1>4, MovedCalls, Callers
  DEF Linked, ManagerCalls, RewindCalls, RewritesClose, Recovers, Places,
      Opening, Called, Stated
<1>5. ASSUME NEW c \in Resumers, RecoveryFails(c) PROVE Linked'
  BY <1>5, MovedCalls, Callers
  DEF Linked, ManagerCalls, RewindCalls, RewritesClose, RecoveryFails, Places,
      Opening, Called, Stated
<1>6. ASSUME NEW c \in Clients, NEW s \in Sessions, ClientResumes(c, s) PROVE Linked'
  <2>1. \A d \in Resumers \ {c} : call'[d].at = call[d].at
    BY <1>6, ResumedJoins, JoinsTyped, Callers DEF ClientResumes
  <2>2. UNCHANGED <<mgr, rewind, closing>>
    BY <1>6 DEF ClientResumes
  <2> QED
    BY <2>1, <2>2, Callers DEF Linked, ManagerCalls, RewindCalls, RewritesClose
<1>7. ASSUME NEW c \in Clients, ClientEnds(c) PROVE Linked'
  BY <1>7, HungUp, Callers
  DEF Linked, ManagerCalls, RewindCalls, RewritesClose, ClientEnds, Answered,
      Called, Stated
<1>8. ASSUME NEW c \in Clients, Submits(c) PROVE Linked'
  BY <1>8, HungUp, Callers
  DEF Linked, ManagerCalls, RewindCalls, RewritesClose, Submits, Answered,
      Called, Stated
<1>9. ASSUME NEW s \in Sessions, OpenManager(s) PROVE Linked'
  <2>1. \A d \in Resumers \ {Manager(s)} : call'[d].at = call[d].at
    BY <1>9, ResumedJoins, JoinsTyped, Callers DEF OpenManager
  <2>2. /\ \A t \in Sessions \ {s} : mgr'[t] = mgr[t]
        /\ mgr'[s] = "opening" /\ UNCHANGED <<rewind, closing>>
    BY <1>9 DEF OpenManager, Stated
  <2> QED
    BY <2>1, <2>2, Callers DEF Linked, ManagerCalls, RewindCalls, RewritesClose
<1>10. ASSUME NEW s \in Sessions, ManagerSettles(s) PROVE Linked'
  BY <1>10, HungUp, Callers, ThrownStages
  DEF Linked, ManagerCalls, RewindCalls, RewritesClose, ManagerSettles,
      Answered, Called, Stated, Stages
<1>11. ASSUME NEW s \in Sessions, WorkEnds(s) PROVE Linked'
  BY <1>11
  DEF Linked, ManagerCalls, RewindCalls, RewritesClose, WorkEnds, Called, Stated
<1>12. ASSUME NEW ids \in Views, SetObserved(ids) PROVE Linked'
  BY <1>12
  DEF Linked, ManagerCalls, RewindCalls, RewritesClose, SetObserved, Called,
      Stated
<1>13. ASSUME SweepStarts PROVE Linked'
  BY <1>13
  DEF Linked, ManagerCalls, RewindCalls, RewritesClose, SweepStarts, Called,
      Stated
<1>14. ASSUME SweepReleases PROVE Linked'
  <2>1. /\ \A t \in Sessions : \/ rewind'[t] = rewind[t]
                               \/ rewind[t] = "announce" /\ rewind'[t] = "stale"
        /\ call' = call
    BY <1>14 DEF SweepReleases, Stated
  <2>2. \A t \in Sessions : mgr'[t] = mgr[t] \/ mgr[t] = "ready"
    BY <1>14 DEF SweepReleases, Dropped, Stated
  <2>3. RewritesClose'
    BY <1>14 DEF Linked, RewritesClose, SweepReleases, StillReleasable, Stated
  <2> QED
    BY <2>1, <2>2, <2>3, Callers DEF Linked, ManagerCalls, RewindCalls
<1>15. ASSUME SweepEnds PROVE Linked'
  BY <1>15
  DEF Linked, ManagerCalls, RewindCalls, RewritesClose, SweepEnds, Called,
      Stated
<1>16. ASSUME NEW s \in Sessions, Released(s) PROVE Linked'
  BY <1>16
  DEF Linked, ManagerCalls, RewindCalls, RewritesClose, Released, Called, Stated
<1>17. ASSUME NEW s \in Rewindable, RewindHolds(s) PROVE Linked'
  <2>1. \A t \in Sessions : rewind'[t] = IF t = s THEN "held" ELSE rewind[t]
    BY <1>17 DEF RewindHolds, Stated
  <2>2. rewind[s] = "no" /\ UNCHANGED <<call, mgr, closing>>
    BY <1>17 DEF RewindHolds, Held
  <2> QED
    BY <2>1, <2>2, Callers DEF Linked, ManagerCalls, RewindCalls, RewritesClose
<1>18. ASSUME NEW s \in Rewindable, RewindRefused(s) PROVE Linked'
  BY <1>18, Callers
  DEF Linked, ManagerCalls, RewindCalls, RewritesClose, RewindRefused, Called,
      Stated, Stages
<1>19. ASSUME NEW s \in Rewindable, RewindResumes(s) PROVE Linked'
  <2>1. \A d \in Resumers \ {Rewinder(s)} : call'[d].at = call[d].at
    BY <1>19, ResumedJoins, JoinsTyped, Callers DEF RewindResumes
  <2>2. /\ \A t \in Sessions \ {s} : rewind'[t] = rewind[t]
        /\ rewind[s] = "stopped" /\ rewind'[s] = "resuming" /\ UNCHANGED <<mgr, closing>>
    BY <1>19, Callers DEF RewindResumes, Stated
  <2> QED
    BY <2>1, <2>2, Callers DEF Linked, ManagerCalls, RewindCalls, RewritesClose
<1>20. ASSUME NEW s \in Rewindable, RewriteStarts(s) PROVE Linked'
  <2>1. ManagerCalls'
    BY <1>20, HungUp, Callers
    DEF Linked, ManagerCalls, RewriteStarts, Answered, Dropped, StillReleasable,
        Called, Stated, Stages
  <2>2. RewindCalls'
    BY <1>20, HungUp, Callers
    DEF Linked, RewindCalls, RewriteStarts, Answered, Dropped, StillReleasable,
        Called, Stated, Stages
  <2>3. RewritesClose'
    BY <1>20, HungUp, Callers
    DEF Linked, RewritesClose, RewriteStarts, Answered, Dropped,
        StillReleasable, Called, Stated, Stages
  <2> QED
    BY <2>1, <2>2, <2>3 DEF Linked
<1>21. ASSUME NEW s \in Rewindable, RewriteEnds(s) PROVE Linked'
  <2>1. /\ \A t \in Sessions \ {s} : rewind'[t] = rewind[t] /\ closing'[t] = closing[t]
        /\ rewind'[s] \in {"restoring", "reopening"} /\ closing'[s] = "no"
    BY <1>21, Callers DEF RewriteEnds, Reopens, Stated
  <2>2. \A d \in Resumers \ {Rewinder(s)} : call'[d].at = call[d].at
    BY <1>21, RewriteJoins, JoinsTyped, Callers DEF RewriteEnds
  <2>3. mgr' = mgr
    BY <1>21 DEF RewriteEnds
  <2> QED
    BY <2>1, <2>2, <2>3, Callers
    DEF Linked, ManagerCalls, RewindCalls, RewritesClose
<1>22. ASSUME NEW s \in Rewindable, RewindFails(s) PROVE Linked'
  BY <1>22, HungUp, Callers
  DEF Linked, ManagerCalls, RewindCalls, RewritesClose, RewindFails, Answered,
      Called, Stated, Stages
<1>23. ASSUME NEW s \in Rewindable, RewindReopened(s) PROVE Linked'
  BY <1>23, HungUp, Callers
  DEF Linked, ManagerCalls, RewindCalls, RewritesClose, RewindReopened,
      Answered, Called, Stated, Stages
<1>24. ASSUME NEW s \in Rewindable, RewindAnnounces(s) PROVE Linked'
  BY <1>24, ThrownStages, Callers
  DEF Linked, ManagerCalls, RewindCalls, RewritesClose, RewindAnnounces, Called,
      Stated, Stages
<1>25. ASSUME NEW s \in Rewindable, RewindThrows(s) PROVE Linked'
  BY <1>25, Callers
  DEF Linked, ManagerCalls, RewindCalls, RewritesClose, RewindThrows, Called,
      Stated, Stages
<1>26. ASSUME Quiesce PROVE Linked'
  BY <1>26
  DEF Linked, ManagerCalls, RewindCalls, RewritesClose, Quiesce, Called, Stated
<1>27. ASSUME CloseAll PROVE Linked'
  BY <1>27
  DEF Linked, ManagerCalls, RewindCalls, RewritesClose, CloseAll, Called, Stated
<1>28. ASSUME AwaitClosings PROVE Linked'
  BY <1>28
  DEF Linked, ManagerCalls, RewindCalls, RewritesClose, AwaitClosings, Called,
      Stated
<1>29. ASSUME ClearOpen PROVE Linked'
  <2>1. \A t \in Sessions : \/ rewind'[t] = rewind[t]
                            \/ rewind[t] = "announce" /\ rewind'[t] = "stale"
    BY <1>29 DEF ClearOpen, Stated
  <2>2. UNCHANGED <<call, mgr, closing>>
    BY <1>29 DEF ClearOpen
  <2> QED
    BY <2>1, <2>2, Callers DEF Linked, ManagerCalls, RewindCalls, RewritesClose
<1>30. ASSUME StorageCloses PROVE Linked'
  BY <1>30
  DEF Linked, ManagerCalls, RewindCalls, RewritesClose, StorageCloses, Called,
      Stated
<1>31. ASSUME HostDown PROVE Linked'
  BY <1>31
  DEF Linked, ManagerCalls, RewindCalls, RewritesClose, HostDown, Called, Stated
<1>32. ASSUME NEW c \in Resumers, Submission(c) PROVE Linked'
  BY <1>32, SubmissionSteps, Callers DEF Linked, ManagerCalls, RewindCalls, RewritesClose
<1>33. ASSUME NEW s \in Rewindable, RewindStops(s) PROVE Linked'
  BY <1>33, Callers
  DEF Linked, ManagerCalls, RewindCalls, RewritesClose, RewindStops, Called, Stated
<1>34. ASSUME NEW s \in Rewindable, RewriteLocks(s) PROVE Linked'
  <2>1. \A t \in Sessions \ {s} : rewind'[t] = rewind[t] /\ closing'[t] = closing[t]
    BY <1>34 DEF RewriteLocks, Reopens, Stated
  <2>2. CASE call' = call
    <3>1. /\ rewind'[s] = "rewriting" /\ closing' = closing
          /\ rewind[s] = "closing" /\ mgr' = mgr
      BY <1>34, <2>2, Callers, RewriteJoins, JoinsTyped
      DEF RewriteLocks, Stated, Linked, RewindCalls
    <3> QED
      BY <2>1, <2>2, <3>1, Callers DEF Linked, ManagerCalls, RewindCalls, RewritesClose
  <2>3. CASE Reopens(s, "restoring")
    <3>1. \A d \in Resumers \ {Rewinder(s)} : call'[d].at = call[d].at
      BY <2>3, RewriteJoins, JoinsTyped, Callers
    <3>2. rewind'[s] = "restoring" /\ closing'[s] = "no" /\ mgr' = mgr
      BY <1>34, <2>3, Callers DEF RewriteLocks, Reopens, Stated
    <3> QED
      BY <2>1, <3>1, <3>2, Callers DEF Linked, ManagerCalls, RewindCalls, RewritesClose
  <2> QED
    BY <1>34, <2>2, <2>3 DEF RewriteLocks
<1>35. ASSUME NEW s \in Rewindable, RewindSubmits(s) PROVE Linked'
  BY <1>35, Callers
  DEF Linked, ManagerCalls, RewindCalls, RewritesClose, RewindSubmits, Called, Stated
<1> QED
  BY <1>1, <1>2, <1>3, <1>4, <1>5, <1>6, <1>7, <1>8, <1>9, <1>10,
     <1>11, <1>12, <1>13, <1>14, <1>15, <1>16, <1>17, <1>18, <1>19,
     <1>20, <1>21, <1>22, <1>23, <1>24, <1>25, <1>26, <1>27, <1>28,
     <1>29, <1>30, <1>31, <1>32, <1>33, <1>34, <1>35
     DEF Next, Calls, ClientCalls, RewindSteps, Sweeping, Shutdown

(* Every step keeps work where a manager is. *)
LEMMA WorkingKept ==
  ASSUME Typed, Linked, Working, [Next]_vars
  PROVE  Working'
<1>0. Called /\ Stated
  BY DEF Typed
<1> USE <1>0
<1>1. ASSUME UNCHANGED vars PROVE Working'
  BY <1>1 DEF Working, vars, Stated
<1>2. ASSUME NEW c \in Resumers, ResumeWakes(c) PROVE Working'
  BY <1>2 DEF Working, ResumeWakes, Stated
<1>3. ASSUME NEW c \in Resumers, StorageOpens(c) PROVE Working'
  BY <1>3 DEF Working, StorageOpens, Stated
<1>4. ASSUME NEW c \in Resumers, Recovers(c) PROVE Working'
  BY <1>4 DEF Working, Recovers, Stated
<1>5. ASSUME NEW c \in Resumers, RecoveryFails(c) PROVE Working'
  BY <1>5 DEF Working, RecoveryFails, Stated
<1>6. ASSUME NEW c \in Clients, NEW s \in Sessions, ClientResumes(c, s) PROVE Working'
  BY <1>6 DEF Working, ClientResumes, Stated
<1>7. ASSUME NEW c \in Clients, ClientEnds(c) PROVE Working'
  BY <1>7 DEF Working, ClientEnds, Stated
<1>8. ASSUME NEW c \in Clients, Submits(c) PROVE Working'
  BY <1>8 DEF Working, Submits, Stated
<1>9. ASSUME NEW s \in Sessions, OpenManager(s) PROVE Working'
  BY <1>9 DEF Working, OpenManager, Stated
<1>10. ASSUME NEW s \in Sessions, ManagerSettles(s) PROVE Working'
  BY <1>10 DEF Working, ManagerSettles, Stated
<1>11. ASSUME NEW s \in Sessions, WorkEnds(s) PROVE Working'
  BY <1>11 DEF Working, WorkEnds, Stated
<1>12. ASSUME NEW ids \in Views, SetObserved(ids) PROVE Working'
  BY <1>12 DEF Working, SetObserved, Stated
<1>13. ASSUME SweepStarts PROVE Working'
  BY <1>13 DEF Working, SweepStarts, Stated
<1>14. ASSUME SweepReleases PROVE Working'
  BY <1>14
  DEF Working, SweepReleases, Stated, Dropped, StillReleasable, IsReleasable,
      GateOpen, Registered
<1>15. ASSUME SweepEnds PROVE Working'
  BY <1>15 DEF Working, SweepEnds, Stated
<1>16. ASSUME NEW s \in Sessions, Released(s) PROVE Working'
  BY <1>16 DEF Working, Released, Stated
<1>17. ASSUME NEW s \in Rewindable, RewindHolds(s) PROVE Working'
  BY <1>17, Callers DEF Working, RewindHolds, Stated
<1>18. ASSUME NEW s \in Rewindable, RewindRefused(s) PROVE Working'
  BY <1>18, Callers DEF Working, RewindRefused, Stated
<1>19. ASSUME NEW s \in Rewindable, RewindResumes(s) PROVE Working'
  BY <1>19, Callers DEF Working, RewindResumes, Stated
<1>20. ASSUME NEW s \in Rewindable, RewriteStarts(s) PROVE Working'
  BY <1>20, Callers
  DEF Working, RewriteStarts, Stated, Dropped, GateOpen, Registered
<1>21. ASSUME NEW s \in Rewindable, RewriteEnds(s) PROVE Working'
  BY <1>21, Callers DEF Working, RewriteEnds, Stated
<1>22. ASSUME NEW s \in Rewindable, RewindFails(s) PROVE Working'
  BY <1>22, Callers DEF Working, RewindFails, Stated
<1>23. ASSUME NEW s \in Rewindable, RewindReopened(s) PROVE Working'
  BY <1>23, Callers DEF Working, RewindReopened, Stated
<1>24. ASSUME NEW s \in Rewindable, RewindAnnounces(s) PROVE Working'
  BY <1>24, Callers DEF Working, RewindAnnounces, Stated
<1>25. ASSUME NEW s \in Rewindable, RewindThrows(s) PROVE Working'
  BY <1>25, Callers DEF Working, RewindThrows, Stated
<1>26. ASSUME Quiesce PROVE Working'
  BY <1>26 DEF Working, Quiesce, Stated
<1>27. ASSUME CloseAll PROVE Working'
  BY <1>27 DEF Working, CloseAll, Stated
<1>28. ASSUME AwaitClosings PROVE Working'
  BY <1>28 DEF Working, AwaitClosings, Stated
<1>29. ASSUME ClearOpen PROVE Working'
  BY <1>29 DEF Working, ClearOpen, Stated
<1>30. ASSUME StorageCloses PROVE Working'
  BY <1>30 DEF Working, StorageCloses, Stated
<1>31. ASSUME HostDown PROVE Working'
  BY <1>31 DEF Working, HostDown, Stated
<1>32. ASSUME NEW c \in Resumers, Submission(c) PROVE Working'
  BY <1>32, SubmissionSteps DEF Working, Stated
<1>33. ASSUME NEW s \in Rewindable, RewindStops(s) PROVE Working'
  BY <1>33, Callers DEF Working, RewindStops, Stated
<1>34. ASSUME NEW s \in Rewindable, RewriteLocks(s) PROVE Working'
  BY <1>34, Callers DEF Working, RewriteLocks, Stated
<1>35. ASSUME NEW s \in Rewindable, RewindSubmits(s) PROVE Working'
  BY <1>35, Callers DEF Working, RewindSubmits, Stated
<1> QED
  BY <1>1, <1>2, <1>3, <1>4, <1>5, <1>6, <1>7, <1>8, <1>9, <1>10,
     <1>11, <1>12, <1>13, <1>14, <1>15, <1>16, <1>17, <1>18, <1>19,
     <1>20, <1>21, <1>22, <1>23, <1>24, <1>25, <1>26, <1>27, <1>28,
     <1>29, <1>30, <1>31, <1>32, <1>33, <1>34, <1>35
     DEF Next, Calls, ClientCalls, RewindSteps, Sweeping, Shutdown

-----------------------------------------------------------------------------
(***************************************************************************)
(* Who has the lease.                                                      *)
(***************************************************************************)
(* A step that neither opens nor closes a session, nor begins or ends a       *)
(* recovery or a rewriting, leaves the leases in order.                       *)
LEMMA OwnedFrame ==
  ASSUME Owned, UNCHANGED <<closing, lease>>, Open' = Open, Cleared' = Cleared,
         \A s \in Sessions : rewind'[s] = "rewriting" <=> rewind[s] = "rewriting",
         \A c \in Resumers :
            /\ call'[c].at = "recovering" <=> call[c].at = "recovering"
            /\ call[c].at = "recovering" => call'[c].on = call[c].on
  PROVE  Owned'
BY DEF Owned, Rewriting

(* The host clears #open in one step; until then, and while it closes what was  *)
(* there, these are the same sessions.                                         *)
LEMMA SameCleared ==
  ASSUME host' = host \/ (Running /\ Running')
  PROVE  Cleared' = Cleared
BY DEF Cleared, Running

(* A resume that recovers has the lease of a session that is free. *)
LEMMA RecoversAlone ==
  ASSUME Called, Linked, Owned, NEW c \in Resumers, call[c].at = "recovering"
  PROVE  LET s == call[c].on IN
         /\ s \in Sessions /\ lease[s] = c
         /\ rewind[s] # "rewriting" /\ closing[s] = "no" /\ s \notin Open \cup Cleared
<1> DEFINE s == call[c].on
<1>1. s \in Sessions /\ lease[s] = c
  BY DEF Called, Owned
<1>2. rewind[s] # "rewriting"
  <2> SUFFICES ASSUME rewind[s] = "rewriting" PROVE FALSE
    OBVIOUS
  <2>1. s \in Rewindable /\ c = Rewinder(s)
    BY <1>1 DEF Owned, Rewriting
  <2> QED
    BY <1>1, <2>1, Callers DEF Linked, RewritesClose, RewindCalls, Owned
<1> QED
  BY <1>1, <1>2, OwnersAssumption DEF Owned

(* Every step keeps the leases with the handles and the recovering resumes. *)
LEMMA OwnedKept ==
  ASSUME Typed, Linked, Owned, Handling, Handling', [Next]_vars
  PROVE  Owned'
<1>0. /\ Ordered /\ Called /\ Stated /\ IsQueueOf(recent, Open)
      /\ Cleared \subseteq Sessions
  BY DEF Typed, Ordered, Cleared, Stated
<1> USE <1>0
<1>1. ASSUME UNCHANGED vars PROVE Owned'
  BY <1>1, SameOpen, OwnedFrame, SameCleared DEF vars
<1>2. ASSUME NEW c \in Resumers, ResumeWakes(c) PROVE Owned'
  BY <1>2, TouchedOpen, ResumedJoins, JoinsTyped, OwnedFrame, SameCleared
  DEF ResumeWakes, Called
<1>3. ASSUME NEW c \in Resumers, StorageOpens(c) PROVE Owned'
  <2> DEFINE s == call[c].on
  <2>1. /\ s \in Sessions /\ Open' = Open /\ closing' = closing /\ rewind' = rewind
        /\ Cleared' = Cleared /\ call[c].at = "opening"
    BY <1>3, SameOpen, SameCleared DEF Called, StorageOpens
  <2>2. CASE lease' = lease
    <3>1. PICK at \in {"failed", "locked"} : call' = [call EXCEPT ![c].at = at]
      BY <1>3, <2>1, <2>2, OwnersAssumption DEF StorageOpens, Stated
    <3>2. /\ call'[c].at = at
          /\ \A d \in Resumers \ {c} : call'[d] = call[d]
      BY <3>1, MovedCalls DEF Places, Opening
    <3> QED
      BY <2>1, <2>2, <3>2, OwnedFrame, SameCleared
  <2>3. CASE lease' # lease
    <3>1. /\ lease[s] = None /\ lease' = [lease EXCEPT ![s] = c]
          /\ call' = [call EXCEPT ![c].at = "recovering"]
      BY <1>3, <2>3 DEF StorageOpens
    <3>2. /\ call'[c].at = "recovering" /\ call'[c].on = s
          /\ \A d \in Resumers \ {c} : call'[d] = call[d]
      BY <3>1, MovedCalls DEF Places, Opening
    <3>3. \A t \in Sessions : lease'[t] = IF t = s THEN c ELSE lease[t]
      BY <3>1, <2>1 DEF Stated
    <3>4. rewind[s] # "rewriting" /\ s \notin Open \cup Cleared /\ closing[s] = "no"
      BY <2>1, <3>1, OwnersAssumption, Callers DEF Owned, Rewriting
    <3> HIDE DEF s
    <3> QED
      BY <2>1, <3>1, <3>2, <3>3, <3>4, OwnersAssumption DEF Owned, Rewriting, Ordered, Called
  <2> QED
    BY <2>2, <2>3
<1>4. ASSUME NEW c \in Resumers, Recovers(c) PROVE Owned'
  <2> DEFINE s == call[c].on
  <2>1. /\ s \in Sessions /\ lease[s] = c /\ call[c].at = "recovering"
        /\ closing' = closing /\ rewind' = rewind /\ Cleared' = Cleared
    BY <1>4, SameCleared DEF Called, Recovers, Owned, Rewriting
  <2>2. s \notin Open \cup Cleared /\ rewind[s] # "rewriting"
    BY <2>1, RecoversAlone
  <2>3. Open' = Open \cup {s}
    BY <1>4, <2>2, EnteredOpen DEF Recovers
  <2>4. /\ call'[c].at = "ok"
        /\ \A d \in Resumers \ {c} : call'[d] = call[d]
    BY <1>4, MovedCalls DEF Recovers, Places, Opening
  <2>5. \A t \in Sessions : lease'[t] = IF t = s THEN Handle ELSE lease[t]
    BY <1>4, <2>1, <2>2 DEF Recovers, Stated
  <2>6. closing[s] = "no"
    BY <2>1, RecoversAlone
  <2> HIDE DEF s
  <2> QED
    BY <2>1, <2>2, <2>3, <2>4, <2>5, <2>6, OwnersAssumption DEF Owned, Rewriting, Ordered, Called
<1>5. ASSUME NEW c \in Resumers, RecoveryFails(c) PROVE Owned'
  <2> DEFINE s == call[c].on
  <2>1. /\ s \in Sessions /\ lease[s] = c
        /\ closing' = closing /\ Open' = Open /\ rewind' = rewind /\ Cleared' = Cleared
    BY <1>5, SameOpen, SameCleared DEF Called, RecoveryFails, Owned, Rewriting
  <2>2. /\ call'[c].at = "failed"
        /\ \A d \in Resumers \ {c} : call'[d] = call[d]
    BY <1>5, MovedCalls DEF RecoveryFails, Places, Opening
  <2>3. \A t \in Sessions : lease'[t] = IF t = s THEN None ELSE lease[t]
    BY <1>5, <2>1 DEF RecoveryFails, Stated
  <2>4. /\ call[c].at = "recovering" /\ call[c].on = s
        /\ rewind[s] # "rewriting" /\ closing[s] = "no" /\ s \notin Open \cup Cleared
    BY <1>5, RecoversAlone DEF RecoveryFails
  <2> HIDE DEF s
  <2> QED
    BY <2>1, <2>2, <2>3, <2>4, OwnersAssumption DEF Owned, Rewriting, Ordered, Called
<1>6. ASSUME NEW c \in Clients, NEW s \in Sessions, ClientResumes(c, s) PROVE Owned'
  BY <1>6, TouchedOpen, ResumedJoins, JoinsTyped, Callers, OwnedFrame, SameCleared
  DEF ClientResumes, Called
<1>7. ASSUME NEW c \in Clients, ClientEnds(c) PROVE Owned'
  BY <1>7, SameOpen, HungUp, Callers, OwnedFrame, SameCleared DEF ClientEnds, Answered
<1>8. ASSUME NEW c \in Clients, Submits(c) PROVE Owned'
  BY <1>8, SameOpen, HungUp, Callers, OwnedFrame, SameCleared DEF Submits, Answered
<1>9. ASSUME NEW s \in Sessions, OpenManager(s) PROVE Owned'
  BY <1>9, TouchedOpen, ResumedJoins, JoinsTyped, Callers, OwnedFrame, SameCleared
     DEF OpenManager, Linked, ManagerCalls
<1>10. ASSUME NEW s \in Sessions, ManagerSettles(s) PROVE Owned'
  <2>1. \A t \in Sessions : rewind'[t] = "rewriting" <=> rewind[t] = "rewriting"
    BY <1>10, ThrownStages DEF ManagerSettles, Stated, Stages
  <2> QED
    BY <1>10, <2>1, SameOpen, HungUp, Callers, OwnedFrame, SameCleared DEF ManagerSettles, Answered
<1>11. ASSUME NEW s \in Sessions, WorkEnds(s) PROVE Owned'
  BY <1>11, SameOpen, OwnedFrame, SameCleared DEF WorkEnds
<1>12. ASSUME NEW ids \in Views, SetObserved(ids) PROVE Owned'
  BY <1>12, ShownOpen, OwnedFrame, SameCleared DEF SetObserved
<1>13. ASSUME SweepStarts PROVE Owned'
  BY <1>13, SameOpen, OwnedFrame, SameCleared DEF SweepStarts
<1>14. ASSUME SweepReleases PROVE Owned'
  <2>1. call' = call /\ lease' = lease /\ Cleared' = Cleared
    BY <1>14, SameCleared DEF SweepReleases
  <2>0. \A t \in Sessions : rewind'[t] = "rewriting" <=> rewind[t] = "rewriting"
    BY <1>14 DEF SweepReleases, Stated
  <2>2. CASE closing' = closing /\ recent' = recent
    BY <2>0, <2>1, <2>2, SameOpen, OwnedFrame, SameCleared
  <2>3. CASE ~(closing' = closing /\ recent' = recent)
    <3>1. PICK s \in Open : /\ closing' = [closing EXCEPT ![s] = "release"]
                           /\ recent' = Without(recent, {s})
      BY <1>14, <2>3 DEF SweepReleases, StillReleasable, IsReleasable
    <3>2. Open' = Open \ {s}
      BY <3>1, LeftOpen
    <3>3. \A t \in Sessions : closing'[t] = IF t = s THEN "release" ELSE closing[t]
      BY <3>1 DEF Stated
    <3>4. lease[s] = Handle
      BY <3>1 DEF Owned, Rewriting, Ordered
    <3>5. rewind[s] # "rewriting"
      BY <3>1, <3>4, OwnersAssumption, LifeAssumption
      DEF Owned, Rewriting, Ordered, Stated, Handle, Rewinder, Linked, RewritesClose
    <3> QED
      BY <2>0, <2>1, <3>1, <3>2, <3>3, <3>4, <3>5 DEF Owned, Rewriting, Ordered
  <2> QED
    BY <2>2, <2>3
<1>15. ASSUME SweepEnds PROVE Owned'
  BY <1>15, SameOpen, OwnedFrame, SameCleared DEF SweepEnds
<1>16. ASSUME NEW s \in Sessions, Released(s) PROVE Owned'
  <2>1. Open' = Open /\ Cleared' = Cleared /\ call' = call /\ closing[s] = "release"
    BY <1>16, SameOpen, SameCleared DEF Released
  <2>2. \A t \in Sessions : /\ lease'[t] = IF t = s THEN None ELSE lease[t]
                            /\ closing'[t] = IF t = s THEN "no" ELSE closing[t]
    BY <1>16 DEF Released, Stated
  <2>3. rewind[s] # "rewriting"
    BY <2>1 DEF Linked, RewritesClose
  <2>4. lease[s] = Handle /\ s \notin Open \cup Cleared
    BY <2>1, <2>3 DEF Owned, Rewriting
  <2>5. \A t \in Sessions : rewind'[t] = "rewriting" <=> rewind[t] = "rewriting"
    BY <1>16 DEF Released, Stated
  <2> QED
    BY <2>1, <2>2, <2>3, <2>4, <2>5, OwnersAssumption DEF Owned, Rewriting, Ordered, Called
<1>17. ASSUME NEW s \in Rewindable, RewindHolds(s) PROVE Owned'
  BY <1>17, SameOpen, OwnedFrame, SameCleared DEF RewindHolds, Held, Stated
<1>18. ASSUME NEW s \in Rewindable, RewindRefused(s) PROVE Owned'
  BY <1>18, SameOpen, OwnedFrame, SameCleared DEF RewindRefused, Held, Stated
<1>19. ASSUME NEW s \in Rewindable, RewindResumes(s) PROVE Owned'
  BY <1>19, TouchedOpen, ResumedJoins, JoinsTyped, Callers, OwnedFrame, SameCleared
     DEF RewindResumes, Linked, RewindCalls, Stated
<1>20. ASSUME NEW s \in Rewindable, RewriteStarts(s) PROVE Owned'
  <2>1. /\ call'[Rewinder(s)].at = "idle" /\ call[Rewinder(s)].at # "recovering"
        /\ \A d \in Resumers \ {Rewinder(s)} : call'[d] = call[d]
        /\ Cleared' = Cleared
    BY <1>20, HungUp, SameCleared, Callers DEF RewriteStarts, Answered
  <2>0. \A t \in Sessions : rewind'[t] = "rewriting" <=> rewind[t] = "rewriting"
    BY <1>20 DEF RewriteStarts, Stated
  <2>2. CASE closing' = closing
    BY <1>20, <2>0, <2>1, <2>2, SameOpen, OwnedFrame, SameCleared, Callers
    DEF RewriteStarts, Stated
  <2>3. CASE closing' # closing
    <3>1. s \in Open /\ closing' = [closing EXCEPT ![s] = "rewrite"] /\ lease' = lease
      BY <1>20, <2>3 DEF RewriteStarts
    <3>2. Open' = Open \ {s}
      BY <1>20, <2>3, LeftOpen DEF RewriteStarts
    <3>3. rewind[s] # "rewriting" /\ s \in Sessions
      BY <1>20, Callers DEF RewriteStarts
    <3>4. \A t \in Sessions : closing'[t] = IF t = s THEN "rewrite" ELSE closing[t]
      BY <3>1 DEF Stated
    <3> QED
      BY <2>0, <2>1, <3>1, <3>2, <3>3, <3>4, Callers DEF Owned, Rewriting, Ordered
  <2> QED
    BY <2>2, <2>3
<1>21. ASSUME NEW s \in Rewindable, RewriteEnds(s) PROVE Owned'
  <2>0. Rewinder(s) \in Resumers /\ s \in Sessions
    BY Callers
  <2>1. /\ Open' = Open /\ closing[s] = "rewrite" /\ s \in Sessions
        /\ rewind[s] = "rewriting" /\ call[Rewinder(s)].at = "idle"
        /\ lease' = [lease EXCEPT ![s] = None] /\ Cleared' = Cleared
    BY <1>21, SameOpen, SameCleared, Callers DEF RewriteEnds, Linked, RewritesClose, RewindCalls
  <2>2. PICK stage \in {"restoring", "reopening"} : Reopens(s, stage)
    BY <1>21 DEF RewriteEnds
  <2>3. \A t \in Sessions : /\ lease'[t] = IF t = s THEN None ELSE lease[t]
                            /\ closing'[t] = IF t = s THEN "no" ELSE closing[t]
                            /\ t = s => rewind'[t] # "rewriting"
                            /\ t # s => rewind'[t] = rewind[t]
    <3>1. /\ closing' = [closing EXCEPT ![s] = "no"]
          /\ rewind' = [rewind EXCEPT ![s] = stage] /\ stage # "rewriting"
      BY <2>2 DEF Reopens
    <3>2. \A t \in Sessions : lease'[t] = IF t = s THEN None ELSE lease[t]
      BY <2>1 DEF Stated
    <3>3. \A t \in Sessions : closing'[t] = IF t = s THEN "no" ELSE closing[t]
      BY <3>1 DEF Stated
    <3>4. \A t \in Sessions : rewind'[t] = IF t = s THEN stage ELSE rewind[t]
      BY <3>1 DEF Stated
    <3> QED
      BY <3>1, <3>2, <3>3, <3>4
  <2>4. lease[s] = Rewinder(s) /\ s \notin Open \cup Cleared /\ lease[s] # Handle
    BY <2>0, <2>1, OwnersAssumption DEF Owned, Rewriting
  <2>5. /\ call'[Rewinder(s)].at # "recovering"
        /\ \A d \in Resumers \ {Rewinder(s)} :
              call'[d].at = call[d].at /\ call'[d].on = call[d].on
    BY <2>2, RewriteJoins, JoinsTyped, Callers
  <2> QED
    BY <2>0, <2>1, <2>3, <2>4, <2>5, OwnersAssumption DEF Owned, Rewriting, Ordered, Called
<1>22. ASSUME NEW s \in Rewindable, RewindFails(s) PROVE Owned'
  BY <1>22, SameOpen, HungUp, Callers, OwnedFrame, SameCleared DEF RewindFails, Answered, Stated
<1>23. ASSUME NEW s \in Rewindable, RewindReopened(s) PROVE Owned'
  BY <1>23, SameOpen, HungUp, Callers, OwnedFrame, SameCleared DEF RewindReopened, Answered, Stated
<1>24. ASSUME NEW s \in Rewindable, RewindAnnounces(s) PROVE Owned'
  <2>1. \A t \in Sessions : rewind'[t] = "rewriting" <=> rewind[t] = "rewriting"
    BY <1>24, ThrownStages DEF RewindAnnounces, Stated, Stages
  <2> QED
    BY <1>24, <2>1, SameOpen, OwnedFrame, SameCleared DEF RewindAnnounces
<1>25. ASSUME NEW s \in Rewindable, RewindThrows(s) PROVE Owned'
  BY <1>25, SameOpen, OwnedFrame, SameCleared DEF RewindThrows, Stated
<1>26. ASSUME Quiesce PROVE Owned'
  BY <1>26, SameOpen, OwnedFrame, SameCleared DEF Quiesce, Running, Stated
<1>27. ASSUME CloseAll PROVE Owned'
  BY <1>27, SameOpen, OwnedFrame, SameCleared DEF CloseAll, Running, Stated
<1>28. ASSUME AwaitClosings PROVE Owned'
  BY <1>28, SameOpen, OwnedFrame, SameCleared DEF AwaitClosings, Running, Stated
<1>29. ASSUME ClearOpen PROVE Owned'
  <2>1. Open' = {} /\ Cleared' = Open /\ Cleared = {} /\ UNCHANGED <<closing, lease, call>>
    BY <1>29, ClearedOpen DEF ClearOpen, Cleared
  <2>2. \A t \in Sessions : rewind'[t] = "rewriting" <=> rewind[t] = "rewriting"
    BY <1>29 DEF ClearOpen, Stated
  <2> QED
    BY <2>1, <2>2 DEF Owned, Rewriting
<1>30. ASSUME StorageCloses PROVE Owned'
  BY <1>30 DEF StorageCloses, Handling, Running
<1>31. ASSUME HostDown PROVE Owned'
  BY <1>31 DEF HostDown, Handling, Running, Stated
<1>32. ASSUME NEW c \in Resumers, Submission(c) PROVE Owned'
  BY <1>32, SameOpen, SubmissionSteps, OwnedFrame, SameCleared
<1>33. ASSUME NEW s \in Rewindable, RewindStops(s) PROVE Owned'
  BY <1>33, SameOpen, Callers, OwnedFrame, SameCleared DEF RewindStops, Stated
<1>34. ASSUME NEW s \in Rewindable, RewriteLocks(s) PROVE Owned'
  <2>1. /\ Open' = Open /\ closing[s] = "rewrite" /\ s \in Sessions
        /\ rewind[s] = "closing" /\ call[Rewinder(s)].at = "idle" /\ Cleared' = Cleared
    BY <1>34, SameOpen, SameCleared, Callers DEF RewriteLocks, Linked, RewritesClose, RewindCalls
  <2>2. lease[s] = Handle /\ s \notin Open \cup Cleared
    BY <2>1 DEF Owned, Rewriting
  <2>3. CASE UNCHANGED <<closing, call>> /\ rewind' = [rewind EXCEPT ![s] = "rewriting"]
             /\ lease' = [lease EXCEPT ![s] = Rewinder(s)]
    <3>1. \A t \in Sessions :
             /\ lease'[t] = IF t = s THEN Rewinder(s) ELSE lease[t]
             /\ rewind'[t] = IF t = s THEN "rewriting" ELSE rewind[t]
      BY <2>3 DEF Stated
    <3> QED
      BY <2>1, <2>2, <2>3, <3>1, OwnersAssumption, Callers DEF Owned, Rewriting, Ordered, Called
  <2>4. CASE lease' = [lease EXCEPT ![s] = None] /\ Reopens(s, "restoring")
    <3>1. \A t \in Sessions :
             /\ lease'[t] = IF t = s THEN None ELSE lease[t]
             /\ closing'[t] = IF t = s THEN "no" ELSE closing[t]
             /\ rewind'[t] = IF t = s THEN "restoring" ELSE rewind[t]
      BY <2>4 DEF Reopens, Stated
    <3>2. /\ call'[Rewinder(s)].at # "recovering"
          /\ \A d \in Resumers \ {Rewinder(s)} :
                call'[d].at = call[d].at /\ call'[d].on = call[d].on
      BY <2>4, RewriteJoins, JoinsTyped, Callers
    <3> QED
      BY <2>1, <2>2, <3>1, <3>2, OwnersAssumption, Callers DEF Owned, Rewriting, Ordered, Called
  <2> QED
    BY <1>34, <2>3, <2>4 DEF RewriteLocks
<1>35. ASSUME NEW s \in Rewindable, RewindSubmits(s) PROVE Owned'
  BY <1>35, SameOpen, Callers, OwnedFrame, SameCleared DEF RewindSubmits, Stated
<1> QED
  BY <1>1, <1>2, <1>3, <1>4, <1>5, <1>6, <1>7, <1>8, <1>9, <1>10,
     <1>11, <1>12, <1>13, <1>14, <1>15, <1>16, <1>17, <1>18, <1>19,
     <1>20, <1>21, <1>22, <1>23, <1>24, <1>25, <1>26, <1>27, <1>28,
     <1>29, <1>30, <1>31, <1>32, <1>33, <1>34, <1>35
     DEF Next, Calls, ClientCalls, RewindSteps, Sweeping, Shutdown

(* A rewind does not resume its session while it rewrites the journal. *)
LEMMA RewritesIdle ==
  ASSUME Linked, NEW s \in Sessions, Rewinder(s) \in Resumers, rewind[s] = "rewriting"
  PROVE  call[Rewinder(s)].at = "idle"
<1>1. s \in Rewindable
  BY Callers DEF Resumers
<1> QED
  BY <1>1 DEF Linked, RewindCalls, RewritesClose

(* Every step leaves the lease to the rewrites that go on. *)
LEMMA RewritingKept ==
  ASSUME Typed, Linked, Rewriting, Handling => Owned, [Next]_vars
  PROVE  Rewriting'
<1>0. Called /\ Stated
  BY DEF Typed
<1> USE <1>0
<1>1. ASSUME UNCHANGED vars PROVE Rewriting'
  BY <1>1 DEF Rewriting, vars
<1>2. ASSUME NEW c \in Resumers, ResumeWakes(c) PROVE Rewriting'
  BY <1>2 DEF Rewriting, ResumeWakes
<1>3. ASSUME NEW c \in Resumers, StorageOpens(c) PROVE Rewriting'
  BY <1>3, OwnersAssumption, Callers DEF Rewriting, StorageOpens, Stated, Called
<1>4. ASSUME NEW c \in Resumers, Recovers(c) PROVE Rewriting'
  <2>1. call[c].on \in Sessions
    BY <1>4 DEF Recovers, Called
  <2>2. rewind' = rewind /\ \A t \in Sessions : lease'[t] = lease[t] \/ lease[t] = c
    BY <1>4, <2>1 DEF Recovers, Stated
  <2>3. ASSUME NEW t \in Sessions, lease[t] = c, c = Rewinder(t)
        PROVE  rewind[t] # "rewriting"
    BY <1>4, <2>3, RewritesIdle DEF Recovers
  <2> QED
    BY <2>2, <2>3, OwnersAssumption DEF Rewriting
<1>5. ASSUME NEW c \in Resumers, RecoveryFails(c) PROVE Rewriting'
  <2>1. call[c].on \in Sessions
    BY <1>5 DEF RecoveryFails, Called
  <2>2. rewind' = rewind /\ \A t \in Sessions : lease'[t] = lease[t] \/ lease[t] = c
    BY <1>5, <2>1 DEF RecoveryFails, Stated
  <2>3. ASSUME NEW t \in Sessions, lease[t] = c, c = Rewinder(t)
        PROVE  rewind[t] # "rewriting"
    BY <1>5, <2>3, RewritesIdle DEF RecoveryFails
  <2> QED
    BY <2>2, <2>3, OwnersAssumption DEF Rewriting
<1>6. ASSUME NEW c \in Clients, NEW s \in Sessions, ClientResumes(c, s) PROVE Rewriting'
  BY <1>6 DEF Rewriting, ClientResumes
<1>7. ASSUME NEW c \in Clients, ClientEnds(c) PROVE Rewriting'
  BY <1>7 DEF Rewriting, ClientEnds
<1>8. ASSUME NEW c \in Clients, Submits(c) PROVE Rewriting'
  BY <1>8 DEF Rewriting, Submits
<1>9. ASSUME NEW s \in Sessions, OpenManager(s) PROVE Rewriting'
  BY <1>9 DEF Rewriting, OpenManager
<1>10. ASSUME NEW s \in Sessions, ManagerSettles(s) PROVE Rewriting'
  <2>1. \A t \in Sessions : rewind'[t] = "rewriting" => rewind[t] = "rewriting"
    BY <1>10, ThrownStages DEF ManagerSettles, Stated, Stages
  <2> QED
    BY <1>10, <2>1 DEF Rewriting, ManagerSettles
<1>11. ASSUME NEW s \in Sessions, WorkEnds(s) PROVE Rewriting'
  BY <1>11 DEF Rewriting, WorkEnds
<1>12. ASSUME NEW ids \in Views, SetObserved(ids) PROVE Rewriting'
  BY <1>12 DEF Rewriting, SetObserved
<1>13. ASSUME SweepStarts PROVE Rewriting'
  BY <1>13 DEF Rewriting, SweepStarts
<1>14. ASSUME SweepReleases PROVE Rewriting'
  BY <1>14, Callers DEF Rewriting, SweepReleases, Held, Stated
<1>15. ASSUME SweepEnds PROVE Rewriting'
  BY <1>15 DEF Rewriting, SweepEnds
<1>16. ASSUME NEW s \in Sessions, Released(s) PROVE Rewriting'
  <2>1. rewind[s] # "rewriting"
    BY <1>16 DEF Released, Linked, RewritesClose
  <2> QED
    BY <1>16, <2>1 DEF Rewriting, Released, Stated
<1>17. ASSUME NEW s \in Rewindable, RewindHolds(s) PROVE Rewriting'
  BY <1>17, Callers DEF Rewriting, RewindHolds, Held, Stated
<1>18. ASSUME NEW s \in Rewindable, RewindRefused(s) PROVE Rewriting'
  BY <1>18, Callers DEF Rewriting, RewindRefused, Held, Stated
<1>19. ASSUME NEW s \in Rewindable, RewindResumes(s) PROVE Rewriting'
  BY <1>19, Callers DEF Rewriting, RewindResumes, Held, Stated
<1>20. ASSUME NEW s \in Rewindable, RewriteStarts(s) PROVE Rewriting'
  BY <1>20, Callers DEF Rewriting, RewriteStarts, Held, Stated
<1>21. ASSUME NEW s \in Rewindable, RewriteEnds(s) PROVE Rewriting'
  <2>1. /\ lease' = [lease EXCEPT ![s] = None]
        /\ \E stage \in {"restoring", "reopening"} : rewind' = [rewind EXCEPT ![s] = stage]
    BY <1>21 DEF RewriteEnds, Reopens
  <2> QED
    BY <2>1, Callers DEF Rewriting, Stated
<1>22. ASSUME NEW s \in Rewindable, RewindFails(s) PROVE Rewriting'
  BY <1>22, Callers DEF Rewriting, RewindFails, Held, Stated
<1>23. ASSUME NEW s \in Rewindable, RewindReopened(s) PROVE Rewriting'
  BY <1>23, Callers DEF Rewriting, RewindReopened, Held, Stated
<1>24. ASSUME NEW s \in Rewindable, RewindAnnounces(s) PROVE Rewriting'
  <2>1. \A t \in Sessions : rewind'[t] = "rewriting" => rewind[t] = "rewriting"
    BY <1>24, ThrownStages DEF RewindAnnounces, Stated, Stages
  <2> QED
    BY <1>24, <2>1 DEF Rewriting, RewindAnnounces
<1>25. ASSUME NEW s \in Rewindable, RewindThrows(s) PROVE Rewriting'
  BY <1>25, Callers DEF Rewriting, RewindThrows, Held, Stated
<1>26. ASSUME Quiesce PROVE Rewriting'
  BY <1>26 DEF Rewriting, Quiesce
<1>27. ASSUME CloseAll PROVE Rewriting'
  BY <1>27 DEF Rewriting, CloseAll
<1>28. ASSUME AwaitClosings PROVE Rewriting'
  BY <1>28 DEF Rewriting, AwaitClosings
<1>29. ASSUME ClearOpen PROVE Rewriting'
  BY <1>29, Callers DEF Rewriting, ClearOpen, Held, Stated
<1>30. ASSUME StorageCloses PROVE Rewriting'
  <2>1. \A t \in host.of : closing[t] = "no"
    BY <1>30 DEF StorageCloses, Handling, Owned, Cleared
  <2>2. \A t \in Sessions : rewind[t] = "rewriting" => lease'[t] = lease[t]
    BY <1>30, <2>1 DEF StorageCloses, Stated, Linked, RewritesClose
  <2> QED
    BY <1>30, <2>2 DEF Rewriting, StorageCloses
<1>31. ASSUME HostDown PROVE Rewriting'
  BY <1>31, Callers DEF Rewriting, HostDown, Held, Stated
<1>32. ASSUME NEW c \in Resumers, Submission(c) PROVE Rewriting'
  BY <1>32, SubmissionSteps DEF Rewriting
<1>33. ASSUME NEW s \in Rewindable, RewindStops(s) PROVE Rewriting'
  BY <1>33, Callers DEF Rewriting, RewindStops, Held, Stated
<1>34. ASSUME NEW s \in Rewindable, RewriteLocks(s) PROVE Rewriting'
  <2>1. \/ /\ lease' = [lease EXCEPT ![s] = Rewinder(s)]
           /\ rewind' = [rewind EXCEPT ![s] = "rewriting"]
        \/ /\ lease' = [lease EXCEPT ![s] = None]
           /\ rewind' = [rewind EXCEPT ![s] = "restoring"]
    BY <1>34 DEF RewriteLocks, Reopens
  <2> QED
    BY <2>1, Callers DEF Rewriting, Stated
<1>35. ASSUME NEW s \in Rewindable, RewindSubmits(s) PROVE Rewriting'
  BY <1>35, Callers DEF Rewriting, RewindSubmits, Held, Stated
<1> QED
  BY <1>1, <1>2, <1>3, <1>4, <1>5, <1>6, <1>7, <1>8, <1>9, <1>10,
     <1>11, <1>12, <1>13, <1>14, <1>15, <1>16, <1>17, <1>18, <1>19,
     <1>20, <1>21, <1>22, <1>23, <1>24, <1>25, <1>26, <1>27, <1>28,
     <1>29, <1>30, <1>31, <1>32, <1>33, <1>34, <1>35
     DEF Next, Calls, ClientCalls, RewindSteps, Sweeping, Shutdown

-----------------------------------------------------------------------------
(***************************************************************************)
(* Who opens a session alone.                                              *)
(***************************************************************************)
(* A step that takes no session that is free, and starts no opening, leaves a  *)
(* lone resume alone.                                                          *)
LEMMA LoneFrame ==
  ASSUME Lone, Called,
         \A s \in Sessions : s \notin Open /\ closing[s] = "no"
                               => s \notin Open' /\ closing'[s] = "no",
         \A c \in Resumers :
            /\ call'[c].at \in Opening => call[c].at \in Opening /\ call'[c].on = call[c].on
            /\ call'[c].at = "opening" => /\ call[c].at = "opening"
                                          /\ call[c].rival => call'[c].rival
            /\ call'[c].at = "locked" => /\ call[c].at = "locked"
                                         /\ call[c].rival => call'[c].rival
  PROVE  Lone'
BY DEF Lone, Called, Opening

(* A call that enters resume tells those that open the same session. *)
LEMMA LoneJoins ==
  ASSUME Lone, Called, Open' = Open,
         \A s \in Sessions : closing[s] = "no" => closing'[s] = "no",
         NEW c \in Resumers, NEW s \in Sessions, Joins(c, s), call[c].at \notin Opening
  PROVE  Lone'
<1>1. PICK at \in {"ok", "waiting", "opening"} :
        /\ call' = Entered(c, s, at)
        /\ at = "opening" => s \notin Open /\ closing'[s] = "no"
  BY DEF Joins
<1>2. at \in Places
  BY DEF Places, Opening
<1>3. /\ call'[c].at = at /\ call'[c].on = s
      /\ call'[c].rival <=> at = "opening" /\ Contested(c, s)
  BY <1>1, <1>2, EnteredCalls
<1>4. \A d \in Resumers \ {c} :
        /\ call'[d].at = call[d].at /\ call'[d].on = call[d].on
        /\ call[d].rival => call'[d].rival
        /\ at = "opening" /\ call[d].on = s /\ call[d].at \in Opening => call'[d].rival
  BY <1>1, <1>2, EnteredCalls
<1>5. ASSUME NEW d \in Resumers, call'[d].at = "opening", ~call'[d].rival
      PROVE  /\ \A e \in Resumers \ {d} :
                  call'[e].on = call'[d].on => call'[e].at \notin Opening
             /\ call'[d].on \notin Open /\ closing'[call'[d].on] = "no"
  <2>1. CASE d = c
    BY <1>1, <1>3, <1>4, <1>5, <2>1 DEF Contested
  <2>2. CASE d # c
    <3>1. call[d].at = "opening" /\ ~call[d].rival /\ call[d].on \in Sessions
      BY <1>4, <1>5, <2>2 DEF Called
    <3>2. at = "opening" => call[d].on # s
      BY <1>4, <1>5, <2>2, <3>1 DEF Opening
    <3>3. at # "opening" => at \notin Opening
      BY <1>1 DEF Opening
    <3> QED
      BY <1>3, <1>4, <2>2, <3>1, <3>2, <3>3 DEF Lone
  <2> QED
    BY <2>1, <2>2
<1>6. ASSUME NEW d \in Resumers, call'[d].at = "locked" PROVE call'[d].rival
  <2>1. d # c
    BY <1>1, <1>3, <1>6
  <2> QED
    BY <1>4, <1>6, <2>1 DEF Lone
<1> QED
  BY <1>5, <1>6 DEF Lone

(* Every step keeps lone resumes alone. *)
LEMMA LoneKept ==
  ASSUME Typed, Linked, Owned, Lone, Running, Running', [Next]_vars
  PROVE  Lone'
<1>0. /\ Ordered /\ Called /\ Stated /\ IsQueueOf(recent, Open)
      /\ Cleared = {}
  BY DEF Typed, Ordered, Cleared, Running
<1> USE <1>0
<1>1. ASSUME UNCHANGED vars PROVE Lone'
  BY <1>1, SameOpen, LoneFrame DEF vars
<1>2. ASSUME NEW c \in Resumers, ResumeWakes(c) PROVE Lone'
  BY <1>2, TouchedOpen, ResumedJoins, Callers, LoneJoins
     DEF ResumeWakes, Opening, Called
<1>3. ASSUME NEW c \in Resumers, StorageOpens(c) PROVE Lone'
  <2> DEFINE s == call[c].on
  <2>1. s \in Sessions /\ Open' = Open /\ closing' = closing /\ call[c].at = "opening"
    BY <1>3, SameOpen DEF Called, StorageOpens
  <2>2. PICK at \in {"recovering", "locked"} :
          call' = [call EXCEPT ![c].at = at] /\ (at = "locked" => lease[s] # None)
    BY <1>3 DEF StorageOpens, StorageClosed, Running
  <2>3. /\ call'[c].at = at /\ call'[c].on = s /\ (call'[c].rival <=> call[c].rival)
        /\ \A d \in Resumers \ {c} : call'[d] = call[d]
    BY <2>2, MovedCalls DEF Places, Opening
  <2>4. ASSUME at = "locked" PROVE call[c].rival
    <3> SUFFICES ASSUME ~call[c].rival PROVE FALSE
      OBVIOUS
    <3>1. /\ s \notin Open /\ closing[s] = "no"
          /\ \A d \in Resumers \ {c} : call[d].on = s => call[d].at \notin Opening
      BY <2>1 DEF Lone
    <3>2. lease[s] \in Resumers
      BY <2>1, <2>2, <2>4, <3>1 DEF Owned, Stated
    <3>3. call[lease[s]].at = "recovering" /\ call[lease[s]].on = s
      BY <2>1, <3>1, <3>2 DEF Owned, Linked, RewritesClose
    <3> QED
      BY <2>1, <3>1, <3>2, <3>3 DEF Opening
  <2> HIDE DEF s
  <2> QED
    BY <2>1, <2>2, <2>3, <2>4 DEF Lone, Opening, s
<1>4. ASSUME NEW c \in Resumers, Recovers(c) PROVE Lone'
  <2> DEFINE s == call[c].on
  <2>1. s \in Sessions /\ lease[s] = c /\ closing' = closing /\ call[c].at = "recovering"
    BY <1>4 DEF Called, Recovers, Owned
  <2>2. s \notin Open
    BY <2>1, RecoversAlone
  <2>3. Open' = Open \cup {s}
    BY <1>4, <2>2, EnteredOpen DEF Recovers
  <2>4. /\ call'[c].at = "ok"
        /\ \A d \in Resumers \ {c} : call'[d] = call[d]
    BY <1>4, MovedCalls DEF Recovers, Places, Opening
  <2> HIDE DEF s
  <2> QED
    BY <2>1, <2>3, <2>4 DEF Lone, Opening, s
<1>5. ASSUME NEW c \in Resumers, RecoveryFails(c) PROVE Lone'
  <2>1. /\ call'[c].at = "failed"
        /\ \A d \in Resumers \ {c} : call'[d] = call[d]
    BY <1>5, MovedCalls DEF RecoveryFails, Places, Opening
  <2> QED
    BY <1>5, <2>1, SameOpen, LoneFrame DEF RecoveryFails, Opening
<1>6. ASSUME NEW c \in Clients, NEW s \in Sessions, ClientResumes(c, s) PROVE Lone'
  BY <1>6, TouchedOpen, ResumedJoins, Callers, LoneJoins
     DEF ClientResumes, Opening
<1>7. ASSUME NEW c \in Clients, ClientEnds(c) PROVE Lone'
  BY <1>7, SameOpen, HungUp, Callers, LoneFrame DEF ClientEnds, Opening
<1>8. ASSUME NEW c \in Clients, Submits(c) PROVE Lone'
  BY <1>8, SameOpen, HungUp, Callers, LoneFrame DEF Submits, Opening
<1>9. ASSUME NEW s \in Sessions, OpenManager(s) PROVE Lone'
  BY <1>9, TouchedOpen, ResumedJoins, Callers, LoneJoins
     DEF OpenManager, Opening, Linked, ManagerCalls
<1>10. ASSUME NEW s \in Sessions, ManagerSettles(s) PROVE Lone'
  BY <1>10, SameOpen, HungUp, Callers, LoneFrame DEF ManagerSettles, Opening
<1>11. ASSUME NEW s \in Sessions, WorkEnds(s) PROVE Lone'
  BY <1>11, SameOpen, LoneFrame DEF WorkEnds
<1>12. ASSUME NEW ids \in Views, SetObserved(ids) PROVE Lone'
  BY <1>12, ShownOpen, LoneFrame DEF SetObserved
<1>13. ASSUME SweepStarts PROVE Lone'
  BY <1>13, SameOpen, LoneFrame DEF SweepStarts
<1>14. ASSUME SweepReleases PROVE Lone'
  <2>1. \A t \in Sessions : t \notin Open /\ closing[t] = "no"
                            => t \notin Open' /\ closing'[t] = "no"
    BY <1>14, LeftOpen, SameOpen
    DEF SweepReleases, StillReleasable, IsReleasable, Stated
  <2> QED
    BY <1>14, <2>1, LoneFrame DEF SweepReleases
<1>15. ASSUME SweepEnds PROVE Lone'
  BY <1>15, SameOpen, LoneFrame DEF SweepEnds
<1>16. ASSUME NEW s \in Sessions, Released(s) PROVE Lone'
  BY <1>16, SameOpen, LoneFrame DEF Released, Stated
<1>17. ASSUME NEW s \in Rewindable, RewindHolds(s) PROVE Lone'
  BY <1>17, SameOpen, LoneFrame DEF RewindHolds
<1>18. ASSUME NEW s \in Rewindable, RewindRefused(s) PROVE Lone'
  BY <1>18, SameOpen, LoneFrame DEF RewindRefused
<1>19. ASSUME NEW s \in Rewindable, RewindResumes(s) PROVE Lone'
  BY <1>19, TouchedOpen, ResumedJoins, Callers, LoneJoins
     DEF RewindResumes, Opening, Linked, RewindCalls
<1>20. ASSUME NEW s \in Rewindable, RewriteStarts(s) PROVE Lone'
  <2>1. /\ call'[Rewinder(s)].at = "idle"
        /\ \A d \in Resumers \ {Rewinder(s)} : call'[d] = call[d]
    BY <1>20, HungUp, Callers DEF RewriteStarts, Answered
  <2>2. \A t \in Sessions : t \notin Open /\ closing[t] = "no"
                            => t \notin Open' /\ closing'[t] = "no"
    BY <1>20, LeftOpen, SameOpen DEF RewriteStarts, Stated
  <2> QED
    BY <2>1, <2>2, LoneFrame, Callers DEF Opening
<1>21. ASSUME NEW s \in Rewindable, RewriteEnds(s) PROVE Lone'
  <2>1. Open' = Open /\ Joins(Rewinder(s), s)
    BY <1>21, SameOpen, RewriteJoins DEF RewriteEnds
  <2>2. \A t \in Sessions : closing[t] = "no" => closing'[t] = "no"
    BY <1>21 DEF RewriteEnds, Reopens, Stated
  <2>3. call[Rewinder(s)].at \notin Opening
    BY <1>21 DEF RewriteEnds, Linked, RewindCalls, Opening
  <2> QED
    BY <2>1, <2>2, <2>3, LoneJoins, Callers
<1>22. ASSUME NEW s \in Rewindable, RewindFails(s) PROVE Lone'
  BY <1>22, SameOpen, HungUp, Callers, LoneFrame DEF RewindFails, Opening
<1>23. ASSUME NEW s \in Rewindable, RewindReopened(s) PROVE Lone'
  BY <1>23, SameOpen, HungUp, Callers, LoneFrame DEF RewindReopened, Opening
<1>24. ASSUME NEW s \in Rewindable, RewindAnnounces(s) PROVE Lone'
  BY <1>24, SameOpen, LoneFrame DEF RewindAnnounces
<1>25. ASSUME NEW s \in Rewindable, RewindThrows(s) PROVE Lone'
  BY <1>25, SameOpen, LoneFrame DEF RewindThrows
<1>26. ASSUME Quiesce PROVE Lone'
  BY <1>26, SameOpen, LoneFrame DEF Quiesce
<1>27. ASSUME CloseAll PROVE Lone'
  BY <1>27, SameOpen, LoneFrame DEF CloseAll
<1>28. ASSUME AwaitClosings PROVE Lone'
  BY <1>28, SameOpen, LoneFrame DEF AwaitClosings
<1>29. ASSUME ClearOpen PROVE Lone'
  BY <1>29 DEF ClearOpen, Running
<1>30. ASSUME StorageCloses PROVE Lone'
  BY <1>30 DEF StorageCloses, Running
<1>31. ASSUME HostDown PROVE Lone'
  BY <1>31 DEF HostDown, Running, Stated
<1>32. ASSUME NEW c \in Resumers, Submission(c) PROVE Lone'
  BY <1>32, SameOpen, SubmissionSteps, LoneFrame
<1>33. ASSUME NEW s \in Rewindable, RewindStops(s) PROVE Lone'
  BY <1>33, SameOpen, LoneFrame DEF RewindStops
<1>34. ASSUME NEW s \in Rewindable, RewriteLocks(s) PROVE Lone'
  <2>1. CASE UNCHANGED <<closing, call>>
    BY <1>34, <2>1, SameOpen, LoneFrame DEF RewriteLocks
  <2>2. CASE Reopens(s, "restoring")
    <3>1. Open' = Open /\ Joins(Rewinder(s), s)
      BY <1>34, <2>2, SameOpen, RewriteJoins DEF RewriteLocks
    <3>2. \A t \in Sessions : closing[t] = "no" => closing'[t] = "no"
      BY <2>2 DEF Reopens, Stated
    <3>3. call[Rewinder(s)].at \notin Opening
      BY <1>34 DEF RewriteLocks, Linked, RewindCalls, Opening
    <3> QED
      BY <3>1, <3>2, <3>3, LoneJoins, Callers
  <2> QED
    BY <1>34, <2>1, <2>2 DEF RewriteLocks
<1>35. ASSUME NEW s \in Rewindable, RewindSubmits(s) PROVE Lone'
  BY <1>35, SameOpen, LoneFrame DEF RewindSubmits
<1> QED
  BY <1>1, <1>2, <1>3, <1>4, <1>5, <1>6, <1>7, <1>8, <1>9, <1>10,
     <1>11, <1>12, <1>13, <1>14, <1>15, <1>16, <1>17, <1>18, <1>19,
     <1>20, <1>21, <1>22, <1>23, <1>24, <1>25, <1>26, <1>27, <1>28,
     <1>29, <1>30, <1>31, <1>32, <1>33, <1>34, <1>35
     DEF Next, Calls, ClientCalls, RewindSteps, Sweeping, Shutdown

-----------------------------------------------------------------------------
(***************************************************************************)
(* The invariant, and what follows from it.                                *)
(***************************************************************************)
(* At first nothing is open and nothing under way. *)
LEMMA IInvInit == Init => IInv
<1> SUFFICES ASSUME Init PROVE IInv
  OBVIOUS
<1>1. Open = {} /\ Ordered
  BY EmptyIsOrder DEF Init, Open, Ordered
<1>2. \A c \in Resumers : call[c].at = "idle"
  BY DEF Init
<1>3. Called
  BY DEF Init, Called, Call, Places
<1>4. Swept(sweep)
  BY EmptyIsOrder DEF Init, Swept, Sweep, EmptyQueue
<1>5. Stated
  BY DEF Init, Stated, Stages
<1>6. Linked
  BY <1>2, Callers DEF Init, Linked, ManagerCalls, RewindCalls, RewritesClose
<1>7. Owned /\ Lone /\ Rewriting
  BY <1>1, <1>2, OwnersAssumption DEF Init, Owned, Rewriting, Cleared, Lone
<1>8. Working
  BY DEF Init, Working
<1> QED
  BY <1>1, <1>3, <1>4, <1>5, <1>6, <1>7, <1>8 DEF IInv, Typed

(* A shutdown that has begun to close the handles, or has closed them, goes on. *)
LEMMA HostGoesOn ==
  ASSUME Typed, [Next]_vars
  PROVE  (Running' => Running) /\ (Handling' => Handling)
<1> DEFINE GoesOn == (Running' => Running) /\ (Handling' => Handling)
<1> USE DEF Handling, Running, Typed, Stated
<1>1. ASSUME UNCHANGED vars PROVE GoesOn
  BY <1>1 DEF vars
<1>2. ASSUME NEW c \in Resumers, ResumeWakes(c) PROVE GoesOn
  BY <1>2 DEF ResumeWakes
<1>3. ASSUME NEW c \in Resumers, StorageOpens(c) PROVE GoesOn
  BY <1>3 DEF StorageOpens
<1>4. ASSUME NEW c \in Resumers, Recovers(c) PROVE GoesOn
  BY <1>4 DEF Recovers
<1>5. ASSUME NEW c \in Resumers, RecoveryFails(c) PROVE GoesOn
  BY <1>5 DEF RecoveryFails
<1>6. ASSUME NEW c \in Clients, NEW s \in Sessions, ClientResumes(c, s) PROVE GoesOn
  BY <1>6 DEF ClientResumes
<1>7. ASSUME NEW c \in Clients, ClientEnds(c) PROVE GoesOn
  BY <1>7 DEF ClientEnds
<1>8. ASSUME NEW c \in Clients, Submits(c) PROVE GoesOn
  BY <1>8 DEF Submits
<1>9. ASSUME NEW s \in Sessions, OpenManager(s) PROVE GoesOn
  BY <1>9 DEF OpenManager
<1>10. ASSUME NEW s \in Sessions, ManagerSettles(s) PROVE GoesOn
  BY <1>10 DEF ManagerSettles
<1>11. ASSUME NEW s \in Sessions, WorkEnds(s) PROVE GoesOn
  BY <1>11 DEF WorkEnds
<1>12. ASSUME NEW ids \in Views, SetObserved(ids) PROVE GoesOn
  BY <1>12 DEF SetObserved
<1>13. ASSUME SweepStarts PROVE GoesOn
  BY <1>13 DEF SweepStarts
<1>14. ASSUME SweepReleases PROVE GoesOn
  BY <1>14 DEF SweepReleases
<1>15. ASSUME SweepEnds PROVE GoesOn
  BY <1>15 DEF SweepEnds
<1>16. ASSUME NEW s \in Sessions, Released(s) PROVE GoesOn
  BY <1>16 DEF Released
<1>17. ASSUME NEW s \in Rewindable, RewindHolds(s) PROVE GoesOn
  BY <1>17 DEF RewindHolds
<1>18. ASSUME NEW s \in Rewindable, RewindRefused(s) PROVE GoesOn
  BY <1>18 DEF RewindRefused
<1>19. ASSUME NEW s \in Rewindable, RewindResumes(s) PROVE GoesOn
  BY <1>19 DEF RewindResumes
<1>20. ASSUME NEW s \in Rewindable, RewriteStarts(s) PROVE GoesOn
  BY <1>20 DEF RewriteStarts
<1>21. ASSUME NEW s \in Rewindable, RewriteEnds(s) PROVE GoesOn
  BY <1>21 DEF RewriteEnds
<1>22. ASSUME NEW s \in Rewindable, RewindFails(s) PROVE GoesOn
  BY <1>22 DEF RewindFails
<1>23. ASSUME NEW s \in Rewindable, RewindReopened(s) PROVE GoesOn
  BY <1>23 DEF RewindReopened
<1>24. ASSUME NEW s \in Rewindable, RewindAnnounces(s) PROVE GoesOn
  BY <1>24 DEF RewindAnnounces
<1>25. ASSUME NEW s \in Rewindable, RewindThrows(s) PROVE GoesOn
  BY <1>25 DEF RewindThrows
<1>26. ASSUME Quiesce PROVE GoesOn
  BY <1>26 DEF Quiesce
<1>27. ASSUME CloseAll PROVE GoesOn
  BY <1>27 DEF CloseAll
<1>28. ASSUME AwaitClosings PROVE GoesOn
  BY <1>28 DEF AwaitClosings
<1>29. ASSUME ClearOpen PROVE GoesOn
  BY <1>29 DEF ClearOpen
<1>30. ASSUME StorageCloses PROVE GoesOn
  BY <1>30 DEF StorageCloses
<1>31. ASSUME HostDown PROVE GoesOn
  BY <1>31 DEF HostDown
<1>32. ASSUME NEW c \in Resumers, Submission(c) PROVE GoesOn
  BY <1>32, SubmissionSteps
<1>33. ASSUME NEW s \in Rewindable, RewindStops(s) PROVE GoesOn
  BY <1>33 DEF RewindStops
<1>34. ASSUME NEW s \in Rewindable, RewriteLocks(s) PROVE GoesOn
  BY <1>34 DEF RewriteLocks
<1>35. ASSUME NEW s \in Rewindable, RewindSubmits(s) PROVE GoesOn
  BY <1>35 DEF RewindSubmits
<1> QED
  BY <1>1, <1>2, <1>3, <1>4, <1>5, <1>6, <1>7, <1>8, <1>9, <1>10,
     <1>11, <1>12, <1>13, <1>14, <1>15, <1>16, <1>17, <1>18, <1>19,
     <1>20, <1>21, <1>22, <1>23, <1>24, <1>25, <1>26, <1>27, <1>28,
     <1>29, <1>30, <1>31, <1>32, <1>33, <1>34, <1>35
     DEF Next, Calls, ClientCalls, RewindSteps, Sweeping, Shutdown

(* Every step keeps the invariant. *)
LEMMA IInvKept == IInv /\ [Next]_vars => IInv'
<1> SUFFICES ASSUME IInv, [Next]_vars PROVE IInv'
  OBVIOUS
<1>1. Typed' /\ Linked' /\ Working' /\ Rewriting'
  BY TypedKept, LinkedKept, WorkingKept, RewritingKept DEF IInv
<1>2. Handling' => Owned'
  BY OwnedKept, HostGoesOn DEF IInv
<1>3. Running' => Lone'
  BY LoneKept, HostGoesOn DEF IInv, Handling
<1> QED
  BY <1>1, <1>2, <1>3 DEF IInv

(* The invariant holds in every state. *)
THEOREM SessionsInOrder == Spec => []IInv
BY IInvInit, IInvKept, PTL DEF Spec

(* A resume is refused with SESSION_WRITER_LOCKED only because another resume *)
(* opens the same session, never because of a handle that a release or a      *)
(* rewrite is closing (resume of session-controller.ts), until the handles    *)
(* are closed.                                                                *)
THEOREM ResumeIsAlone == Spec => []LoneResumeSucceeds
<1>1. IInv => LoneResumeSucceeds
  <2> SUFFICES ASSUME IInv PROVE LoneResumeSucceeds
    OBVIOUS
  <2>1. Ordered /\ Called /\ Swept(sweep) /\ Stated
    BY DEF IInv, Typed
  <2>2. Elems(sweep.todo) \subseteq Sessions
    BY <2>1 DEF Swept, Sweep, Elems
  <2>3. TypeOK
    <3>1. \A c \in Resumers :
            /\ call[c].at \in Opening \cup {"idle", "waiting", "ok", "locked", "failed"}
            /\ call[c].on \in Sessions \cup {None}
      BY <2>1 DEF Called, Call, Places
    <3> QED
      BY <2>1, <2>2, <3>1 DEF TypeOK, Ordered, Swept, Stated, Stages
  <2>4. host.at \notin {"handles", "storage", "down"} => Running
    BY <2>1 DEF Stated, Running
  <2> QED
    BY <2>3, <2>4 DEF LoneResumeSucceeds, IInv, Lone
<1> QED
  BY <1>1, SessionsInOrder, PTL

(* What WorkKeepsSession asks of a step that takes s out of #open. *)
Leaves(s) ==
    /\ s \notin busy
    /\ mgr[s] # "opening" /\ mgr'[s] # "ready"
    /\ closing'[s] = "release" => \A o \in Open : Parent[o] # s

(* While the host is up no session leaves #open under a Run, a queued task or *)
(* a manager that is opening, a manager that settled is dropped in the same   *)
(* step, and no session is released under a side chat that reads it (the      *)
(* checks of release and of rewrite, in the step that removes the session).   *)
(* A task is queued here once its commit is durable: a submission that still  *)
(* waits in the lane of the ledger keeps no session open.                     *)
THEOREM WorkStays == Spec => WorkKeepsSession
<1>1. IInv /\ [Next]_vars
        => [host.at = "up" => \A s \in Open \ Open' :
              /\ s \notin busy
              /\ mgr[s] # "opening" /\ mgr'[s] # "ready"
              /\ closing'[s] = "release" => \A o \in Open : Parent[o] # s]_vars
  <2> SUFFICES ASSUME IInv, [Next]_vars, host.at = "up", NEW t \in Open, t \notin Open'
               PROVE  Leaves(t)
    BY DEF Leaves
  <2>0. Ordered /\ Called /\ Stated /\ IsQueueOf(recent, Open) /\ Working /\ t \in Sessions
    BY DEF IInv, Typed, Ordered
  <2> USE <2>0

  <2>1. ASSUME UNCHANGED vars PROVE Leaves(t)
    BY <2>1, SameOpen DEF vars
  <2>2. ASSUME NEW c \in Resumers, ResumeWakes(c) PROVE Leaves(t)
    BY <2>2, TouchedOpen DEF ResumeWakes
  <2>3. ASSUME NEW c \in Resumers, StorageOpens(c) PROVE Leaves(t)
    BY <2>3, SameOpen DEF StorageOpens
  <2>4. ASSUME NEW c \in Resumers, Recovers(c) PROVE Leaves(t)
    BY <2>4, EnteredOpen, SameOpen DEF Recovers
  <2>5. ASSUME NEW c \in Resumers, RecoveryFails(c) PROVE Leaves(t)
    BY <2>5, SameOpen DEF RecoveryFails
  <2>6. ASSUME NEW c \in Clients, NEW s \in Sessions, ClientResumes(c, s) PROVE Leaves(t)
    BY <2>6, TouchedOpen DEF ClientResumes
  <2>7. ASSUME NEW c \in Clients, ClientEnds(c) PROVE Leaves(t)
    BY <2>7, SameOpen DEF ClientEnds
  <2>8. ASSUME NEW c \in Clients, Submits(c) PROVE Leaves(t)
    BY <2>8, SameOpen DEF Submits
  <2>9. ASSUME NEW s \in Sessions, OpenManager(s) PROVE Leaves(t)
    BY <2>9, TouchedOpen DEF OpenManager
  <2>10. ASSUME NEW s \in Sessions, ManagerSettles(s) PROVE Leaves(t)
    BY <2>10, SameOpen DEF ManagerSettles
  <2>11. ASSUME NEW s \in Sessions, WorkEnds(s) PROVE Leaves(t)
    BY <2>11, SameOpen DEF WorkEnds
  <2>12. ASSUME NEW ids \in Views, SetObserved(ids) PROVE Leaves(t)
    BY <2>12, ShownOpen DEF SetObserved
  <2>13. ASSUME SweepStarts PROVE Leaves(t)
    BY <2>13, SameOpen DEF SweepStarts
  <2>14. ASSUME SweepReleases PROVE Leaves(t)
    <3>1. PICK s \in Open : /\ recent' = Without(recent, {s}) /\ StillReleasable(s)
                           /\ closing' = [closing EXCEPT ![s] = "release"]
                           /\ mgr' = Dropped(s)
      BY <2>14, SameOpen DEF SweepReleases, StillReleasable, IsReleasable
    <3>2. t = s
      BY <3>1, LeftOpen
    <3> QED
      BY <3>1, <3>2, LifeAssumption
      DEF Leaves, StillReleasable, IsReleasable, GateOpen, Dropped, Registered, Stated, Working
  <2>15. ASSUME SweepEnds PROVE Leaves(t)
    BY <2>15, SameOpen DEF SweepEnds
  <2>16. ASSUME NEW s \in Sessions, Released(s) PROVE Leaves(t)
    BY <2>16, SameOpen DEF Released
  <2>17. ASSUME NEW s \in Rewindable, RewindHolds(s) PROVE Leaves(t)
    BY <2>17, SameOpen DEF RewindHolds
  <2>18. ASSUME NEW s \in Rewindable, RewindRefused(s) PROVE Leaves(t)
    BY <2>18, SameOpen DEF RewindRefused
  <2>19. ASSUME NEW s \in Rewindable, RewindResumes(s) PROVE Leaves(t)
    BY <2>19, TouchedOpen DEF RewindResumes
  <2>20. ASSUME NEW s \in Rewindable, RewriteStarts(s) PROVE Leaves(t)
    <3>1. /\ recent' = Without(recent, {s}) /\ GateOpen(s) /\ mgr' = Dropped(s)
          /\ closing' = [closing EXCEPT ![s] = "rewrite"]
      BY <2>20, SameOpen DEF RewriteStarts, Registered
    <3>2. t = s
      BY <3>1, LeftOpen
    <3> QED
      BY <3>1, <3>2 DEF Leaves, GateOpen, Dropped, Registered, Stated, Working
  <2>21. ASSUME NEW s \in Rewindable, RewriteEnds(s) PROVE Leaves(t)
    BY <2>21, SameOpen DEF RewriteEnds
  <2>22. ASSUME NEW s \in Rewindable, RewindFails(s) PROVE Leaves(t)
    BY <2>22, SameOpen DEF RewindFails
  <2>23. ASSUME NEW s \in Rewindable, RewindReopened(s) PROVE Leaves(t)
    BY <2>23, SameOpen DEF RewindReopened
  <2>24. ASSUME NEW s \in Rewindable, RewindAnnounces(s) PROVE Leaves(t)
    BY <2>24, SameOpen DEF RewindAnnounces
  <2>25. ASSUME NEW s \in Rewindable, RewindThrows(s) PROVE Leaves(t)
    BY <2>25, SameOpen DEF RewindThrows
  <2>26. ASSUME Quiesce PROVE Leaves(t)
    BY <2>26, SameOpen DEF Quiesce
  <2>27. ASSUME CloseAll PROVE Leaves(t)
    BY <2>27, SameOpen DEF CloseAll
  <2>28. ASSUME AwaitClosings PROVE Leaves(t)
    BY <2>28, SameOpen DEF AwaitClosings
  <2>29. ASSUME ClearOpen PROVE Leaves(t)
    BY <2>29 DEF ClearOpen
  <2>30. ASSUME StorageCloses PROVE Leaves(t)
    BY <2>30, SameOpen DEF StorageCloses
  <2>31. ASSUME HostDown PROVE Leaves(t)
    BY <2>31, SameOpen DEF HostDown
  <2>32. ASSUME NEW c \in Resumers, Submission(c) PROVE Leaves(t)
    BY <2>32, SameOpen, SubmissionSteps
  <2>33. ASSUME NEW s \in Rewindable, RewindStops(s) PROVE Leaves(t)
    BY <2>33, SameOpen DEF RewindStops
  <2>34. ASSUME NEW s \in Rewindable, RewriteLocks(s) PROVE Leaves(t)
    BY <2>34, SameOpen DEF RewriteLocks
  <2>35. ASSUME NEW s \in Rewindable, RewindSubmits(s) PROVE Leaves(t)
    BY <2>35, SameOpen DEF RewindSubmits
  <2> QED
    BY <2>1, <2>2, <2>3, <2>4, <2>5, <2>6, <2>7, <2>8, <2>9, <2>10,
       <2>11, <2>12, <2>13, <2>14, <2>15, <2>16, <2>17, <2>18, <2>19,
       <2>20, <2>21, <2>22, <2>23, <2>24, <2>25, <2>26, <2>27, <2>28,
       <2>29, <2>30, <2>31, <2>32, <2>33, <2>34, <2>35
       DEF Next, Calls, ClientCalls, RewindSteps, Sweeping, Shutdown
<1> QED
  BY <1>1, SessionsInOrder, PTL DEF Spec, WorkKeepsSession


-----------------------------------------------------------------------------
(***************************************************************************)
(* What a shutdown leaves behind.                                          *)
(***************************************************************************)
(* When storage has closed no handle is left that keeps a lease, not even that  *)
(* of a resume that was under way: only a rewrite of a journal may have one,    *)
(* which nobody waits for (closeAll, and close of JsonlSessionStorage).         *)
THEOREM LeasesAreFreed == Spec => []ShutdownFreesLeases
<1>1. Init => ShutdownFreesLeases
  BY DEF Init, ShutdownFreesLeases
<1>2. IInv /\ ShutdownFreesLeases /\ [Next]_vars => ShutdownFreesLeases'
  <2> SUFFICES ASSUME IInv, ShutdownFreesLeases, [Next]_vars PROVE ShutdownFreesLeases'
    OBVIOUS
  <2>0. Called /\ Stated /\ Linked /\ Rewriting
    BY DEF IInv, Typed
  <2> USE <2>0 DEF ShutdownFreesLeases
  <2>1. ASSUME UNCHANGED vars PROVE ShutdownFreesLeases'
    BY <2>1 DEF vars
  <2>2. ASSUME NEW c \in Resumers, ResumeWakes(c) PROVE ShutdownFreesLeases'
    BY <2>2 DEF ResumeWakes
  <2>3. ASSUME NEW c \in Resumers, StorageOpens(c) PROVE ShutdownFreesLeases'
    BY <2>3 DEF StorageOpens, StorageClosed
  <2>4. ASSUME NEW c \in Resumers, Recovers(c) PROVE ShutdownFreesLeases'
    <3>1. call[c].on \in Sessions
      BY <2>4 DEF Recovers, Called
    <3>2. /\ host' = host /\ rewind' = rewind
          /\ \A t \in Sessions : lease'[t] = lease[t] \/ lease[t] = c
      BY <2>4, <3>1 DEF Recovers, Stated
    <3>3. ASSUME NEW t \in Sessions, lease[t] = c, c = Rewinder(t) PROVE rewind[t] # "rewriting"
      BY <2>4, <3>3, RewritesIdle DEF Recovers
    <3> QED
      BY <3>2, <3>3, OwnersAssumption
  <2>5. ASSUME NEW c \in Resumers, RecoveryFails(c) PROVE ShutdownFreesLeases'
    BY <2>5 DEF RecoveryFails, Stated, Called
  <2>6. ASSUME NEW c \in Clients, NEW s \in Sessions, ClientResumes(c, s) PROVE ShutdownFreesLeases'
    BY <2>6 DEF ClientResumes
  <2>7. ASSUME NEW c \in Clients, ClientEnds(c) PROVE ShutdownFreesLeases'
    BY <2>7 DEF ClientEnds
  <2>8. ASSUME NEW c \in Clients, Submits(c) PROVE ShutdownFreesLeases'
    BY <2>8 DEF Submits
  <2>9. ASSUME NEW s \in Sessions, OpenManager(s) PROVE ShutdownFreesLeases'
    BY <2>9 DEF OpenManager
  <2>10. ASSUME NEW s \in Sessions, ManagerSettles(s) PROVE ShutdownFreesLeases'
    <3>1. \A t \in Sessions : rewind'[t] = "rewriting" <=> rewind[t] = "rewriting"
      BY <2>10, ThrownStages DEF ManagerSettles, Stated, Stages
    <3> QED
      BY <2>10, <3>1 DEF ManagerSettles
  <2>11. ASSUME NEW s \in Sessions, WorkEnds(s) PROVE ShutdownFreesLeases'
    BY <2>11 DEF WorkEnds
  <2>12. ASSUME NEW ids \in Views, SetObserved(ids) PROVE ShutdownFreesLeases'
    BY <2>12 DEF SetObserved
  <2>13. ASSUME SweepStarts PROVE ShutdownFreesLeases'
    BY <2>13 DEF SweepStarts
  <2>14. ASSUME SweepReleases PROVE ShutdownFreesLeases'
    BY <2>14 DEF SweepReleases, Stated
  <2>15. ASSUME SweepEnds PROVE ShutdownFreesLeases'
    BY <2>15 DEF SweepEnds
  <2>16. ASSUME NEW s \in Sessions, Released(s) PROVE ShutdownFreesLeases'
    BY <2>16 DEF Released, Stated
  <2>17. ASSUME NEW s \in Rewindable, RewindHolds(s) PROVE ShutdownFreesLeases'
    BY <2>17 DEF RewindHolds, Held, Stated
  <2>18. ASSUME NEW s \in Rewindable, RewindRefused(s) PROVE ShutdownFreesLeases'
    BY <2>18 DEF RewindRefused, Stated
  <2>19. ASSUME NEW s \in Rewindable, RewindResumes(s) PROVE ShutdownFreesLeases'
    BY <2>19 DEF RewindResumes, Stated
  <2>20. ASSUME NEW s \in Rewindable, RewriteStarts(s) PROVE ShutdownFreesLeases'
    BY <2>20 DEF RewriteStarts, Stated
  <2>21. ASSUME NEW s \in Rewindable, RewriteEnds(s) PROVE ShutdownFreesLeases'
    BY <2>21 DEF RewriteEnds, Reopens, Stated
  <2>22. ASSUME NEW s \in Rewindable, RewindFails(s) PROVE ShutdownFreesLeases'
    BY <2>22 DEF RewindFails, Stated
  <2>23. ASSUME NEW s \in Rewindable, RewindReopened(s) PROVE ShutdownFreesLeases'
    BY <2>23 DEF RewindReopened, Stated
  <2>24. ASSUME NEW s \in Rewindable, RewindAnnounces(s) PROVE ShutdownFreesLeases'
    <3>1. \A t \in Sessions : rewind'[t] = "rewriting" <=> rewind[t] = "rewriting"
      BY <2>24, ThrownStages DEF RewindAnnounces, Stated, Stages
    <3> QED
      BY <2>24, <3>1 DEF RewindAnnounces
  <2>25. ASSUME NEW s \in Rewindable, RewindThrows(s) PROVE ShutdownFreesLeases'
    BY <2>25 DEF RewindThrows, Stated
  <2>26. ASSUME Quiesce PROVE ShutdownFreesLeases'
    BY <2>26 DEF Quiesce
  <2>27. ASSUME CloseAll PROVE ShutdownFreesLeases'
    BY <2>27 DEF CloseAll
  <2>28. ASSUME AwaitClosings PROVE ShutdownFreesLeases'
    BY <2>28 DEF AwaitClosings
  <2>29. ASSUME ClearOpen PROVE ShutdownFreesLeases'
    BY <2>29 DEF ClearOpen, Stated
  <2>30. ASSUME StorageCloses PROVE ShutdownFreesLeases'
    BY <2>30 DEF StorageCloses, Stated
  <2>31. ASSUME HostDown PROVE ShutdownFreesLeases'
    BY <2>31 DEF HostDown, Rewriting, Stated
  <2>32. ASSUME NEW c \in Resumers, Submission(c) PROVE ShutdownFreesLeases'
    BY <2>32, SubmissionSteps
  <2>33. ASSUME NEW s \in Rewindable, RewindStops(s) PROVE ShutdownFreesLeases'
    BY <2>33 DEF RewindStops, Stated
  <2>34. ASSUME NEW s \in Rewindable, RewriteLocks(s) PROVE ShutdownFreesLeases'
    BY <2>34 DEF RewriteLocks, Reopens, StorageClosed, Stated
  <2>35. ASSUME NEW s \in Rewindable, RewindSubmits(s) PROVE ShutdownFreesLeases'
    BY <2>35 DEF RewindSubmits, Stated
  <2> QED
    BY <2>1, <2>2, <2>3, <2>4, <2>5, <2>6, <2>7, <2>8, <2>9, <2>10,
       <2>11, <2>12, <2>13, <2>14, <2>15, <2>16, <2>17, <2>18, <2>19,
       <2>20, <2>21, <2>22, <2>23, <2>24, <2>25, <2>26, <2>27, <2>28,
       <2>29, <2>30, <2>31, <2>32, <2>33, <2>34, <2>35
       DEF Next, Calls, ClientCalls, RewindSteps, Sweeping, Shutdown
<1> QED
  BY <1>1, <1>2, SessionsInOrder, PTL DEF Spec

-----------------------------------------------------------------------------
(***************************************************************************)
(* Rewritten journals (RewindCut).                                         *)
(***************************************************************************)
(* What an event names, and the events. *)
Ids == Works \cup Grants \cup Nat
Events == Kinds \X Ids

(* Row i of l has an earlier row <<kind, x>>. *)
Ago(l, kind, x, i) == \E k \in DOMAIN l : k < i /\ l[k] = <<kind, x>>

(* What an event finds before it.  This is true of a prefix if it is true of the *)
(* whole, and speaks of no event that a rewind might drop from behind it.        *)
EventOK(l, i, kind, x) ==
    /\ kind \notin {"mode", "rewound"} => ~Ago(l, kind, x, i)
    /\ kind \in {"settle", "ended"} =>
          Ago(l, "begin", x, i) /\ ~Ago(l, "settle", x, i) /\ ~Ago(l, "ended", x, i)
    /\ kind = "start" => Ago(l, "accept", x, i)
    /\ kind = "mode" => x \in Nat

(* A journal in which every event finds that before it. *)
Sound(l) == l \in Seq(Events) /\ \A i \in DOMAIN l : EventOK(l, i, l[i][1], l[i][2])

(* What a cut keeps of a journal, and what it drops. *)
Kept(l, cut) == SubSeq(l, 1, cut - 1)
Behind(l, cut) == SubSeq(l, cut, Len(l))

(* The plan pl fits the journal l: all work is over there, and the closing events *)
(* are those of the cut.                                                          *)
PlanFor(l, pl) ==
    /\ pl.cut \in 1 .. Len(l) /\ OpenWork(l) = {} /\ Ongoing(Kept(l, pl.cut)) = {}
    /\ \E q \in InOrder(Waiting(Kept(l, pl.cut))),
          c \in InOrder(Follows(Kept(l, pl.cut), Behind(l, pl.cut))) :
             pl.closing = Closing(Kept(l, pl.cut), Behind(l, pl.cut), q, c)

(* The inductive invariant.  The journal is sound; the plan fits the journal as it was  *)
(* when the cut was chosen, which is a prefix of the journal that has grown since, and  *)
(* is the archive once the two were found equal; the swap has put the plan into effect. *)
RewriteInv ==
    /\ phase \in {"idle", "chosen", "archived", "swapped"} /\ inherited \in Nat
    /\ Sound(journal)
    /\ phase = "chosen" => /\ plan.expected \in 0 .. Len(journal)
                           /\ PlanFor(SubSeq(journal, 1, plan.expected), plan)
    /\ phase = "archived" => archive = journal /\ PlanFor(archive, plan)
    /\ phase = "swapped" => /\ Sound(archive) /\ PlanFor(archive, plan)
                            /\ journal = Kept(archive, plan.cut) \o plan.closing

-----------------------------------------------------------------------------
(***************************************************************************)
(* Journals: appended, cut, counted.                                       *)
(***************************************************************************)
(* A sound journal by its positions. *)
LEMMA Positions ==
  ASSUME NEW l, Sound(l)
  PROVE  /\ l \in Seq(Events) /\ DOMAIN l = 1 .. Len(l) /\ Len(l) \in Nat
         /\ \A i \in DOMAIN l : /\ l[i] \in Events /\ l[i] = <<l[i][1], l[i][2]>>
                                /\ l[i][1] \in Kinds /\ l[i][2] \in Ids
                                /\ EventOK(l, i, l[i][1], l[i][2])
<1>1. l \in Seq(Events) /\ DOMAIN l = 1 .. Len(l) /\ Len(l) \in Nat
  BY LenProperties DEF Sound
<1>2. ASSUME NEW i \in DOMAIN l
      PROVE  l[i] \in Events /\ l[i] = <<l[i][1], l[i][2]>> /\ l[i][1] \in Kinds /\ l[i][2] \in Ids
  <2>1. l[i] \in Events
    BY <1>1, ElementOfSeq
  <2> QED
    BY <2>1 DEF Events
<1> QED
  BY <1>1, <1>2 DEF Sound

(* What stands before an event does not change when others follow. *)
LEMMA EventsStay ==
  ASSUME NEW l \in Seq(Events), NEW n \in Seq(Events), Len(l) <= Len(n),
         \A i \in 1 .. Len(l) : n[i] = l[i], NEW i \in 1 .. Len(l), NEW kind, NEW x
  PROVE  EventOK(n, i, kind, x) <=> EventOK(l, i, kind, x)
<1>1. /\ DOMAIN l = 1 .. Len(l) /\ DOMAIN n = 1 .. Len(n)
      /\ Len(l) \in Nat /\ Len(n) \in Nat
  BY LenProperties
<1>2. \A k : Ago(n, k, x, i) <=> Ago(l, k, x, i)
  <2>1. \A j : j \in DOMAIN n /\ j < i <=> j \in DOMAIN l /\ j < i
    BY <1>1
  <2>2. \A j \in DOMAIN l : n[j] = l[j]
    BY <1>1
  <2> QED
    BY <2>1, <2>2, Zenon DEF Ago
<1> QED
  BY <1>2, Zenon DEF EventOK

(* What the next event needs. *)
MayFollow(l, kind, x) ==
    /\ kind \notin {"mode", "rewound"} => ~In(l, kind, x)
    /\ kind \in {"settle", "ended"} =>
          In(l, "begin", x) /\ ~In(l, "settle", x) /\ ~In(l, "ended", x)
    /\ kind = "start" => In(l, "accept", x)
    /\ kind = "mode" => x \in Nat

LEMMA AppendSound ==
  ASSUME NEW l, Sound(l), NEW kind \in Kinds, NEW x \in Ids, MayFollow(l, kind, x)
  PROVE  Sound(Append(l, <<kind, x>>))
<1> DEFINE n == Append(l, <<kind, x>>)
           m == Len(l) + 1
<1>1. /\ l \in Seq(Events) /\ DOMAIN l = 1 .. Len(l) /\ Len(l) \in Nat
      /\ \A i \in DOMAIN l : EventOK(l, i, l[i][1], l[i][2])
  BY Positions
<1>2. <<kind, x>> \in Events
  BY DEF Events
<1>3. /\ n \in Seq(Events) /\ Len(n) = m
      /\ \A i \in 1 .. Len(l) : n[i] = l[i]
      /\ n[m] = <<kind, x>>
  BY <1>1, <1>2, AppendProperties
<1> HIDE DEF n
<1>4. DOMAIN n = 1 .. m
  BY <1>3, LenProperties
<1>5. /\ \A i \in DOMAIN n : (i \in DOMAIN l /\ i < m) \/ i = m
      /\ \A i \in DOMAIN l : i \in DOMAIN n /\ i < m /\ n[i] = l[i]
      /\ m \in DOMAIN n /\ ~(m < m)
  BY <1>1, <1>3, <1>4
<1> HIDE DEF m
<1>6. \A k, y : Ago(n, k, y, m) <=> In(l, k, y)
  BY <1>3, <1>5, Zenon DEF Ago, In
<1>7. ASSUME NEW i \in DOMAIN n PROVE EventOK(n, i, n[i][1], n[i][2])
  <2>1. CASE i \in DOMAIN l
    <3>1. n[i] = l[i] /\ EventOK(l, i, l[i][1], l[i][2]) /\ Len(l) <= Len(n)
      BY <1>1, <1>3, <1>5, <2>1 DEF m
    <3> QED
      BY <1>1, <1>3, <2>1, <3>1, EventsStay
  <2>2. CASE i = m
    <3>1. n[i][1] = kind /\ n[i][2] = x
      BY <1>3, <2>2
    <3>2. EventOK(n, m, kind, x)
      BY <1>6 DEF EventOK, MayFollow
    <3> QED
      BY <2>2, <3>1, <3>2
  <2> QED
    BY <1>5, <2>1, <2>2
<1> QED
  BY <1>3, <1>7 DEF Sound, n

(* A prefix of a sound journal. *)
LEMMA CutSound ==
  ASSUME NEW l, Sound(l), NEW n \in 0 .. Len(l)
  PROVE  /\ Sound(SubSeq(l, 1, n)) /\ Len(SubSeq(l, 1, n)) = n
         /\ DOMAIN SubSeq(l, 1, n) = 1 .. n
         /\ \A i \in 1 .. n : SubSeq(l, 1, n)[i] = l[i]
<1> DEFINE s == SubSeq(l, 1, n)
<1>1. /\ l \in Seq(Events) /\ DOMAIN l = 1 .. Len(l) /\ Len(l) \in Nat /\ n \in Nat
      /\ \A i \in DOMAIN l : l[i] \in Events /\ EventOK(l, i, l[i][1], l[i][2])
  BY Positions
<1>2. s \in Seq(Events) /\ Len(s) = n /\ \A i \in 1 .. n : s[i] = l[i]
  BY <1>1, SubSeqProperties
<1> HIDE DEF s
<1>3. DOMAIN s = 1 .. n
  BY <1>2, LenProperties
<1>4. ASSUME NEW i \in 1 .. n PROVE EventOK(s, i, s[i][1], s[i][2])
  <2>1. i \in DOMAIN l /\ s[i] = l[i] /\ Len(s) <= Len(l)
        /\ \A k \in 1 .. Len(s) : l[k] = s[k]
    BY <1>1, <1>2
  <2>2. EventOK(l, i, l[i][1], l[i][2])
    BY <1>1, <2>1
  <2>3. EventOK(l, i, l[i][1], l[i][2]) <=> EventOK(s, i, l[i][1], l[i][2])
    BY <1>1, <1>2, <2>1, EventsStay
  <2> QED
    BY <2>1, <2>2, <2>3
<1> QED
  BY <1>2, <1>3, <1>4 DEF Sound, s

(* An event that only occurs once. *)
LEMMA OneEvent ==
  ASSUME NEW l, Sound(l), NEW kind, NEW x, kind \notin {"mode", "rewound"},
         NEW i \in DOMAIN l, NEW j \in DOMAIN l, l[i] = <<kind, x>>, l[j] = <<kind, x>>
  PROVE  i = j
<1>1. /\ DOMAIN l = 1 .. Len(l) /\ Len(l) \in Nat
      /\ EventOK(l, i, l[i][1], l[i][2]) /\ EventOK(l, j, l[j][1], l[j][2])
  BY Positions
<1>2. ~Ago(l, kind, x, i) /\ ~Ago(l, kind, x, j)
  BY <1>1 DEF EventOK
<1>3. ~(i < j) /\ ~(j < i)
  BY <1>2, Zenon DEF Ago
<1> QED
  BY <1>1, <1>3

(* Such an event is there once or not at all. *)
LEMMA CountEvent ==
  ASSUME NEW l, Sound(l), NEW kind, NEW x, kind \notin {"mode", "rewound"}
  PROVE  Times(l, kind, x) = IF In(l, kind, x) THEN 1 ELSE 0
<1> DEFINE S == {i \in DOMAIN l : l[i] = <<kind, x>>}
<1>1. CASE In(l, kind, x)
  <2>1. PICK i \in DOMAIN l : l[i] = <<kind, x>>
    BY <1>1 DEF In
  <2>2. S = {i}
    BY <2>1, OneEvent
  <2>3. Cardinality({i}) = 1
    BY FS_Singleton
  <2> QED
    BY <1>1, <2>2, <2>3 DEF Times
<1>2. CASE ~In(l, kind, x)
  <2>1. S = {}
    BY <1>2 DEF In
  <2> QED
    BY <1>2, <2>1, FS_EmptySet DEF Times
<1> QED
  BY <1>1, <1>2

(* Work is over in one way, and not before it has begun. *)
LEMMA OverOnce ==
  ASSUME NEW l, Sound(l), NEW w
  PROVE  /\ IsOver(l, w) => In(l, "begin", w)
         /\ ~(In(l, "settle", w) /\ In(l, "ended", w))
<1>1. ASSUME NEW i \in DOMAIN l, NEW kind \in {"settle", "ended"}, l[i] = <<kind, w>>
      PROVE  Ago(l, "begin", w, i) /\ ~Ago(l, "settle", w, i) /\ ~Ago(l, "ended", w, i)
  BY <1>1, Positions DEF EventOK
<1>2. IsOver(l, w) => In(l, "begin", w)
  <2> SUFFICES ASSUME NEW i \in DOMAIN l, NEW kind \in {"settle", "ended"}, l[i] = <<kind, w>>
               PROVE  In(l, "begin", w)
    BY DEF IsOver, In
  <2> QED
    BY <1>1 DEF Ago, In
<1>3. ASSUME In(l, "settle", w), In(l, "ended", w) PROVE FALSE
  <2>1. PICK i \in DOMAIN l : l[i] = <<"settle", w>>
    BY <1>3 DEF In
  <2>2. PICK j \in DOMAIN l : l[j] = <<"ended", w>>
    BY <1>3 DEF In
  <2>3. ~(i < j) /\ ~(j < i)
    BY <1>1, <2>1, <2>2 DEF Ago
  <2>4. i = j
    BY <2>3, Positions
  <2> QED
    BY <2>1, <2>2, <2>4
<1> QED
  BY <1>2, <1>3
-----------------------------------------------------------------------------
(***************************************************************************)
(* Positions: the greatest of a set, and all of a set in their order.      *)
(***************************************************************************)
(* A set of positions has a greatest one. *)
LEMMA Greatest ==
  ASSUME NEW n \in Nat, NEW T \in SUBSET (1 .. n), T # {}
  PROVE  Max(T) \in T /\ \A y \in T : y <= Max(T)
<1> DEFINE R == StrictSubsetOrdering(Nat)
           Above(x) == {y \in Nat : x < y /\ y <= n}
           B == {Above(x) : x \in T}
<1>1. IsWellFoundedOn(R, FiniteSubsetsOf(Nat))
  BY FS_StrictSubsetOrderingWellFounded
<1>2. \A x \in T : IsFiniteSet(Above(x))
  <2> TAKE x \in T
  <2> QED
    BY FS_BoundedSetOfNaturals
<1>3. B \subseteq FiniteSubsetsOf(Nat) /\ B # {}
  BY <1>2 DEF FiniteSubsetsOf
<1>4. PICK b \in B : \A c \in B : <<c, b>> \notin R
  <2> HIDE DEF B, R
  <2> QED
    BY <1>1, <1>3, WFMin
<1>5. PICK x \in T : b = Above(x)
  OBVIOUS
<1>6. ASSUME NEW y \in T, y > x
      PROVE  FALSE
  <2>1. /\ Above(y) \subseteq Above(x) /\ Above(y) # Above(x)
        /\ Above(x) \in SUBSET Nat /\ Above(y) \in SUBSET Nat
    <3>1. y \in Above(x) /\ y \notin Above(y)
      BY <1>6
    <3> QED
      BY <1>6, <3>1
  <2>2. <<Above(y), Above(x)>> \in R
    BY <2>1 DEF StrictSubsetOrdering
  <2> QED
    BY <1>4, <1>5, <2>2
<1>7. \A y \in T : x >= y
  BY <1>6
<1>8. Max(T) \in T /\ \A y \in T : Max(T) >= y
  BY <1>7 DEF Max
<1> QED
  BY <1>8

(* A set of positions in their order: each is there, and once. *)
LEMMA AllInOrder ==
  ASSUME NEW n \in Nat, NEW S \in SUBSET (1 .. n), NEW f \in InOrder(S)
  PROVE  /\ Cardinality(S) \in Nat /\ DOMAIN f = 1 .. Cardinality(S)
         /\ f = [i \in DOMAIN f |-> f[i]]
         /\ \A i \in DOMAIN f : f[i] \in S
         /\ \A i, j \in DOMAIN f : (i < j => f[i] < f[j]) /\ (f[i] = f[j] => i = j)
         /\ \A x \in S : \E i \in DOMAIN f : f[i] = x
<1> DEFINE N == Cardinality(S)
<1>1. IsFiniteSet(S) /\ N \in Nat
  <2>1. IsFiniteSet(1 .. n)
    BY FS_Interval
  <2>2. IsFiniteSet(S)
    BY <2>1, FS_Subset
  <2> QED
    BY <2>2, FS_CardinalityType
<1> HIDE DEF N
<1>2. /\ f \in [1 .. N -> S] /\ \A i, j \in DOMAIN f : i < j => f[i] < f[j]
  BY DEF InOrder, N
<1>3. \A i, j \in 1 .. N : f[i] = f[j] => i = j
  <2> SUFFICES ASSUME NEW i \in 1 .. N, NEW j \in 1 .. N, f[i] = f[j] PROVE i = j
    OBVIOUS
  <2>1. f[i] \in S /\ f[j] \in S /\ DOMAIN f = 1 .. N
    BY <1>2
  <2>2. f[i] \in Nat /\ f[j] \in Nat
    <3>1. \A x \in S : x \in Nat
      OBVIOUS
    <3> QED
      BY <2>1, <3>1
  <2>3. (i < j => f[i] < f[j]) /\ (j < i => f[j] < f[i])
    BY <1>2, <2>1
  <2> QED
    BY <1>1, <2>2, <2>3
<1>4. f \in Injection(1 .. N, S)
  BY <1>2, <1>3 DEF Injection, IsInjective
<1>5. Cardinality(1 .. N) = N
  BY <1>1, FS_Interval
<1>6. f \in Surjection(1 .. N, S)
  BY <1>1, <1>4, <1>5, FS_Injection DEF N
<1> QED
  BY <1>1, <1>2, <1>3, <1>6 DEF Surjection, N

(* A set of numbers has a least one. *)
LEMMA Smallest ==
  ASSUME NEW T \in SUBSET Nat, T # {}
  PROVE  \E x \in T : \A y \in T : x <= y
<1>1. PICK n \in T : TRUE
  OBVIOUS
<1> DEFINE U == {x \in 1 .. n + 1 : n + 1 - x \in T}
           g == Max(U)
<1>2. n + 1 \in Nat /\ 1 \in U
  BY <1>1
<1>3. g \in U /\ \A y \in U : y <= g
  <2>1. U \in SUBSET (1 .. n + 1) /\ U # {}
    BY <1>2
  <2> HIDE DEF U
  <2> QED
    BY <1>2, <2>1, Greatest
<1> HIDE DEF g
<1>4. g \in 1 .. n + 1 /\ n + 1 - g \in T
  BY <1>3
<1>5. ASSUME NEW y \in T, y < n + 1 - g PROVE FALSE
  <2>1. n + 1 - y \in 1 .. n + 1 /\ n + 1 - (n + 1 - y) = y /\ n + 1 - y > g
    BY <1>1, <1>4, <1>5
  <2>2. n + 1 - y \in U
    BY <2>1
  <2> QED
    BY <1>3, <1>4, <2>1, <2>2
<1>6. \A y \in T : n + 1 - g <= y
  BY <1>1, <1>4, <1>5
<1> QED
  BY <1>4, <1>6

(* Every set of positions has exactly one order: the cut determines what follows it. *)
LEMMA OneOrder ==
  ASSUME NEW n \in Nat, NEW S \in SUBSET (1 .. n)
  PROVE  \E f : InOrder(S) = {f}
<1>1. ASSUME NEW T \in SUBSET (1 .. n)
      PROVE  IsFiniteSet(T) /\ Cardinality(T) \in Nat
  <2>1. IsFiniteSet(T)
    <3>1. IsFiniteSet(1 .. n)
      BY FS_Interval
    <3> QED
      BY <3>1, FS_Subset
  <2> QED
    BY <2>1, FS_CardinalityType
<1>2. ASSUME NEW T \in SUBSET (1 .. n), InOrder(T) = {}
      PROVE  FALSE
  <2> DEFINE Bad == {Cardinality(X) : X \in {Y \in SUBSET (1 .. n) : InOrder(Y) = {}}}
  <2>1. Bad \in SUBSET Nat /\ Bad # {}
    BY <1>1, <1>2
  <2>2. PICK k \in Bad : \A y \in Bad : k <= y
    <3> HIDE DEF Bad
    <3> QED
      BY <2>1, Smallest
  <2>3. PICK X \in SUBSET (1 .. n) : k = Cardinality(X) /\ InOrder(X) = {}
    BY <2>2
  <2>4. IsFiniteSet(X) /\ k \in Nat
    BY <1>1, <2>3
  <2>5. CASE X = {}
    <3>1. k = 0
      BY <2>3, <2>5, FS_EmptySet
    <3>2. [i \in 1 .. 0 |-> i] \in [1 .. 0 -> X]
      OBVIOUS
    <3>3. [i \in 1 .. 0 |-> i] \in InOrder(X)
      BY <2>3, <3>1, <3>2 DEF InOrder
    <3> QED
      BY <2>3, <3>3
  <2>6. CASE X # {}
    <3> DEFINE g == Max(X)
               W == X \ {g}
    <3>1. g \in X /\ \A y \in X : y <= g
      BY <2>6, Greatest
    <3>2. IsFiniteSet(W) /\ Cardinality(W) = k - 1 /\ W \in SUBSET (1 .. n)
      BY <2>3, <2>4, <3>1, FS_RemoveElement
    <3>3. k - 1 \in Nat
      BY <1>1, <3>2
    <3>4. InOrder(W) # {}
      <4> SUFFICES ASSUME InOrder(W) = {} PROVE FALSE
        OBVIOUS
      <4>1. k - 1 \in Bad
        BY <3>2
      <4> QED
        BY <2>2, <2>4, <4>1
    <3>5. PICK e \in InOrder(W) : TRUE
      BY <3>4
    <3>6. e \in [1 .. k - 1 -> W] /\ \A i, j \in DOMAIN e : i < j => e[i] < e[j]
      BY <3>2, <3>5 DEF InOrder
    <3> HIDE DEF g
    <3> DEFINE f == [i \in 1 .. k |-> IF i = k THEN g ELSE e[i]]
    <3>7. \A i \in 1 .. k : i # k => i \in DOMAIN e /\ e[i] \in X /\ e[i] < g
      <4> TAKE i \in 1 .. k
      <4> HAVE i # k
      <4>1. i \in 1 .. k - 1
        BY <2>4
      <4>2. e[i] \in W
        BY <3>6, <4>1
      <4>3. e[i] \in 1 .. n /\ g \in 1 .. n /\ e[i] # g /\ e[i] <= g
        BY <3>1, <4>2
      <4> QED
        BY <3>6, <4>1, <4>2, <4>3
    <3>8. f \in [1 .. k -> X]
      BY <3>1, <3>7
    <3>9. ASSUME NEW i \in 1 .. k, NEW j \in 1 .. k, i < j PROVE f[i] < f[j]
      <4>1. i # k
        BY <2>4, <3>9
      <4>2. CASE j = k
        BY <3>7, <4>1, <4>2
      <4>3. CASE j # k
        BY <3>6, <3>7, <3>9, <4>1, <4>3
      <4> QED
        BY <4>2, <4>3
    <3>10. f \in InOrder(X)
      <4>1. DOMAIN f = 1 .. k /\ \A i, j \in DOMAIN f : i < j => f[i] < f[j]
        BY <3>9
      <4> HIDE DEF f
      <4> QED
        BY <2>3, <3>8, <4>1 DEF InOrder
    <3> QED
      BY <2>3, <3>10
  <2> QED
    BY <2>5, <2>6
<1>3. ASSUME NEW f \in InOrder(S), NEW h \in InOrder(S), NEW i \in DOMAIN f,
             \A j \in DOMAIN f : j < i => f[j] = h[j], f[i] < h[i]
      PROVE  FALSE
  <2>1. /\ DOMAIN f = DOMAIN h /\ DOMAIN f \subseteq Nat
        /\ f[i] \in S /\ h[i] \in S /\ S \subseteq Nat
        /\ \A j \in DOMAIN f : f[j] = f[i] => j = i
        /\ \A j \in DOMAIN h : i < j => h[i] < h[j]
    BY <1>3, AllInOrder
  <2>2. PICK j \in DOMAIN h : h[j] = f[i]
    BY <2>1, AllInOrder
  <2>3. CASE j < i
    <3>1. f[j] = f[i]
      BY <1>3, <2>1, <2>2, <2>3
    <3> QED
      BY <2>1, <2>2, <2>3, <3>1
  <2>4. CASE j = i
    <3>1. h[i] = f[i] /\ f[i] \in Nat
      BY <2>1, <2>2, <2>4
    <3> QED
      BY <1>3, <3>1
  <2>5. CASE i < j
    <3>1. h[i] < h[j] /\ h[i] \in Nat /\ f[i] \in Nat
      BY <2>1, <2>2, <2>5
    <3> QED
      BY <1>3, <2>2, <3>1
  <2> QED
    BY <2>1, <2>2, <2>3, <2>4, <2>5
<1>4. ASSUME NEW f \in InOrder(S), NEW h \in InOrder(S), f # h
      PROVE  FALSE
  <2> DEFINE D == {i \in DOMAIN f : f[i] # h[i]}
  <2>1. /\ DOMAIN f = DOMAIN h /\ DOMAIN f \subseteq Nat
        /\ f = [i \in DOMAIN f |-> f[i]] /\ h = [i \in DOMAIN h |-> h[i]]
        /\ \A i \in DOMAIN f : f[i] \in Nat /\ h[i] \in Nat
    <3>1. /\ DOMAIN f = 1 .. Cardinality(S) /\ DOMAIN h = 1 .. Cardinality(S)
          /\ f = [i \in DOMAIN f |-> f[i]] /\ h = [i \in DOMAIN h |-> h[i]]
          /\ \A i \in DOMAIN f : f[i] \in S
          /\ \A i \in DOMAIN h : h[i] \in S
      BY AllInOrder
    <3> QED
      BY <3>1
  <2>2. D \in SUBSET Nat /\ D # {}
    BY <1>4, <2>1
  <2>3. PICK i \in D : \A y \in D : i <= y
    <3> HIDE DEF D
    <3> QED
      BY <2>2, Smallest
  <2>4. \A j \in DOMAIN f : j < i => f[j] = h[j]
    BY <2>1, <2>3
  <2>5. f[i] < h[i] \/ h[i] < f[i]
    BY <2>1, <2>3
  <2> QED
    BY <1>3, <2>1, <2>3, <2>4, <2>5
<1>5. PICK f \in InOrder(S) : TRUE
  BY <1>2
<1> QED
  BY <1>4, <1>5

(* A function on positions is a sequence. *)
LEMMA SeqOfFunction ==
  ASSUME NEW S, NEW n \in Nat, NEW f, DOMAIN f = 1 .. n, f = [i \in 1 .. n |-> f[i]],
         \A i \in 1 .. n : f[i] \in S
  PROVE  f \in Seq(S) /\ Len(f) = n
OBVIOUS

(* Two sequences behind one another. *)
LEMMA Join ==
  ASSUME NEW s \in Seq(Events), NEW t \in Seq(Events)
  PROVE  /\ s \o t \in Seq(Events) /\ Len(s \o t) = Len(s) + Len(t)
         /\ Len(s) \in Nat /\ Len(t) \in Nat
         /\ \A i \in 1 .. Len(s) : (s \o t)[i] = s[i]
         /\ \A i \in 1 .. Len(t) : (s \o t)[Len(s) + i] = t[i]
<1>1. /\ s \o t \in Seq(Events) /\ Len(s \o t) = Len(s) + Len(t)
      /\ \A i \in 1 .. Len(s) + Len(t) : (s \o t)[i] = IF i <= Len(s) THEN s[i] ELSE t[i - Len(s)]
  BY ConcatProperties
<1>2. Len(s) \in Nat /\ Len(t) \in Nat
  BY LenProperties
<1>3. \A i \in 1 .. Len(s) : (s \o t)[i] = s[i]
  BY <1>1, <1>2
<1>4. ASSUME NEW i \in 1 .. Len(t) PROVE (s \o t)[Len(s) + i] = t[i]
  <2>1. /\ Len(s) + i \in 1 .. Len(s) + Len(t) /\ ~(Len(s) + i <= Len(s))
        /\ (Len(s) + i) - Len(s) = i
    BY <1>2
  <2> QED
    BY <1>1, <2>1
<1> QED
  BY <1>1, <1>2, <1>3, <1>4

-----------------------------------------------------------------------------
(***************************************************************************)
(* The rewritten journal.                                                  *)
(***************************************************************************)
(* n is the journal that is left of l cut at position cut, with the closing events *)
(* made from the positions q of the prefix and c of what is dropped.               *)
Rewritten(l, cut, q, c, n) ==
    /\ Sound(l) /\ cut \in 1 .. Len(l) /\ OpenWork(l) = {} /\ Ongoing(Kept(l, cut)) = {}
    /\ q \in InOrder(Waiting(Kept(l, cut)))
    /\ c \in InOrder(Follows(Kept(l, cut), Behind(l, cut)))
    /\ n = Kept(l, cut) \o Closing(Kept(l, cut), Behind(l, cut), q, c)

(* The two parts of a journal that is cut. *)
LEMMA KeptPart ==
  ASSUME NEW l, Sound(l), NEW cut \in 1 .. Len(l)
  PROVE  /\ cut - 1 \in Nat
         /\ Kept(l, cut) \in Seq(Events) /\ Len(Kept(l, cut)) = cut - 1
         /\ DOMAIN Kept(l, cut) = 1 .. cut - 1 /\ Sound(Kept(l, cut))
         /\ \A i \in 1 .. cut - 1 : Kept(l, cut)[i] = l[i] /\ i \in DOMAIN l
<1>1. DOMAIN l = 1 .. Len(l) /\ Len(l) \in Nat /\ cut - 1 \in 0 .. Len(l) /\ cut - 1 \in Nat
  BY Positions
<1>2. /\ Sound(Kept(l, cut)) /\ Len(Kept(l, cut)) = cut - 1 /\ DOMAIN Kept(l, cut) = 1 .. cut - 1
      /\ \A i \in 1 .. cut - 1 : Kept(l, cut)[i] = l[i]
  BY <1>1, CutSound DEF Kept
<1> QED
  BY <1>1, <1>2 DEF Sound

LEMMA DroppedPart ==
  ASSUME NEW l, Sound(l), NEW cut \in 1 .. Len(l)
  PROVE  /\ Behind(l, cut) \in Seq(Events) /\ Len(Behind(l, cut)) = Len(l) - cut + 1
         /\ DOMAIN Behind(l, cut) = 1 .. Len(l) - cut + 1
         /\ \A i \in 1 .. Len(l) - cut + 1 :
               Behind(l, cut)[i] = l[cut - 1 + i] /\ cut - 1 + i \in DOMAIN l
<1> DEFINE d == SubSeq(l, cut, Len(l))
<1>1. l \in Seq(Events) /\ DOMAIN l = 1 .. Len(l) /\ Len(l) \in Nat
  BY Positions
<1>2. /\ d \in Seq(Events) /\ Len(d) = Len(l) - cut + 1
      /\ \A i \in 1 .. Len(l) - cut + 1 : d[i] = l[cut + i - 1]
  BY <1>1, SubSeqProperties
<1> HIDE DEF d
<1>3. DOMAIN d = 1 .. Len(l) - cut + 1
  BY <1>2, LenProperties
<1>4. \A i \in 1 .. Len(l) - cut + 1 : d[i] = l[cut - 1 + i] /\ cut - 1 + i \in DOMAIN l
  BY <1>1, <1>2
<1> QED
  BY <1>2, <1>3, <1>4 DEF Behind, d

(* What stands in a journal stands in one of its parts. *)
LEMMA InAPart ==
  ASSUME NEW l, Sound(l), NEW cut \in 1 .. Len(l), NEW kind, NEW x
  PROVE  In(l, kind, x) <=> In(Kept(l, cut), kind, x) \/ In(Behind(l, cut), kind, x)
<1> DEFINE kept == Kept(l, cut)
           dropped == Behind(l, cut)
<1>1. /\ DOMAIN kept = 1 .. cut - 1 /\ DOMAIN dropped = 1 .. Len(l) - cut + 1
      /\ \A i \in DOMAIN kept : kept[i] = l[i] /\ i \in DOMAIN l
      /\ \A i \in DOMAIN dropped : dropped[i] = l[cut - 1 + i] /\ cut - 1 + i \in DOMAIN l
  <2>1. DOMAIN kept = 1 .. cut - 1 /\ \A i \in DOMAIN kept : kept[i] = l[i] /\ i \in DOMAIN l
    BY KeptPart
  <2>2. /\ DOMAIN dropped = 1 .. Len(l) - cut + 1
        /\ \A i \in DOMAIN dropped : dropped[i] = l[cut - 1 + i] /\ cut - 1 + i \in DOMAIN l
    BY DroppedPart
  <2> QED
    BY <2>1, <2>2
<1> HIDE DEF kept, dropped
<1>2. DOMAIN l = 1 .. Len(l) /\ Len(l) \in Nat
  BY Positions
<1>3. ASSUME NEW i \in DOMAIN l, l[i] = <<kind, x>>
      PROVE  In(kept, kind, x) \/ In(dropped, kind, x)
  <2>1. CASE i < cut
    <3>1. i \in DOMAIN kept /\ kept[i] = l[i]
      BY <1>1, <1>2, <2>1
    <3> QED
      BY <1>3, <3>1 DEF In
  <2>2. CASE i >= cut
    <3> DEFINE k == i - cut + 1
    <3>1. k \in DOMAIN dropped /\ cut - 1 + k = i
      BY <1>1, <1>2, <2>2
    <3>2. dropped[k] = <<kind, x>>
      BY <1>1, <1>3, <3>1
    <3> QED
      BY <3>1, <3>2 DEF In
  <2> QED
    BY <1>2, <2>1, <2>2
<1>4. (In(kept, kind, x) \/ In(dropped, kind, x)) => In(l, kind, x)
  BY <1>1, Zenon DEF In
<1> QED
  BY <1>3, <1>4 DEF In, kept, dropped

(* What may follow the cut of a journal: a cut determines it, so that a rewind that may *)
(* choose a cut can go on, and resolveRewindCut is a function.                          *)
Closings(l, cut) ==
    {Closing(Kept(l, cut), Behind(l, cut), q, c) :
        q \in InOrder(Waiting(Kept(l, cut))),
        c \in InOrder(Follows(Kept(l, cut), Behind(l, cut)))}

LEMMA OneClosing ==
  ASSUME NEW l, Sound(l), NEW cut \in 1 .. Len(l)
  PROVE  \E e : Closings(l, cut) = {e}
<1> DEFINE W == Waiting(Kept(l, cut))
           F == Follows(Kept(l, cut), Behind(l, cut))
<1>1. PICK f : InOrder(W) = {f}
  <2>1. cut - 1 \in Nat /\ W \in SUBSET (1 .. cut - 1)
    BY KeptPart DEF Waiting
  <2> HIDE DEF W
  <2> QED
    BY <2>1, OneOrder
<1>2. PICK g : InOrder(F) = {g}
  <2>1. Len(Behind(l, cut)) \in Nat /\ DOMAIN Behind(l, cut) = 1 .. Len(Behind(l, cut))
    BY DroppedPart, LenProperties
  <2>2. F \in SUBSET (1 .. Len(Behind(l, cut)))
    BY <2>1 DEF Follows
  <2> HIDE DEF F
  <2> QED
    BY <2>1, <2>2, OneOrder
<1>3. Closings(l, cut)
        = {Closing(Kept(l, cut), Behind(l, cut), q, c) : q \in InOrder(W), c \in InOrder(F)}
  BY DEF Closings
<1> HIDE DEF W, F
<1>4. Closings(l, cut) = {Closing(Kept(l, cut), Behind(l, cut), f, g)}
  BY <1>1, <1>2, <1>3
<1> QED
  BY <1>4

(* Four sequences behind one another. *)
LEMMA Joined ==
  ASSUME NEW s \in Seq(Events), NEW t \in Seq(Events), NEW u \in Seq(Events),
         NEW v \in Seq(Events), NEW n, n = s \o (t \o u \o v)
  PROVE  /\ n \in Seq(Events) /\ Len(n) = Len(s) + Len(t) + Len(u) + Len(v)
         /\ \A i \in 1 .. Len(s) : n[i] = s[i]
         /\ \A i \in 1 .. Len(t) : n[Len(s) + i] = t[i]
         /\ \A i \in 1 .. Len(u) : n[Len(s) + Len(t) + i] = u[i]
         /\ \A i \in 1 .. Len(v) : n[Len(s) + Len(t) + Len(u) + i] = v[i]
<1> DEFINE tu == t \o u
           tuv == tu \o v
<1>1. Len(s) \in Nat /\ Len(t) \in Nat /\ Len(u) \in Nat /\ Len(v) \in Nat
  BY LenProperties
<1>2. /\ tu \in Seq(Events) /\ Len(tu) = Len(t) + Len(u)
      /\ \A i \in 1 .. Len(t) : tu[i] = t[i]
      /\ \A i \in 1 .. Len(u) : tu[Len(t) + i] = u[i]
  BY <1>1, Join
<1> HIDE DEF tu
<1>3. /\ tuv \in Seq(Events) /\ Len(tuv) = Len(tu) + Len(v)
      /\ \A i \in 1 .. Len(tu) : tuv[i] = tu[i]
      /\ \A i \in 1 .. Len(v) : tuv[Len(tu) + i] = v[i]
  BY <1>1, <1>2, Join
<1> HIDE DEF tuv
<1>4. /\ n \in Seq(Events) /\ Len(n) = Len(s) + Len(tuv)
      /\ \A i \in 1 .. Len(s) : n[i] = s[i]
      /\ \A i \in 1 .. Len(tuv) : n[Len(s) + i] = tuv[i]
  <2>1. n = s \o tuv
    BY DEF tuv, tu
  <2>2. /\ s \o tuv \in Seq(Events) /\ Len(s \o tuv) = Len(s) + Len(tuv)
        /\ \A i \in 1 .. Len(s) : (s \o tuv)[i] = s[i]
        /\ \A i \in 1 .. Len(tuv) : (s \o tuv)[Len(s) + i] = tuv[i]
    BY <1>3, Join
  <2> QED
    BY <2>1, <2>2, Zenon
<1>5. ASSUME NEW i \in 1 .. Len(t) PROVE n[Len(s) + i] = t[i]
  <2>1. i \in 1 .. Len(tu) /\ i \in 1 .. Len(tuv)
    BY <1>1, <1>2, <1>3
  <2> QED
    BY <1>2, <1>3, <1>4, <2>1
<1>6. ASSUME NEW i \in 1 .. Len(u) PROVE n[Len(s) + Len(t) + i] = u[i]
  <2>1. Len(t) + i \in 1 .. Len(tu) /\ Len(t) + i \in 1 .. Len(tuv)
        /\ Len(s) + (Len(t) + i) = Len(s) + Len(t) + i
    BY <1>1, <1>2, <1>3
  <2>2. n[Len(s) + (Len(t) + i)] = tuv[Len(t) + i] /\ tuv[Len(t) + i] = tu[Len(t) + i]
    BY <1>3, <1>4, <2>1
  <2>3. tu[Len(t) + i] = u[i]
    BY <1>2
  <2> QED
    BY <2>1, <2>2, <2>3
<1>7. ASSUME NEW i \in 1 .. Len(v) PROVE n[Len(s) + Len(t) + Len(u) + i] = v[i]
  <2>1. Len(tu) + i \in 1 .. Len(tuv)
        /\ Len(s) + (Len(tu) + i) = Len(s) + Len(t) + Len(u) + i
    BY <1>1, <1>2, <1>3
  <2> QED
    BY <1>2, <1>3, <1>4, <2>1
<1>8. Len(n) = Len(s) + Len(t) + Len(u) + Len(v)
  BY <1>1, <1>2, <1>3, <1>4
<1> QED
  BY <1>4, <1>5, <1>6, <1>7, <1>8

(* The rewritten journal zone by zone: the prefix, a cancels, b copied events, and the *)
(* setting if m is 1.                                                                  *)
ZonesOf(l, cut, q, c, n, a, b, m) ==
    /\ DOMAIN q = 1 .. a /\ DOMAIN c = 1 .. b
    /\ n \in Seq(Events) /\ Len(n) = cut - 1 + a + b + m
    /\ DOMAIN n = 1 .. cut - 1 + a + b + m
    /\ \A i \in 1 .. cut - 1 : n[i] = l[i]
    /\ \A i \in 1 .. a : n[cut - 1 + i] = <<"cancel", Kept(l, cut)[q[i]][2]>>
    /\ \A i \in 1 .. b : n[cut - 1 + a + i] = Behind(l, cut)[c[i]]
    /\ m = IF Modes(Behind(l, cut)) = {} THEN 0 ELSE 1
    /\ m = 1 => n[cut - 1 + a + b + 1] = Behind(l, cut)[Max(Modes(Behind(l, cut)))]

LEMMA Zones ==
  ASSUME NEW l, NEW cut, NEW q, NEW c, NEW n, Rewritten(l, cut, q, c, n)
  PROVE  \E a, b, m \in Nat : ZonesOf(l, cut, q, c, n, a, b, m)
<1> DEFINE kept == Kept(l, cut)
           dropped == Behind(l, cut)
           A == [i \in DOMAIN q |-> <<"cancel", kept[q[i]][2]>>]
           B == [i \in DOMAIN c |-> dropped[c[i]]]
           M == Setting(dropped)
<1>1. /\ Sound(l) /\ cut \in 1 .. Len(l)
      /\ q \in InOrder(Waiting(kept)) /\ c \in InOrder(Follows(kept, dropped))
      /\ n = kept \o (A \o B \o M)
  BY DEF Rewritten, Closing
<1>2. /\ kept \in Seq(Events) /\ Len(kept) = cut - 1 /\ DOMAIN kept = 1 .. cut - 1
      /\ cut - 1 \in Nat /\ \A i \in 1 .. cut - 1 : kept[i] = l[i]
  BY <1>1, KeptPart
<1>3. /\ dropped \in Seq(Events) /\ Len(dropped) \in Nat /\ DOMAIN dropped = 1 .. Len(dropped)
  BY <1>1, DroppedPart, LenProperties
<1> HIDE DEF kept, dropped
<1>4. PICK a \in Nat : DOMAIN q = 1 .. a /\ \A i \in 1 .. a : q[i] \in DOMAIN kept
  <2>1. Waiting(kept) \in SUBSET (1 .. cut - 1)
    BY <1>2 DEF Waiting
  <2>2. /\ Cardinality(Waiting(kept)) \in Nat /\ DOMAIN q = 1 .. Cardinality(Waiting(kept))
        /\ \A i \in DOMAIN q : q[i] \in Waiting(kept)
    BY <1>1, <1>2, <2>1, AllInOrder
  <2> QED
    BY <2>2 DEF Waiting
<1>5. PICK b \in Nat : DOMAIN c = 1 .. b /\ \A i \in 1 .. b : c[i] \in DOMAIN dropped
  <2>1. Follows(kept, dropped) \in SUBSET (1 .. Len(dropped))
    BY <1>3 DEF Follows
  <2>2. /\ Cardinality(Follows(kept, dropped)) \in Nat
        /\ DOMAIN c = 1 .. Cardinality(Follows(kept, dropped))
        /\ \A i \in DOMAIN c : c[i] \in Follows(kept, dropped)
    BY <1>1, <1>3, <2>1, AllInOrder
  <2> QED
    BY <2>2 DEF Follows
<1>6. A \in Seq(Events) /\ Len(A) = a /\ \A i \in 1 .. a : A[i] = <<"cancel", kept[q[i]][2]>>
  <2>1. \A i \in 1 .. a : A[i] \in Events
    <3> TAKE i \in 1 .. a
    <3>1. kept[q[i]] \in Events
      BY <1>2, <1>4, ElementOfSeq
    <3>2. kept[q[i]][2] \in Ids /\ "cancel" \in Kinds
      BY <3>1 DEF Events, Kinds
    <3> QED
      BY <1>4, <3>2 DEF Events
  <2>2. DOMAIN A = 1 .. a /\ A = [i \in 1 .. a |-> A[i]]
    BY <1>4
  <2>3. A \in Seq(Events) /\ Len(A) = a
    <3> HIDE DEF A
    <3> QED
      BY <2>1, <2>2, SeqOfFunction
  <2> QED
    BY <1>4, <2>3
<1>7. B \in Seq(Events) /\ Len(B) = b /\ \A i \in 1 .. b : B[i] = dropped[c[i]]
  <2>1. \A i \in 1 .. b : B[i] \in Events
    BY <1>3, <1>5, ElementOfSeq
  <2>2. DOMAIN B = 1 .. b /\ B = [i \in 1 .. b |-> B[i]]
    BY <1>5
  <2>3. B \in Seq(Events) /\ Len(B) = b
    <3> HIDE DEF B
    <3> QED
      BY <2>1, <2>2, SeqOfFunction
  <2> QED
    BY <1>5, <2>3
<1>8. /\ M \in Seq(Events) /\ Len(M) = (IF Modes(dropped) = {} THEN 0 ELSE 1)
      /\ Modes(dropped) # {} => M[1] = dropped[Max(Modes(dropped))]
  <2>1. Modes(dropped) \in SUBSET (1 .. Len(dropped))
    BY <1>3 DEF Modes
  <2>2. CASE Modes(dropped) = {}
    BY <2>2 DEF Setting
  <2>3. CASE Modes(dropped) # {}
    <3> DEFINE d == dropped[Max(Modes(dropped))]
    <3>1. Max(Modes(dropped)) \in Modes(dropped)
      BY <1>3, <2>1, <2>3, Greatest
    <3>2. d \in Events
      BY <1>3, <2>1, <3>1, ElementOfSeq
    <3>3. M = <<d>>
      BY <2>3 DEF Setting
    <3> HIDE DEF d
    <3>4. <<d>> \in Seq(Events) /\ Len(<<d>>) = 1 /\ <<d>>[1] = d
      BY <3>2
    <3> QED
      BY <2>3, <3>3, <3>4 DEF d
  <2> QED
    BY <2>2, <2>3
<1> HIDE DEF A, B, M
<1>9. /\ n \in Seq(Events) /\ Len(n) = Len(kept) + Len(A) + Len(B) + Len(M)
      /\ \A i \in 1 .. Len(kept) : n[i] = kept[i]
      /\ \A i \in 1 .. Len(A) : n[Len(kept) + i] = A[i]
      /\ \A i \in 1 .. Len(B) : n[Len(kept) + Len(A) + i] = B[i]
      /\ \A i \in 1 .. Len(M) : n[Len(kept) + Len(A) + Len(B) + i] = M[i]
  <2>1. A \in Seq(Events) /\ B \in Seq(Events) /\ M \in Seq(Events) /\ kept \in Seq(Events)
    BY <1>2, <1>6, <1>7, <1>8
  <2>2. n = kept \o (A \o B \o M)
    BY <1>1
  <2> QED
    BY <2>1, <2>2, Joined, SMTT(30)
<1>10. PICK m \in Nat : m = Len(M)
  BY <1>8
<1>11. /\ Len(n) = cut - 1 + a + b + m
       /\ \A i \in 1 .. cut - 1 : n[i] = l[i]
       /\ \A i \in 1 .. a : n[cut - 1 + i] = <<"cancel", kept[q[i]][2]>>
       /\ \A i \in 1 .. b : n[cut - 1 + a + i] = dropped[c[i]]
       /\ m = 1 => n[cut - 1 + a + b + 1] = M[1]
  <2>1. Len(kept) = cut - 1 /\ Len(A) = a /\ Len(B) = b /\ Len(M) = m
    BY <1>2, <1>6, <1>7, <1>10
  <2>2. /\ Len(n) = cut - 1 + a + b + m
        /\ \A i \in 1 .. cut - 1 : n[i] = kept[i]
        /\ \A i \in 1 .. a : n[cut - 1 + i] = A[i]
        /\ \A i \in 1 .. b : n[cut - 1 + a + i] = B[i]
        /\ \A i \in 1 .. m : n[cut - 1 + a + b + i] = M[i]
    BY <1>9, <2>1, Zenon
  <2>3. m = 1 => 1 \in 1 .. m
    OBVIOUS
  <2> QED
    <3>1. \A i \in 1 .. cut - 1 : n[i] = l[i]
      BY <1>2, <2>2, Zenon
    <3>2. \A i \in 1 .. a : n[cut - 1 + i] = <<"cancel", kept[q[i]][2]>>
      BY <1>6, <2>2, Zenon
    <3>3. \A i \in 1 .. b : n[cut - 1 + a + i] = dropped[c[i]]
      BY <1>7, <2>2, Zenon
    <3> QED
      BY <2>2, <2>3, <3>1, <3>2, <3>3, Zenon
<1>12. m = (IF Modes(dropped) = {} THEN 0 ELSE 1)
       /\ (m = 1 => n[cut - 1 + a + b + 1] = dropped[Max(Modes(dropped))])
  BY <1>8, <1>10, <1>11
<1>13. DOMAIN n = 1 .. cut - 1 + a + b + m
  BY <1>9, <1>11, LenProperties
<1> WITNESS a \in Nat, b \in Nat, m \in Nat
<1> QED
  BY <1>4, <1>5, <1>9, <1>11, <1>12, <1>13 DEF kept, dropped, ZonesOf

(* Each position of the rewritten journal lies in one of the zones. *)
Zoned(h, a, b, m, k) ==
    \/ k \in 1 .. h
    \/ \E i \in 1 .. a : k = h + i
    \/ \E i \in 1 .. b : k = h + a + i
    \/ m = 1 /\ k = h + a + b + 1

LEMMA InAZone ==
  ASSUME NEW h \in Nat, NEW a \in Nat, NEW b \in Nat, NEW m \in {0, 1},
         NEW k \in 1 .. h + a + b + m
  PROVE  Zoned(h, a, b, m, k)
<1>1. CASE k \in h + 1 .. h + a
  <2>1. k - h \in 1 .. a /\ k = h + (k - h)
    BY <1>1
  <2> QED
    BY <2>1 DEF Zoned
<1>2. CASE k \in h + a + 1 .. h + a + b
  <2>1. k - h - a \in 1 .. b /\ k = h + a + (k - h - a)
    BY <1>2
  <2> QED
    BY <2>1 DEF Zoned
<1>3. \/ k \in 1 .. h
      \/ k \in h + 1 .. h + a
      \/ k \in h + a + 1 .. h + a + b
      \/ m = 1 /\ k = h + a + b + 1
  OBVIOUS
<1> QED
  BY <1>1, <1>2, <1>3 DEF Zoned

(* The positions of the choice. *)
LEMMA Chosen ==
  ASSUME NEW l, NEW cut, NEW q, NEW c, NEW n, Rewritten(l, cut, q, c, n)
  PROVE  /\ \A i \in DOMAIN q : /\ q[i] \in DOMAIN Kept(l, cut)
                                /\ Kept(l, cut)[q[i]][1] = "accept"
                                /\ Kept(l, cut)[q[i]][2] \in Queue(Kept(l, cut))
         /\ \A i, j \in DOMAIN q : q[i] = q[j] => i = j
         /\ \A x \in Waiting(Kept(l, cut)) : \E i \in DOMAIN q : q[i] = x
         /\ \A i \in DOMAIN c : /\ c[i] \in DOMAIN Behind(l, cut)
                                /\ Copied(Kept(l, cut), Behind(l, cut), Behind(l, cut)[c[i]])
         /\ \A i, j \in DOMAIN c : i < j => c[i] < c[j]
         /\ \A x \in Follows(Kept(l, cut), Behind(l, cut)) : \E i \in DOMAIN c : c[i] = x
<1> DEFINE kept == Kept(l, cut)
           dropped == Behind(l, cut)
<1>1. /\ Sound(l) /\ cut \in 1 .. Len(l)
      /\ q \in InOrder(Waiting(kept)) /\ c \in InOrder(Follows(kept, dropped))
  BY DEF Rewritten
<1>2. Len(kept) \in Nat /\ DOMAIN kept = 1 .. Len(kept)
  BY <1>1, KeptPart
<1>3. Len(dropped) \in Nat /\ DOMAIN dropped = 1 .. Len(dropped)
  BY <1>1, DroppedPart, LenProperties
<1> HIDE DEF kept, dropped
<1>4. /\ \A i \in DOMAIN q : q[i] \in Waiting(kept)
      /\ \A i, j \in DOMAIN q : q[i] = q[j] => i = j
      /\ \A x \in Waiting(kept) : \E i \in DOMAIN q : q[i] = x
  <2>1. Waiting(kept) \in SUBSET (1 .. Len(kept))
    BY <1>2 DEF Waiting
  <2> QED
    BY <1>1, <1>2, <2>1, AllInOrder
<1>5. /\ \A i \in DOMAIN c : c[i] \in Follows(kept, dropped)
      /\ \A i, j \in DOMAIN c : i < j => c[i] < c[j]
      /\ \A x \in Follows(kept, dropped) : \E i \in DOMAIN c : c[i] = x
  <2>1. Follows(kept, dropped) \in SUBSET (1 .. Len(dropped))
    BY <1>3 DEF Follows
  <2> QED
    BY <1>1, <1>3, <2>1, AllInOrder
<1>6. \A i \in DOMAIN q : /\ q[i] \in DOMAIN kept /\ kept[q[i]][1] = "accept"
                          /\ kept[q[i]][2] \in Queue(kept)
  BY <1>4 DEF Waiting
<1>7. \A i \in DOMAIN c : c[i] \in DOMAIN dropped /\ Copied(kept, dropped, dropped[c[i]])
  BY <1>5 DEF Follows
<1> QED
  BY <1>4, <1>5, <1>6, <1>7 DEF kept, dropped

(* What stands before a copied event stood before it in the old journal. *)
LEMMA OldOrder ==
  ASSUME NEW l, NEW cut, NEW q, NEW c, NEW n, Rewritten(l, cut, q, c, n),
         NEW a \in Nat, NEW b \in Nat, NEW m \in Nat,
         ZonesOf(l, cut, q, c, n, a, b, m), NEW j \in 1 .. b
  PROVE  /\ cut - 1 + c[j] \in DOMAIN l /\ n[cut - 1 + a + j] = l[cut - 1 + c[j]]
         /\ \A kind, x : kind # "cancel" /\ Ago(n, kind, x, cut - 1 + a + j)
                            => Ago(l, kind, x, cut - 1 + c[j])
<1> DEFINE h == cut - 1
<1>1. /\ m \in {0, 1} /\ DOMAIN q = 1 .. a /\ DOMAIN c = 1 .. b
      /\ DOMAIN n = 1 .. cut - 1 + a + b + m
      /\ \A i \in 1 .. cut - 1 : n[i] = l[i]
      /\ \A i \in 1 .. a : n[cut - 1 + i] = <<"cancel", Kept(l, cut)[q[i]][2]>>
      /\ \A i \in 1 .. b : n[cut - 1 + a + i] = Behind(l, cut)[c[i]]
  BY DEF ZonesOf
<1>2. Sound(l) /\ cut \in 1 .. Len(l)
  BY DEF Rewritten
<1>3. h \in Nat /\ \A i \in 1 .. h : i \in DOMAIN l
  BY <1>2, KeptPart
<1>4. \A i \in 1 .. b : /\ c[i] \in Nat \ {0} /\ h + c[i] \in DOMAIN l
                        /\ n[h + a + i] = l[h + c[i]]
  <2> TAKE i \in 1 .. b
  <2>1. c[i] \in DOMAIN Behind(l, cut)
    BY <1>1, Chosen
  <2>2. /\ c[i] \in 1 .. Len(l) - cut + 1 /\ Len(l) \in Nat
        /\ Behind(l, cut)[c[i]] = l[cut - 1 + c[i]] /\ cut - 1 + c[i] \in DOMAIN l
    <3>1. /\ DOMAIN Behind(l, cut) = 1 .. Len(l) - cut + 1
          /\ \A x \in 1 .. Len(l) - cut + 1 :
                Behind(l, cut)[x] = l[cut - 1 + x] /\ cut - 1 + x \in DOMAIN l
      BY <1>2, DroppedPart
    <3>2. Len(l) \in Nat
      BY <1>2, Positions
    <3> QED
      BY <2>1, <3>1, <3>2
  <2>3. c[i] \in Nat \ {0}
    <3>1. c[i] \in 1 .. Len(l) - cut + 1 /\ Len(l) \in Nat
      BY <2>2
    <3> QED
      BY <3>1, <1>2
  <2>4. n[h + a + i] = Behind(l, cut)[c[i]]
    BY <1>1
  <2> QED
    BY <2>2, <2>3, <2>4
<1>5. \A i \in 1 .. b : i < j => c[i] < c[j]
  BY <1>1, Chosen
<1>6. /\ DOMAIN n = 1 .. h + a + b + m
      /\ \A i \in 1 .. h : n[i] = l[i]
      /\ \A i \in 1 .. a : n[h + i][1] = "cancel"
  BY <1>1
<1> HIDE DEF h
<1>7. ASSUME NEW kind, NEW x, kind # "cancel", NEW k \in DOMAIN n, k < h + a + j, n[k] = <<kind, x>>
      PROVE  Ago(l, kind, x, h + c[j])
  <2>1. \/ k \in 1 .. h
        \/ \E i \in 1 .. a : k = h + i
        \/ \E i \in 1 .. b : k = h + a + i
        \/ m = 1 /\ k = h + a + b + 1
    <3>1. k \in 1 .. h + a + b + m /\ h \in Nat /\ m \in {0, 1}
      BY <1>3, <1>7, <1>6, <1>1
    <3>2. Zoned(h, a, b, m, k)
      BY <3>1, InAZone
    <3> QED
      BY <3>2 DEF Zoned
  <2>2. CASE k \in 1 .. h
    <3>1. k \in DOMAIN l /\ l[k] = <<kind, x>>
      BY <1>3, <1>7, <1>6, <2>2
    <3>2. c[j] \in Nat \ {0}
      BY <1>4
    <3>3. k < h + c[j]
      BY <1>3, <2>2, <3>2
    <3> QED
      BY <3>1, <3>3 DEF Ago
  <2>3. CASE \E i \in 1 .. a : k = h + i
    <3>1. n[k][1] = "cancel"
      BY <1>6, <2>3
    <3> QED
      BY <1>7, <3>1
  <2>4. CASE \E i \in 1 .. b : k = h + a + i
    <3>1. PICK i \in 1 .. b : k = h + a + i
      BY <2>4
    <3>2. i < j
      BY <1>3, <1>7, <3>1
    <3>3. h + c[i] \in DOMAIN l /\ l[h + c[i]] = <<kind, x>>
      BY <1>4, <1>7, <3>1
    <3>4. c[i] \in Nat /\ c[j] \in Nat /\ c[i] < c[j]
      BY <1>4, <1>5, <3>2
    <3>5. h + c[i] < h + c[j]
      BY <1>3, <3>4
    <3> QED
      BY <3>3, <3>5 DEF Ago
  <2>5. ~(m = 1 /\ k = h + a + b + 1)
    BY <1>3, <1>7
  <2> QED
    BY <2>1, <2>2, <2>3, <2>4, <2>5
<1>8. \A kind, x : kind # "cancel" /\ Ago(n, kind, x, h + a + j) => Ago(l, kind, x, h + c[j])
  BY <1>7, Zenon DEF Ago
<1> QED
  BY <1>4, <1>8 DEF h

(* The rewritten journal is sound: what its copied events find before them is what they *)
(* found in the old one.                                                                *)
LEMMA RewrittenSound ==
  ASSUME NEW l, NEW cut, NEW q, NEW c, NEW n, Rewritten(l, cut, q, c, n)
  PROVE  Sound(n)
<1> DEFINE kept == Kept(l, cut)
           dropped == Behind(l, cut)
<1>1. Sound(l) /\ cut \in 1 .. Len(l)
  BY DEF Rewritten
<1>2. PICK a \in Nat, b \in Nat, m \in Nat : ZonesOf(l, cut, q, c, n, a, b, m)
  BY Zones
<1>3. /\ DOMAIN q = 1 .. a /\ DOMAIN c = 1 .. b
      /\ n \in Seq(Events) /\ Len(n) = cut - 1 + a + b + m
      /\ DOMAIN n = 1 .. cut - 1 + a + b + m
      /\ \A i \in 1 .. cut - 1 : n[i] = l[i]
      /\ \A i \in 1 .. a : n[cut - 1 + i] = <<"cancel", kept[q[i]][2]>>
      /\ \A i \in 1 .. b : n[cut - 1 + a + i] = dropped[c[i]]
      /\ m = IF Modes(dropped) = {} THEN 0 ELSE 1
      /\ m = 1 => n[cut - 1 + a + b + 1] = dropped[Max(Modes(dropped))]
  BY <1>2 DEF ZonesOf
<1>4. /\ \A i \in 1 .. a : /\ q[i] \in DOMAIN kept /\ kept[q[i]][1] = "accept"
                           /\ kept[q[i]][2] \in Queue(kept)
      /\ \A i, j \in 1 .. a : q[i] = q[j] => i = j
      /\ \A i \in 1 .. b : c[i] \in DOMAIN dropped /\ Copied(kept, dropped, dropped[c[i]])
  BY <1>3, Chosen
<1>5. /\ cut - 1 \in Nat /\ Len(kept) = cut - 1 /\ kept \in Seq(Events) /\ Sound(kept)
      /\ DOMAIN kept = 1 .. cut - 1 /\ \A i \in 1 .. cut - 1 : kept[i] = l[i]
  BY <1>1, KeptPart
<1>6. m \in {0, 1}
  BY <1>3
<1> HIDE DEF kept, dropped
<1> DEFINE OK(i) == EventOK(n, i, n[i][1], n[i][2])
<1>7. ASSUME NEW i \in 1 .. cut - 1 PROVE OK(i)
  <2>1. /\ Len(kept) <= Len(n) /\ i \in 1 .. Len(kept) /\ i \in DOMAIN kept
        /\ \A k \in 1 .. Len(kept) : n[k] = kept[k]
    <3>1. cut - 1 <= Len(n)
      BY <1>3, <1>5
    <3> QED
      BY <1>3, <1>5, <3>1
  <2>2. EventOK(kept, i, kept[i][1], kept[i][2])
    BY <1>5, <2>1, Positions
  <2>3. EventOK(n, i, kept[i][1], kept[i][2])
    BY <1>3, <1>5, <2>1, <2>2, EventsStay
  <2> QED
    BY <2>1, <2>3
<1>8. ASSUME NEW i \in 1 .. a PROVE OK(cut - 1 + i)
  <2> DEFINE x == kept[q[i]][2]
  <2>1. n[cut - 1 + i] = <<"cancel", x>> /\ x \in Queue(kept)
    BY <1>3, <1>4
  <2>2. ASSUME NEW k \in DOMAIN n, k < cut - 1 + i, n[k] = <<"cancel", x>>
        PROVE  FALSE
    <3>1. CASE k \in 1 .. cut - 1
      <4>1. k \in DOMAIN kept /\ kept[k] = <<"cancel", x>>
        BY <1>3, <1>5, <2>2, <3>1
      <4>2. In(kept, "cancel", x)
        BY <4>1 DEF In
      <4> QED
        BY <2>1, <4>2 DEF Queue
    <3>2. CASE k \notin 1 .. cut - 1
      <4> DEFINE j == k - (cut - 1)
      <4>1. j \in 1 .. a /\ j < i /\ k = cut - 1 + j
        BY <1>3, <1>5, <1>6, <2>2, <3>2
      <4> HIDE DEF j
      <4>2. n[cut - 1 + j] = <<"cancel", kept[q[j]][2]>>
        BY <1>3, <4>1
      <4>3. kept[q[j]][2] = x
        BY <2>2, <4>1, <4>2
      <4>4. q[i] \in DOMAIN kept /\ q[j] \in DOMAIN kept
            /\ kept[q[i]][1] = "accept" /\ kept[q[j]][1] = "accept"
        BY <1>4, <4>1
      <4>5. kept[q[i]] = <<"accept", x>> /\ kept[q[j]] = <<"accept", x>>
        BY <1>5, <4>3, <4>4, Positions
      <4>6. q[i] = q[j]
        <5>1. Sound(kept) /\ "accept" \notin {"mode", "rewound"}
          BY <1>5
        <5> QED
          BY <4>4, <4>5, <5>1, OneEvent
      <4> QED
        BY <1>4, <4>1, <4>6
    <3> QED
      BY <3>1, <3>2
  <2>3. ~Ago(n, "cancel", x, cut - 1 + i)
    BY <2>2, Zenon DEF Ago
  <2>4. n[cut - 1 + i][1] = "cancel" /\ n[cut - 1 + i][2] = x
    BY <2>1
  <2> QED
    BY <2>3, <2>4 DEF EventOK
<1>9. ASSUME NEW j \in 1 .. b PROVE OK(cut - 1 + a + j)
  <2> DEFINE i == cut - 1 + a + j
             s == cut - 1 + c[j]
             kind == l[s][1]
             x == l[s][2]
  <2>1. /\ s \in DOMAIN l /\ n[i] = l[s]
        /\ \A w, y : w # "cancel" /\ Ago(n, w, y, i) => Ago(l, w, y, s)
    BY <1>2, OldOrder
  <2>2. EventOK(l, s, kind, x) /\ l[s] = <<kind, x>>
    BY <1>1, <2>1, Positions
  <2>3. Copied(kept, dropped, <<kind, x>>)
    <3>1. n[i] = dropped[c[j]] /\ Copied(kept, dropped, dropped[c[j]])
      BY <1>3, <1>4
    <3> QED
      BY <2>1, <2>2, <3>1
  <2>4. i \in Nat /\ \A k \in 1 .. cut - 1 : k < i /\ k \in DOMAIN n
    BY <1>3, <1>5, <1>6
  <2> HIDE DEF i, s, kind, x
  <2>5. kind \in {"settle", "ended", "notice", "late", "revoke"}
        /\ (kind \in {"settle", "ended"} => x \in OpenWork(kept))
    BY <2>3 DEF Copied
  <2>6. kind \in {"settle", "ended"} => Ago(n, "begin", x, i)
    <3> SUFFICES ASSUME kind \in {"settle", "ended"} PROVE Ago(n, "begin", x, i)
      OBVIOUS
    <3>1. PICK k \in DOMAIN kept : kept[k] = <<"begin", x>>
      BY <2>5 DEF OpenWork, Begun, In
    <3>2. k \in DOMAIN n /\ k < i /\ n[k] = <<"begin", x>>
      BY <1>3, <1>5, <2>4, <3>1
    <3> QED
      BY <3>2 DEF Ago
  <2>7. EventOK(n, i, kind, x)
    BY <2>1, <2>2, <2>5, <2>6 DEF EventOK
  <2>8. n[i][1] = kind /\ n[i][2] = x
    BY <2>1, <2>2
  <2> QED
    BY <2>7, <2>8 DEF i
<1>10. ASSUME m = 1 PROVE OK(cut - 1 + a + b + 1)
  <2>1. Modes(dropped) # {}
    BY <1>3, <1>10
  <2>2. Len(dropped) \in Nat /\ DOMAIN dropped = 1 .. Len(dropped)
    BY <1>1, DroppedPart, LenProperties DEF dropped
  <2>3. Modes(dropped) \in SUBSET (1 .. Len(dropped))
    BY <2>2 DEF Modes
  <2>4. Max(Modes(dropped)) \in Modes(dropped)
    BY <2>1, <2>2, <2>3, Greatest
  <2> DEFINE g == Max(Modes(dropped))
  <2>5. /\ n[cut - 1 + a + b + 1] = dropped[g] /\ dropped[g][1] = "mode" /\ g \in DOMAIN dropped
    BY <1>3, <1>10, <2>4 DEF Modes
  <2>6. dropped[g] = l[cut - 1 + g] /\ cut - 1 + g \in DOMAIN l
    BY <1>1, <2>5, DroppedPart DEF dropped
  <2>7. EventOK(l, cut - 1 + g, l[cut - 1 + g][1], l[cut - 1 + g][2])
    BY <1>1, <2>6, Positions
  <2>8. n[cut - 1 + a + b + 1][2] \in Nat
    BY <2>5, <2>6, <2>7 DEF EventOK
  <2> QED
    BY <2>5, <2>8 DEF EventOK
<1>11. \A i \in DOMAIN n : OK(i)
  <2> TAKE i \in DOMAIN n
  <2> DEFINE h == cut - 1
  <2>1. h \in Nat /\ i \in 1 .. h + a + b + m
    BY <1>3, <1>5
  <2> HIDE DEF h, OK
  <2>2. Zoned(h, a, b, m, i)
    BY <1>6, <2>1, InAZone
  <2> QED
    BY <1>7, <1>8, <1>9, <1>10, <2>2 DEF Zoned, h
<1> QED
  BY <1>3, <1>11 DEF Sound

(* What the rewritten journal says. *)
LEMMA Says ==
  ASSUME NEW l, NEW cut, NEW q, NEW c, NEW n, Rewritten(l, cut, q, c, n), NEW kind, NEW x
  PROVE  /\ In(Kept(l, cut), kind, x) => In(n, kind, x)
         /\ In(Behind(l, cut), kind, x) /\ Copied(Kept(l, cut), Behind(l, cut), <<kind, x>>)
               => In(n, kind, x)
         /\ In(n, kind, x) => \/ kind \in {"cancel", "mode"}
                              \/ In(Kept(l, cut), kind, x)
                              \/ /\ In(Behind(l, cut), kind, x)
                                 /\ Copied(Kept(l, cut), Behind(l, cut), <<kind, x>>)
         /\ kind = "cancel" /\ x \in Queue(Kept(l, cut)) => In(n, kind, x)
<1> DEFINE kept == Kept(l, cut)
           dropped == Behind(l, cut)
<1>1. Sound(l) /\ cut \in 1 .. Len(l)
  BY DEF Rewritten
<1>2. PICK a \in Nat, b \in Nat, m \in Nat : ZonesOf(l, cut, q, c, n, a, b, m)
  BY Zones
<1>3. /\ DOMAIN q = 1 .. a /\ DOMAIN c = 1 .. b /\ DOMAIN n = 1 .. cut - 1 + a + b + m
      /\ \A i \in 1 .. cut - 1 : n[i] = l[i]
      /\ \A i \in 1 .. a : n[cut - 1 + i] = <<"cancel", kept[q[i]][2]>>
      /\ \A i \in 1 .. b : n[cut - 1 + a + i] = dropped[c[i]]
      /\ m = IF Modes(dropped) = {} THEN 0 ELSE 1
      /\ m = 1 => n[cut - 1 + a + b + 1] = dropped[Max(Modes(dropped))]
  BY <1>2 DEF ZonesOf
<1>4. /\ \A w \in Waiting(kept) : \E i \in 1 .. a : q[i] = w
      /\ \A i \in 1 .. b : c[i] \in DOMAIN dropped /\ Copied(kept, dropped, dropped[c[i]])
      /\ \A w \in Follows(kept, dropped) : \E i \in 1 .. b : c[i] = w
  BY <1>3, Chosen
<1>5. /\ cut - 1 \in Nat /\ Sound(kept)
      /\ DOMAIN kept = 1 .. cut - 1 /\ \A i \in 1 .. cut - 1 : kept[i] = l[i]
  BY <1>1, KeptPart
<1>6. Len(dropped) \in Nat /\ DOMAIN dropped = 1 .. Len(dropped)
  BY <1>1, DroppedPart, LenProperties
<1> HIDE DEF kept, dropped
<1>7. In(kept, kind, x) => In(n, kind, x)
  <2> SUFFICES ASSUME NEW i \in DOMAIN kept, kept[i] = <<kind, x>> PROVE In(n, kind, x)
    BY DEF In
  <2>1. i \in DOMAIN n /\ n[i] = <<kind, x>>
    BY <1>3, <1>5
  <2> QED
    BY <2>1 DEF In
<1>8. In(dropped, kind, x) /\ Copied(kept, dropped, <<kind, x>>) => In(n, kind, x)
  <2> SUFFICES ASSUME NEW w \in DOMAIN dropped, dropped[w] = <<kind, x>>,
                      Copied(kept, dropped, <<kind, x>>)
               PROVE  In(n, kind, x)
    BY DEF In
  <2>1. w \in Follows(kept, dropped)
    BY DEF Follows
  <2>2. PICK i \in 1 .. b : c[i] = w
    BY <1>4, <2>1
  <2>3. cut - 1 + a + i \in DOMAIN n
    BY <1>3, <1>5
  <2>4. n[cut - 1 + a + i] = <<kind, x>>
    BY <1>3, <2>2
  <2> QED
    BY <2>3, <2>4 DEF In
<1>9. kind = "cancel" /\ x \in Queue(kept) => In(n, kind, x)
  <2> SUFFICES ASSUME kind = "cancel", x \in Queue(kept) PROVE In(n, kind, x)
    OBVIOUS
  <2>1. PICK w \in DOMAIN kept : kept[w] = <<"accept", x>>
    BY DEF Queue, In
  <2>2. w \in Waiting(kept)
    BY <2>1 DEF Waiting
  <2>3. PICK i \in 1 .. a : q[i] = w
    BY <1>4, <2>2
  <2>4. cut - 1 + i \in DOMAIN n
    BY <1>3, <1>5
  <2>5. n[cut - 1 + i] = <<"cancel", x>>
    BY <1>3, <2>1, <2>3
  <2> QED
    BY <2>4, <2>5 DEF In
<1>10. ASSUME NEW i \in DOMAIN n, n[i] = <<kind, x>>, kind \notin {"cancel", "mode"}
       PROVE  \/ In(kept, kind, x)
              \/ In(dropped, kind, x) /\ Copied(kept, dropped, <<kind, x>>)
  <2>1. CASE i \in 1 .. cut - 1
    <3>1. i \in DOMAIN kept /\ kept[i] = <<kind, x>>
      BY <1>3, <1>5, <1>10, <2>1
    <3> QED
      BY <3>1 DEF In
  <2>2. CASE \E j \in 1 .. a : i = cut - 1 + j
    <3>1. n[i][1] = "cancel"
      BY <1>3, <2>2
    <3> QED
      BY <1>10, <3>1
  <2>3. CASE \E j \in 1 .. b : i = cut - 1 + a + j
    <3>1. PICK j \in 1 .. b : i = cut - 1 + a + j
      BY <2>3
    <3>2. c[j] \in DOMAIN dropped /\ dropped[c[j]] = <<kind, x>>
      BY <1>3, <1>4, <1>10, <3>1
    <3>3. Copied(kept, dropped, <<kind, x>>)
      BY <1>4, <3>2
    <3> QED
      BY <3>2, <3>3 DEF In
  <2>4. CASE m = 1 /\ i = cut - 1 + a + b + 1
    <3>1. Modes(dropped) # {}
      BY <1>3, <2>4
    <3>2. Modes(dropped) \in SUBSET (1 .. Len(dropped))
      BY <1>6 DEF Modes
    <3>3. Max(Modes(dropped)) \in Modes(dropped)
      BY <1>6, <3>1, <3>2, Greatest
    <3>4. n[i][1] = "mode"
      BY <1>3, <2>4, <3>3 DEF Modes
    <3> QED
      BY <1>10, <3>4
  <2> DEFINE h == cut - 1
  <2>5. h \in Nat /\ m \in {0, 1} /\ i \in 1 .. h + a + b + m
    BY <1>3, <1>5
  <2> HIDE DEF h
  <2>6. Zoned(h, a, b, m, i)
    BY <2>5, InAZone
  <2> QED
    BY <2>1, <2>2, <2>3, <2>4, <2>6 DEF Zoned, h
<1>11. In(n, kind, x) /\ kind \notin {"cancel", "mode"}
          => \/ In(kept, kind, x)
             \/ In(dropped, kind, x) /\ Copied(kept, dropped, <<kind, x>>)
  BY <1>10, Zenon DEF In
<1> QED
  BY <1>7, <1>8, <1>9, <1>11 DEF kept, dropped

(* The setting is the one of the old journal. *)
LEMMA SameSetting ==
  ASSUME NEW l, NEW cut, NEW q, NEW c, NEW n, Rewritten(l, cut, q, c, n)
  PROVE  Latest(n) = Latest(l)
<1> DEFINE kept == Kept(l, cut)
           dropped == Behind(l, cut)
           h == cut - 1
<1>1. Sound(l) /\ cut \in 1 .. Len(l)
  BY DEF Rewritten
<1>2. PICK a \in Nat, b \in Nat, m \in Nat : ZonesOf(l, cut, q, c, n, a, b, m)
  BY Zones
<1>3. /\ DOMAIN q = 1 .. a /\ DOMAIN c = 1 .. b /\ DOMAIN n = 1 .. h + a + b + m
      /\ \A i \in 1 .. h : n[i] = l[i]
      /\ \A i \in 1 .. a : n[h + i] = <<"cancel", kept[q[i]][2]>>
      /\ \A i \in 1 .. b : n[h + a + i] = dropped[c[i]]
      /\ m = IF Modes(dropped) = {} THEN 0 ELSE 1
      /\ m = 1 => n[h + a + b + 1] = dropped[Max(Modes(dropped))]
  BY <1>2 DEF ZonesOf
<1>4. \A i \in 1 .. b : Copied(kept, dropped, dropped[c[i]])
  BY <1>3, Chosen
<1>5. h \in Nat /\ cut = h + 1 /\ cut \in Nat
  BY <1>1, KeptPart
<1>6. Len(l) \in Nat /\ DOMAIN l = 1 .. Len(l)
  BY <1>1, Positions
<1>7. DOMAIN dropped = 1 .. Len(l) - h /\ \A i \in 1 .. Len(l) - h : dropped[i] = l[h + i]
  <2>1. /\ DOMAIN dropped = 1 .. Len(l) - cut + 1
        /\ \A i \in 1 .. Len(l) - cut + 1 : dropped[i] = l[cut - 1 + i]
    BY <1>1, DroppedPart
  <2>2. Len(l) - cut + 1 = Len(l) - h
    BY <1>5, <1>6
  <2> QED
    BY <2>1, <2>2
<1>8. Len(l) - h \in Nat /\ h <= Len(l)
  BY <1>1, <1>5, <1>6
<1> HIDE DEF kept, dropped, h
<1>9. Modes(dropped) \in SUBSET (1 .. Len(l) - h) /\ Modes(l) \in SUBSET (1 .. Len(l))
      /\ Modes(n) \in SUBSET (1 .. h + a + b + m)
  BY <1>3, <1>6, <1>7 DEF Modes
<1>10. \A i \in 1 .. a + b : n[h + i][1] # "mode"
  <2> TAKE i \in 1 .. a + b
  <2>1. CASE i \in 1 .. a
    BY <1>3, <2>1
  <2>2. CASE i \notin 1 .. a
    <3> DEFINE j == i - a
    <3>1. j \in 1 .. b /\ h + a + j = h + i
      BY <1>5, <2>2
    <3>2. Copied(kept, dropped, n[h + a + j])
      BY <1>3, <1>4, <3>1
    <3> QED
      BY <3>1, <3>2 DEF Copied
  <2> QED
    BY <2>1, <2>2
<1>11. CASE Modes(dropped) = {}
  <2>1. m = 0
    BY <1>3, <1>11
  <2>2. Modes(n) = {i \in 1 .. h : l[i][1] = "mode"}
    <3>1. \A i \in 1 .. h + a + b : i \notin 1 .. h => n[i][1] # "mode"
      <4> TAKE i \in 1 .. h + a + b
      <4> HAVE i \notin 1 .. h
      <4>1. i - h \in 1 .. a + b /\ h + (i - h) = i
        BY <1>5
      <4> QED
        BY <1>10, <4>1
    <3>2. DOMAIN n = 1 .. h + a + b /\ \A i \in 1 .. h : i \in 1 .. h + a + b
      BY <1>3, <1>5, <2>1
    <3> QED
      BY <1>3, <3>1, <3>2 DEF Modes
  <2>3. Modes(l) = {i \in 1 .. h : l[i][1] = "mode"}
    <3>1. \A i \in 1 .. Len(l) : i \notin 1 .. h => l[i][1] # "mode"
      <4> TAKE i \in 1 .. Len(l)
      <4> HAVE i \notin 1 .. h
      <4>1. i - h \in 1 .. Len(l) - h /\ h + (i - h) = i
        BY <1>5, <1>6
      <4> QED
        BY <1>7, <1>11, <4>1 DEF Modes
    <3>2. \A i \in 1 .. h : i \in 1 .. Len(l)
      BY <1>5, <1>6, <1>8
    <3> QED
      BY <1>6, <3>1, <3>2 DEF Modes
  <2>4. Modes(n) = Modes(l)
    BY <2>2, <2>3
  <2>5. CASE Modes(l) = {}
    BY <2>4, <2>5 DEF Latest
  <2>6. CASE Modes(l) # {}
    <3>1. Max(Modes(l)) \in Modes(l)
      BY <1>6, <1>9, <2>6, Greatest
    <3>2. n[Max(Modes(l))] = l[Max(Modes(l))]
      BY <1>3, <2>3, <3>1
    <3> QED
      BY <2>4, <2>6, <3>2 DEF Latest
  <2> QED
    BY <2>5, <2>6
<1>12. CASE Modes(dropped) # {}
  <2> DEFINE d == Max(Modes(dropped))
             e == h + a + b + 1
  <2>1. m = 1 /\ n[e] = dropped[d]
    BY <1>3, <1>12
  <2>2. d \in Modes(dropped) /\ \A i \in Modes(dropped) : i <= d
    BY <1>8, <1>9, <1>12, Greatest
  <2>3. d \in 1 .. Len(l) - h /\ dropped[d] = l[h + d] /\ dropped[d][1] = "mode"
    BY <1>7, <1>9, <2>2 DEF Modes
  <2>4. e \in Modes(n) /\ \A i \in Modes(n) : i <= e
    <3>1. e \in DOMAIN n
      BY <1>3, <1>5, <2>1
    <3>2. e \in Modes(n)
      BY <2>1, <2>3, <3>1 DEF Modes
    <3> QED
      BY <1>5, <1>9, <2>1, <3>2
  <2>5. h + d \in Modes(l) /\ \A i \in Modes(l) : i <= h + d
    <3>1. h + d \in DOMAIN l
      BY <1>5, <1>6, <1>8, <2>3
    <3>2. h + d \in Modes(l)
      BY <2>3, <3>1 DEF Modes
    <3>3. ASSUME NEW i \in Modes(l), i > h + d PROVE FALSE
      <4>1. i \in 1 .. Len(l) /\ l[i][1] = "mode"
        BY <1>6 DEF Modes
      <4>2. i - h \in 1 .. Len(l) - h /\ h + (i - h) = i /\ ~(i - h <= d)
        BY <1>5, <1>6, <2>3, <3>3, <4>1
      <4>3. i - h \in Modes(dropped)
        BY <1>7, <4>1, <4>2 DEF Modes
      <4> QED
        BY <2>2, <4>2, <4>3
    <3>4. \A i \in Modes(l) : i \in Int /\ h + d \in Int
      BY <1>5, <1>9, <2>3
    <3> QED
      BY <3>2, <3>3, <3>4
  <2> HIDE DEF d, e
  <2>6. Max(Modes(n)) \in Modes(n) /\ \A i \in Modes(n) : i <= Max(Modes(n))
    <3>1. h + a + b + m \in Nat /\ Modes(n) # {}
      BY <1>5, <2>4
    <3> QED
      BY <1>9, <3>1, Greatest
  <2>7. Max(Modes(l)) \in Modes(l) /\ \A i \in Modes(l) : i <= Max(Modes(l))
    <3>1. Modes(l) # {}
      BY <2>5
    <3> QED
      BY <1>6, <1>9, <3>1, Greatest
  <2>8. Max(Modes(n)) = e /\ Max(Modes(l)) = h + d
    <3>1. Max(Modes(n)) \in Int /\ e \in Int /\ Max(Modes(l)) \in Int /\ h + d \in Int
      BY <1>9, <2>4, <2>5, <2>6, <2>7
    <3>2. Max(Modes(n)) <= e /\ e <= Max(Modes(n))
      BY <2>4, <2>6
    <3>3. Max(Modes(l)) <= h + d /\ h + d <= Max(Modes(l))
      BY <2>5, <2>7
    <3> QED
      BY <3>1, <3>2, <3>3
  <2>9. n[e] = l[h + d]
    BY <2>1, <2>3
  <2>10. Modes(n) # {} /\ Modes(l) # {}
    BY <2>4, <2>5
  <2> QED
    BY <2>8, <2>9, <2>10 DEF Latest
<1> QED
  BY <1>11, <1>12

-----------------------------------------------------------------------------
(***************************************************************************)
(* What a rewind keeps.                                                    *)
(***************************************************************************)
(* No event but a setting and the mark of a rewrite is there twice. *)
LEMMA OnceEach ==
  ASSUME NEW l, Sound(l)
  PROVE  \A i \in DOMAIN l :
           /\ l[i][1] \in Kinds
           /\ l[i][1] \notin {"mode", "rewound"} => Times(l, l[i][1], l[i][2]) = 1
<1> TAKE i \in DOMAIN l
<1>1. l[i] = <<l[i][1], l[i][2]>> /\ l[i][1] \in Kinds
  BY Positions
<1>2. In(l, l[i][1], l[i][2])
  BY <1>1 DEF In
<1> QED
  BY <1>1, <1>2, CountEvent

(* What is left is closed. *)
LEMMA ClosedAgain ==
  ASSUME NEW l, NEW cut, NEW q, NEW c, NEW n, Rewritten(l, cut, q, c, n)
  PROVE  /\ Ongoing(n) = {} /\ Queue(n) = {}
         /\ \A w \in Works : Times(n, "settle", w) + Times(n, "ended", w) = Times(n, "begin", w)
<1> DEFINE kept == Kept(l, cut)
           dropped == Behind(l, cut)
<1>1. /\ Sound(l) /\ cut \in 1 .. Len(l) /\ OpenWork(l) = {} /\ Ongoing(kept) = {}
      /\ Sound(kept) /\ Sound(n)
  BY KeptPart, RewrittenSound DEF Rewritten
<1>2. \A kind, x : In(kept, kind, x) => In(n, kind, x)
  BY Says
<1>3. \A kind, x : kind \in {"accept", "start", "begin"} /\ In(n, kind, x) => In(kept, kind, x)
  <2> SUFFICES ASSUME NEW kind \in {"accept", "start", "begin"}, NEW x, In(n, kind, x)
               PROVE  In(kept, kind, x)
    OBVIOUS
  <2>1. ~Copied(kept, dropped, <<kind, x>>)
    BY DEF Copied
  <2>2. kind \notin {"cancel", "mode"}
    OBVIOUS
  <2> QED
    BY <2>1, <2>2, Says
<1>4. \A x \in Queue(kept) : In(n, "cancel", x)
  BY Says
<1>5. \A kind, x : In(dropped, kind, x) /\ Copied(kept, dropped, <<kind, x>>) => In(n, kind, x)
  BY Says
<1>6. \A kind, x : In(l, kind, x) <=> In(kept, kind, x) \/ In(dropped, kind, x)
  BY <1>1, InAPart
<1> HIDE DEF kept, dropped
<1>7. Ongoing(n) = {}
  <2> SUFFICES ASSUME NEW p \in Questions, In(n, "start", p), ~In(n, "end", p) PROVE FALSE
    BY DEF Ongoing
  <2>1. In(kept, "start", p) /\ ~In(kept, "end", p)
    BY <1>2, <1>3
  <2> QED
    BY <1>1, <2>1 DEF Ongoing
<1>8. Queue(n) = {}
  <2> SUFFICES ASSUME NEW p \in Questions, In(n, "accept", p), ~In(n, "start", p),
                      ~In(n, "cancel", p)
               PROVE FALSE
    BY DEF Queue
  <2>1. In(kept, "accept", p) /\ ~In(kept, "start", p) /\ ~In(kept, "cancel", p)
    BY <1>2, <1>3
  <2>2. p \in Queue(kept)
    BY <2>1 DEF Queue
  <2> QED
    BY <1>4, <2>2
<1>9. ASSUME NEW w \in Works
      PROVE  Times(n, "settle", w) + Times(n, "ended", w) = Times(n, "begin", w)
  <2>1. /\ Times(n, "settle", w) = IF In(n, "settle", w) THEN 1 ELSE 0
        /\ Times(n, "ended", w) = IF In(n, "ended", w) THEN 1 ELSE 0
        /\ Times(n, "begin", w) = IF In(n, "begin", w) THEN 1 ELSE 0
    BY <1>1, CountEvent
  <2>2. /\ IsOver(n, w) => In(n, "begin", w)
        /\ ~(In(n, "settle", w) /\ In(n, "ended", w))
    BY <1>1, OverOnce
  <2>3. ASSUME In(n, "begin", w) PROVE IsOver(n, w)
    <3>1. In(kept, "begin", w) /\ In(l, "begin", w)
      BY <1>3, <1>6, <2>3
    <3>2. IsOver(l, w)
      BY <1>1, <3>1 DEF OpenWork, Begun
    <3>3. CASE IsOver(kept, w)
      BY <1>2, <3>3 DEF IsOver
    <3>4. CASE ~IsOver(kept, w)
      <4>1. w \in OpenWork(kept)
        BY <3>1, <3>4 DEF OpenWork, Begun
      <4>2. PICK kind \in {"settle", "ended"} : In(dropped, kind, w)
        BY <1>6, <3>2, <3>4 DEF IsOver
      <4>3. Copied(kept, dropped, <<kind, w>>)
        BY <4>1 DEF Copied
      <4>4. In(n, kind, w)
        BY <1>5, <4>2, <4>3
      <4> QED
        BY <4>4 DEF IsOver
    <3> QED
      BY <3>3, <3>4
  <2> QED
    BY <2>1, <2>2, <2>3 DEF IsOver
<1> QED
  BY <1>7, <1>8, <1>9

(* A grant that is revoked stays revoked. *)
LEMMA NeverWider ==
  ASSUME NEW l, NEW cut, NEW q, NEW c, NEW n, Rewritten(l, cut, q, c, n)
  PROVE  Granted(n) \subseteq Granted(l)
<1> DEFINE kept == Kept(l, cut)
           dropped == Behind(l, cut)
<1> SUFFICES ASSUME NEW g \in Grants, In(n, "grant", g), ~In(n, "revoke", g)
             PROVE  In(l, "grant", g) /\ ~In(l, "revoke", g)
  BY DEF Granted
<1>1. Sound(l) /\ cut \in 1 .. Len(l)
  BY DEF Rewritten
<1>2. \A kind : In(l, kind, g) <=> In(kept, kind, g) \/ In(dropped, kind, g)
  BY <1>1, InAPart
<1>3. In(kept, "grant", g)
  <2>1. ~Copied(kept, dropped, <<"grant", g>>) /\ "grant" \notin {"cancel", "mode"}
    BY DEF Copied
  <2> QED
    BY <2>1, Says
<1>4. ~In(kept, "revoke", g)
  BY Says
<1>5. ASSUME In(dropped, "revoke", g) PROVE FALSE
  <2>1. g \in Granted(kept)
    BY <1>3, <1>4 DEF Granted
  <2>2. Copied(kept, dropped, <<"revoke", g>>)
    BY <2>1 DEF Copied
  <2> QED
    BY <1>5, <2>2, Says
<1> QED
  BY <1>2, <1>3, <1>4, <1>5

(* Behind the cut a task that was open there is told of when it was told of at the end, *)
(* or at the cut; one that was over there, just when it was at the cut.                 *)
LEMMA ToldOnce ==
  ASSUME NEW l, NEW cut, NEW q, NEW c, NEW n, Rewritten(l, cut, q, c, n), NEW t \in Bash
  PROVE  /\ t \in OpenWork(Kept(l, cut))
              => (Tells(n, t) <=> Tells(l, t) \/ Tells(Kept(l, cut), t))
         /\ t \in Begun(Kept(l, cut)) \ OpenWork(Kept(l, cut))
              => (Tells(n, t) <=> Tells(Kept(l, cut), t))
<1> DEFINE kept == Kept(l, cut)
           dropped == Behind(l, cut)
<1>1. Sound(l) /\ cut \in 1 .. Len(l) /\ t \in Works /\ t \notin Agent
  BY RewindAssumption DEF Rewritten, Works
<1>2. \A kind : In(l, kind, t) <=> In(kept, kind, t) \/ In(dropped, kind, t)
  BY <1>1, InAPart
<1>3. In(n, "discard", t) <=> In(kept, "discard", t)
  <2>1. ~Copied(kept, dropped, <<"discard", t>>) /\ "discard" \notin {"cancel", "mode"}
    BY DEF Copied
  <2> QED
    BY <2>1, Says
<1>4. \A kind \in {"notice", "late"} :
        In(n, kind, t) <=> \/ In(kept, kind, t)
                           \/ In(dropped, kind, t) /\ Copied(kept, dropped, <<kind, t>>)
  <2>1. \A kind \in {"notice", "late"} : kind \notin {"cancel", "mode"}
    OBVIOUS
  <2> QED
    BY <2>1, Says
<1>5. Copied(kept, dropped, <<"notice", t>>)
         <=> ~In(dropped, "discard", t) /\ t \in OpenWork(kept)
  <2>1. \A w : SameKey(t, w) <=> t = w
    BY <1>1 DEF SameKey
  <2>2. <<"notice", t>>[1] = "notice" /\ <<"notice", t>>[2] = t
    OBVIOUS
  <2>3. Copied(kept, dropped, <<"notice", t>>)
           <=> ~In(dropped, "discard", t) /\ \E w \in OpenWork(kept) : SameKey(t, w)
    BY <2>2 DEF Copied
  <2> QED
    BY <2>1, <2>3
<1>6. Copied(kept, dropped, <<"late", t>>) <=> t \in OpenWork(kept)
  <2>1. <<"late", t>>[1] = "late" /\ <<"late", t>>[2] = t
    OBVIOUS
  <2> QED
    BY <2>1 DEF Copied
<1> HIDE DEF kept, dropped
<1>7. t \in OpenWork(kept) => (Tells(n, t) <=> Tells(l, t) \/ Tells(kept, t))
  BY <1>2, <1>3, <1>4, <1>5, <1>6 DEF Tells, Pending
<1>8. t \notin OpenWork(kept) => (Tells(n, t) <=> Tells(kept, t))
  BY <1>3, <1>4, <1>5, <1>6 DEF Tells, Pending
<1> QED
  BY <1>7, <1>8 DEF kept

-----------------------------------------------------------------------------
(***************************************************************************)
(* The invariant.                                                          *)
(***************************************************************************)
(* Numbers, work and grants are what events name. *)
LEMMA Named ==
  /\ Questions \subseteq Ids /\ Works \subseteq Ids /\ Grants \subseteq Ids /\ Nat \subseteq Ids
  /\ Questions \subseteq Nat
<1>1. Questions \subseteq Nat
  BY RewindAssumption DEF Questions
<1> QED
  BY <1>1 DEF Ids

(* A new session and a fork begin with a sound journal. *)
LEMMA RewriteInvInit ==
  RewriteInit => RewriteInv
<1> SUFFICES ASSUME RewriteInit PROVE RewriteInv
  OBVIOUS
<1>1. /\ inherited \in {0, 3} /\ phase = "idle"
      /\ journal = SubSeq(<<<<"accept", 1>>, <<"start", 1>>, <<"end", 1>>>>, 1, inherited)
  BY DEF RewriteInit
<1> DEFINE a1 == <<"accept", 1>>
           s1 == <<"start", 1>>
           e1 == <<"end", 1>>
           t == <<a1, s1, e1>>
<1>2. a1 \in Events /\ s1 \in Events /\ e1 \in Events
  BY Named DEF Events, Kinds
<1>3. /\ a1[1] = "accept" /\ a1[2] = 1 /\ s1[1] = "start" /\ s1[2] = 1
      /\ e1[1] = "end" /\ e1[2] = 1 /\ a1 # s1 /\ a1 # e1 /\ s1 # e1
  OBVIOUS
<1>4. t \in Seq(Events) /\ Len(t) = 3 /\ DOMAIN t = 1 .. 3 /\ t[1] = a1 /\ t[2] = s1 /\ t[3] = e1
  <2> HIDE DEF a1, s1, e1
  <2> QED
    BY <1>2
<1> HIDE DEF t
<1>5. Sound(t)
  <2>1. EventOK(t, 1, "accept", 1)
    <3>1. \A k \in DOMAIN t : ~(k < 1)
      BY <1>4
    <3> QED
      BY <3>1 DEF EventOK, Ago
  <2>2. EventOK(t, 2, "start", 1)
    <3>1. \A k \in DOMAIN t : k < 2 => k = 1
      BY <1>4
    <3>2. ~Ago(t, "start", 1, 2) /\ Ago(t, "accept", 1, 2)
      BY <1>3, <1>4, <3>1 DEF Ago
    <3> QED
      BY <3>2 DEF EventOK
  <2>3. EventOK(t, 3, "end", 1)
    <3>1. \A k \in DOMAIN t : k < 3 => k = 1 \/ k = 2
      BY <1>4
    <3>2. ~Ago(t, "end", 1, 3)
      BY <1>3, <1>4, <3>1 DEF Ago
    <3> QED
      BY <3>2 DEF EventOK
  <2>4. \A i \in DOMAIN t : i = 1 \/ i = 2 \/ i = 3
    BY <1>4
  <2> QED
    BY <1>3, <1>4, <2>1, <2>2, <2>3, <2>4 DEF Sound
<1>6. journal = SubSeq(t, 1, inherited)
  BY <1>1 DEF t
<1>7. Sound(journal)
  <2>1. inherited \in 0 .. Len(t)
    BY <1>1, <1>4
  <2> QED
    BY <1>5, <1>6, <2>1, CutSound
<1>8. inherited \in Nat
  BY <1>1
<1> QED
  BY <1>1, <1>7, <1>8 DEF RewriteInv

(* An event outside a rewind. *)
LEMMA LogStep ==
  ASSUME RewriteInv, NEW kind \in Kinds, NEW x \in Ids,
         AtRest, MayFollow(journal, kind, x), Log(kind, x)
  PROVE  RewriteInv'
<1>1. Sound(journal) /\ phase = "idle" /\ inherited \in Nat
  BY DEF RewriteInv, AtRest
<1>2. Sound(Append(journal, <<kind, x>>))
  BY <1>1, AppendSound
<1>3. journal' = Append(journal, <<kind, x>>) /\ phase' = "idle" /\ inherited' = inherited
  BY <1>1 DEF Log, rest
<1>4. Sound(journal')
  BY <1>2, <1>3
<1> QED
  BY <1>1, <1>3, <1>4 DEF RewriteInv

(* An event outside a rewind, or between the choice of its cut and the archive: the plan *)
(* is made for the journal as it was, a prefix of what it becomes.                        *)
LEMMA GrowStep ==
  ASSUME RewriteInv, NEW kind \in Kinds, NEW x \in Ids,
         AtRest \/ phase = "chosen", MayFollow(journal, kind, x), Log(kind, x)
  PROVE  RewriteInv'
<1>1. Sound(journal) /\ inherited \in Nat /\ phase \in {"idle", "chosen", "archived", "swapped"}
  BY DEF RewriteInv
<1>2. /\ journal' = Append(journal, <<kind, x>>)
      /\ phase' = phase /\ inherited' = inherited /\ plan' = plan
  BY DEF Log, rest
<1>3. CASE AtRest
  BY <1>3, LogStep
<1>4. CASE phase = "chosen"
  <2> DEFINE k == plan.expected
  <2>1. k \in 0 .. Len(journal) /\ PlanFor(SubSeq(journal, 1, k), plan)
    BY <1>4 DEF RewriteInv
  <2>2. Sound(journal')
    BY <1>1, <1>2, AppendSound
  <2>3. /\ journal \in Seq(Events) /\ Len(journal) \in Nat
        /\ journal' \in Seq(Events) /\ Len(journal') = Len(journal) + 1
        /\ \A i \in 1 .. Len(journal) : journal'[i] = journal[i]
    <3>1. journal \in Seq(Events) /\ Len(journal) \in Nat /\ <<kind, x>> \in Events
      BY <1>1, Positions DEF Events
    <3> QED
      BY <1>2, <3>1, AppendProperties
  <2>4. SubSeq(journal', 1, k) = SubSeq(journal, 1, k)
    <3>1. k \in 0 .. Len(journal')
      BY <2>1, <2>3
    <3>2. /\ Sound(SubSeq(journal, 1, k)) /\ Len(SubSeq(journal, 1, k)) = k
          /\ \A i \in 1 .. k : SubSeq(journal, 1, k)[i] = journal[i]
      BY <1>1, <2>1, CutSound
    <3>3. /\ Sound(SubSeq(journal', 1, k)) /\ Len(SubSeq(journal', 1, k)) = k
          /\ \A i \in 1 .. k : SubSeq(journal', 1, k)[i] = journal'[i]
      BY <2>2, <3>1, CutSound
    <3>4. \A i \in 1 .. k : journal'[i] = journal[i]
      BY <2>1, <2>3
    <3>5. SubSeq(journal, 1, k) \in Seq(Events) /\ SubSeq(journal', 1, k) \in Seq(Events)
      BY <3>2, <3>3 DEF Sound
    <3> QED
      BY <3>2, <3>3, <3>4, <3>5, SeqEqual
  <2>5. k \in 0 .. Len(journal')
    BY <2>1, <2>3
  <2> QED
    BY <1>1, <1>2, <1>4, <2>1, <2>2, <2>4, <2>5 DEF RewriteInv
<1> QED
  BY <1>3, <1>4

(* A title that is generated while the rewind is at work. *)
LEMMA ModeStep ==
  ASSUME RewriteInv, SetMode
  PROVE  RewriteInv'
<1> DEFINE x == Latest(journal) + 1
<1>1. Sound(journal)
  BY DEF RewriteInv
<1>2. Log("mode", x) /\ (AtRest \/ phase = "chosen")
  BY DEF SetMode, Lives
<1>3. x \in Nat
  <2>1. Len(journal) \in Nat /\ Modes(journal) \in SUBSET (1 .. Len(journal))
    BY <1>1, Positions DEF Modes
  <2>2. CASE Modes(journal) = {}
    BY <2>2 DEF Latest
  <2>3. CASE Modes(journal) # {}
    <3> DEFINE g == Max(Modes(journal))
    <3>1. g \in DOMAIN journal /\ journal[g][1] = "mode"
      BY <2>1, <2>3, Greatest DEF Modes
    <3>2. EventOK(journal, g, journal[g][1], journal[g][2])
      BY <1>1, <3>1, Positions
    <3>3. journal[g][2] \in Nat
      BY <3>1, <3>2 DEF EventOK
    <3> QED
      BY <2>3, <3>3 DEF Latest
  <2> QED
    BY <2>2, <2>3
<1> HIDE DEF x
<1>4. "mode" \in Kinds /\ x \in Ids /\ MayFollow(journal, "mode", x)
  BY <1>3, Named DEF Kinds, MayFollow
<1> QED
  BY <1>2, <1>4, GrowStep

(* The cut. *)
LEMMA ChooseStep ==
  ASSUME RewriteInv, NEW p \in Questions, Choose(p)
  PROVE  RewriteInv'
<1> DEFINE l == journal
           cut == CutOf(l, p)
<1>1. Sound(l) /\ inherited \in Nat
  BY DEF RewriteInv
<1>2. /\ In(l, "start", p) /\ cut # 0 /\ OpenWork(l) = {}
      /\ phase' = "chosen" /\ journal' = l /\ inherited' = inherited
  BY DEF Choose, Quiesced
<1>3. PICK q \in InOrder(Waiting(Kept(l, cut))),
           c \in InOrder(Follows(Kept(l, cut), Behind(l, cut))) :
         plan' = [cut |-> cut, expected |-> Len(l),
                  closing |-> Closing(Kept(l, cut), Behind(l, cut), q, c)]
  BY DEF Choose, Kept, Behind
<1>4. In(l, "accept", p)
  <2>1. PICK i \in DOMAIN l : l[i] = <<"start", p>>
    BY <1>2 DEF In
  <2>2. EventOK(l, i, "start", p)
    BY <1>1, <2>1, Positions
  <2> QED
    BY <2>2 DEF EventOK, Ago, In
<1>5. At(l, "accept", p) \in DOMAIN l /\ At(l, "start", p) \in DOMAIN l
  BY <1>2, <1>4 DEF At, In
<1>6. cut \in DOMAIN l /\ ClosedPrefix(SubSeq(l, 1, cut - 1))
  BY <1>2, <1>5 DEF CutOf
<1>7. l \in Seq(Events) /\ Len(l) \in Nat /\ DOMAIN l = 1 .. Len(l)
  BY <1>1, Positions
<1> HIDE DEF cut
<1>8. SubSeq(l, 1, Len(l)) = l
  BY <1>7, SubSeqFull
<1>9. PlanFor(l, plan')
  <2>1. plan'.cut = cut /\ plan'.closing = Closing(Kept(l, cut), Behind(l, cut), q, c)
    BY <1>3
  <2>2. cut \in 1 .. Len(l) /\ Ongoing(Kept(l, cut)) = {}
    BY <1>6, <1>7 DEF ClosedPrefix, Kept
  <2> QED
    BY <1>2, <2>1, <2>2 DEF PlanFor
<1>10. plan'.expected = Len(l)
  BY <1>3
<1>11. Len(l) \in 0 .. Len(l)
  BY <1>7
<1> QED
  BY <1>1, <1>2, <1>8, <1>9, <1>10, <1>11 DEF RewriteInv

(* The old journal and its plan make the new one. *)
LEMMA PlanMakes ==
  ASSUME NEW l, NEW pl, Sound(l), PlanFor(l, pl), NEW n, n = Kept(l, pl.cut) \o pl.closing
  PROVE  \E q, c : Rewritten(l, pl.cut, q, c, n)
<1>1. PICK q \in InOrder(Waiting(Kept(l, pl.cut))),
           c \in InOrder(Follows(Kept(l, pl.cut), Behind(l, pl.cut))) :
             pl.closing = Closing(Kept(l, pl.cut), Behind(l, pl.cut), q, c)
  BY DEF PlanFor
<1>2. Rewritten(l, pl.cut, q, c, n)
  BY <1>1 DEF Rewritten, PlanFor
<1> QED
  BY <1>2

(* Read again under the lease, the journal is still the one the cut was chosen for. *)
LEMMA ArchiveStep ==
  ASSUME RewriteInv, Archive
  PROVE  RewriteInv'
<1>1. /\ Sound(journal) /\ inherited \in Nat /\ phase = "chosen"
      /\ PlanFor(SubSeq(journal, 1, plan.expected), plan)
      /\ journal' = journal /\ inherited' = inherited
  BY DEF RewriteInv, Archive
<1>2. CASE Len(journal) = plan.expected
  <2>1. phase' = "archived" /\ archive' = journal /\ plan' = plan
    BY <1>2 DEF Archive
  <2>2. SubSeq(journal, 1, plan.expected) = journal
    BY <1>1, <1>2, SubSeqFull DEF Sound
  <2> QED
    BY <1>1, <2>1, <2>2 DEF RewriteInv
<1>3. CASE Len(journal) # plan.expected
  <2>1. phase' = "idle"
    BY <1>3 DEF Archive
  <2> QED
    BY <1>1, <2>1 DEF RewriteInv
<1> QED
  BY <1>2, <1>3

(* The swap: the rewritten journal is sound. *)
LEMMA RenameStep ==
  ASSUME RewriteInv, Rename
  PROVE  RewriteInv'
<1>1. /\ Sound(archive) /\ inherited \in Nat /\ archive = journal
      /\ PlanFor(archive, plan) /\ inherited' = inherited /\ phase' = "swapped"
      /\ archive' = archive /\ plan' = plan
      /\ journal' = Kept(archive, plan.cut) \o plan.closing
  BY DEF RewriteInv, Rename, Kept
<1>2. PICK q, c : Rewritten(archive, plan.cut, q, c, journal')
  BY <1>1, PlanMakes
<1>3. Sound(journal')
  BY <1>2, RewrittenSound
<1> QED
  BY <1>1, <1>3 DEF RewriteInv

(* The mark of the rewrite is an event like any other. *)
LEMMA ReopenStep ==
  ASSUME RewriteInv, Reopen
  PROVE  RewriteInv'
<1>1. /\ Sound(journal) /\ inherited \in Nat /\ PlanFor(archive, plan)
      /\ phase' = "idle" /\ inherited' = inherited
      /\ journal' = Append(journal, <<"rewound", plan.cut>>)
  BY DEF RewriteInv, Reopen
<1>2. plan.cut \in Nat
  <2>1. Sound(archive) /\ plan.cut \in 1 .. Len(archive)
    BY DEF RewriteInv, Reopen, PlanFor
  <2> QED
    BY <2>1, Positions
<1>3. "rewound" \in Kinds /\ plan.cut \in Ids /\ MayFollow(journal, "rewound", plan.cut)
  BY <1>2, Named DEF Kinds, MayFollow
<1>4. Sound(journal')
  BY <1>1, <1>3, AppendSound
<1> QED
  BY <1>1, <1>4 DEF RewriteInv

(* Every step keeps the invariant. *)
LEMMA RewriteInvNext ==
  RewriteInv /\ [RewriteNext]_rewriteVars => RewriteInv'
<1> SUFFICES ASSUME RewriteInv, [RewriteNext]_rewriteVars PROVE RewriteInv'
  OBVIOUS
<1> USE DEF Lives
<1>1. ASSUME NEW p \in Questions, Accept(p) \/ Start(p) \/ End(p)
      PROVE  RewriteInv'
  <2>1. p \in Ids
    BY Named
  <2>2. CASE Accept(p)
    <3>1. "accept" \in Kinds /\ MayFollow(journal, "accept", p)
      BY <2>2 DEF Accept, Seen, Kinds, MayFollow
    <3> QED
      BY <2>1, <2>2, <3>1, LogStep DEF Accept
  <2>3. CASE Start(p)
    <3>1. "start" \in Kinds /\ MayFollow(journal, "start", p)
      BY <2>3 DEF Start, Queue, Kinds, MayFollow
    <3> QED
      BY <2>1, <2>3, <3>1, LogStep DEF Start
  <2>4. CASE End(p)
    <3>1. "end" \in Kinds /\ MayFollow(journal, "end", p)
      BY <2>4 DEF End, Ongoing, Kinds, MayFollow
    <3> QED
      BY <2>1, <2>4, <3>1, LogStep DEF End
  <2> QED
    BY <1>1, <2>2, <2>3, <2>4
<1>2. ASSUME NEW g \in Grants, Grant(g) \/ Revoke(g)
      PROVE  RewriteInv'
  <2>1. g \in Ids
    BY Named
  <2>2. CASE Grant(g)
    <3>1. "grant" \in Kinds /\ MayFollow(journal, "grant", g)
      BY <2>2 DEF Grant, Kinds, MayFollow
    <3> QED
      BY <2>1, <2>2, <3>1, LogStep DEF Grant
  <2>3. CASE Revoke(g)
    <3>1. "revoke" \in Kinds /\ MayFollow(journal, "revoke", g)
      BY <2>3 DEF Revoke, Granted, Kinds, MayFollow
    <3> QED
      BY <2>1, <2>3, <3>1, LogStep DEF Revoke
  <2> QED
    BY <1>2, <2>2, <2>3
<1>3. ASSUME NEW w \in Works,
             \/ Begin(w) \/ Notice(w) \/ Discard(w) \/ Ended(w) \/ Settle(w)
             \/ Late(w) \/ NoticeEnd(w)
      PROVE  RewriteInv'
  <2>1. w \in Ids
    BY Named
  <2>2. CASE Begin(w)
    <3>1. "begin" \in Kinds /\ MayFollow(journal, "begin", w)
      BY <2>2 DEF Begin, Kinds, MayFollow
    <3> QED
      BY <2>1, <2>2, <3>1, LogStep DEF Begin
  <2>3. CASE Notice(w)
    <3>1. "notice" \in Kinds /\ MayFollow(journal, "notice", w)
      BY <2>3 DEF Notice, Kinds, MayFollow
    <3> QED
      BY <2>1, <2>3, <3>1, LogStep DEF Notice
  <2>4. CASE Discard(w)
    <3>1. "discard" \in Kinds /\ MayFollow(journal, "discard", w)
      BY <2>4 DEF Discard, Pending, Kinds, MayFollow
    <3> QED
      BY <2>1, <2>4, <3>1, LogStep DEF Discard
  <2>5. CASE Ended(w)
    <3>1. "ended" \in Kinds /\ MayFollow(journal, "ended", w)
      BY <2>5 DEF Ended, OpenWork, Begun, IsOver, Kinds, MayFollow
    <3> QED
      BY <2>1, <2>5, <3>1, LogStep DEF Ended
  <2>6. CASE Settle(w)
    <3>1. "settle" \in Kinds /\ MayFollow(journal, "settle", w)
      BY <2>6 DEF Settle, OpenWork, Begun, IsOver, Kinds, MayFollow
    <3> QED
      BY <2>1, <2>6, <3>1, LogStep DEF Settle
  <2>7. CASE NoticeEnd(w)
    <3>1. "notice" \in Kinds /\ MayFollow(journal, "notice", w)
      BY <2>7 DEF NoticeEnd, Told, Kinds, MayFollow
    <3> QED
      BY <2>1, <2>7, <3>1, LogStep DEF NoticeEnd
  <2>8. CASE Late(w)
    <3>1. "late" \in Kinds /\ MayFollow(journal, "late", w)
      BY <2>8 DEF Late, Kinds, MayFollow
    <3> QED
      BY <2>1, <2>8, <3>1, GrowStep DEF Late
  <2> QED
    BY <1>3, <2>2, <2>3, <2>4, <2>5, <2>6, <2>7, <2>8
<1>4. CASE Crash
  BY <1>4 DEF Crash, RewriteInv
<1>5. CASE UNCHANGED rewriteVars
  BY <1>5 DEF rewriteVars, RewriteInv
<1> QED
  BY <1>1, <1>2, <1>3, <1>4, <1>5, ChooseStep, ModeStep, ArchiveStep,
     RenameStep, ReopenStep
  DEF RewriteNext

(* So it holds always. *)
LEMMA RewriteInvAlways ==
  RewriteSpec => []RewriteInv
BY RewriteInvInit, RewriteInvNext, PTL DEF RewriteSpec

(* At the moment of the swap the journal is the old one, rewritten. *)
LEMMA AtTheSwap ==
  ASSUME RewriteInv, phase = "swapped"
  PROVE  \E q, c : Rewritten(archive, plan.cut, q, c, journal)
BY PlanMakes DEF RewriteInv

-----------------------------------------------------------------------------
(***************************************************************************)
(* The theorems.                                                           *)
(***************************************************************************)
(* Behind a rewind the journal has its types and names no event twice; no run goes on, no  *)
(* question waits, and each piece of work that began in it is over exactly once: also when *)
(* the prefix holds what an earlier rewind has copied (resolveRewindCut).                  *)
THEOREM RewindsStayClosed ==
  RewriteSpec => []RewrittenIsClosed
<1>1. RewriteInv => RewrittenIsClosed
  <2> SUFFICES ASSUME RewriteInv PROVE RewrittenIsClosed
    OBVIOUS
  <2>1. RewriteTypeOK
    BY OnceEach DEF RewriteTypeOK, RewriteInv
  <2>2. ASSUME phase = "swapped"
        PROVE  /\ Ongoing(journal) = {} /\ Queue(journal) = {}
               /\ \A w \in Works : Times(journal, "settle", w) + Times(journal, "ended", w)
                                     = Times(journal, "begin", w)
    <3>1. PICK q, c : Rewritten(archive, plan.cut, q, c, journal)
      BY <2>2, AtTheSwap
    <3> QED
      BY <3>1, ClosedAgain
  <2> QED
    BY <2>1, <2>2 DEF RewrittenIsClosed
<1> QED
  BY <1>1, RewriteInvAlways, PTL

(* No rewind brings back a grant that was revoked, wherever the cut is (activeGrants and *)
(* the revocations it copies).                                                           *)
THEOREM RewindsGrantNothing ==
  RewriteSpec => []RightsNeverWiden
<1>1. RewriteInv => RightsNeverWiden
  <2> SUFFICES ASSUME RewriteInv, phase = "swapped"
               PROVE  Granted(journal) \subseteq Granted(archive)
    BY DEF RightsNeverWiden
  <2>1. PICK q, c : Rewritten(archive, plan.cut, q, c, journal)
    BY AtTheSwap
  <2> QED
    BY <2>1, NeverWider
<1> QED
  BY <1>1, RewriteInvAlways, PTL

(* The settings are those the session had when its file was swapped, the one that changed *)
(* between the choice and the archive included: rewriteJsonlPrefix then gives up.         *)
THEOREM RewindsKeepSettings ==
  RewriteSpec => []SettingsKept
<1>1. RewriteInv => SettingsKept
  <2> SUFFICES ASSUME RewriteInv, phase = "swapped"
               PROVE  Latest(journal) = Latest(archive)
    BY DEF SettingsKept
  <2>1. PICK q, c : Rewritten(archive, plan.cut, q, c, journal)
    BY AtTheSwap
  <2> QED
    BY <2>1, SameSetting
<1> QED
  BY <1>1, RewriteInvAlways, PTL

(* The new turn is told of the end of a Bash task that was open at the cut just when the *)
(* old timeline would tell it, or told it in the part that is dropped, whether its notice *)
(* stands before or behind its settlement; and of one that was over there what the prefix *)
(* tells (openBackgroundWork and what resolveRewindCut copies).                           *)
THEOREM RewindsTellEnds ==
  RewriteSpec => []EndsAreTold
<1>1. RewriteInv => EndsAreTold
  <2> SUFFICES ASSUME RewriteInv, phase = "swapped" PROVE EndsAreTold
    BY DEF EndsAreTold
  <2>1. PICK q, c : Rewritten(archive, plan.cut, q, c, journal)
    BY AtTheSwap
  <2> QED
    BY <2>1, ToldOnce DEF EndsAreTold, Kept
<1> QED
  BY <1>1, RewriteInvAlways, PTL
=============================================================================
