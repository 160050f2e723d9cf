----------------------------- MODULE QueueOrder -----------------------------
(***************************************************************************)
(* The scheduling queue of a session (the `queue: string[]` that           *)
(* task-projection.ts rebuilds from the journal), as a relation; in the    *)
(* same form SessionLife has the Map #recent of session-controller.ts.     *)
(*                                                                         *)
(* The code keeps an array of task identifiers and edits it with push,     *)
(* filter and splice.  An array without repetitions is a reflexive total   *)
(* order on its elements: <<a, b>> \in q says that a stands at or before   *)
(* b, and <<a, a>> \in q that a is in the queue.  The four edits become    *)
(* set expressions, which the theorems reason about; module QueueSplice    *)
(* checks them against the array edits themselves.                         *)
(***************************************************************************)
EXTENDS Integers

Elems(q) == {p[1] : p \in q}

EmptyQueue == {}

(* queue.push(t) *)
Push(q, t) == q \cup {<<t, t>>} \cup (Elems(q) \X {t})

(* queue.filter(id => !S.has(id)) *)
Without(q, S) == {p \in q : p[1] \notin S /\ p[2] \notin S}

(* [...queue.filter(S.has), ...queue.filter(not S.has)] *)
ToFront(q, S) ==
  LET front == Elems(q) \cap S
      rest  == Elems(q) \ S
  IN  (q \ (rest \X front)) \cup (front \X rest)

(* queue.filter(id => id !== t), then splice(indexOf(b), 0, t) *)
MoveBefore(q, t, b) ==
  LET r == Without(q, {t})
  IN  r \cup {<<t, t>>}
        \cup ({x \in Elems(r) : x # b /\ <<x, b>> \in r} \X {t})
        \cup ({t} \X {y \in Elems(r) : <<b, y>> \in r})

(* queue.find(pred): t is the first element of q that lies in S *)
IsFirst(q, t, S) ==
  /\ t \in Elems(q) \cap S
  /\ \A x \in Elems(q) \cap S : <<t, x>> \in q

(* q is the order of an array without repetitions whose elements are S *)
IsQueueOf(q, S) ==
  /\ q \subseteq S \X S
  /\ \A x \in S : <<x, x>> \in q
  /\ \A x, y \in S : <<x, y>> \in q \/ <<y, x>> \in q
  /\ \A x, y \in S : <<x, y>> \in q /\ <<y, x>> \in q => x = y
  /\ \A x, y, z \in S : <<x, y>> \in q /\ <<y, z>> \in q => <<x, z>> \in q
=============================================================================
