---------------------------- MODULE QueueSplice ----------------------------
(***************************************************************************)
(* QueueOrder against the code's own representation, an array that         *)
(* task-projection.ts edits with push, filter and splice.  The four edits  *)
(* of the array give what the operators of QueueOrder make of its order,   *)
(* for every array without repetitions over Ids and every edit of it: TLC  *)
(* evaluates the assumptions whenever it checks a module that extends this *)
(* one.                                                                    *)
(***************************************************************************)
EXTENDS QueueOrder, SequencesExt

(* Bound: task identifiers in an array. *)
Ids == 1 .. 5

Arrays == UNION {{q \in [1 .. n -> Ids] : IsInjective(q)} : n \in 0 .. 5}

OrderOf(queue) ==
  {<<queue[p[1]], queue[p[2]]>> :
     p \in {r \in (DOMAIN queue) \X (DOMAIN queue) : r[1] <= r[2]}}

Filter(queue, S) == SelectSeq(queue, LAMBDA id : id \in S)

IndexIn(queue, id) == CHOOSE i \in DOMAIN queue : queue[i] = id

ReturnToFront(queue, S) == Filter(queue, S) \o Filter(queue, Ids \ S)

(* queue.splice(queue.indexOf(before), 0, id) after queue.filter *)
SpliceBefore(queue, id, before) ==
  LET others == Filter(queue, Ids \ {id})
  IN  InsertAt(others, IndexIn(others, before), id)

(* push, filter and splice of projectTasks do what QueueOrder says.        *)
ASSUME SameOrder ==
  \A queue \in Arrays :
    LET order == OrderOf(queue)
        in    == ToSet(queue)
    IN  /\ \A id \in Ids \ in : OrderOf(Append(queue, id)) = Push(order, id)
        /\ \A S \in SUBSET in : /\ OrderOf(Filter(queue, Ids \ S)) = Without(order, S)
                                /\ OrderOf(ReturnToFront(queue, S)) = ToFront(order, S)
        /\ \A id, before \in in :
             id # before => OrderOf(SpliceBefore(queue, id, before)) = MoveBefore(order, id, before)

(* queue.find(predicate) returns the element that IsFirst describes, and   *)
(* nothing when it describes none.                                         *)
ASSUME SameFirst ==
  \A queue \in Arrays : \A S \in SUBSET Ids :
    {id \in Ids : IsFirst(OrderOf(queue), id, S)} =
      (IF Filter(queue, S) = <<>> THEN {} ELSE {Head(Filter(queue, S))})
=============================================================================
