------------------------------ MODULE TopResult ------------------------------
(***************************************************************************)
(* TopResult and the CPriorityQueue below it: a binary heap in m_heap[1 .. *)
(* m_maxsize] with the least result on top, filled by collect, raised as a *)
(* whole by AddWeight, and emptied by pop when the answer is packed.       *)
(*                                                                         *)
(* A sift up or down is a loop of its own here: each round moves the hole  *)
(* one level, and the saved node is put down where the loop ends.  One     *)
(* thread owns a TopResult, so nothing is called while a sift is under     *)
(* way.                                                                    *)
(***************************************************************************)
EXTENDS ResultElement, Sequences

CONSTANTS
  m_maxsize,   \* the results asked for: lmt, 1 at least
  Entry,       \* the results that can be offered
  Raise,       \* the weights AddWeight is called with
  MaxRaises    \* bound on the calls of AddWeight

ASSUME TopResultAssumption ==
  /\ m_maxsize \in Nat \ {0}
  /\ Entry \subseteq Result
  /\ \A e \in Entry : e.queryNum \in Nat
  /\ Raise \subseteq Nat \ {0}
  /\ MaxRaises \in Nat

\* The entry of a slot that holds no result.
NULL == [eleId |-> -1, pPara |-> 0, length |-> 0, queryNum |-> -1]

VARIABLES
  m_heap,     \* the slots
  m_size,
  hole,       \* i of upHeap and downHeap
  node,       \* the node they saved
  pc,         \* "ready", "up" in upHeap, "down" in downHeap
  queueSet,   \* the keys collect has seen
  popped,     \* history: what pop returned, first to last
  lost,       \* history: the highest number of a result that did not stay
  raises      \* history: the calls of AddWeight

vars == <<m_heap, m_size, hole, node, pc, queueSet, popped, lost, raises>>

Slots == 1 .. m_maxsize

TypeOK ==
  /\ m_heap \in [Slots -> Result]
  /\ m_size \in 0 .. m_maxsize
  /\ hole \in Slots /\ node \in Result
  /\ pc \in {"ready", "up", "down"}
  /\ queueSet \subseteq Int
  /\ popped \in Seq(Result)
  /\ lost \in Int
  /\ raises \in 0 .. MaxRaises

Init ==
  /\ m_heap = [s \in Slots |-> NULL]
  /\ m_size = 0
  /\ hole = 1 /\ node = NULL /\ pc = "ready"
  /\ queueSet = {}
  /\ popped = <<>> /\ lost = -1 /\ raises = 0

-----------------------------------------------------------------------------
Higher(a, b) == IF a > b THEN a ELSE b

\* A mutant: the room is taken to be one result larger.
RoomForOneMore == m_size <= m_maxsize

Room == m_size < m_maxsize

\* collect goes on: minScore is 0 and never set.
Wanted(e) == Room \/ e.queryNum > 0

\* A mutant: what was seen before is not asked.
AlwaysNew(e) == TRUE

\* isInQueue: only a key that is new goes on, and it is known from then on.
New(e) == Key(e) \notin queueSet

\* put: the result goes to the last slot and rises.
Put(e) ==
  /\ pc = "ready" /\ popped = <<>>
  /\ New(e) /\ Room
  /\ queueSet' = queueSet \cup {Key(e)}
  /\ m_size' = m_size + 1
  /\ m_heap' = [m_heap EXCEPT ![m_size + 1] = e]
  /\ hole' = m_size + 1 /\ node' = e /\ pc' = "up"
  /\ UNCHANGED <<popped, lost, raises>>

\* A mutant: the result on top gives way to any other.
BeatsAlways(e) == TRUE

\* insert into a full heap succeeds.
Beats(e) == ~Less(e, m_heap[1])

\* insert into a full heap: the result takes the top and sinks.
ReplaceTop(e) ==
  /\ pc = "ready" /\ popped = <<>>
  /\ Wanted(e) /\ New(e) /\ ~Room /\ Beats(e)
  /\ queueSet' = queueSet \cup {Key(e)}
  /\ lost' = Higher(lost, m_heap[1].queryNum)
  /\ m_heap' = [m_heap EXCEPT ![1] = e]
  /\ hole' = 1 /\ node' = e /\ pc' = "down"
  /\ UNCHANGED <<m_size, popped, raises>>

\* insert into a full heap fails and collect deletes the result.
Reject(e) ==
  /\ pc = "ready" /\ popped = <<>>
  /\ Wanted(e) /\ New(e) /\ ~Room /\ ~Beats(e)
  /\ queueSet' = queueSet \cup {Key(e)}
  /\ lost' = Higher(lost, e.queryNum)
  /\ UNCHANGED <<m_heap, m_size, hole, node, pc, popped, raises>>

\* The else branch of collect: the key stays unknown.
Ignore(e) ==
  /\ pc = "ready" /\ popped = <<>>
  /\ ~Wanted(e)
  /\ lost' = Higher(lost, e.queryNum)
  /\ UNCHANGED <<m_heap, m_size, hole, node, pc, queueSet, popped, raises>>

\* A result that was seen before is not looked at.
collect(e) == Put(e) \/ ReplaceTop(e) \/ Reject(e) \/ Ignore(e)

AddWeight(iAdd) ==
  /\ pc = "ready" /\ popped = <<>> /\ raises < MaxRaises
  /\ m_heap' = [s \in Slots |-> IF s <= m_size THEN Raised(m_heap[s], iAdd) ELSE m_heap[s]]
  /\ raises' = raises + 1
  /\ UNCHANGED <<m_size, hole, node, pc, queueSet, popped, lost>>

\* pop: the last result goes to the top and sinks.
pop ==
  /\ pc = "ready" /\ m_size > 0
  /\ popped' = Append(popped, m_heap[1])
  /\ m_heap' = [m_heap EXCEPT ![1] = m_heap[m_size], ![m_size] = NULL]
  /\ m_size' = m_size - 1
  /\ hole' = 1 /\ node' = m_heap'[1] /\ pc' = "down"
  /\ UNCHANGED <<queueSet, lost, raises>>

-----------------------------------------------------------------------------
\* A mutant: the parent as in an array that starts at 0.
ParentFromZero(i) == (i - 1) \div 2

Parent(i) == i \div 2

\* A round of upHeap: the parent moves down into the hole.
UpHeap ==
  /\ pc = "up" /\ Parent(hole) > 0 /\ Less(node, m_heap[Parent(hole)])
  /\ m_heap' = [m_heap EXCEPT ![hole] = m_heap[Parent(hole)]]
  /\ hole' = Parent(hole)
  /\ UNCHANGED <<m_size, node, pc, queueSet, popped, lost, raises>>

\* The end of upHeap: the saved node is put down.
UpHeapDone ==
  /\ pc = "up" /\ (Parent(hole) > 0 => ~Less(node, m_heap[Parent(hole)]))
  /\ m_heap' = [m_heap EXCEPT ![hole] = node]
  /\ pc' = "ready"
  /\ UNCHANGED <<m_size, hole, node, queueSet, popped, lost, raises>>

\* A mutant: always the left child.
LeftChild(i) == 2 * i

\* The lesser of the two children; the left one where there is no right one.
SmallerChild(i) ==
  IF 2 * i + 1 <= m_size /\ Less(m_heap[2 * i + 1], m_heap[2 * i]) THEN 2 * i + 1 ELSE 2 * i

\* A round of downHeap: the smaller child moves up into the hole.
DownHeap ==
  /\ pc = "down"
  /\ SmallerChild(hole) <= m_size /\ Less(m_heap[SmallerChild(hole)], node)
  /\ m_heap' = [m_heap EXCEPT ![hole] = m_heap[SmallerChild(hole)]]
  /\ hole' = SmallerChild(hole)
  /\ UNCHANGED <<m_size, node, pc, queueSet, popped, lost, raises>>

\* The end of downHeap.
DownHeapDone ==
  /\ pc = "down"
  /\ SmallerChild(hole) <= m_size => ~Less(m_heap[SmallerChild(hole)], node)
  /\ m_heap' = [m_heap EXCEPT ![hole] = node]
  /\ pc' = "ready"
  /\ UNCHANGED <<m_size, hole, node, queueSet, popped, lost, raises>>

Next ==
  \/ \E e \in Entry : collect(e)
  \/ \E iAdd \in Raise : AddWeight(iAdd)
  \/ pop
  \/ UpHeap \/ UpHeapDone
  \/ DownHeap \/ DownHeapDone

Spec == Init /\ [][Next]_vars

-----------------------------------------------------------------------------
\* The results in the queue, the one being sifted included.
InHeap == {s \in Slots : s <= m_size}
View   == IF pc = "ready" \/ m_size = 0 THEN m_heap ELSE [m_heap EXCEPT ![hole] = node]
Kept   == {View[s] : s \in InHeap}

(***************************************************************************)
(* Between two calls no result is less than its parent, whatever was       *)
(* collected, raised and popped before: top is a least one.                *)
(***************************************************************************)
HeapOrdered ==
  pc = "ready" => \A s \in InHeap : s > 1 => ~Less(m_heap[s], m_heap[Parent(s)])

(***************************************************************************)
(* A result that was dropped does not outrank one that stayed: what was    *)
(* dropped early is never missed later, although queryNum of the others    *)
(* has been raised in between.                                             *)
(***************************************************************************)
DroppedAreWorse ==
  \A k \in Kept \cup {popped[i] : i \in DOMAIN popped} : lost <= k.queryNum

(***************************************************************************)
(* The heap keeps and hands out what a set that is searched for its least  *)
(* member would.                                                           *)
(***************************************************************************)
Best == INSTANCE BestQueue WITH Capacity <- m_maxsize, kept <- Kept, out <- popped
ImplementsBestQueue == Best!BQSpec

(***************************************************************************)
(* No entry of one tree is handed out twice, however often it was found    *)
(* and even when it had been dropped in between.                           *)
(***************************************************************************)
OncePerEntry ==
  \A i, j \in DOMAIN popped :
    i # j => <<popped[i].eleId, popped[i].pPara>> # <<popped[j].eleId, popped[j].pPara>>
=============================================================================
