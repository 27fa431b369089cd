--------------------------- MODULE TopResultProofs ---------------------------
(***************************************************************************)
(* Proofs about TopResult, for every number of results asked for, every    *)
(* set of entries and every sequence of calls.                             *)
(***************************************************************************)
EXTENDS TopResult, FiniteSetTheorems, TLAPS

-----------------------------------------------------------------------------
(***************************************************************************)
(* A set of numbers has a least one.  The theorems of induction are out of *)
(* the provers' reach, this consequence of well-foundedness is not.        *)
(***************************************************************************)
LessPairs == {ss \in Nat \X Nat : ss[1] < ss[2]}

\* The order of the natural numbers is well-founded.
LEMMA LessPairsWellFounded == IsWellFoundedOn(LessPairs, Nat)
  BY NatLessThanWellFounded DEF OpToRel, LessPairs

\* Every nonempty set of natural numbers has a least member.
LEMMA LeastNumber ==
  ASSUME NEW T, T \subseteq Nat, T # {}
  PROVE  \E x \in T : \A y \in T : x <= y
<1>1. \E x \in T : \A y \in T : ~ (<<y, x>> \in LessPairs)
  BY LessPairsWellFounded, WFMin
<1>2. \A x, y \in Nat : (<<y, x>> \in LessPairs) <=> y < x
  BY DEF LessPairs
<1>3. PICK x \in T : \A y \in T : ~ (<<y, x>> \in LessPairs)
  BY <1>1
<1>4. ASSUME NEW y \in T PROVE x <= y
  <2>1. x \in Nat /\ y \in Nat /\ ~(y < x)
    BY <1>2, <1>3
  <2> QED BY <2>1, SMT
<1> QED BY <1>3, <1>4

-----------------------------------------------------------------------------
\* Less is a strict weak order on results, and raising respects it.
LEMMA LessIsOrder ==
  /\ \A a \in Result : ~Less(a, a)
  /\ \A a, b \in Result : Less(a, b) => ~Less(b, a)
  /\ \A a, b, c \in Result : ~Less(a, b) /\ ~Less(b, c) => ~Less(a, c)
  /\ \A a, b \in Result : ~Less(a, b) => b.queryNum <= a.queryNum
  /\ \A a, b \in Result : Less(a, b) => a.queryNum <= b.queryNum
  BY DEF Less, Result

\* A raised result is a result with the same key, and raising keeps the order.
LEMMA RaisedKeeps ==
  ASSUME NEW k \in Nat
  PROVE  /\ \A a \in Result : Raised(a, k) \in Result
         /\ \A a \in Result : Key(Raised(a, k)) = Key(a)
         /\ \A a \in Result : Raised(a, k).queryNum = a.queryNum + k
         /\ \A a, b \in Result : Less(Raised(a, k), Raised(b, k)) <=> Less(a, b)
  BY DEF Less, Result, Raised, Key

-----------------------------------------------------------------------------
\* The parent of a slot below the top is a slot above it.
LEMMA ParentIsAbove ==
  ASSUME NEW i \in Nat
  PROVE  /\ Parent(i) \in Nat
         /\ i > 1 => Parent(i) \in 1 .. i - 1
         /\ i = 1 => Parent(i) = 0
         /\ \A j \in Nat \ {0} : Parent(i) = j <=> i = 2 * j \/ i = 2 * j + 1
  BY SMT DEF Parent

\* The empty slot is a result like any other.
LEMMA NULLIsResult == NULL \in Result
  BY DEF NULL, Result

(***************************************************************************)
(* Where every result is ordered against its parent, the top is least.     *)
(***************************************************************************)
LEMMA TopIsLeast ==
  ASSUME NEW n \in Nat, NEW h, \A s \in 1 .. n : h[s] \in Result,
         \A s \in 2 .. n : ~Less(h[s], h[Parent(s)])
  PROVE  \A s \in 1 .. n : ~Less(h[s], h[1])
<1> DEFINE Bad == {s \in 1 .. n : Less(h[s], h[1])}
<1> SUFFICES ASSUME NEW w \in 1 .. n, Less(h[w], h[1]) PROVE FALSE
  OBVIOUS
<1>0. w \in Bad /\ Bad \subseteq Nat
  OBVIOUS
<1>1. PICK b \in Bad : \A y \in Bad : b <= y
  BY <1>0, LeastNumber
<1>2. b \in 1 .. n /\ Less(h[b], h[1]) /\ h[1] \in Result
  BY <1>1
<1>3. b # 1
  BY <1>2, LessIsOrder
<1>4. Parent(b) \in 1 .. n /\ Parent(b) < b
  BY <1>2, <1>3, ParentIsAbove
<1>5. ~Less(h[Parent(b)], h[1])
  BY <1>1, <1>4
<1>6. ~Less(h[b], h[Parent(b)])
  BY <1>2, <1>3
<1> QED BY <1>2, <1>4, <1>5, <1>6, LessIsOrder

-----------------------------------------------------------------------------
(***************************************************************************)
(* The heap as a whole while a node is sifted: the node is where the hole  *)
(* is.  Upwards only the node can be out of order with its parent,         *)
(* downwards only with its children; either way the children of the hole   *)
(* are in order with its parent.                                           *)
(***************************************************************************)
Sifted == [m_heap EXCEPT ![hole] = node]

InOrder(h, s) == ~Less(h[s], h[Parent(s)])

OverHole(h) == \A s \in 2 .. m_size : Parent(s) = hole /\ hole > 1 => ~Less(h[s], h[Parent(hole)])

ReadyOK == pc = "ready" => \A s \in 2 .. m_size : InOrder(m_heap, s)

UpOK ==
  pc = "up" =>
    /\ hole \in 1 .. m_size
    /\ \A s \in 2 .. m_size : s # hole => InOrder(Sifted, s)
    /\ OverHole(Sifted)

DownOK ==
  pc = "down" =>
    /\ hole = 1 \/ hole \in 1 .. m_size
    /\ \A s \in 2 .. m_size : Parent(s) # hole => InOrder(Sifted, s)
    /\ OverHole(Sifted)

SiftInv == TypeOK /\ ReadyOK /\ UpOK /\ DownOK

(***************************************************************************)
(* The variables stay in their types, through every call and every round   *)
(* of a sift.                                                              *)
(***************************************************************************)
LEMMA EntryType == ASSUME NEW e \in Entry PROVE e \in Result /\ Key(e) \in Int /\ e.queryNum \in Int
BY TopResultAssumption DEF Result, Key

LEMMA TypeStep == TypeOK /\ [Next]_vars => TypeOK'
<1> SUFFICES ASSUME TypeOK, [Next]_vars PROVE TypeOK'
  OBVIOUS
<1> USE TopResultAssumption DEF TypeOK, Slots
<1>1. ASSUME NEW e \in Entry, Put(e) PROVE TypeOK'
  <2>1. e \in Result /\ Key(e) \in Int
    BY EntryType
  <2>2. m_heap' \in [Slots -> Result]
    BY <1>1, <2>1 DEF Put, Room
  <2>3. m_size' \in 0 .. m_maxsize /\ hole' \in Slots /\ pc' \in {"ready", "up", "down"}
    BY <1>1 DEF Put, Room
  <2>4. queueSet' \subseteq Int
    BY <1>1, <2>1 DEF Put, Room
  <2> QED BY <1>1, <2>1, <2>2, <2>3, <2>4 DEF Put, Room
<1>2. ASSUME NEW e \in Entry, ReplaceTop(e) PROVE TypeOK'
  <2>1. e \in Result /\ Key(e) \in Int
    BY EntryType
  <2>2. m_heap[1] \in Result
    OBVIOUS
  <2>3. Higher(lost, m_heap[1].queryNum) \in Int
    BY <2>2 DEF Higher, Result
  <2>4. m_heap' \in [Slots -> Result]
    BY <1>2, <2>1 DEF ReplaceTop, Room
  <2>5. queueSet' \subseteq Int
    BY <1>2, <2>1 DEF ReplaceTop, Room
  <2>6. hole' \in Slots
    BY <1>2 DEF ReplaceTop, Room
  <2> QED BY <1>2, <2>1, <2>3, <2>4, <2>5, <2>6 DEF ReplaceTop, Room
<1>3. ASSUME NEW e \in Entry, Reject(e) PROVE TypeOK'
  <2>1. Key(e) \in Int /\ Higher(lost, e.queryNum) \in Int
    BY EntryType DEF Higher
  <2> QED BY <1>3, <2>1 DEF Reject, Room
<1>4. ASSUME NEW e \in Entry, Ignore(e) PROVE TypeOK'
  <2>1. Higher(lost, e.queryNum) \in Int
    BY DEF Result, Higher
  <2> QED BY <1>4, <2>1 DEF Ignore
<1>5. ASSUME NEW iAdd \in Raise, AddWeight(iAdd) PROVE TypeOK'
  <2>1. \A a \in Result : Raised(a, iAdd) \in Result
    BY RaisedKeeps
  <2> QED BY <1>5, <2>1 DEF AddWeight
<1>6. CASE pop
  <2>1. m_heap[1] \in Result /\ m_heap[m_size] \in Result
    BY <1>6 DEF pop
  <2>2. m_heap' \in [Slots -> Result]
    BY <1>6, <2>1, NULLIsResult DEF pop
  <2>3. Append(popped, m_heap[1]) \in Seq(Result)
    BY <2>1
  <2> QED BY <1>6, <2>2, <2>3 DEF pop
<1>7. CASE UpHeap
  <2>1. Parent(hole) \in Slots
    BY <1>7, ParentIsAbove DEF UpHeap
  <2> QED BY <1>7, <2>1 DEF UpHeap
<1>8. CASE UpHeapDone
  BY <1>8 DEF UpHeapDone
<1>9. CASE DownHeap
  <2>1. SmallerChild(hole) \in Slots
    BY <1>9 DEF DownHeap, SmallerChild
  <2> QED BY <1>9, <2>1 DEF DownHeap
<1>10. CASE DownHeapDone
  BY <1>10 DEF DownHeapDone
<1>11. CASE UNCHANGED vars
  BY <1>11 DEF vars
<1> QED BY <1>1, <1>2, <1>3, <1>4, <1>5, <1>6, <1>7, <1>8, <1>9, <1>10, <1>11 DEF Next, collect

\* The facts about the types that the steps below need.
LEMMA SiftTypes ==
  ASSUME TypeOK
  PROVE  /\ m_maxsize \in Nat \ {0} /\ m_size \in Nat /\ m_size <= m_maxsize
         /\ hole \in Nat /\ 1 <= hole /\ hole <= m_maxsize
         /\ node \in Result /\ DOMAIN m_heap = Slots
         /\ \A s \in Slots : m_heap[s] \in Result /\ Sifted[s] \in Result
         /\ \A s \in Slots : Sifted[s] = IF s = hole THEN node ELSE m_heap[s]
  BY TopResultAssumption DEF TypeOK, Slots, Sifted

\* A new result at the bottom: only it can be out of order.
LEMMA PutSifts == ASSUME SiftInv, NEW e \in Entry, Put(e) PROVE UpOK'
<1> USE SiftTypes DEF SiftInv
<1>1. /\ pc = "ready" /\ m_size < m_maxsize /\ hole' = m_size + 1 /\ m_size' = m_size + 1
      /\ \A s \in Slots : Sifted'[s] = IF s = m_size + 1 THEN e ELSE m_heap[s]
  BY DEF Put, Room, Sifted, Slots
<1>2. ASSUME NEW s \in 2 .. m_size', s # hole' PROVE InOrder(Sifted', s)
  <2>1. s \in 2 .. m_size /\ InOrder(m_heap, s) /\ Parent(s) \in 1 .. s - 1
    BY <1>1, <1>2, ParentIsAbove DEF ReadyOK
  <2> QED BY <1>1, <2>1 DEF InOrder, Slots
<1>3. \A s \in 2 .. m_size' : Parent(s) # hole'
  BY <1>1, ParentIsAbove
<1> QED BY <1>1, <1>2, <1>3 DEF UpOK, OverHole, InOrder

\* A new result on top: only its children can be out of order with it.
LEMMA ReplaceTopSifts == ASSUME SiftInv, NEW e \in Entry, ReplaceTop(e) PROVE DownOK'
<1> USE SiftTypes DEF SiftInv
<1>1. /\ pc = "ready" /\ hole' = 1 /\ m_size' = m_size
      /\ \A s \in Slots : Sifted'[s] = IF s = 1 THEN e ELSE m_heap[s]
  BY DEF ReplaceTop, Room, Sifted, Slots
<1>2. ASSUME NEW s \in 2 .. m_size', Parent(s) # hole' PROVE InOrder(Sifted', s)
  <2>1. InOrder(m_heap, s) /\ Parent(s) \in 1 .. s - 1
    BY <1>1, <1>2, ParentIsAbove DEF ReadyOK
  <2> QED BY <1>1, <1>2, <2>1 DEF InOrder, Slots
<1> QED BY <1>1, <1>2 DEF DownOK, OverHole

\* The last result on top: only its children can be out of order with it.
LEMMA PopSifts == ASSUME SiftInv, pop PROVE DownOK'
<1> USE SiftTypes DEF SiftInv
<1>1. /\ pc = "ready" /\ hole' = 1 /\ m_size' = m_size - 1 /\ m_size > 0
      /\ \A s \in 2 .. m_size' : Sifted'[s] = m_heap[s]
  BY DEF pop, Sifted, Slots
<1>2. ASSUME NEW s \in 2 .. m_size', Parent(s) # hole' PROVE InOrder(Sifted', s)
  <2>1. InOrder(m_heap, s) /\ Parent(s) \in 2 .. m_size'
    BY <1>1, <1>2, ParentIsAbove DEF ReadyOK
  <2> QED BY <1>1, <2>1 DEF InOrder
<1> QED BY <1>1, <1>2 DEF DownOK, OverHole

\* All results raised by the same weight keep their order.
LEMMA AddWeightSifts == ASSUME SiftInv, NEW iAdd \in Raise, AddWeight(iAdd) PROVE ReadyOK'
<1> USE SiftTypes, TopResultAssumption DEF SiftInv
<1>1. /\ pc = "ready" /\ m_size' = m_size
      /\ \A s \in 1 .. m_size : m_heap'[s] = Raised(m_heap[s], iAdd)
  BY DEF AddWeight, Slots
<1>2. ASSUME NEW s \in 2 .. m_size' PROVE InOrder(m_heap', s)
  <2>1. InOrder(m_heap, s) /\ Parent(s) \in 1 .. s - 1
    BY <1>1, <1>2, ParentIsAbove DEF ReadyOK
  <2>2. m_heap[s] \in Result /\ m_heap[Parent(s)] \in Result /\ iAdd \in Nat
    BY <1>1, <2>1 DEF Slots
  <2>3. m_heap'[s] = Raised(m_heap[s], iAdd) /\ m_heap'[Parent(s)] = Raised(m_heap[Parent(s)], iAdd)
    BY <1>1, <2>1
  <2>4. \A a, b \in Result : Less(Raised(a, iAdd), Raised(b, iAdd)) <=> Less(a, b)
    BY <2>2, RaisedKeeps
  <2>5. Less(m_heap'[s], m_heap'[Parent(s)]) <=> Less(m_heap[s], m_heap[Parent(s)])
    BY <2>2, <2>3, <2>4
  <2> QED BY <2>1, <2>5 DEF InOrder
<1> QED BY <1>1, <1>2 DEF ReadyOK

\* A round of upHeap: the node and its parent change places.
LEMMA UpHeapSifts == ASSUME SiftInv, UpHeap PROVE UpOK'
<1> USE SiftTypes DEF SiftInv
<1> DEFINE P == Parent(hole)
<1>1. /\ pc = "up" /\ P > 0 /\ Less(node, m_heap[P]) /\ hole' = P
      /\ m_size' = m_size /\ hole \in 1 .. m_size
      /\ m_heap' = [m_heap EXCEPT ![hole] = m_heap[P]] /\ node' = node
  BY DEF UpHeap, UpOK
<1>2. P \in 1 .. hole - 1 /\ P \in 1 .. m_size /\ hole \in 2 .. m_size
  BY <1>1, ParentIsAbove
<1> HIDE DEF P
<1>3. /\ \A s \in 1 .. m_size : Sifted[s] = IF s = hole THEN node ELSE m_heap[s]
      /\ \A s \in 1 .. m_size :
           Sifted'[s] = IF s = P THEN node ELSE IF s = hole THEN m_heap[P] ELSE m_heap[s]
      /\ \A s \in 1 .. m_size : Sifted[s] \in Result
      /\ m_heap[P] \in Result
  BY <1>1, <1>2 DEF Sifted, Slots
<1>4. /\ \A s \in 2 .. m_size : s # hole => ~Less(Sifted[s], Sifted[Parent(s)])
      /\ \A s \in 2 .. m_size : Parent(s) = hole => ~Less(Sifted[s], m_heap[P])
  BY <1>1, <1>2, <1>3 DEF UpOK, OverHole, InOrder, P
<1>5. ASSUME NEW s \in 2 .. m_size', s # hole' PROVE InOrder(Sifted', s)
  <2>1. s \in 2 .. m_size /\ Parent(s) \in 1 .. m_size /\ Parent(s) < s
    BY <1>1, ParentIsAbove
  <2>2. CASE s = hole
    BY <1>1, <1>2, <1>3, <2>1, <2>2, LessIsOrder DEF InOrder, P
  <2>3. CASE s # hole /\ Parent(s) = P
    <3>1. ~Less(m_heap[s], m_heap[P]) /\ m_heap[s] \in Result
      BY <1>2, <1>3, <1>4, <2>1, <2>3
    <3>2. ~Less(m_heap[P], node)
      BY <1>1, <1>3, LessIsOrder
    <3>3. ~Less(m_heap[s], node)
      BY <1>3, <3>1, <3>2, LessIsOrder
    <3> QED BY <1>1, <1>2, <1>3, <1>5, <2>1, <2>3, <3>3 DEF InOrder
  <2>4. CASE s # hole /\ Parent(s) = hole
    BY <1>1, <1>2, <1>3, <1>4, <1>5, <2>1, <2>4 DEF InOrder
  <2>5. CASE s # hole /\ Parent(s) # P /\ Parent(s) # hole
    BY <1>1, <1>2, <1>3, <1>4, <1>5, <2>1, <2>5 DEF InOrder
  <2> QED BY <2>2, <2>3, <2>4, <2>5
<1>6. ASSUME NEW s \in 2 .. m_size', Parent(s) = hole', hole' > 1
      PROVE  ~Less(Sifted'[s], Sifted'[Parent(hole')])
  <2>1. P \in 2 .. m_size /\ Parent(P) \in 1 .. P - 1
    BY <1>1, <1>2, <1>6, ParentIsAbove
  <2>2. ~Less(m_heap[P], m_heap[Parent(P)]) /\ m_heap[Parent(P)] \in Result
    BY <1>2, <1>3, <1>4, <2>1
  <2>3. Sifted'[Parent(hole')] = m_heap[Parent(P)]
    BY <1>1, <1>2, <1>3, <2>1
  <2>4. CASE s = hole
    BY <1>1, <1>2, <1>3, <2>2, <2>3, <2>4
  <2>5. CASE s # hole
    <3>1. s # P /\ Sifted'[s] = m_heap[s] /\ m_heap[s] \in Result /\ ~Less(m_heap[s], m_heap[P])
      BY <1>1, <1>2, <1>3, <1>4, <1>6, <2>5, ParentIsAbove
    <3> QED BY <1>3, <2>2, <2>3, <3>1, LessIsOrder
  <2> QED BY <2>4, <2>5
<1> QED BY <1>1, <1>2, <1>5, <1>6 DEF UpOK, OverHole

\* The end of upHeap: every result is in order.
LEMMA UpHeapDoneSifts == ASSUME SiftInv, UpHeapDone PROVE ReadyOK'
<1> USE SiftTypes DEF SiftInv
<1>1. /\ pc = "up" /\ hole \in 1 .. m_size /\ m_size' = m_size
      /\ Parent(hole) > 0 => ~Less(node, m_heap[Parent(hole)])
      /\ \A s \in 1 .. m_size : m_heap'[s] = Sifted[s]
  BY DEF UpHeapDone, UpOK, Sifted, Slots
<1>2. ASSUME NEW s \in 2 .. m_size' PROVE InOrder(m_heap', s)
  <2>1. s \in 1 .. m_size /\ Parent(s) \in 1 .. m_size /\ Parent(s) < s
    BY <1>1, ParentIsAbove
  <2>2. CASE s = hole
    BY <1>1, <2>1, <2>2 DEF InOrder, Slots
  <2>3. CASE s # hole
    BY <1>1, <2>1, <2>3 DEF InOrder, UpOK
  <2> QED BY <2>2, <2>3
<1> QED BY <1>1, <1>2 DEF ReadyOK

\* The smaller child is a child, and the other child is not less.
LEMMA SmallerChildIsLeast ==
  ASSUME TypeOK, SmallerChild(hole) <= m_size
  PROVE  /\ SmallerChild(hole) \in 2 .. m_size /\ SmallerChild(hole) > hole
         /\ Parent(SmallerChild(hole)) = hole
         /\ \A s \in 2 .. m_size : Parent(s) = hole => ~Less(m_heap[s], m_heap[SmallerChild(hole)])
<1> USE SiftTypes
<1>1. \A s \in 2 .. m_size : Parent(s) = hole <=> s = 2 * hole \/ s = 2 * hole + 1
  BY DEF Parent
<1>2. SmallerChild(hole) \in {2 * hole, 2 * hole + 1} /\ 2 * hole <= m_size
  BY DEF SmallerChild
<1>3. ASSUME NEW s \in 2 .. m_size, Parent(s) = hole
      PROVE  ~Less(m_heap[s], m_heap[SmallerChild(hole)])
  <2>1. s \in Slots /\ 2 * hole \in Slots /\ (s = 2 * hole \/ s = 2 * hole + 1)
    BY <1>1, <1>2, <1>3 DEF Slots
  <2>2. CASE SmallerChild(hole) = s
    BY <2>1, <2>2, LessIsOrder
  <2>3. CASE SmallerChild(hole) # s /\ s = 2 * hole
    BY <2>1, <2>3, <1>2, LessIsOrder DEF SmallerChild, Slots
  <2>4. CASE SmallerChild(hole) # s /\ s = 2 * hole + 1
    BY <2>1, <2>4, <1>2, <1>3 DEF SmallerChild
  <2> QED BY <2>1, <2>2, <2>3, <2>4
<1> QED BY <1>1, <1>2, <1>3

\* A round of downHeap: the node and its smaller child change places.
LEMMA DownHeapSifts == ASSUME SiftInv, DownHeap PROVE DownOK'
<1> USE SiftTypes DEF SiftInv
<1> DEFINE C == SmallerChild(hole)
<1>1. /\ pc = "down" /\ C <= m_size /\ Less(m_heap[C], node) /\ hole' = C
      /\ m_size' = m_size
      /\ m_heap' = [m_heap EXCEPT ![hole] = m_heap[C]] /\ node' = node
  BY DEF DownHeap
<1>2. /\ C \in 2 .. m_size /\ C > hole /\ Parent(C) = hole /\ hole \in 1 .. m_size
      /\ \A s \in 2 .. m_size : Parent(s) = hole => ~Less(m_heap[s], m_heap[C])
  BY <1>1, SmallerChildIsLeast
<1> HIDE DEF C
<1>3. /\ \A s \in 1 .. m_size : Sifted[s] = IF s = hole THEN node ELSE m_heap[s]
      /\ \A s \in 1 .. m_size :
           Sifted'[s] = IF s = C THEN node ELSE IF s = hole THEN m_heap[C] ELSE m_heap[s]
      /\ \A s \in 1 .. m_size : Sifted[s] \in Result
      /\ m_heap[C] \in Result
  BY <1>1, <1>2 DEF Sifted, Slots
<1>4. /\ \A s \in 2 .. m_size : Parent(s) # hole => ~Less(Sifted[s], Sifted[Parent(s)])
      /\ hole > 1 => ~Less(m_heap[C], Sifted[Parent(hole)])
  BY <1>1, <1>2, <1>3 DEF DownOK, OverHole, InOrder
<1>5. ASSUME NEW s \in 2 .. m_size', Parent(s) # hole' PROVE InOrder(Sifted', s)
  <2>1. s \in 2 .. m_size /\ Parent(s) \in 1 .. m_size /\ Parent(s) < s
    BY <1>1, ParentIsAbove
  <2>2. CASE s = hole
    <3>1. Sifted'[s] = m_heap[C] /\ Parent(s) # hole /\ Parent(s) # C /\ hole > 1
      BY <1>1, <1>2, <1>3, <2>1, <2>2, <1>5
    <3>2. Sifted'[Parent(s)] = Sifted[Parent(hole)]
      BY <1>3, <2>1, <2>2, <3>1
    <3> QED BY <1>4, <3>1, <3>2 DEF InOrder
  <2>3. CASE s = C
    BY <1>1, <1>2, <1>3, <2>1, <2>3, LessIsOrder DEF InOrder
  <2>4. CASE s # C /\ Parent(s) = hole
    BY <1>1, <1>2, <1>3, <2>1, <2>4 DEF InOrder
  <2>5. CASE s # C /\ s # hole /\ Parent(s) # hole
    BY <1>1, <1>3, <1>4, <1>5, <2>1, <2>5 DEF InOrder
  <2> QED BY <2>2, <2>3, <2>4, <2>5
<1>6. ASSUME NEW s \in 2 .. m_size', Parent(s) = hole', hole' > 1
      PROVE  ~Less(Sifted'[s], Sifted'[Parent(hole')])
  <2>1. s \in 2 .. m_size /\ s # C /\ s # hole /\ Parent(s) # hole
    BY <1>1, <1>2, <1>6, ParentIsAbove
  <2>2. Sifted'[Parent(hole')] = m_heap[C] /\ Sifted'[s] = m_heap[s]
    BY <1>1, <1>2, <1>3, <2>1
  <2>3. ~Less(Sifted[s], Sifted[C]) /\ Sifted[s] = m_heap[s] /\ Sifted[C] = m_heap[C]
    BY <1>1, <1>2, <1>3, <1>4, <1>6, <2>1
  <2> QED BY <2>2, <2>3
<1> QED BY <1>1, <1>2, <1>5, <1>6 DEF DownOK, OverHole

\* The end of downHeap: every result is in order.
LEMMA DownHeapDoneSifts == ASSUME SiftInv, DownHeapDone PROVE ReadyOK'
<1> USE SiftTypes DEF SiftInv
<1>1. /\ pc = "down" /\ m_size' = m_size /\ (hole = 1 \/ hole \in 1 .. m_size)
      /\ SmallerChild(hole) <= m_size => ~Less(m_heap[SmallerChild(hole)], node)
      /\ \A s \in 1 .. m_size : m_heap'[s] = Sifted[s]
  BY DEF DownHeapDone, DownOK, Sifted, Slots
<1>2. ASSUME NEW s \in 2 .. m_size' PROVE InOrder(m_heap', s)
  <2>1. s \in 1 .. m_size /\ Parent(s) \in 1 .. m_size /\ Parent(s) < s /\ s \in 2 .. m_size
    BY <1>1, ParentIsAbove
  <2>2. CASE Parent(s) = hole
    <3>1. SmallerChild(hole) <= m_size
      BY <2>1, <2>2, ParentIsAbove DEF SmallerChild
    <3>2. /\ ~Less(m_heap[s], m_heap[SmallerChild(hole)]) /\ SmallerChild(hole) \in 1 .. m_size
          /\ ~Less(m_heap[SmallerChild(hole)], node)
      BY <1>1, <2>1, <2>2, <3>1, SmallerChildIsLeast
    <3>3. ~Less(m_heap[s], node)
      <4>1. m_heap[s] \in Result /\ m_heap[SmallerChild(hole)] \in Result /\ node \in Result
        BY <2>1, <3>2 DEF Slots
      <4> QED BY <3>2, <4>1, LessIsOrder
    <3> QED BY <1>1, <2>1, <2>2, <3>3 DEF InOrder, Slots
  <2>3. CASE Parent(s) # hole
    BY <1>1, <2>1, <2>3 DEF InOrder, DownOK
  <2> QED BY <2>2, <2>3
<1> QED BY <1>1, <1>2 DEF ReadyOK

(***************************************************************************)
(* The heap stays in order through every step.                             *)
(***************************************************************************)
LEMMA SiftStep == SiftInv /\ [Next]_vars => SiftInv'
<1> SUFFICES ASSUME SiftInv, [Next]_vars PROVE SiftInv'
  OBVIOUS
<1>0. TypeOK'
  BY TypeStep DEF SiftInv
<1>1. ASSUME NEW e \in Entry, Put(e) PROVE SiftInv'
  BY <1>0, <1>1, PutSifts DEF Put, Room, SiftInv, ReadyOK, DownOK
<1>2. ASSUME NEW e \in Entry, ReplaceTop(e) PROVE SiftInv'
  BY <1>0, <1>2, ReplaceTopSifts DEF ReplaceTop, Room, SiftInv, ReadyOK, UpOK
<1>3. ASSUME NEW e \in Entry, Reject(e) \/ Ignore(e) PROVE SiftInv'
  BY <1>0, <1>3 DEF Reject, Room, Ignore, SiftInv, ReadyOK, UpOK, DownOK, InOrder
<1>4. ASSUME NEW iAdd \in Raise, AddWeight(iAdd) PROVE SiftInv'
  BY <1>0, <1>4, AddWeightSifts DEF AddWeight, SiftInv, UpOK, DownOK
<1>5. CASE pop
  BY <1>0, <1>5, PopSifts DEF pop, SiftInv, ReadyOK, UpOK
<1>6. CASE UpHeap
  BY <1>0, <1>6, UpHeapSifts DEF UpHeap, SiftInv, ReadyOK, DownOK
<1>7. CASE UpHeapDone
  BY <1>0, <1>7, UpHeapDoneSifts DEF UpHeapDone, SiftInv, UpOK, DownOK
<1>8. CASE DownHeap
  BY <1>0, <1>8, DownHeapSifts DEF DownHeap, SiftInv, ReadyOK, UpOK
<1>9. CASE DownHeapDone
  BY <1>0, <1>9, DownHeapDoneSifts DEF DownHeapDone, SiftInv, UpOK, DownOK
<1>10. CASE UNCHANGED vars
  BY <1>0, <1>10 DEF vars, SiftInv, ReadyOK, UpOK, DownOK, InOrder, OverHole, Sifted
<1> QED BY <1>1, <1>2, <1>3, <1>4, <1>5, <1>6, <1>7, <1>8, <1>9, <1>10 DEF Next, collect

\* The empty heap is in order.
LEMMA SiftInit == Init => SiftInv
<1> SUFFICES ASSUME Init PROVE SiftInv
  OBVIOUS
<1> USE TopResultAssumption DEF Init
<1>1. TypeOK
  BY NULLIsResult DEF TypeOK, Slots
<1>2. ReadyOK /\ UpOK /\ DownOK
  BY DEF ReadyOK, UpOK, DownOK
<1> QED BY <1>1, <1>2 DEF SiftInv

\* What the steps preserve holds of every behaviour.
LEMMA SiftAlways == Spec => []SiftInv
  BY SiftInit, SiftStep, PTL DEF Spec

(***************************************************************************)
(* The variables stay in their types.                                      *)
(***************************************************************************)
THEOREM TypeCorrect == Spec => []TypeOK
<1>1. SiftInv => TypeOK
  BY DEF SiftInv
<1> QED BY <1>1, SiftAlways, PTL

(***************************************************************************)
(* Whenever no sift is under way every result is in order with its parent. *)
(***************************************************************************)
THEOREM HeapAlwaysOrdered == Spec => []HeapOrdered
<1>1. SiftInv => HeapOrdered
  <2> SUFFICES ASSUME SiftInv, pc = "ready", NEW s \in InHeap, s > 1
               PROVE  ~Less(m_heap[s], m_heap[Parent(s)])
    BY DEF HeapOrdered
  <2>1. s \in 2 .. m_size
    BY SiftTypes DEF InHeap, SiftInv, Slots
  <2> QED BY <2>1 DEF SiftInv, ReadyOK, InOrder
<1> QED BY <1>1, SiftAlways, PTL

-----------------------------------------------------------------------------
(***************************************************************************)
(* What the queue holds and what it has handed out: numbers that are not   *)
(* below the lost ones, and keys that are known and differ.                *)
(***************************************************************************)
HeldOK ==
  \A s \in 1 .. m_size :
    View[s].queryNum \in Nat /\ lost <= View[s].queryNum /\ Key(View[s]) \in queueSet

PoppedOK ==
  \A i \in DOMAIN popped : lost <= popped[i].queryNum /\ Key(popped[i]) \in queueSet

KeysDiffer ==
  /\ \A s, t \in 1 .. m_size : s # t => Key(View[s]) # Key(View[t])
  /\ \A i \in DOMAIN popped, s \in 1 .. m_size : Key(popped[i]) # Key(View[s])
  /\ \A i, j \in DOMAIN popped : i # j => Key(popped[i]) # Key(popped[j])

\* Nothing was dropped while there was room.
RoomOK == popped = <<>> /\ m_size < m_maxsize => lost = -1

ContentInv == HeldOK /\ PoppedOK /\ KeysDiffer /\ RoomOK

\* The results in the queue, by where they are found.
LEMMA ViewIs ==
  ASSUME SiftInv
  PROVE  /\ \A s \in 1 .. m_size :
              View[s] = IF pc # "ready" /\ s = hole THEN node ELSE m_heap[s]
         /\ \A s \in 1 .. m_size : View[s] \in Result
         /\ m_size \in Nat /\ m_size <= m_maxsize
  BY SiftTypes DEF View, SiftInv, Slots

\* Between two calls the top is a least result of the queue.
LEMMA ReadyTop ==
  ASSUME SiftInv, pc = "ready"
  PROVE  \A s \in 1 .. m_size : ~Less(m_heap[s], m_heap[1])
<1>1. \A s \in 1 .. m_size : m_heap[s] \in Result
  BY SiftTypes DEF SiftInv, Slots
<1>2. \A s \in 2 .. m_size : ~Less(m_heap[s], m_heap[Parent(s)])
  BY DEF SiftInv, ReadyOK, InOrder
<1>3. m_size \in Nat
  BY SiftTypes DEF SiftInv
<1> QED BY <1>1, <1>2, <1>3, TopIsLeast

\* A step that only moves results about keeps the content as it is.
LEMMA ContentMoves ==
  ASSUME SiftInv, ContentInv, [Next]_vars, UpHeap \/ UpHeapDone \/ DownHeap \/ DownHeapDone
  PROVE  ContentInv'
<1>0. SiftInv'
  BY SiftStep
<1>1. m_size' = m_size /\ queueSet' = queueSet /\ popped' = popped /\ lost' = lost
  BY DEF UpHeap, UpHeapDone, DownHeap, DownHeapDone
<1>view. \A s \in 1 .. m_size : View'[s] = IF pc' # "ready" /\ s = hole' THEN node' ELSE m_heap'[s]
  BY <1>0, <1>1 DEF View, SiftInv, TypeOK, Slots
<1>2. ASSUME NEW f \in [1 .. m_size -> 1 .. m_size],
             \A s, t \in 1 .. m_size : s # t => f[s] # f[t],
             \A s \in 1 .. m_size : View'[s] = View[f[s]]
      PROVE  ContentInv'
  BY <1>1, <1>2 DEF ContentInv, HeldOK, PoppedOK, KeysDiffer, RoomOK
<1>3. CASE UpHeap
  <2> DEFINE P == Parent(hole)
             f == [s \in 1 .. m_size |-> IF s = P THEN hole ELSE IF s = hole THEN P ELSE s]
  <2>1. P \in 1 .. m_size /\ hole \in 1 .. m_size /\ P # hole /\ hole' = P /\ pc = "up" /\ pc' = "up"
    BY <1>3, ParentIsAbove, SiftTypes DEF UpHeap, SiftInv, UpOK
  <2>2. \A s \in 1 .. m_size : View'[s] = View[f[s]]
    <3>1. m_heap' = [m_heap EXCEPT ![hole] = m_heap[P]] /\ node' = node /\ hole \in Slots
      BY <1>3, SiftTypes DEF UpHeap, SiftInv, Slots
    <3> HIDE DEF P
    <3>2. \A s \in 1 .. m_size : m_heap'[s] = IF s = hole THEN m_heap[P] ELSE m_heap[s]
      BY <2>1, <3>1, SiftTypes DEF SiftInv, Slots
    <3> QED BY <1>view, <2>1, <3>1, <3>2, ViewIs
  <2> HIDE DEF P
  <2>3. f \in [1 .. m_size -> 1 .. m_size] /\ \A s, t \in 1 .. m_size : s # t => f[s] # f[t]
    BY <2>1
  <2> HIDE DEF f
  <2> QED BY <1>2, <2>2, <2>3
<1>4. CASE DownHeap
  <2> DEFINE C == SmallerChild(hole)
             f == [s \in 1 .. m_size |-> IF s = C THEN hole ELSE IF s = hole THEN C ELSE s]
  <2>1. /\ C \in 1 .. m_size /\ hole \in 1 .. m_size /\ C # hole /\ hole' = C
        /\ pc = "down" /\ pc' = "down"
    BY <1>4, SmallerChildIsLeast, SiftTypes DEF DownHeap, SiftInv
  <2>2. \A s \in 1 .. m_size : View'[s] = View[f[s]]
    <3>1. m_heap' = [m_heap EXCEPT ![hole] = m_heap[C]] /\ node' = node /\ hole \in Slots
      BY <1>4, SiftTypes DEF DownHeap, SiftInv, Slots
    <3> HIDE DEF C
    <3>2. \A s \in 1 .. m_size : m_heap'[s] = IF s = hole THEN m_heap[C] ELSE m_heap[s]
      BY <2>1, <3>1, SiftTypes DEF SiftInv, Slots
    <3> QED BY <1>view, <2>1, <3>1, <3>2, ViewIs
  <2> HIDE DEF C
  <2>3. f \in [1 .. m_size -> 1 .. m_size] /\ \A s, t \in 1 .. m_size : s # t => f[s] # f[t]
    BY <2>1
  <2> HIDE DEF f
  <2> QED BY <1>2, <2>2, <2>3
<1>5. CASE UpHeapDone \/ DownHeapDone
  <2>1. pc # "ready" /\ pc' = "ready" /\ m_heap' = [m_heap EXCEPT ![hole] = node]
    BY <1>5 DEF UpHeapDone, DownHeapDone
  <2>2. \A s \in 1 .. m_size : m_heap'[s] = IF s = hole THEN node ELSE m_heap[s]
    BY <2>1, SiftTypes DEF SiftInv, Slots
  <2>3. \A s \in 1 .. m_size : View'[s] = View[s]
    BY <1>view, <2>1, <2>2, ViewIs
  <2> QED BY <1>1, <2>3 DEF ContentInv, HeldOK, PoppedOK, KeysDiffer, RoomOK
<1> QED BY <1>3, <1>4, <1>5

\* What collect does to the content: a new key comes in, at most one goes.
LEMMA ContentCollects ==
  ASSUME SiftInv, ContentInv, NEW e \in Entry, collect(e), SiftInv'
  PROVE  ContentInv'
<1> USE TopResultAssumption
<1>view. \A s \in 1 .. m_size' : View'[s] = IF pc' # "ready" /\ s = hole' THEN node' ELSE m_heap'[s]
  BY DEF View, SiftInv, TypeOK, Slots
<1>0. /\ e \in Result /\ e.queryNum \in Nat
      /\ pc = "ready" /\ popped = <<>> /\ popped' = <<>> /\ DOMAIN popped' = {}
      /\ \A s \in 1 .. m_size : View[s] = m_heap[s] /\ m_heap[s] \in Result /\ s \in Slots
      /\ \A s \in 1 .. m_size :
           m_heap[s].queryNum \in Nat /\ lost <= m_heap[s].queryNum /\ Key(m_heap[s]) \in queueSet
      /\ \A s, t \in 1 .. m_size : s # t => Key(m_heap[s]) # Key(m_heap[t])
      /\ m_size \in Nat /\ lost \in Int
  <2>1. pc = "ready" /\ popped = <<>> /\ popped' = <<>>
    BY DEF collect, Put, Room, ReplaceTop, Reject, Ignore
  <2>2. \A s \in 1 .. m_size : View[s] = m_heap[s] /\ m_heap[s] \in Result /\ s \in Slots
    BY <2>1, ViewIs, SiftTypes DEF SiftInv, Slots
  <2> QED BY <2>1, <2>2 DEF ContentInv, HeldOK, KeysDiffer, SiftInv, TypeOK
<1>1. CASE Put(e)
  <2>1. /\ m_size' = m_size + 1 /\ m_size + 1 \in Slots /\ lost' = lost
        /\ queueSet' = queueSet \cup {Key(e)} /\ Key(e) \notin queueSet
        /\ pc' = "up" /\ hole' = m_size + 1 /\ node' = e
        /\ \A s \in 1 .. m_size : m_heap'[s] = m_heap[s]
    BY <1>0, <1>1, SiftTypes DEF Put, Room, New, SiftInv, Slots
  <2>2. \A s \in 1 .. m_size' : View'[s] = IF s = m_size + 1 THEN e ELSE m_heap[s]
    BY <1>view, <1>0, <2>1
  <2>3. lost = -1
    BY <1>0, <1>1 DEF Put, Room, ContentInv, RoomOK
  <2>4. HeldOK'
    BY <1>0, <2>1, <2>2, <2>3 DEF HeldOK
  <2>5. KeysDiffer'
    BY <1>0, <2>1, <2>2 DEF KeysDiffer
  <2> QED BY <1>0, <2>1, <2>3, <2>4, <2>5 DEF ContentInv, PoppedOK, RoomOK
<1>2. CASE ReplaceTop(e)
  <2>1. /\ m_size' = m_size /\ m_size = m_maxsize /\ lost' = Higher(lost, m_heap[1].queryNum)
        /\ queueSet' = queueSet \cup {Key(e)} /\ Key(e) \notin queueSet /\ ~Less(e, m_heap[1])
        /\ pc' = "down" /\ hole' = 1 /\ node' = e
        /\ \A s \in 2 .. m_size : m_heap'[s] = m_heap[s]
    BY <1>0, <1>2, SiftTypes DEF ReplaceTop, Room, New, Beats, SiftInv, Slots
  <2>2. \A s \in 1 .. m_size' : View'[s] = IF s = 1 THEN e ELSE m_heap[s]
    BY <1>view, <1>0, <2>1
  <2>3. m_heap[1].queryNum <= e.queryNum /\ m_heap[1].queryNum \in Nat
    BY <1>0, <2>1, LessIsOrder DEF Slots
  <2>4. \A s \in 1 .. m_size : m_heap[1].queryNum <= m_heap[s].queryNum
    BY <1>0, <2>1, ReadyTop, LessIsOrder
  <2>5. HeldOK'
    BY <1>0, <2>1, <2>2, <2>3, <2>4 DEF HeldOK, Higher
  <2>6. KeysDiffer'
    BY <1>0, <2>1, <2>2 DEF KeysDiffer
  <2> QED BY <1>0, <2>1, <2>5, <2>6 DEF ContentInv, PoppedOK, RoomOK
<1>3. CASE Reject(e) \/ Ignore(e)
  <2>1. /\ m_size' = m_size /\ m_size >= m_maxsize /\ lost' = Higher(lost, e.queryNum)
        /\ queueSet \subseteq queueSet' /\ pc' = "ready" /\ m_heap' = m_heap
        /\ Less(e, m_heap[1]) \/ e.queryNum = 0
    BY <1>0, <1>3, SiftTypes DEF Reject, Room, Ignore, Wanted, Beats, SiftInv
  <2>2. \A s \in 1 .. m_size' : View'[s] = m_heap[s]
    BY <1>view, <1>0, <2>1
  <2>3. \A s \in 1 .. m_size : e.queryNum <= m_heap[s].queryNum
    <3>1. CASE e.queryNum = 0
      BY <1>0, <3>1
    <3>2. CASE Less(e, m_heap[1])
      <4>1. 1 \in 1 .. m_size
        BY <1>0, <2>1, SiftTypes DEF SiftInv
      <4>2. m_heap[1] \in Result /\ e.queryNum <= m_heap[1].queryNum
        BY <1>0, <3>2, <4>1, LessIsOrder
      <4>3. \A s \in 1 .. m_size : m_heap[1].queryNum <= m_heap[s].queryNum
        BY <1>0, <4>1, ReadyTop, LessIsOrder
      <4> QED BY <1>0, <4>1, <4>2, <4>3
    <3> QED BY <2>1, <3>1, <3>2
  <2>4. HeldOK'
    BY <1>0, <2>1, <2>2, <2>3 DEF HeldOK, Higher
  <2>5. KeysDiffer'
    BY <1>0, <2>1, <2>2 DEF KeysDiffer
  <2> QED BY <1>0, <2>1, <2>4, <2>5, SiftTypes DEF ContentInv, PoppedOK, RoomOK, SiftInv
<1> QED BY <1>1, <1>2, <1>3 DEF collect

\* Raising moves no key and takes no number below a lost one.
LEMMA ContentRaised ==
  ASSUME SiftInv, ContentInv, NEW iAdd \in Raise, AddWeight(iAdd), SiftInv'
  PROVE  ContentInv'
<1> USE TopResultAssumption
<1>view. \A s \in 1 .. m_size' : View'[s] = IF pc' # "ready" /\ s = hole' THEN node' ELSE m_heap'[s]
  BY DEF View, SiftInv, TypeOK, Slots
<1>0. \A s \in 1 .. m_size : View[s] = m_heap[s] /\ m_heap[s] \in Result /\ s \in Slots
  BY ViewIs, SiftTypes DEF SiftInv, Slots, AddWeight
<1>1. /\ m_size' = m_size /\ lost' = lost /\ lost \in Int /\ queueSet' = queueSet /\ popped' = popped
      /\ \A s \in 1 .. m_size : View'[s] = Raised(m_heap[s], iAdd)
  <2>1. m_size' = m_size /\ lost' = lost /\ queueSet' = queueSet /\ popped' = popped /\ pc' = "ready"
    BY DEF AddWeight
  <2>2. lost \in Int
    BY DEF SiftInv, TypeOK
  <2>3. \A s \in 1 .. m_size : m_heap'[s] = Raised(m_heap[s], iAdd)
    BY <1>0 DEF AddWeight
  <2> QED
    BY <1>view, <2>1, <2>2, <2>3
<1>2. iAdd \in Nat
  OBVIOUS
<1>3. \A s \in 1 .. m_size :
        /\ Key(View'[s]) = Key(View[s])
        /\ View'[s].queryNum = View[s].queryNum + iAdd
  BY <1>0, <1>1, <1>2, RaisedKeeps
<1>4. HeldOK'
  BY <1>1, <1>2, <1>3 DEF ContentInv, HeldOK
<1>5. KeysDiffer'
  BY <1>1, <1>3 DEF ContentInv, KeysDiffer
<1> QED BY <1>1, <1>4, <1>5 DEF ContentInv, PoppedOK, RoomOK

\* What is popped leaves the queue with its key.
LEMMA ContentPopped == ASSUME SiftInv, ContentInv, pop, SiftInv' PROVE ContentInv'
<1> USE TopResultAssumption
<1>view. \A s \in 1 .. m_size' : View'[s] = IF pc' # "ready" /\ s = hole' THEN node' ELSE m_heap'[s]
  BY DEF View, SiftInv, TypeOK, Slots
<1>0. /\ m_size > 0 /\ m_size' = m_size - 1 /\ m_size \in Nat /\ 1 \in 1 .. m_size /\ m_size \in 1 .. m_size
      /\ lost' = lost /\ queueSet' = queueSet /\ popped' = Append(popped, m_heap[1])
      /\ popped \in Seq(Result) /\ m_heap[1] \in Result
      /\ \A s \in 1 .. m_size : View[s] = m_heap[s]
  BY ViewIs, SiftTypes DEF pop, SiftInv, TypeOK, Slots
<1>1. \A s \in 1 .. m_size' : View'[s] = IF s = 1 THEN m_heap[m_size] ELSE m_heap[s]
  <2>1. /\ m_heap' = [m_heap EXCEPT ![1] = m_heap[m_size], ![m_size] = NULL]
        /\ pc' = "down" /\ hole' = 1 /\ node' = m_heap'[1]
    BY DEF pop
  <2>2. ASSUME NEW s \in 1 .. m_size' PROVE m_heap'[s] = IF s = 1 THEN m_heap[m_size] ELSE m_heap[s]
    BY <1>0, <2>1, SiftTypes DEF SiftInv, Slots
  <2> QED BY <1>view, <2>1, <2>2
<1>2. DOMAIN popped' = DOMAIN popped \cup {Len(popped) + 1}
  BY <1>0
<1>3. /\ \A i \in DOMAIN popped : popped'[i] = popped[i] /\ i # Len(popped) + 1
      /\ popped'[Len(popped) + 1] = m_heap[1]
  BY <1>0
<1>4. HeldOK'
  BY <1>0, <1>1 DEF ContentInv, HeldOK
<1>5. PoppedOK'
  BY <1>0, <1>2, <1>3 DEF ContentInv, PoppedOK, HeldOK
<1>6. KeysDiffer'
  <2>1. \A s, t \in 1 .. m_size' : s # t => Key(View'[s]) # Key(View'[t])
    BY <1>0, <1>1 DEF ContentInv, KeysDiffer
  <2>2. \A i \in DOMAIN popped', s \in 1 .. m_size' : Key(popped'[i]) # Key(View'[s])
    BY <1>0, <1>1, <1>2, <1>3 DEF ContentInv, KeysDiffer
  <2>3. \A i, j \in DOMAIN popped' : i # j => Key(popped'[i]) # Key(popped'[j])
    BY <1>0, <1>2, <1>3 DEF ContentInv, KeysDiffer
  <2> QED BY <2>1, <2>2, <2>3 DEF KeysDiffer
<1>7. RoomOK'
  BY <1>0, <1>2 DEF RoomOK
<1> QED BY <1>4, <1>5, <1>6, <1>7 DEF ContentInv

\* The content stays as described through every step.
LEMMA ContentStep == SiftInv /\ ContentInv /\ [Next]_vars => ContentInv'
<1> SUFFICES ASSUME SiftInv, ContentInv, [Next]_vars PROVE ContentInv'
  OBVIOUS
<1>0. SiftInv'
  BY SiftStep
<1>1. ASSUME NEW e \in Entry, collect(e) PROVE ContentInv'
  BY <1>0, <1>1, ContentCollects
<1>2. ASSUME NEW iAdd \in Raise, AddWeight(iAdd) PROVE ContentInv'
  BY <1>0, <1>2, ContentRaised
<1>3. CASE pop
  BY <1>0, <1>3, ContentPopped
<1>4. CASE UpHeap \/ UpHeapDone \/ DownHeap \/ DownHeapDone
  BY <1>4, ContentMoves
<1>5. CASE UNCHANGED vars
  BY <1>5 DEF vars, ContentInv, HeldOK, PoppedOK, KeysDiffer, RoomOK, View
<1> QED BY <1>1, <1>2, <1>3, <1>4, <1>5 DEF Next

\* It is so at the start.
LEMMA ContentInit == Init => ContentInv
  BY TopResultAssumption DEF Init, ContentInv, HeldOK, PoppedOK, KeysDiffer, RoomOK

\* What the steps preserve holds of every behaviour.
LEMMA ContentAlways == Spec => [](SiftInv /\ ContentInv)
  BY SiftInit, SiftStep, ContentInit, ContentStep, PTL DEF Spec

(***************************************************************************)
(* No result that was dropped outranks one that was kept or handed out.    *)
(***************************************************************************)
THEOREM NothingBetterDropped == Spec => []DroppedAreWorse
<1>1. SiftInv /\ ContentInv => DroppedAreWorse
  <2> SUFFICES ASSUME SiftInv, ContentInv,
                      NEW k \in Kept \cup {popped[i] : i \in DOMAIN popped}
               PROVE  lost <= k.queryNum
    BY DEF DroppedAreWorse
  <2>1. CASE k \in Kept
    BY <2>1, SiftTypes DEF Kept, InHeap, ContentInv, HeldOK, SiftInv, Slots
  <2>2. CASE k \in {popped[i] : i \in DOMAIN popped}
    BY <2>2 DEF ContentInv, PoppedOK
  <2> QED BY <2>1, <2>2
<1> QED BY <1>1, ContentAlways, PTL

(***************************************************************************)
(* No entry of a tree is handed out twice.                                 *)
(***************************************************************************)
THEOREM EntriesOnce == Spec => []OncePerEntry
<1>1. SiftInv /\ ContentInv => OncePerEntry
  <2> SUFFICES ASSUME SiftInv, ContentInv, NEW i \in DOMAIN popped, NEW j \in DOMAIN popped, i # j,
                      <<popped[i].eleId, popped[i].pPara>> = <<popped[j].eleId, popped[j].pPara>>
               PROVE  FALSE
    BY DEF OncePerEntry
  <2>1. Key(popped[i]) = Key(popped[j])
    BY DEF Key
  <2> QED BY <2>1 DEF ContentInv, KeysDiffer
<1> QED BY <1>1, ContentAlways, PTL

-----------------------------------------------------------------------------
(***************************************************************************)
(* The heap implements BestQueue: seen as the set Kept, a call of collect  *)
(* keeps a result, lets a worst one go for it, or changes nothing, and the *)
(* rounds of a sift change nothing.                                        *)
(***************************************************************************)
\* As many results as slots: no two slots hold the same one.
LEMMA KeptCounts ==
  ASSUME SiftInv, ContentInv
  PROVE  /\ Kept = {View[s] : s \in 1 .. m_size}
         /\ IsFiniteSet(Kept) /\ Cardinality(Kept) = m_size /\ Kept \subseteq Result
<1>1. m_size \in Nat /\ m_size <= m_maxsize /\ InHeap = 1 .. m_size
  BY SiftTypes DEF SiftInv, InHeap, Slots
<1>2. Kept = {View[s] : s \in 1 .. m_size} /\ Kept \subseteq Result
  BY <1>1, ViewIs DEF Kept
<1> DEFINE f == [s \in 1 .. m_size |-> View[s]]
<1>3. f \in Bijection(1 .. m_size, Kept)
  <2>1. \A s, t \in 1 .. m_size : f[s] = f[t] => s = t
    BY DEF ContentInv, KeysDiffer
  <2>2. f \in [1 .. m_size -> Kept] /\ \A r \in Kept : \E s \in 1 .. m_size : f[s] = r
    BY <1>2
  <2> QED BY <2>1, <2>2 DEF Bijection, Injection, Surjection, IsInjective
<1>4. ExistsBijection(1 .. m_size, Kept)
  BY <1>3 DEF ExistsBijection
<1>5. IsFiniteSet(1 .. m_size) /\ Cardinality(1 .. m_size) = m_size
  BY <1>1, FS_Interval
<1> QED BY <1>1, <1>2, <1>4, <1>5, FS_Bijection

\* The same after a step.
LEMMA KeptNext ==
  ASSUME SiftInv'
  PROVE  Kept' = {View'[s] : s \in 1 .. m_size'}
<1>1. m_size' \in Nat /\ m_size' <= m_maxsize
  BY TopResultAssumption DEF SiftInv, TypeOK
<1>2. InHeap' = 1 .. m_size'
  BY <1>1, TopResultAssumption DEF InHeap, Slots
<1> QED BY <1>2 DEF Kept

\* The queue counts as the heap does.
LEMMA SameCount ==
  ASSUME NEW S
  PROVE  Best!Cardinality(S) = Cardinality(S)
  BY DEF Best!Cardinality, Cardinality

\* What is on top is a least result of those kept.
LEMMA TopIsWorst ==
  ASSUME SiftInv, ContentInv, pc = "ready", m_size > 0
  PROVE  m_heap[1] \in Kept /\ m_heap[1] \in Best!Least(Kept)
<1>1. \A s \in 1 .. m_size : View[s] = m_heap[s]
  BY ViewIs
<1>2. 1 \in 1 .. m_size
  BY SiftTypes DEF SiftInv
<1>3. \A s \in 1 .. m_size : ~Less(m_heap[s], m_heap[1])
  BY ReadyTop
<1>4. \A s \in 1 .. m_size : ~Best!Less(m_heap[s], m_heap[1])
  BY <1>3 DEF Less, Best!Less
<1> QED BY <1>1, <1>2, <1>4, KeptCounts DEF Best!Least

\* A round of a sift moves two results about, and no others.
LEMMA SiftKeeps ==
  ASSUME SiftInv, ContentInv, SiftInv', ContentInv', UpHeap \/ UpHeapDone \/ DownHeap \/ DownHeapDone
  PROVE  Kept' = Kept /\ popped' = popped
<1>1. m_size' = m_size /\ popped' = popped
  BY DEF UpHeap, UpHeapDone, DownHeap, DownHeapDone
<1>view. \A s \in 1 .. m_size : View'[s] = IF pc' # "ready" /\ s = hole' THEN node' ELSE m_heap'[s]
  BY <1>1 DEF View, SiftInv, TypeOK, Slots
<1>2. ASSUME NEW a \in 1 .. m_size, NEW b \in 1 .. m_size,
             \A s \in 1 .. m_size : View'[s] = IF s = a THEN View[b] ELSE IF s = b THEN View[a] ELSE View[s]
      PROVE  Kept' = Kept
  <2>1. Kept = {View[s] : s \in 1 .. m_size} /\ Kept' = {View'[s] : s \in 1 .. m_size}
    BY <1>1, KeptCounts, KeptNext
  <2>2. \A s \in 1 .. m_size : \E t \in 1 .. m_size : View'[s] = View[t]
    BY <1>2
  <2>3. \A s \in 1 .. m_size : \E t \in 1 .. m_size : View[s] = View'[t]
    BY <1>2
  <2> QED BY <2>1, <2>2, <2>3
<1>3. CASE UpHeap
  <2> DEFINE P == Parent(hole)
  <2>1. P \in 1 .. m_size /\ hole \in 1 .. m_size /\ P # hole /\ hole' = P /\ pc = "up" /\ pc' = "up"
    BY <1>3, ParentIsAbove, SiftTypes DEF UpHeap, SiftInv, UpOK
  <2>2. m_heap' = [m_heap EXCEPT ![hole] = m_heap[P]] /\ node' = node /\ hole \in Slots
    BY <1>3, SiftTypes DEF UpHeap, SiftInv, Slots
  <2> HIDE DEF P
  <2>3. \A s \in 1 .. m_size : m_heap'[s] = IF s = hole THEN m_heap[P] ELSE m_heap[s]
    BY <2>1, <2>2, SiftTypes DEF SiftInv, Slots
  <2>4. \A s \in 1 .. m_size : View'[s] = IF s = P THEN View[hole] ELSE IF s = hole THEN View[P] ELSE View[s]
    BY <1>view, <2>1, <2>2, <2>3, ViewIs
  <2> QED BY <1>1, <1>2, <2>1, <2>4
<1>4. CASE DownHeap
  <2> DEFINE C == SmallerChild(hole)
  <2>1. /\ C \in 1 .. m_size /\ hole \in 1 .. m_size /\ C # hole /\ hole' = C
        /\ pc = "down" /\ pc' = "down"
    BY <1>4, SmallerChildIsLeast, SiftTypes DEF DownHeap, SiftInv
  <2>2. m_heap' = [m_heap EXCEPT ![hole] = m_heap[C]] /\ node' = node /\ hole \in Slots
    BY <1>4, SiftTypes DEF DownHeap, SiftInv, Slots
  <2> HIDE DEF C
  <2>3. \A s \in 1 .. m_size : m_heap'[s] = IF s = hole THEN m_heap[C] ELSE m_heap[s]
    BY <2>1, <2>2, SiftTypes DEF SiftInv, Slots
  <2>4. \A s \in 1 .. m_size : View'[s] = IF s = C THEN View[hole] ELSE IF s = hole THEN View[C] ELSE View[s]
    BY <1>view, <2>1, <2>2, <2>3, ViewIs
  <2> QED BY <1>1, <1>2, <2>1, <2>4
<1>5. CASE UpHeapDone \/ DownHeapDone
  <2>1. pc # "ready" /\ pc' = "ready" /\ m_heap' = [m_heap EXCEPT ![hole] = node]
    BY <1>5 DEF UpHeapDone, DownHeapDone
  <2>2. \A s \in 1 .. m_size : m_heap'[s] = IF s = hole THEN node ELSE m_heap[s]
    BY <2>1, SiftTypes DEF SiftInv, Slots
  <2>3. \A s \in 1 .. m_size : View'[s] = View[s]
    BY <1>view, <2>1, <2>2, ViewIs
  <2>4. Kept = {View[s] : s \in 1 .. m_size} /\ Kept' = {View'[s] : s \in 1 .. m_size}
    BY <1>1, KeptCounts, KeptNext
  <2> QED BY <1>1, <2>3, <2>4
<1> QED BY <1>1, <1>3, <1>4, <1>5

\* collect keeps a result that was not kept, for a worst one where there is no room.
LEMMA CollectKeeps ==
  ASSUME SiftInv, ContentInv, SiftInv', ContentInv', NEW e \in Entry, collect(e)
  PROVE  Best!BQNext \/ UNCHANGED <<Kept, popped>>
<1> USE TopResultAssumption
<1>0. /\ pc = "ready" /\ popped = <<>> /\ popped' = <<>> /\ e \in Result
      /\ \A s \in 1 .. m_size : View[s] = m_heap[s]
      /\ m_size \in Nat /\ m_size <= m_maxsize
  <2>1. pc = "ready" /\ popped = <<>> /\ popped' = <<>>
    BY DEF collect, Put, Room, ReplaceTop, Reject, Ignore
  <2> QED BY <2>1, ViewIs
<1>view. \A s \in 1 .. m_size' : View'[s] = IF pc' # "ready" /\ s = hole' THEN node' ELSE m_heap'[s]
  BY DEF View, SiftInv, TypeOK, Slots
<1>kept. /\ Kept = {m_heap[s] : s \in 1 .. m_size} /\ Cardinality(Kept) = m_size
         /\ Kept' = {View'[s] : s \in 1 .. m_size'}
  BY <1>0, KeptCounts, KeptNext
<1>new. New(e) => e \notin Kept
  BY <1>0, <1>kept DEF New, ContentInv, HeldOK
<1>1. CASE Put(e)
  <2>1. /\ m_size' = m_size + 1 /\ m_size < m_maxsize /\ New(e)
        /\ pc' = "up" /\ hole' = m_size + 1 /\ node' = e
        /\ \A s \in 1 .. m_size : m_heap'[s] = m_heap[s]
    BY <1>0, <1>1, SiftTypes DEF Put, Room, SiftInv, Slots
  <2>2. \A s \in 1 .. m_size' : View'[s] = IF s = m_size + 1 THEN e ELSE m_heap[s]
    BY <1>view, <1>0, <2>1
  <2>3. Kept' = Kept \cup {e}
    BY <1>0, <1>kept, <2>1, <2>2
  <2>4. Best!Keep(e) /\ e \in Kept' \ Kept
    BY <1>0, <1>kept, <1>new, <2>1, <2>3, SameCount DEF Best!Keep
  <2> QED BY <2>4 DEF Best!BQNext
<1>2. CASE ReplaceTop(e)
  <2>1. /\ m_size' = m_size /\ m_size = m_maxsize /\ m_size > 0 /\ New(e) /\ ~Less(e, m_heap[1])
        /\ pc' = "down" /\ hole' = 1 /\ node' = e
        /\ \A s \in 2 .. m_size : m_heap'[s] = m_heap[s]
    BY <1>0, <1>2, SiftTypes DEF ReplaceTop, Room, Beats, SiftInv, Slots
  <2>2. \A s \in 1 .. m_size' : View'[s] = IF s = 1 THEN e ELSE m_heap[s]
    BY <1>view, <1>0, <2>1
  <2>3. m_heap[1] \in Best!Least(Kept)
    BY <1>0, <2>1, TopIsWorst
  <2>4. \A s \in 2 .. m_size : m_heap[s] # m_heap[1]
    BY <1>0, <2>1 DEF ContentInv, KeysDiffer
  <2>5. Kept' = (Kept \ {m_heap[1]}) \cup {e}
    BY <1>0, <1>kept, <2>1, <2>2, <2>4
  <2>6. ~Best!Less(e, m_heap[1])
    BY <2>1 DEF Less, Best!Less
  <2>7. Best!Keep(e) /\ e \in Kept' \ Kept
    BY <1>0, <1>kept, <1>new, <2>1, <2>3, <2>5, <2>6, SameCount DEF Best!Keep
  <2> QED BY <2>7 DEF Best!BQNext
<1>3. CASE Reject(e) \/ Ignore(e)
  <2>1. m_size' = m_size /\ pc' = "ready" /\ m_heap' = m_heap
    BY <1>0, <1>3 DEF Reject, Room, Ignore
  <2> QED BY <1>0, <1>view, <1>kept, <2>1
<1> QED BY <1>1, <1>2, <1>3 DEF collect

\* AddWeight raises every result that is kept.
LEMMA AddWeightRaises ==
  ASSUME SiftInv, ContentInv, SiftInv', ContentInv', NEW iAdd \in Raise, AddWeight(iAdd)
  PROVE  Best!BQNext
<1>view. \A s \in 1 .. m_size' : View'[s] = IF pc' # "ready" /\ s = hole' THEN node' ELSE m_heap'[s]
  BY DEF View, SiftInv, TypeOK, Slots
<1>0. \A s \in 1 .. m_size : View[s] = m_heap[s] /\ s \in Slots
  BY ViewIs, SiftTypes DEF SiftInv, Slots, AddWeight
<1>1. m_size' = m_size /\ popped = <<>> /\ popped' = popped /\ pc' = "ready"
  BY DEF AddWeight
<1>2. ASSUME NEW s \in 1 .. m_size PROVE View'[s] = Raised(View[s], iAdd)
  <2>1. m_heap'[s] = Raised(m_heap[s], iAdd)
    BY <1>0, ViewIs DEF AddWeight
  <2> QED BY <1>view, <1>0, <1>1, <2>1
<1>3. Kept = {View[s] : s \in 1 .. m_size} /\ Kept' = {View'[s] : s \in 1 .. m_size}
  BY <1>1, KeptCounts, KeptNext
<1>4. \A r : Raised(r, iAdd) = Best!Raised(r, iAdd)
  BY DEF Raised, Best!Raised
<1>5. Kept' = {Best!Raised(r, iAdd) : r \in Kept}
  BY <1>2, <1>3, <1>4
<1> QED BY <1>1, <1>5 DEF Best!BQNext, Best!RaiseAll

\* pop hands out a worst one.
LEMMA PopHandsOut ==
  ASSUME SiftInv, ContentInv, SiftInv', ContentInv', pop
  PROVE  Best!BQNext
<1>view. \A s \in 1 .. m_size' : View'[s] = IF pc' # "ready" /\ s = hole' THEN node' ELSE m_heap'[s]
  BY DEF View, SiftInv, TypeOK, Slots
<1>0. /\ m_size > 0 /\ m_size' = m_size - 1 /\ m_size \in Nat /\ pc = "ready"
      /\ popped' = Append(popped, m_heap[1])
      /\ \A s \in 1 .. m_size : View[s] = m_heap[s]
  BY ViewIs DEF pop
<1>1. \A s \in 1 .. m_size' : View'[s] = IF s = 1 THEN m_heap[m_size] ELSE m_heap[s]
  <2>1. /\ m_heap' = [m_heap EXCEPT ![1] = m_heap[m_size], ![m_size] = NULL]
        /\ pc' = "down" /\ hole' = 1 /\ node' = m_heap'[1]
    BY DEF pop
  <2>2. ASSUME NEW s \in 1 .. m_size' PROVE m_heap'[s] = IF s = 1 THEN m_heap[m_size] ELSE m_heap[s]
    BY <1>0, <2>1, SiftTypes DEF SiftInv, Slots
  <2> QED BY <1>view, <2>1, <2>2
<1>2. Kept = {m_heap[s] : s \in 1 .. m_size} /\ Kept' = {View'[s] : s \in 1 .. m_size'}
  BY <1>0, KeptCounts, KeptNext
<1>3. \A s \in 2 .. m_size : m_heap[s] # m_heap[1]
  BY <1>0 DEF ContentInv, KeysDiffer
<1>4. Kept' = Kept \ {m_heap[1]}
  <2>1. ASSUME NEW r \in Kept' PROVE r \in Kept \ {m_heap[1]}
    <3>1. PICK s \in 1 .. m_size - 1 : r = View'[s]
      BY <1>0, <1>2
    <3> QED BY <1>0, <1>1, <1>2, <1>3, <3>1
  <2>2. ASSUME NEW r \in Kept \ {m_heap[1]} PROVE r \in Kept'
    <3>1. PICK s \in 2 .. m_size : r = m_heap[s]
      BY <1>0, <1>2
    <3>2. CASE s = m_size
      <4>1. 1 \in 1 .. m_size' /\ View'[1] = r
        BY <1>0, <1>1, <3>1, <3>2
      <4> QED BY <1>2, <4>1
    <3>3. CASE s # m_size
      <4>1. s \in 1 .. m_size' /\ View'[s] = r
        BY <1>0, <1>1, <3>1, <3>3
      <4> QED BY <1>2, <4>1
    <3> QED BY <3>2, <3>3
  <2> QED BY <2>1, <2>2
<1>5. m_heap[1] \in Best!Least(Kept)
  BY <1>0, TopIsWorst
<1> QED BY <1>0, <1>4, <1>5 DEF Best!BQNext, Best!HandOut

(***************************************************************************)
(* Every behaviour of the heap is one of the queue that keeps the best     *)
(* results and hands them out from the worst to the best.                  *)
(***************************************************************************)
THEOREM HeapImplementsBestQueue == Spec => ImplementsBestQueue
<1>1. Init => Best!BQInit
  <2> SUFFICES ASSUME Init PROVE Kept = {} /\ popped = <<>>
    BY DEF Best!BQInit
  <2> QED BY TopResultAssumption DEF Init, Kept, InHeap, Slots
<1>2. SiftInv /\ ContentInv /\ SiftInv' /\ ContentInv' /\ [Next]_vars => [Best!BQNext]_(Best!qvars)
  <2> SUFFICES ASSUME SiftInv, ContentInv, SiftInv', ContentInv', [Next]_vars
               PROVE  Best!BQNext \/ UNCHANGED <<Kept, popped>>
    BY DEF Best!qvars
  <2>1. ASSUME NEW e \in Entry, collect(e) PROVE Best!BQNext \/ UNCHANGED <<Kept, popped>>
    BY <2>1, CollectKeeps
  <2>2. ASSUME NEW iAdd \in Raise, AddWeight(iAdd) PROVE Best!BQNext
    BY <2>2, AddWeightRaises
  <2>3. CASE pop
    BY <2>3, PopHandsOut
  <2>4. CASE UpHeap \/ UpHeapDone \/ DownHeap \/ DownHeapDone
    BY <2>4, SiftKeeps
  <2>5. CASE UNCHANGED vars
    BY <2>5 DEF vars, Kept, View, InHeap
  <2> QED BY <2>1, <2>2, <2>3, <2>4, <2>5 DEF Next
<1> QED BY <1>1, <1>2, ContentAlways, PTL DEF Spec, ImplementsBestQueue, Best!BQSpec
=============================================================================
