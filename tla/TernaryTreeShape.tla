-------------------------- MODULE TernaryTreeShape ----------------------------
(***************************************************************************)
(* The ternary tree as a shape: the walks over any heap, what a rotation   *)
(* does field by field, the tree that the nodes of a heap make, and        *)
(* add_fixup and del_fixup, which balance a level of it.  TernaryTreeNodes *)
(* goes on from here.                                                      *)
(***************************************************************************)
EXTENDS TernaryTree, FiniteSetTheorems, WellFoundedInduction, TLAPS

-----------------------------------------------------------------------------
(***************************************************************************)
(* Numbers, and functions that are defined by recursion.                   *)
(***************************************************************************)
LessPairs == {ss \in Nat \X Nat : ss[1] < ss[2]}

\* The order of the natural numbers is well-founded.
LEMMA LessPairsWellFounded == IsWellFoundedOn(LessPairs, Nat)
  BY NatLessThanWellFounded DEF OpToRel, LessPairs

\* Every nonempty set of natural numbers has a least member.
LEMMA LeastNumber ==
  ASSUME NEW W, W \subseteq Nat, W # {}
  PROVE  \E x \in W : \A y \in W : x <= y
  <1>1. PICK x \in W : \A y \in W : ~(<<y, x>> \in LessPairs)
    BY LessPairsWellFounded, WFMin
  <1>2. ASSUME NEW y \in W PROVE x <= y
    <2>1. x \in Nat /\ y \in Nat
      OBVIOUS
    <2>2. <<y, x>> \in LessPairs <=> y < x
      BY <2>1 DEF LessPairs
    <2> QED BY <1>1, <2>1, <2>2, SMT
  <1> QED BY <1>2

\* A set with each number that has all smaller ones in it has them all.
LEMMA AllNumbers ==
  ASSUME NEW W, \A n \in Nat : (\A m \in Nat : m < n => m \in W) => n \in W
  PROVE  Nat \subseteq W
  <1> SUFFICES ASSUME {n \in Nat : n \notin W} # {} PROVE FALSE
    OBVIOUS
  <1>1. PICK x \in {n \in Nat : n \notin W} : \A y \in {n \in Nat : n \notin W} : x <= y
    BY LeastNumber, {n \in Nat : n \notin W} \subseteq Nat
  <1>2. ASSUME NEW m \in Nat, m < x PROVE m \in W
    <2>1. ~(x <= m)
      BY <1>2
    <2> QED BY <1>1, <2>1
  <1> QED BY <1>1, <1>2

\* A part of a finite set without one of its members has fewer.
LEMMA FewerMembers ==
  ASSUME NEW A, NEW B, IsFiniteSet(B), A \subseteq B, NEW x \in B, x \notin A
  PROVE  IsFiniteSet(A) /\ Cardinality(A) \in Nat /\ Cardinality(B) \in Nat /\ Cardinality(A) < Cardinality(B)
  <1>1. IsFiniteSet(A) /\ Cardinality(A) \in Nat /\ Cardinality(B) \in Nat
    BY FS_Subset, FS_CardinalityType
  <1>2. A \subseteq B \ {x} /\ IsFiniteSet(B \ {x}) /\ Cardinality(B \ {x}) = Cardinality(B) - 1
    BY FS_RemoveElement
  <1>3. Cardinality(A) <= Cardinality(B \ {x})
    BY <1>2, FS_Subset
  <1> QED BY <1>1, <1>2, <1>3

(***************************************************************************)
(* A function that is its value at the next argument until it stops: there *)
(* is one, whether the arguments come to an end or not.                    *)
(***************************************************************************)
ClosedUnder(next, stop, X) == \A x \in X : x \notin stop => next[x] \in X

Reachable(S, next, stop, x) == {y \in S : \A X \in SUBSET S : x \in X /\ ClosedUnder(next, stop, X) => y \in X}

EndsOf(S, next, stop, x) == Reachable(S, next, stop, x) \cap stop

LEMMA EndsAtStop ==
  ASSUME NEW S, NEW next, NEW stop, NEW x \in S, x \in stop
  PROVE  EndsOf(S, next, stop, x) = {x}
  <1>1. {x} \in SUBSET S /\ ClosedUnder(next, stop, {x})
    BY DEF ClosedUnder
  <1> QED BY <1>1 DEF EndsOf, Reachable

LEMMA EndsGoOn ==
  ASSUME NEW S, NEW next \in [S -> S], NEW stop, NEW x \in S, x \notin stop
  PROVE  EndsOf(S, next, stop, x) = EndsOf(S, next, stop, next[x])
  <1>1. Reachable(S, next, stop, next[x]) \subseteq Reachable(S, next, stop, x)
    BY DEF Reachable, ClosedUnder
  <1>2. ASSUME NEW y \in Reachable(S, next, stop, x), y # x, NEW X \in SUBSET S, next[x] \in X, ClosedUnder(next, stop, X)
        PROVE  y \in X
    <2>1. X \cup {x} \in SUBSET S /\ ClosedUnder(next, stop, X \cup {x})
      BY <1>2 DEF ClosedUnder
    <2> QED BY <1>2, <2>1 DEF Reachable
  <1>3. ASSUME NEW y \in EndsOf(S, next, stop, x) PROVE y \in Reachable(S, next, stop, next[x])
    <2>1. y # x /\ y \in Reachable(S, next, stop, x) /\ y \in S
      BY DEF EndsOf, Reachable
    <2> QED BY <1>2, <2>1 DEF Reachable
  <1> QED BY <1>1, <1>3 DEF EndsOf

Follows(f, S, R, next, stop, res) ==
  f \in [S -> R] /\ \A x \in S : f[x] = IF x \in stop THEN res[x] ELSE f[next[x]]

LEMMA TailRecursion ==
  ASSUME NEW S, NEW R, NEW next, NEW stop, NEW res, next \in [S -> S], res \in [S -> R]
  PROVE  \E f : Follows(f, S, R, next, stop, res)
  <1> DEFINE Ends(x) == EndsOf(S, next, stop, x)
             End(x) == IF Ends(x) = {} THEN CHOOSE y \in S : TRUE ELSE CHOOSE y \in Ends(x) : TRUE
             f == [x \in S |-> res[End(x)]]
  <1>1. \A x \in S : End(x) \in S
    <2> TAKE x \in S
    <2>1. Ends(x) \subseteq S
      BY DEF EndsOf, Reachable
    <2> QED BY <2>1
  <1>2. f \in [S -> R]
    BY <1>1
  <1>3. ASSUME NEW x \in S PROVE f[x] = IF x \in stop THEN res[x] ELSE f[next[x]]
    <2>1. f[x] = res[End(x)]
      OBVIOUS
    <2>2. x \in stop => End(x) = x
      BY EndsAtStop
    <2>3. x \notin stop => End(x) = End(next[x])
      <3>1. x \notin stop => Ends(x) = Ends(next[x])
        BY EndsGoOn
      <3> HIDE DEF Ends
      <3> QED BY <3>1
    <2>4. next[x] \in S /\ f[next[x]] = res[End(next[x])]
      OBVIOUS
    <2> HIDE DEF End, f
    <2> QED BY <2>1, <2>2, <2>3, <2>4
  <1> HIDE DEF f
  <1> QED BY <1>2, <1>3 DEF Follows

-----------------------------------------------------------------------------
(***************************************************************************)
(* The walks, at each node.  The heap may be any.                          *)
(***************************************************************************)
IsHeap(h) == h \in HeapLike(h) /\ 0 \in DOMAIN h

LEMMA HeapFields ==
  ASSUME NEW h, IsHeap(h), NEW x \in DOMAIN h
  PROVE  /\ h[x] = [cbyte |-> h[x].cbyte, index |-> h[x].index, color |-> h[x].color, item |-> h[x].item,
                    left |-> h[x].left, mid |-> h[x].mid, right |-> h[x].right, parent |-> h[x].parent]
         /\ h[x].cbyte \in Int /\ h[x].index \in Int /\ h[x].color \in {BLACK, RED} /\ h[x].item \in Seq(Int)
         /\ h[x].left \in DOMAIN h /\ h[x].mid \in DOMAIN h /\ h[x].right \in DOMAIN h /\ h[x].parent \in DOMAIN h
  BY DEF IsHeap, HeapLike

LEMMA WayIn ==
  ASSUME NEW h, IsHeap(h), NEW x \in DOMAIN h, NEW k
  PROVE  Way(h, x, k) \in {"left", "mid", "right"} /\ h[x][Way(h, x, k)] \in DOMAIN h
  BY HeapFields DEF Way

IsDescent(f, h, k) ==
  f = [s \in [node : DOMAIN h, last : DOMAIN h] |->
         IF s.node = 0 \/ AtItem(h, s.node, k) THEN s
         ELSE f[[node |-> h[s.node][Way(h, s.node, k)], last |-> s.node]]]

LEMMA DescentExists == ASSUME NEW h, IsHeap(h), NEW k PROVE \E f : IsDescent(f, h, k)
  <1> DEFINE S    == [node : DOMAIN h, last : DOMAIN h]
             Next(s) == [node |-> h[s.node][Way(h, s.node, k)], last |-> s.node]
             next == [s \in S |-> Next(s)]
             stop == {s \in S : s.node = 0 \/ AtItem(h, s.node, k)}
             res  == [s \in S |-> s]
  <1>1. \A s \in S : Next(s) \in S
    BY WayIn
  <1>2. next \in [S -> S] /\ res \in [S -> S]
    BY <1>1
  <1>3. PICK f : Follows(f, S, S, next, stop, res)
    <2> HIDE DEF S, next, stop, res
    <2> QED BY <1>2, TailRecursion
  <1>4. \A s \in S : f[s] = IF s.node = 0 \/ AtItem(h, s.node, k) THEN s ELSE f[Next(s)]
    BY <1>3 DEF Follows
  <1>5. f = [s \in S |-> f[s]]
    BY <1>3 DEF Follows
  <1>6. f = [s \in S |-> IF s.node = 0 \/ AtItem(h, s.node, k) THEN s ELSE f[Next(s)]]
    <2> HIDE DEF S, Next
    <2> QED BY <1>4, <1>5
  <1> QED BY <1>6 DEF IsDescent

\* Descend, from a node on.
LEMMA DescendIs ==
  ASSUME NEW h, IsHeap(h), NEW k, NEW n \in DOMAIN h, NEW last \in DOMAIN h
  PROVE  Descend(h, k, n, last) =
           IF n = 0 \/ AtItem(h, n, k) THEN [node |-> n, last |-> last] ELSE Descend(h, k, h[n][Way(h, n, k)], n)
  <1>1. PICK f : IsDescent(f, h, k) /\ \A y, z \in DOMAIN h : Descend(h, k, y, z) = f[[node |-> y, last |-> z]]
    <2> DEFINE g == CHOOSE f : IsDescent(f, h, k)
    <2>1. IsDescent(g, h, k)
      BY DescentExists
    <2>2. \A y, z : Descend(h, k, y, z) = g[[node |-> y, last |-> z]]
      BY DEF Descend, IsDescent
    <2> HIDE DEF g
    <2> QED BY <2>1, <2>2
  <1>2. PICK s \in [node : DOMAIN h, last : DOMAIN h] : s = [node |-> n, last |-> last]
    OBVIOUS
  <1>3. s.node = n /\ s.last = last
    BY <1>2
  <1>4. f[s] = IF n = 0 \/ AtItem(h, n, k) THEN s ELSE f[[node |-> h[n][Way(h, n, k)], last |-> n]]
    BY <1>1, <1>3 DEF IsDescent
  <1>5. h[n][Way(h, n, k)] \in DOMAIN h
    BY WayIn
  <1> QED BY <1>1, <1>2, <1>4, <1>5

-----------------------------------------------------------------------------
(***************************************************************************)
(* The fields of a heap after one of them was set.                         *)
(***************************************************************************)
Sides  == {"left", "mid", "right"}
Around == {"left", "right"}

SameData(g, h, y) == g[y].cbyte = h[y].cbyte /\ g[y].index = h[y].index /\ g[y].item = h[y].item
SameSons(g, h, y) == \A s \in Sides : g[y][s] = h[y][s]

HeapOver(N, I) == [N -> [cbyte : Int, index : Int, color : {BLACK, RED}, item : I,
                         left : N, mid : N, right : N, parent : N]]

LEMMA HeapIsOver ==
  ASSUME NEW h, NEW N
  PROVE  \E I : /\ I = Seq(Int)
                /\ IsHeap(h) => h \in HeapOver(DOMAIN h, I) /\ 0 \in DOMAIN h
                /\ h \in HeapOver(N, I) /\ 0 \in N => IsHeap(h) /\ DOMAIN h = N
  <1>1. PICK I : I = Seq(Int)
    OBVIOUS
  <1>2. IsHeap(h) => h \in HeapOver(DOMAIN h, I) /\ 0 \in DOMAIN h
    BY <1>1 DEF IsHeap, HeapLike, HeapOver
  <1>3. h \in HeapOver(N, I) => DOMAIN h = N
    BY DEF HeapOver
  <1>4. h \in HeapOver(N, I) /\ 0 \in N => IsHeap(h)
    BY <1>1, <1>3 DEF IsHeap, HeapLike, HeapOver
  <1> QED BY <1>1, <1>2, <1>3, <1>4

SetSon(h, n, side, son) == [h EXCEPT ![n][side] = son]

LEMMA OtherIs ==
  ASSUME NEW s \in Around
  PROVE  Other(s) \in Around /\ Other(Other(s)) = s /\ s # Other(s) /\ s \in Sides /\ s # "mid"
         /\ \A q \in Around : q = s \/ q = Other(s)
  BY DEF Around, Sides, Other

LEMMA HeapSons ==
  ASSUME NEW h, IsHeap(h), NEW x \in DOMAIN h, NEW s \in Sides
  PROVE  h[x][s] \in DOMAIN h
  BY HeapFields DEF Sides

\* g is h with the son set; the parent of n; its color.
SonSet(g, h, n, side, son) ==
  /\ IsHeap(g) /\ DOMAIN g = DOMAIN h
  /\ \A y \in DOMAIN h : /\ SameData(g, h, y) /\ g[y].color = h[y].color /\ g[y].parent = h[y].parent
                         /\ \A s \in Sides : g[y][s] = IF y = n /\ s = side THEN son ELSE h[y][s]
                         /\ y # n => g[y] = h[y]
SetUp(h, n, p) == [h EXCEPT ![n].parent = p]

ParentSet(g, h, n, p) ==
  /\ IsHeap(g) /\ DOMAIN g = DOMAIN h
  /\ \A y \in DOMAIN h : /\ SameData(g, h, y) /\ g[y].color = h[y].color /\ SameSons(g, h, y)
                         /\ g[y].parent = IF y = n THEN p ELSE h[y].parent
                         /\ y # n => g[y] = h[y]
ColorSet(g, h, n, c) ==
  /\ IsHeap(g) /\ DOMAIN g = DOMAIN h
  /\ \A y \in DOMAIN h : /\ SameData(g, h, y) /\ g[y].parent = h[y].parent /\ SameSons(g, h, y)
                         /\ g[y].color = IF y = n THEN c ELSE h[y].color
                         /\ y # n => g[y] = h[y]

LEMMA SetSonIs ==
  ASSUME NEW h, IsHeap(h), NEW n \in DOMAIN h, NEW side \in Sides, NEW son \in DOMAIN h,
         NEW g, g = SetSon(h, n, side, son)
  PROVE  SonSet(g, h, n, side, son)
  <1>1. PICK N, I : N = DOMAIN h /\ h \in HeapOver(N, I) /\ 0 \in N /\ (g \in HeapOver(N, I) => IsHeap(g) /\ DOMAIN g = N)
    <2>1. PICK N : N = DOMAIN h
      OBVIOUS
    <2>2. PICK I : /\ I = Seq(Int) /\ (IsHeap(h) => h \in HeapOver(DOMAIN h, I) /\ 0 \in DOMAIN h)
      BY HeapIsOver
    <2>3. g \in HeapOver(N, I) /\ 0 \in N => IsHeap(g) /\ DOMAIN g = N
      BY <2>2, HeapIsOver
    <2> QED BY <2>1, <2>2, <2>3
  <1>2. IsHeap(g) /\ DOMAIN g = DOMAIN h
    <2>1. g \in HeapOver(N, I)
      BY <1>1 DEF HeapOver, SetSon, Sides
    <2> QED BY <1>1, <2>1
  <1>3. ASSUME NEW y \in DOMAIN h, y # n PROVE g[y] = h[y]
    BY <1>3 DEF SetSon, IsHeap, HeapLike
  <1>4. SameData(g, h, n) /\ g[n].color = h[n].color /\ g[n].parent = h[n].parent
    BY HeapFields DEF SetSon, SameData, IsHeap, HeapLike, Sides
  <1>5. \A s \in Sides : g[n][s] = IF s = side THEN son ELSE h[n][s]
    BY HeapFields DEF SetSon, Sides, IsHeap, HeapLike
  <1> QED BY <1>2, <1>3, <1>4, <1>5 DEF SameData, SonSet

LEMMA SetUpIs ==
  ASSUME NEW h, IsHeap(h), NEW n \in DOMAIN h, NEW p \in DOMAIN h, NEW g, g = SetUp(h, n, p)
  PROVE  ParentSet(g, h, n, p)
  <1>1. PICK N, I : N = DOMAIN h /\ h \in HeapOver(N, I) /\ 0 \in N /\ (g \in HeapOver(N, I) => IsHeap(g) /\ DOMAIN g = N)
    <2>1. PICK N : N = DOMAIN h
      OBVIOUS
    <2>2. PICK I : /\ I = Seq(Int) /\ (IsHeap(h) => h \in HeapOver(DOMAIN h, I) /\ 0 \in DOMAIN h)
      BY HeapIsOver
    <2>3. g \in HeapOver(N, I) /\ 0 \in N => IsHeap(g) /\ DOMAIN g = N
      BY <2>2, HeapIsOver
    <2> QED BY <2>1, <2>2, <2>3
  <1>2. IsHeap(g) /\ DOMAIN g = DOMAIN h
    <2>1. g \in HeapOver(N, I)
      BY <1>1 DEF HeapOver, SetUp
    <2> QED BY <1>1, <2>1
  <1>3. ASSUME NEW y \in DOMAIN h, y # n PROVE g[y] = h[y]
    BY <1>3 DEF SetUp, IsHeap, HeapLike
  <1>4. SameData(g, h, n) /\ g[n].color = h[n].color /\ g[n].parent = p
    BY HeapFields DEF SetUp, SameData, IsHeap, HeapLike
  <1>5. SameSons(g, h, n)
    BY HeapFields DEF SetUp, SameSons, Sides, IsHeap, HeapLike
  <1> QED BY <1>2, <1>3, <1>4, <1>5 DEF SameData, SameSons, ParentSet

LEMMA ColorIs ==
  ASSUME NEW h, IsHeap(h), NEW n \in DOMAIN h, NEW c \in {BLACK, RED}, NEW g, g = Color(h, n, c)
  PROVE  ColorSet(g, h, n, c)
  <1>1. PICK N, I : N = DOMAIN h /\ h \in HeapOver(N, I) /\ 0 \in N /\ (g \in HeapOver(N, I) => IsHeap(g) /\ DOMAIN g = N)
    <2>1. PICK N : N = DOMAIN h
      OBVIOUS
    <2>2. PICK I : /\ I = Seq(Int) /\ (IsHeap(h) => h \in HeapOver(DOMAIN h, I) /\ 0 \in DOMAIN h)
      BY HeapIsOver
    <2>3. g \in HeapOver(N, I) /\ 0 \in N => IsHeap(g) /\ DOMAIN g = N
      BY <2>2, HeapIsOver
    <2> QED BY <2>1, <2>2, <2>3
  <1>2. IsHeap(g) /\ DOMAIN g = DOMAIN h
    <2>1. g \in HeapOver(N, I)
      BY <1>1 DEF HeapOver, Color
    <2> QED BY <1>1, <2>1
  <1>3. ASSUME NEW y \in DOMAIN h, y # n PROVE g[y] = h[y]
    BY <1>3 DEF Color, IsHeap, HeapLike
  <1>4. SameData(g, h, n) /\ g[n].color = c /\ g[n].parent = h[n].parent
    BY HeapFields DEF Color, SameData, IsHeap, HeapLike
  <1>5. SameSons(g, h, n)
    BY HeapFields DEF Color, SameSons, Sides, IsHeap, HeapLike
  <1> QED BY <1>2, <1>3, <1>4, <1>5 DEF SameData, SameSons, ColorSet

\* The node that replaces n hangs from the parent of n, on the same side, or is the root.
Hangs(h, n) == IF h[h[n].parent].left = n THEN "left" ELSE "right"

Hook(h, lev, n, y, s) == IF h[n].parent = 0 THEN y = lev /\ s = "mid" ELSE y = h[n].parent /\ s = Hangs(h, n)

Replaced(g, h, lev, n, new) ==
  /\ IsHeap(g) /\ DOMAIN g = DOMAIN h
  /\ \A y \in DOMAIN h :
       /\ SameData(g, h, y) /\ g[y].color = h[y].color /\ g[y].parent = h[y].parent
       /\ \A s \in Sides : g[y][s] = IF Hook(h, lev, n, y, s) THEN new ELSE h[y][s]
       /\ y # (IF h[n].parent = 0 THEN lev ELSE h[n].parent) => g[y] = h[y]

LEMMA ReplaceIs ==
  ASSUME NEW h, IsHeap(h), NEW lev \in DOMAIN h, NEW n \in DOMAIN h, NEW new \in DOMAIN h, NEW g, g = Replace(h, lev, n, new)
  PROVE  Replaced(g, h, lev, n, new)
  <1>1. PICK x \in DOMAIN h, s \in Sides : g = SetSon(h, x, s, new) /\ x = (IF h[n].parent = 0 THEN lev ELSE h[n].parent)
                                           /\ s = IF h[n].parent = 0 THEN "mid" ELSE Hangs(h, n)
    <2>1. h[n].parent \in DOMAIN h
      BY HeapFields
    <2> QED BY <2>1 DEF Replace, SetSon, Sides, Hangs
  <1>2. \A y \in DOMAIN h : \A q \in Sides : (y = x /\ q = s) <=> Hook(h, lev, n, y, q)
    BY <1>1 DEF Hook
  <1>3. SonSet(g, h, x, s, new)
    BY <1>1, SetSonIs
  <1> QED BY <1>1, <1>2, <1>3 DEF SonSet, Replaced

-----------------------------------------------------------------------------
(***************************************************************************)
(* A rotation, field by field.  The colors may be others: g turns h.       *)
(***************************************************************************)
Upper(h, n, side) == h[n][Other(side)]
Inner(h, n, side) == h[Upper(h, n, side)][side]

Turned(h, g, lev, n, side) ==
  /\ IsHeap(g) /\ DOMAIN g = DOMAIN h
  /\ \A y \in DOMAIN h :
       /\ SameData(g, h, y)
       /\ g[y].parent = (IF y = n THEN Upper(h, n, side) ELSE IF y = Upper(h, n, side) THEN h[n].parent
                         ELSE IF y = Inner(h, n, side) /\ y # 0 THEN n ELSE h[y].parent)
       /\ y \notin {n, Upper(h, n, side), Inner(h, n, side), IF h[n].parent = 0 THEN lev ELSE h[n].parent} => g[y] = h[y]
       /\ \A s \in Sides : g[y][s] =
            IF y = n /\ s = Other(side) THEN Inner(h, n, side)
            ELSE IF y = Upper(h, n, side) /\ s = side THEN n
            ELSE IF Hook(h, lev, n, y, s) THEN Upper(h, n, side) ELSE h[y][s]

\* The heaps between.
RotateSteps(h, h0, h1, h2, h3, h4, g, lev, n, side) ==
  /\ IsHeap(h0) /\ DOMAIN h0 = DOMAIN h /\ (IF Inner(h, n, side) = 0 THEN h0 = h ELSE ParentSet(h0, h, Inner(h, n, side), n))
  /\ h1 = Replace(h0, lev, n, Upper(h, n, side)) /\ IsHeap(h1) /\ DOMAIN h1 = DOMAIN h
  /\ ParentSet(h2, h1, Upper(h, n, side), h[n].parent)
  /\ SonSet(h3, h2, Upper(h, n, side), side, n)
  /\ ParentSet(h4, h3, n, Upper(h, n, side))
  /\ SonSet(g, h4, n, Other(side), Inner(h, n, side))

LEMMA RotateStepsAre ==
  ASSUME NEW h, IsHeap(h), NEW lev \in DOMAIN h, NEW n \in DOMAIN h, NEW side \in Around, NEW g, g = Rotate(h, lev, n, side)
  PROVE  \E h0, h1, h2, h3, h4 : RotateSteps(h, h0, h1, h2, h3, h4, g, lev, n, side)
  <1> DEFINE up    == Upper(h, n, side)
             inner == Inner(h, n, side)
  <1>1. Other(side) \in Sides /\ side \in Sides
    BY OtherIs
  <1>2. up \in DOMAIN h /\ inner \in DOMAIN h /\ h[n].parent \in DOMAIN h
    BY <1>1, HeapSons, HeapFields DEF Upper, Inner
  <1>3. PICK h0 : h0 = SetParent(h, inner, n)
    OBVIOUS
  <1>4. IsHeap(h0) /\ DOMAIN h0 = DOMAIN h /\ (IF inner = 0 THEN h0 = h ELSE ParentSet(h0, h, inner, n))
    <2>1. inner # 0 => h0 = SetUp(h, inner, n)
      BY <1>3 DEF SetParent, SetUp
    <2>2. inner # 0 => ParentSet(h0, h, inner, n)
      BY <1>2, <2>1, SetUpIs
    <2>3. inner = 0 => h0 = h
      BY <1>3 DEF SetParent
    <2> QED BY <2>2, <2>3 DEF ParentSet
  <1>5. PICK h1 : h1 = Replace(h0, lev, n, up)
    OBVIOUS
  <1>6. IsHeap(h1) /\ DOMAIN h1 = DOMAIN h
    BY <1>2, <1>4, <1>5, ReplaceIs DEF Replaced
  <1>7. PICK h2 : h2 = SetUp(h1, up, h[n].parent)
    OBVIOUS
  <1>8. ParentSet(h2, h1, up, h[n].parent) /\ IsHeap(h2) /\ DOMAIN h2 = DOMAIN h
    <2>1. ParentSet(h2, h1, up, h[n].parent)
      BY <1>2, <1>6, <1>7, SetUpIs
    <2> QED BY <1>6, <2>1 DEF ParentSet
  <1>9. PICK h3 : h3 = SetSon(h2, up, side, n)
    OBVIOUS
  <1>10. SonSet(h3, h2, up, side, n) /\ IsHeap(h3) /\ DOMAIN h3 = DOMAIN h
    <2>1. SonSet(h3, h2, up, side, n)
      BY <1>1, <1>2, <1>8, <1>9, SetSonIs
    <2> QED BY <1>8, <2>1 DEF SonSet
  <1>11. PICK h4 : h4 = SetUp(h3, n, up)
    OBVIOUS
  <1>12. ParentSet(h4, h3, n, up) /\ IsHeap(h4) /\ DOMAIN h4 = DOMAIN h
    <2>1. ParentSet(h4, h3, n, up)
      BY <1>2, <1>10, <1>11, SetUpIs
    <2> QED BY <1>10, <2>1 DEF ParentSet
  <1>13. g = SetSon(h4, n, Other(side), inner)
    BY <1>3, <1>5, <1>7, <1>9, <1>11 DEF Rotate, SetSon, SetUp, Upper, Inner
  <1>14. SonSet(g, h4, n, Other(side), inner)
    BY <1>1, <1>2, <1>12, <1>13, SetSonIs
  <1> QED BY <1>4, <1>5, <1>6, <1>8, <1>10, <1>12, <1>14 DEF RotateSteps

\* A rotation of any heap gives a heap.
LEMMA RotateIn ==
  ASSUME NEW h, IsHeap(h), NEW lev \in DOMAIN h, NEW n \in DOMAIN h, NEW side \in Around
  PROVE  IsHeap(Rotate(h, lev, n, side)) /\ DOMAIN Rotate(h, lev, n, side) = DOMAIN h
  <1>1. PICK g : g = Rotate(h, lev, n, side)
    OBVIOUS
  <1>2. PICK h0, h1, h2, h3, h4 : RotateSteps(h, h0, h1, h2, h3, h4, g, lev, n, side)
    BY <1>1, RotateStepsAre
  <1> QED BY <1>1, <1>2 DEF RotateSteps, ParentSet, SonSet

LEMMA RotateIs ==
  ASSUME NEW h, IsHeap(h), NEW lev \in DOMAIN h, NEW n \in DOMAIN h \ {0}, NEW side \in Around, NEW g, g = Rotate(h, lev, n, side),
         Upper(h, n, side) \notin {0, n}, Inner(h, n, side) \notin {n, Upper(h, n, side)},
         h[n].parent \notin {n, Upper(h, n, side)}, h[n].parent = 0 => lev # n
  PROVE  Turned(h, g, lev, n, side) /\ \A y \in DOMAIN h : g[y].color = h[y].color
  <1> DEFINE q == IF h[n].parent = 0 THEN lev ELSE h[n].parent
  <1>1. PICK h0, h1, h2, h3, h4 : RotateSteps(h, h0, h1, h2, h3, h4, g, lev, n, side)
    BY RotateStepsAre
  <1>2. PICK up, inner : up = Upper(h, n, side) /\ inner = Inner(h, n, side) /\ up \in DOMAIN h /\ inner \in DOMAIN h
    BY OtherIs, HeapSons DEF Upper, Inner
  <1>3. \A y \in DOMAIN h : /\ SameData(h0, h, y) /\ h0[y].color = h[y].color /\ SameSons(h0, h, y)
                           /\ h0[y].parent = (IF y = inner /\ y # 0 THEN n ELSE h[y].parent) /\ (y # inner => h0[y] = h[y])
    BY <1>1, <1>2 DEF RotateSteps, ParentSet, SameData, SameSons
  <1>4. h0[n].parent = h[n].parent /\ \A y, s : Hook(h0, lev, n, y, s) = Hook(h, lev, n, y, s)
    <2>1. h0[n].parent = h[n].parent /\ h[n].parent \in DOMAIN h
      BY <1>2, <1>3, HeapFields
    <2>2. h0[h[n].parent]["left"] = h[h[n].parent]["left"]
      BY <1>3, <2>1 DEF SameSons, Sides
    <2>3. Hangs(h0, n) = Hangs(h, n)
      BY <2>1, <2>2 DEF Hangs
    <2> QED BY <2>1, <2>3 DEF Hook
  <1>5. Replaced(h1, h0, lev, n, up)
    BY <1>1, <1>2, ReplaceIs DEF RotateSteps
  <1>6. /\ ParentSet(h2, h1, up, h[n].parent) /\ SonSet(h3, h2, up, side, n) /\ ParentSet(h4, h3, n, up)
        /\ SonSet(g, h4, n, Other(side), inner) /\ DOMAIN h0 = DOMAIN h
    BY <1>1, <1>2 DEF RotateSteps
  <1>7. IsHeap(g) /\ DOMAIN h1 = DOMAIN h /\ DOMAIN h2 = DOMAIN h /\ DOMAIN h3 = DOMAIN h /\ DOMAIN h4 = DOMAIN h /\ DOMAIN g = DOMAIN h
    BY <1>5, <1>6 DEF Replaced, ParentSet, SonSet
  <1>8. ASSUME NEW y \in DOMAIN h
        PROVE  /\ SameData(g, h, y) /\ g[y].color = h[y].color
               /\ g[y].parent = (IF y = n THEN up ELSE IF y = up THEN h[n].parent ELSE IF y = inner /\ y # 0 THEN n ELSE h[y].parent)
               /\ y \notin {n, up, inner, q} => g[y] = h[y]
               /\ \A s \in Sides : g[y][s] = IF y = n /\ s = Other(side) THEN inner ELSE IF y = up /\ s = side THEN n
                                             ELSE IF Hook(h, lev, n, y, s) THEN up ELSE h[y][s]
    <2>1. /\ SameData(h1, h0, y) /\ h1[y].color = h0[y].color /\ h1[y].parent = h0[y].parent /\ (y # q => h1[y] = h0[y])
          /\ \A s \in Sides : h1[y][s] = IF Hook(h, lev, n, y, s) THEN up ELSE h0[y][s]
      BY <1>4, <1>5, <1>6 DEF Replaced
    <2>2. /\ SameData(h2, h1, y) /\ h2[y].color = h1[y].color /\ SameSons(h2, h1, y)
          /\ h2[y].parent = (IF y = up THEN h[n].parent ELSE h1[y].parent) /\ (y # up => h2[y] = h1[y])
      BY <1>6, <1>7 DEF ParentSet
    <2>3. /\ SameData(h3, h2, y) /\ h3[y].color = h2[y].color /\ h3[y].parent = h2[y].parent /\ (y # up => h3[y] = h2[y])
          /\ \A s \in Sides : h3[y][s] = IF y = up /\ s = side THEN n ELSE h2[y][s]
      BY <1>6, <1>7 DEF SonSet
    <2>4. /\ SameData(h4, h3, y) /\ h4[y].color = h3[y].color /\ SameSons(h4, h3, y)
          /\ h4[y].parent = (IF y = n THEN up ELSE h3[y].parent) /\ (y # n => h4[y] = h3[y])
      BY <1>6, <1>7 DEF ParentSet
    <2>5. /\ SameData(g, h4, y) /\ g[y].color = h4[y].color /\ g[y].parent = h4[y].parent /\ (y # n => g[y] = h4[y])
          /\ \A s \in Sides : g[y][s] = IF y = n /\ s = Other(side) THEN inner ELSE h4[y][s]
      BY <1>6, <1>7 DEF SonSet
    <2>6. /\ SameData(h0, h, y) /\ h0[y].color = h[y].color /\ SameSons(h0, h, y)
          /\ h0[y].parent = (IF y = inner /\ y # 0 THEN n ELSE h[y].parent) /\ (y # inner => h0[y] = h[y])
      BY <1>3
    <2>7. SameData(g, h, y)
      BY <2>1, <2>2, <2>3, <2>4, <2>5, <2>6 DEF SameData
    <2>8. g[y].color = h[y].color
      BY <2>1, <2>2, <2>3, <2>4, <2>5, <2>6
    <2>9. g[y].parent = (IF y = n THEN up ELSE IF y = up THEN h[n].parent ELSE IF y = inner /\ y # 0 THEN n ELSE h[y].parent)
      BY <2>1, <2>2, <2>3, <2>4, <2>5, <2>6
    <2>10. y \notin {n, up, inner, q} => g[y] = h[y]
      BY <2>1, <2>2, <2>3, <2>4, <2>5, <2>6
    <2>11. ASSUME NEW s \in Sides
           PROVE  g[y][s] = IF y = n /\ s = Other(side) THEN inner ELSE IF y = up /\ s = side THEN n
                            ELSE IF Hook(h, lev, n, y, s) THEN up ELSE h[y][s]
      <3>1. h0[y][s] = h[y][s] /\ h2[y][s] = h1[y][s] /\ h4[y][s] = h3[y][s]
        BY <2>2, <2>4, <2>6 DEF SameSons
      <3>2. h3[y][s] = (IF y = up /\ s = side THEN n ELSE h1[y][s]) /\ g[y][s] = (IF y = n /\ s = Other(side) THEN inner ELSE h3[y][s])
        BY <3>1, <2>3, <2>5
      <3>3. h1[y][s] = IF Hook(h, lev, n, y, s) THEN up ELSE h[y][s]
        BY <3>1, <2>1
      <3> QED BY <3>2, <3>3
    <2> QED BY <2>7, <2>8, <2>9, <2>10, <2>11
  <1> QED BY <1>2, <1>7, <1>8 DEF Turned

-----------------------------------------------------------------------------
IsDeepest(f, h) == f = [x \in DOMAIN h |-> IF h[x].mid = 0 THEN x ELSE f[h[x].mid]]

\* The way down over middle sons.
LEMMA DeepestIs ==
  ASSUME NEW h, IsHeap(h), NEW n \in DOMAIN h
  PROVE  Deepest(h, n) = IF h[n].mid = 0 THEN n ELSE Deepest(h, h[n].mid)
  <1> DEFINE S    == DOMAIN h
             next == [x \in S |-> h[x].mid]
             stop == {x \in S : h[x].mid = 0}
             res  == [x \in S |-> x]
  <1>1. next \in [S -> S] /\ res \in [S -> S]
    BY HeapFields
  <1>2. PICK f : Follows(f, S, S, next, stop, res)
    <2> HIDE DEF S, next, stop, res
    <2> QED BY <1>1, TailRecursion
  <1>3. \A x \in S : f[x] = IF h[x].mid = 0 THEN x ELSE f[h[x].mid]
    BY <1>2 DEF Follows
  <1>4. f = [x \in S |-> f[x]]
    BY <1>2 DEF Follows
  <1>5. IsDeepest(f, h)
    BY <1>3, <1>4 DEF IsDeepest
  <1> DEFINE g == CHOOSE e : IsDeepest(e, h)
  <1>6. IsDeepest(g, h)
    BY <1>5
  <1>7. \A x : Deepest(h, x) = g[x]
    BY DEF Deepest, IsDeepest
  <1> HIDE DEF g
  <1>8. g[n] = IF h[n].mid = 0 THEN n ELSE g[h[n].mid]
    BY <1>6 DEF IsDeepest
  <1> QED BY <1>7, <1>8

IsTreeMin(f, h) == f = [x \in DOMAIN h |-> IF h[x].left = 0 THEN x ELSE f[h[x].left]]

\* The way down over left sons.
LEMMA TreeMinIs ==
  ASSUME NEW h, IsHeap(h), NEW n \in DOMAIN h
  PROVE  TreeMin(h, n) = IF h[n].left = 0 THEN n ELSE TreeMin(h, h[n].left)
  <1> DEFINE S    == DOMAIN h
             next == [x \in S |-> h[x].left]
             stop == {x \in S : h[x].left = 0}
             res  == [x \in S |-> x]
  <1>1. next \in [S -> S] /\ res \in [S -> S]
    BY HeapFields
  <1>2. PICK f : Follows(f, S, S, next, stop, res)
    <2> HIDE DEF S, next, stop, res
    <2> QED BY <1>1, TailRecursion
  <1>3. \A x \in S : f[x] = IF h[x].left = 0 THEN x ELSE f[h[x].left]
    BY <1>2 DEF Follows
  <1>4. f = [x \in S |-> f[x]]
    BY <1>2 DEF Follows
  <1>5. IsTreeMin(f, h)
    BY <1>3, <1>4 DEF IsTreeMin
  <1> DEFINE g == CHOOSE e : IsTreeMin(e, h)
  <1>6. IsTreeMin(g, h)
    BY <1>5
  <1>7. \A x : TreeMin(h, x) = g[x]
    BY DEF TreeMin, IsTreeMin
  <1> HIDE DEF g
  <1>8. g[n] = IF h[n].left = 0 THEN n ELSE g[h[n].left]
    BY <1>6 DEF IsTreeMin
  <1> QED BY <1>7, <1>8

IsPlacing(f, h, k, i) ==
  f = [s \in [node : DOMAIN h, last : DOMAIN h, lev : DOMAIN h] |->
        IF s.node = 0 \/ h[s.node].index > i THEN s
        ELSE IF AtItem(h, s.node, k) THEN [s EXCEPT !.last = s.node]
        ELSE f[[node |-> h[s.node][Way(h, s.node, k)], last |-> s.node, lev |-> LevelAfter(h, s, k)]]]

LEMMA PlacingExists == ASSUME NEW h, IsHeap(h), NEW k, NEW i PROVE \E f : IsPlacing(f, h, k, i)
  <1> DEFINE S    == [node : DOMAIN h, last : DOMAIN h, lev : DOMAIN h]
             Next(s) == [node |-> h[s.node][Way(h, s.node, k)], last |-> s.node, lev |-> LevelAfter(h, s, k)]
             Ends(s) == s.node = 0 \/ h[s.node].index > i \/ AtItem(h, s.node, k)
             Res(s)  == IF s.node = 0 \/ h[s.node].index > i THEN s ELSE [s EXCEPT !.last = s.node]
             next == [s \in S |-> Next(s)]
             stop == {s \in S : Ends(s)}
             res  == [s \in S |-> Res(s)]
  <1>1. \A s \in S : Next(s) \in S /\ Res(s) \in S
    BY WayIn DEF LevelAfter
  <1>2. next \in [S -> S] /\ res \in [S -> S]
    BY <1>1
  <1>3. PICK f : Follows(f, S, S, next, stop, res)
    <2> HIDE DEF S, next, stop, res
    <2> QED BY <1>2, TailRecursion
  <1>4. f = [s \in S |-> f[s]] /\ \A s \in S : f[s] = IF Ends(s) THEN Res(s) ELSE f[Next(s)]
    <2> HIDE DEF Res, Next, Ends, S
    <2> QED BY <1>3 DEF Follows
  <1>5. \A s \in S : f[s] = IF s.node = 0 \/ h[s.node].index > i THEN s ELSE IF AtItem(h, s.node, k) THEN [s EXCEPT !.last = s.node] ELSE f[Next(s)]
    <2> TAKE s \in S
    <2>1. f[s] = IF Ends(s) THEN Res(s) ELSE f[Next(s)]
      BY <1>4
    <2> HIDE DEF S, Next
    <2> QED BY <2>1
  <1>6. f = [s \in S |-> IF s.node = 0 \/ h[s.node].index > i THEN s ELSE IF AtItem(h, s.node, k) THEN [s EXCEPT !.last = s.node] ELSE f[Next(s)]]
    <2> HIDE DEF S, Next, Ends, Res
    <2> QED BY <1>4, <1>5
  <1> QED BY <1>6 DEF IsPlacing

\* Place, from a node on.
LEMMA PlaceIs ==
  ASSUME NEW h, IsHeap(h), NEW k, NEW i, NEW n \in DOMAIN h, NEW last \in DOMAIN h, NEW lev \in DOMAIN h
  PROVE  Place(h, k, i, n, last, lev) =
           IF n = 0 \/ h[n].index > i THEN [node |-> n, last |-> last, lev |-> lev]
           ELSE IF AtItem(h, n, k) THEN [node |-> n, last |-> n, lev |-> lev]
           ELSE Place(h, k, i, h[n][Way(h, n, k)], n, IF Way(h, n, k) = "mid" THEN n ELSE lev)
  <1>1. PICK f : IsPlacing(f, h, k, i) /\ \A x, y, z \in DOMAIN h : Place(h, k, i, x, y, z) = f[[node |-> x, last |-> y, lev |-> z]]
    <2> DEFINE g == CHOOSE f : IsPlacing(f, h, k, i)
    <2>1. IsPlacing(g, h, k, i)
      BY PlacingExists
    <2>2. \A x, y, z : Place(h, k, i, x, y, z) = g[[node |-> x, last |-> y, lev |-> z]]
      BY DEF Place, IsPlacing
    <2> HIDE DEF g
    <2> QED BY <2>1, <2>2
  <1>2. PICK s \in [node : DOMAIN h, last : DOMAIN h, lev : DOMAIN h] : s = [node |-> n, last |-> last, lev |-> lev]
    OBVIOUS
  <1>3. s.node = n /\ s.last = last /\ s.lev = lev /\ [s EXCEPT !.last = s.node] = [node |-> n, last |-> n, lev |-> lev]
    BY <1>2
  <1>4. f[s] = IF s.node = 0 \/ h[s.node].index > i THEN s ELSE IF AtItem(h, s.node, k) THEN [s EXCEPT !.last = s.node]
               ELSE f[[node |-> h[s.node][Way(h, s.node, k)], last |-> s.node, lev |-> LevelAfter(h, s, k)]]
    BY <1>1 DEF IsPlacing
  <1>5. h[n][Way(h, n, k)] \in DOMAIN h /\ LevelAfter(h, s, k) = (IF Way(h, n, k) = "mid" THEN n ELSE lev)
    BY <1>3, WayIn DEF LevelAfter
  <1>6. Place(h, k, i, h[n][Way(h, n, k)], n, LevelAfter(h, s, k)) = f[[node |-> h[n][Way(h, n, k)], last |-> n, lev |-> LevelAfter(h, s, k)]]
    BY <1>1, <1>5
  <1>7. Place(h, k, i, n, last, lev) = f[s]
    BY <1>1, <1>2
  <1> QED BY <1>2, <1>3, <1>4, <1>5, <1>6, <1>7

IsLocating(f, h, k) ==
  f = [s \in [node : DOMAIN h, lev : DOMAIN h] |->
         IF s.node = 0 \/ AtItem(h, s.node, k) THEN s
         ELSE f[[node |-> h[s.node][Way(h, s.node, k)], lev |-> LevelAfter(h, s, k)]]]

LEMMA LocatingExists == ASSUME NEW h, IsHeap(h), NEW k PROVE \E f : IsLocating(f, h, k)
  <1> DEFINE S    == [node : DOMAIN h, lev : DOMAIN h]
             Next(s) == [node |-> h[s.node][Way(h, s.node, k)], lev |-> LevelAfter(h, s, k)]
             next == [s \in S |-> Next(s)]
             stop == {s \in S : s.node = 0 \/ AtItem(h, s.node, k)}
             res  == [s \in S |-> s]
  <1>1. \A s \in S : Next(s) \in S
    BY WayIn DEF LevelAfter
  <1>2. next \in [S -> S] /\ res \in [S -> S]
    BY <1>1
  <1>3. PICK f : Follows(f, S, S, next, stop, res)
    <2> HIDE DEF S, next, stop, res
    <2> QED BY <1>2, TailRecursion
  <1>4. f = [s \in S |-> f[s]] /\ \A s \in S : f[s] = IF s.node = 0 \/ AtItem(h, s.node, k) THEN s ELSE f[Next(s)]
    BY <1>3 DEF Follows
  <1>5. f = [s \in S |-> IF s.node = 0 \/ AtItem(h, s.node, k) THEN s ELSE f[Next(s)]]
    <2> HIDE DEF S, Next
    <2> QED BY <1>4
  <1> QED BY <1>5 DEF IsLocating

\* Locate, from a node on.
LEMMA LocateIs ==
  ASSUME NEW h, IsHeap(h), NEW k, NEW n \in DOMAIN h, NEW lev \in DOMAIN h
  PROVE  Locate(h, k, n, lev) =
           IF n = 0 \/ AtItem(h, n, k) THEN [node |-> n, lev |-> lev]
           ELSE Locate(h, k, h[n][Way(h, n, k)], IF Way(h, n, k) = "mid" THEN n ELSE lev)
  <1>1. PICK f : IsLocating(f, h, k) /\ \A x, y \in DOMAIN h : Locate(h, k, x, y) = f[[node |-> x, lev |-> y]]
    <2> DEFINE g == CHOOSE f : IsLocating(f, h, k)
    <2>1. IsLocating(g, h, k)
      BY LocatingExists
    <2>2. \A x, y : Locate(h, k, x, y) = g[[node |-> x, lev |-> y]]
      BY DEF Locate, IsLocating
    <2> HIDE DEF g
    <2> QED BY <2>1, <2>2
  <1>2. PICK s \in [node : DOMAIN h, lev : DOMAIN h] : s = [node |-> n, lev |-> lev]
    OBVIOUS
  <1>3. s.node = n /\ s.lev = lev
    BY <1>2
  <1>4. f[s] = IF s.node = 0 \/ AtItem(h, s.node, k) THEN s ELSE f[[node |-> h[s.node][Way(h, s.node, k)], lev |-> LevelAfter(h, s, k)]]
    BY <1>1 DEF IsLocating
  <1>5. h[n][Way(h, n, k)] \in DOMAIN h /\ LevelAfter(h, s, k) = (IF Way(h, n, k) = "mid" THEN n ELSE lev)
    BY <1>3, WayIn DEF LevelAfter
  <1>6. Locate(h, k, h[n][Way(h, n, k)], LevelAfter(h, s, k)) = f[[node |-> h[n][Way(h, n, k)], lev |-> LevelAfter(h, s, k)]]
    BY <1>1, <1>5
  <1>7. Locate(h, k, n, lev) = f[s]
    BY <1>1, <1>2
  <1> QED BY <1>2, <1>3, <1>4, <1>5, <1>6, <1>7

-----------------------------------------------------------------------------
\* A heap over the nodes N.
On(h, N) == IsHeap(h) /\ DOMAIN h = N

LEMMA OnIsLike ==
  ASSUME NEW h, NEW h0, IsHeap(h0)
  PROVE  h \in HeapLike(h0) <=> On(h, DOMAIN h0)
  <1>1. h \in HeapLike(h0) => DOMAIN h = DOMAIN h0
    BY DEF HeapLike
  <1>2. DOMAIN h = DOMAIN h0 => HeapLike(h) = HeapLike(h0)
    BY DEF HeapLike
  <1> QED BY <1>1, <1>2 DEF On, IsHeap

LEMMA ColorIn ==
  ASSUME NEW N, NEW h, On(h, N), NEW n \in N, NEW c \in {BLACK, RED}
  PROVE  On(Color(h, n, c), N)
  BY ColorIs DEF On, ColorSet

LEMMA SetSonIn ==
  ASSUME NEW N, NEW h, On(h, N), NEW n \in N, NEW s \in Sides, NEW x \in N
  PROVE  On(SetSon(h, n, s, x), N)
  BY SetSonIs DEF On, SonSet

LEMMA TurnIn ==
  ASSUME NEW N, NEW h, On(h, N), NEW lev \in N, NEW n \in N, NEW side \in Around
  PROVE  On(Rotate(h, lev, n, side), N)
  BY RotateIn DEF On

LEMMA OnSons ==
  ASSUME NEW N, NEW h, On(h, N), NEW x \in N
  PROVE  /\ \A s \in Sides : h[x][s] \in N
         /\ h[x].left \in N /\ h[x].mid \in N /\ h[x].right \in N /\ h[x].parent \in N /\ h[x].color \in {BLACK, RED}
  BY HeapSons, HeapFields DEF On

LEMMA AddRoundIn ==
  ASSUME NEW N, NEW h, On(h, N), NEW lev \in N, NEW p \in N
  PROVE  \E g, x : AddRound(h, lev, p) = [h |-> g, at |-> x] /\ On(g, N) /\ x \in N
  <1> DEFINE q     == h[p].parent
             gr    == h[q].parent
             side  == IF h[gr].left = q THEN "left" ELSE "right"
             uncle == h[gr][Other(side)]
             inner == p = h[q][Other(side)]
             h1    == IF inner THEN Rotate(h, lev, q, side) ELSE h
             low   == IF inner THEN q ELSE p
             ga    == Color(Color(Color(h, q, BLACK), uncle, BLACK), gr, RED)
             gb    == Rotate(Color(Color(h1, h1[low].parent, BLACK), gr, RED), lev, gr, Other(side))
  <1>1. side \in Around /\ Other(side) \in Around /\ Other(side) \in Sides
    BY OtherIs DEF Around
  <1>2. q \in N /\ gr \in N /\ uncle \in N /\ low \in N
    BY <1>1, OnSons
  <1>3. On(ga, N)
    BY <1>2, ColorIn
  <1>4. On(h1, N)
    BY <1>1, <1>2, TurnIn
  <1>5. h1[low].parent \in N
    <2> HIDE DEF h1, low
    <2> QED BY <1>2, <1>4, OnSons
  <1>6. On(gb, N)
    <2> HIDE DEF h1, low, gr
    <2> QED BY <1>1, <1>2, <1>4, <1>5, TurnIn, ColorIn
  <1>7. AddRound(h, lev, p) = [h |-> ga, at |-> gr] \/ AddRound(h, lev, p) = [h |-> gb, at |-> low]
    BY DEF AddRound
  <1> QED BY <1>2, <1>3, <1>6, <1>7

AddEnds(h, p) == h[p].parent = 0 \/ h[h[p].parent].color # RED

IsAdding(f, h0, lev) ==
  f = [s \in [h : HeapLike(h0), at : DOMAIN h0] |->
        LET q == s.h[s.at].parent
        IN  IF q = 0 \/ s.h[q].color # RED THEN Color(s.h, s.h[lev].mid, BLACK) ELSE f[AddRound(s.h, lev, s.at)]]

LEMMA AddingExists == ASSUME NEW h0, IsHeap(h0), NEW lev \in DOMAIN h0 PROVE \E f : IsAdding(f, h0, lev)
  <1> DEFINE S    == [h : HeapLike(h0), at : DOMAIN h0]
             R    == HeapLike(h0)
             Next(s) == AddRound(s.h, lev, s.at)
             Ends(s) == AddEnds(s.h, s.at)
             Res(s)  == Color(s.h, s.h[lev].mid, BLACK)
             next == [s \in S |-> Next(s)]
             stop == {s \in S : Ends(s)}
             res  == [s \in S |-> Res(s)]
  <1>1. ASSUME NEW s \in S PROVE Next(s) \in S /\ Res(s) \in R
    <2>1. On(s.h, DOMAIN h0) /\ s.at \in DOMAIN h0
      BY OnIsLike
    <2>2. PICK g, x : Next(s) = [h |-> g, at |-> x] /\ On(g, DOMAIN h0) /\ x \in DOMAIN h0
      BY <2>1, AddRoundIn
    <2>3. g \in HeapLike(h0)
      BY <2>2, OnIsLike
    <2>4. s.h[lev].mid \in DOMAIN h0
      BY <2>1, OnSons
    <2>5. Res(s) \in R
      BY <2>1, <2>4, ColorIn, OnIsLike
    <2> QED BY <2>2, <2>3, <2>5
  <1>2. next \in [S -> S] /\ res \in [S -> R]
    <2> HIDE DEF S, Next, Res, R
    <2> QED BY <1>1
  <1>3. PICK f : Follows(f, S, R, next, stop, res)
    <2> HIDE DEF S, R, next, stop, res
    <2> QED BY <1>2, TailRecursion
  <1>4. f = [s \in S |-> f[s]] /\ \A s \in S : f[s] = IF Ends(s) THEN Res(s) ELSE f[Next(s)]
    <2> HIDE DEF Res, Next, Ends, S, R
    <2> QED BY <1>3 DEF Follows
  <1>5. f = [s \in S |-> IF Ends(s) THEN Res(s) ELSE f[Next(s)]]
    <2> HIDE DEF S, Next, Ends, Res
    <2> QED BY <1>4
  <1>6. f = [s \in S |-> LET q == s.h[s.at].parent
                         IN  IF q = 0 \/ s.h[q].color # RED THEN Color(s.h, s.h[lev].mid, BLACK) ELSE f[AddRound(s.h, lev, s.at)]]
    BY <1>5 DEF AddEnds
  <1> QED BY <1>6 DEF IsAdding

\* add_fixup is one function over all the heaps of these nodes.
LEMMA AddFixupIs ==
  ASSUME NEW N, NEW h0, On(h0, N), NEW lev \in N
  PROVE  \E f : /\ \A p \in N : AddFixup(h0, lev, p) = f[[h |-> h0, at |-> p]]
                /\ \A h : \A p \in N : On(h, N) =>
                     f[[h |-> h, at |-> p]] = IF AddEnds(h, p) THEN Color(h, h[lev].mid, BLACK) ELSE f[AddRound(h, lev, p)]
  <1> DEFINE g == CHOOSE e : IsAdding(e, h0, lev)
  <1>1. IsAdding(g, h0, lev)
    BY AddingExists DEF On
  <1>2. \A p : AddFixup(h0, lev, p) = g[[h |-> h0, at |-> p]]
    BY DEF AddFixup, IsAdding
  <1>3. PICK f : f = g
    OBVIOUS
  <1> HIDE DEF g
  <1>4. ASSUME NEW h, NEW p \in N, On(h, N)
        PROVE  f[[h |-> h, at |-> p]] = IF AddEnds(h, p) THEN Color(h, h[lev].mid, BLACK) ELSE f[AddRound(h, lev, p)]
    <2>1. PICK s \in [h : HeapLike(h0), at : DOMAIN h0] : s = [h |-> h, at |-> p]
      BY <1>4, OnIsLike DEF On
    <2>2. s.h = h /\ s.at = p
      BY <2>1
    <2>3. f[s] = LET q == s.h[s.at].parent
                 IN  IF q = 0 \/ s.h[q].color # RED THEN Color(s.h, s.h[lev].mid, BLACK) ELSE f[AddRound(s.h, lev, s.at)]
      BY <1>1, <1>3 DEF IsAdding
    <2> QED BY <2>1, <2>2, <2>3 DEF AddEnds
  <1> QED BY <1>2, <1>3, <1>4

-----------------------------------------------------------------------------
LEMMA BlackSiblingIn ==
  ASSUME NEW N, NEW h, On(h, N), NEW lev \in N, NEW p \in N, NEW side \in Around
  PROVE  On(BlackSibling(h, lev, p, side), N)
  <1>1. Other(side) \in Sides
    BY OtherIs
  <1>2. h[p][Other(side)] \in N
    BY <1>1, OnSons
  <1> QED BY <1>2, ColorIn, TurnIn DEF BlackSibling

LEMMA NearComesUpIn ==
  ASSUME NEW N, NEW h, On(h, N), NEW lev \in N, NEW p \in N, NEW side \in Around
  PROVE  On(NearComesUp(h, lev, p, side), N)
  <1>1. Other(side) \in Around /\ Other(side) \in Sides /\ side \in Sides
    BY OtherIs
  <1>2. h[p][Other(side)] \in N /\ h[h[p][Other(side)]][side] \in N
    BY <1>1, OnSons
  <1> QED BY <1>1, <1>2, ColorIn, TurnIn DEF NearComesUp

ThreeColors(h, s, p, side) == Color(Color(Color(h, s, h[p].color), p, BLACK), h[s][Other(side)], BLACK)

LEMMA SiblingComesUpAs ==
  ASSUME NEW h, NEW lev, NEW p, NEW side
  PROVE  SiblingComesUp(h, lev, p, side) = Rotate(ThreeColors(h, h[p][Other(side)], p, side), lev, p, side)
  BY DEF SiblingComesUp, ThreeColors, Color

LEMMA SiblingComesUpIn ==
  ASSUME NEW N, NEW h, On(h, N), NEW lev \in N, NEW p \in N, NEW side \in Around
  PROVE  On(SiblingComesUp(h, lev, p, side), N)
  <1>1. Other(side) \in Around /\ Other(side) \in Sides /\ side \in Sides
    BY OtherIs
  <1>2. h[p][Other(side)] \in N /\ h[h[p][Other(side)]][Other(side)] \in N
    BY <1>1, OnSons
  <1>3. h[p].color \in {BLACK, RED}
    BY OnSons
  <1>4. On(ThreeColors(h, h[p][Other(side)], p, side), N)
    BY <1>2, <1>3, ColorIn DEF ThreeColors
  <1> QED BY <1>1, <1>4, SiblingComesUpAs, TurnIn

LEMMA UnhangIn ==
  ASSUME NEW N, NEW h, On(h, N), NEW p \in N, NEW side \in Around, NEW leaf
  PROVE  On(Unhang(h, p, side, leaf), N)
  <1>1. 0 \in N /\ side \in Sides
    BY OtherIs DEF On, IsHeap
  <1>2. [h EXCEPT ![p][side] = 0] = SetSon(h, p, side, 0)
    BY DEF SetSon
  <1>3. Unhang(h, p, side, leaf) = h \/ Unhang(h, p, side, leaf) = SetSon(h, p, side, 0)
    BY <1>2 DEF Unhang
  <1> QED BY <1>1, <1>3, SetSonIn

LEMMA FixRoundIn ==
  ASSUME NEW N, NEW h, On(h, N), NEW lev \in N, NEW n \in N, NEW p \in N, NEW side \in Around
  PROVE  \E g, x : FixRound(h, lev, n, p, side) = [h |-> g, at |-> x] /\ On(g, N) /\ x \in N
  <1> DEFINE s    == h[p][Other(side)]
             leaf == h[n].index = Taken
             Plain(x) == IF leaf THEN x = 0 ELSE h[x].color = BLACK
             up   == IF Plain(h[s][Other(side)]) THEN NearComesUp(h, lev, p, side) ELSE h
             new  == SiblingComesUp(Unhang(up, p, side, leaf), lev, p, side)
             ga   == Unhang(Color(h, s, RED), p, side, leaf)
  <1>1. s \in N
    BY OtherIs, OnSons
  <1>2. On(ga, N)
    <2>1. On(Color(h, s, RED), N)
      BY <1>1, ColorIn
    <2> QED BY <2>1, UnhangIn
  <1>3. On(up, N)
    BY NearComesUpIn
  <1>4. On(new, N)
    <2> HIDE DEF up
    <2>1. On(Unhang(up, p, side, leaf), N)
      BY <1>3, UnhangIn
    <2> QED BY <2>1, SiblingComesUpIn
  <1>5. new[lev].mid \in N
    <2> HIDE DEF new
    <2> QED BY <1>4, OnSons
  <1>6. FixRound(h, lev, n, p, side) = [h |-> ga, at |-> p] \/ FixRound(h, lev, n, p, side) = [h |-> new, at |-> new[lev].mid]
    BY DEF FixRound
  <1> HIDE DEF ga, new
  <1> QED BY <1>2, <1>4, <1>5, <1>6

LEMMA TreeLikeIs ==
  ASSUME NEW t0, IsHeap(t0.h), NEW t
  PROVE  t \in TreeLike(t0) <=>
           \E h, idle, cost : /\ t = [h |-> h, idle |-> idle, cost |-> cost, block |-> t0.block, off |-> t0.off,
                                      blocks |-> t0.blocks, units |-> t0.units]
                              /\ On(h, DOMAIN t0.h) /\ idle \in Seq(DOMAIN t0.h) /\ cost \in Int
  <1>1. PICK N, Q, H : N = DOMAIN t0.h /\ Q = Seq(N) /\ H = HeapLike(t0.h)
    OBVIOUS
  <1>2. \A h : h \in H <=> On(h, N)
    BY <1>1, OnIsLike
  <1>3. TreeLike(t0) = [h : H, idle : Q, cost : Int, block : {t0.block}, off : {t0.off}, blocks : {t0.blocks}, units : {t0.units}]
    BY <1>1 DEF TreeLike
  <1>4. ASSUME t \in TreeLike(t0)
        PROVE  /\ t = [h |-> t.h, idle |-> t.idle, cost |-> t.cost, block |-> t0.block, off |-> t0.off, blocks |-> t0.blocks, units |-> t0.units]
               /\ t.h \in H /\ t.idle \in Q /\ t.cost \in Int
    BY <1>3, <1>4
  <1>5. ASSUME NEW h \in H, NEW idle \in Q, NEW cost \in Int
        PROVE  [h |-> h, idle |-> idle, cost |-> cost, block |-> t0.block, off |-> t0.off, blocks |-> t0.blocks, units |-> t0.units] \in TreeLike(t0)
    BY <1>3
  <1> QED BY <1>1, <1>2, <1>4, <1>5

\* t is a tree over the nodes of t0, in its blocks.
OfTree(t, t0) ==
  \E h, idle, cost : /\ t = [h |-> h, idle |-> idle, cost |-> cost, block |-> t0.block, off |-> t0.off,
                             blocks |-> t0.blocks, units |-> t0.units]
                     /\ On(h, DOMAIN t0.h) /\ idle \in Seq(DOMAIN t0.h) /\ cost \in Int

LEMMA DelRoundIn ==
  ASSUME NEW t0, NEW t, OfTree(t, t0), NEW lev \in DOMAIN t0.h, NEW n \in DOMAIN t0.h
  PROVE  \E u, x : DelRound(t, lev, n) = [t |-> u, at |-> x] /\ OfTree(u, t0) /\ x \in DOMAIN t0.h
  <1>1. PICK N : N = DOMAIN t0.h
    OBVIOUS
  <1>2. PICK h, idle, cost : /\ t = [h |-> h, idle |-> idle, cost |-> cost, block |-> t0.block, off |-> t0.off,
                                     blocks |-> t0.blocks, units |-> t0.units]
                             /\ On(h, N) /\ idle \in Seq(N) /\ cost \in Int
    BY <1>1 DEF OfTree
  <1> DEFINE p    == h[n].parent
             side == IF h[p].left = n THEN "left" ELSE "right"
  <1>3. side \in Around /\ p \in N
    BY <1>1, <1>2, OnSons DEF Around
  <1>4. On(BlackSibling(h, lev, p, side), N)
    BY <1>1, <1>2, <1>3, BlackSiblingIn
  <1>5. PICK g, x : FixRound(BlackSibling(h, lev, p, side), lev, n, p, side) = [h |-> g, at |-> x] /\ On(g, N) /\ x \in N
    <2> HIDE DEF p, side
    <2> QED BY <1>1, <1>3, <1>4, FixRoundIn
  <1>6. t.h = h /\ [t EXCEPT !.h = g] = [h |-> g, idle |-> idle, cost |-> cost, block |-> t0.block, off |-> t0.off,
                                         blocks |-> t0.blocks, units |-> t0.units]
    BY <1>2
  <1>7. DelRound(t, lev, n) = [t |-> IF h[n].index = Taken THEN Free([t EXCEPT !.h = g], n) ELSE [t EXCEPT !.h = g], at |-> x]
    BY <1>5, <1>6 DEF DelRound
  <1>8. Free([t EXCEPT !.h = g], n) = [h |-> g, idle |-> <<n>> \o idle, cost |-> cost - 1, block |-> t0.block, off |-> t0.off,
                                       blocks |-> t0.blocks, units |-> t0.units]
    <2>1. PICK u : u = [h |-> g, idle |-> idle, cost |-> cost, block |-> t0.block, off |-> t0.off,
                        blocks |-> t0.blocks, units |-> t0.units]
      OBVIOUS
    <2>2. Free(u, n) = [u EXCEPT !.idle = <<n>> \o u.idle, !.cost = u.cost - 1]
      BY DEF Free
    <2>3. u.idle = idle /\ u.cost = cost
      BY <2>1
    <2> QED BY <1>6, <2>1, <2>2, <2>3
  <1>9. <<n>> \o idle \in Seq(N) /\ cost - 1 \in Int
    <2>1. n \in N /\ idle \in Seq(N) /\ cost \in Int
      BY <1>1, <1>2
    <2>2. <<n>> \in Seq(N)
      BY <2>1
    <2> QED BY <2>1, <2>2
  <1>10. OfTree([t EXCEPT !.h = g], t0) /\ OfTree(Free([t EXCEPT !.h = g], n), t0)
    BY <1>1, <1>2, <1>5, <1>6, <1>8, <1>9 DEF OfTree
  <1> QED BY <1>1, <1>5, <1>7, <1>10

DelEnds(t, lev, n) == n = t.h[lev].mid \/ t.h[n].color # BLACK

IsDeleting(f, t0, lev) ==
  f = [s \in [t : TreeLike(t0), at : DOMAIN t0.h] |->
        IF s.at = s.t.h[lev].mid \/ s.t.h[s.at].color # BLACK
        THEN [s.t EXCEPT !.h = Color(@, s.at, BLACK)] ELSE f[DelRound(s.t, lev, s.at)]]

LEMMA DeletingExists == ASSUME NEW t0, IsHeap(t0.h), NEW lev \in DOMAIN t0.h PROVE \E f : IsDeleting(f, t0, lev)
  <1> DEFINE R    == TreeLike(t0)
             S    == [t : R, at : DOMAIN t0.h]
             Next(s) == DelRound(s.t, lev, s.at)
             Ends(s) == DelEnds(s.t, lev, s.at)
             Res(s)  == [s.t EXCEPT !.h = Color(@, s.at, BLACK)]
             next == [s \in S |-> Next(s)]
             stop == {s \in S : Ends(s)}
             res  == [s \in S |-> Res(s)]
  <1>0. \A t : t \in R <=> OfTree(t, t0)
    BY TreeLikeIs DEF OfTree
  <1>1. ASSUME NEW s \in S PROVE Next(s) \in S /\ Res(s) \in R
    <2>1. PICK t, n : s.t = t /\ s.at = n /\ t \in R /\ n \in DOMAIN t0.h
      <3> HIDE DEF R
      <3> QED OBVIOUS
    <2>2. OfTree(t, t0)
      BY <1>0, <2>1
    <2>3. PICK u, x : Next(s) = [t |-> u, at |-> x] /\ OfTree(u, t0) /\ x \in DOMAIN t0.h
      BY <2>1, <2>2, DelRoundIn
    <2>4. u \in R
      BY <1>0, <2>3
    <2>5. Next(s) \in S
      <3> HIDE DEF R, Next
      <3> QED BY <2>3, <2>4
    <2>6. PICK h, idle, cost : /\ t = [h |-> h, idle |-> idle, cost |-> cost, block |-> t0.block, off |-> t0.off,
                                       blocks |-> t0.blocks, units |-> t0.units]
                               /\ On(h, DOMAIN t0.h) /\ idle \in Seq(DOMAIN t0.h) /\ cost \in Int
      BY <2>2 DEF OfTree
    <2>7. Res(s) = [h |-> Color(h, n, BLACK), idle |-> idle, cost |-> cost, block |-> t0.block, off |-> t0.off,
                    blocks |-> t0.blocks, units |-> t0.units]
      BY <2>1, <2>6
    <2>8. On(Color(h, n, BLACK), DOMAIN t0.h)
      BY <2>1, <2>6, ColorIn
    <2>9. OfTree(Res(s), t0)
      <3> HIDE DEF Res
      <3> QED BY <2>6, <2>7, <2>8 DEF OfTree
    <2> QED BY <1>0, <2>5, <2>9
  <1>2. next \in [S -> S] /\ res \in [S -> R]
    <2> HIDE DEF S, Next, Res, R
    <2> QED BY <1>1
  <1>3. PICK f : Follows(f, S, R, next, stop, res)
    <2> HIDE DEF S, R, next, stop, res
    <2> QED BY <1>2, TailRecursion
  <1>4. f = [s \in S |-> f[s]] /\ \A s \in S : f[s] = IF Ends(s) THEN Res(s) ELSE f[Next(s)]
    <2> HIDE DEF Res, Next, Ends, S, R
    <2> QED BY <1>3 DEF Follows
  <1>5. f = [s \in S |-> IF Ends(s) THEN Res(s) ELSE f[Next(s)]]
    <2> HIDE DEF S, Next, Ends, Res
    <2> QED BY <1>4
  <1>6. f = [s \in S |-> IF s.at = s.t.h[lev].mid \/ s.t.h[s.at].color # BLACK
                         THEN [s.t EXCEPT !.h = Color(@, s.at, BLACK)] ELSE f[DelRound(s.t, lev, s.at)]]
    BY <1>5 DEF DelEnds
  <1> QED BY <1>6 DEF IsDeleting

\* One step of such a function.
DelOne(f, t0, lev) ==
  \A t : \A n \in DOMAIN t0.h : OfTree(t, t0) =>
     f[[t |-> t, at |-> n]] = IF DelEnds(t, lev, n) THEN [t EXCEPT !.h = Color(t.h, n, BLACK)] ELSE f[DelRound(t, lev, n)]

\* del_fixup is one function over all the trees of these nodes.
LEMMA DelFixupIs ==
  ASSUME NEW t0, IsHeap(t0.h), NEW lev \in DOMAIN t0.h
  PROVE  \E f : /\ \A n : DelFixup(t0, lev, n) = f[[t |-> t0, at |-> n]]
                /\ DelOne(f, t0, lev)
  <1> DEFINE g == CHOOSE e : IsDeleting(e, t0, lev)
  <1>1. IsDeleting(g, t0, lev)
    BY DeletingExists
  <1>2. \A n : DelFixup(t0, lev, n) = g[[t |-> t0, at |-> n]]
    BY DEF DelFixup, IsDeleting
  <1>3. PICK f : f = g
    OBVIOUS
  <1> HIDE DEF g
  <1>4. ASSUME NEW t, NEW n \in DOMAIN t0.h, OfTree(t, t0)
        PROVE  f[[t |-> t, at |-> n]] = IF DelEnds(t, lev, n) THEN [t EXCEPT !.h = Color(t.h, n, BLACK)] ELSE f[DelRound(t, lev, n)]
    <2>0. t \in TreeLike(t0)
      BY <1>4, TreeLikeIs DEF OfTree
    <2>1. PICK s \in [t : TreeLike(t0), at : DOMAIN t0.h] : s = [t |-> t, at |-> n]
      BY <2>0
    <2>2. s.t = t /\ s.at = n
      BY <2>1
    <2>3. f[s] = IF s.at = s.t.h[lev].mid \/ s.t.h[s.at].color # BLACK
                 THEN [s.t EXCEPT !.h = Color(s.t.h, s.at, BLACK)] ELSE f[DelRound(s.t, lev, s.at)]
      BY <1>1, <1>3 DEF IsDeleting
    <2> QED BY <2>1, <2>2, <2>3 DEF DelEnds
  <1>5. \A n : DelFixup(t0, lev, n) = f[[t |-> t0, at |-> n]]
    BY <1>2, <1>3
  <1>6. DelOne(f, t0, lev)
    BY <1>4 DEF DelOne
  <1> QED BY <1>5, <1>6

-----------------------------------------------------------------------------
(***************************************************************************)
(* The shape of a tree: U are its nodes, T what is under each of them, and *)
(* S what is under it in its level.  The middle son of d does not count.   *)
(***************************************************************************)
NoNode == -1

Mid(h, d, x)    == IF x = d THEN 0 ELSE h[x].mid
Son(h, d, x, s) == IF s = "mid" THEN Mid(h, d, x) ELSE h[x][s]

Wired(h, U, d) ==
  /\ IsHeap(h) /\ IsFiniteSet(DOMAIN h) /\ NoNode \notin DOMAIN h /\ U \subseteq DOMAIN h \ {0}
  /\ h[0]["left"] = 0 /\ h[0]["right"] = 0 /\ h[0].color = BLACK
  /\ \A x \in U \cup {0}, s \in Sides : Son(h, d, x, s) \in U \cup {0}
  /\ \A x \in U, s \in Around : h[x][s] # 0 => h[h[x][s]].parent = x
  /\ \A x \in U : h[x]["left"] = h[x]["right"] => h[x]["left"] = 0
  /\ \A x \in U \cup {0} : Mid(h, d, x) # 0 => h[Mid(h, d, x)].parent = 0
  /\ \A x, y \in U \cup {0} : Mid(h, d, x) = Mid(h, d, y) /\ Mid(h, d, x) # 0 => x = y

Bounded(h, U, T, d) ==
  /\ T \in [DOMAIN h -> SUBSET DOMAIN h] /\ T[0] = {}
  /\ \A x \in U : x \in T[x] /\ \A s \in Sides : T[Son(h, d, x, s)] \subseteq T[x] /\ x \notin T[Son(h, d, x, s)]

Exact(h, U, T, d) ==
  \A x \in U : /\ T[x] = {x} \cup T[h[x]["left"]] \cup T[Mid(h, d, x)] \cup T[h[x]["right"]]
               /\ \A s, q \in Sides : s # q => T[Son(h, d, x, s)] \cap T[Son(h, d, x, q)] = {}

Levels(h, U, S) ==
  /\ S \in [DOMAIN h -> SUBSET DOMAIN h] /\ S[0] = {}
  /\ \A x \in U : S[x] = {x} \cup S[h[x]["left"]] \cup S[h[x]["right"]]

Sorted(h, U, S, d) ==
  \A x \in U \ {d} : /\ \A y \in S[h[x]["left"]] \ {d} : h[y].cbyte < h[x].cbyte
                     /\ \A y \in S[h[x]["right"]] \ {d} : h[y].cbyte > h[x].cbyte

Loose(h, U, T, S, d) == Wired(h, U, d) /\ Bounded(h, U, T, d) /\ Levels(h, U, S) /\ Sorted(h, U, S, d)
Shape(h, U, T, S, d) == Loose(h, U, T, S, d) /\ Exact(h, U, T, d)

LEMMA NodeIn ==
  ASSUME NEW h, NEW U, NEW d, Wired(h, U, d)
  PROVE  /\ \A x \in U : x \in DOMAIN h /\ x # 0
         /\ 0 \in DOMAIN h /\ 0 \notin U
         /\ \A x \in U \cup {0}, s \in Sides : Son(h, d, x, s) \in DOMAIN h
  BY DEF Wired, IsHeap

LEMMA SonIs ==
  ASSUME NEW h, NEW d, NEW x
  PROVE  /\ Son(h, d, x, "left") = h[x]["left"] /\ Son(h, d, x, "right") = h[x]["right"] /\ Son(h, d, x, "mid") = Mid(h, d, x)
         /\ \A s \in Around : Son(h, d, x, s) = h[x][s] /\ s \in Sides /\ s # "mid"
         /\ Sides = Around \cup {"mid"}
  BY DEF Son, Around, Sides

\* What holds at a node if it does at its sons holds at every node.
LEMMA NodeInduction ==
  ASSUME NEW h, NEW U, NEW T, NEW d, Wired(h, U, d), Bounded(h, U, T, d), NEW W,
         \A x \in U : (\A s \in Sides : Son(h, d, x, s) \in U => Son(h, d, x, s) \in W) => x \in W
  PROVE  U \subseteq W
  <1> SUFFICES ASSUME U \ W # {} PROVE FALSE
    OBVIOUS
  <1>1. \A x \in U : IsFiniteSet(T[x]) /\ Cardinality(T[x]) \in Nat
    <2> TAKE x \in U
    <2>1. T[x] \subseteq DOMAIN h /\ IsFiniteSet(DOMAIN h)
      BY NodeIn DEF Bounded, Wired
    <2> QED BY <2>1, FS_Subset, FS_CardinalityType
  <1>2. PICK x \in U \ W : \A y \in U \ W : Cardinality(T[x]) <= Cardinality(T[y])
    <2> DEFINE C == {Cardinality(T[y]) : y \in U \ W}
    <2>1. C \subseteq Nat /\ C # {}
      BY <1>1
    <2>2. PICK c \in C : \A e \in C : c <= e
      <3> HIDE DEF C
      <3> QED BY <2>1, LeastNumber
    <2> QED BY <2>2
  <1>3. ASSUME NEW s \in Sides, Son(h, d, x, s) \in U PROVE Son(h, d, x, s) \in W
    <2>1. PICK y : y = Son(h, d, x, s)
      OBVIOUS
    <2>2. T[y] \subseteq T[x] /\ x \in T[x] /\ x \notin T[y]
      BY <2>1 DEF Bounded
    <2>3. Cardinality(T[y]) < Cardinality(T[x]) /\ Cardinality(T[y]) \in Nat /\ Cardinality(T[x]) \in Nat
      BY <1>1, <2>2, FewerMembers
    <2>4. ~(Cardinality(T[x]) <= Cardinality(T[y]))
      BY <2>3
    <2> QED BY <1>2, <1>3, <2>1, <2>4
  <1> QED BY <1>2, <1>3

LEMMA SonCases ==
  ASSUME NEW h, NEW U, NEW d, Wired(h, U, d), NEW x \in U \cup {0}, NEW s \in Sides
  PROVE  Son(h, d, x, s) = 0 \/ Son(h, d, x, s) \in U
  BY DEF Wired

\* What is under a node is of the tree, and what is under that is under the node.
LEMMA UnderIs ==
  ASSUME NEW h, NEW U, NEW T, NEW S, NEW d, Shape(h, U, T, S, d)
  PROVE  \A x \in U : T[x] \subseteq U /\ \A y \in T[x] : T[y] \subseteq T[x]
  <1> DEFINE W == {x \in U : T[x] \subseteq U /\ \A y \in T[x] : T[y] \subseteq T[x]}
  <1>1. Wired(h, U, d) /\ Bounded(h, U, T, d) /\ Exact(h, U, T, d)
    BY DEF Shape, Loose
  <1>2. ASSUME NEW x \in U, \A s \in Sides : Son(h, d, x, s) \in U => Son(h, d, x, s) \in W PROVE x \in W
    <2>1. \A s \in Sides : LET y == Son(h, d, x, s) IN T[y] \subseteq U /\ \A z \in T[y] : T[z] \subseteq T[y]
      BY <1>1, <1>2, SonCases DEF Bounded
    <2>2. \A y \in T[x] : y = x \/ \E s \in Sides : y \in T[Son(h, d, x, s)]
      BY <1>1, SonIs DEF Exact, Sides
    <2>3. \A s \in Sides : T[Son(h, d, x, s)] \subseteq T[x]
      BY <1>1 DEF Bounded
    <2> QED BY <2>1, <2>2, <2>3
  <1>3. U \subseteq W
    <2> HIDE DEF W
    <2> QED BY <1>1, <1>2, NodeInduction
  <1> QED BY <1>3

\* The same in a level, which is part of what is under its root.
LEMMA LevelIs ==
  ASSUME NEW h, NEW U, NEW T, NEW S, NEW d, Loose(h, U, T, S, d)
  PROVE  \A x \in U : /\ x \in S[x] /\ S[x] \subseteq U /\ S[x] \subseteq T[x] /\ \A y \in S[x] : S[y] \subseteq S[x]
                      /\ \A y \in S[x] : y = x \/ \E p \in S[x], s \in Around : y = h[p][s]
  <1> DEFINE W == {x \in U : /\ S[x] \subseteq U /\ S[x] \subseteq T[x] /\ \A y \in S[x] : S[y] \subseteq S[x]
                             /\ \A y \in S[x] : y = x \/ \E p \in S[x], s \in Around : y = h[p][s]}
  <1>1. Wired(h, U, d) /\ Bounded(h, U, T, d) /\ Levels(h, U, S)
    BY DEF Loose
  <1>2. ASSUME NEW x \in U, \A s \in Sides : Son(h, d, x, s) \in U => Son(h, d, x, s) \in W PROVE x \in W
    <2>1. \A s \in Around : h[x][s] = 0 \/ h[x][s] \in W
      BY <1>1, <1>2, SonCases, SonIs
    <2>2. S[x] = {x} \cup S[h[x]["left"]] \cup S[h[x]["right"]] /\ S[0] = {} /\ x \in T[x]
      BY <1>1 DEF Levels, Bounded
    <2>3. \A s \in Around : T[h[x][s]] \subseteq T[x]
      BY <1>1, SonIs DEF Bounded
    <2>4. \A s \in Around : S[h[x][s]] \subseteq U /\ S[h[x][s]] \subseteq T[x] /\ \A z \in S[h[x][s]] : S[z] \subseteq S[h[x][s]]
      BY <2>1, <2>2, <2>3
    <2>5. \A y \in S[x] : y = x \/ \E s \in Around : y \in S[h[x][s]]
      BY <2>2 DEF Around
    <2>6. \A s \in Around : S[h[x][s]] \subseteq S[x]
      BY <2>2 DEF Around
    <2>7. S[x] \subseteq U /\ S[x] \subseteq T[x] /\ \A y \in S[x] : S[y] \subseteq S[x]
      BY <2>2, <2>4, <2>5, <2>6
    <2>8. ASSUME NEW y \in S[x], y # x PROVE \E p \in S[x], s \in Around : y = h[p][s]
      <3>1. PICK s \in Around : y \in S[h[x][s]]
        BY <2>5, <2>8
      <3>2. h[x][s] \in W
        BY <2>1, <2>2, <3>1
      <3>3. y = h[x][s] \/ \E p \in S[h[x][s]], q \in Around : y = h[p][q]
        BY <3>1, <3>2
      <3>4. x \in S[x] /\ S[h[x][s]] \subseteq S[x]
        BY <2>2, <2>6
      <3> QED BY <3>3, <3>4
    <2> QED BY <2>7, <2>8
  <1>3. U \subseteq W
    <2> HIDE DEF W
    <2> QED BY <1>1, <1>2, NodeInduction
  <1>4. \A x \in U : x \in S[x]
    BY <1>1 DEF Levels
  <1> QED BY <1>3, <1>4

\* A node hangs in one place.
LEMMA OneParent ==
  ASSUME NEW h, NEW U, NEW T, NEW S, NEW d, Loose(h, U, T, S, d), NEW x \in U \cup {0}, NEW y \in U \cup {0}, NEW s \in Sides, NEW q \in Sides,
         Son(h, d, x, s) = Son(h, d, y, q), Son(h, d, x, s) # 0
  PROVE  x = y /\ s = q
  <1>1. Wired(h, U, d) /\ Bounded(h, U, T, d) /\ Levels(h, U, S) /\ Sorted(h, U, S, d)
    BY DEF Loose
  <1>2. (s # "mid" => x \in U) /\ (q # "mid" => y \in U)
    BY <1>1, SonIs DEF Wired, Sides
  <1>3. PICK c : c = Son(h, d, x, s) /\ c \in U
    BY <1>1, SonCases
  <1>4. CASE s = "mid" /\ q = "mid"
    BY <1>1, <1>4, SonIs DEF Wired
  <1>5. CASE s # "mid" /\ q = "mid"
    <2>1. h[c].parent = x /\ x # 0
      BY <1>1, <1>2, <1>3, <1>5, SonIs DEF Wired
    <2>2. h[c].parent = 0
      BY <1>1, <1>3, <1>5, SonIs DEF Wired
    <2> QED BY <2>1, <2>2
  <1>6. CASE s = "mid" /\ q # "mid"
    <2>1. h[c].parent = y /\ y # 0
      BY <1>1, <1>2, <1>3, <1>6, SonIs DEF Wired
    <2>2. h[c].parent = 0
      BY <1>1, <1>3, <1>6, SonIs DEF Wired
    <2> QED BY <2>1, <2>2
  <1>7. CASE s # "mid" /\ q # "mid"
    <2>1. h[c].parent = x /\ h[c].parent = y /\ x = y /\ x \in U
      BY <1>1, <1>2, <1>3, <1>7, SonIs DEF Wired
    <2>2. ASSUME s # q PROVE FALSE
      <3>1. h[x]["left"] = c /\ h[x]["right"] = c
        BY <2>1, <2>2, <1>3, <1>7, SonIs DEF Sides, Around
      <3> QED BY <1>1, <1>3, <2>1, <3>1, NodeIn DEF Wired
    <2> QED BY <2>1, <2>2
  <1> QED BY <1>4, <1>5, <1>6, <1>7

-----------------------------------------------------------------------------
\* A node that is under z hangs under z, unless it is z.
LEMMA ParentUnder ==
  ASSUME NEW h, NEW U, NEW T, NEW S, NEW d, Shape(h, U, T, S, d), NEW x \in U, NEW s \in Sides, Son(h, d, x, s) # 0
  PROVE  \A z \in U : Son(h, d, x, s) \in T[z] /\ Son(h, d, x, s) # z => x \in T[z]
  <1> DEFINE W == {z \in U : Son(h, d, x, s) \in T[z] /\ Son(h, d, x, s) # z => x \in T[z]}
  <1>1. Loose(h, U, T, S, d) /\ Wired(h, U, d) /\ Bounded(h, U, T, d) /\ Exact(h, U, T, d)
    BY DEF Shape, Loose
  <1>2. PICK y : y = Son(h, d, x, s)
    OBVIOUS
  <1>3. ASSUME NEW z \in U, \A q \in Sides : Son(h, d, z, q) \in U => Son(h, d, z, q) \in W, y \in T[z], y # z PROVE x \in T[z]
    <2>1. PICK q \in Sides : y \in T[Son(h, d, z, q)]
      BY <1>1, <1>3, SonIs DEF Exact, Sides
    <2>2. Son(h, d, z, q) # 0
      BY <1>1, <2>1 DEF Bounded
    <2>3. Son(h, d, z, q) \in W
      BY <1>1, <1>3, <2>2, SonCases
    <2>4. y = Son(h, d, z, q) => x = z
      <3> SUFFICES ASSUME Son(h, d, x, s) = Son(h, d, z, q) PROVE x = z
        BY <1>2
      <3> QED BY <1>1, OneParent
    <2>5. y # Son(h, d, z, q) => x \in T[Son(h, d, z, q)]
      BY <1>2, <2>1, <2>3
    <2>6. z \in T[z] /\ T[Son(h, d, z, q)] \subseteq T[z]
      BY <1>1 DEF Bounded
    <2> QED BY <2>4, <2>5, <2>6
  <1>4. \A z \in U : (\A q \in Sides : Son(h, d, z, q) \in U => Son(h, d, z, q) \in W) => z \in W
    BY <1>2, <1>3
  <1>5. U \subseteq W
    <2> HIDE DEF W
    <2> QED BY <1>1, <1>4, NodeInduction
  <1> QED BY <1>5

LEMMA TwoSons ==
  ASSUME NEW h, NEW U, NEW T, NEW S, NEW d, Loose(h, U, T, S, d), NEW p \in U, h[p]["right"] # 0
  PROVE  h[p]["left"] # h[p]["right"]
  <1> SUFFICES ASSUME h[p]["left"] = h[p]["right"] PROVE FALSE
    OBVIOUS
  <1>1. "left" \in Sides /\ "right" \in Sides /\ Son(h, d, p, "left") = Son(h, d, p, "right") /\ Son(h, d, p, "left") # 0
    BY SonIs DEF Sides
  <1>2. "left" = "right"
    BY <1>1, OneParent
  <1> QED BY <1>2

\* So in a level: a node of it that is not its root hangs in it from its parent.
LEMMA ParentInLevel ==
  ASSUME NEW h, NEW U, NEW T, NEW S, NEW d, Loose(h, U, T, S, d), NEW z \in U, NEW y \in S[z], y # z
  PROVE  /\ h[y].parent \in S[z] /\ h[y].parent \in U /\ Hangs(h, y) \in Around /\ h[h[y].parent][Hangs(h, y)] = y
         /\ h[y].parent # 0
  <1>1. Wired(h, U, d) /\ S[z] \subseteq U
    BY LevelIs DEF Loose
  <1>2. PICK p \in S[z], s \in Around : y = h[p][s]
    BY LevelIs
  <1>3. y \in U /\ p \in U /\ y # 0 /\ p # 0
    BY <1>1, <1>2, NodeIn
  <1>4. h[y].parent = p
    BY <1>1, <1>2, <1>3 DEF Wired
  <1>5. Hangs(h, y) = s
    <2>1. CASE s = "left"
      BY <1>2, <1>4, <2>1 DEF Hangs
    <2>2. CASE s = "right"
      <3>1. h[p]["left"] # y
        BY <1>2, <1>3, <2>2, TwoSons
      <3> QED BY <1>4, <2>2, <3>1 DEF Hangs
    <2> QED BY <2>1, <2>2 DEF Around
  <1> QED BY <1>2, <1>3, <1>4, <1>5

\* A son of a node hangs from it.
LEMMA HangsIs ==
  ASSUME NEW h, NEW U, NEW T, NEW S, NEW d, Loose(h, U, T, S, d), NEW p \in U, NEW s \in Around, h[p][s] # 0
  PROVE  h[p][s] \in U /\ h[h[p][s]].parent = p /\ Hangs(h, h[p][s]) = s /\ h[p][s] # p
  <1>1. Wired(h, U, d) /\ Bounded(h, U, T, d)
    BY DEF Loose
  <1>2. PICK y : y = h[p][s]
    OBVIOUS
  <1>3. y \in U /\ h[y].parent = p
    BY <1>1, <1>2, SonCases, SonIs DEF Wired
  <1>4. Hangs(h, y) = s
    <2>1. CASE s = "left"
      BY <1>2, <1>3, <2>1 DEF Hangs
    <2>2. CASE s = "right"
      <3>1. h[p]["left"] # y
        BY <1>2, <1>3, <2>2, TwoSons
      <3> QED BY <1>3, <2>2, <3>1 DEF Hangs
    <2> QED BY <2>1, <2>2 DEF Around
  <1>5. y # p
    BY <1>1, <1>2, <1>3, SonIs DEF Bounded
  <1> QED BY <1>2, <1>3, <1>4, <1>5

\* The root of a level has no parent, and only it.
LEMMA RootIs ==
  ASSUME NEW h, NEW U, NEW T, NEW S, NEW d, Loose(h, U, T, S, d), NEW o \in U \cup {0}, NEW n \in S[Mid(h, d, o)]
  PROVE  n \in U /\ Mid(h, d, o) \in U /\ (h[n].parent = 0 <=> n = Mid(h, d, o))
  <1>1. Wired(h, U, d) /\ Levels(h, U, S)
    BY DEF Loose
  <1>2. Mid(h, d, o) # 0
    BY <1>1 DEF Levels
  <1>3. Mid(h, d, o) \in U
    BY <1>1, <1>2, SonIs, SonCases
  <1>4. n \in U
    BY <1>3, LevelIs
  <1>5. n = Mid(h, d, o) => h[n].parent = 0
    BY <1>1, <1>2 DEF Wired
  <1>6. n # Mid(h, d, o) => h[n].parent # 0
    BY <1>3, ParentInLevel
  <1> QED BY <1>3, <1>4, <1>5, <1>6

\* What is under a node is in its level, or under the middle son of a node of it.
LEMMA Spread ==
  ASSUME NEW h, NEW U, NEW T, NEW S, NEW d, Shape(h, U, T, S, d)
  PROVE  \A x \in U : \A y \in T[x] : \E w \in S[x] : y = w \/ y \in T[Mid(h, d, w)]
  <1> DEFINE W == {x \in U : \A y \in T[x] : \E w \in S[x] : y = w \/ y \in T[Mid(h, d, w)]}
  <1>1. Loose(h, U, T, S, d) /\ Wired(h, U, d) /\ Bounded(h, U, T, d) /\ Levels(h, U, S) /\ Exact(h, U, T, d)
    BY DEF Shape, Loose
  <1>2. ASSUME NEW x \in U, \A s \in Sides : Son(h, d, x, s) \in U => Son(h, d, x, s) \in W, NEW y \in T[x]
        PROVE  \E w \in S[x] : y = w \/ y \in T[Mid(h, d, w)]
    <2>1. x \in S[x]
      BY <1>1, LevelIs
    <2>2. CASE y = x \/ y \in T[Mid(h, d, x)]
      BY <2>1, <2>2
    <2>3. CASE \E s \in Around : y \in T[h[x][s]]
      <3>1. PICK s \in Around : y \in T[h[x][s]]
        BY <2>3
      <3>2. h[x][s] # 0
        BY <1>1, <3>1 DEF Bounded
      <3>3. h[x][s] \in W
        BY <1>1, <1>2, <3>2, SonIs, SonCases
      <3>4. S[h[x][s]] \subseteq S[x]
        BY <1>1 DEF Levels, Around
      <3> QED BY <3>1, <3>3, <3>4
    <2> QED BY <1>1, <2>2, <2>3 DEF Exact, Around
  <1>3. U \subseteq W
    <2> HIDE DEF W
    <2>1. \A x \in U : (\A s \in Sides : Son(h, d, x, s) \in U => Son(h, d, x, s) \in W) => x \in W
      BY <1>2 DEF W
    <2> QED BY <1>1, <2>1, NodeInduction
  <1> QED BY <1>3

-----------------------------------------------------------------------------
(***************************************************************************)
(* A rotation in the level of lev keeps the shape.                         *)
(***************************************************************************)
Turning(h, U, T, S, d, lev, n, side) ==
  /\ Shape(h, U, T, S, d) /\ lev \in U \cup {0} /\ n \in S[Mid(h, d, lev)] /\ side \in Around /\ Upper(h, n, side) # 0
  /\ d \notin {n, Upper(h, n, side)}

\* The nodes of a rotation are others than each other.
TurnNodes(h, U, d, lev, n, side, up, inner) ==
  /\ up = Upper(h, n, side) /\ inner = Inner(h, n, side) /\ side \in Around /\ Other(side) \in Around /\ side # Other(side)
  /\ n \in U /\ up \in U /\ inner \in U \cup {0} /\ up # n /\ inner # n /\ inner # up
  /\ h[n][Other(side)] = up /\ h[up][side] = inner /\ h[up].parent = n /\ (inner # 0 => h[inner].parent = up)
  /\ h[n].parent \notin {n, up} /\ h[n].parent \in U \cup {0} /\ (h[n].parent = 0 => lev # n /\ lev # d /\ Mid(h, d, lev) = n)
  /\ h[n][side] \notin {n, up} /\ (h[n][side] = inner => inner = 0)
  /\ h[up][Other(side)] \notin {n, up} /\ (h[up][Other(side)] = inner => inner = 0)

LEMMA TurnNodesAre ==
  ASSUME NEW h, NEW U, NEW T, NEW S, NEW d, NEW lev, NEW n, NEW side, Turning(h, U, T, S, d, lev, n, side)
  PROVE  \E up, inner : TurnNodes(h, U, d, lev, n, side, up, inner)
  <1>1. Shape(h, U, T, S, d) /\ lev \in U \cup {0} /\ n \in S[Mid(h, d, lev)] /\ side \in Around /\ Upper(h, n, side) # 0
    BY DEF Turning
  <1>2. Loose(h, U, T, S, d) /\ Wired(h, U, d) /\ Bounded(h, U, T, d) /\ Exact(h, U, T, d)
    BY <1>1 DEF Shape, Loose
  <1>3. PICK up, inner : up = Upper(h, n, side) /\ inner = Inner(h, n, side)
    OBVIOUS
  <1>4. Other(side) \in Around /\ side # Other(side) /\ side \in Sides /\ Other(side) \in Sides /\ side # "mid" /\ Other(side) # "mid"
    BY <1>1, OtherIs DEF Around
  <1>5. n \in U /\ Mid(h, d, lev) \in U /\ (h[n].parent = 0 <=> n = Mid(h, d, lev))
    BY <1>1, <1>2, RootIs
  <1>6. h[n][Other(side)] = up /\ h[up][side] = inner
    BY <1>3 DEF Upper, Inner
  <1>7. up \in U /\ h[up].parent = n /\ up # n
    BY <1>1, <1>2, <1>3, <1>4, <1>5, <1>6, HangsIs
  <1>8. inner # 0 => inner \in U /\ h[inner].parent = up /\ inner # up
    BY <1>1, <1>2, <1>4, <1>6, <1>7, HangsIs
  <1>9. 0 \notin U
    BY <1>2, NodeIn
  <1>10. \A z \in U : z \in T[z] /\ \A s \in Around : z \notin T[h[z][s]] /\ T[h[z][s]] \subseteq T[z]
    BY <1>2, SonIs DEF Bounded
  <1>11. inner # n
    BY <1>1, <1>4, <1>5, <1>6, <1>7, <1>10
  <1>12. h[up][Other(side)] # n /\ h[up][Other(side)] # up /\ h[n][side] # n
    BY <1>1, <1>4, <1>5, <1>6, <1>7, <1>10
  <1>13. h[n][side] # up
    <2> SUFFICES ASSUME h[n][side] = up PROVE FALSE
      OBVIOUS
    <2>1. h[n]["left"] = up /\ h[n]["right"] = up
      BY <1>1, <1>4, <1>6 DEF Around
    <2> QED BY <1>2, <1>5, <1>7, <1>9, <2>1, TwoSons
  <1>14. h[up][Other(side)] = inner => inner = 0
    <2> SUFFICES ASSUME h[up][Other(side)] = inner, inner # 0 PROVE FALSE
      OBVIOUS
    <2>1. h[up]["left"] = inner /\ h[up]["right"] = inner
      BY <1>1, <1>4, <1>6 DEF Around
    <2> QED BY <1>2, <1>7, <2>1, TwoSons
  <1>15. h[n][side] = inner => inner = 0
    BY <1>2, <1>5, <1>7, <1>8, <1>1, HangsIs
  <1>16. h[n].parent # 0 => h[n].parent \in U /\ Hangs(h, n) \in Around /\ h[h[n].parent][Hangs(h, n)] = n
    BY <1>1, <1>2, <1>5, ParentInLevel
  <1>17. h[n].parent # n /\ h[n].parent # up
    BY <1>5, <1>6, <1>7, <1>9, <1>10, <1>16, <1>4
  <1>18. h[n].parent = 0 => lev # n /\ lev # d /\ Mid(h, d, lev) = n
    <2>1. lev = d => Mid(h, d, lev) = 0
      BY DEF Mid
    <2>2. lev \in U => lev \notin T[Mid(h, d, lev)]
      BY <1>2, SonIs DEF Bounded, Sides
    <2> QED BY <1>5, <1>9, <1>10, <2>1, <2>2
  <1> QED BY <1>1, <1>3, <1>4, <1>5, <1>6, <1>7, <1>8, <1>9, <1>11, <1>12, <1>13, <1>14, <1>15, <1>16, <1>17, <1>18 DEF TurnNodes

\* Where n hangs.
LEMMA HookIs ==
  ASSUME NEW h, NEW U, NEW T, NEW S, NEW d, NEW lev, NEW n, NEW side, Turning(h, U, T, S, d, lev, n, side),
         NEW x \in U \cup {0}, NEW s \in Sides, x # d \/ s # "mid"
  PROVE  Hook(h, lev, n, x, s) <=> Son(h, d, x, s) = n
  <1>1. Shape(h, U, T, S, d) /\ lev \in U \cup {0} /\ n \in S[Mid(h, d, lev)]
    BY DEF Turning
  <1>2. Loose(h, U, T, S, d) /\ Wired(h, U, d)
    BY <1>1 DEF Shape, Loose
  <1>3. n \in U /\ Mid(h, d, lev) \in U /\ (h[n].parent = 0 <=> n = Mid(h, d, lev)) /\ n # 0
    BY <1>1, <1>2, RootIs, NodeIn
  <1>4. CASE h[n].parent = 0
    <2>1. Son(h, d, lev, "mid") = n /\ "mid" \in Sides
      BY <1>3, <1>4, SonIs DEF Sides
    <2>2. Son(h, d, x, s) = n => x = lev /\ s = "mid"
      <3> SUFFICES ASSUME Son(h, d, x, s) = Son(h, d, lev, "mid"), Son(h, d, x, s) # 0 PROVE x = lev /\ s = "mid"
        BY <1>3, <2>1
      <3> QED BY <1>1, <1>2, <2>1, OneParent
    <2> QED BY <1>4, <2>1, <2>2 DEF Hook
  <1>5. CASE h[n].parent # 0
    <2>1. h[n].parent \in U /\ Hangs(h, n) \in Around /\ h[h[n].parent][Hangs(h, n)] = n
      BY <1>1, <1>2, <1>3, <1>5, ParentInLevel
    <2>2. Son(h, d, h[n].parent, Hangs(h, n)) = n /\ Hangs(h, n) \in Sides
      BY <2>1 DEF Son, Around, Sides
    <2>3. Son(h, d, x, s) = n => x = h[n].parent /\ s = Hangs(h, n)
      <3> SUFFICES ASSUME Son(h, d, x, s) = Son(h, d, h[n].parent, Hangs(h, n)), Son(h, d, x, s) # 0
                   PROVE x = h[n].parent /\ s = Hangs(h, n)
        BY <1>3, <2>2
      <3> QED BY <1>2, <2>1, <2>2, OneParent
    <2> QED BY <1>5, <2>2, <2>3 DEF Hook
  <1> QED BY <1>4, <1>5

\* The sons after a rotation.
LEMMA TurnSons ==
  ASSUME NEW h, NEW U, NEW T, NEW S, NEW d, NEW lev, NEW n, NEW side, NEW g, Turning(h, U, T, S, d, lev, n, side),
         Turned(h, g, lev, n, side), NEW up, NEW inner, TurnNodes(h, U, d, lev, n, side, up, inner)
  PROVE  \A x \in U \cup {0}, s \in Sides :
           Son(g, d, x, s) = IF x = n /\ s = Other(side) THEN inner ELSE IF x = up /\ s = side THEN n
                             ELSE IF Son(h, d, x, s) = n THEN up ELSE Son(h, d, x, s)
  <1> SUFFICES ASSUME NEW x \in U \cup {0}, NEW s \in Sides
               PROVE  Son(g, d, x, s) = IF x = n /\ s = Other(side) THEN inner ELSE IF x = up /\ s = side THEN n
                             ELSE IF Son(h, d, x, s) = n THEN up ELSE Son(h, d, x, s)
    OBVIOUS
  <1>1. Wired(h, U, d) /\ x \in DOMAIN h /\ n # 0
    BY NodeIn DEF Turning, Shape, Loose, TurnNodes, Wired, IsHeap
  <1>2. CASE x = d /\ s = "mid"
    <2>1. Son(g, d, x, s) = 0 /\ Son(h, d, x, s) = 0
      BY <1>2 DEF Son, Mid
    <2> QED BY <1>1, <1>2, <2>1, OtherIs DEF TurnNodes
  <1>3. CASE x # d \/ s # "mid"
    <2>1. Son(g, d, x, s) = g[x][s] /\ Son(h, d, x, s) = h[x][s]
      BY <1>3 DEF Son, Mid
    <2>2. Hook(h, lev, n, x, s) <=> Son(h, d, x, s) = n
      BY <1>3, HookIs
    <2>3. g[x][s] = IF x = n /\ s = Other(side) THEN inner ELSE IF x = up /\ s = side THEN n
                    ELSE IF Hook(h, lev, n, x, s) THEN up ELSE h[x][s]
      BY <1>1 DEF Turned, TurnNodes
    <2> QED BY <2>1, <2>2, <2>3
  <1> QED BY <1>2, <1>3

-----------------------------------------------------------------------------
LEMMA TurnWired ==
  ASSUME NEW h, NEW U, NEW T, NEW S, NEW d, NEW lev, NEW n, NEW side, NEW g, Turning(h, U, T, S, d, lev, n, side),
         Turned(h, g, lev, n, side), g[0].color = BLACK
  PROVE  Wired(g, U, d)
  <1>1. PICK up, inner : TurnNodes(h, U, d, lev, n, side, up, inner)
    BY TurnNodesAre
  <1>2. Wired(h, U, d) /\ Loose(h, U, T, S, d)
    BY DEF Turning, Shape, Loose
  <1>3. \A x \in U \cup {0}, s \in Sides :
           Son(g, d, x, s) = IF x = n /\ s = Other(side) THEN inner ELSE IF x = up /\ s = side THEN n
                             ELSE IF Son(h, d, x, s) = n THEN up ELSE Son(h, d, x, s)
    BY <1>1, TurnSons
  <1>4. \A x \in U \cup {0}, s \in Around : g[x][s] = Son(g, d, x, s) /\ h[x][s] = Son(h, d, x, s) /\ s \in Sides
    BY DEF Son, Around, Sides
  <1>5. 0 \notin U /\ n \in U /\ up \in U /\ inner \in U \cup {0} /\ \A x \in U \cup {0} : x \in DOMAIN h
    BY <1>1, <1>2, NodeIn DEF TurnNodes
  <1>6. g[0]["left"] = 0 /\ g[0]["right"] = 0
    <2>1. h[0]["left"] = 0 /\ h[0]["right"] = 0
      BY <1>2 DEF Wired
    <2>2. Son(g, d, 0, "left") = 0 /\ Son(g, d, 0, "right") = 0
      BY <1>3, <1>5, <2>1, SonIs DEF Sides
    <2> QED BY <2>2, SonIs
  <1>7. \A x \in U \cup {0}, s \in Sides : Son(g, d, x, s) \in U \cup {0}
    BY <1>2, <1>3, <1>5, SonCases
  <1>8. \A y \in U : g[y].parent = (IF y = n THEN up ELSE IF y = up THEN h[n].parent ELSE IF y = inner THEN n ELSE h[y].parent)
    BY <1>1, <1>5 DEF Turned, TurnNodes
  <1>9. ASSUME NEW x \in U, NEW s \in Around, g[x][s] # 0 PROVE g[g[x][s]].parent = x
    <2>1. CASE x = n /\ s = Other(side)
      BY <1>1, <1>3, <1>4, <1>5, <1>8, <1>9, <2>1 DEF TurnNodes
    <2>2. CASE x = up /\ s = side
      BY <1>1, <1>3, <1>4, <1>5, <1>8, <2>2 DEF TurnNodes
    <2>3. CASE ~(x = n /\ s = Other(side)) /\ ~(x = up /\ s = side) /\ h[x][s] = n
      <3>1. h[n].parent = x
        BY <1>2, <1>5, <2>3 DEF Wired
      <3> QED BY <1>1, <1>3, <1>4, <1>5, <1>8, <2>3, <3>1 DEF TurnNodes
    <2>4. CASE ~(x = n /\ s = Other(side)) /\ ~(x = up /\ s = side) /\ h[x][s] # n
      <3>1. PICK c : c = h[x][s] /\ c = g[x][s] /\ c # 0 /\ c # n /\ h[c].parent = x /\ c \in U
        BY <1>2, <1>3, <1>4, <1>5, <1>7, <1>9, <2>4 DEF Wired
      <3>2. c # up
        <4> SUFFICES ASSUME c = up PROVE FALSE
          OBVIOUS
        <4>1. x = n /\ s = side
          BY <1>1, <2>4, <3>1, OtherIs DEF TurnNodes
        <4> QED BY <1>1, <3>1, <4>1 DEF TurnNodes
      <3>3. c # inner
        <4> SUFFICES ASSUME c = inner PROVE FALSE
          OBVIOUS
        <4>1. x = up /\ s = Other(side)
          BY <1>1, <2>4, <3>1, OtherIs DEF TurnNodes
        <4> QED BY <1>1, <3>1, <4>1 DEF TurnNodes
      <3> QED BY <1>8, <3>1, <3>2, <3>3
    <2> QED BY <2>1, <2>2, <2>3, <2>4
  <1>10. \A x \in U \cup {0} : Mid(g, d, x) = IF Mid(h, d, x) = n THEN up ELSE Mid(h, d, x)
    <2> TAKE x \in U \cup {0}
    <2>1. Son(g, d, x, "mid") = IF Son(h, d, x, "mid") = n THEN up ELSE Son(h, d, x, "mid")
      BY <1>1, <1>3, OtherIs DEF Sides, TurnNodes
    <2> QED BY <2>1, SonIs
  <1>11. ASSUME NEW x \in U \cup {0}, Mid(h, d, x) # 0 PROVE Mid(h, d, x) # up /\ Mid(h, d, x) # inner /\ h[Mid(h, d, x)].parent = 0
    BY <1>1, <1>2, <1>5, <1>11 DEF Wired, TurnNodes
  <1>12. ASSUME NEW x \in U \cup {0}, Mid(g, d, x) # 0 PROVE g[Mid(g, d, x)].parent = 0
    <2>1. Mid(h, d, x) # 0 /\ Mid(h, d, x) \in U
      BY <1>2, <1>5, <1>10, <1>12, SonIs, SonCases
    <2>2. CASE Mid(h, d, x) = n
      BY <1>1, <1>5, <1>8, <1>10, <1>11, <2>1, <2>2 DEF TurnNodes
    <2>3. CASE Mid(h, d, x) # n
      BY <1>8, <1>10, <1>11, <2>1, <2>3
    <2> QED BY <2>2, <2>3
  <1>13. ASSUME NEW x \in U \cup {0}, NEW y \in U \cup {0}, Mid(g, d, x) = Mid(g, d, y), Mid(g, d, x) # 0 PROVE x = y
    <2>1. Mid(h, d, x) # 0 /\ Mid(h, d, y) # 0
      BY <1>5, <1>10, <1>13
    <2>2. Mid(h, d, x) = Mid(h, d, y)
      BY <1>10, <1>11, <1>13, <2>1
    <2> QED BY <1>2, <2>1, <2>2 DEF Wired
  <1>14. IsHeap(g) /\ IsFiniteSet(DOMAIN g) /\ NoNode \notin DOMAIN g /\ U \subseteq DOMAIN g \ {0}
    BY <1>2 DEF Turned, Wired
  <1>15. ASSUME NEW x \in U, g[x]["left"] = g[x]["right"], g[x]["left"] # 0 PROVE FALSE
    <2>1. PICK s : s \in Around /\ g[x][s] = g[x][Other(s)] /\ g[x][s] # 0 /\ Other(s) \in Around /\ s # Other(s) /\ (x = n => s = side) /\ (x = up => s = side)
      <3>1. g[x][side] = g[x][Other(side)] /\ g[x][side] # 0 /\ side \in Around /\ Other(side) \in Around /\ side # Other(side)
        BY <1>1, <1>15 DEF TurnNodes, Around, Other
      <3> QED BY <3>1
    <2>2. /\ g[x][Other(s)] = IF x = n THEN inner ELSE IF h[x][Other(s)] = n THEN up ELSE h[x][Other(s)]
          /\ g[x][s] = IF x = up THEN n ELSE IF h[x][s] = n THEN up ELSE h[x][s]
      BY <1>1, <1>3, <1>4, <2>1 DEF TurnNodes
    <2>3. CASE x = n
      BY <1>1, <2>1, <2>2, <2>3 DEF TurnNodes
    <2>4. CASE x = up
      BY <1>1, <2>1, <2>2, <2>4 DEF TurnNodes
    <2>5. CASE x \notin {n, up}
      <3>1. h[x][s] # up /\ h[x][Other(s)] # up
        BY <1>1, <1>2, <1>5, <2>1, <2>5 DEF Wired, TurnNodes
      <3>2. h[x][s] = h[x][Other(s)] /\ h[x][s] # 0
        BY <1>5, <2>1, <2>2, <2>5, <3>1
      <3>3. h[x]["left"] = h[x]["right"] /\ h[x]["left"] # 0
        BY <2>1, <3>2 DEF Around, Other
      <3> QED BY <1>2, <3>3 DEF Wired
    <2> QED BY <2>3, <2>4, <2>5
  <1> QED BY <1>6, <1>7, <1>9, <1>12, <1>13, <1>14, <1>15 DEF Wired

\* What is under the nodes then.
TurnT(T, h, d, n, side, up, inner) == [T EXCEPT ![up] = T[n], ![n] = {n} \cup T[h[n][side]] \cup T[Mid(h, d, n)] \cup T[inner]]
TurnS(S, h, n, side, up, inner) == [S EXCEPT ![up] = S[n], ![n] = {n} \cup S[h[n][side]] \cup S[inner]]

LEMMA TwoSet ==
  ASSUME NEW D, NEW T \in [D -> SUBSET D], NEW n \in D, NEW up \in D, n # up, NEW A \in SUBSET D, NEW B \in SUBSET D, NEW R, R = [T EXCEPT ![up] = A, ![n] = B]
  PROVE  R \in [D -> SUBSET D] /\ R[up] = A /\ R[n] = B /\ \A x \in D : x \notin {n, up} => R[x] = T[x]
  <1>1. PICK Q : Q = [T EXCEPT ![up] = A]
    OBVIOUS
  <1>2. Q \in [D -> SUBSET D] /\ Q[up] = A /\ \A x \in D : x # up => Q[x] = T[x]
    BY <1>1
  <1>3. R = [Q EXCEPT ![n] = B]
    BY <1>1
  <1> QED BY <1>2, <1>3

LEMMA TurnUnder ==
  ASSUME NEW h, NEW U, NEW T, NEW S, NEW d, NEW lev, NEW n, NEW side, NEW g, Turning(h, U, T, S, d, lev, n, side),
         Turned(h, g, lev, n, side), g[0].color = BLACK,
         NEW up, NEW inner, TurnNodes(h, U, d, lev, n, side, up, inner), NEW R, R = TurnT(T, h, d, n, side, up, inner)
  PROVE  /\ Bounded(g, U, R, d) /\ Exact(g, U, R, d)
         /\ R[up] = T[n] /\ R[n] \subseteq T[n] /\ (\A x \in DOMAIN h : x \notin {n, up} => R[x] = T[x])
         /\ \A x \in U \cup {0} : R[Mid(g, d, x)] = T[Mid(h, d, x)]
  <1>1. Wired(h, U, d) /\ Loose(h, U, T, S, d) /\ Bounded(h, U, T, d) /\ Exact(h, U, T, d)
    BY DEF Turning, Shape, Loose
  <1>2. \A x \in U \cup {0}, s \in Sides :
           Son(g, d, x, s) = IF x = n /\ s = Other(side) THEN inner ELSE IF x = up /\ s = side THEN n
                             ELSE IF Son(h, d, x, s) = n THEN up ELSE Son(h, d, x, s)
    BY TurnSons
  <1>3. /\ 0 \notin U /\ n \in U /\ up \in U /\ inner \in U \cup {0} /\ n # up /\ inner # n /\ inner # up
        /\ \A x \in U \cup {0} : x \in DOMAIN h
    BY <1>1, NodeIn DEF TurnNodes
  <1>4. PICK a, m, o, mu : a = h[n][side] /\ m = Mid(h, d, n) /\ o = h[up][Other(side)] /\ mu = Mid(h, d, up)
    OBVIOUS
  <1>5. /\ side \in Sides /\ Other(side) \in Sides /\ side # "mid" /\ Other(side) # "mid" /\ side # Other(side)
        /\ \A s \in Sides : s = side \/ s = Other(side) \/ s = "mid"
    BY OtherIs DEF TurnNodes, Sides, Around
  <1>6. /\ Son(h, d, n, side) = a /\ Son(h, d, n, "mid") = m /\ Son(h, d, n, Other(side)) = up
        /\ Son(h, d, up, side) = inner /\ Son(h, d, up, "mid") = mu /\ Son(h, d, up, Other(side)) = o /\ "mid" \in Sides
    BY <1>4, <1>5 DEF Son, TurnNodes, Sides
  <1>7. /\ {a, m, o, mu} \subseteq U \cup {0} /\ a \notin {n, up} /\ o \notin {n, up} /\ m \notin {n, up} /\ mu \notin {n, up}
    <2>1. {a, m, o, mu} \subseteq U \cup {0}
      BY <1>1, <1>3, <1>5, <1>6, SonCases
    <2>2. \A x \in U : Mid(h, d, x) # x
      BY <1>1, SonIs DEF Bounded, Sides
    <2>3. m # up
      BY <1>1, <1>3, <1>4 DEF Wired, TurnNodes
    <2>4. mu # n
      <3>1. Mid(h, d, up) \in T[up] \/ Mid(h, d, up) = 0
        BY <1>1, <1>3, <1>4, <1>6, <2>1 DEF Bounded
      <3>2. n \notin T[up]
        BY <1>1, <1>3, <1>5, <1>6 DEF Bounded
      <3> QED BY <1>3, <1>4, <3>1, <3>2
    <2> QED BY <1>3, <1>4, <2>1, <2>2, <2>3, <2>4 DEF TurnNodes
  <1>8. R \in [DOMAIN h -> SUBSET DOMAIN h] /\ R[up] = T[n] /\ R[n] = {n} \cup T[a] \cup T[m] \cup T[inner]
        /\ \A x \in DOMAIN h : x \notin {n, up} => R[x] = T[x]
    <2>1. T \in [DOMAIN h -> SUBSET DOMAIN h] /\ n \in DOMAIN h /\ up \in DOMAIN h /\ {a, m, inner} \subseteq DOMAIN h
      BY <1>1, <1>3, <1>7 DEF Bounded
    <2>2. {n} \cup T[a] \cup T[m] \cup T[inner] \in SUBSET DOMAIN h /\ T[n] \in SUBSET DOMAIN h
      BY <2>1
    <2>3. R = [T EXCEPT ![up] = T[n], ![n] = {n} \cup T[a] \cup T[m] \cup T[inner]]
      BY <1>4 DEF TurnT
    <2> QED BY <1>3, <2>1, <2>2, <2>3, TwoSet
  <1>9. /\ T[n] = {n} \cup T[a] \cup T[m] \cup T[up] /\ T[up] = {up} \cup T[inner] \cup T[mu] \cup T[o]
        /\ n \notin T[a] /\ n \notin T[m] /\ n \notin T[up] /\ up \notin T[inner] /\ up \notin T[mu] /\ up \notin T[o] /\ up \in T[up] /\ n \in T[n]
        /\ T[a] \cap T[m] = {} /\ T[a] \cap T[up] = {} /\ T[m] \cap T[up] = {}
        /\ T[inner] \cap T[mu] = {} /\ T[inner] \cap T[o] = {} /\ T[mu] \cap T[o] = {}
    <2>1. /\ n \notin T[a] /\ n \notin T[m] /\ n \notin T[up] /\ up \notin T[inner] /\ up \notin T[mu] /\ up \notin T[o] /\ up \in T[up] /\ n \in T[n]
      BY <1>1, <1>3, <1>5, <1>6 DEF Bounded
    <2>2. /\ T[a] \cap T[m] = {} /\ T[a] \cap T[up] = {} /\ T[m] \cap T[up] = {}
          /\ T[inner] \cap T[mu] = {} /\ T[inner] \cap T[o] = {} /\ T[mu] \cap T[o] = {}
      BY <1>1, <1>3, <1>5, <1>6 DEF Exact
    <2>3. \A x \in U : T[x] = {x} \cup T[h[x][side]] \cup T[Mid(h, d, x)] \cup T[h[x][Other(side)]]
      BY <1>1 DEF Exact, TurnNodes, Other, Around
    <2>4. h[n][Other(side)] = up /\ h[up][side] = inner
      BY DEF TurnNodes
    <2> QED BY <1>3, <1>4, <2>1, <2>2, <2>3, <2>4
  <1>10. /\ Son(g, d, n, side) = a /\ Son(g, d, n, "mid") = m /\ Son(g, d, n, Other(side)) = inner
         /\ Son(g, d, up, side) = n /\ Son(g, d, up, "mid") = mu /\ Son(g, d, up, Other(side)) = o
    BY <1>2, <1>3, <1>5, <1>6, <1>7
  <1>11. R[a] = T[a] /\ R[m] = T[m] /\ R[inner] = T[inner] /\ R[mu] = T[mu] /\ R[o] = T[o] /\ R[0] = {} /\ T[0] = {}
    BY <1>1, <1>3, <1>7, <1>8 DEF Bounded
  <1>12. ASSUME NEW x \in U \cup {0}, x \notin {n, up}, NEW s \in Sides PROVE R[Son(g, d, x, s)] = T[Son(h, d, x, s)]
    <2>1. CASE Son(h, d, x, s) = n
      BY <1>2, <1>8, <1>12, <2>1
    <2>2. CASE Son(h, d, x, s) # n
      <3>1. Son(h, d, x, s) # up
        <4> SUFFICES ASSUME Son(h, d, x, s) = Son(h, d, n, Other(side)), Son(h, d, x, s) # 0 PROVE x = n
          BY <1>3, <1>6, <1>12
        <4> QED BY <1>1, <1>3, <1>5, OneParent
      <3>2. Son(h, d, x, s) \in DOMAIN h
        BY <1>1, NodeIn
      <3> QED BY <1>2, <1>8, <1>12, <2>2, <3>1, <3>2
    <2> QED BY <2>1, <2>2
  <1>13. ASSUME NEW x \in U
         PROVE  x \in R[x] /\ \A s \in Sides : R[Son(g, d, x, s)] \subseteq R[x] /\ x \notin R[Son(g, d, x, s)]
    <2>1. CASE x = n
      BY <1>5, <1>8, <1>9, <1>10, <1>11, <1>3, <2>1
    <2>2. CASE x = up
      BY <1>5, <1>8, <1>9, <1>10, <1>11, <1>3, <2>2
    <2>3. CASE x \notin {n, up}
      BY <1>1, <1>3, <1>8, <1>12, <2>3 DEF Bounded
    <2> QED BY <2>1, <2>2, <2>3
  <1>14. ASSUME NEW x \in U
         PROVE  /\ R[x] = {x} \cup R[Son(g, d, x, side)] \cup R[Son(g, d, x, "mid")] \cup R[Son(g, d, x, Other(side))]
                /\ \A s, q \in Sides : s # q => R[Son(g, d, x, s)] \cap R[Son(g, d, x, q)] = {}
    <2>1. CASE x = n
      BY <1>5, <1>8, <1>9, <1>10, <1>11, <1>3, <2>1
    <2>2. CASE x = up
      <3>1. R[x] = {x} \cup R[n] \cup R[mu] \cup R[o]
        BY <1>8, <1>9, <1>11, <2>2
      <3>2. R[n] \cap R[mu] = {} /\ R[n] \cap R[o] = {} /\ R[mu] \cap R[o] = {}
        BY <1>8, <1>9, <1>11, <1>3
      <3> QED BY <1>5, <1>10, <2>2, <3>1, <3>2
    <2>3. CASE x \notin {n, up}
      <3>1. R[x] = T[x] /\ T[x] = {x} \cup T[Son(h, d, x, "left")] \cup T[Son(h, d, x, "mid")] \cup T[Son(h, d, x, "right")]
        BY <1>1, <1>3, <1>8, <2>3, SonIs DEF Exact
      <3>2. T[x] = {x} \cup T[Son(h, d, x, side)] \cup T[Son(h, d, x, "mid")] \cup T[Son(h, d, x, Other(side))]
        BY <3>1 DEF TurnNodes, Other, Around
      <3>3. \A s \in Sides : R[Son(g, d, x, s)] = T[Son(h, d, x, s)]
        BY <1>12, <2>3
      <3>4. \A s, q \in Sides : s # q => T[Son(h, d, x, s)] \cap T[Son(h, d, x, q)] = {}
        BY <1>1 DEF Exact
      <3> QED BY <1>5, <1>6, <3>1, <3>2, <3>3, <3>4
    <2> QED BY <2>1, <2>2, <2>3
  <1>15. Bounded(g, U, R, d)
    BY <1>8, <1>11, <1>13 DEF Bounded, Turned
  <1>16. Exact(g, U, R, d)
    <2>1. \A x \in U : R[x] = {x} \cup R[Son(g, d, x, "left")] \cup R[Son(g, d, x, "mid")] \cup R[Son(g, d, x, "right")]
      BY <1>14 DEF TurnNodes, Other, Around
    <2> QED BY <1>14, <2>1, SonIs DEF Exact
  <1>17. \A x \in U \cup {0} : R[Mid(g, d, x)] = T[Mid(h, d, x)]
    <2> TAKE x \in U \cup {0}
    <2>1. CASE x \notin {n, up}
      BY <1>6, <1>12, <2>1, SonIs
    <2>2. CASE x \in {n, up}
      BY <1>4, <1>10, <1>11, <2>2, SonIs
    <2> QED BY <2>1, <2>2
  <1>18. R[n] \subseteq T[n]
    BY <1>8, <1>9
  <1> QED BY <1>8, <1>15, <1>16, <1>17, <1>18

-----------------------------------------------------------------------------
\* The order of the bytes on a side of a node.
Ahead(s, a, b) == IF s = "left" THEN a < b ELSE a > b

LEMMA AheadIs ==
  ASSUME NEW s \in Around, NEW a \in Int, NEW b \in Int, NEW c \in Int
  PROVE  /\ Ahead(s, a, b) <=> Ahead(Other(s), b, a)
         /\ Ahead(s, a, b) /\ Ahead(s, b, c) => Ahead(s, a, c)
         /\ ~Ahead(s, a, a) /\ ~(Ahead(s, a, b) /\ Ahead(Other(s), a, b))
  BY DEF Ahead, Around, Other

LEMMA SortedIs ==
  ASSUME NEW h, NEW U, NEW S, NEW d
  PROVE  Sorted(h, U, S, d) <=> \A x \in U \ {d}, s \in Around : \A y \in S[h[x][s]] \ {d} : Ahead(s, h[y].cbyte, h[x].cbyte)
  <1>1. "left" \in Around /\ "right" \in Around /\ "left" # "right" /\ \A s \in Around : s = "left" \/ s = "right"
    BY DEF Around
  <1>2. ASSUME Sorted(h, U, S, d), NEW x \in U \ {d}, NEW s \in Around, NEW y \in S[h[x][s]] \ {d} PROVE Ahead(s, h[y].cbyte, h[x].cbyte)
    BY <1>1, <1>2 DEF Sorted, Ahead
  <1>3. ASSUME \A x \in U \ {d}, s \in Around : \A y \in S[h[x][s]] \ {d} : Ahead(s, h[y].cbyte, h[x].cbyte), NEW x \in U \ {d}
        PROVE  /\ \A y \in S[h[x]["left"]] \ {d} : h[y].cbyte < h[x].cbyte
               /\ \A y \in S[h[x]["right"]] \ {d} : h[y].cbyte > h[x].cbyte
    <2>1. ASSUME NEW y \in S[h[x]["left"]] \ {d} PROVE h[y].cbyte < h[x].cbyte
      BY <1>1, <1>3 DEF Ahead
    <2>2. ASSUME NEW y \in S[h[x]["right"]] \ {d} PROVE h[y].cbyte > h[x].cbyte
      <3>1. Ahead("right", h[y].cbyte, h[x].cbyte)
        BY <1>1, <1>3
      <3> QED BY <1>1, <3>1 DEF Ahead
    <2> QED BY <2>1, <2>2
  <1> QED BY <1>2, <1>3 DEF Sorted

LEMMA LevelsIs ==
  ASSUME NEW h, NEW U, NEW S, NEW side \in Around
  PROVE  Levels(h, U, S) <=> /\ S \in [DOMAIN h -> SUBSET DOMAIN h] /\ S[0] = {}
                             /\ \A x \in U : S[x] = {x} \cup S[h[x][side]] \cup S[h[x][Other(side)]]
  BY DEF Levels, Around, Other

LEMMA TurnLevels ==
  ASSUME NEW h, NEW U, NEW T, NEW S, NEW d, NEW lev, NEW n, NEW side, NEW g, Turning(h, U, T, S, d, lev, n, side),
         Turned(h, g, lev, n, side), g[0].color = BLACK,
         NEW up, NEW inner, TurnNodes(h, U, d, lev, n, side, up, inner), NEW Q, Q = TurnS(S, h, n, side, up, inner)
  PROVE  /\ Levels(g, U, Q) /\ Sorted(g, U, Q, d)
         /\ Q[up] = S[n] /\ Q[n] \subseteq S[n] /\ (\A x \in DOMAIN h : x \notin {n, up} => Q[x] = S[x])
         /\ \A x \in U \cup {0} : Q[Mid(g, d, x)] = S[Mid(h, d, x)]
  <1>1. Wired(h, U, d) /\ Loose(h, U, T, S, d) /\ Bounded(h, U, T, d) /\ Levels(h, U, S) /\ Sorted(h, U, S, d)
    BY DEF Turning, Shape, Loose
  <1>2. \A x \in U \cup {0}, s \in Sides :
           Son(g, d, x, s) = IF x = n /\ s = Other(side) THEN inner ELSE IF x = up /\ s = side THEN n
                             ELSE IF Son(h, d, x, s) = n THEN up ELSE Son(h, d, x, s)
    BY TurnSons
  <1>3. /\ 0 \notin U /\ n \in U /\ up \in U /\ inner \in U \cup {0} /\ n # up /\ inner # n /\ inner # up
        /\ \A x \in U \cup {0} : x \in DOMAIN h
    BY <1>1, NodeIn DEF TurnNodes
  <1>4. PICK a, o : a = h[n][side] /\ o = h[up][Other(side)]
    OBVIOUS
  <1>5. /\ side \in Sides /\ Other(side) \in Sides /\ side # "mid" /\ Other(side) # "mid" /\ side # Other(side) /\ side \in Around /\ Other(side) \in Around
        /\ \A s \in Around : s = side \/ s = Other(side)
    BY OtherIs DEF TurnNodes, Around
  <1>6. \A x \in U, s \in Around : g[x][s] = IF x = n /\ s = Other(side) THEN inner ELSE IF x = up /\ s = side THEN n
                                            ELSE IF h[x][s] = n THEN up ELSE h[x][s]
    <2>1. \A x \in U, s \in Around : Son(g, d, x, s) = g[x][s] /\ Son(h, d, x, s) = h[x][s] /\ s \in Sides
      BY DEF Son, Around, Sides
    <2> QED BY <1>2, <2>1
  <1>7. {a, o} \subseteq U \cup {0} /\ a \notin {n, up} /\ o \notin {n, up} /\ h[n][Other(side)] = up /\ h[up][side] = inner
    <2>1. {a, o} \subseteq U \cup {0}
      <3>1. Son(h, d, n, side) = a /\ Son(h, d, up, Other(side)) = o
        BY <1>4, <1>5 DEF Son
      <3> QED BY <1>1, <1>3, <1>5, <3>1, SonCases
    <2> QED BY <1>4, <2>1 DEF TurnNodes
  <1>8. Q \in [DOMAIN h -> SUBSET DOMAIN h] /\ Q[up] = S[n] /\ Q[n] = {n} \cup S[a] \cup S[inner]
        /\ \A x \in DOMAIN h : x \notin {n, up} => Q[x] = S[x]
    <2>1. S \in [DOMAIN h -> SUBSET DOMAIN h] /\ n \in DOMAIN h /\ up \in DOMAIN h /\ {a, inner} \subseteq DOMAIN h
      BY <1>1, <1>3, <1>7 DEF Levels
    <2>2. {n} \cup S[a] \cup S[inner] \in SUBSET DOMAIN h /\ S[n] \in SUBSET DOMAIN h
      BY <2>1
    <2>3. Q = [S EXCEPT ![up] = S[n], ![n] = {n} \cup S[a] \cup S[inner]]
      BY <1>4 DEF TurnS
    <2> QED BY <1>3, <2>1, <2>2, <2>3, TwoSet
  <1>9. \A x \in U : S[x] = {x} \cup S[h[x][side]] \cup S[h[x][Other(side)]]
    BY <1>1, <1>5, LevelsIs
  <1>10. S[n] = {n} \cup S[a] \cup S[up] /\ S[up] = {up} \cup S[inner] \cup S[o]
    BY <1>3, <1>4, <1>7, <1>9
  <1>11. Q[a] = S[a] /\ Q[inner] = S[inner] /\ Q[o] = S[o] /\ Q[0] = {} /\ S[0] = {}
    BY <1>1, <1>3, <1>7, <1>8 DEF Levels
  <1>12. /\ g[n][side] = a /\ g[n][Other(side)] = inner /\ g[up][side] = n /\ g[up][Other(side)] = o
    BY <1>3, <1>4, <1>5, <1>6, <1>7
  <1>13. ASSUME NEW x \in U \cup {0}, x \notin {n, up}, NEW s \in Sides PROVE Q[Son(g, d, x, s)] = S[Son(h, d, x, s)]
    <2>1. CASE Son(h, d, x, s) = n
      BY <1>2, <1>8, <1>13, <2>1
    <2>2. CASE Son(h, d, x, s) # n
      <3>1. Son(h, d, x, s) # up
        <4>1. Son(h, d, n, Other(side)) = up
          BY <1>5, <1>7 DEF Son
        <4> SUFFICES ASSUME Son(h, d, x, s) = Son(h, d, n, Other(side)), Son(h, d, x, s) # 0 PROVE x = n
          BY <1>3, <1>13, <4>1
        <4> QED BY <1>1, <1>3, <1>5, OneParent
      <3>2. Son(h, d, x, s) \in DOMAIN h
        BY <1>1, NodeIn
      <3> QED BY <1>2, <1>8, <1>13, <2>2, <3>1, <3>2
    <2> QED BY <2>1, <2>2
  <1>14. \A x \in U, s \in Around : x \notin {n, up} => Q[g[x][s]] = S[h[x][s]]
    <2>1. \A x \in U, s \in Around : Son(g, d, x, s) = g[x][s] /\ Son(h, d, x, s) = h[x][s] /\ s \in Sides
      BY DEF Son, Around, Sides
    <2> QED BY <1>13, <2>1
  <1>15. ASSUME NEW x \in U PROVE Q[x] = {x} \cup Q[g[x][side]] \cup Q[g[x][Other(side)]]
    <2>1. CASE x = n
      BY <1>8, <1>11, <1>12, <2>1
    <2>2. CASE x = up
      BY <1>8, <1>10, <1>11, <1>12, <2>2
    <2>3. CASE x \notin {n, up}
      BY <1>3, <1>5, <1>8, <1>9, <1>14, <2>3
    <2> QED BY <2>1, <2>2, <2>3
  <1>16. Levels(g, U, Q)
    <2>1. DOMAIN g = DOMAIN h
      BY DEF Turned
    <2> QED BY <1>5, <1>8, <1>11, <1>15, <2>1, LevelsIs
  <1>17. \A x \in DOMAIN h : g[x].cbyte = h[x].cbyte /\ h[x].cbyte \in Int
    BY <1>1, HeapFields DEF Turned, SameData, Wired
  <1>18. \A x \in U \ {d}, s \in Around : \A y \in S[h[x][s]] \ {d} : Ahead(s, h[y].cbyte, h[x].cbyte)
    BY <1>1, SortedIs
  <1>24. d # n /\ d # up
    BY DEF Turning, TurnNodes
  <1>19. \A x \in U \cup {0} : S[x] \subseteq DOMAIN h
    BY <1>1, <1>3 DEF Levels
  <1>20. Ahead(side, h[n].cbyte, h[up].cbyte)
    <2>1. up \in S[h[n][Other(side)]]
      BY <1>7, <1>10
    <2>2. Ahead(Other(side), h[up].cbyte, h[n].cbyte)
      BY <1>3, <1>5, <1>18, <1>24, <2>1
    <2> QED BY <1>3, <1>5, <1>17, <2>2, AheadIs
  <1>21. ASSUME NEW x \in U \ {d}, NEW s \in Around, NEW y \in Q[g[x][s]] \ {d} PROVE Ahead(s, h[y].cbyte, h[x].cbyte)
    <2>1. CASE x = n
      <3>1. CASE s = side
        BY <1>3, <1>4, <1>11, <1>12, <1>18, <1>21, <2>1, <3>1
      <3>2. CASE s = Other(side)
        <4>1. y \in S[up]
          BY <1>10, <1>11, <1>12, <1>21, <2>1, <3>2
        <4> QED BY <1>3, <1>7, <1>18, <1>21, <2>1, <3>2, <4>1
      <3> QED BY <1>5, <3>1, <3>2
    <2>2. CASE x = up
      <3>1. CASE s = Other(side)
        BY <1>3, <1>4, <1>11, <1>12, <1>18, <1>21, <2>2, <3>1
      <3>2. CASE s = side
        <4>1. y = n \/ y \in S[a] \/ y \in S[inner]
          BY <1>8, <1>12, <1>21, <2>2, <3>2
        <4>2. CASE y = n
          BY <1>20, <2>2, <3>2, <4>2
        <4>3. CASE y \in S[inner]
          BY <1>3, <1>7, <1>18, <1>21, <2>2, <3>2, <4>3
        <4>4. CASE y \in S[a]
          <5>1. Ahead(side, h[y].cbyte, h[n].cbyte)
            BY <1>3, <1>4, <1>5, <1>18, <1>21, <1>24, <4>4
          <5>2. h[y].cbyte \in Int /\ h[n].cbyte \in Int /\ h[up].cbyte \in Int
            BY <1>3, <1>7, <1>17, <1>19, <4>4
          <5> QED BY <1>5, <1>20, <2>2, <3>2, <5>1, <5>2, AheadIs
        <4> QED BY <4>1, <4>2, <4>3, <4>4
      <3> QED BY <1>5, <3>1, <3>2
    <2>3. CASE x \notin {n, up}
      BY <1>14, <1>18, <1>21, <2>3
    <2> QED BY <2>1, <2>2, <2>3
  <1>22. Sorted(g, U, Q, d)
    <2>1. ASSUME NEW x \in U \ {d}, NEW s \in Around, NEW y \in Q[g[x][s]] \ {d} PROVE Ahead(s, g[y].cbyte, g[x].cbyte)
      <3>1. g[x][s] \in DOMAIN h
        <4>1. h[x][s] \in DOMAIN h
          <5>1. IsHeap(h) /\ s \in Sides /\ x \in DOMAIN h
            BY <1>1, <1>3 DEF Wired, Around, Sides
          <5> QED BY <5>1, HeapSons
        <4> QED BY <1>3, <1>6, <4>1
      <3>2. y \in DOMAIN h /\ x \in DOMAIN h
        BY <1>3, <1>8, <2>1, <3>1
      <3> QED BY <1>17, <1>21, <2>1, <3>2
    <2> QED BY <2>1, SortedIs
  <1>23. \A x \in U \cup {0} : Q[Mid(g, d, x)] = S[Mid(h, d, x)]
    <2> TAKE x \in U \cup {0}
    <2>1. "mid" \in Sides /\ Son(g, d, x, "mid") = Mid(g, d, x) /\ Son(h, d, x, "mid") = Mid(h, d, x)
      BY DEF Son, Sides
    <2>2. CASE x \notin {n, up}
      BY <1>13, <2>1, <2>2
    <2>3. CASE x \in {n, up}
      <3>1. PICK m : m = Mid(h, d, x)
        OBVIOUS
      <3>2. m \in U \cup {0} /\ m \in DOMAIN h
        BY <1>1, <2>1, <3>1, SonCases, <1>3
      <3>3. m # up
        BY <1>1, <1>3, <3>1 DEF Wired, TurnNodes
      <3>4. m # n
        <4>1. \A z \in U : m = Mid(h, d, z) /\ m # 0 => m \in T[z] /\ z # m
          BY <1>1, <2>1, SonIs, SonCases DEF Bounded, Sides
        <4>2. n \notin T[up] /\ n \in T[n]
          BY <1>1, <1>3, <1>5, <1>7, SonIs DEF Bounded
        <4> QED BY <1>3, <2>3, <3>1, <4>1, <4>2
      <3>5. Mid(g, d, x) = m
        BY <1>2, <1>3, <1>5, <2>1, <3>1, <3>4
      <3> QED BY <1>8, <3>1, <3>2, <3>3, <3>4, <3>5
    <2> QED BY <2>2, <2>3
  <1>25. Q[n] \subseteq S[n]
    BY <1>8, <1>10
  <1> QED BY <1>8, <1>16, <1>22, <1>23, <1>25

(***************************************************************************)
(* A change in the level of lev that the other levels do not see: g, R, Q  *)
(* are as h, T, S but for the order of that level, and for d.              *)
(***************************************************************************)
Alike(h, T, S, g, R, Q, U, d, lev) ==
  /\ DOMAIN g = DOMAIN h
  /\ \A x \in DOMAIN h : SameData(g, h, x)
  /\ \A x \in (U \cup {0}) \ {d} : /\ R[g[x].mid] \ {d} = T[h[x].mid] \ {d} /\ Q[g[x].mid] \ {d} = S[h[x].mid] \ {d}
                                   /\ g[x].mid = 0 <=> h[x].mid = 0
  /\ \A x \in DOMAIN h \ {d} : x \notin S[h[lev].mid] => g[x].color = h[x].color /\ (x # lev => g[x] = h[x])

LEMMA AlikeSelf ==
  ASSUME NEW h, NEW T, NEW S, NEW U, NEW d, NEW lev
  PROVE  Alike(h, T, S, h, T, S, U, d, lev)
  BY DEF Alike, SameData

LEMMA AlikeThen ==
  ASSUME NEW h, NEW T, NEW S, NEW g, NEW R, NEW Q, NEW f, NEW A, NEW B, NEW U, NEW d, NEW lev, lev \in (U \cup {0}) \ {d},
         Alike(h, T, S, g, R, Q, U, d, lev), Alike(g, R, Q, f, A, B, U, d, lev)
  PROVE  Alike(h, T, S, f, A, B, U, d, lev)
  <1>1. \A x \in DOMAIN h : SameData(f, h, x)
    BY DEF Alike, SameData
  <1>2. \A x \in (U \cup {0}) \ {d} : /\ A[f[x].mid] \ {d} = T[h[x].mid] \ {d} /\ B[f[x].mid] \ {d} = S[h[x].mid] \ {d}
                                      /\ f[x].mid = 0 <=> h[x].mid = 0
    BY DEF Alike
  <1>3. ASSUME NEW x \in DOMAIN h \ {d}, x \notin S[h[lev].mid] PROVE f[x].color = h[x].color /\ (x # lev => f[x] = h[x])
    <2>1. g[x].color = h[x].color /\ (x # lev => g[x] = h[x])
      BY <1>3 DEF Alike
    <2>2. x \notin Q[g[lev].mid]
      <3>1. Q[g[lev].mid] \ {d} = S[h[lev].mid] \ {d}
        BY DEF Alike
      <3> QED BY <1>3, <3>1
    <2>3. f[x].color = g[x].color /\ (x # lev => f[x] = g[x])
      BY <1>3, <2>2 DEF Alike
    <2> QED BY <2>1, <2>3
  <1> QED BY <1>1, <1>2, <1>3 DEF Alike

\* Of two fewer: with nothing left out, d is as good as any node outside.
LEMMA TurnShape ==
  ASSUME NEW h, NEW U, NEW T, NEW S, NEW d, NEW lev, NEW n, NEW side, NEW g, Turning(h, U, T, S, d, lev, n, side),
         Turned(h, g, lev, n, side), \A x \in DOMAIN h : x \notin {n, Upper(h, n, side)} => g[x].color = h[x].color,
         lev # d, NEW R, NEW Q, NEW up, NEW inner, TurnNodes(h, U, d, lev, n, side, up, inner),
         R = TurnT(T, h, d, n, side, up, inner), Q = TurnS(S, h, n, side, up, inner)
  PROVE  /\ Shape(g, U, R, Q, d) /\ Alike(h, T, S, g, R, Q, U, d, lev)
         /\ Q[up] = S[n] /\ Q[n] \subseteq S[n] /\ (\A x \in DOMAIN h : x \notin {n, up} => Q[x] = S[x])
         /\ \A x \in U \cup {0} : Q[Mid(g, d, x)] = S[Mid(h, d, x)]
  <1>1. Wired(h, U, d) /\ Loose(h, U, T, S, d) /\ lev \in U \cup {0} /\ n \in S[Mid(h, d, lev)] /\ 0 \in DOMAIN h /\ 0 \notin U
    BY NodeIn DEF Turning, Shape, Loose
  <1>2. up = Upper(h, n, side) /\ n \in U /\ up \in U /\ inner \in U \cup {0} /\ h[up][side] = inner /\ h[n][Other(side)] = up
        /\ inner = Inner(h, n, side)
    BY DEF TurnNodes
  <1>3. g[0].color = BLACK
    BY <1>1, <1>2 DEF Wired
  <1>4. Wired(g, U, d)
    BY <1>3, TurnWired
  <1>5. /\ Bounded(g, U, R, d) /\ Exact(g, U, R, d) /\ \A x \in U \cup {0} : R[Mid(g, d, x)] = T[Mid(h, d, x)]
    BY <1>3, TurnUnder
  <1>6. /\ Levels(g, U, Q) /\ Sorted(g, U, Q, d)
        /\ Q[up] = S[n] /\ Q[n] \subseteq S[n] /\ (\A x \in DOMAIN h : x \notin {n, up} => Q[x] = S[x])
        /\ \A x \in U \cup {0} : Q[Mid(g, d, x)] = S[Mid(h, d, x)]
    BY <1>3, TurnLevels
  <1>7. DOMAIN g = DOMAIN h /\ \A x \in DOMAIN h : SameData(g, h, x)
    BY DEF Turned
  <1>8. ASSUME NEW x \in (U \cup {0}) \ {d}
        PROVE  /\ R[g[x].mid] \ {d} = T[h[x].mid] \ {d} /\ Q[g[x].mid] \ {d} = S[h[x].mid] \ {d}
               /\ g[x].mid = 0 <=> h[x].mid = 0
    <2>1. Mid(g, d, x) = g[x].mid /\ Mid(h, d, x) = h[x].mid /\ x \in U \cup {0}
      BY <1>8 DEF Mid
    <2>2. g[x].mid = 0 => h[x].mid = 0
      <3>1. R[0] = {} /\ \A z \in U : z \in T[z]
        BY <1>1, <1>5 DEF Bounded, Loose
      <3>2. T[h[x].mid] = R[g[x].mid] /\ h[x].mid \in U \cup {0}
        BY <1>1, <1>5, <2>1, SonIs, SonCases
      <3> QED BY <3>1, <3>2
    <2>3. h[x].mid = 0 => g[x].mid = 0
      <3>1. T[0] = {} /\ \A z \in U : z \in R[z]
        BY <1>1, <1>5 DEF Bounded, Loose
      <3>2. T[h[x].mid] = R[g[x].mid] /\ g[x].mid \in U \cup {0}
        BY <1>4, <1>5, <2>1, SonIs, SonCases
      <3> QED BY <3>1, <3>2
    <2> QED BY <1>5, <1>6, <2>1, <2>2, <2>3
  <1>9. ASSUME NEW x \in DOMAIN h \ {d}, x \notin S[h[lev].mid] PROVE g[x].color = h[x].color /\ (x # lev => g[x] = h[x])
    <2>1. Mid(h, d, lev) = h[lev].mid /\ Mid(h, d, lev) \in U
      BY <1>1, RootIs DEF Mid
    <2>2. n \in S[h[lev].mid] /\ S[n] \subseteq S[h[lev].mid] /\ up \in S[n] /\ (inner # 0 => inner \in S[up]) /\ S[up] \subseteq S[n]
      <3>1. \A z \in U : z \in S[z] /\ S[z] \subseteq U /\ \A y \in S[z] : S[y] \subseteq S[z]
        BY <1>1, LevelIs
      <3>2. \A z \in U, s \in Around : S[h[z][s]] \subseteq S[z]
        BY <1>1 DEF Loose, Levels, Around
      <3>3. side \in Around /\ Other(side) \in Around
        BY DEF TurnNodes
      <3>4. S[up] \subseteq S[n] /\ S[inner] \subseteq S[up]
        BY <1>2, <3>2, <3>3
      <3> QED BY <1>1, <1>2, <2>1, <3>1, <3>4
    <2>3. x \notin {n, up} /\ (x = inner => x = 0)
      BY <1>9, <2>2
    <2>4. h[n].parent # 0 => h[n].parent \in S[h[lev].mid]
      BY <1>1, <2>1, ParentInLevel, RootIs
    <2>5. x # lev => x # (IF h[n].parent = 0 THEN lev ELSE h[n].parent)
      BY <1>9, <2>4
    <2>6. x # lev /\ x # inner => g[x] = h[x]
      BY <1>2, <2>3, <2>5 DEF Turned
    <2>7. x = 0 /\ x = inner /\ x # lev => g[x] = h[x]
      <3> SUFFICES ASSUME x = 0, inner = 0, lev # 0 PROVE g[0] = h[0]
        OBVIOUS
      <3>1. /\ g[0].parent = h[0].parent /\ SameData(g, h, 0) /\ g[0].color = h[0].color
            /\ \A s \in Sides : g[0][s] = h[0][s]
        <4>1. ~Hook(h, lev, n, 0, "left") /\ ~Hook(h, lev, n, 0, "mid") /\ ~Hook(h, lev, n, 0, "right")
          BY DEF Hook
        <4>2. n # 0 /\ up # 0
          BY <1>1, <1>2
        <4> QED BY <1>1, <1>2, <1>3, <4>1, <4>2 DEF Turned, Sides, Wired
      <3>2. IsHeap(h) /\ IsHeap(g)
        BY <1>1, <1>4 DEF Wired
      <3>3. /\ g[0].cbyte = h[0].cbyte /\ g[0].index = h[0].index /\ g[0].color = h[0].color /\ g[0].item = h[0].item
            /\ g[0].left = h[0].left /\ g[0].mid = h[0].mid /\ g[0].right = h[0].right /\ g[0].parent = h[0].parent
        BY <3>1 DEF SameData, Sides
      <3>4. 0 \in DOMAIN g /\ 0 \in DOMAIN h
        BY <1>1, <1>7
      <3>5. g[0] = [cbyte |-> g[0].cbyte, index |-> g[0].index, color |-> g[0].color, item |-> g[0].item,
                    left |-> g[0].left, mid |-> g[0].mid, right |-> g[0].right, parent |-> g[0].parent]
        BY <3>2, <3>4, HeapFields
      <3>6. h[0] = [cbyte |-> h[0].cbyte, index |-> h[0].index, color |-> h[0].color, item |-> h[0].item,
                    left |-> h[0].left, mid |-> h[0].mid, right |-> h[0].right, parent |-> h[0].parent]
        BY <3>2, <3>4, HeapFields
      <3> QED BY <3>3, <3>5, <3>6
    <2> QED BY <1>2, <2>3, <2>6, <2>7
  <1>10. Shape(g, U, R, Q, d)
    BY <1>4, <1>5, <1>6 DEF Shape, Loose
  <1> QED BY <1>6, <1>7, <1>8, <1>9, <1>10 DEF Alike

-----------------------------------------------------------------------------
(***************************************************************************)
(* Nodes of a level that are painted.                                      *)
(***************************************************************************)
Painted(g, h, P) ==
  /\ IsHeap(h) /\ IsHeap(g) /\ DOMAIN g = DOMAIN h
  /\ \A y \in DOMAIN h : /\ SameData(g, h, y) /\ SameSons(g, h, y) /\ g[y].parent = h[y].parent
                         /\ y \notin P => g[y] = h[y]

LEMMA PaintedSelf ==
  ASSUME NEW h, IsHeap(h), NEW P
  PROVE  Painted(h, h, P)
  BY DEF Painted, SameData, SameSons

OnePainted(g, f, h, P, n, c) ==
  /\ Painted(g, h, P) /\ g[n].color = c /\ \A y \in DOMAIN h : y # n => g[y].color = f[y].color

LEMMA PaintMore ==
  ASSUME NEW h, NEW f, NEW P, Painted(f, h, P), NEW n \in P, n \in DOMAIN h, NEW c \in {BLACK, RED}, NEW g, g = Color(f, n, c)
  PROVE  OnePainted(g, f, h, P, n, c)
  <1>1. ColorSet(g, f, n, c)
    BY ColorIs DEF Painted
  <1>2. IsHeap(g) /\ DOMAIN g = DOMAIN h /\ DOMAIN f = DOMAIN h
    BY <1>1 DEF ColorSet, Painted
  <1>3. \A y \in DOMAIN h : /\ SameData(g, h, y) /\ SameSons(g, h, y) /\ g[y].parent = h[y].parent
                            /\ y \notin P => g[y] = h[y]
    BY <1>1, <1>2 DEF ColorSet, Painted, SameData, SameSons
  <1>4. g[n].color = c /\ \A y \in DOMAIN h : y # n => g[y].color = f[y].color
    BY <1>1, <1>2 DEF ColorSet
  <1> QED BY <1>2, <1>3, <1>4 DEF Painted, OnePainted

LEMMA PaintedSons ==
  ASSUME NEW h, NEW g, NEW P, Painted(g, h, P), NEW x \in DOMAIN h
  PROVE  /\ \A s \in Sides : g[x][s] = h[x][s]
         /\ \A s \in Around : g[x][s] = h[x][s]
         /\ g[x]["left"] = h[x]["left"] /\ g[x]["right"] = h[x]["right"] /\ g[x].mid = h[x].mid
         /\ \A d : Mid(g, d, x) = Mid(h, d, x)
         /\ \A d : \A s \in Sides : Son(g, d, x, s) = Son(h, d, x, s)
  <1>1. \A s \in Sides : g[x][s] = h[x][s]
    BY DEF Painted, SameSons
  <1>2. g[x]["left"] = h[x]["left"] /\ g[x]["right"] = h[x]["right"] /\ g[x]["mid"] = h[x]["mid"]
    BY <1>1 DEF Sides
  <1>3. \A s \in Around : g[x][s] = h[x][s]
    BY <1>1 DEF Around, Sides
  <1> QED BY <1>1, <1>2, <1>3 DEF Mid, Son

LEMMA PaintedShape ==
  ASSUME NEW h, NEW U, NEW T, NEW S, NEW d, Shape(h, U, T, S, d), NEW g, NEW P, Painted(g, h, P), 0 \notin P
  PROVE  Shape(g, U, T, S, d)
  <1>1. Wired(h, U, d) /\ Bounded(h, U, T, d) /\ Levels(h, U, S) /\ Sorted(h, U, S, d) /\ Exact(h, U, T, d)
    BY DEF Shape, Loose
  <1>2. (\A x \in U \cup {0} : x \in DOMAIN h) /\ DOMAIN g = DOMAIN h
    BY <1>1, NodeIn DEF Painted
  <1>3. \A x \in U \cup {0} : /\ \A s \in Around : g[x][s] = h[x][s]
                              /\ g[x]["left"] = h[x]["left"] /\ g[x]["right"] = h[x]["right"]
                              /\ Mid(g, d, x) = Mid(h, d, x) /\ \A s \in Sides : Son(g, d, x, s) = Son(h, d, x, s)
    BY <1>2, PaintedSons
  <1>4. \A x \in U \cup {0} : g[x].parent = h[x].parent /\ g[x].cbyte = h[x].cbyte
    BY <1>2 DEF Painted, SameData
  <1>5. g[0].color = BLACK
    BY <1>1, <1>2 DEF Painted, Wired
  <1>6. Wired(g, U, d)
    <2>1. IsHeap(g) /\ IsFiniteSet(DOMAIN g) /\ NoNode \notin DOMAIN g /\ U \subseteq DOMAIN g \ {0} /\ g[0]["left"] = 0 /\ g[0]["right"] = 0
      BY <1>1, <1>2, <1>3 DEF Wired, Painted
    <2>2. \A x \in U \cup {0}, s \in Sides : Son(g, d, x, s) \in U \cup {0}
      BY <1>1, <1>3 DEF Wired
    <2>3. \A x \in U, s \in Around : g[x][s] # 0 => g[g[x][s]].parent = x
      <3> TAKE x \in U, s \in Around
      <3>1. g[x][s] = h[x][s] /\ h[x][s] \in U \cup {0} /\ (h[x][s] # 0 => h[h[x][s]].parent = x)
        BY <1>1, <1>3, SonIs DEF Wired
      <3> QED BY <1>4, <3>1
    <2>4. \A x \in U \cup {0} : Mid(g, d, x) # 0 => g[Mid(g, d, x)].parent = 0
      <3> TAKE x \in U \cup {0}
      <3>1. Mid(g, d, x) = Mid(h, d, x) /\ Mid(h, d, x) \in U \cup {0} /\ (Mid(h, d, x) # 0 => h[Mid(h, d, x)].parent = 0)
        BY <1>1, <1>3, SonIs DEF Wired, Sides
      <3> QED BY <1>4, <3>1
    <2>5. \A x, y \in U \cup {0} : Mid(g, d, x) = Mid(g, d, y) /\ Mid(g, d, x) # 0 => x = y
      BY <1>1, <1>3 DEF Wired
    <2>6. \A x \in U : g[x]["left"] = g[x]["right"] => g[x]["left"] = 0
      BY <1>1, <1>3 DEF Wired
    <2> QED BY <1>5, <2>1, <2>2, <2>3, <2>4, <2>5, <2>6 DEF Wired
  <1>7. Bounded(g, U, T, d)
    BY <1>1, <1>2, <1>3 DEF Bounded
  <1>8. Exact(g, U, T, d)
    BY <1>1, <1>3 DEF Exact
  <1>9. Levels(g, U, S)
    BY <1>1, <1>2, <1>3 DEF Levels
  <1>10. Sorted(g, U, S, d)
    <2>1. \A x \in U, s \in Around : S[g[x][s]] = S[h[x][s]] /\ S[h[x][s]] \subseteq U
      <3> TAKE x \in U, s \in Around
      <3>1. h[x][s] \in U \cup {0} /\ S[0] = {} /\ Loose(h, U, T, S, d)
        BY <1>1, SonIs DEF Wired, Levels, Shape
      <3> QED BY <1>3, <3>1, LevelIs
    <2>2. \A x \in U \ {d}, s \in Around : \A y \in S[g[x][s]] \ {d} : Ahead(s, g[y].cbyte, g[x].cbyte)
      <3>1. \A x \in U \ {d}, s \in Around : \A y \in S[h[x][s]] \ {d} : Ahead(s, h[y].cbyte, h[x].cbyte)
        BY <1>1, SortedIs
      <3> QED BY <1>4, <2>1, <3>1
    <2> QED BY <2>2, SortedIs
  <1> QED BY <1>6, <1>7, <1>8, <1>9, <1>10 DEF Shape, Loose

LEMMA PaintedAlike ==
  ASSUME NEW h, NEW U, NEW T, NEW S, NEW d, Shape(h, U, T, S, d), NEW g, NEW P, Painted(g, h, P),
         NEW lev, P \subseteq S[h[lev].mid]
  PROVE  Alike(h, T, S, g, T, S, U, d, lev)
  <1>1. Wired(h, U, d)
    BY DEF Shape, Loose
  <1>2. (\A x \in U \cup {0} : x \in DOMAIN h) /\ DOMAIN g = DOMAIN h
    BY <1>1, NodeIn DEF Painted
  <1>3. \A x \in U \cup {0} : g[x].mid = h[x].mid
    BY <1>2, PaintedSons
  <1>4. \A x \in DOMAIN h : SameData(g, h, x) /\ (x \notin S[h[lev].mid] => g[x] = h[x])
    BY DEF Painted
  <1> QED BY <1>2, <1>3, <1>4 DEF Alike

\* A rotation after nodes of the level were painted.
Rewired(h, g, U, d, n, up, inner, side) ==
  \A x \in U \cup {0}, s \in Sides :
    Son(g, d, x, s) = IF x = n /\ s = Other(side) THEN inner ELSE IF x = up /\ s = side THEN n
                      ELSE IF Son(h, d, x, s) = n THEN up ELSE Son(h, d, x, s)

RotatedTo(h, U, T, S, d, lev, n, side, up, inner, g, R, Q) ==
  /\ Shape(g, U, R, Q, d) /\ Alike(h, T, S, g, R, Q, U, d, lev) /\ Rewired(h, g, U, d, n, up, inner, side)
  /\ Q[up] = S[n] /\ Q[n] \subseteq S[n] /\ (\A x \in DOMAIN h : x \notin {n, up} => Q[x] = S[x])
  /\ \A x \in U \cup {0} : Q[Mid(g, d, x)] = S[Mid(h, d, x)]
  /\ g[n].parent = up /\ g[up].parent = h[n].parent /\ \A x \in U : x \notin {n, up, inner} => g[x].parent = h[x].parent

LEMMA PaintedTurn ==
  ASSUME NEW h, NEW U, NEW T, NEW S, NEW d, NEW lev, NEW n, NEW side, Turning(h, U, T, S, d, lev, n, side), lev # d,
         NEW up, NEW inner, TurnNodes(h, U, d, lev, n, side, up, inner),
         NEW f, NEW P, Painted(f, h, P), P \subseteq S[h[lev].mid], NEW g, g = Rotate(f, lev, n, side)
  PROVE  /\ \E R, Q : RotatedTo(h, U, T, S, d, lev, n, side, up, inner, g, R, Q)
         /\ \A y \in DOMAIN h : g[y].color = f[y].color
  <1>1. Shape(h, U, T, S, d) /\ Loose(h, U, T, S, d) /\ Wired(h, U, d) /\ lev \in U \cup {0} /\ n \in S[Mid(h, d, lev)] /\ side \in Around
    BY DEF Turning, Shape, Loose
  <1>2. Mid(h, d, lev) = h[lev].mid /\ Mid(h, d, lev) \in U /\ n \in U
    BY <1>1, RootIs DEF Mid
  <1>3. 0 \notin P
    <2>1. S[h[lev].mid] \subseteq U /\ 0 \notin U
      BY <1>1, <1>2, LevelIs, NodeIn
    <2> QED BY <2>1
  <1>4. Shape(f, U, T, S, d) /\ Alike(h, T, S, f, T, S, U, d, lev) /\ Wired(f, U, d)
    <2>1. Shape(f, U, T, S, d)
      BY <1>1, <1>3, PaintedShape
    <2> QED BY <1>1, <2>1, PaintedAlike DEF Shape, Loose
  <1>5. /\ \A x \in U \cup {0} : /\ x \in DOMAIN h /\ f[x].parent = h[x].parent /\ Mid(f, d, x) = Mid(h, d, x)
                                 /\ \A s \in Sides : Son(f, d, x, s) = Son(h, d, x, s) /\ f[x][s] = h[x][s]
                                 /\ \A s \in Around : f[x][s] = h[x][s]
        /\ DOMAIN f = DOMAIN h
    <2>1. \A x \in U \cup {0} : x \in DOMAIN h /\ f[x].parent = h[x].parent
      BY <1>1, NodeIn DEF Painted
    <2>2. DOMAIN f = DOMAIN h
      BY DEF Painted
    <2> QED BY <2>1, <2>2, PaintedSons
  <1>6. up \in U /\ up = Upper(f, n, side) /\ inner = Inner(f, n, side) /\ up # n
    <2>1. /\ h[n][Other(side)] = up /\ h[up][side] = inner /\ up \in U /\ up # n /\ Other(side) \in Around
      BY DEF TurnNodes
    <2> QED BY <1>1, <1>2, <1>5, <2>1 DEF Upper, Inner
  <1>7. Turning(f, U, T, S, d, lev, n, side)
    <2>1. n \in S[Mid(f, d, lev)] /\ Upper(f, n, side) # 0
      <3>1. up # 0
        BY <1>1, <1>6, NodeIn
      <3> QED BY <1>1, <1>5, <1>6, <3>1
    <2>2. d \notin {n, up}
      BY DEF Turning, TurnNodes
    <2> QED BY <1>1, <1>4, <1>6, <2>1, <2>2 DEF Turning
  <1>8. TurnNodes(f, U, d, lev, n, side, up, inner)
    <2>1. PICK u, i : TurnNodes(f, U, d, lev, n, side, u, i)
      BY <1>7, TurnNodesAre
    <2>2. u = up /\ i = inner
      BY <1>6, <2>1 DEF TurnNodes
    <2> QED BY <2>1, <2>2
  <1>9. Turned(f, g, lev, n, side) /\ \A y \in DOMAIN h : g[y].color = f[y].color
    <2>1. IsHeap(f) /\ lev \in DOMAIN f /\ n \in DOMAIN f \ {0} /\ 0 \notin U
      BY <1>1, <1>2, <1>5, NodeIn DEF Painted
    <2>2. /\ up # n /\ up # 0 /\ inner # n /\ inner # up /\ f[n].parent \notin {n, up} /\ (f[n].parent = 0 => lev # n)
      BY <1>6, <1>8, <2>1 DEF TurnNodes
    <2> QED BY <1>1, <1>5, <1>6, <2>1, <2>2, RotateIs
  <1>10. PICK R, Q : R = TurnT(T, f, d, n, side, up, inner) /\ Q = TurnS(S, f, n, side, up, inner)
    OBVIOUS
  <1>11. /\ Shape(g, U, R, Q, d) /\ Alike(f, T, S, g, R, Q, U, d, lev)
         /\ Q[up] = S[n] /\ Q[n] \subseteq S[n] /\ (\A x \in DOMAIN f : x \notin {n, up} => Q[x] = S[x])
         /\ \A x \in U \cup {0} : Q[Mid(g, d, x)] = S[Mid(f, d, x)]
    BY <1>5, <1>7, <1>8, <1>9, <1>10, TurnShape
  <1>12. Alike(h, T, S, g, R, Q, U, d, lev)
    BY <1>1, <1>4, <1>11, AlikeThen
  <1>13. Rewired(h, g, U, d, n, up, inner, side)
    <2>1. \A x \in U \cup {0}, s \in Sides :
           Son(g, d, x, s) = IF x = n /\ s = Other(side) THEN inner ELSE IF x = up /\ s = side THEN n
                             ELSE IF Son(f, d, x, s) = n THEN up ELSE Son(f, d, x, s)
      BY <1>7, <1>8, <1>9, TurnSons
    <2> QED BY <1>5, <2>1 DEF Rewired
  <1>14. g[n].parent = up /\ g[up].parent = h[n].parent /\ \A x \in U : x \notin {n, up, inner} => g[x].parent = h[x].parent
    BY <1>2, <1>5, <1>6, <1>9 DEF Turned
  <1>15. RotatedTo(h, U, T, S, d, lev, n, side, up, inner, g, R, Q)
    <2>1. \A x \in U \cup {0} : Q[Mid(g, d, x)] = S[Mid(h, d, x)]
      BY <1>5, <1>11
    <2> QED BY <1>5, <1>11, <1>12, <1>13, <1>14, <2>1 DEF RotatedTo
  <1> QED BY <1>9, <1>15

-----------------------------------------------------------------------------
(***************************************************************************)
(* b[x] is the number of black nodes on every way down from x in its       *)
(* level.  At e the number is m too few, and e may be red under a red node *)
(* or as a root.  A node d that is to be taken out does not count.         *)
(***************************************************************************)
Blk(h, x) == IF h[x].color = BLACK THEN 1 ELSE 0
Seen(b, e, m, y) == IF y = e THEN b[y] + m ELSE b[y]

Counts(h, U, b, d, e, m) ==
  /\ b \in [DOMAIN h -> Nat] /\ b[0] = 0 /\ (d \in U => b[d] = 0)
  /\ \A x \in U \ {d}, s \in Around : b[x] = Seen(b, e, m, h[x][s]) + Blk(h, x)

Reds(h, U, d, e) ==
  /\ \A x \in U \ {e}, s \in Around : h[x].color = RED /\ h[x][s] # e => h[h[x][s]].color = BLACK
  /\ \A x \in U \cup {0} : Mid(h, d, x) \notin {0, e} => h[Mid(h, d, x)].color = BLACK

LEMMA NoHole ==
  ASSUME NEW h, NEW U, NEW T, NEW S, Shape(h, U, T, S, NoNode)
  PROVE  /\ NoNode \notin U \cup {0} /\ NoNode \notin DOMAIN h
         /\ \A x \in U \cup {0} : Mid(h, NoNode, x) = h[x].mid /\ h[x].mid \in U \cup {0}
  <1>1. Wired(h, U, NoNode)
    BY DEF Shape, Loose
  <1>2. NoNode \notin U \cup {0} /\ NoNode \notin DOMAIN h
    BY <1>1 DEF Wired, NoNode
  <1>3. \A x \in U \cup {0} : Mid(h, NoNode, x) = h[x].mid
    BY <1>2 DEF Mid
  <1>4. \A x \in U \cup {0} : Mid(h, NoNode, x) \in U \cup {0}
    BY <1>1, SonIs DEF Wired, Sides
  <1> QED BY <1>2, <1>3, <1>4

LEMMA AroundIn ==
  ASSUME NEW h, NEW U, NEW d, Wired(h, U, d), NEW x \in U, NEW s \in Around
  PROVE  h[x][s] \in U \cup {0} /\ h[x][s] \in DOMAIN h
  BY NodeIn, SonIs DEF Wired

\* A red son comes up past a black node: they change their colors.
LEMMA RedComesUp ==
  ASSUME NEW h, NEW U, NEW T, NEW S, NEW d, NEW lev, NEW n, NEW side, Turning(h, U, T, S, d, lev, n, side),
         NEW up, NEW inner, TurnNodes(h, U, d, lev, n, side, up, inner),
         NEW g, Rewired(h, g, U, d, n, up, inner, side), DOMAIN g = DOMAIN h,
         NEW e, e # 0, NEW m \in Nat, n \notin {d, e}, up \notin {d, e}, NEW b, Counts(h, U, b, d, e, m), Reds(h, U, d, e),
         h[n].color = BLACK, h[up].color = RED, g[n].color = RED, g[up].color = BLACK,
         \A y \in DOMAIN h : y \notin {n, up} => g[y].color = h[y].color,
         h[n][side] = e \/ h[h[n][side]].color = BLACK
  PROVE  /\ \E c : Counts(g, U, c, d, e, m)
         /\ Reds(g, U, d, e)
  <1>1. Loose(h, U, T, S, d) /\ Wired(h, U, d) /\ side \in Around /\ Other(side) \in Around /\ side # Other(side)
        /\ \A s \in Around : s = side \/ s = Other(side)
    BY OtherIs DEF Turning, Shape, Loose
  <1>2. /\ n \in U /\ up \in U /\ inner \in U \cup {0} /\ n # up /\ inner # n /\ inner # up
        /\ h[n][Other(side)] = up /\ h[up][side] = inner /\ h[n][side] \notin {n, up} /\ h[up][Other(side)] \notin {n, up}
    BY DEF TurnNodes
  <1>3. /\ (\A x \in U \cup {0} : x \in DOMAIN h) /\ 0 \notin U
        /\ \A x \in U, s \in Around : h[x][s] \in U \cup {0}
    BY <1>1, NodeIn, AroundIn
  <1>4. /\ b \in [DOMAIN h -> Nat] /\ b[0] = 0 /\ (d \in U => b[d] = 0)
        /\ \A x \in U \ {d}, s \in Around : b[x] = Seen(b, e, m, h[x][s]) + Blk(h, x)
    BY DEF Counts
  <1>5. b[n] \in Nat /\ b[up] \in Nat /\ b[n] = b[up] + 1 /\ b[n] = Seen(b, e, m, h[n][side]) + 1
        /\ b[up] = Seen(b, e, m, inner) /\ b[up] = Seen(b, e, m, h[up][Other(side)])
    <2>1. Blk(h, n) = 1 /\ Blk(h, up) = 0
      BY DEF Blk, BLACK, RED
    <2>2. \A y \in DOMAIN h : b[y] \in Nat /\ Seen(b, e, m, y) \in Nat
      BY <1>4 DEF Seen
    <2>3. Seen(b, e, m, up) = b[up]
      BY DEF Seen
    <2>4. /\ b[n] = Seen(b, e, m, h[n][side]) + 1 /\ b[n] = Seen(b, e, m, up) + 1
          /\ b[up] = Seen(b, e, m, inner) + 0 /\ b[up] = Seen(b, e, m, h[up][Other(side)]) + 0
      BY <1>1, <1>2, <1>4, <2>1
    <2> QED BY <1>1, <1>2, <1>3, <2>2, <2>3, <2>4
  <1>6. PICK c : c = [y \in DOMAIN h |-> IF y = up THEN b[n] ELSE IF y = n THEN b[up] ELSE b[y]]
    OBVIOUS
  <1>7. c \in [DOMAIN h -> Nat] /\ c[up] = b[n] /\ c[n] = b[up] /\ \A y \in DOMAIN h : y \notin {n, up} => c[y] = b[y]
    BY <1>2, <1>3, <1>4, <1>5, <1>6
  <1>8. \A y \in DOMAIN h : y \notin {n, up} => Seen(c, e, m, y) = Seen(b, e, m, y)
    BY <1>7 DEF Seen
  <1>9. Seen(c, e, m, n) = b[up] /\ Seen(c, e, m, up) = b[n] /\ Seen(b, e, m, n) = b[n]
    BY <1>7 DEF Seen
  <1>10. \A x \in U, s \in Around : g[x][s] = IF x = n /\ s = Other(side) THEN inner ELSE IF x = up /\ s = side THEN n
                                              ELSE IF h[x][s] = n THEN up ELSE h[x][s]
    <2>1. \A x \in U, s \in Around : Son(g, d, x, s) = g[x][s] /\ Son(h, d, x, s) = h[x][s] /\ s \in Sides
      BY DEF Son, Around, Sides
    <2> QED BY <2>1 DEF Rewired
  <1>11. ASSUME NEW x \in U, NEW s \in Around, h[x][s] = up PROVE x = n /\ s = Other(side)
    <2>1. Son(h, d, x, s) = h[x][s] /\ Son(h, d, n, Other(side)) = h[n][Other(side)] /\ s \in Sides /\ Other(side) \in Sides
      BY <1>1 DEF Son, Around, Sides
    <2>2. Son(h, d, x, s) = Son(h, d, n, Other(side)) /\ Son(h, d, x, s) # 0
      BY <1>2, <1>3, <1>11, <2>1
    <2> QED BY <1>1, <1>2, <2>1, <2>2, OneParent
  <1>12. /\ g[n][side] = h[n][side] /\ g[n][Other(side)] = inner /\ g[up][side] = n /\ g[up][Other(side)] = h[up][Other(side)]
    BY <1>1, <1>2, <1>10
  <1>13. \A x \in DOMAIN h : x \notin {n, up} => Blk(g, x) = Blk(h, x)
    BY DEF Blk
  <1>14. Blk(g, n) = 0 /\ Blk(g, up) = 1
    BY DEF Blk, BLACK, RED
  <1>15. ASSUME NEW x \in U \ {d}, NEW s \in Around PROVE c[x] = Seen(c, e, m, g[x][s]) + Blk(g, x)
    <2>1. CASE x = n
      <3>1. Seen(c, e, m, g[n][s]) = b[up]
        <4>1. CASE s = side
          BY <1>2, <1>3, <1>5, <1>8, <1>12, <4>1, <1>1, <1>4 DEF Seen
        <4>2. CASE s = Other(side)
          BY <1>2, <1>3, <1>5, <1>8, <1>12, <4>2
        <4> QED BY <1>1, <4>1, <4>2
      <3> QED BY <1>5, <1>7, <1>14, <2>1, <3>1
    <2>2. CASE x = up
      <3>1. Seen(c, e, m, g[up][s]) = b[up]
        <4>1. CASE s = side
          BY <1>9, <1>12, <4>1
        <4>2. CASE s = Other(side)
          BY <1>1, <1>2, <1>3, <1>5, <1>8, <1>12, <4>2
        <4> QED BY <1>1, <4>1, <4>2
      <3> QED BY <1>5, <1>7, <1>14, <2>2, <3>1
    <2>3. CASE x \notin {n, up}
      <3>1. h[x][s] # up
        BY <1>11, <2>3
      <3>2. Seen(c, e, m, g[x][s]) = Seen(b, e, m, h[x][s])
        <4>1. CASE h[x][s] = n
          BY <1>9, <1>10, <2>3, <4>1
        <4>2. CASE h[x][s] # n
          BY <1>3, <1>8, <1>10, <2>3, <3>1, <4>2
        <4> QED BY <4>1, <4>2
      <3> QED BY <1>3, <1>4, <1>7, <1>13, <2>3, <3>2
    <2> QED BY <2>1, <2>2, <2>3
  <1>16. Counts(g, U, c, d, e, m)
    <2>1. 0 \notin {n, up} /\ 0 \in DOMAIN h /\ (d \in U => d \in DOMAIN h)
      BY <1>2, <1>3
    <2> QED BY <1>4, <1>7, <1>15, <2>1 DEF Counts
  <1>17. /\ \A x \in U \ {e}, s \in Around : h[x].color = RED /\ h[x][s] # e => h[h[x][s]].color = BLACK
         /\ \A x \in U \cup {0} : Mid(h, d, x) \notin {0, e} => h[Mid(h, d, x)].color = BLACK
    BY DEF Reds
  <1>18. ASSUME NEW x \in U \ {e}, NEW s \in Around, g[x].color = RED, g[x][s] # e PROVE g[g[x][s]].color = BLACK
    <2>1. CASE x = n
      <3>1. CASE s = side
        BY <1>2, <1>3, <1>12, <1>18, <2>1, <3>1, <1>1
      <3>2. CASE s = Other(side)
        <4>1. h[inner].color = BLACK
          BY <1>1, <1>2, <1>12, <1>17, <1>18, <2>1, <3>2
        <4> QED BY <1>2, <1>3, <1>12, <2>1, <3>2, <4>1
      <3> QED BY <1>1, <3>1, <3>2
    <2>2. CASE x = up
      BY <1>18, <2>2 DEF RED, BLACK
    <2>3. CASE x \notin {n, up}
      <3>1. h[x].color = RED /\ h[x][s] # up
        BY <1>3, <1>11, <1>18, <2>3
      <3>2. CASE h[x][s] = n
        BY <1>10, <2>3, <3>2
      <3>3. CASE h[x][s] # n
        <4>1. g[x][s] = h[x][s] /\ h[x][s] \in DOMAIN h
          BY <1>3, <1>10, <2>3, <3>3
        <4> QED BY <1>17, <1>18, <3>1, <3>3, <4>1
      <3> QED BY <3>2, <3>3
    <2> QED BY <2>1, <2>2, <2>3
  <1>19. ASSUME NEW x \in U \cup {0}, Mid(g, d, x) \notin {0, e} PROVE g[Mid(g, d, x)].color = BLACK
    <2>1. Mid(g, d, x) = IF Mid(h, d, x) = n THEN up ELSE Mid(h, d, x)
      BY <1>1, SonIs DEF Rewired, Sides, Around
    <2>2. CASE Mid(h, d, x) = n
      BY <2>1, <2>2
    <2>3. CASE Mid(h, d, x) # n
      <3>1. Mid(g, d, x) = Mid(h, d, x) /\ Mid(h, d, x) \in U \cup {0} /\ h[Mid(h, d, x)].color = BLACK
        BY <1>1, <1>17, <1>19, <2>1, <2>3, SonIs DEF Wired, Sides
      <3>2. Mid(h, d, x) # up
        BY <3>1 DEF BLACK, RED
      <3> QED BY <1>3, <2>3, <3>1, <3>2
    <2> QED BY <2>2, <2>3
  <1> QED BY <1>16, <1>18, <1>19 DEF Reds

-----------------------------------------------------------------------------
(***************************************************************************)
(* add_fixup: the red node p of the level of lev may be under a red one.   *)
(***************************************************************************)
Adding(h, U, T, S, b, lev, p) ==
  /\ Shape(h, U, T, S, NoNode) /\ Counts(h, U, b, NoNode, p, 0) /\ Reds(h, U, NoNode, p)
  /\ lev \in U \cup {0} /\ p \in S[h[lev].mid] /\ h[p].color = RED
  /\ \A s \in Around : h[h[p][s]].color = BLACK

\* p is the son on side r of the red node q, which is the son on side s of the black node o.
AddPlace(h, U, S, lev, p, q, r, o, s) ==
  /\ p \in U /\ q \in U /\ o \in U /\ p # q /\ q # o /\ p # o /\ r \in Around /\ s \in Around
  /\ q \in S[h[lev].mid] /\ o \in S[h[lev].mid]
  /\ h[p].parent = q /\ h[q].parent = o /\ h[q][r] = p /\ h[o][s] = q
  /\ h[q].color = RED /\ h[o].color = BLACK

LEMMA BlackIsNotRed == BLACK # RED /\ BLACK \in {BLACK, RED} /\ RED \in {BLACK, RED}
  BY DEF BLACK, RED

LEMMA AddPlaceIs ==
  ASSUME NEW h, NEW U, NEW T, NEW S, NEW b, NEW lev, NEW p, Adding(h, U, T, S, b, lev, p), ~AddEnds(h, p)
  PROVE  \E q, r, o, s : /\ AddPlace(h, U, S, lev, p, q, r, o, s)
                         /\ q = h[p].parent /\ o = h[q].parent /\ r = Hangs(h, p) /\ s = Hangs(h, q)
  <1>1. /\ Shape(h, U, T, S, NoNode) /\ Loose(h, U, T, S, NoNode) /\ Wired(h, U, NoNode) /\ Bounded(h, U, T, NoNode)
        /\ lev \in U \cup {0} /\ p \in S[h[lev].mid] /\ Reds(h, U, NoNode, p) /\ h[p].color = RED
    BY DEF Adding, Shape, Loose
  <1>2. PICK z : z = h[lev].mid /\ z = Mid(h, NoNode, lev)
    BY <1>1, NoHole
  <1>3. z \in U /\ p \in U /\ (h[p].parent = 0 <=> p = z) /\ 0 \notin U
    BY <1>1, <1>2, RootIs, NodeIn
  <1>4. PICK q : q = h[p].parent /\ q # 0 /\ h[q].color = RED
    BY DEF AddEnds
  <1>5. PICK r : r = Hangs(h, p)
    OBVIOUS
  <1>6. q \in S[z] /\ q \in U /\ r \in Around /\ h[q][r] = p
    BY <1>1, <1>2, <1>3, <1>4, <1>5, ParentInLevel
  <1>7. p # q
    BY <1>1, <1>6, <1>3, HangsIs
  <1>8. q # z
    <2>1. q # z \/ h[z].color = BLACK
      BY <1>1, <1>2, <1>3, <1>7 DEF Reds
    <2> QED BY <1>4, <2>1, BlackIsNotRed
  <1>9. PICK o : o = h[q].parent
    OBVIOUS
  <1>10. PICK s : s = Hangs(h, q)
    OBVIOUS
  <1>11. o \in S[z] /\ o \in U /\ s \in Around /\ h[o][s] = q
    BY <1>1, <1>3, <1>6, <1>8, <1>9, <1>10, ParentInLevel
  <1>12. q # o
    BY <1>1, <1>3, <1>6, <1>11, HangsIs
  <1>13. p # o
    <2>1. q \in T[o] /\ p \in T[q] /\ o \notin T[q]
      BY <1>1, <1>3, <1>6, <1>11, SonIs DEF Bounded
    <2> QED BY <2>1
  <1>14. h[o].color = BLACK
    <2>1. h[o].color \in {BLACK, RED}
      BY <1>1, <1>11, NodeIn, HeapFields DEF Wired
    <2>2. h[o].color = RED => h[q].color = BLACK
      BY <1>1, <1>7, <1>11, <1>13 DEF Reds
    <2> QED BY <1>4, <2>1, <2>2, BlackIsNotRed
  <1> QED BY <1>2, <1>3, <1>4, <1>5, <1>6, <1>7, <1>9, <1>10, <1>11, <1>12, <1>13, <1>14 DEF AddPlace

LEMMA NoneLess ==
  ASSUME NEW A, NEW B, NoNode \notin A, NoNode \notin B, A \ {NoNode} = B \ {NoNode}
  PROVE  A = B
  OBVIOUS

\* q under a red p: the parent of the sum of what they see is the same.
LEMMA AddInner ==
  ASSUME NEW h, NEW U, NEW T, NEW S, NEW b, NEW lev, NEW p, Adding(h, U, T, S, b, lev, p),
         NEW q, NEW r, NEW o, NEW s, AddPlace(h, U, S, lev, p, q, r, o, s), r = Other(s),
         NEW g, g = Rotate(h, lev, q, s)
  PROVE  \E R, Q : /\ Adding(g, U, R, Q, b, lev, q) /\ Alike(h, T, S, g, R, Q, U, NoNode, lev)
                   /\ AddPlace(g, U, Q, lev, q, p, s, o, s) /\ g[o][Other(s)] = h[o][Other(s)]
                   /\ \A y \in DOMAIN h : g[y].color = h[y].color
  <1>1. /\ Shape(h, U, T, S, NoNode) /\ Loose(h, U, T, S, NoNode) /\ Wired(h, U, NoNode) /\ Bounded(h, U, T, NoNode)
        /\ lev \in U \cup {0} /\ p \in S[h[lev].mid] /\ Reds(h, U, NoNode, p) /\ h[p].color = RED
        /\ Counts(h, U, b, NoNode, p, 0) /\ \A x \in Around : h[h[p][x]].color = BLACK
    BY DEF Adding, Shape, Loose
  <1>2. /\ p \in U /\ q \in U /\ o \in U /\ p # q /\ q # o /\ p # o /\ r \in Around /\ s \in Around
        /\ q \in S[h[lev].mid] /\ o \in S[h[lev].mid]
        /\ h[p].parent = q /\ h[q].parent = o /\ h[q][r] = p /\ h[o][s] = q
        /\ h[q].color = RED /\ h[o].color = BLACK
    BY DEF AddPlace
  <1>3. lev # NoNode /\ Mid(h, NoNode, lev) = h[lev].mid /\ (\A x \in U \cup {0} : x \in DOMAIN h) /\ 0 \notin U
        /\ \A x \in U, t \in Around : h[x][t] \in U \cup {0}
    BY <1>1, NoHole, NodeIn, AroundIn
  <1>4. Turning(h, U, T, S, NoNode, lev, q, s)
    BY <1>1, <1>2, <1>3, NoHole DEF Turning, Upper
  <1>5. PICK up, inner : TurnNodes(h, U, NoNode, lev, q, s, up, inner)
    BY <1>4, TurnNodesAre
  <1>6. up = p /\ inner = h[p][s] /\ h[q][s] \notin {p, q} /\ inner \notin {p, q} /\ inner \in U \cup {0} /\ h[p][Other(s)] \notin {p, q}
    BY <1>2, <1>5 DEF TurnNodes
  <1>7. Painted(h, h, {})
    BY <1>1, PaintedSelf DEF Wired
  <1>8. /\ \E R, Q : RotatedTo(h, U, T, S, NoNode, lev, q, s, up, inner, g, R, Q)
        /\ \A y \in DOMAIN h : g[y].color = h[y].color
    BY <1>3, <1>4, <1>5, <1>7, PaintedTurn
  <1>9. PICK R, Q : RotatedTo(h, U, T, S, NoNode, lev, q, s, up, inner, g, R, Q)
    BY <1>8
  <1>10. /\ Shape(g, U, R, Q, NoNode) /\ Alike(h, T, S, g, R, Q, U, NoNode, lev) /\ Rewired(h, g, U, NoNode, q, p, inner, s)
         /\ \A x \in U \cup {0} : Q[Mid(g, NoNode, x)] = S[Mid(h, NoNode, x)]
         /\ g[q].parent = p /\ g[p].parent = o
    BY <1>2, <1>6, <1>9 DEF RotatedTo
  <1>11. s \in Around /\ Other(s) \in Around /\ s # Other(s) /\ \A x \in Around : x = s \/ x = Other(s)
    BY <1>2, OtherIs
  <1>12. \A x \in U, t \in Around : g[x][t] = IF x = q /\ t = Other(s) THEN inner ELSE IF x = p /\ t = s THEN q
                                              ELSE IF h[x][t] = q THEN p ELSE h[x][t]
    <2>1. \A x \in U, t \in Around : Son(g, NoNode, x, t) = g[x][t] /\ Son(h, NoNode, x, t) = h[x][t] /\ t \in Sides
      BY DEF Son, Around, Sides
    <2> QED BY <1>10, <2>1 DEF Rewired
  <1>13. ASSUME NEW x \in U, NEW t \in Around, NEW y \in U, NEW w \in Around, h[x][t] = h[y][w], h[x][t] # 0 PROVE x = y /\ t = w
    <2>1. Son(h, NoNode, x, t) = h[x][t] /\ Son(h, NoNode, y, w) = h[y][w] /\ t \in Sides /\ w \in Sides
      BY DEF Son, Around, Sides
    <2> QED BY <1>1, <1>13, <2>1, OneParent
  <1>14. \A x \in U \cup {0} : Mid(g, NoNode, x) = Mid(h, NoNode, x) /\ Mid(h, NoNode, x) \notin {p, q}
    <2> TAKE x \in U \cup {0}
    <2>1. "mid" \in Sides /\ "mid" \notin Around /\ Son(g, NoNode, x, "mid") = Mid(g, NoNode, x) /\ Son(h, NoNode, x, "mid") = Mid(h, NoNode, x)
      BY DEF Son, Sides, Around
    <2>2. Mid(h, NoNode, x) \notin {p, q}
      <3>1. Mid(h, NoNode, x) # 0 => h[Mid(h, NoNode, x)].parent = 0
        BY <1>1 DEF Wired
      <3> QED BY <1>2, <1>3, <3>1
    <2> QED BY <1>10, <1>11, <2>1, <2>2 DEF Rewired
  <1>15. Counts(g, U, b, NoNode, q, 0)
    <2>1. /\ b \in [DOMAIN h -> Nat] /\ b[0] = 0 /\ \A x \in U, t \in Around : b[x] = b[h[x][t]] + Blk(h, x)
      <3>1. \A y \in DOMAIN h : b[y] \in Nat => Seen(b, p, 0, y) = b[y]
        BY DEF Seen
      <3>2. NoNode \notin U /\ b \in [DOMAIN h -> Nat] /\ b[0] = 0
        BY <1>1, NoHole DEF Counts
      <3> QED BY <1>1, <1>3, <3>1, <3>2 DEF Counts
    <2>2. \A x \in DOMAIN h : Blk(g, x) = Blk(h, x) /\ Blk(h, x) \in Nat /\ b[x] \in Nat
      BY <1>8, <2>1 DEF Blk
    <2>3. Blk(h, p) = 0 /\ Blk(h, q) = 0
      BY <1>1, <1>2, BlackIsNotRed DEF Blk
    <2>4. b[q] = b[p] /\ b[q] = b[h[q][s]] /\ b[p] = b[inner] /\ b[p] = b[h[p][Other(s)]]
      <3>1. b[q] = b[p] + 0 /\ b[q] = b[h[q][s]] + 0 /\ b[p] = b[inner] + 0 /\ b[p] = b[h[p][Other(s)]] + 0
        BY <1>2, <1>6, <1>11, <2>1, <2>3
      <3>2. p \in DOMAIN h /\ q \in DOMAIN h /\ inner \in DOMAIN h /\ h[q][s] \in DOMAIN h /\ h[p][Other(s)] \in DOMAIN h
        BY <1>2, <1>3, <1>6, <1>11
      <3> QED BY <2>2, <3>1, <3>2
    <2>5. ASSUME NEW x \in U, NEW t \in Around PROVE b[x] = b[g[x][t]] + Blk(g, x) /\ g[x][t] \in DOMAIN h
      <3>1. CASE x = q
        <4>1. g[q][t] = inner \/ g[q][t] = h[q][s]
          BY <1>2, <1>6, <1>11, <1>12
        <4>2. b[g[q][t]] = b[q] /\ g[q][t] \in DOMAIN h
          BY <1>2, <1>3, <1>6, <2>4, <4>1
        <4> QED BY <1>2, <1>3, <2>2, <2>3, <3>1, <4>2
      <3>2. CASE x = p
        <4>1. g[p][t] = q \/ g[p][t] = h[p][Other(s)]
          BY <1>2, <1>6, <1>11, <1>12
        <4>2. b[g[p][t]] = b[p] /\ g[p][t] \in DOMAIN h
          BY <1>2, <1>3, <1>6, <1>11, <2>4, <4>1
        <4> QED BY <1>2, <1>3, <2>2, <2>3, <3>2, <4>2
      <3>3. CASE x \notin {p, q}
        <4>1. b[g[x][t]] = b[h[x][t]] /\ g[x][t] \in DOMAIN h
          <5>1. g[x][t] = IF h[x][t] = q THEN p ELSE h[x][t]
            BY <1>12, <3>3
          <5> QED BY <1>2, <1>3, <2>4, <5>1
        <4> QED BY <1>3, <2>1, <2>2, <4>1
      <3> QED BY <3>1, <3>2, <3>3
    <2>6. \A y \in DOMAIN h : Seen(b, q, 0, y) = b[y]
      BY <2>2 DEF Seen
    <2>7. DOMAIN g = DOMAIN h /\ NoNode \notin U
      BY <1>1, <1>10, NoHole DEF Alike
    <2> QED BY <2>1, <2>5, <2>6, <2>7 DEF Counts
  <1>16. /\ \A x \in U \ {p}, t \in Around : h[x].color = RED /\ h[x][t] # p => h[h[x][t]].color = BLACK
         /\ \A x \in U \cup {0} : Mid(h, NoNode, x) \notin {0, p} => h[Mid(h, NoNode, x)].color = BLACK
    BY <1>1 DEF Reds
  <1>17. Reds(g, U, NoNode, q)
    <2>1. ASSUME NEW x \in U \ {q}, NEW t \in Around, g[x].color = RED, g[x][t] # q PROVE g[g[x][t]].color = BLACK
      <3>1. CASE x = p
        <4>1. t = Other(s) /\ g[x][t] = h[p][t] /\ h[p][t] \in DOMAIN h
          BY <1>2, <1>3, <1>6, <1>11, <1>12, <2>1, <3>1
        <4> QED BY <1>1, <1>8, <4>1
      <3>2. CASE x # p
        <4>1. h[x].color = RED /\ x # o /\ x \in U
          BY <1>2, <1>3, <1>8, <2>1, BlackIsNotRed
        <4>2. h[x][t] # q
          BY <1>2, <1>3, <1>13, <4>1
        <4>3. h[x][t] # p
          BY <1>2, <1>3, <1>13, <4>1, <2>1
        <4>4. g[x][t] = h[x][t] /\ h[x][t] \in DOMAIN h
          BY <1>3, <1>12, <2>1, <3>2, <4>2
        <4> QED BY <1>8, <1>16, <3>2, <4>1, <4>3, <4>4
      <3> QED BY <3>1, <3>2
    <2>2. ASSUME NEW x \in U \cup {0}, Mid(g, NoNode, x) \notin {0, q} PROVE g[Mid(g, NoNode, x)].color = BLACK
      <3>1. Mid(h, NoNode, x) \in DOMAIN h
        BY <1>1, <1>3, NoHole
      <3> QED BY <1>8, <1>14, <1>16, <2>2, <3>1
    <2> QED BY <2>1, <2>2 DEF Reds
  <1>18. \A t \in Around : g[g[q][t]].color = BLACK
    <2> TAKE t \in Around
    <2>1. CASE t = Other(s)
      BY <1>1, <1>2, <1>3, <1>6, <1>8, <1>12, <2>1
    <2>2. CASE t = s
      <3>1. g[q][s] = h[q][s] /\ h[q][s] \in DOMAIN h /\ h[q][s] # p
        BY <1>2, <1>3, <1>6, <1>11, <1>12
      <3>2. h[h[q][s]].color = BLACK
        BY <1>2, <1>11, <1>16, <3>1
      <3> QED BY <1>8, <2>2, <3>1, <3>2
    <2> QED BY <1>11, <2>1, <2>2
  <1>19. Q[g[lev].mid] = S[h[lev].mid]
    BY <1>1, <1>3, <1>10, NoHole
  <1>20. Adding(g, U, R, Q, b, lev, q)
    BY <1>1, <1>2, <1>3, <1>8, <1>10, <1>15, <1>17, <1>18, <1>19 DEF Adding
  <1>21. g[o][s] = p /\ g[p][s] = q /\ g[o][Other(s)] = h[o][Other(s)]
    <2>1. h[o][Other(s)] # q
      BY <1>2, <1>3, <1>11, <1>13
    <2> QED BY <1>2, <1>11, <1>12, <2>1
  <1>22. AddPlace(g, U, Q, lev, q, p, s, o, s)
    BY <1>1, <1>2, <1>3, <1>8, <1>10, <1>19, <1>21 DEF AddPlace
  <1> QED BY <1>8, <1>10, <1>20, <1>21, <1>22

-----------------------------------------------------------------------------
\* p outside under a red q whose sibling is black: q comes up, and nothing is left to do.
LEMMA AddOuter ==
  ASSUME NEW h, NEW U, NEW T, NEW S, NEW b, NEW lev, NEW p, Adding(h, U, T, S, b, lev, p),
         NEW q, NEW o, NEW s, AddPlace(h, U, S, lev, p, q, s, o, s), h[h[o][Other(s)]].color = BLACK,
         NEW g, g = Rotate(Color(Color(h, q, BLACK), o, RED), lev, o, Other(s))
  PROVE  \E R, Q, c : Adding(g, U, R, Q, c, lev, p) /\ Alike(h, T, S, g, R, Q, U, NoNode, lev) /\ AddEnds(g, p)
  <1>1. /\ Shape(h, U, T, S, NoNode) /\ Loose(h, U, T, S, NoNode) /\ Wired(h, U, NoNode) /\ Bounded(h, U, T, NoNode)
        /\ lev \in U \cup {0} /\ p \in S[h[lev].mid] /\ Reds(h, U, NoNode, p) /\ h[p].color = RED
        /\ Counts(h, U, b, NoNode, p, 0) /\ \A x \in Around : h[h[p][x]].color = BLACK
    BY DEF Adding, Shape, Loose
  <1>2. /\ p \in U /\ q \in U /\ o \in U /\ p # q /\ q # o /\ p # o /\ s \in Around
        /\ q \in S[h[lev].mid] /\ o \in S[h[lev].mid]
        /\ h[p].parent = q /\ h[q].parent = o /\ h[q][s] = p /\ h[o][s] = q
        /\ h[q].color = RED /\ h[o].color = BLACK
    BY DEF AddPlace
  <1>3. lev # NoNode /\ Mid(h, NoNode, lev) = h[lev].mid /\ (\A x \in U \cup {0} : x \in DOMAIN h) /\ 0 \notin U
        /\ (\A x \in U, t \in Around : h[x][t] \in U \cup {0}) /\ NoNode \notin U
    BY <1>1, NoHole, NodeIn, AroundIn
  <1>4. Other(s) \in Around /\ Other(Other(s)) = s /\ s # Other(s) /\ \A t \in Around : t = s \/ t = Other(s)
    BY <1>2, OtherIs
  <1>5. Turning(h, U, T, S, NoNode, lev, o, Other(s))
    BY <1>1, <1>2, <1>3, <1>4 DEF Turning, Upper
  <1>6. PICK up, inner : TurnNodes(h, U, NoNode, lev, o, Other(s), up, inner)
    BY <1>5, TurnNodesAre
  <1>7. up = q /\ inner = h[q][Other(s)] /\ h[q][s] \notin {o, q} /\ inner \notin {o, q} /\ (h[q][s] = inner => inner = 0)
    BY <1>2, <1>4, <1>6 DEF TurnNodes
  <1>8. inner # p
    BY <1>2, <1>3, <1>7
  <1>9. PICK f1 : f1 = Color(h, q, BLACK)
    OBVIOUS
  <1>10. PICK f : f = Color(f1, o, RED)
    OBVIOUS
  <1>11. Painted(f, h, {q, o}) /\ f[q].color = BLACK /\ f[o].color = RED /\ \A y \in DOMAIN h : y \notin {q, o} => f[y].color = h[y].color
    <2>0. BLACK \in {BLACK, RED} /\ RED \in {BLACK, RED} /\ q \in DOMAIN h /\ o \in DOMAIN h /\ q \in {q, o} /\ o \in {q, o}
      BY <1>2, <1>3
    <2>1. Painted(h, h, {q, o})
      BY <1>1, PaintedSelf DEF Wired
    <2>2. OnePainted(f1, h, h, {q, o}, q, BLACK)
      BY <1>9, <2>0, <2>1, PaintMore
    <2>3. OnePainted(f, f1, h, {q, o}, o, RED)
      <3>1. Painted(f1, h, {q, o})
        BY <2>2 DEF OnePainted
      <3> QED BY <1>10, <2>0, <3>1, PaintMore
    <2> QED BY <1>2, <1>3, <2>2, <2>3 DEF OnePainted
  <1>12. /\ \E R, Q : RotatedTo(h, U, T, S, NoNode, lev, o, Other(s), up, inner, g, R, Q)
         /\ \A y \in DOMAIN h : g[y].color = f[y].color
    <2>1. {q, o} \subseteq S[h[lev].mid]
      BY <1>2
    <2>2. g = Rotate(f, lev, o, Other(s))
      BY <1>9, <1>10
    <2> QED BY <1>3, <1>5, <1>6, <1>11, <2>1, <2>2, PaintedTurn
  <1>13. PICK R, Q : RotatedTo(h, U, T, S, NoNode, lev, o, Other(s), up, inner, g, R, Q)
    BY <1>12
  <1>14. /\ Shape(g, U, R, Q, NoNode) /\ Alike(h, T, S, g, R, Q, U, NoNode, lev) /\ Rewired(h, g, U, NoNode, o, up, inner, Other(s))
         /\ \A x \in U \cup {0} : Q[Mid(g, NoNode, x)] = S[Mid(h, NoNode, x)]
         /\ g[p].parent = q
    <2>1. p \notin {o, up, inner}
      BY <1>2, <1>7, <1>8
    <2> QED BY <1>2, <1>13, <2>1 DEF RotatedTo
  <1>15. DOMAIN g = DOMAIN h
    BY <1>14 DEF Alike
  <1>16. g[o].color = RED /\ g[q].color = BLACK /\ \A y \in DOMAIN h : y \notin {o, q} => g[y].color = h[y].color
    BY <1>2, <1>3, <1>11, <1>12
  <1>17. (\E c : Counts(g, U, c, NoNode, p, 0)) /\ Reds(g, U, NoNode, p)
    <2>1. p # 0 /\ 0 \in Nat /\ o \notin {NoNode, p} /\ q \notin {NoNode, p} /\ up = q
      BY <1>2, <1>3, <1>7
    <2> QED BY <1>1, <1>2, <1>5, <1>6, <1>14, <1>15, <1>16, <2>1, RedComesUp
  <1>18. Q[g[lev].mid] = S[h[lev].mid]
    BY <1>1, <1>3, <1>14, NoHole
  <1>19. g[p].color = RED
    BY <1>1, <1>2, <1>3, <1>16
  <1>20. \A t \in Around : g[g[p][t]].color = BLACK
    <2> TAKE t \in Around
    <2>1. g[p][t] = IF h[p][t] = o THEN q ELSE h[p][t]
      <3>1. Son(g, NoNode, p, t) = g[p][t] /\ Son(h, NoNode, p, t) = h[p][t] /\ t \in Sides /\ p \notin {o, up}
        BY <1>2, <1>7 DEF Son, Around, Sides
      <3> QED BY <1>2, <1>7, <1>14, <3>1 DEF Rewired
    <2>2. h[p][t] \in DOMAIN h /\ h[h[p][t]].color = BLACK
      BY <1>1, <1>2, <1>3
    <2>3. h[p][t] # q
      BY <1>2, <2>2, BlackIsNotRed
    <2> QED BY <1>16, <2>1, <2>2, <2>3
  <1>21. PICK c : Counts(g, U, c, NoNode, p, 0)
    BY <1>17
  <1>22. Adding(g, U, R, Q, c, lev, p)
    BY <1>1, <1>14, <1>17, <1>18, <1>19, <1>20, <1>21 DEF Adding
  <1>23. AddEnds(g, p)
    BY <1>14, <1>16, BlackIsNotRed DEF AddEnds
  <1> QED BY <1>14, <1>22, <1>23

\* A red sibling: the two sons of o become black, and o the red one.
LEMMA AddPaint ==
  ASSUME NEW h, NEW U, NEW T, NEW S, NEW b, NEW lev, NEW p, Adding(h, U, T, S, b, lev, p),
         NEW q, NEW r, NEW o, NEW s, AddPlace(h, U, S, lev, p, q, r, o, s), h[h[o][Other(s)]].color = RED,
         NEW g, g = Color(Color(Color(h, q, BLACK), h[o][Other(s)], BLACK), o, RED)
  PROVE  \E c : Adding(g, U, T, S, c, lev, o) /\ Alike(h, T, S, g, T, S, U, NoNode, lev)
  <1>1. /\ Shape(h, U, T, S, NoNode) /\ Loose(h, U, T, S, NoNode) /\ Wired(h, U, NoNode) /\ Bounded(h, U, T, NoNode)
        /\ lev \in U \cup {0} /\ p \in S[h[lev].mid] /\ Reds(h, U, NoNode, p) /\ h[p].color = RED
        /\ Counts(h, U, b, NoNode, p, 0) /\ \A x \in Around : h[h[p][x]].color = BLACK
    BY DEF Adding, Shape, Loose
  <1>2. /\ p \in U /\ q \in U /\ o \in U /\ p # q /\ q # o /\ p # o /\ r \in Around /\ s \in Around
        /\ q \in S[h[lev].mid] /\ o \in S[h[lev].mid]
        /\ h[p].parent = q /\ h[q].parent = o /\ h[q][r] = p /\ h[o][s] = q
        /\ h[q].color = RED /\ h[o].color = BLACK
    BY DEF AddPlace
  <1>3. lev # NoNode /\ Mid(h, NoNode, lev) = h[lev].mid /\ (\A x \in U \cup {0} : x \in DOMAIN h) /\ 0 \notin U
        /\ (\A x \in U, t \in Around : h[x][t] \in U \cup {0}) /\ NoNode \notin U
    BY <1>1, NoHole, NodeIn, AroundIn
  <1>4. Other(s) \in Around /\ Other(Other(s)) = s /\ s # Other(s) /\ \A t \in Around : t = s \/ t = Other(s)
    BY <1>2, OtherIs
  <1>5. PICK v : v = h[o][Other(s)]
    OBVIOUS
  <1>6. v \in U /\ h[v].color = RED /\ h[v].parent = o /\ v # o
    <2>1. v # 0
      BY <1>1, <1>5, BlackIsNotRed DEF Wired
    <2> QED BY <1>1, <1>2, <1>4, <1>5, <2>1, HangsIs
  <1>7. v # q
    <2> SUFFICES ASSUME v = q PROVE FALSE
      OBVIOUS
    <2>1. h[o]["left"] = q /\ h[o]["right"] = q
      BY <1>2, <1>4, <1>5 DEF Around
    <2> QED BY <1>1, <1>2, <1>3, <2>1, TwoSons
  <1>8. v # p
    BY <1>2, <1>6
  <1>9. PICK z : z = h[lev].mid /\ z \in U
    BY <1>1, <1>3, RootIs
  <1>10. v \in S[z]
    <2>1. v \in S[v] /\ S[v] \subseteq S[o] /\ S[o] \subseteq S[z]
      <3>1. \A x \in U : x \in S[x] /\ \A y \in S[x] : S[y] \subseteq S[x]
        BY <1>1, LevelIs
      <3>2. \A x \in U, t \in Around : S[h[x][t]] \subseteq S[x]
        BY <1>1 DEF Loose, Levels, Around
      <3> QED BY <1>2, <1>4, <1>5, <1>6, <1>9, <3>1, <3>2
    <2> QED BY <2>1
  <1>11. PICK f1 : f1 = Color(h, q, BLACK)
    OBVIOUS
  <1>12. PICK f2 : f2 = Color(f1, v, BLACK)
    OBVIOUS
  <1>13. Painted(g, h, {q, v, o}) /\ g[q].color = BLACK /\ g[v].color = BLACK /\ g[o].color = RED
         /\ \A y \in DOMAIN h : y \notin {q, v, o} => g[y].color = h[y].color
    <2>0. BLACK \in {BLACK, RED} /\ RED \in {BLACK, RED} /\ q \in {q, v, o} /\ v \in {q, v, o} /\ o \in {q, v, o}
      OBVIOUS
    <2>1. Painted(h, h, {q, v, o}) /\ q \in DOMAIN h /\ v \in DOMAIN h /\ o \in DOMAIN h
      BY <1>1, <1>2, <1>3, <1>6, PaintedSelf DEF Wired
    <2>2. OnePainted(f1, h, h, {q, v, o}, q, BLACK)
      BY <1>11, <2>0, <2>1, PaintMore
    <2>3. OnePainted(f2, f1, h, {q, v, o}, v, BLACK)
      <3>1. Painted(f1, h, {q, v, o})
        BY <2>2 DEF OnePainted
      <3> QED BY <1>12, <2>0, <2>1, <3>1, PaintMore
    <2>5. g = Color(f2, o, RED)
      BY <1>5, <1>11, <1>12
    <2>4. OnePainted(g, f2, h, {q, v, o}, o, RED)
      <3>1. Painted(f2, h, {q, v, o})
        BY <2>3 DEF OnePainted
      <3> QED BY <2>0, <2>1, <2>5, <3>1, PaintMore
    <2> QED BY <1>2, <1>6, <1>7, <2>1, <2>2, <2>3, <2>4 DEF OnePainted
  <1>14. Shape(g, U, T, S, NoNode) /\ Alike(h, T, S, g, T, S, U, NoNode, lev) /\ DOMAIN g = DOMAIN h
    <2>1. 0 \notin {q, v, o} /\ {q, v, o} \subseteq S[h[lev].mid]
      BY <1>2, <1>3, <1>6, <1>9, <1>10
    <2> QED BY <1>1, <1>13, <2>1, PaintedShape, PaintedAlike DEF Painted
  <1>15. \A x \in U : (\A t \in Around : g[x][t] = h[x][t]) /\ Mid(g, NoNode, x) = Mid(h, NoNode, x)
    BY <1>3, <1>13, PaintedSons
  <1>16. Mid(g, NoNode, 0) = Mid(h, NoNode, 0) /\ g[lev].mid = h[lev].mid
    <2>1. 0 \in DOMAIN h /\ lev \in DOMAIN h
      BY <1>1, <1>3
    <2> QED BY <1>13, <2>1, PaintedSons
  <1>17. /\ b \in [DOMAIN h -> Nat] /\ b[0] = 0 /\ \A x \in U, t \in Around : b[x] = b[h[x][t]] + Blk(h, x)
    <2>1. \A y \in DOMAIN h : b[y] \in Nat => Seen(b, p, 0, y) = b[y]
      BY DEF Seen
    <2>2. b \in [DOMAIN h -> Nat] /\ b[0] = 0
      BY <1>1 DEF Counts
    <2> QED BY <1>1, <1>3, <2>1, <2>2 DEF Counts
  <1>18. PICK c : c = [x \in DOMAIN h |-> IF x \in {q, v} THEN b[x] + 1 ELSE b[x]]
    OBVIOUS
  <1>19. c \in [DOMAIN h -> Nat] /\ c[0] = 0 /\ \A x \in DOMAIN h : c[x] = IF x \in {q, v} THEN b[x] + 1 ELSE b[x]
    BY <1>2, <1>3, <1>6, <1>17, <1>18
  <1>20. ASSUME NEW x \in U, NEW t \in Around, h[x][t] \in {q, v} PROVE x = o
    BY <1>1, <1>2, <1>3, <1>6, <1>20, HangsIs
  <1>21. ASSUME NEW x \in U, NEW t \in Around PROVE c[x] = c[g[x][t]] + Blk(g, x)
    <2>1. g[x][t] = h[x][t] /\ h[x][t] \in DOMAIN h /\ x \in DOMAIN h /\ b[x] = b[h[x][t]] + Blk(h, x) /\ b[x] \in Nat /\ b[h[x][t]] \in Nat
      BY <1>3, <1>15, <1>17
    <2>2. CASE x = o
      <3>1. h[x][t] \in {q, v} /\ x \notin {q, v}
        BY <1>2, <1>4, <1>5, <1>6, <2>2
      <3>2. Blk(h, x) = 1 /\ Blk(g, x) = 0
        BY <1>2, <1>13, <2>2, BlackIsNotRed DEF Blk
      <3> QED BY <1>19, <2>1, <3>1, <3>2
    <2>3. CASE x \in {q, v}
      <3>1. h[x][t] \notin {q, v}
        BY <1>2, <1>6, <1>20, <2>3
      <3>2. Blk(h, x) = 0 /\ Blk(g, x) = 1
        BY <1>2, <1>6, <1>13, <2>3, BlackIsNotRed DEF Blk
      <3> QED BY <1>19, <2>1, <2>3, <3>1, <3>2
    <2>4. CASE x \notin {q, v, o}
      <3>1. h[x][t] \notin {q, v}
        BY <1>20, <2>4
      <3>2. Blk(g, x) = Blk(h, x)
        BY <1>13, <2>1, <2>4 DEF Blk
      <3> QED BY <1>19, <2>1, <2>4, <3>1, <3>2
    <2> QED BY <2>2, <2>3, <2>4
  <1>22. Counts(g, U, c, NoNode, o, 0)
    <2>1. \A x \in U, t \in Around : Seen(c, o, 0, g[x][t]) = c[g[x][t]]
      <3>1. \A y \in DOMAIN h : Seen(c, o, 0, y) = c[y]
        BY <1>19 DEF Seen
      <3> QED BY <1>3, <1>15, <3>1
    <2> QED BY <1>3, <1>14, <1>19, <1>21, <2>1 DEF Counts
  <1>23. /\ \A x \in U \ {p}, t \in Around : h[x].color = RED /\ h[x][t] # p => h[h[x][t]].color = BLACK
         /\ \A x \in U \cup {0} : Mid(h, NoNode, x) \notin {0, p} => h[Mid(h, NoNode, x)].color = BLACK
    BY <1>1 DEF Reds
  <1>24. \A y \in DOMAIN h : h[y].color = BLACK /\ y # o => g[y].color = BLACK
    BY <1>13, <1>2, <1>6, BlackIsNotRed
  <1>25. ASSUME NEW x \in U \ {o}, NEW t \in Around, g[x].color = RED, g[x][t] # o PROVE g[g[x][t]].color = BLACK
    <2>1. g[x][t] = h[x][t] /\ h[x][t] \in DOMAIN h /\ x \in DOMAIN h /\ x \notin {q, v}
      BY <1>3, <1>13, <1>15, <1>25, BlackIsNotRed
    <2>2. h[x].color = RED
      BY <1>13, <1>25, <2>1
    <2>3. CASE x = p
      BY <1>1, <1>24, <1>25, <2>1, <2>3
    <2>4. CASE x # p
      <3>1. h[x][t] # p
        BY <1>1, <1>2, <1>3, <2>1, <2>4, HangsIs
      <3> QED BY <1>23, <1>24, <1>25, <2>1, <2>2, <2>4, <3>1
    <2> QED BY <2>3, <2>4
  <1>26. ASSUME NEW x \in U \cup {0}, Mid(g, NoNode, x) \notin {0, o} PROVE g[Mid(g, NoNode, x)].color = BLACK
    <2>1. Mid(g, NoNode, x) = Mid(h, NoNode, x) /\ Mid(h, NoNode, x) \in DOMAIN h
      BY <1>1, <1>3, <1>15, <1>16, NoHole
    <2>2. Mid(h, NoNode, x) # p
      <3>1. Mid(h, NoNode, x) # 0 => h[Mid(h, NoNode, x)].parent = 0
        BY <1>1 DEF Wired
      <3> QED BY <1>2, <1>3, <3>1
    <2> QED BY <1>23, <1>24, <1>26, <2>1, <2>2
  <1>27. Reds(g, U, NoNode, o)
    BY <1>25, <1>26 DEF Reds
  <1>28. \A t \in Around : g[g[o][t]].color = BLACK
    BY <1>2, <1>4, <1>5, <1>13, <1>15
  <1>29. Adding(g, U, T, S, c, lev, o)
    BY <1>1, <1>2, <1>13, <1>14, <1>16, <1>22, <1>27, <1>28 DEF Adding
  <1> QED BY <1>14, <1>29

-----------------------------------------------------------------------------
\* A round of add_fixup ends the work, or goes up.
LEMMA AddStep ==
  ASSUME NEW h, NEW U, NEW T, NEW S, NEW b, NEW lev, NEW p, Adding(h, U, T, S, b, lev, p), ~AddEnds(h, p)
  PROVE  \E g, x, R, Q, c : /\ AddRound(h, lev, p) = [h |-> g, at |-> x]
                            /\ Adding(g, U, R, Q, c, lev, x) /\ Alike(h, T, S, g, R, Q, U, NoNode, lev)
                            /\ AddEnds(g, x) \/ (Q = S /\ p \in S[x] /\ x \notin S[p])
  <1>1. PICK q, r, o, s : /\ AddPlace(h, U, S, lev, p, q, r, o, s)
                          /\ q = h[p].parent /\ o = h[q].parent /\ r = Hangs(h, p) /\ s = Hangs(h, q)
    BY AddPlaceIs
  <1>2. /\ p \in U /\ q \in U /\ o \in U /\ p # q /\ q # o /\ p # o /\ r \in Around /\ s \in Around
        /\ h[q][r] = p /\ h[o][s] = q
    BY <1>1 DEF AddPlace
  <1>3. /\ Shape(h, U, T, S, NoNode) /\ Loose(h, U, T, S, NoNode) /\ Wired(h, U, NoNode) /\ Bounded(h, U, T, NoNode) /\ Levels(h, U, S)
        /\ lev \in U \cup {0} /\ lev # NoNode
    BY NoHole DEF Adding, Shape, Loose
  <1>4. s = IF h[o].left = q THEN "left" ELSE "right"
    BY <1>1 DEF Hangs
  <1>5. PICK v : v = h[o][Other(s)]
    OBVIOUS
  <1>6. Other(s) \in Around /\ r \in {s, Other(s)} /\ s # Other(s)
    BY <1>2, OtherIs
  <1>7. p = h[q][Other(s)] <=> r = Other(s)
    <2>1. 0 \notin U /\ (h[q]["right"] # 0 => h[q]["left"] # h[q]["right"])
      BY <1>2, <1>3, NodeIn, TwoSons
    <2>2. p = h[q][Other(s)] => r = Other(s)
      <3> SUFFICES ASSUME p = h[q][Other(s)], r = s PROVE FALSE
        BY <1>6
      <3>1. h[q]["left"] = p /\ h[q]["right"] = p
        BY <1>2, <1>6 DEF Around
      <3> QED BY <1>2, <2>1, <3>1
    <2> QED BY <1>2, <2>2
  <1>8. CASE v # 0 /\ h[v].color = RED
    <2>1. PICK g : g = Color(Color(Color(h, q, BLACK), h[o][Other(s)], BLACK), o, RED)
      OBVIOUS
    <2>2. AddRound(h, lev, p) = [h |-> g, at |-> o]
      BY <1>1, <1>4, <1>5, <1>8, <2>1 DEF AddRound
    <2>3. PICK c : Adding(g, U, T, S, c, lev, o) /\ Alike(h, T, S, g, T, S, U, NoNode, lev)
      <3>1. AddPlace(h, U, S, lev, p, q, r, o, s)
        BY <1>1
      <3>2. h[h[o][Other(s)]].color = RED
        BY <1>5, <1>8
      <3> QED BY <2>1, <3>1, <3>2, AddPaint
    <2>4. p \in S[o] /\ o \notin S[p]
      <3>1. S[q] \subseteq S[o] /\ S[p] \subseteq S[q]
        BY <1>2, <1>3 DEF Levels, Around
      <3>2. S[p] \subseteq T[p] /\ p \in S[p]
        BY <1>2, <1>3, LevelIs
      <3>3. T[p] \subseteq T[q] /\ o \notin T[q]
        BY <1>2, <1>3, SonIs DEF Bounded
      <3> QED BY <3>1, <3>2, <3>3
    <2> QED BY <2>2, <2>3, <2>4
  <1>9. CASE ~(v # 0 /\ h[v].color = RED)
    <2>1. h[h[o][Other(s)]].color = BLACK
      <3>1. v \in DOMAIN h
        BY <1>2, <1>3, <1>5, <1>6, AroundIn
      <3>2. h[v].color \in {BLACK, RED} /\ h[0].color = BLACK
        BY <1>3, <3>1, HeapFields DEF Wired
      <3> QED BY <1>5, <1>9, <3>2
    <2>2. CASE r = s
      <3>1. PICK g : g = Rotate(Color(Color(h, q, BLACK), o, RED), lev, o, Other(s))
        OBVIOUS
      <3>2. p # h[q][Other(s)]
        BY <1>6, <1>7, <2>2
      <3>3. AddRound(h, lev, p) = [h |-> g, at |-> p]
        BY <1>1, <1>4, <1>5, <1>9, <3>1, <3>2 DEF AddRound
      <3>4. \E R, Q, c : Adding(g, U, R, Q, c, lev, p) /\ Alike(h, T, S, g, R, Q, U, NoNode, lev) /\ AddEnds(g, p)
        <4>1. AddPlace(h, U, S, lev, p, q, s, o, s)
          BY <1>1, <2>2
        <4> QED BY <2>1, <3>1, <4>1, AddOuter
      <3> QED BY <3>3, <3>4
    <2>3. CASE r = Other(s)
      <3>1. PICK h1 : h1 = Rotate(h, lev, q, s)
        OBVIOUS
      <3>2. PICK R1, Q1 : /\ Adding(h1, U, R1, Q1, b, lev, q) /\ Alike(h, T, S, h1, R1, Q1, U, NoNode, lev)
                          /\ AddPlace(h1, U, Q1, lev, q, p, s, o, s) /\ h1[o][Other(s)] = h[o][Other(s)]
                          /\ \A y \in DOMAIN h : h1[y].color = h[y].color
        BY <1>1, <2>3, <3>1, AddInner
      <3>3. PICK g : g = Rotate(Color(Color(h1, p, BLACK), o, RED), lev, o, Other(s))
        OBVIOUS
      <3>4. h1[h1[o][Other(s)]].color = BLACK
        BY <1>2, <1>3, <1>6, <2>1, <3>2, AroundIn
      <3>5. PICK R, Q, c : Adding(g, U, R, Q, c, lev, q) /\ Alike(h1, R1, Q1, g, R, Q, U, NoNode, lev) /\ AddEnds(g, q)
        BY <3>2, <3>3, <3>4, AddOuter
      <3>6. AddRound(h, lev, p) = [h |-> g, at |-> q]
        <4>1. h1[q].parent = p /\ p = h[q][Other(s)]
          BY <1>7, <2>3, <3>2 DEF AddPlace
        <4> QED BY <1>1, <1>4, <1>5, <1>9, <3>1, <3>3, <4>1 DEF AddRound
      <3>7. Alike(h, T, S, g, R, Q, U, NoNode, lev)
        BY <1>3, <3>2, <3>5, AlikeThen
      <3> QED BY <3>5, <3>6, <3>7
    <2> QED BY <1>6, <2>2, <2>3
  <1> QED BY <1>8, <1>9

\* The tree is balanced.
Even(h, U, b) == Counts(h, U, b, NoNode, NoNode, 0) /\ Reds(h, U, NoNode, NoNode)

LEMMA AddEnd ==
  ASSUME NEW h, NEW U, NEW T, NEW S, NEW b, NEW lev, NEW p, Adding(h, U, T, S, b, lev, p), AddEnds(h, p),
         NEW g, g = Color(h, h[lev].mid, BLACK)
  PROVE  \E c : Shape(g, U, T, S, NoNode) /\ Even(g, U, c) /\ Alike(h, T, S, g, T, S, U, NoNode, lev)
  <1>1. /\ Shape(h, U, T, S, NoNode) /\ Loose(h, U, T, S, NoNode) /\ Wired(h, U, NoNode)
        /\ lev \in U \cup {0} /\ p \in S[h[lev].mid] /\ Reds(h, U, NoNode, p) /\ h[p].color = RED
        /\ Counts(h, U, b, NoNode, p, 0) /\ \A x \in Around : h[h[p][x]].color = BLACK
    BY DEF Adding, Shape, Loose
  <1>2. PICK z : z = h[lev].mid /\ z = Mid(h, NoNode, lev)
    BY <1>1, NoHole
  <1>3. lev # NoNode /\ (\A x \in U \cup {0} : x \in DOMAIN h) /\ 0 \notin U
        /\ (\A x \in U, t \in Around : h[x][t] \in U \cup {0}) /\ NoNode \notin U /\ NoNode \notin DOMAIN h
    BY <1>1, NoHole, NodeIn, AroundIn
  <1>4. z \in U /\ p \in U /\ (h[p].parent = 0 <=> p = z) /\ h[z].parent = 0 /\ z \in S[z]
    <2>1. z \in U /\ p \in U /\ (h[p].parent = 0 <=> p = z)
      BY <1>1, <1>2, RootIs
    <2>2. z \in S[z]
      BY <1>1, <2>1, LevelIs
    <2> QED BY <1>1, <1>2, <2>1, <2>2, RootIs
  <1>5. OnePainted(g, h, h, {z}, z, BLACK)
    <2>1. Painted(h, h, {z}) /\ z \in DOMAIN h /\ z \in {z} /\ BLACK \in {BLACK, RED}
      BY <1>1, <1>3, <1>4, PaintedSelf DEF Wired
    <2> QED BY <1>2, <2>1, PaintMore
  <1>6. Painted(g, h, {z}) /\ g[z].color = BLACK /\ \A y \in DOMAIN h : y # z => g[y].color = h[y].color
    BY <1>5 DEF OnePainted
  <1>7. Shape(g, U, T, S, NoNode) /\ Alike(h, T, S, g, T, S, U, NoNode, lev) /\ DOMAIN g = DOMAIN h
    <2>1. 0 \notin {z} /\ {z} \subseteq S[h[lev].mid]
      BY <1>2, <1>3, <1>4
    <2> QED BY <1>1, <1>6, <2>1, PaintedShape, PaintedAlike DEF Painted
  <1>8. \A x \in U : \A t \in Around : g[x][t] = h[x][t]
    BY <1>3, <1>6, PaintedSons
  <1>9. \A x \in U \cup {0} : Mid(g, NoNode, x) = Mid(h, NoNode, x) /\ Mid(h, NoNode, x) \in DOMAIN h
    <2>1. \A x \in U \cup {0} : x \in DOMAIN h
      BY <1>3
    <2> QED BY <1>1, <1>3, <1>6, <2>1, PaintedSons, NoHole
  <1>10. /\ b \in [DOMAIN h -> Nat] /\ b[0] = 0 /\ \A x \in U, t \in Around : b[x] = b[h[x][t]] + Blk(h, x)
    <2>1. \A y \in DOMAIN h : b[y] \in Nat => Seen(b, p, 0, y) = b[y]
      BY DEF Seen
    <2>2. b \in [DOMAIN h -> Nat] /\ b[0] = 0
      BY <1>1 DEF Counts
    <2> QED BY <1>1, <1>3, <2>1, <2>2 DEF Counts
  <1>11. \A x \in U, t \in Around : h[x][t] # z
    <2>1. \A x \in U, t \in Around : h[x][t] # 0 => h[h[x][t]].parent = x
      BY <1>1 DEF Wired
    <2> QED BY <1>3, <1>4, <2>1
  <1>12. Blk(h, z) \in {0, 1} /\ Blk(g, z) = 1 /\ \A x \in DOMAIN h : x # z => Blk(g, x) = Blk(h, x)
    BY <1>6 DEF Blk
  <1>13. PICK c : c = [b EXCEPT ![z] = b[z] - Blk(h, z) + 1]
    OBVIOUS
  <1>14. b[z] = b[h[z]["left"]] + Blk(h, z) /\ b[h[z]["left"]] \in Nat /\ b[z] \in Nat
    BY <1>3, <1>4, <1>10 DEF Around
  <1>15. c \in [DOMAIN h -> Nat] /\ c[z] = b[z] - Blk(h, z) + 1 /\ \A x \in DOMAIN h : x # z => c[x] = b[x]
    <2>1. b[z] - Blk(h, z) + 1 \in Nat
      BY <1>12, <1>14
    <2> QED BY <1>3, <1>4, <1>10, <1>13, <2>1
  <1>16. ASSUME NEW x \in U, NEW t \in Around PROVE c[x] = c[g[x][t]] + Blk(g, x)
    <2>1. c[g[x][t]] = b[h[x][t]] /\ b[h[x][t]] \in Nat /\ b[x] \in Nat /\ x \in DOMAIN h
      BY <1>3, <1>8, <1>10, <1>11, <1>15
    <2>2. CASE x = z
      BY <1>10, <1>12, <1>15, <2>1, <2>2
    <2>3. CASE x # z
      BY <1>10, <1>12, <1>15, <2>1, <2>3
    <2> QED BY <2>2, <2>3
  <1>17. Counts(g, U, c, NoNode, NoNode, 0)
    <2>1. \A x \in U, t \in Around : Seen(c, NoNode, 0, g[x][t]) = c[g[x][t]]
      BY <1>3, <1>8 DEF Seen
    <2>2. c[0] = 0
      BY <1>3, <1>4, <1>10, <1>15
    <2> QED BY <1>3, <1>7, <1>15, <1>16, <2>1, <2>2 DEF Counts
  <1>18. /\ \A x \in U \ {p}, t \in Around : h[x].color = RED /\ h[x][t] # p => h[h[x][t]].color = BLACK
         /\ \A x \in U \cup {0} : Mid(h, NoNode, x) \notin {0, p} => h[Mid(h, NoNode, x)].color = BLACK
    BY <1>1 DEF Reds
  <1>19. \A y \in DOMAIN h : h[y].color = BLACK => g[y].color = BLACK
    BY <1>6
  <1>20. ASSUME NEW x \in U, NEW t \in Around, g[x].color = RED PROVE g[g[x][t]].color = BLACK
    <2>1. x # z /\ h[x].color = RED /\ g[x][t] = h[x][t] /\ h[x][t] \in DOMAIN h
      BY <1>3, <1>6, <1>8, <1>20, BlackIsNotRed
    <2>2. CASE x = p
      BY <1>1, <1>19, <2>1, <2>2
    <2>3. CASE x # p
      <3>1. h[x][t] # p
        <4> SUFFICES ASSUME h[x][t] = p PROVE FALSE
          OBVIOUS
        <4>1. h[p].parent = x
          BY <1>1, <1>3, <1>4, HangsIs
        <4> QED BY <1>3, <2>1, <4>1 DEF AddEnds
      <3> QED BY <1>18, <1>19, <2>1, <2>3, <3>1
    <2> QED BY <2>2, <2>3
  <1>21. ASSUME NEW x \in U \cup {0}, Mid(g, NoNode, x) # 0 PROVE g[Mid(g, NoNode, x)].color = BLACK
    <2>1. Mid(g, NoNode, x) = Mid(h, NoNode, x) /\ Mid(h, NoNode, x) \in DOMAIN h
      BY <1>9
    <2>2. CASE Mid(h, NoNode, x) = p
      <3>1. h[p].parent = 0
        BY <1>1, <1>3, <1>4, <2>2 DEF Wired
      <3> QED BY <1>4, <1>6, <2>1, <2>2, <3>1
    <2>3. CASE Mid(h, NoNode, x) # p
      BY <1>18, <1>19, <1>21, <2>1, <2>3
    <2> QED BY <2>2, <2>3
  <1>22. Reds(g, U, NoNode, NoNode)
    BY <1>20, <1>21 DEF Reds
  <1> QED BY <1>7, <1>17, <1>22 DEF Even

(***************************************************************************)
(* add_fixup balances a tree but for p: the same nodes, each under the     *)
(* same levels, in red-black trees.                                        *)
(***************************************************************************)
THEOREM AddBalances ==
  ASSUME NEW h0, NEW U, NEW T0, NEW S0, NEW b0, NEW lev, NEW p0, Adding(h0, U, T0, S0, b0, lev, p0),
         NEW g, g = AddFixup(h0, lev, p0)
  PROVE  \E R, Q, c : Shape(g, U, R, Q, NoNode) /\ Even(g, U, c) /\ Alike(h0, T0, S0, g, R, Q, U, NoNode, lev)
  <1>1. PICK N : N = DOMAIN h0 /\ IsFiniteSet(N)
    BY DEF Adding, Shape, Loose, Wired
  <1>2. \A h, T, S, b, p : Adding(h, U, T, S, b, lev, p) => p \in U /\ lev \in DOMAIN h /\ p \in DOMAIN h /\ IsHeap(h) /\ U \subseteq DOMAIN h /\ lev \in U \cup {0} /\ lev # NoNode
    <2> SUFFICES ASSUME NEW h, NEW T, NEW S, NEW b, NEW p, Adding(h, U, T, S, b, lev, p)
                 PROVE  p \in U /\ lev \in DOMAIN h /\ p \in DOMAIN h /\ IsHeap(h) /\ U \subseteq DOMAIN h /\ lev \in U \cup {0} /\ lev # NoNode
      OBVIOUS
    <2>1. Shape(h, U, T, S, NoNode) /\ Loose(h, U, T, S, NoNode) /\ Wired(h, U, NoNode) /\ lev \in U \cup {0} /\ p \in S[h[lev].mid]
      BY DEF Adding, Shape, Loose
    <2>2. p \in U
      BY <2>1, RootIs, NoHole
    <2> QED BY <2>1, <2>2, NodeIn, NoHole DEF Wired
  <1>3. On(h0, N) /\ lev \in N /\ p0 \in N /\ U \subseteq N
    BY <1>1, <1>2 DEF On
  <1>4. PICK f : /\ \A p \in N : AddFixup(h0, lev, p) = f[[h |-> h0, at |-> p]]
                 /\ \A h : \A p \in N : On(h, N) =>
                      f[[h |-> h, at |-> p]] = IF AddEnds(h, p) THEN Color(h, h[lev].mid, BLACK) ELSE f[AddRound(h, lev, p)]
    BY <1>3, AddFixupIs
  <1> DEFINE Good(h, T, S, e) == \E R, Q, c : Shape(e, U, R, Q, NoNode) /\ Even(e, U, c) /\ Alike(h, T, S, e, R, Q, U, NoNode, lev)
             Over(S, p) == {x \in U : p \in S[x]}
             W == {k \in Nat : \A h, T, S, b, p : Adding(h, U, T, S, b, lev, p) /\ DOMAIN h = N /\ Cardinality(Over(S, p)) = k
                                                  => Good(h, T, S, f[[h |-> h, at |-> p]])}
  <1>5. \A S, p : IsFiniteSet(Over(S, p)) /\ Cardinality(Over(S, p)) \in Nat
    <2>1. \A S, p : Over(S, p) \subseteq N
      BY <1>3
    <2> QED BY <1>1, <2>1, FS_Subset, FS_CardinalityType
  <1>6. ASSUME NEW k \in Nat, \A m \in Nat : m < k => m \in W,
               NEW h, NEW T, NEW S, NEW b, NEW p, Adding(h, U, T, S, b, lev, p), DOMAIN h = N, Cardinality(Over(S, p)) = k
        PROVE  Good(h, T, S, f[[h |-> h, at |-> p]])
    <2>1. On(h, N) /\ p \in N /\ p \in U /\ lev \in U \cup {0} /\ lev # NoNode
      BY <1>2, <1>6 DEF On
    <2>2. CASE AddEnds(h, p)
      <3>1. f[[h |-> h, at |-> p]] = Color(h, h[lev].mid, BLACK)
        BY <1>4, <2>1, <2>2
      <3> QED BY <1>6, <2>2, <3>1, AddEnd
    <2>3. CASE ~AddEnds(h, p)
      <3>1. PICK e, x, R, Q, c : /\ AddRound(h, lev, p) = [h |-> e, at |-> x]
                                 /\ Adding(e, U, R, Q, c, lev, x) /\ Alike(h, T, S, e, R, Q, U, NoNode, lev)
                                 /\ AddEnds(e, x) \/ (Q = S /\ p \in S[x] /\ x \notin S[p])
        BY <1>6, <2>3, AddStep
      <3>2. f[[h |-> h, at |-> p]] = f[[h |-> e, at |-> x]]
        BY <1>4, <2>1, <2>3, <3>1
      <3>3. DOMAIN e = N /\ On(e, N) /\ x \in N /\ x \in U
        BY <1>2, <1>6, <3>1 DEF Alike, On
      <3>4. Good(e, R, Q, f[[h |-> e, at |-> x]])
        <4>1. CASE AddEnds(e, x)
          <5>1. f[[h |-> e, at |-> x]] = Color(e, e[lev].mid, BLACK)
            BY <1>4, <3>3, <4>1
          <5> QED BY <3>1, <4>1, <5>1, AddEnd
        <4>2. CASE Q = S /\ p \in S[x] /\ x \notin S[p]
          <5>1. \A y \in U : x \in S[y] => p \in S[y]
            <6>1. Loose(h, U, T, S, NoNode)
              BY <1>6 DEF Adding, Shape
            <6> QED BY <4>2, <6>1, LevelIs
          <5>2. p \in S[p]
            <6>1. Loose(h, U, T, S, NoNode)
              BY <1>6 DEF Adding, Shape
            <6> QED BY <2>1, <6>1, LevelIs
          <5>3. Over(S, x) \subseteq Over(S, p) /\ p \in Over(S, p) /\ p \notin Over(S, x)
            BY <2>1, <4>2, <5>1, <5>2
          <5>4. Cardinality(Over(S, x)) < k /\ Cardinality(Over(S, x)) \in Nat
            <6> HIDE DEF Over
            <6> QED BY <1>5, <1>6, <5>3, FewerMembers
          <5>5. Cardinality(Over(S, x)) \in W
            BY <1>6, <5>4
          <5>6. Adding(e, U, R, Q, c, lev, x) /\ Cardinality(Over(Q, x)) = Cardinality(Over(S, x))
            BY <3>1, <4>2
          <5> HIDE DEF Good, Over
          <5> QED BY <3>3, <5>5, <5>6 DEF W
        <4> QED BY <3>1, <4>1, <4>2
      <3>5. PICK R2, Q2, c2 : LET z == f[[h |-> e, at |-> x]]
                              IN  Shape(z, U, R2, Q2, NoNode) /\ Even(z, U, c2) /\ Alike(e, R, Q, z, R2, Q2, U, NoNode, lev)
        BY <3>4
      <3>6. Alike(h, T, S, f[[h |-> e, at |-> x]], R2, Q2, U, NoNode, lev)
        BY <2>1, <3>1, <3>5, AlikeThen
      <3> QED BY <3>2, <3>5, <3>6
    <2> QED BY <2>2, <2>3
  <1>7. \A k \in Nat : (\A m \in Nat : m < k => m \in W) => k \in W
    <2> HIDE DEF Good, Over
    <2> QED BY <1>6
  <1>8. Nat \subseteq W
    <2> HIDE DEF W
    <2> QED BY <1>7, AllNumbers
  <1>9. Good(h0, T0, S0, f[[h |-> h0, at |-> p0]])
    <2>1. Cardinality(Over(S0, p0)) \in W
      <3> HIDE DEF W, Over
      <3> QED BY <1>5, <1>8
    <2> HIDE DEF Good, Over
    <2> QED BY <1>1, <2>1 DEF W
  <1> QED BY <1>3, <1>4, <1>9

-----------------------------------------------------------------------------
(***************************************************************************)
(* del_fixup: on the way to n there is a black node too few.  A node d     *)
(* that is to be taken out is n, and a leaf.                               *)
(***************************************************************************)
Deleting(h, U, T, S, b, d, lev, n) ==
  /\ Shape(h, U, T, S, d) /\ Counts(h, U, b, d, n, 1) /\ Reds(h, U, d, n)
  /\ lev \in (U \cup {0}) \ {d} /\ n \in S[h[lev].mid]
  /\ d \in {NoNode, n} /\ (d = n => h[n]["left"] = 0 /\ h[n]["right"] = 0)

\* The black node n is the son of p on the side, and s the other son.
FixPlace(h, U, S, lev, n, p, side, s) ==
  /\ n \in U /\ p \in U /\ s \in U /\ p # n /\ s # n /\ p # s /\ side \in Around
  /\ h[n].parent = p /\ h[s].parent = p /\ h[p][side] = n /\ h[p][Other(side)] = s
  /\ p \in S[h[lev].mid] /\ s \in S[h[lev].mid] /\ h[n].color = BLACK

LEMMA LevIs ==
  ASSUME NEW h, NEW U, NEW T, NEW S, NEW d, Loose(h, U, T, S, d), NEW lev \in (U \cup {0}) \ {d}, NEW n \in S[h[lev].mid]
  PROVE  /\ Mid(h, d, lev) = h[lev].mid /\ h[lev].mid \in U /\ n \in U /\ (h[n].parent = 0 <=> n = h[lev].mid)
         /\ n \in S[n] /\ S[n] \subseteq S[h[lev].mid] /\ S[h[lev].mid] \subseteq U
  <1>1. Mid(h, d, lev) = h[lev].mid
    BY DEF Mid
  <1>2. h[lev].mid \in U /\ n \in U /\ (h[n].parent = 0 <=> n = h[lev].mid)
    BY <1>1, RootIs
  <1> QED BY <1>1, <1>2, LevelIs

LEMMA SonInLevel ==
  ASSUME NEW h, NEW U, NEW T, NEW S, NEW d, Loose(h, U, T, S, d), NEW z \in U, NEW x \in S[z], NEW t \in Around, h[x][t] # 0
  PROVE  h[x][t] \in S[z] /\ x \in U
  <1>1. x \in U /\ S[x] \subseteq S[z]
    BY LevelIs
  <1>2. h[x][t] \in U
    BY <1>1, HangsIs
  <1>3. h[x][t] \in S[h[x][t]] /\ S[h[x][t]] \subseteq S[x]
    BY <1>1, <1>2 DEF Loose, Levels, Around
  <1> QED BY <1>1, <1>3

LEMMA FixPlaceIs ==
  ASSUME NEW h, NEW U, NEW T, NEW S, NEW b, NEW d, NEW lev, NEW n, Deleting(h, U, T, S, b, d, lev, n),
         n # h[lev].mid, h[n].color = BLACK
  PROVE  \E p, side, s : /\ FixPlace(h, U, S, lev, n, p, side, s)
                         /\ p = h[n].parent /\ side = Hangs(h, n) /\ b[s] = b[n] + 1
  <1>1. /\ Shape(h, U, T, S, d) /\ Loose(h, U, T, S, d) /\ Wired(h, U, d) /\ Counts(h, U, b, d, n, 1)
        /\ lev \in (U \cup {0}) \ {d} /\ n \in S[h[lev].mid] /\ d \in {NoNode, n} /\ (d = n => h[n]["left"] = 0 /\ h[n]["right"] = 0)
    BY DEF Deleting, Shape, Loose
  <1>2. /\ h[lev].mid \in U /\ n \in U /\ 0 \notin U /\ NoNode \notin U
    BY <1>1, LevIs, NodeIn DEF Wired
  <1>3. PICK p : p = h[n].parent
    OBVIOUS
  <1>4. PICK side : side = Hangs(h, n)
    OBVIOUS
  <1>5. p \in S[h[lev].mid] /\ p \in U /\ side \in Around /\ h[p][side] = n
    BY <1>1, <1>2, <1>3, <1>4, ParentInLevel
  <1>6. p # n
    BY <1>1, <1>2, <1>5, HangsIs
  <1>7. Other(side) \in Around /\ side # Other(side)
    BY <1>5, OtherIs
  <1>8. PICK s : s = h[p][Other(side)]
    OBVIOUS
  <1>9. p # d /\ s \in U \cup {0} /\ s \in DOMAIN h /\ n \in DOMAIN h
    BY <1>1, <1>2, <1>5, <1>6, <1>7, <1>8, AroundIn, NodeIn
  <1>10. s # n
    <2> SUFFICES ASSUME s = n PROVE FALSE
      OBVIOUS
    <2>1. h[p]["left"] = n /\ h[p]["right"] = n
      BY <1>5, <1>7, <1>8 DEF Around
    <2> QED BY <1>1, <1>2, <1>5, <2>1, TwoSons
  <1>11. b[s] = b[n] + 1 /\ s # 0
    <2>1. b \in [DOMAIN h -> Nat] /\ b[0] = 0 /\ b[p] = Seen(b, n, 1, h[p][side]) + Blk(h, p) /\ b[p] = Seen(b, n, 1, h[p][Other(side)]) + Blk(h, p)
      BY <1>1, <1>5, <1>7, <1>9 DEF Counts
    <2>2. b[p] = b[n] + 1 + Blk(h, p) /\ b[p] = b[s] + Blk(h, p)
      BY <1>5, <1>8, <1>10, <2>1 DEF Seen
    <2>3. Blk(h, p) \in {0, 1} /\ b[n] \in Nat /\ b[s] \in Nat
      BY <1>9, <2>1 DEF Blk
    <2> QED BY <2>1, <2>2, <2>3
  <1>12. s \in U /\ h[s].parent = p /\ p # s
    BY <1>1, <1>5, <1>7, <1>8, <1>11, HangsIs
  <1>13. s \in S[h[lev].mid]
    BY <1>1, <1>2, <1>5, <1>7, <1>8, <1>11, SonInLevel
  <1> QED BY <1>2, <1>3, <1>4, <1>5, <1>6, <1>8, <1>10, <1>11, <1>12, <1>13 DEF FixPlace

\* A rotation of other nodes leaves n where it hangs.
LEMMA DelTurn ==
  ASSUME NEW h, NEW U, NEW T, NEW S, NEW b, NEW d, NEW lev, NEW n, Deleting(h, U, T, S, b, d, lev, n), h[n].color = BLACK,
         NEW o, NEW side, o \in S[h[lev].mid], side \in Around, NEW up, up = h[o][Other(side)], up # 0, n \notin {o, up},
         h[o].color = BLACK, h[up].color = RED, h[o][side] = n \/ h[h[o][side]].color = BLACK, n # h[up][side],
         NEW g, g = Rotate(Color(Color(h, up, BLACK), o, RED), lev, o, side)
  PROVE  /\ \E R, Q, c : Deleting(g, U, R, Q, c, d, lev, n) /\ Alike(h, T, S, g, R, Q, U, d, lev)
         /\ g[n].parent = h[n].parent /\ g[n].color = BLACK /\ g[o].color = RED /\ g[up].color = BLACK
         /\ g[o][Other(side)] = h[up][side] /\ g[up][side] = o
         /\ (\A x \in U : x \notin {o, up} => g[x].color = h[x].color)
         /\ \A x \in U, t \in Around : ~(x = o /\ t = Other(side)) /\ ~(x = up /\ t = side) => g[x][t] = IF h[x][t] = o THEN up ELSE h[x][t]
  <1>1. /\ Shape(h, U, T, S, d) /\ Loose(h, U, T, S, d) /\ Wired(h, U, d) /\ Counts(h, U, b, d, n, 1) /\ Reds(h, U, d, n)
        /\ lev \in (U \cup {0}) \ {d} /\ n \in S[h[lev].mid] /\ d \in {NoNode, n} /\ (d = n => h[n]["left"] = 0 /\ h[n]["right"] = 0)
    BY DEF Deleting, Shape, Loose
  <1>2. /\ h[lev].mid \in U /\ n \in U /\ 0 \notin U /\ NoNode \notin U /\ Mid(h, d, lev) = h[lev].mid /\ o \in U
        /\ \A x \in U \cup {0} : x \in DOMAIN h
    <2>1. h[lev].mid \in U /\ n \in U /\ Mid(h, d, lev) = h[lev].mid /\ S[h[lev].mid] \subseteq U
      BY <1>1, LevIs
    <2>2. 0 \notin U /\ \A x \in U \cup {0} : x \in DOMAIN h
      BY <1>1, NodeIn
    <2>3. NoNode \notin U
      BY <1>1 DEF Wired
    <2> QED BY <2>1, <2>2, <2>3
  <1>3. Other(side) \in Around /\ Other(Other(side)) = side /\ side # Other(side) /\ \A t \in Around : t = side \/ t = Other(side)
    BY OtherIs
  <1>4. up \in U /\ up \in S[h[lev].mid] /\ up # o /\ up # 0
    BY <1>1, <1>2, <1>3, SonInLevel, HangsIs
  <1>5. Turning(h, U, T, S, d, lev, o, side)
    BY <1>1, <1>2, <1>4 DEF Turning, Upper
  <1>6. PICK u, inner : TurnNodes(h, U, d, lev, o, side, u, inner)
    BY <1>5, TurnNodesAre
  <1>7. u = up /\ inner = h[up][side] /\ inner # n /\ inner \notin {o, up} /\ h[up][Other(side)] \notin {o, up} /\ h[o][side] \notin {o, up}
    BY <1>6 DEF TurnNodes
  <1>8. PICK f1 : f1 = Color(h, up, BLACK)
    OBVIOUS
  <1>9. PICK f : f = Color(f1, o, RED)
    OBVIOUS
  <1>10. Painted(f, h, {up, o}) /\ f[up].color = BLACK /\ f[o].color = RED /\ \A y \in DOMAIN h : y \notin {up, o} => f[y].color = h[y].color
    <2>0. BLACK \in {BLACK, RED} /\ RED \in {BLACK, RED} /\ up \in DOMAIN h /\ o \in DOMAIN h /\ up \in {up, o} /\ o \in {up, o}
      BY <1>2, <1>4
    <2>1. Painted(h, h, {up, o})
      BY <1>1, PaintedSelf DEF Wired
    <2>2. OnePainted(f1, h, h, {up, o}, up, BLACK)
      BY <1>8, <2>0, <2>1, PaintMore
    <2>3. OnePainted(f, f1, h, {up, o}, o, RED)
      <3>1. Painted(f1, h, {up, o})
        BY <2>2 DEF OnePainted
      <3> QED BY <1>9, <2>0, <3>1, PaintMore
    <2> QED BY <1>4, <2>0, <2>2, <2>3 DEF OnePainted
  <1>11. /\ \E R, Q : RotatedTo(h, U, T, S, d, lev, o, side, up, inner, g, R, Q)
         /\ \A y \in DOMAIN h : g[y].color = f[y].color
    <2>1. {up, o} \subseteq S[h[lev].mid] /\ lev # d /\ TurnNodes(h, U, d, lev, o, side, up, inner)
      BY <1>1, <1>4, <1>6, <1>7
    <2>2. g = Rotate(f, lev, o, side)
      BY <1>8, <1>9
    <2> QED BY <1>5, <1>10, <2>1, <2>2, PaintedTurn
  <1>12. PICK R, Q : RotatedTo(h, U, T, S, d, lev, o, side, up, inner, g, R, Q)
    BY <1>11
  <1>13. /\ Shape(g, U, R, Q, d) /\ Alike(h, T, S, g, R, Q, U, d, lev) /\ Rewired(h, g, U, d, o, up, inner, side)
         /\ \A x \in U \cup {0} : Q[Mid(g, d, x)] = S[Mid(h, d, x)]
         /\ g[n].parent = h[n].parent
    <2>1. n \notin {o, up, inner}
      BY <1>7
    <2> QED BY <1>2, <1>12, <2>1 DEF RotatedTo
  <1>14. DOMAIN g = DOMAIN h
    BY <1>13 DEF Alike
  <1>15. g[o].color = RED /\ g[up].color = BLACK /\ \A y \in DOMAIN h : y \notin {o, up} => g[y].color = h[y].color
    BY <1>2, <1>4, <1>10, <1>11
  <1>16. (\E c : Counts(g, U, c, d, n, 1)) /\ Reds(g, U, d, n)
    <2>1. n # 0 /\ 1 \in Nat /\ o \notin {d, n} /\ up \notin {d, n} /\ TurnNodes(h, U, d, lev, o, side, up, inner)
      BY <1>1, <1>2, <1>4, <1>6, <1>7
    <2> QED BY <1>1, <1>5, <1>13, <1>14, <1>15, <2>1, RedComesUp
  <1>17. Q[g[lev].mid] = S[h[lev].mid]
    <2>1. Mid(g, d, lev) = g[lev].mid
      BY <1>1 DEF Mid
    <2> QED BY <1>1, <1>2, <1>13, <2>1
  <1>18. \A x \in U, t \in Around : g[x][t] = IF x = o /\ t = Other(side) THEN inner ELSE IF x = up /\ t = side THEN o
                                              ELSE IF h[x][t] = o THEN up ELSE h[x][t]
    <2>1. \A x \in U, t \in Around : Son(g, d, x, t) = g[x][t] /\ Son(h, d, x, t) = h[x][t] /\ t \in Sides
      BY DEF Son, Around, Sides
    <2> QED BY <1>13, <2>1 DEF Rewired
  <1>19. d = n => g[n]["left"] = 0 /\ g[n]["right"] = 0
    BY <1>1, <1>2, <1>18 DEF Around
  <1>20. PICK c : Counts(g, U, c, d, n, 1)
    BY <1>16
  <1>21. Deleting(g, U, R, Q, c, d, lev, n)
    BY <1>1, <1>13, <1>16, <1>17, <1>19, <1>20 DEF Deleting
  <1>22. g[o][Other(side)] = h[up][side] /\ g[up][side] = o
    BY <1>2, <1>3, <1>4, <1>7, <1>18
  <1>23. \A x \in U : x \notin {o, up} => g[x].color = h[x].color
    BY <1>2, <1>15
  <1> QED BY <1>2, <1>7, <1>13, <1>15, <1>18, <1>21, <1>22, <1>23

-----------------------------------------------------------------------------
LEMMA SiblingBlack ==
  ASSUME NEW h, NEW U, NEW T, NEW S, NEW b, NEW d, NEW lev, NEW n, Deleting(h, U, T, S, b, d, lev, n),
         NEW p, NEW side, NEW s, FixPlace(h, U, S, lev, n, p, side, s), NEW g, g = BlackSibling(h, lev, p, side)
  PROVE  \E R, Q, c, v : /\ Deleting(g, U, R, Q, c, d, lev, n) /\ Alike(h, T, S, g, R, Q, U, d, lev)
                         /\ FixPlace(g, U, Q, lev, n, p, side, v) /\ g[v].color = BLACK
                         /\ (Q = S /\ g = h) \/ g[p].color = RED
  <1>1. /\ n \in U /\ p \in U /\ s \in U /\ p # n /\ s # n /\ p # s /\ side \in Around
        /\ h[n].parent = p /\ h[s].parent = p /\ h[p][side] = n /\ h[p][Other(side)] = s
        /\ p \in S[h[lev].mid] /\ s \in S[h[lev].mid] /\ h[n].color = BLACK
    BY DEF FixPlace
  <1>2. /\ Shape(h, U, T, S, d) /\ Loose(h, U, T, S, d) /\ Wired(h, U, d) /\ Reds(h, U, d, n) /\ lev \in (U \cup {0}) \ {d}
        /\ n \in S[h[lev].mid]
    BY DEF Deleting, Shape, Loose
  <1>3. 0 \notin U /\ \A x \in U \cup {0} : x \in DOMAIN h
    BY <1>2, NodeIn
  <1>4. Other(side) \in Around /\ side # Other(side)
    BY <1>1, OtherIs
  <1>5. h[s].color \in {BLACK, RED} /\ h[p].color \in {BLACK, RED}
    BY <1>1, <1>2, <1>3, HeapFields DEF Wired
  <1>6. CASE h[s].color # RED
    <2>1. g = h /\ h[s].color = BLACK
      BY <1>1, <1>5, <1>6 DEF BlackSibling
    <2> QED BY <2>1, AlikeSelf
  <1>7. CASE h[s].color = RED
    <2>1. g = Rotate(Color(Color(h, s, BLACK), p, RED), lev, p, side)
      BY <1>1, <1>7 DEF BlackSibling
    <2>2. h[p].color = BLACK
      BY <1>1, <1>2, <1>4, <1>5, <1>7, BlackIsNotRed DEF Reds
    <2>3. h[s][side] # n
      BY <1>1, <1>2, <1>3, HangsIs
    <2>4. h[h[s][side]].color = BLACK
      BY <1>1, <1>2, <1>7, <2>3 DEF Reds
    <2>5. /\ \E R, Q, c : Deleting(g, U, R, Q, c, d, lev, n) /\ Alike(h, T, S, g, R, Q, U, d, lev)
          /\ g[n].parent = h[n].parent /\ g[n].color = BLACK /\ g[p].color = RED
          /\ g[p][Other(side)] = h[s][side]
          /\ (\A x \in U : x \notin {p, s} => g[x].color = h[x].color)
          /\ \A x \in U, t \in Around : ~(x = p /\ t = Other(side)) /\ ~(x = s /\ t = side) => g[x][t] = IF h[x][t] = p THEN s ELSE h[x][t]
      BY <1>1, <1>3, <1>7, <2>1, <2>2, <2>3, DelTurn
    <2>6. PICK R, Q, c : Deleting(g, U, R, Q, c, d, lev, n) /\ Alike(h, T, S, g, R, Q, U, d, lev)
      BY <2>5
    <2>7. Loose(g, U, R, Q, d) /\ Wired(g, U, d) /\ n \in Q[g[lev].mid]
      BY <2>6 DEF Deleting, Shape, Loose
    <2>8. n # g[lev].mid
      BY <1>1, <1>2, <1>3, <2>5, <2>7, LevIs
    <2>9. PICK p2, side2, v : /\ FixPlace(g, U, Q, lev, n, p2, side2, v)
                              /\ p2 = g[n].parent /\ side2 = Hangs(g, n) /\ c[v] = c[n] + 1
      BY <2>5, <2>6, <2>8, FixPlaceIs
    <2>10. g[p][side] = n
      BY <1>1, <1>4, <2>5
    <2>11. p2 = p /\ side2 = side
      BY <1>1, <1>3, <2>5, <2>7, <2>9, <2>10, HangsIs
    <2>12. v = h[s][side] /\ v \in U
      BY <2>5, <2>9, <2>11 DEF FixPlace
    <2>13. v \notin {p, s}
      <3>1. v # p
        BY <2>9, <2>11 DEF FixPlace
      <3>2. v # s
        BY <1>1, <1>2, <1>3, <2>12, HangsIs
      <3> QED BY <3>1, <3>2
    <2>14. g[v].color = BLACK
      BY <2>4, <2>5, <2>12, <2>13
    <2> QED BY <2>5, <2>6, <2>9, <2>11, <2>14
  <1> QED BY <1>5, <1>6, <1>7

LEMMA NearUp ==
  ASSUME NEW h, NEW U, NEW T, NEW S, NEW b, NEW d, NEW lev, NEW n, Deleting(h, U, T, S, b, d, lev, n),
         NEW p, NEW side, NEW s, FixPlace(h, U, S, lev, n, p, side, s), h[s].color = BLACK,
         h[h[s][Other(side)]].color = BLACK, h[s][side] # 0, h[h[s][side]].color = RED,
         NEW g, g = NearComesUp(h, lev, p, side)
  PROVE  \E R, Q, c, v : /\ Deleting(g, U, R, Q, c, d, lev, n) /\ Alike(h, T, S, g, R, Q, U, d, lev)
                         /\ FixPlace(g, U, Q, lev, n, p, side, v) /\ g[v].color = BLACK
                         /\ g[v][Other(side)] # 0 /\ g[g[v][Other(side)]].color = RED
  <1>1. /\ n \in U /\ p \in U /\ s \in U /\ p # n /\ s # n /\ p # s /\ side \in Around
        /\ h[n].parent = p /\ h[s].parent = p /\ h[p][side] = n /\ h[p][Other(side)] = s
        /\ p \in S[h[lev].mid] /\ s \in S[h[lev].mid] /\ h[n].color = BLACK
    BY DEF FixPlace
  <1>2. /\ Shape(h, U, T, S, d) /\ Loose(h, U, T, S, d) /\ Wired(h, U, d) /\ Reds(h, U, d, n) /\ lev \in (U \cup {0}) \ {d}
        /\ n \in S[h[lev].mid]
    BY DEF Deleting, Shape, Loose
  <1>3. 0 \notin U /\ \A x \in U \cup {0} : x \in DOMAIN h
    BY <1>2, NodeIn
  <1>4. Other(side) \in Around /\ side # Other(side) /\ Other(Other(side)) = side
    BY <1>1, OtherIs
  <1>5. PICK near : near = h[s][side]
    OBVIOUS
  <1>6. near \in U /\ h[near].parent = s /\ near # s /\ near # 0
    BY <1>1, <1>2, <1>5, HangsIs
  <1>7. near # n /\ near # p
    <2>1. near # n
      BY <1>1, <1>6
    <2>2. T[s] \subseteq T[p] /\ p \notin T[s] /\ near \in T[near] /\ T[near] \subseteq T[s]
      BY <1>1, <1>2, <1>4, <1>5, <1>6, SonIs DEF Bounded, Loose
    <2> QED BY <2>1, <2>2
  <1>8. h[near][Other(side)] # n
    BY <1>1, <1>2, <1>3, <1>4, <1>6, <1>7, HangsIs
  <1>9. g = Rotate(Color(Color(h, near, BLACK), s, RED), lev, s, Other(side))
    BY <1>1, <1>5 DEF NearComesUp
  <1>10. /\ \E R, Q, c : Deleting(g, U, R, Q, c, d, lev, n) /\ Alike(h, T, S, g, R, Q, U, d, lev)
         /\ g[n].parent = h[n].parent /\ g[n].color = BLACK /\ g[s].color = RED /\ g[near].color = BLACK
         /\ g[near][Other(side)] = s
         /\ \A x \in U, t \in Around : ~(x = s /\ t = side) /\ ~(x = near /\ t = Other(side)) => g[x][t] = IF h[x][t] = s THEN near ELSE h[x][t]
    <2>1. PICK r : r = Other(side) /\ Other(r) = side /\ r \in Around
      BY <1>4
    <2>2. /\ s \in S[h[lev].mid] /\ near = h[s][Other(r)] /\ near # 0 /\ n \notin {s, near}
          /\ h[s].color = BLACK /\ h[near].color = RED /\ h[h[s][r]].color = BLACK /\ n # h[near][r]
          /\ g = Rotate(Color(Color(h, near, BLACK), s, RED), lev, s, r) /\ r \in Around /\ h[n].color = BLACK
      BY <1>1, <1>5, <1>6, <1>7, <1>8, <1>9, <2>1
    <2>3. /\ \E R, Q, c : Deleting(g, U, R, Q, c, d, lev, n) /\ Alike(h, T, S, g, R, Q, U, d, lev)
          /\ g[n].parent = h[n].parent /\ g[n].color = BLACK /\ g[s].color = RED /\ g[near].color = BLACK
          /\ g[near][r] = s
          /\ \A x \in U, t \in Around : ~(x = s /\ t = Other(r)) /\ ~(x = near /\ t = r) => g[x][t] = IF h[x][t] = s THEN near ELSE h[x][t]
      BY <2>2, DelTurn
    <2> QED BY <2>1, <2>3
  <1>11. PICK R, Q, c : Deleting(g, U, R, Q, c, d, lev, n) /\ Alike(h, T, S, g, R, Q, U, d, lev)
    BY <1>10
  <1>12. Loose(g, U, R, Q, d) /\ Wired(g, U, d) /\ n \in Q[g[lev].mid]
    BY <1>11 DEF Deleting, Shape, Loose
  <1>13. n # g[lev].mid
    BY <1>1, <1>2, <1>3, <1>10, <1>12, LevIs
  <1>14. PICK p2, side2, v : /\ FixPlace(g, U, Q, lev, n, p2, side2, v)
                             /\ p2 = g[n].parent /\ side2 = Hangs(g, n) /\ c[v] = c[n] + 1
    BY <1>10, <1>11, <1>13, FixPlaceIs
  <1>15. g[p][side] = n /\ g[p][Other(side)] = near
    BY <1>1, <1>4, <1>7, <1>10
  <1>16. p2 = p /\ side2 = side
    BY <1>1, <1>3, <1>10, <1>12, <1>14, <1>15, HangsIs
  <1>17. v = near
    BY <1>14, <1>15, <1>16 DEF FixPlace
  <1> QED BY <1>1, <1>3, <1>10, <1>11, <1>14, <1>16, <1>17

-----------------------------------------------------------------------------
\* What the maps are without a node.
Less(T, d) == [x \in DOMAIN T |-> T[x] \ {d}]

LEMMA LessIs ==
  ASSUME NEW D, NEW T \in [D -> SUBSET D], NEW d, NEW R, R = Less(T, d)
  PROVE  R \in [D -> SUBSET D] /\ \A x \in D : R[x] = T[x] \ {d}
  BY DEF Less

\* The leaf d hangs from p.
LeafAt(h, U, T, S, d, p, side) ==
  /\ Shape(h, U, T, S, d) /\ d \in U /\ p \in U /\ side \in Around
  /\ h[d]["left"] = 0 /\ h[d]["right"] = 0 /\ h[p][side] = d

\* A leaf is unhung.
LEMMA CutLeaf ==
  ASSUME NEW h, NEW U, NEW T, NEW S, NEW d, NEW p, NEW side, LeafAt(h, U, T, S, d, p, side), NEW g, g = SetSon(h, p, side, 0),
         NEW R, NEW Q, R = Less(T, d), Q = Less(S, d)
  PROVE  /\ Shape(g, U \ {d}, R, Q, NoNode) /\ SonSet(g, h, p, side, 0) /\ p # d
         /\ \A lev \in (U \cup {0}) \ {d} : p \in S[h[lev].mid] => Alike(h, T, S, g, R, Q, U, d, lev)
  <1>0. d \in U /\ p \in U /\ side \in Around /\ h[d]["left"] = 0 /\ h[d]["right"] = 0 /\ h[p][side] = d
    BY DEF LeafAt
  <1>1. Loose(h, U, T, S, d) /\ Wired(h, U, d) /\ Bounded(h, U, T, d) /\ Levels(h, U, S) /\ Sorted(h, U, S, d) /\ Exact(h, U, T, d)
    BY DEF LeafAt, Shape, Loose
  <1>2. (\A x \in U \cup {0} : x \in DOMAIN h) /\ 0 \notin U /\ NoNode \notin U /\ d # 0 /\ 0 \in DOMAIN h
    BY <1>0, <1>1, NodeIn DEF Wired
  <1>3. p # d
    BY <1>0, <1>1, <1>2, HangsIs
  <1>4. SonSet(g, h, p, side, 0)
    <2>1. IsHeap(h) /\ side \in Sides /\ p \in DOMAIN h
      BY <1>0, <1>1, <1>2, OtherIs DEF Wired
    <2> QED BY <1>0, <1>2, <2>1, SetSonIs
  <1>5. /\ IsHeap(g) /\ DOMAIN g = DOMAIN h
        /\ \A y \in DOMAIN h : /\ SameData(g, h, y) /\ g[y].color = h[y].color /\ g[y].parent = h[y].parent
                               /\ \A s \in Sides : g[y][s] = IF y = p /\ s = side THEN 0 ELSE h[y][s]
                               /\ y # p => g[y] = h[y]
    BY <1>4 DEF SonSet
  <1>6. side \in Sides /\ side # "mid" /\ "mid" \in Sides /\ Around \subseteq Sides
    BY <1>0, OtherIs DEF Sides, Around
  <1>7. \A x \in U \cup {0} : g[x].mid = h[x].mid /\ g[x]["mid"] = h[x]["mid"]
    BY <1>0, <1>2, <1>5, <1>6
  <1>8. \A x \in (U \ {d}) \cup {0}, s \in Sides : /\ Son(g, NoNode, x, s) = IF x = p /\ s = side THEN 0 ELSE Son(h, d, x, s)
                                                   /\ Son(h, d, x, s) = d => x = p /\ s = side
    <2> TAKE x \in (U \ {d}) \cup {0}, s \in Sides
    <2>1. x \in U \cup {0} /\ x # d /\ x # NoNode /\ x \in DOMAIN h
      <3>1. 0 # NoNode
        BY DEF NoNode
      <3> QED BY <1>0, <1>2, <3>1
    <2>2. Son(g, NoNode, x, s) = g[x][s] /\ Son(h, d, x, s) = h[x][s]
      BY <2>1 DEF Son, Mid
    <2>3. Son(h, d, x, s) = d => x = p /\ s = side
      <3> SUFFICES ASSUME Son(h, d, x, s) = Son(h, d, p, side), Son(h, d, x, s) # 0 PROVE x = p /\ s = side
        BY <1>0, <1>2, <1>6 DEF Son
      <3> QED BY <1>0, <1>1, <1>6, <2>1, OneParent
    <2> QED BY <1>0, <1>5, <2>1, <2>2, <2>3
  <1>9. \A x \in (U \ {d}) \cup {0} : Mid(g, NoNode, x) = Mid(h, d, x) /\ Mid(h, d, x) = h[x].mid /\ Mid(h, d, x) # d
    <2>1. \A x \in (U \ {d}) \cup {0} : Mid(g, NoNode, x) = Son(g, NoNode, x, "mid") /\ Mid(h, d, x) = Son(h, d, x, "mid")
      BY DEF Son
    <2>2. \A x \in (U \ {d}) \cup {0} : Mid(h, d, x) = h[x].mid
      BY <1>0, <1>2 DEF Mid
    <2> QED BY <1>6, <1>8, <2>1, <2>2
  <1>10. Wired(g, U \ {d}, NoNode)
    <2>1. IsHeap(g) /\ IsFiniteSet(DOMAIN g) /\ NoNode \notin DOMAIN g /\ U \ {d} \subseteq DOMAIN g \ {0}
          /\ g[0]["left"] = 0 /\ g[0]["right"] = 0 /\ g[0].color = BLACK
      BY <1>0, <1>1, <1>2, <1>5 DEF Wired
    <2>2. \A x \in (U \ {d}) \cup {0}, s \in Sides : Son(g, NoNode, x, s) \in (U \ {d}) \cup {0}
      BY <1>0, <1>1, <1>8 DEF Wired
    <2>3. \A x \in U \ {d}, s \in Around : g[x][s] # 0 => g[g[x][s]].parent = x
      <3> TAKE x \in U \ {d}, s \in Around
      <3>1. g[x][s] = h[x][s] \/ g[x][s] = 0
        BY <1>0, <1>2, <1>5, <1>6
      <3>2. h[x][s] \in DOMAIN h /\ (h[x][s] # 0 => h[h[x][s]].parent = x)
        <4>1. x \in U
          OBVIOUS
        <4>2. h[x][s] \in DOMAIN h
          BY <1>0, <1>1, <4>1, AroundIn
        <4> QED BY <1>0, <1>1, <4>1, <4>2 DEF Wired
      <3> QED BY <1>0, <1>5, <3>1, <3>2
    <2>4. \A x \in (U \ {d}) \cup {0} : Mid(g, NoNode, x) # 0 => g[Mid(g, NoNode, x)].parent = 0
      <3> TAKE x \in (U \ {d}) \cup {0}
      <3>1. Mid(h, d, x) \in U \cup {0} /\ (Mid(h, d, x) # 0 => h[Mid(h, d, x)].parent = 0)
        BY <1>0, <1>1, SonIs DEF Wired, Sides
      <3> QED BY <1>0, <1>2, <1>5, <1>9, <3>1
    <2>5. \A x, y \in (U \ {d}) \cup {0} : Mid(g, NoNode, x) = Mid(g, NoNode, y) /\ Mid(g, NoNode, x) # 0 => x = y
      BY <1>0, <1>1, <1>9 DEF Wired
    <2>6. \A x \in U \ {d} : g[x]["left"] = g[x]["right"] => g[x]["left"] = 0
      <3> TAKE x \in U \ {d}
      <3>1. h[x]["left"] = h[x]["right"] => h[x]["left"] = 0
        BY <1>1 DEF Wired
      <3>2. \A s \in Around : g[x][s] = IF x = p /\ s = side THEN 0 ELSE h[x][s]
        BY <1>2, <1>5, <1>6
      <3> QED BY <3>1, <3>2 DEF Around
    <2> QED BY <2>1, <2>2, <2>3, <2>4, <2>5, <2>6 DEF Wired
  <1>11. R \in [DOMAIN h -> SUBSET DOMAIN h] /\ \A x \in DOMAIN h : R[x] = T[x] \ {d}
    BY <1>0, <1>1, LessIs DEF Bounded
  <1>12. Q \in [DOMAIN h -> SUBSET DOMAIN h] /\ \A x \in DOMAIN h : Q[x] = S[x] \ {d}
    BY <1>0, <1>1, LessIs DEF Levels
  <1>13. T[0] = {} /\ S[0] = {} /\ T[d] = {d} /\ S[d] = {d} /\ R[0] = {} /\ Q[0] = {}
    <2>1. Mid(h, d, d) = 0
      BY DEF Mid
    <2> QED BY <1>0, <1>1, <1>2, <1>11, <1>12, <2>1 DEF Bounded, Levels, Exact
  <1>14. \A x \in U \ {d}, s \in Sides : R[Son(g, NoNode, x, s)] = T[Son(h, d, x, s)] \ {d}
    <2> TAKE x \in U \ {d}, s \in Sides
    <2>1. Son(h, d, x, s) \in DOMAIN h
      BY <1>0, <1>1, NodeIn
    <2>2. x = p /\ s = side => Son(h, d, x, s) = d
      BY <1>0, <1>6 DEF Son
    <2> QED BY <1>0, <1>8, <1>11, <1>13, <2>1, <2>2
  <1>15. Bounded(g, U \ {d}, R, NoNode)
    <2>1. \A x \in U \ {d} : x \in R[x] /\ \A s \in Sides : R[Son(g, NoNode, x, s)] \subseteq R[x] /\ x \notin R[Son(g, NoNode, x, s)]
      BY <1>0, <1>1, <1>2, <1>11, <1>14 DEF Bounded
    <2> QED BY <1>0, <1>5, <1>11, <1>13, <2>1 DEF Bounded
  <1>16. Exact(g, U \ {d}, R, NoNode)
    <2> SUFFICES ASSUME NEW x \in U \ {d}
                 PROVE  /\ R[x] = {x} \cup R[g[x]["left"]] \cup R[Mid(g, NoNode, x)] \cup R[g[x]["right"]]
                        /\ \A s, q \in Sides : s # q => R[Son(g, NoNode, x, s)] \cap R[Son(g, NoNode, x, q)] = {}
      BY DEF Exact
    <2>1. Son(g, NoNode, x, "left") = g[x]["left"] /\ Son(g, NoNode, x, "right") = g[x]["right"] /\ Son(g, NoNode, x, "mid") = Mid(g, NoNode, x)
      BY DEF Son
    <2>2. Son(h, d, x, "left") = h[x]["left"] /\ Son(h, d, x, "right") = h[x]["right"] /\ Son(h, d, x, "mid") = Mid(h, d, x)
      BY DEF Son
    <2>3. /\ R[g[x]["left"]] = T[h[x]["left"]] \ {d} /\ R[g[x]["right"]] = T[h[x]["right"]] \ {d}
          /\ R[Mid(g, NoNode, x)] = T[Mid(h, d, x)] \ {d}
      BY <1>14, <2>1, <2>2 DEF Sides
    <2>4. R[x] = T[x] \ {d} /\ x # d
      BY <1>0, <1>2, <1>11
    <2>5. T[x] = {x} \cup T[h[x]["left"]] \cup T[Mid(h, d, x)] \cup T[h[x]["right"]]
      BY <1>1 DEF Exact
    <2>6. \A s, q \in Sides : s # q => T[Son(h, d, x, s)] \cap T[Son(h, d, x, q)] = {}
      BY <1>1 DEF Exact
    <2>7. \A s, q \in Sides : s # q => R[Son(g, NoNode, x, s)] \cap R[Son(g, NoNode, x, q)] = {}
      <3> TAKE s, q \in Sides
      <3>1. R[Son(g, NoNode, x, s)] = T[Son(h, d, x, s)] \ {d} /\ R[Son(g, NoNode, x, q)] = T[Son(h, d, x, q)] \ {d}
        BY <1>14
      <3> QED BY <2>6, <3>1
    <2> QED BY <2>3, <2>4, <2>5, <2>7
  <1>17. \A x \in U \ {d}, s \in Around : Q[g[x][s]] = S[h[x][s]] \ {d}
    <2> TAKE x \in U \ {d}, s \in Around
    <2>1. h[x][s] \in DOMAIN h /\ s \in Sides
      BY <1>0, <1>1, <1>6, AroundIn
    <2>2. g[x][s] = IF x = p /\ s = side THEN 0 ELSE h[x][s]
      BY <1>0, <1>2, <1>5, <2>1
    <2> QED BY <1>0, <1>12, <1>13, <2>1, <2>2
  <1>18. Levels(g, U \ {d}, Q)
    <2>1. \A x \in U \ {d} : Q[x] = {x} \cup Q[g[x]["left"]] \cup Q[g[x]["right"]]
      <3> TAKE x \in U \ {d}
      <3>1. S[x] = {x} \cup S[h[x]["left"]] \cup S[h[x]["right"]] /\ Q[x] = S[x] \ {d} /\ x # d
        BY <1>0, <1>1, <1>2, <1>12 DEF Levels
      <3>2. Q[g[x]["left"]] = S[h[x]["left"]] \ {d} /\ Q[g[x]["right"]] = S[h[x]["right"]] \ {d}
        BY <1>17 DEF Around
      <3> QED BY <3>1, <3>2
    <2> QED BY <1>0, <1>5, <1>12, <1>13, <2>1 DEF Levels
  <1>19. Sorted(g, U \ {d}, Q, NoNode)
    <2>1. \A x \in U \ {d}, s \in Around : \A y \in S[h[x][s]] \ {d} : Ahead(s, h[y].cbyte, h[x].cbyte)
      BY <1>0, <1>1, SortedIs
    <2>2. \A x \in DOMAIN h : g[x].cbyte = h[x].cbyte
      BY <1>0, <1>5 DEF SameData
    <2>3. \A x \in (U \ {d}) \ {NoNode}, s \in Around : \A y \in Q[g[x][s]] \ {NoNode} : Ahead(s, g[y].cbyte, g[x].cbyte)
      <3> TAKE x \in U \ {d}, s \in Around
      <3>1. Q[g[x][s]] = S[h[x][s]] \ {d} /\ h[x][s] \in DOMAIN h /\ x \in DOMAIN h
        BY <1>0, <1>1, <1>2, <1>17, AroundIn
      <3>2. S[h[x][s]] \subseteq DOMAIN h
        BY <1>0, <1>1, <3>1 DEF Levels
      <3> QED BY <2>1, <2>2, <3>1, <3>2
    <2> QED BY <2>3, SortedIs
  <1>20. Shape(g, U \ {d}, R, Q, NoNode)
    BY <1>10, <1>15, <1>16, <1>18, <1>19 DEF Shape, Loose
  <1>21. ASSUME NEW lev \in (U \cup {0}) \ {d}, p \in S[h[lev].mid] PROVE Alike(h, T, S, g, R, Q, U, d, lev)
    <2>1. \A x \in (U \cup {0}) \ {d} : /\ R[g[x].mid] \ {d} = T[h[x].mid] \ {d} /\ Q[g[x].mid] \ {d} = S[h[x].mid] \ {d}
                                        /\ g[x].mid = 0 <=> h[x].mid = 0
      <3> TAKE x \in (U \cup {0}) \ {d}
      <3>1. g[x].mid = h[x].mid /\ h[x].mid \in DOMAIN h
        BY <1>0, <1>1, <1>2, <1>7, HeapFields DEF Wired
      <3> QED BY <1>11, <1>12, <3>1
    <2>2. \A x \in DOMAIN h \ {d} : x \notin S[h[lev].mid] => g[x].color = h[x].color /\ (x # lev => g[x] = h[x])
      BY <1>0, <1>5, <1>21
    <2> QED BY <1>0, <1>5, <2>1, <2>2 DEF Alike
  <1> QED BY <1>3, <1>4, <1>20, <1>21

\* Counting goes on without the leaf.
LEMMA CutCounts ==
  ASSUME NEW h, NEW U, NEW T, NEW S, NEW d \in U, Shape(h, U, T, S, d), NEW p \in U, NEW side \in Around, h[p][side] = d,
         NEW g, SonSet(g, h, p, side, 0), NEW b, NEW e, NEW m, e \notin {0, d}, Counts(h, U, b, d, e, m), Reds(h, U, d, e)
  PROVE  Counts(g, U \ {d}, b, NoNode, e, m) /\ Reds(g, U \ {d}, NoNode, e)
  <1>1. Loose(h, U, T, S, d) /\ Wired(h, U, d)
    BY DEF Shape, Loose
  <1>2. (\A x \in U \cup {0} : x \in DOMAIN h) /\ 0 \notin U /\ NoNode \notin U /\ h[0].color = BLACK
    BY <1>1, NodeIn DEF Wired
  <1>3. /\ DOMAIN g = DOMAIN h
        /\ \A y \in DOMAIN h : /\ g[y].color = h[y].color
                               /\ \A s \in Sides : g[y][s] = IF y = p /\ s = side THEN 0 ELSE h[y][s]
    BY DEF SonSet
  <1>4. \A x \in U, s \in Around : g[x][s] = IF x = p /\ s = side THEN 0 ELSE h[x][s]
    BY <1>2, <1>3 DEF Around, Sides
  <1>5. \A x \in (U \ {d}) \cup {0} : Mid(g, NoNode, x) = Mid(h, d, x)
    <2> TAKE x \in (U \ {d}) \cup {0}
    <2>1. g[x]["mid"] = h[x]["mid"]
      BY <1>2, <1>3, OtherIs DEF Sides
    <2>2. x # d /\ x # NoNode
      <3>1. 0 # NoNode /\ d # 0
        BY <1>2 DEF NoNode
      <3> QED BY <1>2, <3>1
    <2> QED BY <2>1, <2>2 DEF Mid
  <1>6. Counts(g, U \ {d}, b, NoNode, e, m)
    <2>1. \A x \in U \ {d}, s \in Around : b[x] = Seen(b, e, m, g[x][s]) + Blk(g, x)
      <3> TAKE x \in U \ {d}, s \in Around
      <3>1. b[x] = Seen(b, e, m, h[x][s]) + Blk(h, x) /\ b[0] = 0 /\ b[d] = 0
        BY DEF Counts
      <3>2. Blk(g, x) = Blk(h, x)
        BY <1>2, <1>3 DEF Blk
      <3>3. Seen(b, e, m, 0) = 0 /\ Seen(b, e, m, d) = 0
        BY <3>1 DEF Seen
      <3>4. Seen(b, e, m, g[x][s]) = Seen(b, e, m, h[x][s])
        BY <1>4, <3>3
      <3> QED BY <3>1, <3>2, <3>4
    <2> QED BY <1>2, <1>3, <2>1 DEF Counts
  <1>7. Reds(g, U \ {d}, NoNode, e)
    <2>1. \A x \in (U \ {d}) \ {e}, s \in Around : g[x].color = RED /\ g[x][s] # e => g[g[x][s]].color = BLACK
      <3> TAKE x \in (U \ {d}) \ {e}, s \in Around
      <3>1. h[x][s] \in DOMAIN h /\ g[x].color = h[x].color /\ g[0].color = BLACK
        BY <1>1, <1>2, <1>3, AroundIn
      <3>2. h[x].color = RED /\ h[x][s] # e => h[h[x][s]].color = BLACK
        BY DEF Reds
      <3> QED BY <1>3, <1>4, <3>1, <3>2
    <2>2. \A x \in (U \ {d}) \cup {0} : Mid(g, NoNode, x) \notin {0, e} => g[Mid(g, NoNode, x)].color = BLACK
      <3> TAKE x \in (U \ {d}) \cup {0}
      <3>1. Mid(h, d, x) \in DOMAIN h
        BY <1>1, SonIs, NodeIn DEF Sides
      <3> QED BY <1>3, <1>5, <3>1 DEF Reds
    <2> QED BY <2>1, <2>2 DEF Reds
  <1> QED BY <1>6, <1>7

-----------------------------------------------------------------------------
\* Only on the way from p to its son on the side there is a black node too few.
Missing(h, U, b, p, side) ==
  /\ b \in [DOMAIN h -> Nat] /\ b[0] = 0
  /\ \A x \in U, s \in Around : b[x] = b[h[x][s]] + (IF x = p /\ s = side THEN 1 ELSE 0) + Blk(h, x)

\* The sibling comes up with the color of p; its far son was red, and no node is missing any more.
LEMMA SiblingCounts ==
  ASSUME NEW h, NEW U, NEW T, NEW S, NEW lev, NEW p, NEW side, Turning(h, U, T, S, NoNode, lev, p, side),
         NEW up, NEW inner, TurnNodes(h, U, NoNode, lev, p, side, up, inner),
         NEW g, Rewired(h, g, U, NoNode, p, up, inner, side), DOMAIN g = DOMAIN h,
         NEW b, Missing(h, U, b, p, side), Reds(h, U, NoNode, NoNode),
         NEW far \in U, far = h[up][Other(side)], h[far].color = RED, h[up].color = BLACK, h[h[p][side]].color = BLACK,
         g[up].color = h[p].color, g[p].color = BLACK, g[far].color = BLACK,
         \A y \in DOMAIN h : y \notin {p, up, far} => g[y].color = h[y].color
  PROVE  \E c : Even(g, U, c)
  <1>1. Shape(h, U, T, S, NoNode) /\ Loose(h, U, T, S, NoNode) /\ Wired(h, U, NoNode) /\ side \in Around /\ Other(side) \in Around /\ side # Other(side)
        /\ \A s \in Around : s = side \/ s = Other(side)
    BY OtherIs DEF Turning, Shape, Loose
  <1>2. /\ p \in U /\ up \in U /\ inner \in U \cup {0} /\ p # up /\ inner # p /\ inner # up
        /\ h[p][Other(side)] = up /\ h[up][side] = inner /\ h[p][side] \notin {p, up} /\ h[up][Other(side)] \notin {p, up}
        /\ far \notin {p, up}
    BY DEF TurnNodes
  <1>3. /\ (\A x \in U \cup {0} : x \in DOMAIN h) /\ 0 \notin U /\ NoNode \notin U \cup {0}
        /\ \A x \in U, s \in Around : h[x][s] \in U \cup {0}
    BY <1>1, NodeIn, AroundIn, NoHole
  <1>4. /\ b \in [DOMAIN h -> Nat] /\ b[0] = 0
        /\ \A x \in U, s \in Around : b[x] = b[h[x][s]] + (IF x = p /\ s = side THEN 1 ELSE 0) + Blk(h, x)
    BY DEF Missing
  <1>5. PICK n : n = h[p][side]
    OBVIOUS
  <1>6. ASSUME NEW x \in U, NEW s \in Around, NEW y \in U, NEW q \in Around, h[x][s] = h[y][q], h[x][s] # 0 PROVE x = y /\ s = q
    <2>1. Son(h, NoNode, x, s) = h[x][s] /\ Son(h, NoNode, y, q) = h[y][q] /\ s \in Sides /\ q \in Sides
      BY DEF Son, Around, Sides
    <2> QED BY <1>1, <1>6, <2>1, OneParent
  <1>7. n \notin {p, up, far} /\ inner # far /\ n \in U \cup {0}
    <2>1. n # far
      <3> SUFFICES ASSUME n = far PROVE FALSE
        OBVIOUS
      <3>1. h[p][side] = h[up][Other(side)] /\ h[p][side] # 0
        BY <1>3, <1>5
      <3>2. p = up
        BY <1>1, <1>2, <1>6, <3>1
      <3> QED BY <1>2, <3>2
    <2>2. inner = far => FALSE
      BY <1>1, <1>2, <1>3, <1>6
    <2> QED BY <1>1, <1>2, <1>3, <1>5, <2>1, <2>2
  <1>8. /\ b[p] \in Nat /\ b[up] \in Nat /\ b[n] \in Nat /\ b[inner] \in Nat /\ b[far] \in Nat
        /\ b[p] = b[n] + 1 + Blk(h, p) /\ b[p] = b[up] + Blk(h, p) /\ b[up] = b[inner] + 1 /\ b[up] = b[far] + 1
        /\ Blk(h, p) \in Nat
    <2>1. Blk(h, up) = 1 /\ Blk(h, p) \in Nat
      BY DEF Blk
    <2>2. /\ b[p] \in Nat /\ b[up] \in Nat /\ b[n] \in Nat /\ b[inner] \in Nat /\ b[far] \in Nat
      BY <1>2, <1>3, <1>4, <1>7
    <2>3. b[p] = b[n] + 1 + Blk(h, p) /\ b[p] = b[up] + 0 + Blk(h, p)
      BY <1>1, <1>2, <1>4, <1>5
    <2>4. b[up] = b[inner] + 0 + 1 /\ b[up] = b[far] + 0 + 1
      BY <1>1, <1>2, <1>4, <2>1
    <2> QED BY <2>1, <2>2, <2>3, <2>4
  <1>9. PICK c : c = [y \in DOMAIN h |-> IF y = up THEN b[p] ELSE IF y = p THEN b[n] + 1 ELSE IF y = far THEN b[far] + 1 ELSE b[y]]
    OBVIOUS
  <1>10. /\ c \in [DOMAIN h -> Nat] /\ c[up] = b[p] /\ c[p] = b[n] + 1 /\ c[far] = b[far] + 1
         /\ \A y \in DOMAIN h : y \notin {p, up, far} => c[y] = b[y]
    BY <1>2, <1>3, <1>4, <1>8, <1>9
  <1>11. \A x \in U, s \in Around : g[x][s] = IF x = p /\ s = Other(side) THEN inner ELSE IF x = up /\ s = side THEN p
                                              ELSE IF h[x][s] = p THEN up ELSE h[x][s]
    <2>1. \A x \in U, s \in Around : Son(g, NoNode, x, s) = g[x][s] /\ Son(h, NoNode, x, s) = h[x][s] /\ s \in Sides
      BY DEF Son, Around, Sides
    <2> QED BY <2>1 DEF Rewired
  <1>12. g[p][side] = n /\ g[p][Other(side)] = inner /\ g[up][side] = p /\ g[up][Other(side)] = far
    BY <1>1, <1>2, <1>5, <1>11
  <1>13. \A x \in DOMAIN h : x \notin {p, up, far} => Blk(g, x) = Blk(h, x)
    BY DEF Blk
  <1>14. Blk(g, p) = 1 /\ Blk(g, up) = Blk(h, p) /\ Blk(g, far) = 1 /\ Blk(h, far) = 0
    BY DEF Blk, BLACK, RED
  <1>15. ASSUME NEW x \in U, NEW s \in Around, x \notin {p, up}
         PROVE  h[x][s] \notin {up, far} /\ g[x][s] = IF h[x][s] = p THEN up ELSE h[x][s]
    <2>1. h[x][s] # up /\ h[x][s] # far
      BY <1>1, <1>2, <1>3, <1>6, <1>15
    <2> QED BY <1>11, <1>15, <2>1
  <1>16. ASSUME NEW x \in U, NEW s \in Around PROVE c[x] = c[g[x][s]] + Blk(g, x)
    <2>1. CASE x = p
      <3>1. c[g[p][s]] = b[n]
        <4>1. CASE s = side
          BY <1>3, <1>7, <1>10, <1>12, <4>1
        <4>2. CASE s = Other(side)
          BY <1>2, <1>3, <1>7, <1>8, <1>10, <1>12, <4>2
        <4> QED BY <1>1, <4>1, <4>2
      <3> QED BY <1>10, <1>14, <2>1, <3>1
    <2>2. CASE x = up
      <3>1. c[g[up][s]] = b[n] + 1
        <4>1. CASE s = side
          BY <1>10, <1>12, <4>1
        <4>2. CASE s = Other(side)
          BY <1>8, <1>10, <1>12, <4>2
        <4> QED BY <1>1, <4>1, <4>2
      <3> QED BY <1>8, <1>10, <1>14, <2>2, <3>1
    <2>3. CASE x \notin {p, up}
      <3>1. b[x] = b[h[x][s]] + Blk(h, x) /\ b[h[x][s]] \in Nat /\ h[x][s] \in DOMAIN h /\ x \in DOMAIN h /\ Blk(h, x) \in Nat
        <4>1. b[x] = b[h[x][s]] + 0 + Blk(h, x)
          BY <1>4, <2>3
        <4>2. h[x][s] \in DOMAIN h /\ x \in DOMAIN h /\ Blk(h, x) \in Nat
          BY <1>3 DEF Blk
        <4> QED BY <1>4, <4>1, <4>2
      <3>2. c[g[x][s]] = b[h[x][s]]
        <4>1. CASE h[x][s] = p
          BY <1>10, <1>15, <2>3, <4>1
        <4>2. CASE h[x][s] # p
          BY <1>10, <1>15, <2>3, <3>1, <4>2
        <4> QED BY <4>1, <4>2
      <3>3. CASE x = far
        BY <1>10, <1>14, <3>1, <3>2, <3>3
      <3>4. CASE x # far
        BY <1>10, <1>13, <2>3, <3>1, <3>2, <3>4
      <3> QED BY <3>3, <3>4
    <2> QED BY <2>1, <2>2, <2>3
  <1>17. Counts(g, U, c, NoNode, NoNode, 0)
    <2>1. 0 \notin {p, up, far} /\ 0 \in DOMAIN h
      BY <1>2, <1>3
    <2>2. \A x \in U \ {NoNode}, s \in Around : c[x] = Seen(c, NoNode, 0, g[x][s]) + Blk(g, x)
      <3> TAKE x \in U \ {NoNode}, s \in Around
      <3>1. g[x][s] \in DOMAIN h /\ g[x][s] # NoNode
        BY <1>2, <1>3, <1>11
      <3> QED BY <1>16, <3>1 DEF Seen
    <2> QED BY <1>3, <1>4, <1>10, <2>1, <2>2 DEF Counts
  <1>18. /\ \A x \in U, s \in Around : h[x].color = RED => h[h[x][s]].color = BLACK
         /\ \A x \in U \cup {0} : Mid(h, NoNode, x) # 0 => h[Mid(h, NoNode, x)].color = BLACK
    <2>1. \A x \in U, s \in Around : h[x].color = RED => h[h[x][s]].color = BLACK
      BY <1>3 DEF Reds
    <2>2. \A x \in U \cup {0} : Mid(h, NoNode, x) # NoNode
      BY <1>1, <1>3, NoHole
    <2> QED BY <2>1, <2>2 DEF Reds
  <1>19. ASSUME NEW x \in U \ {NoNode}, NEW s \in Around, g[x].color = RED, g[x][s] # NoNode PROVE g[g[x][s]].color = BLACK
    <2>1. CASE x = p
      BY <1>19, <2>1 DEF BLACK, RED
    <2>2. CASE x = up
      <3>1. CASE s = side
        BY <1>12, <2>2, <3>1
      <3>2. CASE s = Other(side)
        BY <1>12, <2>2, <3>2
      <3> QED BY <1>1, <3>1, <3>2
    <2>3. CASE x \notin {p, up}
      <3>1. x # far /\ h[x].color = RED /\ h[x][s] \in DOMAIN h
        BY <1>3, <1>19, <2>3, BlackIsNotRed
      <3>2. CASE h[x][s] = p
        <4>1. h[p].color = BLACK /\ g[x][s] = up
          BY <1>15, <1>18, <2>3, <3>1, <3>2
        <4> QED BY <4>1
      <3>3. CASE h[x][s] # p
        <4>1. g[x][s] = h[x][s] /\ h[x][s] \notin {p, up, far}
          BY <1>15, <2>3, <3>3
        <4> QED BY <1>18, <3>1, <4>1
      <3> QED BY <3>2, <3>3
    <2> QED BY <2>1, <2>2, <2>3
  <1>20. ASSUME NEW x \in U \cup {0}, Mid(g, NoNode, x) \notin {0, NoNode} PROVE g[Mid(g, NoNode, x)].color = BLACK
    <2>1. Mid(g, NoNode, x) = IF Mid(h, NoNode, x) = p THEN up ELSE Mid(h, NoNode, x)
      BY <1>1, SonIs DEF Rewired, Sides, Around
    <2>2. CASE Mid(h, NoNode, x) = p
      BY <1>2, <1>3, <1>18, <2>1, <2>2
    <2>3. CASE Mid(h, NoNode, x) # p
      <3>1. Mid(g, NoNode, x) = Mid(h, NoNode, x) /\ Mid(h, NoNode, x) \in U \cup {0} /\ h[Mid(h, NoNode, x)].color = BLACK
        BY <1>1, <1>18, <1>20, <2>1, <2>3, SonIs DEF Wired, Sides
      <3>2. Mid(h, NoNode, x) # far
        BY <3>1 DEF BLACK, RED
      <3>3. Mid(h, NoNode, x) = up => g[up].color = BLACK
        <4>1. Mid(h, NoNode, x) # up
          <5>1. h[up].parent = p /\ p # 0
            BY <1>2, <1>3 DEF TurnNodes
          <5>2. Mid(h, NoNode, x) # 0 => h[Mid(h, NoNode, x)].parent = 0
            BY <1>1 DEF Wired
          <5> QED BY <1>3, <1>2, <5>1, <5>2
        <4> QED BY <4>1
      <3> QED BY <1>3, <2>3, <3>1, <3>2, <3>3
    <2> QED BY <2>2, <2>3
  <1> QED BY <1>17, <1>19, <1>20 DEF Reds, Even

\* The sibling comes up, and the tree is even.
LEMMA SiblingUp ==
  ASSUME NEW h, NEW U, NEW T, NEW S, Shape(h, U, T, S, NoNode), NEW b, NEW lev \in U \cup {0}, NEW p \in S[h[lev].mid], NEW side \in Around,
         Missing(h, U, b, p, side), Reds(h, U, NoNode, NoNode), h[h[p][side]].color = BLACK,
         NEW s \in U, s = h[p][Other(side)], h[s].color = BLACK, h[s][Other(side)] # 0, h[h[s][Other(side)]].color = RED,
         NEW g, g = SiblingComesUp(h, lev, p, side)
  PROVE  \E R, Q, c : Shape(g, U, R, Q, NoNode) /\ Even(g, U, c) /\ Alike(h, T, S, g, R, Q, U, NoNode, lev)
  <1>1. Loose(h, U, T, S, NoNode) /\ Wired(h, U, NoNode) /\ IsHeap(h) /\ lev # NoNode /\ lev \in (U \cup {0}) \ {NoNode}
    BY NoHole DEF Shape, Loose, Wired
  <1>2. 0 \notin U /\ (\A x \in U \cup {0} : x \in DOMAIN h) /\ Mid(h, NoNode, lev) = h[lev].mid
    BY <1>1, NodeIn, LevIs
  <1>3. Turning(h, U, T, S, NoNode, lev, p, side)
    BY <1>1, <1>2, NoHole, LevIs DEF Turning, Upper
  <1>4. PICK up, inner : TurnNodes(h, U, NoNode, lev, p, side, up, inner)
    BY <1>3, TurnNodesAre
  <1>5. up = s /\ p \in U /\ p # s /\ Other(side) \in Around
    BY <1>4 DEF TurnNodes, Upper
  <1>6. PICK far : far = h[s][Other(side)]
    OBVIOUS
  <1>7. far \in U /\ far # s /\ far # p
    <2>1. far \in U /\ far # s
      BY <1>1, <1>5, <1>6, HangsIs
    <2>2. far # p
      BY <1>4, <1>5, <1>6 DEF TurnNodes
    <2> QED BY <2>1, <2>2
  <1>8. h[lev].mid \in U /\ s \in S[h[lev].mid] /\ far \in S[h[lev].mid]
    <2>1. h[lev].mid \in U
      BY <1>1, LevIs
    <2>2. s \in S[h[lev].mid]
      BY <1>1, <1>2, <1>5, <2>1, SonInLevel
    <2> QED BY <1>1, <1>2, <1>5, <1>6, <2>1, <2>2, SonInLevel
  <1>9. PICK P : P = {p, s, far}
    OBVIOUS
  <1>10. PICK f1 : f1 = Color(h, s, h[p].color)
    OBVIOUS
  <1>11. PICK f2 : f2 = Color(f1, p, BLACK)
    OBVIOUS
  <1>12. PICK f : f = Color(f2, far, BLACK)
    OBVIOUS
  <1>13. h[p].color \in {BLACK, RED} /\ s \in P /\ p \in P /\ far \in P /\ s \in DOMAIN h /\ p \in DOMAIN h /\ far \in DOMAIN h
    BY <1>1, <1>2, <1>5, <1>7, <1>9, HeapFields
  <1>14. Painted(h, h, P)
    BY <1>1, PaintedSelf
  <1>15. OnePainted(f1, h, h, P, s, h[p].color)
    BY <1>10, <1>13, <1>14, PaintMore
  <1>16. Painted(f1, h, P)
    BY <1>15 DEF OnePainted
  <1>17. OnePainted(f2, f1, h, P, p, BLACK)
    BY <1>11, <1>13, <1>16, PaintMore, BlackIsNotRed
  <1>18. Painted(f2, h, P)
    BY <1>17 DEF OnePainted
  <1>19. OnePainted(f, f2, h, P, far, BLACK)
    BY <1>12, <1>13, <1>18, PaintMore, BlackIsNotRed
  <1>20. Painted(f, h, P) /\ f[s].color = h[p].color /\ f[p].color = BLACK /\ f[far].color = BLACK
         /\ \A y \in DOMAIN h : y \notin {p, s, far} => f[y].color = h[y].color
    BY <1>5, <1>7, <1>13, <1>15, <1>17, <1>19 DEF OnePainted
  <1>21. g = Rotate(f, lev, p, side)
    <2>1. ThreeColors(h, s, p, side) = f
      BY <1>6, <1>10, <1>11, <1>12 DEF ThreeColors
    <2> QED BY <2>1, SiblingComesUpAs
  <1>22. P \subseteq S[h[lev].mid]
    BY <1>8, <1>9
  <1>23. /\ \E R, Q : RotatedTo(h, U, T, S, NoNode, lev, p, side, up, inner, g, R, Q)
         /\ \A y \in DOMAIN h : g[y].color = f[y].color
    BY <1>1, <1>3, <1>4, <1>20, <1>21, <1>22, PaintedTurn
  <1>24. PICK R, Q : RotatedTo(h, U, T, S, NoNode, lev, p, side, up, inner, g, R, Q)
    BY <1>23
  <1>25. Shape(g, U, R, Q, NoNode) /\ Alike(h, T, S, g, R, Q, U, NoNode, lev) /\ Rewired(h, g, U, NoNode, p, up, inner, side)
    BY <1>24 DEF RotatedTo
  <1>26. DOMAIN g = DOMAIN h
    BY <1>25 DEF Alike
  <1>27. g[up].color = h[p].color /\ g[p].color = BLACK /\ g[far].color = BLACK
         /\ \A y \in DOMAIN h : y \notin {p, up, far} => g[y].color = h[y].color
    BY <1>5, <1>13, <1>20, <1>23
  <1>28. far = h[up][Other(side)] /\ h[far].color = RED /\ h[up].color = BLACK
    BY <1>5, <1>6
  <1>29. \E c : Even(g, U, c)
    BY <1>3, <1>4, <1>7, <1>25, <1>26, <1>27, <1>28, SiblingCounts
  <1> QED BY <1>25, <1>29

-----------------------------------------------------------------------------
\* With d taken out, less is asked of a change.
LEMMA AlikeCut ==
  ASSUME NEW h, NEW T, NEW S, NEW g, NEW R, NEW Q, NEW U, NEW d, NEW lev, 0 \notin U, NEW V, V = U \ {d},
         NEW W, Shape(h, V, T, S, NoNode), Shape(g, V, R, Q, NoNode), Alike(h, T, S, g, R, Q, V, NoNode, lev)
  PROVE  Alike(h, T, S, g, R, Q, U, d, lev)
  <1>1. /\ T \in [DOMAIN h -> SUBSET DOMAIN h] /\ S \in [DOMAIN h -> SUBSET DOMAIN h] /\ IsHeap(h) /\ NoNode \notin DOMAIN h
        /\ R \in [DOMAIN g -> SUBSET DOMAIN g] /\ Q \in [DOMAIN g -> SUBSET DOMAIN g] /\ IsHeap(g)
        /\ \A x \in V \cup {0} : x \in DOMAIN h
    <2>1. Wired(h, V, NoNode) /\ Wired(g, V, NoNode)
      BY DEF Shape, Loose
    <2>2. \A x \in V \cup {0} : x \in DOMAIN h
      BY <2>1, NodeIn
    <2> QED BY <2>1, <2>2 DEF Shape, Loose, Bounded, Levels, Wired
  <1>2. DOMAIN g = DOMAIN h
    BY DEF Alike
  <1>3. ASSUME NEW x \in (U \cup {0}) \ {d}
        PROVE  /\ R[g[x].mid] \ {d} = T[h[x].mid] \ {d} /\ Q[g[x].mid] \ {d} = S[h[x].mid] \ {d}
               /\ g[x].mid = 0 <=> h[x].mid = 0
    <2>1. x \in V \cup {0} /\ x \in DOMAIN h /\ x # NoNode
      BY <1>1
    <2>2. h[x].mid \in DOMAIN h /\ g[x].mid \in DOMAIN h
      BY <1>1, <1>2, <2>1, HeapFields
    <2>3. NoNode \notin R[g[x].mid] /\ NoNode \notin T[h[x].mid] /\ NoNode \notin Q[g[x].mid] /\ NoNode \notin S[h[x].mid]
      BY <1>1, <1>2, <2>2
    <2>4. /\ R[g[x].mid] \ {NoNode} = T[h[x].mid] \ {NoNode} /\ Q[g[x].mid] \ {NoNode} = S[h[x].mid] \ {NoNode}
          /\ g[x].mid = 0 <=> h[x].mid = 0
      BY <2>1 DEF Alike
    <2>5. R[g[x].mid] = T[h[x].mid] /\ Q[g[x].mid] = S[h[x].mid]
      BY <2>3, <2>4, NoneLess
    <2> QED BY <2>4, <2>5
  <1>4. \A x \in DOMAIN h \ {d} : x \notin S[h[lev].mid] => g[x].color = h[x].color /\ (x # lev => g[x] = h[x])
    BY <1>1 DEF Alike
  <1>5. \A x \in DOMAIN h : SameData(g, h, x)
    BY DEF Alike
  <1> QED BY <1>2, <1>3, <1>4, <1>5 DEF Alike

\* Of the root of a level nothing is seen in it.
LEMMA RootUnseen ==
  ASSUME NEW h, NEW U, NEW T, NEW S, NEW d, Shape(h, U, T, S, d), NEW lev \in (U \cup {0}) \ {d}, h[lev].mid # 0
  PROVE  h[lev].mid \in U /\ \A x \in U, t \in Around : h[x][t] # h[lev].mid
  <1>1. Loose(h, U, T, S, d) /\ Wired(h, U, d)
    BY DEF Shape, Loose
  <1>2. Mid(h, d, lev) = h[lev].mid /\ Son(h, d, lev, "mid") = h[lev].mid /\ "mid" \in Sides
    BY DEF Mid, Son, Sides
  <1>3. h[lev].mid \in U
    BY <1>1, <1>2 DEF Wired
  <1>4. ASSUME NEW x \in U, NEW t \in Around, h[x][t] = h[lev].mid PROVE FALSE
    <2>1. Son(h, d, x, t) = h[x][t] /\ t \in Sides /\ t # "mid"
      BY DEF Son, Around, Sides
    <2> QED BY <1>1, <1>2, <1>4, <2>1, OneParent
  <1> QED BY <1>3, <1>4

LEMMA EvenIsDeleting ==
  ASSUME NEW h, NEW U, NEW T, NEW S, Shape(h, U, T, S, NoNode), NEW b, Even(h, U, b), NEW lev \in U \cup {0}, h[lev].mid # 0
  PROVE  Deleting(h, U, T, S, b, NoNode, lev, h[lev].mid)
  <1>1. Loose(h, U, T, S, NoNode) /\ Wired(h, U, NoNode) /\ NoNode \notin U \cup {0}
    BY NoHole DEF Shape, Loose
  <1>2. PICK r : r = h[lev].mid
    OBVIOUS
  <1>3. r \in U /\ r # 0 /\ r # NoNode /\ \A x \in U, t \in Around : h[x][t] # r
    BY <1>1, <1>2, RootUnseen
  <1>4. r \in S[r]
    BY <1>1, <1>3, LevelIs
  <1>5. Counts(h, U, b, NoNode, r, 1)
    <2>1. \A x \in U \ {NoNode}, s \in Around : b[x] = Seen(b, r, 1, h[x][s]) + Blk(h, x)
      <3> TAKE x \in U \ {NoNode}, s \in Around
      <3>1. b[x] = Seen(b, NoNode, 0, h[x][s]) + Blk(h, x)
        BY DEF Even, Counts
      <3>2. h[x][s] # r /\ h[x][s] # NoNode
        BY <1>1, <1>3, AroundIn
      <3> QED BY <3>1, <3>2 DEF Seen
    <2> QED BY <2>1 DEF Even, Counts
  <1>6. Reds(h, U, NoNode, r)
    <2>1. \A x \in U \cup {0} : Mid(h, NoNode, x) # NoNode
      BY <1>1, NoHole
    <2>2. \A x \in U, s \in Around : h[x][s] # NoNode
      BY <1>1, AroundIn
    <2> QED BY <1>1, <2>1, <2>2 DEF Even, Reds
  <1>7. lev \in (U \cup {0}) \ {NoNode} /\ r \in S[h[lev].mid] /\ NoNode # r
    BY <1>1, <1>2, <1>3, <1>4
  <1>8. Deleting(h, U, T, S, b, NoNode, lev, r)
    BY <1>5, <1>6, <1>7 DEF Deleting
  <1> QED BY <1>2, <1>8

\* What the place of n says of the counts.
LEMMA FixCounts ==
  ASSUME NEW h, NEW U, NEW T, NEW S, NEW b, NEW d, NEW lev, NEW n, Deleting(h, U, T, S, b, d, lev, n),
         NEW p, NEW side, NEW s, FixPlace(h, U, S, lev, n, p, side, s)
  PROVE  /\ b[s] = b[n] + 1 /\ b[p] = b[s] + Blk(h, p) /\ b[p] \in Nat /\ b[s] \in Nat /\ b[n] \in Nat /\ p # d /\ s # d
         /\ h[lev].mid # n /\ (\A x \in U, t \in Around : h[x][t] = n => x = p /\ t = side)
         /\ (\A x \in U, t \in Around : h[x][t] = s => x = p /\ t = Other(side))
         /\ \A x \in U \cup {0} : Mid(h, d, x) \notin {n, s}
  <1>1. /\ n \in U /\ p \in U /\ s \in U /\ p # n /\ s # n /\ p # s /\ side \in Around
        /\ h[n].parent = p /\ h[s].parent = p /\ h[p][side] = n /\ h[p][Other(side)] = s
        /\ p \in S[h[lev].mid] /\ s \in S[h[lev].mid] /\ h[n].color = BLACK
    BY DEF FixPlace
  <1>2. /\ Shape(h, U, T, S, d) /\ Loose(h, U, T, S, d) /\ Wired(h, U, d) /\ lev \in (U \cup {0}) \ {d}
        /\ n \in S[h[lev].mid] /\ d \in {NoNode, n} /\ Counts(h, U, b, d, n, 1)
    BY DEF Deleting, Shape, Loose
  <1>3. 0 \notin U /\ (\A x \in U \cup {0} : x \in DOMAIN h) /\ NoNode \notin DOMAIN h
    BY <1>2, NodeIn DEF Wired
  <1>4. Other(side) \in Around /\ p # d /\ s # d
    BY <1>1, <1>2, <1>3, OtherIs
  <1>5. h[lev].mid # n
    BY <1>1, <1>2, <1>3, LevIs
  <1>6. b[n] \in Nat /\ b[p] \in Nat /\ b[s] \in Nat /\ b[p] = b[n] + 1 + Blk(h, p) /\ b[p] = b[s] + Blk(h, p)
    <2>1. b[n] \in Nat /\ b[p] \in Nat /\ b[s] \in Nat
      BY <1>1, <1>2, <1>3 DEF Counts
    <2>2. b[p] = Seen(b, n, 1, n) + Blk(h, p) /\ b[p] = Seen(b, n, 1, s) + Blk(h, p)
      BY <1>1, <1>2, <1>4 DEF Counts
    <2> QED BY <1>1, <2>1, <2>2 DEF Seen
  <1>7. b[s] = b[n] + 1
    BY <1>6 DEF Blk
  <1>8. ASSUME NEW x \in U, NEW t \in Around, NEW q \in Around, h[x][t] = h[p][q], h[p][q] # 0 PROVE x = p /\ t = q
    <2>1. Son(h, d, x, t) = h[x][t] /\ Son(h, d, p, q) = h[p][q] /\ t \in Sides /\ q \in Sides
      BY DEF Son, Around, Sides
    <2> QED BY <1>1, <1>2, <1>8, <2>1, OneParent
  <1>9. \A x \in U, t \in Around : h[x][t] = n => x = p /\ t = side
    BY <1>1, <1>3, <1>8
  <1>10. \A x \in U, t \in Around : h[x][t] = s => x = p /\ t = Other(side)
    BY <1>1, <1>3, <1>4, <1>8
  <1>11. \A x \in U \cup {0} : Mid(h, d, x) \notin {n, s}
    BY <1>1, <1>2, <1>3 DEF Wired
  <1> QED BY <1>4, <1>5, <1>6, <1>7, <1>9, <1>10, <1>11

\* With both its sons black, the sibling becomes red: the node too few is one on the way to p then.
LEMMA PaintSibling ==
  ASSUME NEW h, NEW U, NEW T, NEW S, NEW b, NEW d, NEW lev, NEW n, Deleting(h, U, T, S, b, d, lev, n),
         NEW p, NEW side, NEW s, FixPlace(h, U, S, lev, n, p, side, s), h[s].color = BLACK,
         \A t \in Around : h[h[s][t]].color = BLACK, NEW g, g = Color(h, s, RED)
  PROVE  /\ Shape(g, U, T, S, d) /\ Alike(h, T, S, g, T, S, U, d, lev) /\ Painted(g, h, {s})
         /\ \E c : Counts(g, U, c, d, p, 1) /\ Reds(g, U, d, p)
  <1>1. /\ n \in U /\ p \in U /\ s \in U /\ p # n /\ s # n /\ p # s /\ side \in Around
        /\ h[n].parent = p /\ h[s].parent = p /\ h[p][side] = n /\ h[p][Other(side)] = s
        /\ p \in S[h[lev].mid] /\ s \in S[h[lev].mid] /\ h[n].color = BLACK
    BY DEF FixPlace
  <1>2. /\ Shape(h, U, T, S, d) /\ Loose(h, U, T, S, d) /\ Wired(h, U, d) /\ lev \in (U \cup {0}) \ {d} /\ IsHeap(h)
        /\ n \in S[h[lev].mid] /\ d \in {NoNode, n} /\ Counts(h, U, b, d, n, 1) /\ Reds(h, U, d, n)
    BY DEF Deleting, Shape, Loose, Wired
  <1>3. 0 \notin U /\ (\A x \in U \cup {0} : x \in DOMAIN h) /\ NoNode \notin DOMAIN h
        /\ \A x \in U, t \in Around : h[x][t] \in U \cup {0} /\ h[x][t] \in DOMAIN h
    <2>1. 0 \notin U /\ (\A x \in U \cup {0} : x \in DOMAIN h) /\ NoNode \notin DOMAIN h
      BY <1>2, NodeIn DEF Wired
    <2>2. \A x \in U, t \in Around : h[x][t] \in U \cup {0} /\ h[x][t] \in DOMAIN h
      BY <1>2, AroundIn
    <2> QED BY <2>1, <2>2
  <1>4. /\ b[s] = b[n] + 1 /\ b[p] = b[s] + Blk(h, p) /\ b[p] \in Nat /\ b[s] \in Nat /\ b[n] \in Nat /\ p # d /\ s # d
        /\ h[lev].mid # n /\ (\A x \in U, t \in Around : h[x][t] = n => x = p /\ t = side)
        /\ (\A x \in U, t \in Around : h[x][t] = s => x = p /\ t = Other(side))
        /\ \A x \in U \cup {0} : Mid(h, d, x) \notin {n, s}
    BY FixCounts
  <1>5. OnePainted(g, h, h, {s}, s, RED)
    <2>1. Painted(h, h, {s}) /\ s \in {s} /\ s \in DOMAIN h
      BY <1>1, <1>2, <1>3, PaintedSelf
    <2> QED BY <2>1, PaintMore, BlackIsNotRed
  <1>6. Painted(g, h, {s}) /\ g[s].color = RED /\ \A y \in DOMAIN h : y # s => g[y].color = h[y].color
    BY <1>5 DEF OnePainted
  <1>7. Shape(g, U, T, S, d)
    <2>1. 0 \notin {s}
      BY <1>1, <1>3
    <2> QED BY <1>2, <1>6, <2>1, PaintedShape
  <1>8. Alike(h, T, S, g, T, S, U, d, lev)
    <2>1. {s} \subseteq S[h[lev].mid]
      BY <1>1
    <2> QED BY <1>2, <1>6, <2>1, PaintedAlike
  <1>9. /\ \A x \in U, t \in Around : g[x][t] = h[x][t]
        /\ \A x \in U \cup {0} : Mid(g, d, x) = Mid(h, d, x)
        /\ DOMAIN g = DOMAIN h
    <2>1. DOMAIN g = DOMAIN h
      BY <1>6 DEF Painted
    <2> QED BY <1>3, <1>6, <2>1, PaintedSons
  <1>10. PICK c : c = [y \in DOMAIN h |-> IF y = p THEN b[p] - 1 ELSE IF y = s THEN b[s] - 1 ELSE b[y]]
    OBVIOUS
  <1>11. Blk(h, p) \in Nat /\ Blk(h, s) = 1 /\ Blk(g, s) = 0 /\ \A x \in DOMAIN h : x # s => Blk(g, x) = Blk(h, x)
    BY <1>6 DEF Blk, BLACK, RED
  <1>12. c \in [DOMAIN h -> Nat] /\ c[p] = b[p] - 1 /\ c[s] = b[s] - 1 /\ \A y \in DOMAIN h : y \notin {p, s} => c[y] = b[y]
    <2>1. b \in [DOMAIN h -> Nat] /\ b[p] - 1 \in Nat /\ b[s] - 1 \in Nat
      BY <1>2, <1>4, <1>11 DEF Counts
    <2> QED BY <1>1, <1>3, <1>10, <2>1
  <1>13. ASSUME NEW x \in U \ {d}, NEW t \in Around PROVE c[x] = Seen(c, p, 1, g[x][t]) + Blk(g, x)
    <2>1. PICK y : y = h[x][t] /\ g[x][t] = y /\ y \in U \cup {0} /\ y \in DOMAIN h /\ x \in DOMAIN h
      BY <1>3, <1>9
    <2>2. b[x] = Seen(b, n, 1, y) + Blk(h, x) /\ b[x] \in Nat /\ b[y] \in Nat
      BY <1>2, <2>1 DEF Counts
    <2>3. CASE x = p
      <3>1. CASE y = n
        <4>1. Seen(c, p, 1, n) = b[n] /\ Seen(b, n, 1, n) = b[n] + 1
          BY <1>1, <1>3, <1>12 DEF Seen
        <4> QED BY <1>1, <1>3, <1>4, <1>11, <1>12, <2>1, <2>3, <3>1, <4>1
      <3>2. CASE y # n
        <4>1. y = s
          BY <1>1, <2>1, <2>3, <3>2, OtherIs
        <4>2. Seen(c, p, 1, s) = b[s] - 1
          BY <1>1, <1>12 DEF Seen
        <4> QED BY <1>1, <1>3, <1>4, <1>11, <1>12, <2>1, <2>3, <4>1, <4>2
      <3> QED BY <3>1, <3>2
    <2>4. CASE x = s
      <3>1. y \notin {n, s}
        BY <1>1, <1>4, <2>1, <2>4
      <3>2. y # p
        <4>1. y # 0 => h[y].parent = s
          BY <1>2, <2>1, <2>4 DEF Wired
        <4>2. T[y] \subseteq T[p] /\ p \notin T[s] /\ T[y] \subseteq T[s]
          BY <1>1, <1>2, <2>1, <2>4, SonIs, OtherIs DEF Bounded, Loose
        <4>3. p \in T[p]
          BY <1>1, <1>2 DEF Bounded, Loose
        <4> QED BY <4>2, <4>3
      <3>3. Seen(c, p, 1, y) = b[y] /\ Seen(b, n, 1, y) = b[y]
        BY <1>12, <2>1, <3>1, <3>2 DEF Seen
      <3> QED BY <1>11, <1>12, <2>1, <2>2, <2>4, <3>3
    <2>5. CASE x \notin {p, s}
      <3>1. y \notin {n, s}
        BY <1>1, <1>4, <2>1, <2>5
      <3>2. Seen(c, p, 1, y) = Seen(b, n, 1, y)
        <4>1. CASE y = p
          BY <1>1, <1>4, <1>12, <4>1 DEF Seen
        <4>2. CASE y # p
          BY <1>12, <2>1, <3>1, <4>2 DEF Seen
        <4> QED BY <4>1, <4>2
      <3> QED BY <1>11, <1>12, <2>1, <2>2, <2>5, <3>2
    <2> QED BY <2>3, <2>4, <2>5
  <1>14. Counts(g, U, c, d, p, 1)
    <2>1. c[0] = 0 /\ (d \in U => c[d] = 0)
      BY <1>1, <1>2, <1>3, <1>4, <1>12 DEF Counts
    <2> QED BY <1>9, <1>12, <1>13, <2>1 DEF Counts
  <1>15. ASSUME NEW x \in U \ {p}, NEW t \in Around, g[x].color = RED, g[x][t] # p PROVE g[g[x][t]].color = BLACK
    <2>1. PICK y : y = h[x][t] /\ g[x][t] = y /\ y \in DOMAIN h
      BY <1>3, <1>9
    <2>2. y \notin {n, s}
      BY <1>4, <2>1, <1>15
    <2>3. h[y].color = BLACK
      <3>1. CASE x = s
        BY <2>1, <3>1
      <3>2. CASE x # s
        <4>1. h[x].color = RED /\ x # n
          BY <1>1, <1>3, <1>6, <1>15, <3>2, BlackIsNotRed
        <4> QED BY <1>2, <2>1, <2>2, <4>1 DEF Reds
      <3> QED BY <3>1, <3>2
    <2> QED BY <1>6, <2>1, <2>2, <2>3
  <1>16. ASSUME NEW x \in U \cup {0}, Mid(g, d, x) \notin {0, p} PROVE g[Mid(g, d, x)].color = BLACK
    <2>1. PICK y : y = Mid(h, d, x) /\ y = Mid(g, d, x) /\ y \notin {n, s} /\ y # 0
      BY <1>4, <1>9, <1>16
    <2>2. y \in DOMAIN h /\ h[y].color = BLACK
      <3>1. h[y].color = BLACK
        BY <1>2, <2>1 DEF Reds
      <3>2. y \in DOMAIN h
        <4>1. y = Son(h, d, x, "mid") /\ "mid" \in Sides
          BY <2>1 DEF Son, Sides
        <4> QED BY <1>2, <1>3, <4>1, SonCases
      <3> QED BY <3>1, <3>2
    <2> QED BY <1>6, <2>1, <2>2
  <1>17. Reds(g, U, d, p)
    BY <1>15, <1>16 DEF Reds
  <1> QED BY <1>6, <1>7, <1>8, <1>14, <1>17

-----------------------------------------------------------------------------
\* Next to a leaf too few, a black sibling has no black sons: plain is one that is none.
LEMMA PlainIs ==
  ASSUME NEW h, NEW U, NEW T, NEW S, NEW b, NEW lev, NEW n, Deleting(h, U, T, S, b, n, lev, n),
         NEW p, NEW side, NEW s, FixPlace(h, U, S, lev, n, p, side, s), h[s].color = BLACK, NEW t \in Around
  PROVE  h[s][t] = 0 <=> h[h[s][t]].color = BLACK
  <1>1. /\ Shape(h, U, T, S, n) /\ Wired(h, U, n) /\ Counts(h, U, b, n, n, 1) /\ h[0].color = BLACK
    BY DEF Deleting, Shape, Loose, Wired
  <1>2. s \in U /\ n \in U /\ side \in Around /\ p # s
    BY DEF FixPlace
  <1>3. /\ b[s] = b[n] + 1 /\ s # n /\ \A x \in U, q \in Around : h[x][q] = n => x = p /\ q = side
    BY FixCounts
  <1>4. b[n] = 0 /\ b \in [DOMAIN h -> Nat]
    BY <1>1, <1>2 DEF Counts
  <1>5. PICK y : y = h[s][t] /\ y \in U \cup {0} /\ y \in DOMAIN h /\ y # n
    <2>1. h[s][t] # n
      BY <1>2, <1>3
    <2> QED BY <1>1, <1>2, <2>1, AroundIn
  <1>6. b[y] = 0
    <2>1. b[s] = Seen(b, n, 1, y) + Blk(h, s) /\ Blk(h, s) = 1 /\ Seen(b, n, 1, y) = b[y]
      BY <1>1, <1>2, <1>3, <1>5 DEF Counts, Blk, Seen
    <2> QED BY <1>3, <1>4, <1>5, <2>1
  <1>7. ASSUME y # 0, h[y].color = BLACK PROVE FALSE
    <2>1. "left" \in Around /\ y \in U \ {n}
      BY <1>5, <1>7 DEF Around
    <2>2. h[y]["left"] \in DOMAIN h
      BY <1>1, <2>1, AroundIn
    <2>3. b[y] = Seen(b, n, 1, h[y]["left"]) + Blk(h, y) /\ Blk(h, y) = 1
      BY <1>1, <1>7, <2>1 DEF Counts, Blk
    <2>4. Seen(b, n, 1, h[y]["left"]) \in Nat
      BY <1>4, <2>2 DEF Seen
    <2> QED BY <1>6, <2>3, <2>4
  <1> QED BY <1>1, <1>5, <1>7

\* What is left of the tree when a leaf that is taken out is unhung.
CutOff(h, U, T, S, d, lev, g, R, Q) ==
  /\ Shape(g, U \ {d}, R, Q, NoNode) /\ Alike(h, T, S, g, R, Q, U, d, lev) /\ DOMAIN g = DOMAIN h
  /\ (\A y \in DOMAIN h : g[y].color = h[y].color) /\ Q[g[lev].mid] = S[h[lev].mid] \ {d}
  /\ d = NoNode => g = h /\ R = T /\ Q = S

\* The leaf n is unhung if it is the one to be taken out.
Unhung(g, h, d, n, p, side) == g = IF d = n THEN SetSon(h, p, side, 0) ELSE h

\* It hangs from p, in the level of lev.
CutPlace(h, U, T, S, d, lev, n, p, side) ==
  /\ Shape(h, U, T, S, d) /\ lev \in (U \cup {0}) \ {d} /\ d \in {NoNode, n}
  /\ p \in U /\ n \in U /\ p \in S[h[lev].mid] /\ side \in Around /\ h[p][side] = n
  /\ (d = n => h[n]["left"] = 0 /\ h[n]["right"] = 0)

LEMMA CutOffIs ==
  ASSUME NEW h, NEW U, NEW T, NEW S, NEW d, NEW lev, NEW n, NEW p, NEW side, CutPlace(h, U, T, S, d, lev, n, p, side),
         NEW g, Unhung(g, h, d, n, p, side)
  PROVE  /\ \E R, Q : CutOff(h, U, T, S, d, lev, g, R, Q)
         /\ p # d /\ \A x \in U, t \in Around : g[x][t] = IF d = n /\ x = p /\ t = side THEN 0 ELSE h[x][t]
         /\ d # NoNode => SonSet(g, h, p, side, 0)
  <1>0. /\ Shape(h, U, T, S, d) /\ lev \in (U \cup {0}) \ {d} /\ d \in {NoNode, n}
        /\ p \in U /\ n \in U /\ p \in S[h[lev].mid] /\ side \in Around /\ h[p][side] = n
        /\ (d = n => h[n]["left"] = 0 /\ h[n]["right"] = 0)
    BY DEF CutPlace
  <1>1. Loose(h, U, T, S, d) /\ Wired(h, U, d) /\ 0 \notin U /\ (\A x \in U \cup {0} : x \in DOMAIN h) /\ NoNode \notin DOMAIN h
    <2>1. Loose(h, U, T, S, d) /\ Wired(h, U, d)
      BY <1>0 DEF Shape, Loose
    <2> QED BY <2>1, NodeIn DEF Wired
  <1>2. CASE d = NoNode
    <2>1. d # n
      BY <1>0, <1>1, <1>2
    <2>2. g = h /\ U \ {d} = U
      BY <1>0, <1>1, <1>2, <2>1 DEF Unhung
    <2>3. Alike(h, T, S, g, T, S, U, d, lev)
      BY <2>2, AlikeSelf
    <2>4. S[h[lev].mid] \ {d} = S[h[lev].mid]
      <3>1. h[lev].mid \in DOMAIN h
        BY <1>0, <1>1, HeapFields DEF Wired
      <3>2. S[h[lev].mid] \subseteq DOMAIN h
        BY <1>0, <1>1, <3>1 DEF Loose, Levels
      <3> QED BY <1>0, <1>1, <1>2, <3>2
    <2>5. CutOff(h, U, T, S, d, lev, g, T, S)
      BY <1>0, <1>2, <2>2, <2>3, <2>4 DEF CutOff
    <2> QED BY <1>0, <1>1, <1>2, <2>1, <2>2, <2>5
  <1>3. CASE d = n
    <2>1. g = SetSon(h, p, side, 0)
      BY <1>0, <1>3 DEF Unhung
    <2>2. PICK R, Q : R = Less(T, d) /\ Q = Less(S, d)
      OBVIOUS
    <2>3. /\ Shape(g, U \ {d}, R, Q, NoNode) /\ SonSet(g, h, p, side, 0) /\ p # d
          /\ \A l \in (U \cup {0}) \ {d} : p \in S[h[l].mid] => Alike(h, T, S, g, R, Q, U, d, l)
      <3>1. LeafAt(h, U, T, S, d, p, side)
        BY <1>0, <1>3 DEF LeafAt
      <3> QED BY <2>1, <2>2, <3>1, CutLeaf
    <2>4. Alike(h, T, S, g, R, Q, U, d, lev)
      BY <1>0, <2>3
    <2>5. DOMAIN g = DOMAIN h /\ (\A y \in DOMAIN h : g[y].color = h[y].color)
          /\ \A y \in DOMAIN h, s \in Sides : g[y][s] = IF y = p /\ s = side THEN 0 ELSE h[y][s]
      BY <2>3 DEF SonSet
    <2>6. \A x \in U, t \in Around : g[x][t] = IF d = n /\ x = p /\ t = side THEN 0 ELSE h[x][t]
      BY <1>0, <1>1, <1>3, <2>5 DEF Around, Sides
    <2>7. Q[g[lev].mid] = S[h[lev].mid] \ {d}
      <3>1. g[lev]["mid"] = h[lev]["mid"] /\ h[lev].mid \in DOMAIN h
        <4>1. lev \in DOMAIN h /\ "mid" \in Sides /\ side # "mid" /\ IsHeap(h)
          BY <1>0, <1>1, OtherIs DEF Sides, Wired
        <4> QED BY <2>5, <4>1, HeapFields
      <3>2. S \in [DOMAIN h -> SUBSET DOMAIN h]
        BY <1>1 DEF Loose, Levels
      <3> QED BY <2>2, <3>1, <3>2, LessIs
    <2>8. d # NoNode
      BY <1>0, <1>1, <1>3
    <2>9. CutOff(h, U, T, S, d, lev, g, R, Q)
      BY <2>3, <2>4, <2>5, <2>7, <2>8 DEF CutOff
    <2> QED BY <2>3, <2>6, <2>9
  <1> QED BY <1>0, <1>2, <1>3

\* The way to n misses a node, whether n is there or not.
LEMMA CutMissing ==
  ASSUME NEW h, NEW U, NEW T, NEW S, NEW b, NEW d, NEW lev, NEW n, Deleting(h, U, T, S, b, d, lev, n),
         NEW p, NEW side, NEW s, FixPlace(h, U, S, lev, n, p, side, s), NEW g, Unhung(g, h, d, n, p, side)
  PROVE  /\ \E R, Q : CutOff(h, U, T, S, d, lev, g, R, Q)
         /\ \A x \in U, t \in Around : g[x][t] = IF d = n /\ x = p /\ t = side THEN 0 ELSE h[x][t]
         /\ Missing(g, U \ {d}, b, p, side) /\ Reds(g, U \ {d}, NoNode, NoNode)
  <1>1. /\ n \in U /\ p \in U /\ s \in U /\ p # n /\ s # n /\ p # s /\ side \in Around
        /\ h[n].parent = p /\ h[s].parent = p /\ h[p][side] = n /\ h[p][Other(side)] = s
        /\ p \in S[h[lev].mid] /\ s \in S[h[lev].mid] /\ h[n].color = BLACK
    BY DEF FixPlace
  <1>2. /\ Shape(h, U, T, S, d) /\ Wired(h, U, d) /\ lev \in (U \cup {0}) \ {d} /\ h[0].color = BLACK
        /\ n \in S[h[lev].mid] /\ d \in {NoNode, n} /\ Counts(h, U, b, d, n, 1) /\ Reds(h, U, d, n)
        /\ (d = n => h[n]["left"] = 0 /\ h[n]["right"] = 0)
    BY DEF Deleting, Shape, Loose, Wired
  <1>3. /\ \A x \in U, t \in Around : h[x][t] = n => x = p /\ t = side
        /\ \A x \in U \cup {0} : Mid(h, d, x) \notin {n, s}
    BY FixCounts
  <1>4. /\ \E R, Q : CutOff(h, U, T, S, d, lev, g, R, Q)
        /\ p # d /\ \A x \in U, t \in Around : g[x][t] = IF d = n /\ x = p /\ t = side THEN 0 ELSE h[x][t]
        /\ d # NoNode => SonSet(g, h, p, side, 0)
    <2>1. CutPlace(h, U, T, S, d, lev, n, p, side)
      BY <1>1, <1>2 DEF CutPlace
    <2> QED BY <2>1, CutOffIs
  <1>5. DOMAIN g = DOMAIN h /\ \A y \in DOMAIN h : g[y].color = h[y].color
    BY <1>4 DEF CutOff
  <1>6. /\ 0 \notin U /\ (\A x \in U \cup {0} : x \in DOMAIN h) /\ NoNode \notin DOMAIN h
        /\ \A x \in U, t \in Around : h[x][t] \in U \cup {0} /\ h[x][t] \in DOMAIN h
    <2>1. 0 \notin U /\ (\A x \in U \cup {0} : x \in DOMAIN h) /\ NoNode \notin DOMAIN h
      BY <1>2, NodeIn DEF Wired
    <2>2. \A x \in U, t \in Around : h[x][t] \in U \cup {0} /\ h[x][t] \in DOMAIN h
      BY <1>2, AroundIn
    <2> QED BY <2>1, <2>2
  <1>7. Missing(g, U \ {d}, b, p, side)
    <2>1. b \in [DOMAIN h -> Nat] /\ b[0] = 0 /\ (d = n => b[n] = 0)
      BY <1>1, <1>2 DEF Counts
    <2>2. ASSUME NEW x \in U \ {d}, NEW t \in Around PROVE b[x] = b[g[x][t]] + (IF x = p /\ t = side THEN 1 ELSE 0) + Blk(g, x)
      <3>1. PICK y : y = h[x][t] /\ y \in DOMAIN h /\ x \in DOMAIN h
        BY <1>6
      <3>2. b[x] = Seen(b, n, 1, y) + Blk(h, x) /\ Blk(g, x) = Blk(h, x) /\ Blk(h, x) \in Nat /\ b[y] \in Nat
        BY <1>2, <1>5, <2>1, <3>1 DEF Counts, Blk
      <3>3. b[g[x][t]] = b[y]
        <4>1. CASE d = n /\ x = p /\ t = side
          BY <1>1, <1>4, <2>1, <3>1, <4>1
        <4>2. CASE ~(d = n /\ x = p /\ t = side)
          BY <1>4, <3>1, <4>2
        <4> QED BY <4>1, <4>2
      <3>4. Seen(b, n, 1, y) = b[y] + (IF x = p /\ t = side THEN 1 ELSE 0)
        <4>1. CASE x = p /\ t = side
          BY <1>1, <3>1, <4>1 DEF Seen
        <4>2. CASE ~(x = p /\ t = side)
          <5>1. y # n
            BY <1>3, <3>1, <4>2
          <5> QED BY <3>2, <4>2, <5>1 DEF Seen
        <4> QED BY <4>1, <4>2
      <3> QED BY <3>2, <3>3, <3>4
    <2> QED BY <1>5, <2>1, <2>2 DEF Missing
  <1>8. Reds(g, U \ {d}, NoNode, NoNode)
    <2>1. ASSUME NEW x \in U \ {d}, NEW t \in Around, g[x].color = RED PROVE g[g[x][t]].color = BLACK
      <3>1. PICK y : y = h[x][t] /\ y \in DOMAIN h /\ x \in DOMAIN h /\ 0 \in DOMAIN h
        BY <1>6
      <3>2. x # n /\ h[x].color = RED
        BY <1>1, <1>5, <2>1, <3>1, BlackIsNotRed
      <3>3. h[y].color = BLACK
        BY <1>1, <1>2, <3>1, <3>2 DEF Reds
      <3>4. g[x][t] = 0 \/ g[x][t] = y
        BY <1>4, <3>1
      <3> QED BY <1>2, <1>5, <3>1, <3>3, <3>4
    <2>2. ASSUME NEW x \in (U \ {d}) \cup {0}, Mid(g, NoNode, x) # 0 PROVE g[Mid(g, NoNode, x)].color = BLACK
      <3>1. x # d /\ x # NoNode /\ x \in DOMAIN h
        BY <1>1, <1>2, <1>6
      <3>2. g[x].mid = h[x].mid
        <4>1. CASE d = NoNode
          <5>1. g = h
            BY <1>4, <4>1 DEF CutOff
          <5> QED BY <5>1
        <4>2. CASE d # NoNode
          <5>1. SonSet(g, h, p, side, 0) /\ side # "mid" /\ "mid" \in Sides
            BY <1>1, <1>4, <4>2, OtherIs DEF Sides
          <5>2. g[x]["mid"] = h[x]["mid"]
            BY <3>1, <5>1 DEF SonSet
          <5> QED BY <5>2
        <4> QED BY <4>1, <4>2
      <3>3. Mid(g, NoNode, x) = Mid(h, d, x) /\ Mid(h, d, x) # n
        BY <1>3, <3>1, <3>2 DEF Mid
      <3>4. h[Mid(h, d, x)].color = BLACK
        BY <1>2, <2>2, <3>3 DEF Reds
      <3>5. Mid(h, d, x) \in DOMAIN h
        <4>1. Mid(h, d, x) = Son(h, d, x, "mid") /\ "mid" \in Sides
          BY DEF Son, Sides
        <4> QED BY <1>2, <4>1, NodeIn
      <3> QED BY <1>5, <3>3, <3>4, <3>5
    <2> QED BY <2>1, <2>2 DEF Reds
  <1> QED BY <1>4, <1>7, <1>8

-----------------------------------------------------------------------------
\* The place of n next to a black sibling; the leaf that is taken out is marked.
FixBlack(h, U, T, S, b, d, lev, n, p, side, s) ==
  /\ Deleting(h, U, T, S, b, d, lev, n) /\ FixPlace(h, U, S, lev, n, p, side, s) /\ h[s].color = BLACK
  /\ h[n].index = Taken <=> d = n

BothBlack(h, s) == \A t \in Around : h[h[s][t]].color = BLACK
UpAt(up, h, lev, p, side, s) == up = IF h[h[s][Other(side)]].color = BLACK THEN NearComesUp(h, lev, p, side) ELSE h

\* A round, when what is plain is what is black.
LEMMA FixRoundIs ==
  ASSUME NEW h, NEW U, NEW T, NEW S, NEW b, NEW d, NEW lev, NEW n, NEW p, NEW side, NEW s, FixBlack(h, U, T, S, b, d, lev, n, p, side, s)
  PROVE  \E e, up, cut : /\ e = Color(h, s, RED) /\ UpAt(up, h, lev, p, side, s)
                         /\ Unhung(cut, IF BothBlack(h, s) THEN e ELSE up, d, n, p, side)
                         /\ FixRound(h, lev, n, p, side) =
                              IF BothBlack(h, s) THEN [h |-> cut, at |-> p]
                              ELSE [h |-> SiblingComesUp(cut, lev, p, side), at |-> SiblingComesUp(cut, lev, p, side)[lev].mid]
  <1>1. Deleting(h, U, T, S, b, d, lev, n) /\ FixPlace(h, U, S, lev, n, p, side, s) /\ h[s].color = BLACK /\ (h[n].index = Taken <=> d = n)
    BY DEF FixBlack
  <1>2. s = h[p][Other(side)] /\ side \in Around /\ Other(side) \in Around
    BY <1>1, OtherIs DEF FixPlace
  <1>3. ASSUME NEW t \in Around PROVE (IF h[n].index = Taken THEN h[s][t] = 0 ELSE h[h[s][t]].color = BLACK) <=> h[h[s][t]].color = BLACK
    <2>1. CASE d = n
      <3>1. Deleting(h, U, T, S, b, n, lev, n)
        BY <1>1, <2>1
      <3>2. h[s][t] = 0 <=> h[h[s][t]].color = BLACK
        BY <1>1, <3>1, PlainIs
      <3> QED BY <1>1, <2>1, <3>2
    <2>2. CASE d # n
      BY <1>1, <2>2
    <2> QED BY <2>1, <2>2
  <1>4. PICK e, up : e = Color(h, s, RED) /\ UpAt(up, h, lev, p, side, s)
    BY DEF UpAt
  <1>5. ASSUME NEW f PROVE Unhung(Unhang(f, p, side, h[n].index = Taken), f, d, n, p, side)
    BY <1>1 DEF Unhung, Unhang, SetSon
  <1>6. CASE BothBlack(h, s)
    <2>1. /\ IF h[n].index = Taken THEN h[s].left = 0 ELSE h[h[s].left].color = BLACK
          /\ IF h[n].index = Taken THEN h[s].right = 0 ELSE h[h[s].right].color = BLACK
      <3>1. "left" \in Around /\ "right" \in Around
        BY DEF Around
      <3> QED BY <1>3, <1>6, <3>1 DEF BothBlack
    <2>2. FixRound(h, lev, n, p, side) = [h |-> Unhang(Color(h, s, RED), p, side, h[n].index = Taken), at |-> p]
      BY <1>2, <2>1 DEF FixRound
    <2>3. Unhung(Unhang(e, p, side, h[n].index = Taken), e, d, n, p, side)
      BY <1>5
    <2> QED BY <1>4, <1>6, <2>2, <2>3
  <1>7. CASE ~BothBlack(h, s)
    <2>1. ~(/\ IF h[n].index = Taken THEN h[s].left = 0 ELSE h[h[s].left].color = BLACK
            /\ IF h[n].index = Taken THEN h[s].right = 0 ELSE h[h[s].right].color = BLACK)
      <3>1. PICK t \in Around : h[h[s][t]].color # BLACK
        BY <1>7 DEF BothBlack
      <3>2. ~(IF h[n].index = Taken THEN h[s][t] = 0 ELSE h[h[s][t]].color = BLACK)
        BY <1>3, <3>1
      <3> QED BY <3>2 DEF Around
    <2>2. (IF h[n].index = Taken THEN h[s][Other(side)] = 0 ELSE h[h[s][Other(side)]].color = BLACK) <=> h[h[s][Other(side)]].color = BLACK
      BY <1>2, <1>3
    <2>3. up = IF (IF h[n].index = Taken THEN h[s][Other(side)] = 0 ELSE h[h[s][Other(side)]].color = BLACK)
               THEN NearComesUp(h, lev, p, side) ELSE h
      BY <1>4, <2>2 DEF UpAt
    <2>4. FixRound(h, lev, n, p, side) =
            LET new == SiblingComesUp(Unhang(up, p, side, h[n].index = Taken), lev, p, side)
            IN  [h |-> new, at |-> new[lev].mid]
      BY <1>2, <2>1, <2>3 DEF FixRound
    <2>5. Unhung(Unhang(up, p, side, h[n].index = Taken), up, d, n, p, side)
      BY <1>5
    <2>6. PICK cut : cut = Unhang(up, p, side, h[n].index = Taken)
      OBVIOUS
    <2> QED BY <1>4, <1>7, <2>4, <2>5, <2>6
  <1> QED BY <1>6, <1>7

\* What a round comes to.
DelGoes(h, U, T, S, d, lev, n, g, x) ==
  \E R, Q, c : /\ Deleting(g, U \ {d}, R, Q, c, NoNode, lev, x) /\ Alike(h, T, S, g, R, Q, U, d, lev)
               /\ \/ x = g[lev].mid \/ d = n
                  \/ Q = S /\ n \in S[x] /\ x \notin S[n] /\ x \in U
               /\ d = n => g[n].color = BLACK

\* Both sons of the sibling black.
LEMMA FixPaint ==
  ASSUME NEW h, NEW U, NEW T, NEW S, NEW b, NEW d, NEW lev, NEW n, NEW p, NEW side, NEW s, FixBlack(h, U, T, S, b, d, lev, n, p, side, s),
         BothBlack(h, s), NEW e, e = Color(h, s, RED), NEW g, Unhung(g, e, d, n, p, side)
  PROVE  DelGoes(h, U, T, S, d, lev, n, g, p) /\ g[p].color = h[p].color
  <1>1. Deleting(h, U, T, S, b, d, lev, n) /\ FixPlace(h, U, S, lev, n, p, side, s) /\ h[s].color = BLACK /\ (h[n].index = Taken <=> d = n)
    BY DEF FixBlack
  <1>2. /\ n \in U /\ p \in U /\ s \in U /\ p # n /\ s # n /\ p # s /\ side \in Around
        /\ h[n].parent = p /\ h[s].parent = p /\ h[p][side] = n /\ h[p][Other(side)] = s
        /\ p \in S[h[lev].mid] /\ s \in S[h[lev].mid] /\ h[n].color = BLACK
    BY <1>1 DEF FixPlace
  <1>3. /\ Shape(h, U, T, S, d) /\ Wired(h, U, d) /\ lev \in (U \cup {0}) \ {d}
        /\ n \in S[h[lev].mid] /\ d \in {NoNode, n} /\ (d = n => h[n]["left"] = 0 /\ h[n]["right"] = 0)
    BY <1>1 DEF Deleting, Shape, Loose
  <1>4. \A t \in Around : h[h[s][t]].color = BLACK
    BY DEF BothBlack
  <1>5. /\ Shape(e, U, T, S, d) /\ Alike(h, T, S, e, T, S, U, d, lev) /\ Painted(e, h, {s})
        /\ \E c : Counts(e, U, c, d, p, 1) /\ Reds(e, U, d, p)
    BY <1>1, <1>4, PaintSibling
  <1>6. PICK c : Counts(e, U, c, d, p, 1) /\ Reds(e, U, d, p)
    BY <1>5
  <1>7. /\ 0 \notin U /\ (\A x \in U \cup {0} : x \in DOMAIN h) /\ NoNode \notin DOMAIN h
    BY <1>3, NodeIn DEF Wired
  <1>8. /\ e[p][side] = n /\ e[n]["left"] = h[n]["left"] /\ e[n]["right"] = h[n]["right"] /\ e[lev].mid = h[lev].mid
    BY <1>2, <1>3, <1>5, <1>7, PaintedSons
  <1>9. CutPlace(e, U, T, S, d, lev, n, p, side)
    BY <1>2, <1>3, <1>5, <1>8 DEF CutPlace
  <1>10. /\ \E R, Q : CutOff(e, U, T, S, d, lev, g, R, Q)
         /\ p # d
         /\ d # NoNode => SonSet(g, e, p, side, 0)
    BY <1>9, CutOffIs
  <1>11. PICK R, Q : CutOff(e, U, T, S, d, lev, g, R, Q)
    BY <1>10
  <1>12. Shape(g, U \ {d}, R, Q, NoNode) /\ Alike(h, T, S, g, R, Q, U, d, lev)
    <2>1. Shape(g, U \ {d}, R, Q, NoNode) /\ Alike(e, T, S, g, R, Q, U, d, lev)
      BY <1>11 DEF CutOff
    <2> QED BY <1>3, <1>5, <2>1, AlikeThen
  <1>13. Counts(g, U \ {d}, c, NoNode, p, 1) /\ Reds(g, U \ {d}, NoNode, p)
    <2>1. CASE d = NoNode
      <3>1. g = e /\ U \ {d} = U
        BY <1>7, <1>11, <2>1 DEF CutOff
      <3> QED BY <1>6, <2>1, <3>1
    <2>2. CASE d # NoNode
      <3>1. d = n /\ d \in U /\ e[p][side] = d /\ SonSet(g, e, p, side, 0) /\ p \notin {0, d}
        BY <1>2, <1>3, <1>7, <1>8, <1>10, <2>2
      <3> QED BY <1>2, <1>5, <1>6, <3>1, CutCounts
    <2> QED BY <2>1, <2>2
  <1>14. p \in Q[g[lev].mid]
    <2>1. Q[g[lev].mid] = S[e[lev].mid] \ {d}
      BY <1>11 DEF CutOff
    <2> QED BY <1>2, <1>8, <1>10, <2>1
  <1>15. Deleting(g, U \ {d}, R, Q, c, NoNode, lev, p)
    <2>1. lev \in ((U \ {d}) \cup {0}) \ {NoNode} /\ NoNode # p /\ NoNode \in {NoNode, p}
      BY <1>2, <1>3, <1>7
    <2> QED BY <1>12, <1>13, <1>14, <2>1 DEF Deleting
  <1>16. d = n \/ (Q = S /\ n \in S[p] /\ p \notin S[n])
    <2>1. CASE d = NoNode
      <3>1. Q = S
        BY <1>11, <2>1 DEF CutOff
      <3>2. Loose(h, U, T, S, d)
        BY <1>3 DEF Shape
      <3>3. n \in S[n] /\ S[n] \subseteq S[p]
        <4>1. n \in S[n]
          BY <1>2, <3>2, LevelIs
        <4>2. S[p] = {p} \cup S[h[p]["left"]] \cup S[h[p]["right"]]
          BY <1>2, <3>2 DEF Loose, Levels
        <4> QED BY <1>2, <4>1, <4>2 DEF Around
      <3>4. p \notin S[n]
        <4>1. p \notin T[n] /\ S[n] \subseteq T[n]
          <5>1. Son(h, d, p, side) = n /\ side \in Sides
            BY <1>2 DEF Son, Around, Sides
          <5>2. p \notin T[Son(h, d, p, side)]
            BY <1>2, <3>2, <5>1 DEF Loose, Bounded
          <5> QED BY <1>2, <3>2, <5>1, <5>2, LevelIs
        <4> QED BY <4>1
      <3> QED BY <3>1, <3>3, <3>4
    <2> QED BY <1>3, <2>1
  <1>17. g[p].color = h[p].color
    <2>1. e[p] = h[p] /\ p \in DOMAIN h /\ DOMAIN e = DOMAIN h
      BY <1>2, <1>5, <1>7 DEF Painted
    <2> QED BY <1>11, <2>1 DEF CutOff
  <1>18. g[n].color = BLACK
    <2>1. e[n] = h[n] /\ n \in DOMAIN h /\ DOMAIN e = DOMAIN h
      BY <1>2, <1>5, <1>7 DEF Painted
    <2> QED BY <1>2, <1>11, <2>1 DEF CutOff
  <1> QED BY <1>2, <1>12, <1>15, <1>16, <1>17, <1>18 DEF DelGoes

-----------------------------------------------------------------------------
\* A red far son, its near brother having come up if it is black.
LEMMA UpIs ==
  ASSUME NEW h, NEW U, NEW T, NEW S, NEW b, NEW d, NEW lev, NEW n, NEW p, NEW side, NEW s, FixBlack(h, U, T, S, b, d, lev, n, p, side, s),
         ~BothBlack(h, s), NEW up, UpAt(up, h, lev, p, side, s)
  PROVE  \E R, Q, c, v : /\ Deleting(up, U, R, Q, c, d, lev, n) /\ Alike(h, T, S, up, R, Q, U, d, lev)
                         /\ FixPlace(up, U, Q, lev, n, p, side, v) /\ up[v].color = BLACK
                         /\ up[v][Other(side)] # 0 /\ up[up[v][Other(side)]].color = RED
  <1>1. Deleting(h, U, T, S, b, d, lev, n) /\ FixPlace(h, U, S, lev, n, p, side, s) /\ h[s].color = BLACK
    BY DEF FixBlack
  <1>2. Wired(h, U, d) /\ h[0].color = BLACK /\ IsHeap(h) /\ lev \in (U \cup {0}) \ {d}
    BY <1>1 DEF Deleting, Shape, Loose, Wired
  <1>3. s \in U /\ side \in Around /\ Other(side) \in Around /\ \A t \in Around : t = side \/ t = Other(side)
    BY <1>1, OtherIs DEF FixPlace
  <1>4. \A t \in Around : h[h[s][t]].color \in {BLACK, RED}
    BY <1>2, <1>3, AroundIn, HeapFields
  <1>5. CASE h[h[s][Other(side)]].color = BLACK
    <2>1. h[h[s][side]].color # BLACK
      BY <1>3, <1>5 DEF BothBlack
    <2>2. h[s][side] # 0 /\ h[h[s][side]].color = RED
      BY <1>2, <1>3, <1>4, <2>1
    <2>3. up = NearComesUp(h, lev, p, side)
      BY <1>5 DEF UpAt
    <2> QED BY <1>1, <1>5, <2>2, <2>3, NearUp
  <1>6. CASE h[h[s][Other(side)]].color # BLACK
    <2>1. up = h
      BY <1>6 DEF UpAt
    <2>2. Alike(h, T, S, up, T, S, U, d, lev)
      BY <2>1, AlikeSelf
    <2>3. h[s][Other(side)] # 0 /\ h[h[s][Other(side)]].color = RED
      BY <1>2, <1>3, <1>4, <1>6
    <2> QED BY <1>1, <2>1, <2>2, <2>3
  <1> QED BY <1>5, <1>6

\* A red son of the sibling: after it the tree is even.
LEMMA FixTurn ==
  ASSUME NEW h, NEW U, NEW T, NEW S, NEW b, NEW d, NEW lev, NEW n, NEW p, NEW side, NEW s, FixBlack(h, U, T, S, b, d, lev, n, p, side, s),
         ~BothBlack(h, s), NEW up, UpAt(up, h, lev, p, side, s), NEW cut, Unhung(cut, up, d, n, p, side),
         NEW g, g = SiblingComesUp(cut, lev, p, side)
  PROVE  DelGoes(h, U, T, S, d, lev, n, g, g[lev].mid)
  <1>1. PICK R1, Q1, c1, v : /\ Deleting(up, U, R1, Q1, c1, d, lev, n) /\ Alike(h, T, S, up, R1, Q1, U, d, lev)
                             /\ FixPlace(up, U, Q1, lev, n, p, side, v) /\ up[v].color = BLACK
                             /\ up[v][Other(side)] # 0 /\ up[up[v][Other(side)]].color = RED
    BY UpIs
  <1>2. /\ Shape(up, U, R1, Q1, d) /\ Wired(up, U, d) /\ up[0].color = BLACK /\ IsHeap(up) /\ lev \in (U \cup {0}) \ {d}
        /\ d \in {NoNode, n} /\ n \in Q1[up[lev].mid]
    BY <1>1 DEF Deleting, Shape, Loose, Wired
  <1>3. /\ n \in U /\ p \in U /\ v \in U /\ p # n /\ v # n /\ p # v /\ side \in Around
        /\ up[p][side] = n /\ up[p][Other(side)] = v /\ p \in Q1[up[lev].mid] /\ up[n].color = BLACK
    BY <1>1 DEF FixPlace
  <1>4. Other(side) \in Around /\ Other(side) # side
    BY <1>3, OtherIs
  <1>5. 0 \notin U /\ (\A x \in U \cup {0} : x \in DOMAIN up) /\ NoNode \notin DOMAIN up
    <2>1. Wired(up, U, d)
      BY <1>2
    <2> QED BY <2>1, NodeIn DEF Wired
  <1>6. /\ \E R, Q : CutOff(up, U, R1, Q1, d, lev, cut, R, Q)
        /\ \A x \in U, t \in Around : cut[x][t] = IF d = n /\ x = p /\ t = side THEN 0 ELSE up[x][t]
        /\ Missing(cut, U \ {d}, c1, p, side) /\ Reds(cut, U \ {d}, NoNode, NoNode)
    <2>1. Deleting(up, U, R1, Q1, c1, d, lev, n)
      BY <1>1
    <2>2. FixPlace(up, U, Q1, lev, n, p, side, v)
      BY <1>1
    <2> QED BY <2>1, <2>2, CutMissing
  <1>7. PICK R2, Q2 : CutOff(up, U, R1, Q1, d, lev, cut, R2, Q2)
    BY <1>6
  <1>8. /\ Shape(cut, U \ {d}, R2, Q2, NoNode) /\ Alike(up, R1, Q1, cut, R2, Q2, U, d, lev) /\ DOMAIN cut = DOMAIN up
        /\ (\A y \in DOMAIN up : cut[y].color = up[y].color) /\ Q2[cut[lev].mid] = Q1[up[lev].mid] \ {d}
    BY <1>7 DEF CutOff
  <1>9. p # d /\ v # d
    BY <1>2, <1>3, <1>5
  <1>10. PICK V : V = U \ {d}
    OBVIOUS
  <1>11. /\ cut[p][Other(side)] = v /\ cut[v][Other(side)] = up[v][Other(side)] /\ cut[p][side] \in {0, n}
    BY <1>3, <1>4, <1>6
  <1>12. up[v][Other(side)] \in DOMAIN up
    BY <1>2, <1>3, <1>4, AroundIn
  <1>13. /\ cut[cut[p][side]].color = BLACK /\ cut[v].color = BLACK
         /\ cut[v][Other(side)] # 0 /\ cut[cut[v][Other(side)]].color = RED
    BY <1>1, <1>2, <1>3, <1>5, <1>8, <1>11, <1>12
  <1>14. p \in Q2[cut[lev].mid] /\ lev \in V \cup {0} /\ v \in V
    BY <1>2, <1>3, <1>8, <1>9, <1>10
  <1>15. Shape(cut, V, R2, Q2, NoNode) /\ Missing(cut, V, c1, p, side) /\ Reds(cut, V, NoNode, NoNode)
    BY <1>6, <1>8, <1>10
  <1>16. \E R, Q, c : Shape(g, V, R, Q, NoNode) /\ Even(g, V, c) /\ Alike(cut, R2, Q2, g, R, Q, V, NoNode, lev)
    BY <1>3, <1>11, <1>13, <1>14, <1>15, SiblingUp
  <1>17. PICK R, Q, c : Shape(g, V, R, Q, NoNode) /\ Even(g, V, c) /\ Alike(cut, R2, Q2, g, R, Q, V, NoNode, lev)
    BY <1>16
  <1>18. Alike(cut, R2, Q2, g, R, Q, U, d, lev)
    BY <1>5, <1>10, <1>15, <1>17, AlikeCut
  <1>19. Alike(up, R1, Q1, g, R, Q, U, d, lev)
    BY <1>2, <1>8, <1>18, AlikeThen
  <1>20. Alike(h, T, S, g, R, Q, U, d, lev)
    BY <1>1, <1>2, <1>19, AlikeThen
  <1>21. g[lev].mid # 0
    <2>1. g[lev].mid = 0 <=> up[lev].mid = 0
      BY <1>2, <1>19 DEF Alike
    <2>2. up[lev].mid # 0
      <3>1. Q1[0] = {}
        BY <1>2 DEF Shape, Loose, Levels
      <3> QED BY <1>2, <3>1
    <2> QED BY <2>1, <2>2
  <1>22. Deleting(g, V, R, Q, c, NoNode, lev, g[lev].mid)
    BY <1>14, <1>17, <1>21, EvenIsDeleting
  <1>23. d = n => g[n].color = BLACK
    <2> SUFFICES ASSUME d = n PROVE g[n].color = BLACK
      OBVIOUS
    <2>1. Loose(cut, V, R2, Q2, NoNode) /\ lev \in (V \cup {0}) \ {NoNode}
      <3>1. lev # NoNode
        BY <1>2, <1>5
      <3> QED BY <1>14, <1>15, <3>1 DEF Shape
    <2>2. Q2[cut[lev].mid] \subseteq V
      BY <1>14, <2>1, LevIs
    <2>3. n \notin Q2[cut[lev].mid] /\ n \in DOMAIN cut \ {NoNode}
      BY <1>3, <1>5, <1>8, <1>10, <2>2
    <2>4. g[n].color = cut[n].color
      BY <1>17, <2>3 DEF Alike
    <2> QED BY <1>3, <1>5, <1>8, <2>4
  <1> QED BY <1>10, <1>20, <1>22, <1>23 DEF DelGoes

\* A round of del_fixup ends the work, or goes up.
DelOn(h, U, T, S, d, lev, n, g, x) ==
  \E R, Q, c : /\ Deleting(g, U \ {d}, R, Q, c, NoNode, lev, x) /\ Alike(h, T, S, g, R, Q, U, d, lev)
               /\ \/ x = g[lev].mid \/ d = n \/ g[x].color # BLACK
                  \/ Q = S /\ n \in S[x] /\ x \notin S[n] /\ x \in U
               /\ d = n => g[n].color = BLACK

LEMMA DelStep ==
  ASSUME NEW h, NEW U, NEW T, NEW S, NEW b, NEW d, NEW lev, NEW n, Deleting(h, U, T, S, b, d, lev, n),
         n # h[lev].mid, h[n].color = BLACK, h[n].index = Taken <=> d = n,
         NEW p, p = h[n].parent, NEW side, side = Hangs(h, n)
  PROVE  \E g, x : /\ FixRound(BlackSibling(h, lev, p, side), lev, n, p, side) = [h |-> g, at |-> x]
                   /\ DelOn(h, U, T, S, d, lev, n, g, x)
  <1>1. PICK s : FixPlace(h, U, S, lev, n, p, side, s)
    BY FixPlaceIs
  <1>2. PICK f : f = BlackSibling(h, lev, p, side)
    OBVIOUS
  <1>3. PICK R1, Q1, c1, v : /\ Deleting(f, U, R1, Q1, c1, d, lev, n) /\ Alike(h, T, S, f, R1, Q1, U, d, lev)
                             /\ FixPlace(f, U, Q1, lev, n, p, side, v) /\ f[v].color = BLACK
                             /\ (Q1 = S /\ f = h) \/ f[p].color = RED
    BY <1>1, <1>2, SiblingBlack
  <1>4. f[n].index = Taken <=> d = n
    <2>1. n \in U /\ Wired(h, U, d)
      BY <1>1 DEF FixPlace, Deleting, Shape, Loose
    <2>2. n \in DOMAIN h
      BY <2>1, NodeIn
    <2> QED BY <1>3, <2>2 DEF Alike, SameData
  <1>5. FixBlack(f, U, R1, Q1, c1, d, lev, n, p, side, v)
    BY <1>3, <1>4 DEF FixBlack
  <1>6. PICK e, up, cut : /\ e = Color(f, v, RED) /\ UpAt(up, f, lev, p, side, v)
                          /\ Unhung(cut, IF BothBlack(f, v) THEN e ELSE up, d, n, p, side)
                          /\ FixRound(f, lev, n, p, side) =
                               IF BothBlack(f, v) THEN [h |-> cut, at |-> p]
                               ELSE [h |-> SiblingComesUp(cut, lev, p, side), at |-> SiblingComesUp(cut, lev, p, side)[lev].mid]
    BY <1>5, FixRoundIs
  <1>7. lev \in (U \cup {0}) \ {d}
    BY DEF Deleting
  <1>8. CASE BothBlack(f, v)
    <2>1. FixRound(f, lev, n, p, side) = [h |-> cut, at |-> p] /\ Unhung(cut, e, d, n, p, side) /\ e = Color(f, v, RED)
      BY <1>6, <1>8
    <2>2. DelGoes(f, U, R1, Q1, d, lev, n, cut, p) /\ cut[p].color = f[p].color
      BY <1>5, <1>8, <2>1, FixPaint
    <2>3. PICK R, Q, c : /\ Deleting(cut, U \ {d}, R, Q, c, NoNode, lev, p) /\ Alike(f, R1, Q1, cut, R, Q, U, d, lev)
                         /\ \/ p = cut[lev].mid \/ d = n
                            \/ Q = Q1 /\ n \in Q1[p] /\ p \notin Q1[n] /\ p \in U
                         /\ d = n => cut[n].color = BLACK
      BY <2>2 DEF DelGoes
    <2>4. Alike(h, T, S, cut, R, Q, U, d, lev)
      BY <1>3, <1>7, <2>3, AlikeThen
    <2>5. \/ p = cut[lev].mid \/ d = n \/ cut[p].color # BLACK
          \/ Q = S /\ n \in S[p] /\ p \notin S[n] /\ p \in U
      BY <1>3, <2>2, <2>3, BlackIsNotRed
    <2>6. DelOn(h, U, T, S, d, lev, n, cut, p)
      BY <2>3, <2>4, <2>5 DEF DelOn
    <2> QED BY <1>2, <2>1, <2>6
  <1>9. CASE ~BothBlack(f, v)
    <2>1. PICK g : g = SiblingComesUp(cut, lev, p, side)
      OBVIOUS
    <2>2. FixRound(f, lev, n, p, side) = [h |-> g, at |-> g[lev].mid] /\ Unhung(cut, up, d, n, p, side) /\ UpAt(up, f, lev, p, side, v)
      BY <1>6, <1>9, <2>1
    <2>3. DelGoes(f, U, R1, Q1, d, lev, n, g, g[lev].mid)
      BY <1>5, <1>9, <2>1, <2>2, FixTurn
    <2>4. PICK R, Q, c : /\ Deleting(g, U \ {d}, R, Q, c, NoNode, lev, g[lev].mid) /\ Alike(f, R1, Q1, g, R, Q, U, d, lev)
                         /\ d = n => g[n].color = BLACK
      BY <2>3 DEF DelGoes
    <2>5. Alike(h, T, S, g, R, Q, U, d, lev)
      BY <1>3, <1>7, <2>4, AlikeThen
    <2>6. DelOn(h, U, T, S, d, lev, n, g, g[lev].mid)
      BY <2>4, <2>5 DEF DelOn
    <2> QED BY <1>2, <2>2, <2>6
  <1> QED BY <1>8, <1>9

-----------------------------------------------------------------------------
\* A root, or a red node, becomes black: no way misses a node any more.
LEMMA DelEnd ==
  ASSUME NEW h, NEW U, NEW T, NEW S, NEW b, NEW lev, NEW n, Deleting(h, U, T, S, b, NoNode, lev, n),
         n = h[lev].mid \/ h[n].color # BLACK, NEW g, g = Color(h, n, BLACK)
  PROVE  \E c : Shape(g, U, T, S, NoNode) /\ Even(g, U, c) /\ Alike(h, T, S, g, T, S, U, NoNode, lev)
  <1>1. /\ Shape(h, U, T, S, NoNode) /\ Loose(h, U, T, S, NoNode) /\ Wired(h, U, NoNode) /\ lev \in (U \cup {0}) \ {NoNode}
        /\ n \in S[h[lev].mid] /\ Counts(h, U, b, NoNode, n, 1) /\ Reds(h, U, NoNode, n)
    BY DEF Deleting, Shape, Loose
  <1>2. /\ 0 \notin U /\ (\A x \in U \cup {0} : x \in DOMAIN h) /\ NoNode \notin U \cup {0} /\ NoNode \notin DOMAIN h
        /\ \A x \in U, t \in Around : h[x][t] \in U \cup {0} /\ h[x][t] \in DOMAIN h
    <2>1. \A x \in U, t \in Around : h[x][t] \in U \cup {0} /\ h[x][t] \in DOMAIN h
      BY <1>1, AroundIn
    <2> QED BY <1>1, <2>1, NodeIn, NoHole
  <1>3. n \in U /\ h[lev].mid \in U
    BY <1>1, LevIs
  <1>4. OnePainted(g, h, h, {n}, n, BLACK)
    <2>1. Painted(h, h, {n}) /\ n \in DOMAIN h /\ n \in {n}
      BY <1>1, <1>2, <1>3, PaintedSelf DEF Wired
    <2> QED BY <2>1, PaintMore, BlackIsNotRed
  <1>5. Painted(g, h, {n}) /\ g[n].color = BLACK /\ \A y \in DOMAIN h : y # n => g[y].color = h[y].color
    BY <1>4 DEF OnePainted
  <1>6. Shape(g, U, T, S, NoNode) /\ Alike(h, T, S, g, T, S, U, NoNode, lev) /\ DOMAIN g = DOMAIN h
    <2>1. 0 \notin {n} /\ {n} \subseteq S[h[lev].mid]
      BY <1>1, <1>2, <1>3
    <2> QED BY <1>1, <1>5, <2>1, PaintedShape, PaintedAlike DEF Painted
  <1>7. \A x \in U : \A t \in Around : g[x][t] = h[x][t]
    BY <1>2, <1>5, PaintedSons
  <1>8. \A x \in U \cup {0} : Mid(g, NoNode, x) = Mid(h, NoNode, x) /\ Mid(h, NoNode, x) \in DOMAIN h
    <2>1. \A x \in U \cup {0} : x \in DOMAIN h
      BY <1>2
    <2> QED BY <1>1, <1>2, <1>5, <2>1, PaintedSons, NoHole
  <1>9. h[n].color = BLACK => \A x \in U, t \in Around : h[x][t] # n
    <2> SUFFICES ASSUME h[n].color = BLACK PROVE \A x \in U, t \in Around : h[x][t] # n
      OBVIOUS
    <2>1. n = h[lev].mid /\ h[lev].mid # 0
      BY <1>2, <1>3
    <2> QED BY <1>1, <2>1, RootUnseen
  <1>10. b \in [DOMAIN h -> Nat] /\ b[0] = 0 /\ \A x \in U, t \in Around : b[x] = Seen(b, n, 1, h[x][t]) + Blk(h, x)
    BY <1>1, <1>2 DEF Counts
  <1>11. Blk(h, n) \in {0, 1} /\ Blk(g, n) = 1 /\ (\A x \in DOMAIN h : x # n => Blk(g, x) = Blk(h, x)) /\ (h[n].color # BLACK => Blk(h, n) = 0)
    BY <1>5 DEF Blk
  <1>12. b[n] \in Nat /\ b[n] - Blk(h, n) + 1 \in Nat
    BY <1>2, <1>3, <1>10, <1>11
  <1>13. PICK c : c = [b EXCEPT ![n] = b[n] - Blk(h, n) + 1]
    OBVIOUS
  <1>14. c \in [DOMAIN h -> Nat] /\ c[n] = b[n] - Blk(h, n) + 1 /\ \A x \in DOMAIN h : x # n => c[x] = b[x]
    BY <1>2, <1>3, <1>10, <1>12, <1>13
  <1>15. ASSUME NEW x \in U, NEW t \in Around PROVE c[x] = c[g[x][t]] + Blk(g, x)
    <2>1. PICK y : y = h[x][t] /\ g[x][t] = y /\ y \in DOMAIN h /\ x \in DOMAIN h
      BY <1>2, <1>7
    <2>2. b[x] = Seen(b, n, 1, y) + Blk(h, x) /\ b[x] \in Nat /\ b[y] \in Nat
      BY <1>10, <2>1
    <2>3. x = n => y # n
      <3>1. h[n][t] # n
        BY <1>1, <1>2, <1>3, HangsIs
      <3> QED BY <2>1, <3>1
    <2>4. CASE x = n
      <3>1. Seen(b, n, 1, y) = b[y] /\ c[y] = b[y]
        BY <1>14, <2>1, <2>3, <2>4 DEF Seen
      <3> QED BY <1>11, <1>14, <2>1, <2>2, <2>4, <3>1
    <2>5. CASE x # n /\ y = n
      <3>1. Blk(h, n) = 0
        BY <1>9, <1>11, <2>1, <2>5
      <3>2. Seen(b, n, 1, y) = b[n] + 1 /\ c[y] = b[n] + 1
        BY <1>12, <1>14, <2>5, <3>1 DEF Seen
      <3> QED BY <1>11, <1>14, <2>1, <2>2, <2>5, <3>2
    <2>6. CASE x # n /\ y # n
      <3>1. Seen(b, n, 1, y) = b[y] /\ c[y] = b[y]
        BY <1>14, <2>1, <2>6 DEF Seen
      <3> QED BY <1>11, <1>14, <2>1, <2>2, <2>6, <3>1
    <2> QED BY <2>4, <2>5, <2>6
  <1>16. Counts(g, U, c, NoNode, NoNode, 0)
    <2>1. \A x \in U, t \in Around : Seen(c, NoNode, 0, g[x][t]) = c[g[x][t]]
      BY <1>2, <1>7 DEF Seen
    <2>2. c[0] = 0
      BY <1>2, <1>3, <1>10, <1>14
    <2> QED BY <1>2, <1>6, <1>14, <1>15, <2>1, <2>2 DEF Counts
  <1>17. /\ \A x \in U \ {n}, t \in Around : h[x].color = RED /\ h[x][t] # n => h[h[x][t]].color = BLACK
         /\ \A x \in U \cup {0} : Mid(h, NoNode, x) \notin {0, n} => h[Mid(h, NoNode, x)].color = BLACK
    BY <1>1 DEF Reds
  <1>18. \A y \in DOMAIN h : h[y].color = BLACK => g[y].color = BLACK
    BY <1>5
  <1>19. ASSUME NEW x \in U, NEW t \in Around, g[x].color = RED PROVE g[g[x][t]].color = BLACK
    <2>1. x # n /\ h[x].color = RED /\ g[x][t] = h[x][t] /\ h[x][t] \in DOMAIN h
      BY <1>2, <1>5, <1>7, <1>19, BlackIsNotRed
    <2> QED BY <1>5, <1>17, <1>18, <2>1
  <1>20. ASSUME NEW x \in U \cup {0}, Mid(g, NoNode, x) # 0 PROVE g[Mid(g, NoNode, x)].color = BLACK
    BY <1>5, <1>8, <1>17, <1>18, <1>20
  <1>21. Reds(g, U, NoNode, NoNode)
    BY <1>19, <1>20 DEF Reds
  <1> QED BY <1>6, <1>16, <1>21 DEF Even

-----------------------------------------------------------------------------
\* A tree over the nodes of t, in its blocks.
Rec(t, h, idle, cost) ==
  [h |-> h, idle |-> idle, cost |-> cost, block |-> t.block, off |-> t.off, blocks |-> t.blocks, units |-> t.units]

IsRec(t, h, idle, cost, N) == On(h, N) /\ idle \in Seq(N) /\ cost \in Int /\ t.h = h /\ t = Rec(t, h, idle, cost)

LEMMA OneMore ==
  ASSUME NEW N, NEW n \in N, NEW idle \in Seq(N)
  PROVE  <<n>> \o idle \in Seq(N)
  <1>1. <<n>> \in Seq(N)
    OBVIOUS
  <1> QED BY <1>1

LEMMA RecIs ==
  ASSUME NEW t0, NEW N, N = DOMAIN t0.h, NEW h, NEW idle, NEW cost, On(h, N), idle \in Seq(N), cost \in Int
  PROVE  /\ OfTree(Rec(t0, h, idle, cost), t0) /\ Rec(t0, h, idle, cost).h = h
         /\ \A g : [Rec(t0, h, idle, cost) EXCEPT !.h = g] = Rec(t0, g, idle, cost)
         /\ \A n : Free(Rec(t0, h, idle, cost), n) = Rec(t0, h, <<n>> \o idle, cost - 1)
         /\ \A n \in N : <<n>> \o idle \in Seq(N) /\ cost - 1 \in Int
  <1>1. PICK t : t = Rec(t0, h, idle, cost)
    OBVIOUS
  <1>2. t = [h |-> h, idle |-> idle, cost |-> cost, block |-> t0.block, off |-> t0.off, blocks |-> t0.blocks, units |-> t0.units]
    BY <1>1 DEF Rec
  <1>3. OfTree(t, t0) /\ t.h = h /\ t.idle = idle /\ t.cost = cost
    BY <1>2 DEF OfTree
  <1>4. ASSUME NEW g PROVE [t EXCEPT !.h = g] = Rec(t0, g, idle, cost)
    BY <1>2 DEF Rec
  <1>5. ASSUME NEW n PROVE Free(t, n) = Rec(t0, h, <<n>> \o idle, cost - 1)
    <2>1. Free(t, n) = [t EXCEPT !.idle = <<n>> \o t.idle, !.cost = t.cost - 1]
      BY DEF Free
    <2> QED BY <1>2, <1>3, <2>1 DEF Rec
  <1>6. ASSUME NEW n \in N PROVE <<n>> \o idle \in Seq(N) /\ cost - 1 \in Int
    <2>1. <<n>> \o idle \in Seq(N)
      BY <1>6, idle \in Seq(N), OneMore
    <2>2. cost - 1 \in Int
      OBVIOUS
    <2> QED BY <2>1, <2>2
  <1> QED BY <1>1, <1>3, <1>4, <1>5, <1>6

\* A round of del_fixup of the tree.
LEMMA DelRoundIs ==
  ASSUME NEW t0, NEW N, N = DOMAIN t0.h, NEW h, NEW idle, NEW cost, On(h, N), idle \in Seq(N), cost \in Int, NEW n \in N, NEW lev,
         NEW g, NEW x, FixRound(BlackSibling(h, lev, h[n].parent, Hangs(h, n)), lev, n, h[n].parent, Hangs(h, n)) = [h |-> g, at |-> x],
         On(g, N)
  PROVE  DelRound(Rec(t0, h, idle, cost), lev, n) =
           [t |-> IF h[n].index = Taken THEN Rec(t0, g, <<n>> \o idle, cost - 1) ELSE Rec(t0, g, idle, cost), at |-> x]
  <1>1. PICK t : t = Rec(t0, h, idle, cost)
    OBVIOUS
  <1>2. t.h = h /\ [t EXCEPT !.h = g] = Rec(t0, g, idle, cost)
    BY <1>1, RecIs
  <1>3. Free(Rec(t0, g, idle, cost), n) = Rec(t0, g, <<n>> \o idle, cost - 1)
    BY RecIs
  <1>4. DelRound(t, lev, n) =
          [t |-> IF h[n].index = Taken THEN Free([t EXCEPT !.h = g], n) ELSE [t EXCEPT !.h = g], at |-> x]
    BY <1>2 DEF DelRound, Hangs
  <1> QED BY <1>1, <1>2, <1>3, <1>4

-----------------------------------------------------------------------------
\* No node of the level but d is marked.
Unmarked(h, S, lev, d) == \A y \in S[h[lev].mid] \ {d} : h[y].index # Taken

LEMMA UnmarkedThen ==
  ASSUME NEW h, NEW T, NEW S, NEW g, NEW R, NEW Q, NEW U, NEW d, NEW lev \in (U \cup {0}) \ {d}, Alike(h, T, S, g, R, Q, U, d, lev),
         Unmarked(h, S, lev, d), Levels(h, U, S), IsHeap(h), lev \in DOMAIN h, NEW e, d \notin Q[g[lev].mid] \/ e = d
  PROVE  Unmarked(g, Q, lev, e)
  <1>1. h[lev].mid \in DOMAIN h
    BY HeapFields
  <1>2. S[h[lev].mid] \subseteq DOMAIN h
    BY <1>1 DEF Levels
  <1>3. Q[g[lev].mid] \ {d} = S[h[lev].mid] \ {d} /\ \A x \in DOMAIN h : g[x].index = h[x].index
    BY DEF Alike, SameData
  <1> QED BY <1>2, <1>3 DEF Unmarked

DelFacts(h, U, T, S, d, lev, n) ==
  /\ Loose(h, U, T, S, d) /\ Levels(h, U, S) /\ IsHeap(h) /\ lev \in (U \cup {0}) \ {d} /\ lev \in DOMAIN h /\ n \in U /\ n \in DOMAIN h
  /\ U \subseteq DOMAIN h /\ h[lev].mid # 0 /\ h[lev].mid \in U /\ n \in S[h[lev].mid] /\ d \in {NoNode, n}

LEMMA DelFactsAre ==
  ASSUME NEW h, NEW U, NEW T, NEW S, NEW b, NEW d, NEW lev, NEW n, Deleting(h, U, T, S, b, d, lev, n)
  PROVE  DelFacts(h, U, T, S, d, lev, n)
  <1>1. /\ Loose(h, U, T, S, d) /\ Wired(h, U, d) /\ Levels(h, U, S) /\ IsHeap(h) /\ lev \in (U \cup {0}) \ {d} /\ n \in S[h[lev].mid]
        /\ d \in {NoNode, n}
    BY DEF Deleting, Shape, Loose, Wired
  <1>2. n \in U /\ h[lev].mid \in U
    BY <1>1, LevIs
  <1>3. (\A x \in U : x \in DOMAIN h /\ x # 0) /\ 0 \in DOMAIN h
    BY <1>1, NodeIn
  <1> QED BY <1>1, <1>2, <1>3 DEF DelFacts

\* del_fixup from a node that stays.
DelGood(h, V, T, S, lev, t0, idle, cost, e) ==
  \E g, R, Q, c : /\ Shape(g, V, R, Q, NoNode) /\ Even(g, V, c) /\ Alike(h, T, S, g, R, Q, V, NoNode, lev)
                  /\ e = Rec(t0, g, idle, cost)

\* The last step.
LEMMA DelStops ==
  ASSUME NEW t0, NEW N, N = DOMAIN t0.h, NEW lev, NEW f, DelOne(f, t0, lev),
         NEW h, NEW V, NEW T, NEW S, NEW b, NEW n, Deleting(h, V, T, S, b, NoNode, lev, n), DOMAIN h = N,
         n = h[lev].mid \/ h[n].color # BLACK, NEW idle \in Seq(N), NEW cost \in Int
  PROVE  DelGood(h, V, T, S, lev, t0, idle, cost, f[[t |-> Rec(t0, h, idle, cost), at |-> n]])
  <1>1. DelFacts(h, V, T, S, NoNode, lev, n)
    BY DelFactsAre
  <1>2. On(h, N) /\ n \in N
    BY <1>1 DEF DelFacts, On
  <1>3. PICK t : t = Rec(t0, h, idle, cost)
    OBVIOUS
  <1>4. PICK g : g = Color(h, n, BLACK)
    OBVIOUS
  <1>5. OfTree(t, t0) /\ t.h = h /\ [t EXCEPT !.h = g] = Rec(t0, g, idle, cost)
    BY <1>2, <1>3, RecIs
  <1>6. f[[t |-> t, at |-> n]] = Rec(t0, g, idle, cost)
    <2>1. DelEnds(t, lev, n)
      BY <1>5 DEF DelEnds
    <2> QED BY <1>2, <1>4, <1>5, <2>1 DEF DelOne
  <1>7. \E c : Shape(g, V, T, S, NoNode) /\ Even(g, V, c) /\ Alike(h, T, S, g, T, S, V, NoNode, lev)
    BY <1>4, DelEnd
  <1> QED BY <1>3, <1>6, <1>7 DEF DelGood

\* A round.
DelMoves(f, t0, h, idle, cost, U, T, S, d, lev, n, N) ==
  \E g, x, id, co :
    /\ f[[t |-> Rec(t0, h, idle, cost), at |-> n]] = f[[t |-> Rec(t0, g, id, co), at |-> x]]
    /\ id = (IF d = n THEN <<n>> \o idle ELSE idle) /\ co = (IF d = n THEN cost - 1 ELSE cost)
    /\ id \in Seq(N) /\ co \in Int /\ DOMAIN g = N /\ DelOn(h, U, T, S, d, lev, n, g, x)

LEMMA DelGoesOn ==
  ASSUME NEW t0, NEW N, N = DOMAIN t0.h, NEW lev, NEW f, DelOne(f, t0, lev),
         NEW h, NEW U, NEW T, NEW S, NEW b, NEW d, NEW n, Deleting(h, U, T, S, b, d, lev, n), DOMAIN h = N,
         n # h[lev].mid, h[n].color = BLACK, h[n].index = Taken <=> d = n, NEW idle \in Seq(N), NEW cost \in Int
  PROVE  DelMoves(f, t0, h, idle, cost, U, T, S, d, lev, n, N)
  <1>1. DelFacts(h, U, T, S, d, lev, n)
    BY DelFactsAre
  <1>2. On(h, N) /\ n \in N
    BY <1>1 DEF DelFacts, On
  <1>3. PICK p, side : p = h[n].parent /\ side = Hangs(h, n)
    OBVIOUS
  <1>4. PICK g, x : FixRound(BlackSibling(h, lev, p, side), lev, n, p, side) = [h |-> g, at |-> x] /\ DelOn(h, U, T, S, d, lev, n, g, x)
    BY <1>3, DelStep
  <1>5. DOMAIN g = N /\ On(g, N)
    <2>1. PICK R, Q, c : Deleting(g, U \ {d}, R, Q, c, NoNode, lev, x) /\ Alike(h, T, S, g, R, Q, U, d, lev)
      BY <1>4 DEF DelOn
    <2>2. DelFacts(g, U \ {d}, R, Q, NoNode, lev, x) /\ DOMAIN g = DOMAIN h
      BY <2>1, DelFactsAre DEF Alike
    <2> QED BY <2>2 DEF DelFacts, On
  <1>6. PICK t : t = Rec(t0, h, idle, cost)
    OBVIOUS
  <1>7. OfTree(t, t0) /\ t.h = h /\ <<n>> \o idle \in Seq(N) /\ cost - 1 \in Int
    <2>1. OfTree(t, t0) /\ t.h = h
      BY <1>2, <1>6, RecIs
    <2>2. <<n>> \o idle \in Seq(N)
      BY <1>2, OneMore
    <2> QED BY <2>1, <2>2
  <1>8. ~DelEnds(t, lev, n)
    BY <1>7 DEF DelEnds
  <1>9. f[[t |-> t, at |-> n]] = f[DelRound(t, lev, n)]
    BY <1>2, <1>7, <1>8 DEF DelOne
  <1>10. DelRound(t, lev, n) = [t |-> IF h[n].index = Taken THEN Rec(t0, g, <<n>> \o idle, cost - 1) ELSE Rec(t0, g, idle, cost), at |-> x]
    BY <1>2, <1>3, <1>4, <1>5, <1>6, DelRoundIs
  <1>11. CASE d = n
    <2>1. DelRound(t, lev, n) = [t |-> Rec(t0, g, <<n>> \o idle, cost - 1), at |-> x]
      BY <1>10, <1>11
    <2> QED BY <1>4, <1>5, <1>6, <1>7, <1>9, <1>11, <2>1 DEF DelMoves
  <1>12. CASE d # n
    <2>1. DelRound(t, lev, n) = [t |-> Rec(t0, g, idle, cost), at |-> x]
      BY <1>10, <1>12
    <2> QED BY <1>4, <1>5, <1>6, <1>9, <1>12, <2>1 DEF DelMoves
  <1> QED BY <1>11, <1>12

LEMMA DelLoop ==
  ASSUME NEW t0, NEW N, N = DOMAIN t0.h, IsFiniteSet(N), NEW lev, NEW f, DelOne(f, t0, lev), NEW V,
         NEW idle \in Seq(N), NEW cost \in Int,
         NEW h0, NEW T0, NEW S0, NEW b0, NEW n0, Deleting(h0, V, T0, S0, b0, NoNode, lev, n0), DOMAIN h0 = N, Unmarked(h0, S0, lev, NoNode)
  PROVE  DelGood(h0, V, T0, S0, lev, t0, idle, cost, f[[t |-> Rec(t0, h0, idle, cost), at |-> n0]])
  <1> DEFINE Over(S, p) == {x \in V : p \in S[x]}
             W == {k \in Nat : \A h, T, S, b, p : /\ Deleting(h, V, T, S, b, NoNode, lev, p) /\ DOMAIN h = N
                                                  /\ Unmarked(h, S, lev, NoNode) /\ Cardinality(Over(S, p)) = k
                                                  => DelGood(h, V, T, S, lev, t0, idle, cost, f[[t |-> Rec(t0, h, idle, cost), at |-> p]])}
  <1>1. V \subseteq N
    <2>1. DelFacts(h0, V, T0, S0, NoNode, lev, n0)
      BY DelFactsAre
    <2> QED BY <2>1 DEF DelFacts
  <1>2. \A S, p : IsFiniteSet(Over(S, p)) /\ Cardinality(Over(S, p)) \in Nat
    <2>1. \A S, p : Over(S, p) \subseteq N
      BY <1>1
    <2> QED BY <2>1, FS_Subset, FS_CardinalityType
  <1>3. ASSUME NEW k \in Nat, \A m \in Nat : m < k => m \in W,
               NEW h, NEW T, NEW S, NEW b, NEW n, Deleting(h, V, T, S, b, NoNode, lev, n), DOMAIN h = N,
               Unmarked(h, S, lev, NoNode), Cardinality(Over(S, n)) = k
        PROVE  DelGood(h, V, T, S, lev, t0, idle, cost, f[[t |-> Rec(t0, h, idle, cost), at |-> n]])
    <2>1. DelFacts(h, V, T, S, NoNode, lev, n)
      BY <1>3, DelFactsAre
    <2>2. n # NoNode /\ n \in V /\ h[n].index # Taken /\ V \ {NoNode} = V /\ lev # NoNode /\ lev \in V \cup {0}
      <3>1. NoNode \notin N
        BY <1>3 DEF Deleting, Shape, Loose, Wired
      <3>2. n # NoNode /\ n \in V /\ V \ {NoNode} = V
        BY <1>1, <2>1, <3>1 DEF DelFacts
      <3> QED BY <1>3, <2>1, <3>2 DEF DelFacts, Unmarked
    <2>3. CASE n = h[lev].mid \/ h[n].color # BLACK
      BY <1>3, <2>3, DelStops
    <2>4. CASE ~(n = h[lev].mid \/ h[n].color # BLACK)
      <3>1. PICK g, x : /\ f[[t |-> Rec(t0, h, idle, cost), at |-> n]] = f[[t |-> Rec(t0, g, idle, cost), at |-> x]]
                        /\ DOMAIN g = N /\ DelOn(h, V, T, S, NoNode, lev, n, g, x)
        <4>1. PICK d : d = NoNode
          OBVIOUS
        <4>2. Deleting(h, V, T, S, b, d, lev, n) /\ n # h[lev].mid /\ h[n].color = BLACK /\ (h[n].index = Taken <=> d = n) /\ d # n
          BY <1>3, <2>2, <2>4, <4>1
        <4>3. DelMoves(f, t0, h, idle, cost, V, T, S, d, lev, n, N)
          BY <1>3, <4>2, DelGoesOn
        <4> QED BY <4>1, <4>2, <4>3 DEF DelMoves
      <3>2. PICK R, Q, c : /\ Deleting(g, V, R, Q, c, NoNode, lev, x) /\ Alike(h, T, S, g, R, Q, V, NoNode, lev)
                           /\ \/ x = g[lev].mid \/ g[x].color # BLACK
                              \/ Q = S /\ n \in S[x] /\ x \notin S[n] /\ x \in V
        <4>1. PICK Y : Y = V \ {NoNode}
          OBVIOUS
        <4>2. PICK R, Q, c : /\ Deleting(g, Y, R, Q, c, NoNode, lev, x) /\ Alike(h, T, S, g, R, Q, V, NoNode, lev)
                             /\ \/ x = g[lev].mid \/ NoNode = n \/ g[x].color # BLACK
                                \/ Q = S /\ n \in S[x] /\ x \notin S[n] /\ x \in V
          BY <3>1, <4>1 DEF DelOn
        <4>3. Y = V /\ NoNode # n
          BY <2>2, <4>1
        <4> QED BY <4>2, <4>3
      <3>3. Unmarked(g, Q, lev, NoNode)
        BY <1>3, <2>1, <3>2, UnmarkedThen DEF DelFacts
      <3>4. DelGood(g, V, R, Q, lev, t0, idle, cost, f[[t |-> Rec(t0, g, idle, cost), at |-> x]])
        <4>1. CASE x = g[lev].mid \/ g[x].color # BLACK
          BY <3>1, <3>2, <4>1, DelStops
        <4>2. CASE Q = S /\ n \in S[x] /\ x \notin S[n] /\ x \in V
          <5>1. \A y \in V : S[y] \subseteq V /\ y \in S[y] /\ \A z \in S[y] : S[z] \subseteq S[y]
            BY <2>1, LevelIs DEF DelFacts
          <5>2. Over(S, x) \subseteq Over(S, n) /\ n \in Over(S, n) /\ n \notin Over(S, x)
            BY <2>2, <4>2, <5>1
          <5>3. Cardinality(Over(S, x)) < k /\ Cardinality(Over(S, x)) \in Nat
            <6> HIDE DEF Over
            <6> QED BY <1>2, <1>3, <5>2, FewerMembers
          <5>4. Cardinality(Over(S, x)) \in W
            BY <1>3, <5>3
          <5>5. Deleting(g, V, R, Q, c, NoNode, lev, x) /\ Cardinality(Over(Q, x)) = Cardinality(Over(S, x))
            BY <3>2, <4>2
          <5> HIDE DEF Over
          <5> QED BY <3>1, <3>3, <5>4, <5>5
        <4> QED BY <3>2, <4>1, <4>2
      <3>5. PICK e, A, B, a : /\ Shape(e, V, A, B, NoNode) /\ Even(e, V, a) /\ Alike(g, R, Q, e, A, B, V, NoNode, lev)
                              /\ f[[t |-> Rec(t0, g, idle, cost), at |-> x]] = Rec(t0, e, idle, cost)
        BY <3>4 DEF DelGood
      <3>6. Alike(h, T, S, e, A, B, V, NoNode, lev)
        BY <2>2, <3>2, <3>5, AlikeThen
      <3> QED BY <3>1, <3>5, <3>6 DEF DelGood
    <2> QED BY <2>3, <2>4
  <1>4. \A k \in Nat : (\A m \in Nat : m < k => m \in W) => k \in W
    <2> SUFFICES ASSUME NEW k \in Nat, \A m \in Nat : m < k => m \in W PROVE k \in W
      OBVIOUS
    <2>1. \A h, T, S, b, p : /\ Deleting(h, V, T, S, b, NoNode, lev, p) /\ DOMAIN h = N
                             /\ Unmarked(h, S, lev, NoNode) /\ Cardinality(Over(S, p)) = k
                             => DelGood(h, V, T, S, lev, t0, idle, cost, f[[t |-> Rec(t0, h, idle, cost), at |-> p]])
      <3> HIDE DEF Over, W
      <3> QED BY <1>3
    <2> QED BY <2>1
  <1>5. Nat \subseteq W
    <2> HIDE DEF W
    <2> QED BY <1>4, AllNumbers
  <1>6. Cardinality(Over(S0, n0)) \in W
    <2> HIDE DEF W, Over
    <2> QED BY <1>2, <1>5
  <1> QED BY <1>6

-----------------------------------------------------------------------------
\* What del_fixup comes to: an even tree, without d.
DelResult(h, U, T, S, d, lev, t0, idle, cost, e) ==
  \E g, R, Q, c : /\ Shape(g, U \ {d}, R, Q, NoNode) /\ Even(g, U \ {d}, c) /\ Alike(h, T, S, g, R, Q, U, d, lev)
                  /\ d # NoNode => g[d].color = BLACK
                  /\ e = IF d = NoNode THEN Rec(t0, g, idle, cost) ELSE Rec(t0, g, <<d>> \o idle, cost - 1)

\* Where del_fixup begins: a black leaf that is marked, or the node in the place of the one taken out.
DelBegins(h, U, T, S, b, d, lev, n) ==
  /\ Deleting(h, U, T, S, b, d, lev, n) /\ Unmarked(h, S, lev, d)
  /\ d = n => h[n].index = Taken /\ n # h[lev].mid /\ h[n].color = BLACK

(***************************************************************************)
(* del_fixup balances a tree on the way to n of which there is a black     *)
(* node too few, and takes the marked leaf out.                            *)
(***************************************************************************)
THEOREM DelBalances ==
  ASSUME NEW t0, NEW N, NEW h0, NEW idle, NEW cost, IsRec(t0, h0, idle, cost, N), NEW U, NEW T, NEW S, NEW b, NEW d, NEW lev, NEW n,
         DelBegins(h0, U, T, S, b, d, lev, n)
  PROVE  DelResult(h0, U, T, S, d, lev, t0, idle, cost, DelFixup(t0, lev, n))
  <1>1. On(h0, N) /\ idle \in Seq(N) /\ cost \in Int /\ t0.h = h0 /\ t0 = Rec(t0, h0, idle, cost) /\ DOMAIN h0 = N /\ N = DOMAIN t0.h /\ IsHeap(t0.h)
    BY DEF IsRec, On
  <1>2. Deleting(h0, U, T, S, b, d, lev, n) /\ Unmarked(h0, S, lev, d) /\ (d = n => h0[n].index = Taken /\ n # h0[lev].mid /\ h0[n].color = BLACK)
    BY DEF DelBegins
  <1>3. DelFacts(h0, U, T, S, d, lev, n)
    BY <1>2, DelFactsAre
  <1>4. IsFiniteSet(N) /\ NoNode \notin N /\ 0 \notin U
    <2>1. Wired(h0, U, d)
      BY <1>2 DEF Deleting, Shape, Loose
    <2> QED BY <1>1, <2>1 DEF Wired
  <1>5. lev \in DOMAIN t0.h /\ n \in N
    BY <1>1, <1>3 DEF DelFacts
  <1>6. PICK f : (\A x : DelFixup(t0, lev, x) = f[[t |-> t0, at |-> x]]) /\ DelOne(f, t0, lev)
    <2>1. IsHeap(t0.h) /\ lev \in DOMAIN t0.h
      BY <1>1, <1>5
    <2> QED BY <2>1, DelFixupIs
  <1>7. DelFixup(t0, lev, n) = f[[t |-> Rec(t0, h0, idle, cost), at |-> n]]
    BY <1>1, <1>6
  <1>8. CASE d = NoNode
    <2>1. U \ {d} = U
      BY <1>1, <1>3, <1>4, <1>8 DEF DelFacts
    <2>2. Deleting(h0, U, T, S, b, NoNode, lev, n) /\ Unmarked(h0, S, lev, NoNode)
      BY <1>2, <1>8
    <2>3. DelGood(h0, U, T, S, lev, t0, idle, cost, f[[t |-> Rec(t0, h0, idle, cost), at |-> n]])
      BY <1>1, <1>4, <1>6, <2>2, DelLoop
    <2> QED BY <1>7, <1>8, <2>1, <2>3 DEF DelGood, DelResult
  <1>9. CASE d = n /\ d # NoNode
    <2>1. n # h0[lev].mid /\ h0[n].color = BLACK /\ (h0[n].index = Taken <=> d = n)
      BY <1>2, <1>9
    <2>2. DelMoves(f, t0, h0, idle, cost, U, T, S, d, lev, n, N)
      BY <1>1, <1>2, <1>6, <2>1, DelGoesOn
    <2>3. PICK g, x, id, co :
            /\ f[[t |-> Rec(t0, h0, idle, cost), at |-> n]] = f[[t |-> Rec(t0, g, id, co), at |-> x]]
            /\ id = <<n>> \o idle /\ co = cost - 1
            /\ id \in Seq(N) /\ co \in Int /\ DOMAIN g = N /\ DelOn(h0, U, T, S, d, lev, n, g, x)
      BY <1>9, <2>2 DEF DelMoves
    <2>4. PICK V : V = U \ {d}
      OBVIOUS
    <2>5. PICK R, Q, c : Deleting(g, V, R, Q, c, NoNode, lev, x) /\ Alike(h0, T, S, g, R, Q, U, d, lev) /\ g[d].color = BLACK
      BY <1>9, <2>3, <2>4 DEF DelOn
    <2>6. Shape(g, V, R, Q, NoNode)
      BY <2>5 DEF Deleting
    <2>7. d \notin Q[g[lev].mid]
      <3>1. DelFacts(g, V, R, Q, NoNode, lev, x)
        BY <2>5, DelFactsAre
      <3>2. Q[g[lev].mid] \subseteq V
        BY <3>1, LevelIs DEF DelFacts
      <3> QED BY <2>4, <3>2
    <2>8. Unmarked(g, Q, lev, NoNode)
      BY <1>2, <1>3, <2>5, <2>7, UnmarkedThen DEF DelFacts
    <2>9. DelGood(g, V, R, Q, lev, t0, id, co, f[[t |-> Rec(t0, g, id, co), at |-> x]])
      BY <1>1, <1>4, <1>6, <2>3, <2>5, <2>8, DelLoop
    <2>10. PICK e, A, B, a : /\ Shape(e, V, A, B, NoNode) /\ Even(e, V, a) /\ Alike(g, R, Q, e, A, B, V, NoNode, lev)
                             /\ f[[t |-> Rec(t0, g, id, co), at |-> x]] = Rec(t0, e, id, co)
      BY <2>9 DEF DelGood
    <2>11. Alike(g, R, Q, e, A, B, U, d, lev)
      BY <1>4, <2>4, <2>6, <2>10, AlikeCut
    <2>12. Alike(h0, T, S, e, A, B, U, d, lev)
      BY <1>3, <2>5, <2>11, AlikeThen DEF DelFacts
    <2>13. e[d].color = BLACK
      <3>1. d \in DOMAIN g \ {NoNode} /\ d \notin Q[g[lev].mid]
        BY <1>5, <1>9, <2>3, <2>7
      <3> QED BY <2>5, <2>10, <3>1 DEF Alike
    <2> QED BY <1>7, <1>9, <2>3, <2>4, <2>10, <2>12, <2>13 DEF DelResult
  <1> QED BY <1>3, <1>8, <1>9 DEF DelFacts
=============================================================================
