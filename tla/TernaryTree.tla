------------------------------ MODULE TernaryTree ------------------------------
(***************************************************************************)
(* The tree the index is built from: CTSTPat over the nodes of a           *)
(* CUnitMemoryManager.  A node asks for one byte of the key; the nodes     *)
(* that ask for the same byte of the keys that agree before it make a      *)
(* level, a red-black tree over the byte they ask for, and the middle son  *)
(* of a node is the root of the next level.  An item hangs at a node       *)
(* without a middle son.                                                   *)
(*                                                                         *)
(* Node 0 is no node: as a son or a parent it stands for NULL, and its     *)
(* middle son is the root of the tree (proot).  A level is named by the    *)
(* node whose middle son is its root (pproot).                             *)
(***************************************************************************)
EXTENDS Integers, Sequences, FiniteSets

CONSTANTS
  KeyByte,         \* the keys that are inserted: sequences of bytes, as char signed
  nmax_block_num,  \* the blocks of the pool
  nblock_unit_num, \* the nodes of a block
  MaxCall          \* bound: the calls made

\* The keys are strings of C: none is empty, and no byte in them is 0.
ASSUME TernaryTreeAssumption ==
  /\ nmax_block_num \in Nat /\ nblock_unit_num \in Nat \ {0} /\ MaxCall \in Nat
  /\ \A k \in KeyByte : k \in Seq(Int) /\ k # <<>> /\ \A i \in DOMAIN k : k[i] # 0

VARIABLES
  heap,            \* the nodes
  pidle,           \* the nodes given back, last first
  nblock_offset,   \* the block nodes are taken from
  noffset,         \* the nodes taken from it
  ncost_unit,      \* the nodes in use, as counted
  held,            \* history: the keys inserted and not removed
  short,           \* history: a node was wanted and there was none
  call             \* history: the calls made

BLACK == 1
RED   == 2
NoKey == <<>>
Null  == [cbyte |-> 0, index |-> 0, color |-> BLACK, item |-> NoKey,
          left |-> 0, mid |-> 0, right |-> 0, parent |-> 0]

-----------------------------------------------------------------------------
\* CLeafNode: get_byte, and the first byte in which two keys differ.
Byte(k, i) == IF 0 <= i /\ i < Len(k) THEN k[i + 1] ELSE 0

Shorter(a, b) == IF Len(a) < Len(b) THEN Len(a) ELSE Len(b)

\* A mutant: the end of a key is not taken for a difference.
DifferentByte(a, b) ==
  LET differ == {i \in 0 .. Shorter(a, b) - 1 : Byte(a, i) # Byte(b, i)}
  IN  IF differ = {} THEN 0 ELSE CHOOSE i \in differ : \A j \in differ : i <= j

FirstDifferent(a, b) ==
  LET differ == {i \in 0 .. Shorter(a, b) - 1 : Byte(a, i) # Byte(b, i)}
  IN  IF differ # {} THEN CHOOSE i \in differ : \A j \in differ : i <= j
      ELSE IF Len(a) = Len(b) THEN -1 ELSE Shorter(a, b)

-----------------------------------------------------------------------------
(***************************************************************************)
(* The state the calls work on, t: the nodes and the pool.                 *)
(***************************************************************************)
Tree == [h |-> heap, idle |-> pidle, block |-> nblock_offset, off |-> noffset,
         cost |-> ncost_unit, blocks |-> nmax_block_num, units |-> nblock_unit_num]

\* init: an empty tree over a pool of so many blocks.
init(units, blocks) ==
  [h |-> [n \in 0 .. blocks * units |-> Null], idle |-> <<>>, block |-> 0, off |-> 0,
   cost |-> 0, blocks |-> blocks, units |-> units]

\* CBaseMemoryManager::alloc: the next unit of the block, or the first of the next block.
Fresh(t) ==
  IF t.block >= t.blocks THEN [t |-> t, unit |-> 0]
  ELSE IF t.off < t.units
  THEN [t |-> [t EXCEPT !.off = @ + 1], unit |-> t.block * t.units + t.off + 1]
  ELSE IF t.block + 1 >= t.blocks
  THEN [t |-> [t EXCEPT !.block = @ + 1, !.off = 0], unit |-> 0]
  ELSE [t |-> [t EXCEPT !.block = @ + 1, !.off = 1], unit |-> (t.block + 1) * t.units + 1]

\* CUnitMemoryManager::alloc: a unit that was given back, or a fresh one.
Alloc(t) ==
  IF t.idle # <<>>
  THEN [t |-> [t EXCEPT !.idle = Tail(@), !.cost = @ + 1], unit |-> Head(t.idle)]
  ELSE LET f == Fresh(t)
       IN  IF f.unit # 0 THEN [f EXCEPT !.t.cost = @ + 1] ELSE f

\* A mutant: a node that is taken out of the tree is not given back.
Forget(t, n) == [t EXCEPT !.cost = @ - 1]

Free(t, n) == [t EXCEPT !.idle = <<n>> \o @, !.cost = @ - 1]

-----------------------------------------------------------------------------
Other(side) == IF side = "left" THEN "right" ELSE "left"

SetParent(h, n, p) == IF n = 0 THEN h ELSE [h EXCEPT ![n].parent = p]

\* The node that replaces n hangs where n hung.
Replace(h, lev, n, new) ==
  LET p == h[n].parent
  IN  IF p = 0 THEN [h EXCEPT ![lev].mid = new]
      ELSE [h EXCEPT ![p][IF h[p].left = n THEN "left" ELSE "right"] = new]

\* left_rotate and right_rotate: n goes down to the side, its other son comes up.
Rotate(h, lev, n, side) ==
  LET up    == h[n][Other(side)]
      inner == h[up][side]
      h1    == Replace(SetParent(h, inner, n), lev, n, up)
  IN  [h1 EXCEPT ![up].parent = h[n].parent, ![up][side] = n,
                 ![n].parent = up, ![n][Other(side)] = inner]

Color(h, n, c) == [h EXCEPT ![n].color = c]

\* The heaps over the nodes of h.
HeapLike(h) ==
  LET N == DOMAIN h
  IN  [N -> [cbyte : Int, index : Int, color : {BLACK, RED}, item : Seq(Int),
             left : N, mid : N, right : N, parent : N]]

\* A mutant: the level is not balanced after a node was added.
NoFixup(h, lev, p) == Color(h, h[lev].mid, BLACK)

\* A round of add_fixup at the red node p under a red one: the heap and the node that is red then.
AddRound(h, lev, p) ==
  LET q     == h[p].parent
      g     == h[q].parent
      side  == IF h[g].left = q THEN "left" ELSE "right"
      uncle == h[g][Other(side)]
      inner == p = h[q][Other(side)]
      h1    == IF inner THEN Rotate(h, lev, q, side) ELSE h
      low   == IF inner THEN q ELSE p
  IN  IF uncle # 0 /\ h[uncle].color = RED
      THEN [h |-> Color(Color(Color(h, q, BLACK), uncle, BLACK), g, RED), at |-> g]
      ELSE [h |-> Rotate(Color(Color(h1, h1[low].parent, BLACK), g, RED), lev, g, Other(side)), at |-> low]

\* add_fixup: the level is balanced again after the red node p was added.
AddFixup(heap0, lev, p) ==
  LET on[s \in [h : HeapLike(heap0), at : DOMAIN heap0]] ==
        LET q == s.h[s.at].parent
        IN  IF q = 0 \/ s.h[q].color # RED THEN Color(s.h, s.h[lev].mid, BLACK) ELSE on[AddRound(s.h, lev, s.at)]
  IN  on[[h |-> heap0, at |-> p]]

-----------------------------------------------------------------------------
\* The son of n the key goes to.
Way(h, n, k) ==
  LET c == Byte(k, h[n].index)
  IN  IF c < h[n].cbyte THEN "left" ELSE IF c = h[n].cbyte THEN "mid" ELSE "right"

AtItem(h, n, k) == Way(h, n, k) = "mid" /\ h[n].mid = 0

\* The node whose item may be the key, 0 if there is none, and the last node passed.
Descend(h, k, n, last) ==
  LET down[s \in [node : DOMAIN h, last : DOMAIN h]] ==
        IF s.node = 0 \/ AtItem(h, s.node, k) THEN s
        ELSE down[[node |-> h[s.node][Way(h, s.node, k)], last |-> s.node]]
  IN  down[[node |-> n, last |-> last]]

\* The level of the son the key goes to.
LevelAfter(h, s, k) == IF Way(h, s.node, k) = "mid" THEN s.node ELSE s.lev

Deepest(h, n) == LET down[x \in DOMAIN h] == IF h[x].mid = 0 THEN x ELSE down[h[x].mid] IN down[n]

\* Where the key leaves the tree, when byte i is the first that differs: the node
\* there, the node before it, and the level.
Place(h, k, i, n, last, lev) ==
  LET down[s \in [node : DOMAIN h, last : DOMAIN h, lev : DOMAIN h]] ==
        IF s.node = 0 \/ h[s.node].index > i THEN s
        ELSE IF AtItem(h, s.node, k) THEN [s EXCEPT !.last = s.node]
        ELSE down[[node |-> h[s.node][Way(h, s.node, k)], last |-> s.node, lev |-> LevelAfter(h, s, k)]]
  IN  down[[node |-> n, last |-> last, lev |-> lev]]

\* A node with an item is added beside p.
AddSon(t, p, side, index, k) ==
  LET a == Alloc(t)
      new == [Null EXCEPT !.index = index, !.cbyte = Byte(k, index), !.parent = p,
                          !.color = RED, !.item = k]
  IN  IF a.unit = 0 THEN [ret |-> 1, t |-> [a.t EXCEPT !.h[p][side] = 0], unit |-> 0]
      ELSE [ret |-> 0, t |-> [a.t EXCEPT !.h[p][side] = a.unit, !.h[a.unit] = new], unit |-> a.unit]

\* A level is put between p and what hung under it.
AddLevel(t, p, below, i, c2, k) ==
  LET a     == Alloc(t)
      moved == p = below
      new   == [Null EXCEPT !.index = i, !.cbyte = c2,
                            !.mid = IF moved THEN 0 ELSE below,
                            !.item = IF moved THEN t.h[p].item ELSE NoKey]
      h1    == [a.t.h EXCEPT ![p].mid = a.unit, ![a.unit] = new,
                             ![p].item = IF moved THEN NoKey ELSE @]
  IN  IF a.unit = 0 THEN [ret |-> 1, t |-> [a.t EXCEPT !.h[p].mid = 0]]
      ELSE LET s == AddSon([a.t EXCEPT !.h = h1], a.unit,
                           IF Byte(k, i) < c2 THEN "left" ELSE "right", i, k)
           IN  [ret |-> s.ret, t |-> s.t]

\* insert: 0, or -1 if the key is empty or there, or 1 if there was no node.  An item
\* that is NULL cannot be compared: the process ends, 2.
insert(t, k) ==
  LET root == t.h[0].mid
      fall == Descend(t.h, k, root, root)
      leaf == IF fall.node # 0 THEN fall.node ELSE Deepest(t.h, fall.last)
      i    == FirstDifferent(k, t.h[leaf].item)
      c2   == Byte(t.h[leaf].item, i)
      at   == Place(t.h, k, i, root, root, 0)
      add  == AddSon(t, at.last, Way(t.h, at.last, k), t.h[at.last].index, k)
  IN  IF k = NoKey THEN [ret |-> -1, t |-> t]
      ELSE IF root = 0
      THEN LET s == AddSon(t, 0, "mid", 0, k)
           IN  [ret |-> s.ret, t |-> IF s.ret = 0 THEN [s.t EXCEPT !.h[s.unit].color = BLACK] ELSE s.t]
      ELSE IF t.h[leaf].item = NoKey THEN [ret |-> 2, t |-> t]
      ELSE IF fall.node # 0 /\ t.h[fall.node].item = k THEN [ret |-> -1, t |-> t]
      ELSE IF at.node # 0 THEN AddLevel(t, at.last, at.node, i, c2, k)
      ELSE [ret |-> add.ret,
            t |-> IF add.ret = 0 THEN [add.t EXCEPT !.h = AddFixup(add.t.h, at.lev, add.unit)] ELSE add.t]

\* search: the item with the key.
Found(h, k) ==
  LET at == Descend(h, k, h[0].mid, 0)
  IN  at.node # 0 /\ k # NoKey /\ h[at.node].item = k

-----------------------------------------------------------------------------
\* A leaf that is taken out and black is marked by its index until the level is balanced.
Taken == -1

\* The sibling of the son on the side is black.
BlackSibling(h, lev, p, side) ==
  LET sib == h[p][Other(side)]
  IN  IF h[sib].color # RED THEN h ELSE Rotate(Color(Color(h, sib, BLACK), p, RED), lev, p, side)

\* The far son of that sibling is red: the near one is, and comes up.
NearComesUp(h, lev, p, side) ==
  LET s == h[p][Other(side)]
  IN  Rotate(Color(Color(h, h[s][side], BLACK), s, RED), lev, s, Other(side))

\* The sibling comes up with the color of p.
SiblingComesUp(h, lev, p, side) ==
  LET s == h[p][Other(side)]
  IN  Rotate([h EXCEPT ![s].color = h[p].color, ![p].color = BLACK, ![h[s][Other(side)]].color = BLACK],
             lev, p, side)

\* Of a marked leaf nothing stays.
Unhang(h, p, side, leaf) == IF leaf THEN [h EXCEPT ![p][side] = 0] ELSE h

\* A round of del_fixup at n, the son of p on the side, with a black sibling: the heap then, and
\* the node there is still one too few on the way to.
FixRound(h, lev, n, p, side) ==
  LET s    == h[p][Other(side)]
      leaf == h[n].index = Taken
      Plain(x) == IF leaf THEN x = 0 ELSE h[x].color = BLACK
      up   == IF Plain(h[s][Other(side)]) THEN NearComesUp(h, lev, p, side) ELSE h
      new  == SiblingComesUp(Unhang(up, p, side, leaf), lev, p, side)
  IN  IF Plain(h[s].left) /\ Plain(h[s].right)
      THEN [h |-> Unhang(Color(h, s, RED), p, side, leaf), at |-> p]
      ELSE [h |-> new, at |-> new[lev].mid]

\* That round, after which a marked leaf is given back.
DelRound(t, lev, n) ==
  LET p    == t.h[n].parent
      side == IF t.h[p].left = n THEN "left" ELSE "right"
      r    == FixRound(BlackSibling(t.h, lev, p, side), lev, n, p, side)
      new  == [t EXCEPT !.h = r.h]
  IN  [t |-> IF t.h[n].index = Taken THEN Free(new, n) ELSE new, at |-> r.at]

\* The trees the calls come to from t.
TreeLike(t) ==
  [h : HeapLike(t.h), idle : Seq(DOMAIN t.h), cost : Int,
   block : {t.block}, off : {t.off}, blocks : {t.blocks}, units : {t.units}]

\* del_fixup: there is a black node too few on the way to n.  A black node that is not the
\* root of its level has a sibling.
DelFixup(t0, lev, n) ==
  LET on[s \in [t : TreeLike(t0), at : DOMAIN t0.h]] ==
        IF s.at = s.t.h[lev].mid \/ s.t.h[s.at].color # BLACK
        THEN [s.t EXCEPT !.h = Color(@, s.at, BLACK)] ELSE on[DelRound(s.t, lev, s.at)]
  IN  on[[t |-> t0, at |-> n]]

TreeMin(h, n) == LET down[x \in DOMAIN h] == IF h[x].left = 0 THEN x ELSE down[h[x].left] IN down[n]

\* The node with the key, and its level.
Locate(h, k, n, lev) ==
  LET down[s \in [node : DOMAIN h, lev : DOMAIN h]] ==
        IF s.node = 0 \/ AtItem(h, s.node, k) THEN s
        ELSE down[[node |-> h[s.node][Way(h, s.node, k)], lev |-> LevelAfter(h, s, k)]]
  IN  down[[node |-> n, lev |-> lev]]

\* A level of one node is taken out, unless it is the first.
Collapse(t, lev) ==
  LET r == t.h[lev].mid
  IN  IF lev = 0 \/ t.h[r].left # 0 \/ t.h[r].right # 0 THEN t
      ELSE Free([t EXCEPT !.h[lev].item = t.h[r].item, !.h[lev].mid = t.h[r].mid], r)

\* The only son of the node hangs where the node hung; a leaf stays for the time, and is marked.
TakeOut(h, lev, del, only) ==
  IF only = 0 THEN [h EXCEPT ![del].index = Taken]
  ELSE Replace(SetParent(h, only, h[del].parent), lev, del, only)

\* The next greater node goes in the place of p.
InPlaceOf(h, del, p) ==
  IF del = p THEN h ELSE [h EXCEPT ![p].cbyte = h[del].cbyte, ![p].mid = h[del].mid, ![p].item = h[del].item]

\* The node is given back; a black leaf was when its level was balanced.
GiveBack(t, lev, del, leaf) ==
  IF ~leaf THEN Free(t, del)
  ELSE IF t.h[del].color # RED THEN t ELSE Free([t EXCEPT !.h = Replace(t.h, lev, del, 0)], del)

\* remove: the node goes, or the next greater one of its level goes in its place.  The last
\* node of the tree stays, with its item, and asks for no byte any more.
Unlink(t, p, lev) ==
  LET del  == IF t.h[p].left # 0 /\ t.h[p].right # 0 THEN TreeMin(t.h, t.h[p].right) ELSE p
      only == IF t.h[del].left # 0 THEN t.h[del].left ELSE t.h[del].right
      out  == [t EXCEPT !.h = InPlaceOf(TakeOut(t.h, lev, del, only), del, p)]
      even == IF out.h[del].color = BLACK THEN DelFixup(out, lev, IF only # 0 THEN only ELSE del) ELSE out
  IN  Collapse(GiveBack(even, lev, del, only = 0), lev)

remove(t, k) ==
  LET at == Locate(t.h, k, t.h[0].mid, 0)
  IN  IF k = NoKey \/ at.node = 0 THEN [ret |-> NoKey, t |-> t]
      ELSE IF t.h[at.node].item # k THEN [ret |-> NoKey, t |-> t]
      ELSE [ret |-> k, t |-> Unlink(t, at.node, at.lev)]

-----------------------------------------------------------------------------
TreeInit ==
  /\ LET t == init(nblock_unit_num, nmax_block_num)
     IN  /\ heap = t.h /\ pidle = t.idle
         /\ nblock_offset = t.block /\ noffset = t.off /\ ncost_unit = t.cost
  /\ held = {} /\ short = FALSE /\ call = 0

Becomes(t) ==
  /\ heap' = t.h /\ pidle' = t.idle
  /\ nblock_offset' = t.block /\ noffset' = t.off /\ ncost_unit' = t.cost

\* CreateSearchTree goes on after an insert that failed.
InsertKey(k) ==
  \E r \in {insert(Tree, k)} :
      /\ call < MaxCall
      /\ call' = IF r.ret = 2 THEN MaxCall ELSE call + 1
      /\ Becomes(r.t)
      /\ held' = IF r.ret = 0 THEN held \cup {k} ELSE held
      /\ short' = (short \/ r.ret = 1)

RemoveKey(k) ==
  \E r \in {remove(Tree, k)} :
      /\ call < MaxCall /\ ~short
      /\ call' = call + 1
      /\ Becomes(r.t)
      /\ held' = held \ {r.ret}
      /\ UNCHANGED short

treeVars == <<heap, pidle, nblock_offset, noffset, ncost_unit, held, short, call>>
TreeNext == \E k \in KeyByte : InsertKey(k) \/ RemoveKey(k)
TreeSpec == TreeInit /\ [][TreeNext]_treeVars

-----------------------------------------------------------------------------
(***************************************************************************)
(* A search finds a key exactly if it was inserted and not removed since,  *)
(* whatever the others are: keys that begin another, keys removed in any   *)
(* order, the last key of the tree.  Until a node was wanted and there was *)
(* none.                                                                   *)
(***************************************************************************)
HeldIsFound == ~short => \A k \in KeyByte : Found(heap, k) <=> k \in held

(***************************************************************************)
(* Every level is a red-black tree: ordered by the byte, the root black,   *)
(* no red node under a red one, as many black nodes on every way down, and *)
(* the parents right.  A search passes few nodes of a level.               *)
(***************************************************************************)
LevelOf(n) ==
  LET of[x \in DOMAIN heap] == IF x = 0 THEN {} ELSE {x} \cup of[heap[x].left] \cup of[heap[x].right] IN of[n]
BlackWays(n) ==
  LET of[x \in DOMAIN heap] ==
        IF x = 0 THEN {0}
        ELSE {b + (IF heap[x].color = BLACK THEN 1 ELSE 0) : b \in of[heap[x].left] \cup of[heap[x].right]}
  IN  of[n]
Under(n) ==
  LET of[x \in DOMAIN heap] == IF x = 0 THEN {} ELSE {x} \cup UNION {of[heap[x][s]] : s \in {"left", "mid", "right"}}
  IN  of[n]
Balanced(lev) ==
  LET root == heap[lev].mid
  IN  /\ heap[root].color = BLACK /\ heap[root].parent = 0
      /\ Cardinality(BlackWays(root)) = 1
      /\ \A n \in LevelOf(root) : LET l == heap[n].left r == heap[n].right IN
           /\ l # 0 => heap[l].parent = n /\ \A x \in LevelOf(l) : heap[x].cbyte < heap[n].cbyte
           /\ r # 0 => heap[r].parent = n /\ \A x \in LevelOf(r) : heap[x].cbyte > heap[n].cbyte
           /\ heap[n].color = RED => heap[l].color = BLACK /\ heap[r].color = BLACK
LevelsBalanced == \A n \in Under(heap[0].mid) \cup {0} : heap[n].mid # 0 => Balanced(n)

(***************************************************************************)
(* A node the pool gave out is in the tree or was given back once, and the *)
(* pool counts the first: no node is lost, used after it was given back,   *)
(* or given out twice.                                                     *)
(***************************************************************************)
Idle == {pidle[i] : i \in DOMAIN pidle}
PoolAccounts ==
  LET used == Under(heap[0].mid)
  IN  /\ used \cap Idle = {} /\ Cardinality(Idle) = Len(pidle)
      /\ ~short => /\ ncost_unit = Cardinality(used)
                   /\ used \cup Idle = 1 .. nblock_offset * nblock_unit_num + noffset
=============================================================================
