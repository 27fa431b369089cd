------------------------------- MODULE IndexTree -------------------------------
(***************************************************************************)
(* The second half of the index builder (CIndexTreeInfo): of each selected *)
(* dictionary a tree over prefix and key, written node by node, and beside *)
(* it the strings of the mixed search.                                     *)
(***************************************************************************)
EXTENDS TernaryTree, MixSearch

CONSTANT withmixsearch   \* PARA_CONFIG_withmixsearch

\* The trees are built over a pool of their own: init(1024, 0x30000).
CONSTANTS pool_unit, pool_block

\* HasMixSearch: 0 none, 1 the spellings of initials, 2 the words of spellings.
HasMixSearch(sel, t) ==
  LET With(base, other) == (t = base /\ other \in sel) \/ (t = EX(base) /\ EX(other) \in sel)
  IN  IF ~withmixsearch THEN 0
      ELSE IF With(SIMPLE, SPELL) \/ With(CENTER_SIMPLE, CENTER_SPELL) THEN 1
      ELSE IF With(SPELL, CHINESE) \/ With(CENTER_SPELL, CENTER_CHINESE) THEN 2 ELSE 0

\* GetCompressMapping: which entry a line of an extended dictionary is.
Mapped(f, sel, t) == t \notin Base /\ SelectChangeFromEx(t) \in sel /\ f.idtoid[t] # NoFile

\* GetChineseDataAndString: the word a line of dict.00 stands for.
ChineseOf(f, u) == StringAt(f.string["chinese"], f.data[CHINESE][u + 1].pos)

LeafWeight(w) == IF w > 65535 THEN 65535 ELSE IF w < 0 THEN 0 ELSE w

\* The full strings a line adds for the mixed search.
AddMix(f, t, mode, m, l) ==
  IF mode = 0 THEN m
  ELSE IF t \in {SPELL, EX(SPELL)}
  THEN FoldLines(LAMBDA q, u : AddChineseSpell_2(q, l.pre, l.key, ChineseOf(f, u)), m, l.upper)
  ELSE IF l.mix = <<>> THEN m
  ELSE IF mode = 1 THEN AddSpell(m, l.pre, l.mix[1])
  ELSE FoldLines(LAMBDA q, w : AddChineseSpell_2(q, l.pre, l.key, w), m, l.mix)

(***************************************************************************)
(* CreateSearchTree: a leaf of each line with its entry and its weight, in *)
(* the order of the lines; one whose key is there already is not inserted, *)
(* nor is one there is no node for.  c is the tree, the leaves, the mixed  *)
(* strings, the length of the prefix (that of the first line of the first  *)
(* tree), and whether the builder goes on.                                 *)
(***************************************************************************)
WithLine(c, l, id, r, m) ==
  [t      |-> r.t,
   leaf   |-> IF r.ret # 0 THEN c.leaf
              ELSE ((l.pre \o l.key) :> [elemid |-> id, weight |-> LeafWeight(l.weight)]) @@ c.leaf,
   m      |-> m,
   prefix |-> IF c.prefix = -1 THEN Len(l.pre) ELSE c.prefix,
   ok     |-> r.ret # 2]

CreateSearchTree(f, sel, t, prefixLen) ==
  LET mode == HasMixSearch(sel, t)
      Id(i) == IF ~Mapped(f, sel, t) THEN i - 1 ELSE IF i \in DOMAIN f.idtoid[t] THEN f.idtoid[t][i] ELSE Left
      Line(c, i) == IF ~c.ok THEN c
                    ELSE LET l == f.dict[t][i]
                         IN  WithLine(c, l, Id(i), insert(c.t, l.pre \o l.key), AddMix(f, t, mode, c.m, l))
      words == mode = 0 \/ t \notin {SPELL, EX(SPELL)} \/ (f.data[CHINESE] # NoFile /\ f.string["chinese"] # NoFile)
  IN  FoldLines(Line, [t |-> init(pool_unit, pool_block), leaf |-> <<>>, m |-> <<>>, prefix |-> prefixLen,
                       ok |-> f.dict[t] # <<>> /\ words],
                [i \in 1 .. Len(f.dict[t]) |-> i])

-----------------------------------------------------------------------------
\* CollectAllBrother: the nodes of a level that ask for a letter.
Brothers(h, n) ==
  LET of[x \in DOMAIN h] ==
        IF x = 0 THEN {}
        ELSE of[h[x].left] \cup of[h[x].right] \cup (IF IsLower(h[x].cbyte) \/ IsUpper(h[x].cbyte) THEN {x} ELSE {})
  IN  of[n]

\* MarkHavePeerInfo: the nodes of a level under a middle son with one of the other case beside.
Peers(h, n) == LET b == Brothers(h, h[n].mid)
               IN  {x \in b : \E y \in b : /\ h[x].index = h[y].index /\ x # y
                                           /\ ToUpper(h[x].cbyte) = ToUpper(h[y].cbyte)}
MarkHavePeerInfo(h) == UNION {Peers(h, n) : n \in DOMAIN h \ {0}}

MaxOf(a, b) == IF a > b THEN a ELSE b

\* A mutant: the weight of a node is that of its own entry.
OwnOnly(own, sons) == IF own > MAX_WEIGHT_CHINESE THEN MAX_WEIGHT_CHINESE ELSE own

\* The greatest weight at and below a node, within ten bits.
NodeWeight(own, sons) ==
  MaxOf(sons, IF own > MAX_WEIGHT_CHINESE THEN MAX_WEIGHT_CHINESE ELSE own)

\* The node, after what is under it: w is what is written for that, of total and before it
\* strings of len, pos where its sons are, out its strings.
WriteNode(c, mode, w, len, n, isRoot, pos, weight, out) ==
  LET x   == c.t.h[n]
      hua == {s \in {"left", "mid", "right"} : x[s] # 0} \cup
             (IF x.item # NoKey THEN {"wife"} ELSE {}) \cup (IF out # <<>> THEN {"sself"} ELSE {})
      value == [wife  |-> IF x.item = NoKey THEN 0 ELSE c.leaf[x.item].elemid * 8 + 4,
                sself |-> len + Len(w.ss) + (IF mode = 2 THEN HighBit ELSE 0)] @@ pos
      at    == IF isRoot THEN 4 ELSE w.total
  IN  [node  |-> (at :> ComposeCut(x.cbyte, x.index, n \in c.peer, weight, hua, value)) @@ w.node,
       total |-> IF isRoot THEN w.total ELSE w.total + GetComposeSize(hua),
       ss    |-> w.ss \o out,
       pos |-> at, weight |-> weight]

(***************************************************************************)
(* Do_WriteTreeNode: the sons first, left, middle and right, then the      *)
(* node, at the end of what is written; the root has its place in front.   *)
(* Of a node and its parent, the total size of what is written and the     *)
(* length of the strings of the mixed search: the nodes and strings that   *)
(* are added, the total size then, where the node is and its weight.       *)
(***************************************************************************)
Do_WriteTreeNode(c, mode, root, size, strings) ==
  LET h == c.t.h
      do[n \in DOMAIN h, parent \in DOMAIN h, total \in Nat, len \in Nat] ==
        LET x     == h[n]
            Son(s, to, at) == IF s = 0 THEN [node |-> <<>>, total |-> to, ss |-> <<>>, pos |-> 0, weight |-> 0]
                              ELSE do[s, n, to, at]
            l     == Son(x.left, total, len)
            m     == Son(x.mid, l.total, len + Len(l.ss))
            r     == Son(x.right, m.total, len + Len(l.ss \o m.ss))
            mixed == mode # 0 /\ parent # 0 /\ x.index >= c.prefix + 2 /\ x.index < 128
            below == h[Deepest(h, n)].item
            list  == GetMixSearchContext(c.m, mode, x, h[parent].index, h[parent].mid = n, below, c.prefix)
        IN  WriteNode(c, mode, [node |-> l.node @@ m.node @@ r.node, total |-> r.total, ss |-> l.ss \o m.ss \o r.ss],
                      len, n, parent = 0, [left |-> l.pos, mid |-> m.pos, right |-> r.pos],
                      NodeWeight(IF x.item = NoKey THEN 0 ELSE c.leaf[x.item].weight,
                                 MaxOf(MaxOf(l.weight, m.weight), r.weight)),
                      IF ~mixed \/ below = NoKey THEN <<>>
                      ELSE IF mode = 1 THEN PacketMixSearch(list) ELSE PacketStrings(list))
  IN  do[root, 0, size, strings]

\* The files of a tree: o is what was written. The strings of the mixed search have their size in front.
Stored(f, mode, t, o) ==
  [f EXCEPT !.tree[t] = [size |-> o.total, node |-> o.node],
            !.mix[t] = IF mode # 0 THEN Size(Number(4) \o o.ss) ELSE @]

\* What the root takes, the total size and the composed fields, beside what is under it.
RootSize(x) ==
  8 + 4 * (Cardinality({s \in {"left", "mid", "right"} : x[s] # 0}) + (IF x.item # NoKey THEN 1 ELSE 0))

\* WriteTreeNode: an empty tree is the size alone.  The strings of an empty tree have no size.
WriteTreeNode(f, sel, t, c) ==
  LET mode == HasMixSearch(sel, t)
      root == c.t.h[0].mid
  IN  IF root = 0 THEN [f EXCEPT !.tree[t] = [size |-> 4, node |-> <<>>], !.mix[t] = IF mode # 0 THEN <<>> ELSE @]
      ELSE Stored(f, mode, t, Do_WriteTreeNode(c, mode, root, RootSize(c.t.h[root]), Len(Number(4))))

\* BuildTrees: the nodes of a tree of spellings are marked first.
Written(f, sel, t, c) ==
  LET marked == [peer |-> IF t \in SpellTree THEN MarkHavePeerInfo(c.t.h) ELSE {}] @@ c
  IN  [f |-> IF c.ok THEN WriteTreeNode(f, sel, t, marked) ELSE Crash(f), prefix |-> c.prefix]

BuildTrees(g, sel, t) ==
  IF ~g.f.ok \/ t \notin sel THEN g ELSE Written(g.f, sel, t, CreateSearchTree(g.f, sel, t, g.prefix))

\* CIndexTreeInfo: the selected trees one after the other.
TreeInfo(f, sel) ==
  FoldLines(LAMBDA g, t : BuildTrees(g, sel, t), [f |-> f, prefix |-> -1],
            [i \in 1 .. DICT_MAX_SIZE |-> i - 1]).f
=============================================================================
