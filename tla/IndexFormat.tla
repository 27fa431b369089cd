------------------------------ MODULE IndexFormat ------------------------------
(***************************************************************************)
(* The index as it is stored: the nodes of a tree in composed form, the    *)
(* strings, the node data and the extra data, and the accessors a loaded   *)
(* tree is read with.                                                      *)
(*                                                                         *)
(* A string or extra file is a sequence of cells, the byte at position p   *)
(* in cell p + 1; a number takes four cells, its value in the first.  A    *)
(* tree file is its size and its nodes by position.  Position 0 is NULL.   *)
(***************************************************************************)
EXTENDS Integers, Sequences, FiniteSets

MAX_WEIGHT_CHINESE == 1023
DICT_MAX_SIZE == 32

NoFile == <<>>     \* a file that is not there

CHINESE        == 0
SPELL          == 1
SIMPLE         == 2
CENTER_CHINESE == 6
CENTER_SPELL   == 7
CENTER_SIMPLE  == 8
EX(t)          == t + 20
Base           == {CHINESE, SPELL, SIMPLE, CENTER_CHINESE, CENTER_SPELL, CENTER_SIMPLE}
SelectTree     == Base \cup {EX(t) : t \in Base}
SpellTree      == {SPELL, CENTER_SPELL, EX(SPELL), EX(CENTER_SPELL)}

SelectChangeFromEx(t) == IF t \in Base THEN t ELSE t - 20

IsLower(c) == c \in 97 .. 122
IsUpper(c) == c \in 65 .. 90
IsDigit(c) == c \in 48 .. 57
ToUpper(c) == IF IsLower(c) THEN c - 32 ELSE c
ToLower(c) == IF IsUpper(c) THEN c + 32 ELSE c
Begins(s, prefix) == Len(prefix) <= Len(s) /\ SubSeq(s, 1, Len(prefix)) = prefix

-----------------------------------------------------------------------------
Hua == <<"wife", "mid", "left", "right", "sself">>

\* The fields a node has before the one at place i: g_sucCompackPos.
Before(hua, i) == Cardinality({j \in 1 .. i - 1 : Hua[j] \in hua})

\* UncomposeWife, UncomposeMid, UncomposeLeft, UncomposeRight, UncomposeSpellSelf.
Uncompose(n, f) ==
  IF f \notin n.hua THEN 0 ELSE n.cell[1 + Before(n.hua, CHOOSE i \in 1 .. 5 : Hua[i] = f)]

\* The fields the node has, moved together in their order.
ComposeCut(byte, pos, peer, weight, hua, value) ==
  [byte |-> byte, pos |-> pos, peer |-> peer, weight |-> weight, hua |-> hua,
   cell |-> [c \in 1 .. Cardinality(hua) |->
               value[CHOOSE f \in hua : Before(hua, CHOOSE i \in 1 .. 5 : Hua[i] = f) = c - 1]]]

GetComposeSize(hua) == 4 + 4 * Cardinality(hua)

-----------------------------------------------------------------------------
Number(v) == <<v, 0, 0, 0>>

\* The string at a position, without its 0.
StringAt(file, pos) ==
  LET end == CHOOSE e \in pos + 1 .. Len(file) : file[e] = 0 /\ \A i \in pos + 1 .. e - 1 : file[i] # 0
  IN  SubSeq(file, pos + 1, end - 1)

NumberAt(file, pos) == file[pos + 1]

(***************************************************************************)
(* CTreeBase and its subclasses: t is a loaded tree, p a node of it.       *)
(***************************************************************************)
GetTreeRoot(t) == IF t.size = 4 THEN 0 ELSE 4

GetTreeLeft(t, p)  == Uncompose(t.node[p], "left")
GetTreeMid(t, p)   == Uncompose(t.node[p], "mid")
GetTreeRight(t, p) == Uncompose(t.node[p], "right")

\* The data with a number, and the number of a node's data: its place, 0 if it has none.
GetNodeDataFromId(t, id) == t.wife[id + 1]
GetTreeWife(t, p) == LET ui == Uncompose(t.node[p], "wife") IN IF ui = 0 THEN 0 ELSE (ui - 4) \div 8 + 1

GetNodeString(t, p) == StringAt(t.string, t.wife[GetTreeWife(t, p)].pos)

\* The string of the node or of the first one with data under its middle sons.
GetString(t, p) ==
  LET string[x \in DOMAIN t.node] ==
        IF GetTreeWife(t, x) # 0 THEN GetNodeString(t, x) ELSE string[GetTreeMid(t, x)]
  IN  string[p]

\* The word as it was written and the extra information, where the attribute says there is one.
WITHEXTRAINFO == 1
WITHORIGWORD  == 2
DELETE        == 4
None          == <<>>
GetNodeOrigStringFromData(t, d) ==
  IF WITHORIGWORD \notin d.attr THEN None
  ELSE StringAt(t.extra, NumberAt(t.string, d.pos - (IF WITHEXTRAINFO \in d.attr THEN 8 ELSE 4)))
GetNodeExtraStringFromData(t, d) ==
  IF WITHEXTRAINFO \notin d.attr THEN None ELSE StringAt(t.extra, NumberAt(t.string, d.pos - 4))

\* CTreeSpell and CTreeCenterChinese: the lines of the upper dictionary an entry stands for.
GetNodeExtraNums(t, d) == IF d.md = 0 THEN 1 ELSE NumberAt(t.extra, d.upper - 4)
UpperOf(t, d) ==
  IF d.md = 0 THEN <<d.upper>>
  ELSE [i \in 1 .. GetNodeExtraNums(t, d) |-> NumberAt(t.extra, d.upper + 4 * (i - 1))]
=============================================================================
