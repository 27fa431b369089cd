------------------------------- MODULE TreeFind -------------------------------
(***************************************************************************)
(* How the server finds a key in a loaded tree: CTreeArrayMng::            *)
(* FindMatchNode and its kinds, and the entries CollectResult takes of the *)
(* nodes that match.  Search.tla takes up from there: in which order, how  *)
(* many, and how they are ranked.                                          *)
(*                                                                         *)
(* q is what is looked for: [pre, nul, key, same], the prefix, the bytes   *)
(* of the prefix that may be anything, the key, and whether only words of  *)
(* its length are wanted.                                                  *)
(***************************************************************************)
EXTENDS MixSearch

MAX_MIX_SEARCH_TIME     == 50
NUMBER_MAX_RETURN_LIMIT == 1000

TotalLen(q) == Len(q.pre) + q.nul + Len(q.key)
AtByte(s, i) == IF i \in DOMAIN s THEN s[i] ELSE 0

\* MEMCMP: an upper-case letter of the key is itself, a lower-case one both.
MEMCMP(s, key) ==
  \A i \in DOMAIN key : IF IsUpper(key[i]) THEN AtByte(s, i) = key[i]
                        ELSE ToUpper(AtByte(s, i)) = ToUpper(key[i])

Agrees(t, s, key) == IF t.type \in SpellTree THEN MEMCMP(s, key) ELSE \A i \in DOMAIN key : AtByte(s, i) = key[i]

\* The string of an item is long enough for the key, or as long.
Fits(t, q, s) == (IF q.same THEN Len(s) = Len(q.key) ELSE Len(s) >= Len(q.key)) /\ Agrees(t, s, q.key)

SonsOf(t, p) == {GetTreeLeft(t, p), GetTreeMid(t, p), GetTreeRight(t, p)} \ {0}

\* FindNodeWithCase: the node of the level that asks for the byte.
NodeFor(t, c, p) ==
  LET on[x \in DOMAIN t.node \cup {0}] ==
        IF x = 0 \/ c = t.node[x].byte THEN x
        ELSE on[IF c < t.node[x].byte THEN GetTreeLeft(t, x) ELSE GetTreeRight(t, x)]
  IN  on[p]
FNWC_TYPE_ALL == "all"
FNWC_TYPE_UP  == "up"
FNWC_TYPE_LOW == "low"
FindNodeWithCase(t, q, p, type) ==
  LET c == q.key[t.node[p].pos - Len(q.pre) - q.nul + 1]
  IN  NodeFor(t, IF type = FNWC_TYPE_UP THEN ToUpper(c) ELSE IF type = FNWC_TYPE_LOW THEN ToLower(c) ELSE c, p)

\* A mutant: the nodes of the lower-case letter are only tried when there is none of the upper-case.
UpperOnly(t, q, p) ==
  LET up == FindNodeWithCase(t, q, p, FNWC_TYPE_UP) low == FindNodeWithCase(t, q, p, FNWC_TYPE_LOW)
  IN  (IF up = 0 THEN {low} ELSE {up}) \ {0}

\* The nodes of a level of spellings a letter of the key may go on at: the upper-case one, and
\* the lower-case one for a lower-case letter unless only the upper-case one is there.
Cases(t, q, p) ==
  LET up  == FindNodeWithCase(t, q, p, FNWC_TYPE_UP)
      low == FindNodeWithCase(t, q, p, FNWC_TYPE_LOW)
      c   == q.key[t.node[p].pos - Len(q.pre) - q.nul + 1]
      two == IsLower(c) /\ (up = 0 \/ t.node[up].peer)
  IN  ({up} \cup (IF two THEN {low} ELSE {})) \ {0}

(***************************************************************************)
(* FindMatchNode_Common, from a node on: the nodes that match.             *)
(***************************************************************************)
CommonFrom(t, q, root) ==
  LET from[p \in DOMAIN t.node] ==
        LET n     == t.node[p]
            pre   == Len(q.pre)
            mid   == GetTreeMid(t, p)
            s     == GetString(t, p)
            Go(x) == IF x = 0 THEN {} ELSE from[x]
            c     == q.key[n.pos - pre - q.nul + 1]
            letter == t.type \in SpellTree /\ (IsLower(c) \/ IsUpper(c))
            next   == IF letter THEN Cases(t, q, p) ELSE {FindNodeWithCase(t, q, p, FNWC_TYPE_ALL)} \ {0}
            \* The key ends in a tree of words or initials: the length is not looked at.
            Last(x) == LET y == GetString(t, x) IN
                       IF ~letter /\ t.type \notin SpellTree THEN Fits(t, [q EXCEPT !.same = FALSE], y) ELSE Fits(t, q, y)
        IN  IF n.pos >= TotalLen(q)
            THEN IF (n.pos > TotalLen(q) /\ q.same) \/ ~Agrees(t, s, q.key) THEN {} ELSE {p}
            ELSE IF n.pos < pre
            THEN IF q.pre[n.pos + 1] < n.byte THEN Go(GetTreeLeft(t, p))
                 ELSE IF q.pre[n.pos + 1] > n.byte THEN Go(GetTreeRight(t, p))
                 ELSE IF mid # 0 THEN Go(mid) ELSE IF Fits(t, q, s) THEN {p} ELSE {}
            ELSE IF n.pos < pre + q.nul
            THEN UNION {Go(x) : x \in SonsOf(t, p)} \cup
                 (IF GetTreeWife(t, p) # 0 /\ Fits(t, q, s) THEN {p} ELSE {})
            ELSE UNION {IF GetTreeMid(t, x) # 0 /\ t.node[x].pos < TotalLen(q) - 1 THEN Go(GetTreeMid(t, x))
                        ELSE IF Last(x) THEN {x} ELSE {} : x \in next}
  IN  from[root]

-----------------------------------------------------------------------------
\* The digit of a letter on the keys of a telephone, its letters' lowest and greatest.
szLow == <<2,2,2,3,3,3,4,4,4,5,5,5,6,6,6,7,7,7,7,8,8,8,9,9,9,9>>
CharToNum(c) == IF IsLower(c) THEN szLow[c - 96] + 48 ELSE IF IsUpper(c) THEN szLow[c - 64] + 48 ELSE 0
OnKey(c) == {i \in 1 .. 26 : szLow[i] + 48 = c}
\* A mutant: of the letters of a key the first one for the last one.
LowestOnly(c) == IF OnKey(c) = {} THEN 0 ELSE 96 + CHOOSE i \in OnKey(c) : \A j \in OnKey(c) : i <= j

NumberUp(c) == IF OnKey(c) = {} THEN 0 ELSE 96 + CHOOSE i \in OnKey(c) : \A j \in OnKey(c) : j <= i
NumberLow(t, c) ==
  IF OnKey(c) = {} THEN 0
  ELSE (IF t.type \in SpellTree THEN 64 ELSE 96) + CHOOSE i \in OnKey(c) : \A j \in OnKey(c) : i <= j

MEMCMP_NINEGRID(key, s) == \A i \in DOMAIN key : CharToNum(AtByte(s, i)) = key[i]

(***************************************************************************)
(* FindMatchNode_NineGrid, from a node on.  An item that hangs within the  *)
(* prefix is not looked at.                                                *)
(***************************************************************************)
NineFrom(t, q, root) ==
  LET from[p \in DOMAIN t.node] ==
        LET n     == t.node[p]
            pre   == Len(q.pre)
            Go(x) == IF x = 0 THEN {} ELSE from[x]
            c     == q.key[n.pos - pre - q.nul + 1]
            mid   == GetTreeMid(t, p)
            s     == GetString(t, p)
            long  == IF q.same THEN Len(s) = Len(q.key) ELSE Len(s) >= Len(q.key)
        IN  IF n.pos >= TotalLen(q)
            THEN IF (n.pos > TotalLen(q) /\ q.same) \/ ~MEMCMP_NINEGRID(q.key, s) THEN {} ELSE {p}
            ELSE IF n.pos < pre
            THEN Go(IF q.pre[n.pos + 1] < n.byte THEN GetTreeLeft(t, p)
                    ELSE IF q.pre[n.pos + 1] = n.byte THEN mid ELSE GetTreeRight(t, p))
            ELSE IF n.pos < pre + q.nul THEN UNION {Go(x) : x \in SonsOf(t, p)}
            ELSE (IF n.byte > NumberLow(t, c) THEN Go(GetTreeLeft(t, p)) ELSE {}) \cup
                 (IF n.byte < NumberUp(c) THEN Go(GetTreeRight(t, p)) ELSE {}) \cup
                 (IF CharToNum(n.byte) # c THEN {}
                  ELSE IF mid # 0 THEN Go(mid) ELSE IF long /\ MEMCMP_NINEGRID(q.key, s) THEN {p} ELSE {})
  IN  from[root]

\* A find over the trees of several tasks fails if one of them is empty: <<>>.  Otherwise the
\* nodes that match in each.
AnyEmpty(trees) == \E i \in DOMAIN trees : GetTreeRoot(trees[i]) = 0
FindMatchNode_Common(q, trees) ==
  IF AnyEmpty(trees) THEN <<>> ELSE [i \in DOMAIN trees |-> CommonFrom(trees[i], q, GetTreeRoot(trees[i]))]
FindMatchNode_NineGrid(q, trees) ==
  IF AnyEmpty(trees) THEN <<>> ELSE [i \in DOMAIN trees |-> NineFrom(trees[i], q, GetTreeRoot(trees[i]))]

Matched(found) == \E i \in DOMAIN found : found[i] # {}

-----------------------------------------------------------------------------
BelowNode(t, p) ==
  LET of[x \in DOMAIN t.node] == {x} \cup UNION {of[y] : y \in SonsOf(t, x)} IN IF p = 0 THEN {} ELSE of[p]
LevelNodes(t, p) ==
  LET of[x \in DOMAIN t.node \cup {0}] == IF x = 0 THEN {} ELSE {x} \cup of[GetTreeLeft(t, x)] \cup of[GetTreeRight(t, x)]
  IN  of[p]

\* CollectResult: the nodes whose entries are taken.  For the length of the key only, the
\* node of the level that asks for the end, or the level after the key.
TakenNodes(t, q, p) ==
  LET n == t.node[p]
  IN  IF n.pos + 1 > TotalLen(q)
      THEN IF ~q.same THEN BelowNode(t, p)
           ELSE IF n.pos > TotalLen(q) THEN {} ELSE {NodeFor(t, 0, p)} \ {0}
      ELSE IF GetTreeMid(t, p) = 0 THEN {p}
      ELSE IF q.same THEN LevelNodes(t, GetTreeMid(t, p)) ELSE BelowNode(t, GetTreeMid(t, p))

\* CollectNode: the lines of dict.00 an entry stands for, that are not deleted and have the
\* flags; data is the node data of dict.00.
CollectNode(t, data, p, keyLen, good) ==
  LET d   == t.wife[GetTreeWife(t, p)]
      ids == IF t.type = CHINESE THEN <<GetTreeWife(t, p) - 1>> ELSE UpperOf(t, d)
      id  == {ids[i] : i \in {j \in DOMAIN ids : j <= NUMBER_MAX_RETURN_LIMIT}}
  IN  IF keyLen # 0 /\ Len(GetNodeString(t, p)) # keyLen THEN {}
      ELSE {u \in id : DELETE \notin data[u + 1].attr /\ data[u + 1].usAttr \in good}

\* Of each task the lines of dict.00, <<task, line>>.  data and good are those of the tasks.
CollectResult(trees, data, q, found, keyLen, good) ==
  UNION {{<<i, u>> : u \in UNION {CollectNode(trees[i], data[i], x, IF q.same THEN keyLen ELSE 0, good) :
             x \in {x \in UNION {TakenNodes(trees[i], q, p) : p \in found[i]} : GetTreeWife(trees[i], x) # 0}}} :
         i \in DOMAIN found}
-----------------------------------------------------------------------------
(***************************************************************************)
(* What is kept at a node for the mixed search.                            *)
(***************************************************************************)
\* GetSSValue_Simple: where it is, 0 if what comes first is of shorter keys.  The flag that
\* says that there is more is never set in a tree of initials.
GetSSValue_Simple(t, p, simple) ==
  LET ui == Uncompose(t.node[p], "sself")
  IN  IF ui = 0 THEN 0 ELSE IF t.ss[ui + 1] < Len(simple) THEN 0 ELSE ui

\* GetSSValue_Spell: the strings for the shortest key that is no shorter, and all after them,
\* <<>> if there are none.  Those that are not the first keep the length before them.
FromLength(v, n) ==
  LET later == {i \in 2 .. Len(v) - 1 : v[i] = TILDE /\ Unsigned(v[i + 1]) >= n}
  IN  IF Unsigned(v[1]) >= n THEN Tail(v)
      ELSE IF later = {} THEN <<>>
      ELSE SubSeq(v, 1 + CHOOSE i \in later : \A j \in later : i <= j, Len(v))

GetSSValue_Spell(t, p, spell) ==
  LET ui == Uncompose(t.node[p], "sself")
  IN  IF ui = 0 THEN <<>> ELSE FromLength(StringAt(t.ss, ui - HighBit), Len(spell))

\* GetMatchStrs of words: those before the next key.
MatchWords(v) ==
  LET end == CHOOSE e \in 0 .. Len(v) : (e = Len(v) \/ v[e + 1] = TILDE) /\ \A i \in 1 .. e : v[i] # TILDE
      w   == Parts(SubSeq(v, 1, end))
  IN  {w[i] : i \in DOMAIN w}

\* A mutant: a tail the key gives need not be the one of the spelling.
AnyTail(code, cell) == TRUE

\* What the key says of a syllable: nothing or its tail.
SameTail(code, cell) == code \in {0, cell}

\* GetMatchStrs of codes: the spellings, cut to the key, of those that have the tails of the
\* key.  A syllable of the key without a tail stands for every one.
MatchCodes(simple, code, ss, at, tail) ==
  LET n     == Len(simple)
      Cell(k, i) == ss[at + 1 + k * ss[at + 1] + i]
      over  == CHOOSE k \in 0 .. Len(ss) : /\ Cell(k, 1) \in {SPLIT_MUL_STR, ALL_OVER_CHAR}
                                           /\ \A j \in 0 .. k - 1 : Cell(j, 1) \notin {SPLIT_MUL_STR, ALL_OVER_CHAR}
      hit   == {k \in 0 .. over - 1 : /\ \A i \in 1 .. n - 1 : SameTail(code[i], Cell(k, i))
                                      /\ Begins(pyTail[Cell(k, n) + 1], tail)}
      Front(k) == UnCompressStr(SubSeq(simple, 1, n - 1), [i \in 1 .. n - 1 |-> Cell(k, i)])
  IN  {Front(k).full \o <<ToUpper(simple[n])>> \o tail : k \in {k \in hit : Front(k).ok}}

-----------------------------------------------------------------------------
GetSpellTreeFromSimple(t) ==
  CASE t = SPELL -> CHINESE [] t = CENTER_SPELL -> CENTER_CHINESE
    [] t = EX(SPELL) -> EX(CHINESE) [] t = EX(CENTER_SPELL) -> EX(CENTER_CHINESE)
    [] t = SIMPLE -> SPELL [] t = CENTER_SIMPLE -> CENTER_SPELL
    [] t = EX(SIMPLE) -> EX(SPELL) [] OTHER -> EX(CENTER_SPELL)

Contains(s, w) == \E i \in 0 .. Len(s) - Len(w) : SubSeq(s, i + 1, i + Len(w)) = w

\* The characters of a word all occur in s.
HasAll(s, word) ==
  \A i \in {j \in 1 .. Len(word) : j % 2 = 1} : Contains(s, SubSeq(word, i, IF i < Len(word) THEN i + 1 ELSE i))

\* The second half of a mixed find: strings[i] is what the key may stand for in task i.  The
\* first strings in order are found in the trees of the tasks that have them, if they have the
\* characters of word.
FindStrings(strings, word, trees, data, q, keyLen, good) ==
  LET all   == InOrder(UNION {strings[i] : i \in DOMAIN strings})
      first == {all[i] : i \in {j \in DOMAIN all : j <= MAX_MIX_SEARCH_TIME}}
      Has(w) == {i \in DOMAIN strings : w \in strings[i]}
      Found(w) == FindMatchNode_Common([q EXCEPT !.key = w], [i \in Has(w) |-> trees[i]])
  IN  UNION {CollectResult(trees, data, [q EXCEPT !.key = w], Found(w), keyLen, good) :
               w \in {w \in first : HasAll(w, word)}}

NothingFound == [ret |-> FALSE, hits |-> {}]

\* The words at the nodes that match its spelling, or under one that keeps none.
OrUnder(v, t, mid, key) == IF v = <<>> /\ mid # 0 THEN GetSSValue_Spell(t, mid, key) ELSE v

WordsAt(trees, found, key) ==
  [i \in DOMAIN found |->
     UNION {MatchWords(OrUnder(GetSSValue_Spell(trees[i], p, key), trees[i], GetTreeMid(trees[i], p), key)) :
              p \in found[i]}]

MixedCS(spell, word, trees, to, data, keyLen, good, found) ==
  IF ~Matched(found) THEN NothingFound
  ELSE [ret |-> TRUE, hits |-> FindStrings(WordsAt(trees, found, spell.key), word, to, data, spell, keyLen, good)]

\* FindMatchNode_MixedCS: a spelling, '|' and words that shall occur, two bytes each.
FindMatchNode_MixedCS(q, trees, to, data, good) ==
  LET bar   == {i \in DOMAIN q.key : q.key[i] = BAR}
      cut   == CHOOSE i \in bar : \A j \in bar : i <= j
      spell == [q EXCEPT !.key = SubSeq(q.key, 1, cut - 1)]
  IN  IF bar = {} THEN NothingFound
      ELSE MixedCS(spell, SubSeq(q.key, cut + 1, Len(q.key)), trees, to, data, Len(q.key), good,
                   FindMatchNode_Common(spell, trees))

\* The spellings at the nodes that match its initials.
Spellings(simple, code, ss, at, tail) == IF at = 0 THEN {} ELSE MatchCodes(simple, code, ss, at, tail)

SpellingsAt(trees, found, simple, code, tail) ==
  [i \in DOMAIN found |->
     UNION {Spellings(simple, code, trees[i].ss, GetSSValue_Simple(trees[i], p, simple), tail) : p \in found[i]}]

MixedSS(q, simple, code, tail, trees, to, data, good, found) ==
  IF ~Matched(found) THEN NothingFound
  ELSE [ret |-> TRUE,
        hits |-> FindStrings(SpellingsAt(trees, found, simple, code, tail), <<>>, to, data, q, 0, good)]

\* FindMatchNode_MixedSS: syllables with some of their letters.  The length is looked at when
\* words of other lengths are wanted as well, where it is not used.
FindMatchNode_MixedSS(q, trees, to, data, good) ==
  LET simple == FoldLines(LAMBDA r, c : IF IsLower(c) THEN r ELSE Append(r, ToLower(c)), <<>>, q.key)
      upper  == {i \in 2 .. Len(q.key) : IsUpper(q.key[i])}
      last   == IF upper = {} THEN 1 ELSE CHOOSE i \in upper : \A j \in upper : j <= i
      press  == CompressStr(Len(simple), SubSeq(q.key, 1, last))
      tail   == SubSeq(q.key, last + 1, Len(q.key))
  IN  IF ~press.ok THEN NothingFound
      ELSE MixedSS(q, simple, press.code, tail, trees, to, data, good,
                   FindMatchNode_Common([q EXCEPT !.key = simple], trees))

-----------------------------------------------------------------------------
MATCH_CATEGORY_COMMON      == "common"
MATCH_CATEGORY_MIXEDSS     == "mixedss"
MATCH_CATEGORY_MIXEDCS     == "mixedcs"
MATCH_CATEGORY_NINEGRIDKEY == "ninegrid"

\* SearchCategory with FindMatchNode: for the index of all tasks the prefix is as many '0'.
\* trees are those of the category, to those a mixed find goes on in.
SearchCategory(category, all, q, trees, to, data, good) ==
  LET r     == IF all THEN [q EXCEPT !.pre = [i \in DOMAIN q.pre |-> 48]] ELSE q
      Taken(found) == IF ~Matched(found) THEN NothingFound
                      ELSE [ret |-> TRUE, hits |-> CollectResult(trees, data, r, found, Len(q.key), good)]
  IN  CASE category = MATCH_CATEGORY_MIXEDSS -> FindMatchNode_MixedSS(r, trees, to, data, good)
        [] category = MATCH_CATEGORY_MIXEDCS -> FindMatchNode_MixedCS(r, trees, to, data, good)
        [] category = MATCH_CATEGORY_COMMON  -> Taken(FindMatchNode_Common(r, trees))
        [] OTHER                             -> Taken(FindMatchNode_NineGrid(r, trees))
=============================================================================
