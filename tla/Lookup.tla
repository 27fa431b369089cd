-------------------------------- MODULE Lookup --------------------------------
(***************************************************************************)
(* From the words of a task to the answers of the server: what a server    *)
(* that has loaded an index finds for a request, against the words and the *)
(* dictionaries the index was made of.                                     *)
(***************************************************************************)
EXTENDS IndexBuild, Request

CONSTANTS
  Task,    \* the name of the task
  Others   \* that of another one

\* The server has loaded an index that was whole, and nothing has been given or run since: its
\* answers depend on the index alone, and are the same until it loads another one.
Serves ==
  /\ todo = <<>> /\ picking = -1 /\ stage = 3
  /\ index # NoIndex /\ index.size > 0 /\ ~expect.torn
  /\ expect.whole # NoIndex /\ expect.whole = whole

LoadedTree(t) == NewTree(index, t)
LoadedTask ==
  [name |-> Task, tree |-> [t \in expect.whole.made.sel |-> LoadedTree(t)], data |-> LoadedTree(CHINESE).wife]

Lines(t) == expect.whole.made.dict[t]
LineOf(u) == Lines(CHINESE)[u + 1]
LineIds == 0 .. Len(Lines(CHINESE)) - 1
IsDeleted(u) == \E i \in DOMAIN expect.whole.made.deleted : expect.whole.made.deleted[i] = <<LineOf(u).pre, LineOf(u).key>>
RangeOf(s) == {s[i] : i \in DOMAIN s}

\* The lines of dict.00 a line of a dictionary stands for.
Stands(t, i) == IF t = CHINESE THEN {i - 1} ELSE RangeOf(Lines(t)[i].upper)

Leaves(x) == {p \in DOMAIN x.node : GetTreeWife(x, p) # 0}
EntryLines(x, p) == IF x.type = CHINESE THEN {GetTreeWife(x, p) - 1} ELSE RangeOf(UpperOf(x, x.wife[GetTreeWife(x, p)]))

-----------------------------------------------------------------------------
(***************************************************************************)
(* Readings of a word: sequences of syllables, a letter or a digit one of  *)
(* its own, [syllables, whether it is read].                               *)
(***************************************************************************)
Readings(s) ==
  LET of[i \in 1 .. Len(s) + 2] ==
        LET hz   == SubSeq(s, i, i + 1)
            mine == IF hz \in DOMAIN MultiPY THEN RangeOf(MultiPY[hz]) ELSE {pys[hz]}
        IN  IF i > Len(s) THEN {<<>>}
            ELSE IF s[i] >= 0 THEN {IF Letter(s[i]) \/ IsDigit(s[i]) THEN <<<<s[i]>>>> \o r ELSE r : r \in of[i + 1]}
            ELSE {<<y>> \o r : y \in mine, r \in of[i + 2]}
  IN  of[1]

Full(r)     == Bytes(r)
Initials(r) == [i \in DOMAIN r |-> r[i][1]]
Dotted(r)   == Bytes([i \in DOMAIN r |-> IF i = 1 THEN r[i] ELSE <<QUOTE>> \o r[i]])

\* What a user may type for a line, given the trees there are: of a word of characters only the
\* characters, or its syllables with quotes between them.
Typed(u, sel) ==
  LET key == LineOf(u).key
      r   == Readings(key)
      Only(S) == IF \A c \in RangeOf(key) : c < 0 THEN S ELSE {}
  IN  (IF SPELL \in sel THEN {Full(y) : y \in r} \cup {ToCase(Full(y), TRUE) : y \in r} \cup Only({Dotted(y) : y \in r})
       ELSE {})
      \cup (IF SIMPLE \in sel THEN {Initials(y) : y \in r} ELSE {})
      \cup Only({key})

Plain == [w |-> <<>>, p |-> <<>>, x |-> Task, pns |-> NotSent, wng |-> NotSent, mat |-> NotSent, sl |-> NotSent,
          ts |-> AllBits, sffc |-> AllBits, flg |-> NotSent, flgl |-> NotSent, flgu |-> NotSent, flga |-> NotSent,
          flgo |-> NotSent]
\* The lines found by the categories at.
HitLines(found, at) == {h[2] : h \in UNION {found[i].hits : i \in at \cap DOMAIN found}}
Results(r) == SearchResult([r EXCEPT !.ts = expect.whole.made.sel], 0, <<LoadedTask>>)
Ask(r) == HitLines(Results(r), 1 .. 32)

-----------------------------------------------------------------------------
(***************************************************************************)
(* A tree that is loaded has an entry for each line of its dictionary and  *)
(* no other, with the key of the line and the lines of dict.00 it stands   *)
(* for, although entries are shared between dictionaries, strings between  *)
(* words that end alike, and the fields of a node are moved together.      *)
(***************************************************************************)
EntriesAreTheLines ==
  Serves => \A t \in expect.whole.made.sel :
    LET x == LoadedTree(t)
    IN  /\ Cardinality(Leaves(x)) = Len(Lines(t))
        /\ {<<GetNodeString(x, p), EntryLines(x, p)>> : p \in Leaves(x)} =
             {<<Lines(t)[i].key, Stands(t, i)>> : i \in DOMAIN Lines(t)}

(***************************************************************************)
(* The weight of a node is the greatest weight of a word at or below it,   *)
(* whichever words of other weights have the same spelling: the search     *)
(* leaves branches out by it.                                              *)
(***************************************************************************)
NodesWeighBest ==
  Serves => \A t \in expect.whole.made.sel :
    LET x == LoadedTree(t)
        Best(p) == {Clamp(LineOf(u).weight, MAX_WEIGHT_CHINESE) :
                      u \in UNION {EntryLines(x, y) : y \in BelowNode(x, p) \cap Leaves(x)}}
    IN  \A p \in DOMAIN x.node : x.node[p].weight \in Best(p) /\ \A w \in Best(p) : w <= x.node[p].weight

-----------------------------------------------------------------------------
\* What a user may begin to type for the keys of a dictionary.
Keys(t) ==
  LET start == UNION {{SubSeq(Lines(t)[i].key, 1, n) : n \in 1 .. Len(Lines(t)[i].key)} : i \in DOMAIN Lines(t)}
  IN  start \cup (IF t \in SpellTree THEN {ToCase(s, up) : s \in start, up \in BOOLEAN} ELSE {})
Prefixes(t) == {Lines(t)[i].pre : i \in DOMAIN Lines(t)}

\* What a find takes in a tree.
Taken1(found, x, q) == {h[2] : h \in CollectResult(<<x>>, <<LoadedTree(CHINESE).wife>>, q, found, Len(q.key), 0 .. 65535)}

Wanted(q, t, Like(_)) ==
  UNION {Stands(t, i) : i \in {i \in DOMAIN Lines(t) :
           LET l == Lines(t)[i] IN
           /\ Begins(l.pre, q.pre) /\ Len(l.pre) = Len(q.pre) + q.nul
           /\ Len(q.key) <= Len(l.key) /\ Like(l.key)}} \ {u \in LineIds : IsDeleted(u)}

(***************************************************************************)
(* A find of a key takes the words under the prefix whose key begins with  *)
(* it, and no others: the tree that asks for single bytes and the filter   *)
(* over all keys agree.  Letters in upper case in a spelling stand for     *)
(* themselves, others for both.                                            *)
(***************************************************************************)
FindIsFilter ==
  Serves => \A t \in expect.whole.made.sel : LET x == LoadedTree(t) IN
    \A key \in Keys(t), pre \in Prefixes(t) : \A nul \in {0, Len(pre)} :
      LET q == [pre |-> SubSeq(pre, 1, Len(pre) - nul), nul |-> nul, key |-> key, same |-> FALSE]
          Like(k) == IF t \notin SpellTree THEN Begins(k, key)
                     ELSE \A i \in DOMAIN key : k[i] = key[i] \/ (IsLower(key[i]) /\ ToLower(k[i]) = key[i])
      IN  Taken1(FindMatchNode_Common(q, <<x>>), x, q) = Wanted(q, t, Like)

(***************************************************************************)
(* A find of digits takes the words under the prefix whose letters are on  *)
(* those keys, and no others.  Under a prefix with one word only, it       *)
(* finds nothing: the word hangs within the prefix.                        *)
(***************************************************************************)
NineGridIsFilter ==
  Serves => \A t \in expect.whole.made.sel \cap {SPELL, SIMPLE, EX(SPELL), EX(SIMPLE)} : LET x == LoadedTree(t) IN
    \A key \in Keys(t), pre \in Prefixes(t) :
      LET digits == [i \in DOMAIN key |-> CharToNum(key[i])]
          q == [pre |-> pre, nul |-> 0, key |-> digits, same |-> FALSE]
          several == \E i, j \in DOMAIN Lines(t) : i # j /\ Lines(t)[i].pre = pre /\ Lines(t)[j].pre = pre
      IN  several /\ (\A c \in RangeOf(key) : Letter(c)) =>
            Taken1(FindMatchNode_NineGrid(q, <<x>>), x, q) =
              Wanted(q, t, LAMBDA k : \A i \in DOMAIN digits : CharToNum(k[i]) = digits[i])

-----------------------------------------------------------------------------
(***************************************************************************)
(* A word is found by each way to type it: its characters, each of its     *)
(* readings in small or large letters, the initials of each; in its own    *)
(* task and, where there are the trees over all tasks, from another one.   *)
(***************************************************************************)
EveryReadingFinds ==
  Serves => \A u \in LineIds : ~IsDeleted(u) =>
    LET sel  == expect.whole.made.sel
        from == {Task} \cup {o \in {Others} : {EX(CHINESE), EX(SPELL), EX(SIMPLE)} \subseteq sel}
    IN  \A w \in Typed(u, sel), x \in from : u \in Ask([Plain EXCEPT !.w = w, !.p = LineOf(u).pre, !.x = x])

(***************************************************************************)
(* A word the delete file named when the index was written again is in no  *)
(* answer to what is typed for it, whichever tree would find it.           *)
(***************************************************************************)
DeletedIsNeverAnswered ==
  Serves => \A u \in LineIds : IsDeleted(u) =>
    \A w \in Typed(u, expect.whole.made.sel), pre \in {<<>>, LineOf(u).pre} :
      u \notin Ask([Plain EXCEPT !.w = w, !.p = pre, !.pns = Len(LineOf(u).pre) - Len(pre)])

\* What a user may type for a line half spelled out: of a syllable its initial or all of it,
\* of a character the character or what is typed for it.
HalfSpelled(u) ==
  LET key == LineOf(u).key
  IN  UNION {{Bytes([i \in DOMAIN r |-> IF i \in cut THEN <<r[i][1]>> ELSE r[i]]) : cut \in SUBSET DOMAIN r} :
               r \in Readings(key)}
HalfWritten(u) ==
  LET key == LineOf(u).key
      at(i) == SubSeq(key, 2 * i - 1, 2 * i)
  IN  IF Len(key) % 2 # 0 \/ \E c \in RangeOf(key) : c \in 0 .. 127 THEN {}
      ELSE UNION {{Bytes([i \in DOMAIN r |-> IF i \in cut THEN at(i) ELSE r[i]]) :
                     cut \in SUBSET DOMAIN r \ {{}, DOMAIN r}} : r \in Readings(key)}

CharactersOf(w) == LET word == SelectSeq(w, LAMBDA c : c < 0) IN {SubSeq(word, 2 * i - 1, 2 * i) : i \in 1 .. Len(word) \div 2}

\* The categories of a kind in a list.
OfKind(list, match) == {c \in DOMAIN list : list[c].match = match}
\* The lines the categories of a kind find for a request.
AskBy(match, ask) == HitLines(Results(ask), OfKind(Categories(ask), match))
\* What the categories of a kind find for a key under a prefix.
FoundBy(match, w, pre) == AskBy(match, [Plain EXCEPT !.w = w, !.p = pre, !.ts = expect.whole.made.sel])

(***************************************************************************)
(* What a find of a key half spelled out takes has a reading that goes on  *)
(* so, syllable by syllable, from one of its syllables on; what a find of  *)
(* a key half of characters takes has these characters, and a reading that *)
(* begins as the key is spelled.                                           *)
(***************************************************************************)
MixedIsSound ==
  Serves => \A u \in LineIds :
    /\ \A w \in HalfSpelled(u) : LET split == splitPinyinWithSimple(w).part IN
         \A v \in FoundBy(MATCH_CATEGORY_MIXEDSS, w, LineOf(u).pre) :
           \E y \in Readings(LineOf(v).key) : \E from \in 0 .. Len(y) - Len(split) :
             \A i \in DOMAIN split : Begins(y[from + i], split[i])
    /\ \A w \in HalfWritten(u) : \A v \in FoundBy(MATCH_CATEGORY_MIXEDCS, w, LineOf(u).pre) :
         /\ \A hz \in CharactersOf(w) : Contains(LineOf(v).key, hz)
         /\ \E y \in Readings(LineOf(v).key) : Begins(Full(y), ToCase(getPinyin(w), FALSE))

(***************************************************************************)
(* No two words of dict.00 have the same prefix and the same key, however  *)
(* often a word is given: a second one would be in no tree.                *)
(***************************************************************************)
WordsAreUnique ==
  \A i, j \in DOMAIN dir.dict[CHINESE] :
    dir.dict[CHINESE][i].pre = dir.dict[CHINESE][j].pre /\ dir.dict[CHINESE][i].key = dir.dict[CHINESE][j].key => i = j
=============================================================================
