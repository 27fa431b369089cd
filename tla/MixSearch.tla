------------------------------- MODULE MixSearch -------------------------------
(***************************************************************************)
(* Mixed search: CSimpleToSpell and CCompressPinyin.  A node of a tree of  *)
(* initials keeps the spellings of the words below it (mode 1), one of a   *)
(* tree of spellings the words (mode 2), so that a key half in one and     *)
(* half in the other can be found.                                         *)
(*                                                                         *)
(* m counts the full strings: how often full was added for a key short     *)
(* under the prefix pre, at <<pre, short, full>>.                          *)
(***************************************************************************)
EXTENDS IndexData
LOCAL INSTANCE Functions

MAX_MIX_NUMBER == 15
BAR   == 124
TILDE == 126
SPLIT_MUL_STR == -2   \* 0xfe and 0xff as char
ALL_OVER_CHAR == -1
HighBit == -(2^30) - (2^30)   \* the flag of a node of a tree of spellings

Added(m, pre, short, full) ==
  LET at == <<pre, short, full>> IN (at :> IF at \in DOMAIN m THEN m[at] + 1 ELSE 1) @@ m

AddChineseSpell_2(m, pre, spell, chinese) ==
  IF spell = <<>> \/ chinese = <<>> THEN m ELSE Added(m, pre, spell, chinese)

\* GetSimpleSpell: the upper-case letters and what is no letter; nothing without an upper-case
\* letter or a digit.
GetSimpleSpell(s) ==
  IF \A i \in DOMAIN s : ~IsUpper(s[i]) /\ ~IsDigit(s[i]) THEN <<>>
  ELSE FoldLines(LAMBDA r, c : IF IsLower(c) THEN r ELSE Append(r, ToLower(c)), <<>>, s)

AddSpell(m, pre, spell) ==
  IF spell = <<>> THEN m
  ELSE IF ~IsUpper(spell[1]) THEN m ELSE Added(m, pre, GetSimpleSpell(spell), spell)

-----------------------------------------------------------------------------
\* Where the full spelling is cut to the short one: after the letters of the last initial.
GetRightlenString(short, full) ==
  LET Next(j, c) ==
        IF j = -1 \/ ~\E i \in j + 1 .. Len(full) : full[i] = ToUpper(c) THEN -1
        ELSE CHOOSE i \in j + 1 .. Len(full) :
               full[i] = ToUpper(c) /\ \A x \in j + 1 .. i - 1 : full[x] # ToUpper(c)
      last == FoldLines(Next, 0, short)
      end  == CHOOSE e \in last .. Len(full) : (e = Len(full) \/ ~IsLower(full[e + 1])) /\
                                              \A x \in last + 1 .. e : IsLower(full[x])
  IN  IF last = -1 THEN <<>> ELSE SubSeq(full, 1, end)

\* The word cut to the spelling: two bytes for an upper-case letter, one for a digit.
GetRightlenString2(spell, word) ==
  LET At(j) == IF j < Len(word) THEN word[j + 1] ELSE 0
      Next(j, c) ==
        IF j = -1 \/ (IsUpper(c) /\ At(j) >= 0) \/ (IsDigit(c) /\ At(j) # c) THEN -1
        ELSE j + (IF IsUpper(c) THEN 2 ELSE IF IsDigit(c) THEN 1 ELSE 0)
      end == FoldLines(Next, 0, spell)
  IN  IF end = -1 THEN <<>> ELSE SubSeq(word, 1, end)

JoinBar(strings) == FoldLines(LAMBDA r, s : IF r = <<>> THEN s ELSE r \o <<BAR>> \o s, <<>>, strings)

\* How often each of the strings, cut to the key, was added.
Times(m, cut) == [w \in {cut[e] : e \in DOMAIN cut} |-> FoldFunctionOnSet(+, 0, m, {e \in DOMAIN cut : cut[e] = w})]

\* The first MAX_MIX_NUMBER groups of strings that were added as often, counts being the numbers.
Group(in) == IF in[1] = <<>> /\ Len(in) > 1 THEN <<BAR>> \o JoinBar(Tail(in)) ELSE JoinBar(in)

Ranked(times, counts) ==
  LET Nth(i) == CHOOSE c \in counts : Cardinality({d \in counts : d > c}) = i - 1
  IN  JoinBar([i \in {j \in 1 .. MAX_MIX_NUMBER : j <= Cardinality(counts)} |->
                 Group(InOrder({w \in DOMAIN times : times[w] = Nth(i)}))])

RankedOf(times) == Ranked(times, {times[w] : w \in DOMAIN times})

\* GetSpellFromSimple: the full strings for the key, each once, those that were added more
\* often first and those that were added as often in order.  The empty string is one too.
GetSpellFromSimple(m, mode, pre, key) ==
  RankedOf(Times(m, [e \in {x \in DOMAIN m : x[1] = pre /\ Begins(x[2], key)} |->
                       IF mode = 2 THEN GetRightlenString2(key, e[3]) ELSE GetRightlenString(key, e[3])]))

HasBar(s) == \E i \in DOMAIN s : s[i] = BAR

\* StrTokenize: the parts between bars, empty ones too; of the empty string none.
Parts(s) ==
  LET o == FoldLines(LAMBDA r, c : IF c # BAR THEN [r EXCEPT !.word = Append(@, c)]
                                   ELSE [word |-> <<>>, list |-> Append(r.list, r.word)],
                     [word |-> <<>>, list |-> <<>>], s)
  IN  IF s = <<>> THEN <<>> ELSE Append(o.list, o.word)

-----------------------------------------------------------------------------
\* CCompressPinyin::Init: the tails of the spellings, numbered; a set of one letter has none.
CONSTANT pyTail   \* the table: the tails that occur, each once, the empty one among them
PosOf(tail) == (CHOOSE i \in DOMAIN pyTail : pyTail[i] = tail) - 1

\* CompressStr: the numbers of the tails of the first syllables.  At a digit it does not go on.
\* A spelling here begins with a letter in upper case or a digit.
Codes(n, s) ==
  LET of[k \in 0 .. n, from \in 1 .. Len(s) + 1] ==
        LET end  == CHOOSE e \in from .. Len(s) :
                      /\ e = Len(s) \/ IsUpper(s[e + 1]) \/ IsDigit(s[e + 1])
                      /\ \A x \in from + 1 .. e : ~IsUpper(s[x]) /\ ~IsDigit(s[x])
            tail == SubSeq(s, from + 1, end)
        IN  IF k = 0 \/ from > Len(s) THEN <<>>
            ELSE IF IsDigit(s[from]) THEN [i \in 1 .. k |-> PosOf(<<>>)]
            ELSE IF tail \notin {pyTail[i] : i \in DOMAIN pyTail} THEN <<>>
            ELSE <<PosOf(tail)>> \o of[k - 1, end + 1]
  IN  of[n, 1]
CompressStr(n, s) == LET c == Codes(n, s) IN [ok |-> Len(c) = n, code |-> c]

\* UnCompressStr: the spelling of the codes, only of letters.
UnCompressStr(short, code) ==
  IF \A i \in DOMAIN short : IsLower(short[i])
  THEN [ok |-> TRUE, full |-> FoldLines(LAMBDA r, i : r \o <<ToUpper(short[i])>> \o pyTail[code[i] + 1], <<>>,
                                        [i \in DOMAIN short |-> i])]
  ELSE [ok |-> FALSE, full |-> <<>>]

\* PacketMixSearch: of each entry <<length, strings>> the length and the codes of its strings.
Closed(s, end) == IF s = <<>> THEN <<>> ELSE s \o <<end>>

PacketMixSearch(entries) ==
  LET AddCode(q, c) == IF c.ok THEN q \o c.code ELSE q
      Entry(n, code) == IF n > 255 \/ code = <<>> THEN <<>> ELSE <<n>> \o code \o <<SPLIT_MUL_STR>>
      Pack(r, e) == r \o Entry(e[1], FoldLines(LAMBDA q, s : AddCode(q, CompressStr(e[1], s)), <<>>, Parts(e[2])))
  IN  Closed(FoldLines(Pack, <<>>, entries), ALL_OVER_CHAR)

\* What mode 2 writes: of each entry the length and the strings.
PacketStrings(entries) ==
  IF entries = <<>> THEN <<>>
  ELSE Append(FoldLines(LAMBDA r, e : (IF r = <<>> THEN r ELSE Append(r, TILDE)) \o <<e[1]>> \o e[2],
                        <<>>, entries), 0)

-----------------------------------------------------------------------------
\* s has the strings of the lengths of a key: those of a length it has not are those of all of it.
AllOf(s)  == Cardinality(DOMAIN s) - 1
At(s, i)  == s[IF i \in DOMAIN s THEN i ELSE AllOf(s)]

\* The loop of GetMixSearchContext over the lengths from .. to - 1: once a length stands for
\* one string only, the longest length that stands for any is kept in its place, and no other.
MixEntries(s, mode, from, to) ==
  LET Entry(i) == <<IF mode = 1 \/ i \in DOMAIN s THEN i ELSE AllOf(s), At(s, i)>>
      of[at \in Int] ==
        LET far  == {j \in at + 1 .. to - 1 : At(s, j) # <<>>}
            last == CHOOSE j \in far : \A i \in far : i <= j
        IN  IF at >= to THEN <<>>
            ELSE IF HasBar(At(s, at)) THEN <<Entry(at)>> \o of[at + 1]
            ELSE IF far # {} THEN <<Entry(last)>>
            ELSE IF At(s, at) = <<>> THEN <<>> ELSE <<Entry(at)>>
  IN  of[from]

\* GetMixSearchContext: what is kept at a node, which is above its parent's: of the key of
\* the first item at or under it, the lengths its bytes are at, or at an item all from there.
MixContext(s, mode, node, from, end) ==
  LET full == {i \in from .. AllOf(s) : At(s, i) # <<>>}
      one  == IF full = {} THEN from - 1 ELSE CHOOSE i \in full : \A j \in full : j <= i
  IN  IF node.mid = 0 THEN MixEntries(s, mode, IF HasBar(At(s, from)) THEN from ELSE one, AllOf(s) + 1)
      ELSE MixEntries(s, mode, from, IF node.cbyte = 0 THEN end - 1 ELSE end)

GetMixSearchContext(m, mode, node, parentIndex, isMid, item, prefixLen) ==
  LET first == parentIndex - prefixLen + 2
      end   == node.index - parentIndex + first
      s     == [i \in 0 .. Len(item) - prefixLen |->
                  GetSpellFromSimple(m, mode, SubSeq(item, 1, prefixLen), SubSeq(item, prefixLen + 1, prefixLen + i))]
  IN  MixContext(s, mode, node, IF isMid THEN first ELSE end - 1, end)
=============================================================================
