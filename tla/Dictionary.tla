------------------------------ MODULE Dictionary ------------------------------
(***************************************************************************)
(* The dictionaries: CFormatFile makes dict.00 of the words as they were   *)
(* given, CCreateDict the others of that one.                              *)
(*                                                                         *)
(* A word that was given is [pre, value, weight, attr, bar, extra], its    *)
(* fields in their order; what may be after the prefix and the word is     *)
(* taken along.  Lines of dictionaries are those of IndexData.             *)
(***************************************************************************)
EXTENDS Pinyin

CONSTANTS
  Segments,                     \* WordSplitter::split: functions from words to their words
  m_iMaxSplitNum,               \* centerchineseMostnumber
  m_iMinSplitCenterWordLen,     \* mincentersearchwordlen
  m_iMinSplitCenterSearchLen,   \* mincentersearchlen
  m_iMaxSplitCenterSearchLen    \* maxcentersearchlen

SPACE == 32
COMMA == 44

-----------------------------------------------------------------------------
(***************************************************************************)
(* XHStrUtils, on bytes; a byte below 0 and the next one are a character.  *)
(***************************************************************************)
\* FiltNoiseSymbol: small letters, digits and characters; wide letters and digits as narrow
\* ones, whatever else as a space.
Narrow(c, d) ==
  LET ch  == Unsigned(c)
      sch == Unsigned(d)
  IN  IF ch = 163 /\ (sch \in 176 .. 185 \/ sch \in 225 .. 250) THEN <<sch - 128>>
      ELSE IF ch = 163 /\ sch \in 193 .. 218 THEN <<sch - 96>>
      ELSE IF ch \in 161 .. 169 THEN <<SPACE>>
      ELSE <<c, d>>

FiltNoiseSymbol(s) ==
  LET of[i \in 1 .. Len(s) + 1] ==
        IF i > Len(s) THEN <<>>
        ELSE IF s[i] < 0 THEN IF i = Len(s) THEN <<>> ELSE Narrow(s[i], s[i + 1]) \o of[i + 2]
        ELSE <<IF Letter(s[i]) \/ IsDigit(s[i]) THEN ToLower(s[i]) ELSE SPACE>> \o of[i + 1]
  IN  of[1]

ToCase(s, up) == [i \in DOMAIN s |-> IF up THEN ToUpper(s[i]) ELSE ToLower(s[i])]

JoinMultiSpace(s) ==
  FoldLines(LAMBDA r, c : IF c = SPACE /\ r # <<>> /\ r[Len(r)] = SPACE THEN r ELSE Append(r, c), <<>>, s)

trim(s) ==
  LET solid == {i \in DOMAIN s : s[i] \notin {SPACE, 9}}
  IN  IF solid = {} THEN <<>>
      ELSE SubSeq(s, CHOOSE i \in solid : \A j \in solid : i <= j, CHOOSE i \in solid : \A j \in solid : j <= i)

Decimal(n) ==
  LET of[m \in 0 .. n] == IF m < 10 THEN <<48 + m>> ELSE Append(of[m \div 10], 48 + (m % 10)) IN of[n]

-----------------------------------------------------------------------------
(***************************************************************************)
(* CFormatFile::Process.  A word that is there already under its prefix is *)
(* written under a prefix of its own if mustWrite is not 0, one of the     *)
(* mustWrite div 2 numbers from mustWrite on or after the last one tried.  *)
(***************************************************************************)
Normal(value) == trim(JoinMultiSpace(ToCase(FiltNoiseSymbol(value), FALSE)))

\* A mutant: the number that was found is not noted.
NotNoted(o, at) == o

Noted(o, at) == [o EXCEPT !.seen = @ \cup {at}]

\* A word with its key is written under a prefix.
Out(o, w, pre, key) ==
  [o EXCEPT !.out = Append(@,
     [pre |-> pre, key |-> key, orig |-> w.value, weight |-> w.weight, attr |-> w.attr,
      bar |-> w.bar, extra |-> w.extra, upper |-> <<>>, mix |-> <<>>])]

FormatWord(o, w, must) ==
  LET key   == Normal(w.value)
      half  == must \div 2
      New(k) == Decimal(must + o.loop + k)
      free   == {k \in 0 .. half - 1 : <<New(k), key>> \notin o.seen}
      first  == CHOOSE k \in free : \A j \in free : k <= j
      tried  == o.loop + (IF free = {} THEN half ELSE first + 1)
      Tried(q) == [q EXCEPT !.loop = IF tried > half THEN 0 ELSE tried]
  IN  IF Len(key) < 2 THEN [o EXCEPT !.error = @ + 1]
      ELSE IF <<w.pre, key>> \notin o.seen THEN Noted(Out(o, w, w.pre, key), <<w.pre, key>>)
      ELSE IF must = 0 THEN [o EXCEPT !.error = @ + 1]
      ELSE IF free = {} THEN Tried([o EXCEPT !.error = @ + 1])
      ELSE Tried(Noted(Out(o, w, New(first), key), <<New(first), key>>))

FormatFile(words, must) ==
  FoldLines(LAMBDA o, w : FormatWord(o, w, must), [out |-> <<>>, seen |-> {}, loop |-> 0, error |-> 0], words)

-----------------------------------------------------------------------------
(***************************************************************************)
(* CCreateDict.  The words of a word, each joined with those after it:     *)
(* [word, full, simple], its full spellings, and its initials with the     *)
(* full spellings they stand for.                                          *)
(***************************************************************************)
SplitWord(w) ==
  IF Len(w) \in m_iMinSplitCenterSearchLen .. m_iMaxSplitCenterSearchLen THEN Segments[w] ELSE <<w>>

NoSpelling == [word |-> <<>>, full |-> <<>>, simple |-> <<>>]

\* SplitWordNoPinyin: the words are not joined.
SplitWordNoPinyin(w) ==
  LET part == SelectSeq(SplitWord(w), LAMBDA x : x # <<SPACE>>)
  IN  [i \in DOMAIN part |-> [NoSpelling EXCEPT !.word = part[i]]]

\* The initials of a full spelling, letters and digits of its own left out.
InitialsOf(full) ==
  FoldLines(LAMBDA r, c : IF IsUpper(c) \/ IsDigit(c) THEN Append(r, ToLower(c)) ELSE r, <<>>, full)

Spelled(word) ==
  LET full == getMultiPinyinHeadUpper(word)
      simple == getMultiSimplePinyin(word)
  IN  [word |-> word, full |-> full,
       simple |-> [s \in {simple[i] : i \in DOMAIN simple} |-> SelectSeq(full, LAMBDA f : InitialsOf(f) = s)]]

\* Every one of the one with every one of the other.
Pairs(a, b) ==
  FoldLines(LAMBDA r, x : FoldLines(LAMBDA q, y : Append(q, x \o y), r, b), <<>>, a)

\* A word joined with those after it.  Initials that have no full spelling after it stand for
\* those before it alone.
JoinedWith(a, after) ==
  LET keys == FoldLines(LAMBDA r, x : FoldLines(LAMBDA q, y : Append(q, <<x, y>>), r, InOrder(DOMAIN after.simple)),
                        <<>>, InOrder(DOMAIN a.simple))
      Add(m, k) == ((k[1] \o k[2]) :> IF after.simple[k[2]] = <<>> THEN a.simple[k[1]]
                                      ELSE Pairs(a.simple[k[1]], after.simple[k[2]])) @@ m
  IN  [word |-> a.word \o after.word, full |-> Pairs(a.full, after.full), simple |-> FoldLines(Add, <<>>, keys)]

\* SplitWordWithPinyin: from the last word to the first; a space goes to what is after it.
SplitWordWithPinyin(w) ==
  LET part == SplitWord(w)
      Put(o, new) == [out |-> <<new>> \o o.out, after |-> new, any |-> TRUE]
      Join(o, s) == Put(o, IF o.any THEN JoinedWith(s, o.after) ELSE s)
      Word(o, x) == IF x = <<SPACE>> THEN [o EXCEPT !.after.word = x \o @, !.any = TRUE] ELSE Join(o, Spelled(x))
  IN  FoldLines(Word, [out |-> <<>>, after |-> NoSpelling, any |-> FALSE], Reversed(part)).out

WithPinyinTree(sel) == \E t \in sel : SelectChangeFromEx(t) \in {SPELL, SIMPLE, CENTER_SPELL, CENTER_SIMPLE}

-----------------------------------------------------------------------------
\* The rows of a word, by the kind of tree: its key and what it stands for.
AllIn(s) == {s[i] : i \in DOMAIN s}

RowsOf(base, w) ==
  CASE base = CENTER_CHINESE           -> <<[key |-> w.word, extra |-> AllIn(w.full)]>>
    [] base = CHINESE                  -> <<[key |-> w.word, extra |-> {}]>>
    [] base = CENTER_SPELL             -> [i \in DOMAIN w.full |-> [key |-> w.full[i], extra |-> {w.word}]]
    [] base = SPELL                    -> [i \in DOMAIN w.full |-> [key |-> w.full[i], extra |-> {}]]
    [] base \in {CENTER_SIMPLE, SIMPLE} -> LET s == InOrder(DOMAIN w.simple)
                                           IN  [i \in DOMAIN s |-> [key |-> s[i], extra |-> AllIn(w.simple[s[i]])]]

\* The words a dictionary takes: the whole, or the last ones of several.
WordsFor(base, words) ==
  IF base \in {CHINESE, SPELL, SIMPLE} THEN SelectSeq(<<1>>, LAMBDA i : i \in DOMAIN words)
  ELSE SelectSeq([i \in DOMAIN words |-> Len(words) + 1 - i],
                 LAMBDA i : i - 1 \in 1 .. m_iMaxSplitNum /\ Len(words[i].word) >= m_iMinSplitCenterWordLen)

RowsOfWords(base, words) == FoldLines(LAMBDA r, i : r \o RowsOf(base, words[i]), <<>>, WordsFor(base, words))

\* The rows with what they are of.  The dictionaries for all tasks have a prefix of '0's.
RowsOfLine(row, t, l, id, exPre) ==
  [i \in DOMAIN row |-> [pre |-> IF t \in Base THEN l.pre ELSE exPre, key |-> row[i].key, weight |-> l.weight,
                          id |-> id, extra |-> row[i].extra \ {<<>>}]]

\* WriteDictFirst: what a line of dict.00 adds to the dictionary of a tree, in order.
WriteDictFirst(t, sel, l, id, exPre) ==
  RowsOfLine(RowsOfWords(SelectChangeFromEx(t), IF WithPinyinTree(sel) THEN SplitWordWithPinyin(l.key)
                                                ELSE SplitWordNoPinyin(l.key)), t, l, id, exPre)

\* FormatJoinOneFile: one record of all the rows with a prefix and a key.
JoinRow(r, row) ==
  [r EXCEPT !.weight = IF @ < row.weight THEN row.weight ELSE @,
            !.upper = Append(@, row.id), !.mix = @ \cup row.extra]

FormatJoinOneFile(rows) ==
  LET Add(m, row) ==
        LET at == row.pre \o <<COMMA>> \o row.key
        IN  IF at \in DOMAIN m THEN [m EXCEPT ![at] = JoinRow(@, row)]
            ELSE (at :> [pre |-> row.pre, key |-> row.key, weight |-> row.weight,
                         upper |-> <<row.id>>, mix |-> row.extra]) @@ m
  IN  FoldLines(Add, <<>>, rows)

\* WriteJoinOneFile: those that stand for several lines of dict.00 first, both in order.
WriteJoinOneFile(m) ==
  LET key  == InOrder(DOMAIN m)
      line == [i \in DOMAIN key |-> [m[key[i]] EXCEPT !.mix = InOrder(@)]]
  IN  SelectSeq(line, LAMBDA l : Len(l.upper) > 1) \o SelectSeq(line, LAMBDA l : Len(l.upper) <= 1)

\* CreateAllDict_First and CreateAllDict_Second: the dictionaries of the selected trees; those
\* of other trees stay as they are.
CreateAllDict(dict, sel) ==
  LET lines == dict[CHINESE]
      exPre == IF lines = <<>> THEN <<>> ELSE [i \in DOMAIN lines[1].pre |-> 48]
      rows(t) == FoldLines(LAMBDA r, i : r \o WriteDictFirst(t, sel, lines[i], i - 1, exPre), <<>>,
                           [i \in DOMAIN lines |-> i])
  IN  [t \in SelectTree |-> IF t \in sel \ {CHINESE} THEN WriteJoinOneFile(FormatJoinOneFile(rows(t))) ELSE dict[t]]
=============================================================================
