-------------------------------- MODULE Pinyin --------------------------------
(***************************************************************************)
(* The spellings of words (class Pinyin).  A word is bytes: a byte below 0 *)
(* and the next one are a character.  The reading of a character is the    *)
(* syllable code2pinyin writes for its code, with or without the letter in *)
(* upper case in front; a letter or a digit stands for itself.             *)
(***************************************************************************)
EXTENDS IndexData

CONSTANTS
  pys,      \* the characters with a reading: functions from <<byte, byte>> to syllables
  MultiPY,  \* those with several, to sequences of syllables
  pyset     \* the syllables

MOST_COMBINED == 100
Letter(c) == IsLower(c) \/ IsUpper(c)

\* The syllables cut short, down to two letters or to one that is whole.
pyset_p ==
  {w \in UNION {{SubSeq(s, 1, j) : j \in 2 .. Len(s) - 1} : s \in pyset} :
     \E s \in pyset : Begins(s, w) /\ \A j \in Len(w) .. Len(s) - 1 : SubSeq(s, 1, j) \notin pyset}

Character(py) == [py |-> py, letter |-> FALSE]
Itself(c)     == [py |-> <<c>>, letter |-> TRUE]

\* getCharMultiCode and getCode: of each character its readings, of one without any nothing.
CharCodes(s, multi) ==
  LET of[i \in 1 .. Len(s) + 2] ==
        LET hz   == SubSeq(Append(s, 0), i, i + 1)
            mine == IF multi /\ hz \in DOMAIN MultiPY THEN <<[j \in DOMAIN MultiPY[hz] |-> Character(MultiPY[hz][j])]>>
                    ELSE IF hz \in DOMAIN pys THEN <<<<Character(pys[hz])>>>> ELSE <<>>
        IN  IF i > Len(s) THEN <<>>
            ELSE IF s[i] < 0 THEN mine \o of[i + 2]
            ELSE (IF Letter(s[i]) \/ IsDigit(s[i]) THEN <<<<Itself(s[i])>>>> ELSE <<>>) \o of[i + 1]
  IN  of[1]
getCharMultiCode(s) == CharCodes(s, TRUE)
getCode(s) == LET c == CharCodes(s, FALSE) IN [i \in DOMAIN c |-> c[i][1]]

\* A mutant: of each character the first reading only.
FirstReading(codes) == IF codes = <<>> THEN <<>> ELSE <<[i \in DOMAIN codes |-> codes[i][1]]>>

\* combine: every choice of readings, of the first one only once there are more than a hundred.
combine(codes) ==
  LET With(r, c) == [i \in DOMAIN r |-> Append(r[i], c)]
      Choice(r, cs) == IF Len(r) > MOST_COMBINED THEN With(r, cs[1])
                       ELSE FoldLines(LAMBDA q, c : q \o With(r, c), <<>>, cs)
  IN  IF codes = <<>> THEN <<>> ELSE FoldLines(Choice, <<<<>>>>, codes)

code2pinyin(c, upper) == IF upper /\ ~c.letter THEN <<ToUpper(c.py[1])>> \o Tail(c.py) ELSE c.py
codes2string(q, upper) == FoldLines(LAMBDA r, c : r \o code2pinyin(c, upper), <<>>, q)
codes2simplestring(q)  == FoldLines(LAMBDA r, c : Append(r, c.py[1]), <<>>, q)

\* getMultiPinyinHeadUpper, getMultiSimplePinyin and getPinyin.
getMultiPinyinHeadUpper(s) == LET q == combine(getCharMultiCode(s)) IN [i \in DOMAIN q |-> codes2string(q[i], TRUE)]
getMultiSimplePinyin(s)    == LET q == combine(getCharMultiCode(s)) IN [i \in DOMAIN q |-> codes2simplestring(q[i])]
getPinyin(s) == codes2string(getCode(s), TRUE)

-----------------------------------------------------------------------------
Shengmu == (97 .. 122) \ {97, 101, 105, 111, 117, 118}   \* s_cShengmuFirst
QUOTE   == 39

\* Whether the first n letters of s may be a part of it.
PartOfPinyin(s, n) ==
  \/ SubSeq(s, 1, n) \in pyset
  \/ n = 1 /\ s[1] \in Shengmu
  \/ n = Len(s) /\ s \in pyset_p

(***************************************************************************)
(* splitPinyinWithSimple: the parts of a string of letters, some syllables *)
(* and some initials, the last syllable perhaps not whole; digits are a    *)
(* part.  The longest first part is taken; what is left after it must do.  *)
(***************************************************************************)
splitPinyinWithSimple(string) ==
  LET split[at \in 1 .. Len(string) + 1] ==
        LET s     == SubSeq(string, at, Len(string))
            fits  == {n \in 1 .. 7 : n <= Len(s) /\ PartOfPinyin(s, n)}
            digits == CHOOSE n \in 1 .. Len(s) : (n = Len(s) \/ ~IsDigit(s[n + 1])) /\ \A i \in 1 .. n : IsDigit(s[i])
            Rest(n) == LET r == split[at + n]
                       IN  IF n = Len(s) THEN [ok |-> TRUE, part |-> <<s>>]
                           ELSE IF r.ok /\ r.part # <<>> THEN [ok |-> TRUE, part |-> <<SubSeq(s, 1, n)>> \o r.part]
                           ELSE [ok |-> FALSE, part |-> <<>>]
        IN  IF s = <<>> THEN [ok |-> TRUE, part |-> <<>>]
            ELSE IF s[1] = QUOTE THEN split[at + 1]
            ELSE IF IsDigit(s[1]) THEN Rest(digits)
            ELSE IF ~Letter(s[1]) \/ fits = {} THEN [ok |-> FALSE, part |-> <<>>]
            ELSE Rest(CHOOSE n \in fits : \A m \in fits : m <= n)
  IN  split[1]
=============================================================================
