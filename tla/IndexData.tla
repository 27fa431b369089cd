------------------------------- MODULE IndexData -------------------------------
(***************************************************************************)
(* The first half of the index builder (CIndexDataInfo): the strings, the  *)
(* node data and the extra data, made from the dictionaries.               *)
(*                                                                         *)
(* f is the directory of a task: its dictionaries f.dict and the files     *)
(* made from them, f.string, f.extra, f.data, f.idtoid, f.tree and f.mix,  *)
(* each by tree or by kind; a file that is not there is <<>>.  They stay   *)
(* from one run of the builder to the next.  f.ok is FALSE when the        *)
(* builder has ended itself by exit or has crashed.                        *)
(*                                                                         *)
(* A line of a dictionary is [pre, key, weight, upper, mix], of the first  *)
(* one, dict.00, also [orig, attr, bar, extra]: bar says that the line has *)
(* a '|' before its extra information.                                     *)
(***************************************************************************)
EXTENDS IndexFormat, TLC

NoFiles == [t \in SelectTree |-> NoFile]
StringKind == {"chinese", "spell", "simple"}
EmptyDirectory ==
  [dict |-> NoFiles, string |-> [k \in StringKind |-> NoFile], extra |-> NoFiles, data |-> NoFiles,
   idtoid |-> NoFiles, tree |-> NoFiles, mix |-> NoFiles, ok |-> TRUE]

Reversed(s) == [i \in 1 .. Len(s) |-> s[Len(s) + 1 - i]]
Unsigned(b) == IF b < 0 THEN b + 256 ELSE b

\* The order of std::string.
Less(a, b) ==
  \E i \in 0 .. Len(a) :
    /\ i <= Len(b) /\ SubSeq(a, 1, i) = SubSeq(b, 1, i)
    /\ i < Len(b) /\ (i = Len(a) \/ Unsigned(a[i + 1]) < Unsigned(b[i + 1]))

\* A set of strings in that order.
InOrder(S) ==
  [i \in 1 .. Cardinality(S) |-> CHOOSE w \in S : Cardinality({v \in S : Less(v, w)}) = i - 1]

FoldLines(Op(_, _), start, lines) ==
  LET r[i \in 0 .. Len(lines)] == IF i = 0 THEN start ELSE Op(r[i - 1], lines[i]) IN r[Len(lines)]

-----------------------------------------------------------------------------
(***************************************************************************)
(* CWordStringInfo: the strings of a dictionary one after the other, and   *)
(* where each word is.                                                     *)
(***************************************************************************)
Size(file) == [file EXCEPT ![1] = Len(file)]

AnlyInfo_Inside(lines) ==
  LET Text(o, s) == [o EXCEPT !.out = @ \o Number(Len(o.extra)), !.extra = @ \o s \o <<0>>]
      Line(o, l) ==
        LET o1  == IF l.key # l.orig THEN Text(o, l.orig) ELSE o
            o2  == IF l.bar /\ l.extra # <<>> THEN Text(o1, l.extra) ELSE o1
            pos == Len(o2.out)
        IN  [o2 EXCEPT !.out = @ \o l.key \o <<0>>,
                       !.pos = (l.key :> pos) @@ (l.pre \o <<45>> \o l.key :> pos) @@ @]
      o == FoldLines(Line, [out |-> Number(0), extra |-> Number(0), pos |-> <<>>], lines)
  IN  [o EXCEPT !.out = Size(@), !.extra = Size(@)]

AnlyInfo(lines) ==
  LET Line(o, l) == IF l.key \in DOMAIN o.pos THEN o
                    ELSE [out |-> o.out \o l.key \o <<0>>, pos |-> (l.key :> Len(o.out)) @@ o.pos]
      o == FoldLines(Line, [out |-> Number(0), pos |-> <<>>], lines)
  IN  [o EXCEPT !.out = Size(@)]

GetWordPos(pos, key) == IF key \in DOMAIN pos THEN pos[key] ELSE 0

\* Reverse: the words in the order of their reversals.
ReverseSort(pos) == InOrder({Reversed(w) : w \in DOMAIN pos})

\* GetReverseWordPos: the word that ends in the key, by halving.  The last step takes the
\* right one of the two that are left unless the left one is greater.
GetReverseWordPos(pos, key) ==
  LET v == ReverseSort(pos)
      Halve[lr \in (DOMAIN v) \X (DOMAIN v)] ==
        LET mid == (lr[1] + lr[2] + 1) \div 2
        IN  IF lr[2] - lr[1] < 2 THEN IF Less(Reversed(key), v[lr[1]]) THEN lr[1] ELSE lr[2]
            ELSE IF Less(v[mid], Reversed(key)) THEN Halve[<<mid, lr[2]>>] ELSE Halve[<<lr[1], mid>>]
      at == Reversed(v[Halve[<<1, Len(v)>>]])
  IN  pos[at] + Len(at) - Len(key)

\* Deal_WordStringInfo: which dictionary the strings of a kind are taken from.
StringSource(sel, base, center) ==
  IF EX(base) \in sel THEN EX(base) ELSE IF base \in sel THEN base
  ELSE IF EX(center) \in sel THEN EX(center) ELSE IF center \in sel THEN center ELSE -1

-----------------------------------------------------------------------------
(***************************************************************************)
(* CreateOneIndex_Chinese1: an entry of each line of dict.00.  The body of *)
(* a line without '|' is not ended in the buffer: its last field runs on   *)
(* into what an earlier line left there.  Left is that, whatever it is.    *)
(***************************************************************************)
Left == -1
Clamp(w, max) == IF w > max THEN max ELSE IF w < 0 THEN 0 ELSE w

Chinese1(lines, pos) ==
  [i \in 1 .. Len(lines) |->
     LET l == lines[i]
     IN  [weight |-> IF l.bar THEN Clamp(l.weight, MAX_WEIGHT_CHINESE) ELSE Left,
          usAttr |-> IF l.bar THEN l.attr ELSE Left,
          attr   |-> (IF l.bar THEN {WITHEXTRAINFO} ELSE {}) \cup (IF l.key # l.orig THEN {WITHORIGWORD} ELSE {}),
          pos    |-> GetWordPos(pos, l.pre \o <<45>> \o l.key)]]

\* WordToLineNumber: the last line with the word.
LineNumber(lines, key) ==
  IF \E i \in DOMAIN lines : lines[i].key = key
  THEN (CHOOSE i \in DOMAIN lines : lines[i].key = key /\ \A j \in i + 1 .. Len(lines) : lines[j].key # key) - 1
  ELSE -1

\* A mutant: a line that stands for several entries is joined as well.
JoinAlways(t, l, lines) == t \notin Base /\ t # EX(CHINESE) /\ LineNumber(lines, l.key) # -1

\* A line of an extended dictionary that stands for one entry is that of the dictionary
\* with its word.
Joined(t, l, lines) ==
  /\ t \notin Base /\ t # EX(CHINESE)
  /\ Len(l.upper) = 1 /\ LineNumber(lines, l.key) # -1

\* The entry of a line, pos where its string is, and the extra file extra with the numbers of
\* the lines it stands for if they are several.
EntryOf(l, extra, pos) ==
  [md    |-> IF Len(l.upper) > 1 THEN 1 ELSE 0,
   upper |-> IF Len(l.upper) > 1 THEN Len(extra) + 4 ELSE l.upper[1],
   pos   |-> pos]
WithNumbers(extra, upper) ==
  IF Len(upper) > 1 THEN FoldLines(LAMBDA e, u : e \o Number(u), extra \o Number(Len(upper)), upper) ELSE extra

\* A line more; base are the lines of the dictionary it is joined with.
AddEntry(o, l, t, base, pos) ==
  IF Joined(t, l, base) THEN [o EXCEPT !.to = Append(@, LineNumber(base, l.key))]
  ELSE [to    |-> Append(o.to, Len(o.data) + (IF t \in Base THEN 0 ELSE Len(base))),
        data  |-> Append(o.data, EntryOf(l, o.extra, pos)),
        extra |-> WithNumbers(o.extra, l.upper)]

\* An entry for each line of any other dictionary, at[line] where its string is.
Entries(t, f, extra, at) ==
  LET o == FoldLines(LAMBDA r, l : AddEntry(r, l, t, f.dict[SelectChangeFromEx(t)], at[l]),
                     [to |-> <<>>, data |-> <<>>, extra |-> extra], f.dict[t])
  IN  [o EXCEPT !.extra = Size(@)]

DictLines(f, t) == {f.dict[t][i] : i \in DOMAIN f.dict[t]}

\* CreateOneIndex_Chinese2: the string is the word, or the end of a word of a center tree.
Chinese2(t, f, extra, pos) ==
  Entries(t, f, extra,
          [l \in DictLines(f, t) |->
             IF SelectChangeFromEx(t) \in {CENTER_SPELL, CENTER_SIMPLE}
             THEN GetReverseWordPos(pos, l.key) ELSE GetWordPos(pos, l.key)])

\* CreateOneIndex_Chinese3: the string is the end of the word the first line it stands for has.
Chinese3(t, f, extra) ==
  Entries(t, f, extra,
          [l \in DictLines(f, t) |->
             LET up == f.data[CHINESE][l.upper[1] + 1].pos
             IN  up + Len(StringAt(f.string["chinese"], up)) - Len(l.key)])

-----------------------------------------------------------------------------
Crash(f) == [f EXCEPT !.ok = FALSE]

\* The entries o of a tree are its own, or go to those of the tree it is kept with.
OneIndex(f, t, base, keep, o) ==
  IF keep /\ o.data # <<>> /\ f.data[base] = NoFile THEN Crash(f)
  ELSE IF base # CENTER_CHINESE /\ \E i \in DOMAIN o.data : o.data[i].pos = 0 THEN Crash(f)
  ELSE [f EXCEPT !.extra[base]  = o.extra,
                 !.data[base]   = IF keep THEN @ \o o.data ELSE IF o.data # <<>> THEN o.data ELSE @,
                 !.idtoid[t]    = IF t \in Base THEN @ ELSE o.to]

\* CreateOneIndex.  An empty dictionary reads as one empty line, at which the builder ends;
\* it crashes at the dictionary an extended one is joined with when that is missing.
CreateOneIndex(f, sel, t, pos) ==
  LET base  == SelectChangeFromEx(t)
      lines == f.dict[t]
      keep  == t \notin Base /\ (base \in sel \/ base = CHINESE)
      extra == IF keep THEN f.extra[base] ELSE Number(4)
  IN  IF ~f.ok \/ (t \notin sel /\ t # CHINESE) THEN f
      ELSE IF lines = <<>> \/ (t \notin Base /\ f.dict[base] = <<>>) THEN Crash(f)
      ELSE IF t = CHINESE THEN [f EXCEPT !.data[CHINESE] = Chinese1(lines, pos)]
      ELSE IF base = CENTER_CHINESE THEN OneIndex(f, t, base, keep, Chinese3(t, f, extra))
      ELSE OneIndex(f, t, base, keep, Chinese2(t, f, extra, pos))

\* The entries of the four trees of a kind, with the strings of that kind.
FourIndexes(f, sel, base, center, pos) ==
  LET One(g, t) == CreateOneIndex(g, sel, t, pos)
  IN  One(One(One(One(f, base), EX(base)), center), EX(center))

\* Process_BasicInfo_Chinese: dict.00 is always taken.
BasicInfo_Chinese(f, sel) ==
  LET o  == AnlyInfo_Inside(f.dict[CHINESE])
      f1 == [f EXCEPT !.string["chinese"] = o.out, !.extra[CHINESE] = o.extra]
  IN  IF f.dict[CHINESE] = <<>> THEN Crash(f)
      ELSE FourIndexes(f1, sel, CHINESE, CENTER_CHINESE, o.pos)

\* Process_BasicInfo_Spell and Process_BasicInfo_Simple.
BasicInfo_Other(f, sel, kind, base, center) ==
  LET from == StringSource(sel, base, center)
      o    == AnlyInfo(f.dict[from])
  IN  IF from = -1 \/ ~f.ok THEN f
      ELSE IF f.dict[from] = <<>> THEN Crash(f)
      ELSE FourIndexes([f EXCEPT !.string[kind] = o.out], sel, base, center, o.pos)

BasicInfo(f, sel) ==
  BasicInfo_Other(BasicInfo_Other(BasicInfo_Chinese(f, sel \cup {CHINESE}), sel, "spell", SPELL, CENTER_SPELL),
                  sel, "simple", SIMPLE, CENTER_SIMPLE)

-----------------------------------------------------------------------------
\* The lines that are named, <<prefix, word>>, and the entries with those marked.
Named(lines, names) ==
  {i \in DOMAIN lines : \E d \in DOMAIN names : names[d] = <<lines[i].pre, lines[i].key>>}
Mark(data, hit) ==
  [i \in DOMAIN data |-> IF i \in hit THEN [data[i] EXCEPT !.attr = @ \cup {DELETE}] ELSE data[i]]

\* A mutant: only the first line of the delete file is looked at.
FirstNamed(f, del) ==
  [f EXCEPT !.data[CHINESE] = Mark(@, {i \in DOMAIN f.dict[CHINESE] :
                                         del[1] = <<f.dict[CHINESE][i].pre, f.dict[CHINESE][i].key>>})]

\* CIndexDeleteItem: the entries of dict.00 the delete file names are marked.  Its lines are
\* <<first field, second field>>: the prefix first, then the word.
DeleteItem(f, del) == [f EXCEPT !.data[CHINESE] = Mark(@, Named(f.dict[CHINESE], del))]

\* Process: whether the index is written again afterwards.
DeletesAny(f, del) == del # <<>> /\ f.data[CHINESE] # NoFile
=============================================================================
