----------------------------- MODULE LookupProofs -----------------------------
(***************************************************************************)
(* Theorems about the way from the words of a task to the answers of the   *)
(* server, for whatever words, selections of trees and delete files, and   *)
(* however the programs are run, ended and read.                           *)
(***************************************************************************)
EXTENDS Lookup, FiniteSetTheorems, WellFoundedInduction, TLAPS

-----------------------------------------------------------------------------
(***************************************************************************)
(* The index file under any builder: any selection of trees, any files and *)
(* any make of them, ended and read at any point.  IndexBuild takes the    *)
(* same steps with the files of its directory.                             *)
(***************************************************************************)
CONSTANTS
  Files,  \* the files a builder may write, in any number and order
  Makes   \* what they may be made of

FileNext ==
  \/ OpenFile \/ Ended \/ PickHead \/ PickBody \/ WriteNext
  \/ \E sel \in SUBSET SelectTree, files \in Seq(Files) : WriteHead(sel, files)
  \/ \E made \in Makes : WriteEnd(made)
FileSpec == FileInit /\ [][FileNext]_fileVars

\* A file that is there begins with its size.
Sized(S) == \A s \in S : s.file # NoFile => FileSize(s) \in Nat \ {0}
FilesHaveSize == Sized(Files)

-----------------------------------------------------------------------------
\* The shapes of the records.
IsHead(h)  == h = [f \in DOMAIN h |-> h[f]] /\ "size" \in DOMAIN h
IsImage(i) == /\ i = [len |-> i.len, head |-> i.head, at |-> i.at]
              /\ i.at = [p \in DOMAIN i.at |-> i.at[p]]
              /\ DOMAIN i.at \subseteq Nat
IsDump(o)  == /\ o = [step |-> o.step, head |-> o.head, size |-> o.size, files |-> o.files]
              /\ IsHead(o.head) /\ o.size \in Nat
              /\ \E S : Sized(S) /\ o.files \in Seq(S)
Shapes ==
  /\ IsImage(image) /\ image.head.size \in Nat
  /\ IsDump(out)
  /\ picking \in Nat \cup {-1} /\ torn \in BOOLEAN

\* A file that was written to its end is not being written; the header has a size only then.
WholeIsDone ==
  /\ out.step # "no" => whole = NoIndex
  /\ whole # NoIndex <=> image.head.size > 0
  /\ whole # NoIndex => whole.image = image

\* The parts of the file are within the size that was counted.
PartsAreWithin ==
  /\ out.step = "files" => out.size > 0 /\ \A p \in DOMAIN image.at : p < out.size
  /\ whole # NoIndex => \A p \in DOMAIN image.at : p < image.head.size

\* What a reader was told stays true while nothing began to write.
PickIsTrue == picking > 0 /\ ~torn => whole # NoIndex /\ picking = image.head.size

FileInv == Shapes /\ WholeIsDone /\ PartsAreWithin /\ PickIsTrue /\ LoadedIsWhole

LEMMA RecordIsNoIndex == \A a, b : [image |-> a, made |-> b] # NoIndex
  <1> SUFFICES ASSUME NEW a, NEW b, [image |-> a, made |-> b] = NoIndex PROVE FALSE
    OBVIOUS
  <1>1. DOMAIN [image |-> a, made |-> b] = {"image", "made"}
    OBVIOUS
  <1>2. DOMAIN NoIndex = {}
    BY DEF NoIndex
  <1> QED BY <1>1, <1>2

LEMMA SetField == ASSUME NEW h, IsHead(h), NEW f, NEW v
                  PROVE  /\ IsHead([h EXCEPT ![f] = v])
                         /\ [h EXCEPT !.size = v].size = v
  BY DEF IsHead

LEMMA NoHeadShape == IsHead(NoHead) /\ NoHead.size = 0
  BY DEF NoHead, IsHead

LEMMA FirstHeadShape == \A sel : FirstHead(sel).size = 0 /\ IsHead([NoHead EXCEPT !.select = sel])
  BY DEF NoHead, IsHead, FirstHead

LEMMA NothingDumped == IsDump(NoDump) /\ IsDump([step |-> "open", head |-> NoHead, size |-> 0, files |-> <<>>])
  <1>1. Sized({}) /\ <<>> \in Seq({})
    BY DEF Sized
  <1> QED BY <1>1, NoHeadShape DEF NoDump, IsDump

LEMMA NoImageShape == IsImage(NoImage) /\ NoImage.head.size = 0 /\ DOMAIN NoImage.at = {}
  BY NoHeadShape DEF NoImage, IsImage

LEMMA FileInitInv == FileInit => FileInv
  <1> SUFFICES ASSUME FileInit PROVE FileInv
    OBVIOUS
  <1>1. Shapes
    <2>1. IsImage(image) /\ image.head.size \in Nat
      BY NoImageShape DEF FileInit
    <2>2. IsDump(out)
      BY NothingDumped DEF FileInit
    <2>3. picking \in Nat \cup {-1} /\ torn \in BOOLEAN
      BY DEF FileInit
    <2> QED BY <2>1, <2>2, <2>3 DEF Shapes
  <1>2. WholeIsDone /\ PartsAreWithin /\ PickIsTrue /\ LoadedIsWhole
    BY NoImageShape DEF FileInit, NoDump, NoIndex, WholeIsDone, PartsAreWithin, PickIsTrue, LoadedIsWhole
  <1> QED BY <1>1, <1>2 DEF FileInv

\* A builder opens the file: what was whole is gone, and who reads it will know.
LEMMA OpenKeeps == ASSUME FileInv, OpenFile PROVE FileInv'
  <1>1. Shapes'
    BY NoImageShape, NothingDumped DEF FileInv, OpenFile, Shapes
  <1>2. WholeIsDone' /\ PartsAreWithin'
    BY NoImageShape DEF OpenFile, NoIndex, WholeIsDone, PartsAreWithin
  <1>3. PickIsTrue'
    <2> SUFFICES ASSUME picking' > 0, ~torn' PROVE FALSE
      BY DEF PickIsTrue
    <2>1. picking = -1
      BY DEF OpenFile
    <2>2. picking > 0
      BY DEF OpenFile
    <2> QED BY <2>1, <2>2
  <1>4. LoadedIsWhole'
    BY DEF FileInv, OpenFile, LoadedIsWhole, NoIndex
  <1> QED BY <1>1, <1>2, <1>3, <1>4 DEF FileInv

LEMMA WriteHeadKeeps ==
  ASSUME FileInv, NEW sel, NEW S, Sized(S), NEW files \in Seq(S), WriteHead(sel, files) PROVE FileInv'
  <1>0. HeadSize \in Nat \ {0}
    BY DEF HeadSize, DICT_MAX_SIZE
  <1>1. Shapes'
    <2>1. IsImage(image') /\ image'.head.size = 0
      BY FirstHeadShape DEF WriteHead, IsImage
    <2>2. IsDump(out')
      BY <1>0, FirstHeadShape DEF WriteHead, IsDump
    <2> QED BY <2>1, <2>2 DEF FileInv, WriteHead, Shapes
  <1>2. whole' = NoIndex
    BY DEF FileInv, WriteHead, WholeIsDone
  <1>3. WholeIsDone' /\ PartsAreWithin'
    BY <1>0, <1>2, FirstHeadShape DEF WriteHead, WholeIsDone, PartsAreWithin
  <1>4. PickIsTrue'
    BY <1>2 DEF FileInv, WriteHead, PickIsTrue
  <1>5. LoadedIsWhole'
    BY DEF FileInv, WriteHead, LoadedIsWhole, NoIndex
  <1> QED BY <1>1, <1>3, <1>4, <1>5 DEF FileInv

LEMMA WriteNextKeeps == ASSUME FileInv, WriteNext PROVE FileInv'
  <1> DEFINE s == Head(out.files)
  <1>0. PICK S : Sized(S) /\ out.files \in Seq(S)
    BY DEF FileInv, Shapes, IsDump
  <1>1. s \in S /\ FileSize(s) \in Nat /\ (s.file # NoFile => FileSize(s) > 0)
    <2>1. s \in S
      BY <1>0 DEF WriteNext
    <2>2. CASE s.file = NoFile
      BY <2>1, <2>2 DEF FileSize
    <2>3. CASE s.file # NoFile
      BY <1>0, <2>1, <2>3 DEF Sized
    <2> QED BY <2>1, <2>2, <2>3
  <1> HIDE DEF s
  <1>2. /\ IsDump(out') /\ out'.step = "files" /\ out'.size = out.size + FileSize(s)
    <2>1. PICK place : out' = [out EXCEPT !.head[s.field] = Placed(@, s.types, place),
                                          !.size = @ + FileSize(s), !.files = Tail(@)]
      BY DEF WriteNext, WriteFile, s
    <2>2. PICK v : out' = [step |-> "files", head |-> [out.head EXCEPT ![s.field] = v],
                           size |-> out.size + FileSize(s), files |-> Tail(out.files)]
      BY <2>1 DEF FileInv, Shapes, IsDump, WriteNext
    <2>3. IsHead(out'.head)
      BY <2>2, SetField DEF FileInv, Shapes, IsDump
    <2>4. out'.size \in Nat /\ Tail(out.files) \in Seq(S)
      BY <1>0, <1>1, <2>2 DEF FileInv, Shapes, IsDump, WriteNext
    <2> QED BY <1>0, <2>2, <2>3, <2>4 DEF IsDump
  <1>3. /\ IsImage(image') /\ image'.head = image.head
        /\ \A p \in DOMAIN image'.at : p \in DOMAIN image.at \/ (s.file # NoFile /\ p = out.size)
    <2>1. CASE s.file = NoFile
      BY <2>1 DEF FileInv, Shapes, WriteNext, s
    <2>2. CASE s.file # NoFile
      <3>1. image' = [len |-> image.len + FileSize(s), head |-> image.head,
                      at |-> [p \in DOMAIN image.at \cup {out.size} |-> IF p = out.size THEN s.file ELSE image.at[p]]]
        BY <2>2 DEF FileInv, Shapes, IsImage, WriteNext, s
      <3>2. DOMAIN image.at \cup {out.size} \subseteq Nat
        BY DEF FileInv, Shapes, IsImage, IsDump
      <3> QED BY <2>2, <3>1, <3>2 DEF IsImage
    <2> QED BY <2>1, <2>2
  <1>4. Shapes'
    BY <1>2, <1>3 DEF FileInv, Shapes, WriteNext
  <1>5. whole = NoIndex /\ whole' = NoIndex
    BY DEF FileInv, WriteNext, WholeIsDone
  <1>6. WholeIsDone' /\ PartsAreWithin'
    <2>1. WholeIsDone'
      BY <1>3, <1>5 DEF FileInv, WholeIsDone
    <2>2. out'.size > 0 /\ \A p \in DOMAIN image'.at : p < out'.size
      <3>1. out.size \in Nat /\ out.size > 0 /\ \A p \in DOMAIN image.at : p < out.size
        BY DEF FileInv, PartsAreWithin, Shapes, IsDump, WriteNext
      <3>2. DOMAIN image.at \subseteq Nat /\ out'.size \in Nat /\ out'.size >= out.size /\ (s.file # NoFile => out'.size > out.size)
        BY <1>1, <1>2, <3>1 DEF FileInv, Shapes, IsImage
      <3>3. ASSUME NEW p \in DOMAIN image'.at PROVE p < out'.size
        <4>1. CASE p \in DOMAIN image.at
          BY <3>1, <3>2, <4>1
        <4>2. CASE s.file # NoFile /\ p = out.size
          BY <3>1, <3>2, <4>2
        <4> QED BY <1>3, <4>1, <4>2
      <3> QED BY <3>1, <3>2, <3>3
    <2> QED BY <1>5, <2>1, <2>2 DEF PartsAreWithin
  <1>7. PickIsTrue' /\ LoadedIsWhole'
    BY <1>3 DEF FileInv, WriteNext, PickIsTrue, LoadedIsWhole, NoIndex
  <1> QED BY <1>4, <1>6, <1>7 DEF FileInv

\* The header with the size makes the file whole.
LEMMA WriteEndKeeps == ASSUME FileInv, NEW made, WriteEnd(made) PROVE FileInv'
  <1>1. IsImage(image') /\ image'.head.size = out.size /\ image'.at = image.at
    <2>1. image' = [len |-> image.len, head |-> [out.head EXCEPT !.size = out.size], at |-> image.at]
      BY DEF FileInv, Shapes, IsImage, WriteEnd
    <2>2. [out.head EXCEPT !.size = out.size].size = out.size
      BY SetField DEF FileInv, Shapes, IsDump
    <2> QED BY <2>1, <2>2 DEF FileInv, Shapes, IsImage
  <1>2. out.size \in Nat /\ out.size > 0 /\ \A p \in DOMAIN image.at : p < out.size
    BY DEF FileInv, PartsAreWithin, Shapes, IsDump, WriteEnd
  <1>3. whole' # NoIndex /\ whole'.image = image' /\ out' = NoDump
    BY RecordIsNoIndex DEF WriteEnd
  <1>4. Shapes'
    BY <1>1, <1>2, <1>3, NothingDumped DEF FileInv, Shapes, WriteEnd
  <1>5. WholeIsDone' /\ PartsAreWithin'
    BY <1>1, <1>2, <1>3 DEF WholeIsDone, PartsAreWithin, NoDump
  <1>6. PickIsTrue'
    BY DEF FileInv, WholeIsDone, PickIsTrue, WriteEnd
  <1>7. LoadedIsWhole'
    BY DEF FileInv, WriteEnd, LoadedIsWhole, NoIndex
  <1> QED BY <1>4, <1>5, <1>6, <1>7 DEF FileInv

LEMMA EndedKeeps == ASSUME FileInv, Ended PROVE FileInv'
  <1>1. Shapes'
    BY NothingDumped DEF FileInv, Shapes, Ended
  <1> QED BY <1>1 DEF FileInv, Ended, WholeIsDone, PartsAreWithin, PickIsTrue, LoadedIsWhole, NoDump, NoIndex

LEMMA PickHeadKeeps == ASSUME FileInv, PickHead PROVE FileInv'
  <1>1. Shapes'
    BY DEF FileInv, Shapes, PickHead
  <1>2. PickIsTrue'
    BY DEF FileInv, WholeIsDone, PickIsTrue, PickHead
  <1> QED BY <1>1, <1>2 DEF FileInv, PickHead, WholeIsDone, PartsAreWithin, LoadedIsWhole, NoIndex

\* What was read is all of the file, if nothing began to write it since its size was read.
LEMMA PickBodyKeeps == ASSUME FileInv, PickBody PROVE FileInv'
  <1>1. Shapes'
    BY DEF FileInv, Shapes, PickBody
  <1>2. WholeIsDone' /\ PartsAreWithin' /\ PickIsTrue'
    BY DEF FileInv, WholeIsDone, PartsAreWithin, PickIsTrue, PickBody
  <1>3. LoadedIsWhole'
    <2> SUFFICES ASSUME index' # NoIndex, index'.size > 0, ~expect'.torn
                 PROVE  /\ expect'.whole # NoIndex
                        /\ index' = [size |-> expect'.whole.image.head.size, head |-> expect'.whole.image.head,
                                     at |-> expect'.whole.image.at]
      BY DEF LoadedIsWhole
    <2>1. expect'.whole = whole /\ ~torn
      BY DEF PickBody
    <2>2. index' = [size |-> picking, head |-> image.head,
                    at |-> [p \in {p \in DOMAIN image.at : p < picking} |-> image.at[p]]]
      BY DEF PickBody
    <2>3. picking > 0
      BY <2>2
    <2>4. whole # NoIndex /\ whole.image = image /\ picking = image.head.size
      BY <2>1, <2>3 DEF FileInv, PickIsTrue, WholeIsDone
    <2>5. {p \in DOMAIN image.at : p < picking} = DOMAIN image.at
      BY <2>4 DEF FileInv, PartsAreWithin
    <2>6. index' = [size |-> picking, head |-> image.head, at |-> image.at]
      BY <2>2, <2>5 DEF FileInv, Shapes, IsImage
    <2> QED BY <2>1, <2>4, <2>6
  <1> QED BY <1>1, <1>2, <1>3 DEF FileInv

-----------------------------------------------------------------------------
(***************************************************************************)
(* Whatever is written to the index file, whenever its builder is ended    *)
(* and whenever the server reads it: what the server has read with a size, *)
(* nothing having begun to write meanwhile, is all of one file written to  *)
(* its end.                                                                *)
(***************************************************************************)
THEOREM IndexFileIsWhole == FilesHaveSize => (FileSpec => []LoadedIsWhole)
  <1> SUFFICES ASSUME FilesHaveSize PROVE FileSpec => []LoadedIsWhole
    OBVIOUS
  <1>1. FileInit => FileInv
    BY FileInitInv
  <1>2. FileInv /\ [FileNext]_fileVars => FileInv'
    <2> SUFFICES ASSUME FileInv, [FileNext]_fileVars PROVE FileInv'
      OBVIOUS
    <2>1. CASE OpenFile
      BY <2>1, OpenKeeps
    <2>2. CASE Ended
      BY <2>2, EndedKeeps
    <2>3. CASE PickHead
      BY <2>3, PickHeadKeeps
    <2>4. CASE PickBody
      BY <2>4, PickBodyKeeps
    <2>5. CASE WriteNext
      BY <2>5, WriteNextKeeps
    <2>6. CASE \E sel \in SUBSET SelectTree, files \in Seq(Files) : WriteHead(sel, files)
      BY <2>6, WriteHeadKeeps DEF FilesHaveSize
    <2>7. CASE \E made \in Makes : WriteEnd(made)
      BY <2>7, WriteEndKeeps
    <2>8. CASE UNCHANGED fileVars
      BY <2>8 DEF fileVars, FileInv, Shapes, WholeIsDone, PartsAreWithin, PickIsTrue, LoadedIsWhole
    <2> QED BY <2>1, <2>2, <2>3, <2>4, <2>5, <2>6, <2>7, <2>8 DEF FileNext
  <1>3. FileInv => LoadedIsWhole
    BY DEF FileInv
  <1> QED BY <1>1, <1>2, <1>3, PTL DEF FileSpec

-----------------------------------------------------------------------------
(***************************************************************************)
(* Numbers and sequences.  The theorems of induction are out of the        *)
(* provers' reach, the well-foundedness they follow from is not.           *)
(***************************************************************************)
LessPairs == {ss \in Nat \X Nat : ss[1] < ss[2]}

\* The order of the natural numbers is well-founded.
LEMMA LessPairsWellFounded == IsWellFoundedOn(LessPairs, Nat)
  BY NatLessThanWellFounded DEF OpToRel, LessPairs

\* Every nonempty set of natural numbers has a least member.
LEMMA LeastNumber ==
  ASSUME NEW T, T \subseteq Nat, T # {}
  PROVE  \E x \in T : \A y \in T : x <= y
  <1>1. PICK x \in T : \A y \in T : ~(<<y, x>> \in LessPairs)
    BY LessPairsWellFounded, WFMin
  <1>2. ASSUME NEW y \in T PROVE x <= y
    <2>1. x \in Nat /\ y \in Nat
      OBVIOUS
    <2>2. <<y, x>> \in LessPairs <=> y < x
      BY <2>1 DEF LessPairs
    <2> QED BY <1>1, <2>1, <2>2, SMT
  <1> QED BY <1>2

\* What holds at 0 and goes on from each number to the next holds up to n.
LEMMA UpTo ==
  ASSUME NEW n \in Nat, NEW S, 0 \in S, \A i \in 0 .. n - 1 : i \in S => i + 1 \in S
  PROVE  \A i \in 0 .. n : i \in S
  <1> SUFFICES ASSUME {i \in 0 .. n : i \notin S} # {} PROVE FALSE
    OBVIOUS
  <1>1. PICK x \in {i \in 0 .. n : i \notin S} : \A y \in {i \in 0 .. n : i \notin S} : x <= y
    BY LeastNumber, {i \in 0 .. n : i \notin S} \subseteq Nat
  <1>2. x \in 0 .. n /\ x # 0
    BY <1>1
  <1>3. x - 1 \in 0 .. n - 1 /\ (x - 1) + 1 = x /\ ~(x <= x - 1)
    BY <1>2
  <1>4. x - 1 \in S
    BY <1>1, <1>3
  <1> QED BY <1>1, <1>3, <1>4

\* A sequence, whatever is in it.
IsSeq(s) == Len(s) \in Nat /\ s = [i \in 1 .. Len(s) |-> s[i]]

LEMMA SeqIsSeq == ASSUME NEW S, NEW s \in Seq(S) PROVE IsSeq(s)
  BY DEF IsSeq

LEMMA IsSeqIn == ASSUME NEW s, IsSeq(s) PROVE s \in Seq({s[i] : i \in DOMAIN s})
  <1>1. PICK n \in Nat : n = Len(s)
    BY DEF IsSeq
  <1>2. s = [i \in 1 .. n |-> s[i]]
    BY <1>1 DEF IsSeq
  <1> QED BY <1>2

LEMMA SeqGrows == ASSUME NEW S, NEW T, S \subseteq T, NEW s \in Seq(S) PROVE s \in Seq(T)
  OBVIOUS

LEMMA AppendIsSeq ==
  ASSUME NEW s, IsSeq(s), NEW x
  PROVE  /\ IsSeq(Append(s, x)) /\ Len(Append(s, x)) = Len(s) + 1
         /\ DOMAIN Append(s, x) = 1 .. Len(s) + 1 /\ DOMAIN s = 1 .. Len(s)
         /\ \A i \in 1 .. Len(s) : Append(s, x)[i] = s[i]
         /\ Append(s, x)[Len(s) + 1] = x
  <1>1. PICK T : T = {s[i] : i \in DOMAIN s} \cup {x}
    OBVIOUS
  <1>2. s \in Seq(T)
    <2>1. PICK n \in Nat : n = Len(s)
      BY DEF IsSeq
    <2>2. s = [i \in 1 .. n |-> s[i]]
      BY <2>1 DEF IsSeq
    <2> QED BY <1>1, <2>2
  <1>3. x \in T
    BY <1>1
  <1>4. Append(s, x) \in Seq(T)
    BY <1>2, <1>3
  <1>5. IsSeq(Append(s, x))
    BY <1>4, SeqIsSeq
  <1>6. Len(Append(s, x)) = Len(s) + 1 /\ DOMAIN Append(s, x) = 1 .. Len(s) + 1 /\ DOMAIN s = 1 .. Len(s)
    BY <1>2, <1>3, <1>4
  <1>7. (\A i \in 1 .. Len(s) : Append(s, x)[i] = s[i]) /\ Append(s, x)[Len(s) + 1] = x
    BY <1>2, <1>3
  <1> QED BY <1>5, <1>6, <1>7

-----------------------------------------------------------------------------
(***************************************************************************)
(* CFormatFile.  So far, all that is written is noted, and no two lines    *)
(* that are written have the same prefix and key.                          *)
(***************************************************************************)
Distinct(list) ==
  \A i, j \in DOMAIN list : list[i].pre = list[j].pre /\ list[i].key = list[j].key => i = j

AllNoted(o) ==
  /\ o = [out |-> o.out, seen |-> o.seen, loop |-> o.loop, error |-> o.error]
  /\ IsSeq(o.out) /\ Distinct(o.out)
  /\ \A i \in DOMAIN o.out : <<o.out[i].pre, o.out[i].key>> \in o.seen

LEMMA NotedKeeps ==
  ASSUME NEW o, AllNoted(o), NEW w, NEW pre, NEW key, <<pre, key>> \notin o.seen
  PROVE  AllNoted(Noted(Out(o, w, pre, key), <<pre, key>>))
  <1>1. PICK line : line = [pre |-> pre, key |-> key, orig |-> w.value, weight |-> w.weight, attr |-> w.attr,
                            bar |-> w.bar, extra |-> w.extra, upper |-> <<>>, mix |-> <<>>]
    OBVIOUS
  <1>2. PICK r : r = Noted(Out(o, w, pre, key), <<pre, key>>)
    OBVIOUS
  <1>3. r = [out |-> Append(o.out, line), seen |-> o.seen \cup {<<pre, key>>}, loop |-> o.loop, error |-> o.error]
    BY <1>1, <1>2 DEF AllNoted, Noted, Out
  <1>4. line.pre = pre /\ line.key = key
    BY <1>1
  <1>5. PICK n \in Nat : n = Len(o.out)
    BY DEF AllNoted, IsSeq
  <1>6. /\ IsSeq(r.out) /\ DOMAIN r.out = 1 .. n + 1 /\ DOMAIN o.out = 1 .. n
        /\ \A i \in 1 .. n : r.out[i] = o.out[i]
        /\ r.out[n + 1] = line
    BY <1>3, <1>5, AppendIsSeq DEF AllNoted
  <1>7. \A i \in 1 .. n : <<r.out[i].pre, r.out[i].key>> \in o.seen
    BY <1>6 DEF AllNoted
  <1>8. Distinct(r.out)
    <2> SUFFICES ASSUME NEW i \in 1 .. n + 1, NEW j \in 1 .. n + 1,
                        r.out[i].pre = r.out[j].pre, r.out[i].key = r.out[j].key PROVE i = j
      BY <1>6 DEF Distinct
    <2>1. CASE i \in 1 .. n /\ j \in 1 .. n
      BY <1>6, <2>1 DEF AllNoted, Distinct
    <2>2. CASE i = n + 1 /\ j \in 1 .. n
      BY <1>4, <1>6, <1>7, <2>2
    <2>3. CASE i \in 1 .. n /\ j = n + 1
      BY <1>4, <1>6, <1>7, <2>3
    <2>4. i \in 1 .. n \/ i = n + 1
      OBVIOUS
    <2>5. j \in 1 .. n \/ j = n + 1
      OBVIOUS
    <2> QED BY <2>1, <2>2, <2>3, <2>4, <2>5
  <1>9. ASSUME NEW i \in DOMAIN r.out PROVE <<r.out[i].pre, r.out[i].key>> \in r.seen
    <2>1. i \in 1 .. n \/ i = n + 1
      BY <1>6
    <2> QED BY <1>3, <1>4, <1>6, <1>7, <2>1
  <1> QED BY <1>2, <1>3, <1>6, <1>8, <1>9 DEF AllNoted

\* The count and the number tried last do not matter.
LEMMA OthersKeep ==
  ASSUME NEW o, AllNoted(o), NEW v
  PROVE  AllNoted([o EXCEPT !.loop = v]) /\ AllNoted([o EXCEPT !.error = v])
  <1>1. PICK q : q = [o EXCEPT !.loop = v]
    OBVIOUS
  <1>2. q = [out |-> o.out, seen |-> o.seen, loop |-> v, error |-> o.error]
    BY <1>1 DEF AllNoted
  <1>3. PICK r : r = [o EXCEPT !.error = v]
    OBVIOUS
  <1>4. r = [out |-> o.out, seen |-> o.seen, loop |-> o.loop, error |-> v]
    BY <1>3 DEF AllNoted
  <1>5. AllNoted(q)
    BY <1>2 DEF AllNoted
  <1>6. AllNoted(r)
    BY <1>4 DEF AllNoted
  <1> QED BY <1>1, <1>3, <1>5, <1>6

LEMMA FormatWordKeeps ==
  ASSUME NEW o, AllNoted(o), NEW w, NEW must \in Nat PROVE AllNoted(FormatWord(o, w, must))
  <1> DEFINE key   == Normal(w.value)
             half  == must \div 2
             New(k) == Decimal(must + o.loop + k)
             free   == {k \in 0 .. half - 1 : <<New(k), key>> \notin o.seen}
             first  == CHOOSE k \in free : \A j \in free : k <= j
             tried  == o.loop + (IF free = {} THEN half ELSE first + 1)
             Tried(q) == [q EXCEPT !.loop = IF tried > half THEN 0 ELSE tried]
             Refused == [o EXCEPT !.error = @ + 1]
  <1>1. AllNoted(Refused) /\ AllNoted(Tried(Refused))
    <2>1. AllNoted(Refused)
      BY OthersKeep
    <2> HIDE DEF Refused, tried
    <2> QED BY <2>1, OthersKeep
  <1>2. <<w.pre, key>> \notin o.seen => AllNoted(Noted(Out(o, w, w.pre, key), <<w.pre, key>>))
    <2> HIDE DEF key
    <2> QED BY NotedKeeps
  <1>3. free # {} => AllNoted(Tried(Noted(Out(o, w, New(first), key), <<New(first), key>>)))
    <2> SUFFICES ASSUME free # {} PROVE AllNoted(Tried(Noted(Out(o, w, New(first), key), <<New(first), key>>)))
      OBVIOUS
    <2>1. free \subseteq Nat
      OBVIOUS
    <2>2. \E k \in free : \A j \in free : k <= j
      <3> HIDE DEF free
      <3> QED BY <2>1, LeastNumber
    <2>3. first \in free
      <3> HIDE DEF free
      <3> QED BY <2>2
    <2>4. <<New(first), key>> \notin o.seen
      <3> HIDE DEF first, New, key
      <3> QED BY <2>3
    <2> HIDE DEF New, first, key, free, tried
    <2>5. AllNoted(Noted(Out(o, w, New(first), key), <<New(first), key>>))
      BY <2>4, NotedKeeps
    <2> QED BY <2>5, OthersKeep
  <1>4. FormatWord(o, w, must) =
          IF Len(key) < 2 THEN Refused
          ELSE IF <<w.pre, key>> \notin o.seen THEN Noted(Out(o, w, w.pre, key), <<w.pre, key>>)
          ELSE IF must = 0 THEN Refused
          ELSE IF free = {} THEN Tried(Refused)
          ELSE Tried(Noted(Out(o, w, New(first), key), <<New(first), key>>))
    BY DEF FormatWord
  <1> HIDE DEF key, half, New, free, first, tried, Tried, Refused
  <1> QED BY <1>1, <1>2, <1>3, <1>4

NothingFormatted == [out |-> <<>>, seen |-> {}, loop |-> 0, error |-> 0]

\* What is made of the first m words.
IsFormatted(r, m, words0, must) ==
  r = [i \in 0 .. m |-> IF i = 0 THEN NothingFormatted ELSE FormatWord(r[i - 1], words0[i], must)]

LEMMA FormattedUpTo ==
  ASSUME NEW words0, Len(words0) \in Nat, NEW must
  PROVE  \E r : IsFormatted(r, Len(words0), words0, must)
  <1>1. PICK n \in Nat : n = Len(words0)
    OBVIOUS
  <1>2. PICK S : S = {m \in 0 .. n : \E r : IsFormatted(r, m, words0, must)}
    OBVIOUS
  <1>3. 0 \in S
    <2>1. IsFormatted([i \in 0 .. 0 |-> NothingFormatted], 0, words0, must)
      BY DEF IsFormatted
    <2> QED BY <1>2, <2>1
  <1>4. ASSUME NEW m \in 0 .. n - 1, m \in S PROVE m + 1 \in S
    <2>1. PICK r : IsFormatted(r, m, words0, must)
      BY <1>2, <1>4
    <2>2. PICK q : q = [i \in 0 .. m + 1 |-> IF i = m + 1 THEN FormatWord(r[m], words0[m + 1], must) ELSE r[i]]
      OBVIOUS
    <2>3. ASSUME NEW i \in 0 .. m + 1
          PROVE  q[i] = IF i = 0 THEN NothingFormatted ELSE FormatWord(q[i - 1], words0[i], must)
      <3>1. CASE i = m + 1
        <4>1. i # 0 /\ i - 1 = m /\ q[m] = r[m] /\ q[i] = FormatWord(r[m], words0[m + 1], must)
          BY <2>2, <3>1
        <4> QED BY <3>1, <4>1
      <3>2. CASE i # m + 1
        <4>1. i \in 0 .. m /\ q[i] = r[i]
          BY <2>2, <3>2
        <4>2. i # 0 => i - 1 \in 0 .. m /\ q[i - 1] = r[i - 1]
          BY <2>2, <4>1
        <4>3. r[i] = IF i = 0 THEN NothingFormatted ELSE FormatWord(r[i - 1], words0[i], must)
          BY <2>1, <4>1 DEF IsFormatted
        <4> QED BY <4>1, <4>2, <4>3
      <3> QED BY <3>1, <3>2
    <2>4. IsFormatted(q, m + 1, words0, must)
      BY <2>2, <2>3 DEF IsFormatted
    <2> QED BY <1>2, <2>4
  <1>5. \A i \in 0 .. n : i \in S
    <2>1. \A i \in 0 .. n - 1 : i \in S => i + 1 \in S
      BY <1>4
    <2> QED BY <1>3, <2>1, UpTo
  <1>6. n \in S
    BY <1>5
  <1> QED BY <1>1, <1>2, <1>6

\* isformat writes no two lines with the same prefix and key.
LEMMA FormatFileKeeps ==
  ASSUME NEW words0, Len(words0) \in Nat, NEW must \in Nat
  PROVE  IsSeq(FormatFile(words0, must).out) /\ Distinct(FormatFile(words0, must).out)
  <1>1. PICK n \in Nat : n = Len(words0)
    OBVIOUS
  <1>2. PICK r : IsFormatted(r, n, words0, must) /\ FormatFile(words0, must) = r[n]
    <2> DEFINE f == CHOOSE r : IsFormatted(r, n, words0, must)
    <2>1. FormatFile(words0, must) = f[n]
      BY <1>1 DEF FormatFile, FoldLines, IsFormatted, NothingFormatted
    <2>2. IsFormatted(f, n, words0, must)
      BY <1>1, FormattedUpTo
    <2> QED BY <2>1, <2>2
  <1>3. PICK S : S = {m \in 0 .. n : AllNoted(r[m])}
    OBVIOUS
  <1>4. 0 \in S
    <2>1. r[0] = NothingFormatted
      BY <1>2 DEF IsFormatted
    <2>2. AllNoted(NothingFormatted)
      BY DEF AllNoted, NothingFormatted, IsSeq, Distinct
    <2> QED BY <1>3, <2>1, <2>2
  <1>5. ASSUME NEW m \in 0 .. n - 1, m \in S PROVE m + 1 \in S
    <2>1. AllNoted(r[m])
      BY <1>3, <1>5
    <2>2. r[m + 1] = FormatWord(r[m], words0[m + 1], must)
      BY <1>2 DEF IsFormatted
    <2>3. AllNoted(r[m + 1])
      BY <2>1, <2>2, FormatWordKeeps
    <2> QED BY <1>3, <2>3
  <1>6. \A i \in 0 .. n : i \in S
    <2>1. \A i \in 0 .. n - 1 : i \in S => i + 1 \in S
      BY <1>5
    <2> QED BY <1>4, <2>1, UpTo
  <1>7. n \in S
    BY <1>6
  <1> QED BY <1>2, <1>3, <1>7 DEF AllNoted

-----------------------------------------------------------------------------
(***************************************************************************)
(* The steps of the builder on the directory: none of them touches the     *)
(* dictionaries.                                                           *)
(***************************************************************************)
DirOK(f) == {"dict", "data", "ok"} \subseteq DOMAIN f /\ CHINESE \in DOMAIN f.dict /\ CHINESE \in DOMAIN f.data

\* g has the dictionaries of f.
SameDict(f, g) == DOMAIN g = DOMAIN f /\ g.dict = f.dict /\ DOMAIN g.data = DOMAIN f.data

LEMMA SameDictIs ==
  /\ \A f : SameDict(f, f)
  /\ \A f, g, h : SameDict(f, g) /\ SameDict(g, h) => SameDict(f, h)
  /\ \A f, g : DirOK(f) /\ SameDict(f, g) => DirOK(g)
  BY DEF SameDict, DirOK

LEMMA CrashSame ==
  ASSUME NEW f, DirOK(f) PROVE SameDict(f, Crash(f)) /\ ~Crash(f).ok
  BY DEF DirOK, SameDict, Crash

LEMMA OneIndexSame ==
  ASSUME NEW f, DirOK(f), NEW t, NEW base, NEW keep, NEW o
  PROVE  SameDict(f, OneIndex(f, t, base, keep, o))
  <1>1. ASSUME NEW e, NEW d, NEW i
        PROVE  SameDict(f, [f EXCEPT !.extra[base] = e, !.data[base] = d, !.idtoid[t] = i])
    BY DEF DirOK, SameDict
  <1> QED BY <1>1, CrashSame DEF OneIndex

LEMMA CreateOneIndexSame ==
  ASSUME NEW f, DirOK(f), NEW sel, NEW t, NEW pos
  PROVE  SameDict(f, CreateOneIndex(f, sel, t, pos))
  <1>1. SameDict(f, f) /\ SameDict(f, Crash(f))
    BY SameDictIs, CrashSame
  <1>2. SameDict(f, [f EXCEPT !.data[CHINESE] = Chinese1(f.dict[t], pos)])
    BY DEF DirOK, SameDict
  <1>3. \A base, keep, o : SameDict(f, OneIndex(f, t, base, keep, o))
    BY OneIndexSame
  <1>4. PICK base, keep, extra :
          CreateOneIndex(f, sel, t, pos) \in
            {f, Crash(f), [f EXCEPT !.data[CHINESE] = Chinese1(f.dict[t], pos)],
             OneIndex(f, t, base, keep, Chinese3(t, f, extra)), OneIndex(f, t, base, keep, Chinese2(t, f, extra, pos))}
    BY DEF CreateOneIndex
  <1> QED BY <1>1, <1>2, <1>3, <1>4

LEMMA FourIndexesSame ==
  ASSUME NEW f, DirOK(f), NEW sel, NEW base, NEW center, NEW pos
  PROVE  SameDict(f, FourIndexes(f, sel, base, center, pos))
  <1> DEFINE One(g, t) == CreateOneIndex(g, sel, t, pos)
             f1 == One(f, base)
             f2 == One(f1, EX(base))
             f3 == One(f2, center)
             f4 == One(f3, EX(center))
  <1>1. \A g, t : DirOK(g) => SameDict(g, One(g, t)) /\ DirOK(One(g, t))
    BY CreateOneIndexSame, SameDictIs
  <1>2. FourIndexes(f, sel, base, center, pos) = f4
    BY DEF FourIndexes
  <1> HIDE DEF One
  <1>3. SameDict(f, f1) /\ DirOK(f1)
    BY <1>1
  <1> HIDE DEF f1
  <1>4. SameDict(f1, f2) /\ DirOK(f2)
    BY <1>1, <1>3
  <1> HIDE DEF f2
  <1>5. SameDict(f2, f3) /\ DirOK(f3)
    BY <1>1, <1>4
  <1> HIDE DEF f3
  <1>6. SameDict(f3, f4)
    BY <1>1, <1>5
  <1> HIDE DEF f4
  <1> QED BY <1>2, <1>3, <1>4, <1>5, <1>6, SameDictIs

LEMMA BasicInfoSame ==
  ASSUME NEW f, DirOK(f), NEW sel PROVE SameDict(f, BasicInfo(f, sel))
  <1>1. ASSUME NEW s PROVE SameDict(f, BasicInfo_Chinese(f, s))
    <2>1. PICK o : o = AnlyInfo_Inside(f.dict[CHINESE])
      OBVIOUS
    <2>2. PICK f1 : f1 = [f EXCEPT !.string["chinese"] = o.out, !.extra[CHINESE] = o.extra]
      OBVIOUS
    <2>3. SameDict(f, f1) /\ DirOK(f1)
      BY <2>2 DEF SameDict, DirOK
    <2>4. SameDict(f, FourIndexes(f1, s, CHINESE, CENTER_CHINESE, o.pos))
      BY <2>3, FourIndexesSame, SameDictIs
    <2> QED BY <2>1, <2>2, <2>4, CrashSame DEF BasicInfo_Chinese
  <1>2. ASSUME NEW g, DirOK(g), NEW kind, NEW base, NEW center
        PROVE  SameDict(g, BasicInfo_Other(g, sel, kind, base, center))
    <2>1. PICK from : from = StringSource(sel, base, center)
      OBVIOUS
    <2>2. PICK o : o = AnlyInfo(g.dict[from])
      OBVIOUS
    <2>3. PICK f1 : f1 = [g EXCEPT !.string[kind] = o.out]
      OBVIOUS
    <2>4. SameDict(g, f1) /\ DirOK(f1)
      BY <1>2, <2>3 DEF SameDict, DirOK
    <2>5. SameDict(g, FourIndexes(f1, sel, base, center, o.pos))
      BY <2>4, FourIndexesSame, SameDictIs
    <2> QED BY <1>2, <2>1, <2>2, <2>3, <2>5, CrashSame, SameDictIs DEF BasicInfo_Other
  <1>3. PICK g : g = BasicInfo_Chinese(f, sel \cup {CHINESE})
    OBVIOUS
  <1>4. PICK h : h = BasicInfo_Other(g, sel, "spell", SPELL, CENTER_SPELL)
    OBVIOUS
  <1>5. SameDict(f, g) /\ DirOK(g)
    BY <1>1, <1>3, SameDictIs
  <1>6. SameDict(g, h) /\ DirOK(h)
    BY <1>2, <1>4, <1>5, SameDictIs
  <1>7. SameDict(h, BasicInfo_Other(h, sel, "simple", SIMPLE, CENTER_SIMPLE))
    BY <1>2, <1>6
  <1> QED BY <1>3, <1>4, <1>5, <1>6, <1>7, SameDictIs DEF BasicInfo

\* The second half of the builder touches neither the dictionaries nor the node data.
SameData(f, g) == SameDict(f, g) /\ g.data = f.data

LEMMA StoredSame ==
  ASSUME NEW f, DirOK(f), NEW mode, NEW t, NEW o
  PROVE  SameData(f, Stored(f, mode, t, o)) /\ Stored(f, mode, t, o).ok = f.ok
  <1>1. PICK tree, mix : /\ tree = [size |-> o.total, node |-> o.node]
                         /\ mix = IF mode # 0 THEN Size(Number(4) \o o.ss) ELSE f.mix[t]
    OBVIOUS
  <1>2. PICK g : g = Stored(f, mode, t, o)
    OBVIOUS
  <1>3. g = [f EXCEPT !.tree[t] = tree, !.mix[t] = mix]
    BY <1>1, <1>2 DEF Stored
  <1> QED BY <1>2, <1>3 DEF DirOK, SameData, SameDict

LEMMA WriteTreeNodeSame ==
  ASSUME NEW f, DirOK(f), NEW sel, NEW t, NEW c
  PROVE  SameData(f, WriteTreeNode(f, sel, t, c)) /\ WriteTreeNode(f, sel, t, c).ok = f.ok
  <1>1. PICK mode : mode = HasMixSearch(sel, t)
    OBVIOUS
  <1>2. PICK o : o = Do_WriteTreeNode(c, mode, c.t.h[0].mid, RootSize(c.t.h[c.t.h[0].mid]), Len(Number(4)))
    OBVIOUS
  <1>3. PICK mix : mix = IF mode # 0 THEN <<>> ELSE f.mix[t]
    OBVIOUS
  <1>4. CASE c.t.h[0].mid = 0
    <2>1. PICK g : g = WriteTreeNode(f, sel, t, c)
      OBVIOUS
    <2>2. g = [f EXCEPT !.tree[t] = [size |-> 4, node |-> <<>>], !.mix[t] = mix]
      BY <1>1, <1>3, <1>4, <2>1 DEF WriteTreeNode
    <2> QED BY <2>1, <2>2 DEF DirOK, SameData, SameDict
  <1>5. CASE c.t.h[0].mid # 0
    <2>1. WriteTreeNode(f, sel, t, c) = Stored(f, mode, t, o)
      BY <1>1, <1>2, <1>5 DEF WriteTreeNode
    <2> QED BY <2>1, StoredSame
  <1> QED BY <1>4, <1>5

LEMMA BuildTreesSame ==
  ASSUME NEW g, DirOK(g.f), NEW sel, NEW t
  PROVE  SameData(g.f, BuildTrees(g, sel, t).f) /\ (BuildTrees(g, sel, t).f.ok => g.f.ok)
  <1>1. SameData(g.f, g.f)
    BY DEF SameData, SameDict
  <1>2. SameData(g.f, Crash(g.f)) /\ ~Crash(g.f).ok
    BY CrashSame DEF SameData, DirOK, Crash
  <1>3. ASSUME NEW c, g.f.ok PROVE SameData(g.f, Written(g.f, sel, t, c).f)
    <2>1. PICK m : m = [peer |-> IF t \in SpellTree THEN MarkHavePeerInfo(c.t.h) ELSE {}] @@ c
      OBVIOUS
    <2>2. Written(g.f, sel, t, c).f = IF c.ok THEN WriteTreeNode(g.f, sel, t, m) ELSE Crash(g.f)
      BY <2>1 DEF Written
    <2> QED BY <1>2, <2>2, WriteTreeNodeSame
  <1> QED BY <1>1, <1>3 DEF BuildTrees

TreeTypes == [i \in 1 .. DICT_MAX_SIZE |-> i - 1]

\* What is made when m trees have been looked at.
IsTreeing(r, m, f, sel) ==
  r = [i \in 0 .. m |-> IF i = 0 THEN [f |-> f, prefix |-> -1] ELSE BuildTrees(r[i - 1], sel, TreeTypes[i])]

LEMMA TreeingUpTo == ASSUME NEW f, NEW sel, NEW n \in Nat PROVE \E r : IsTreeing(r, n, f, sel)
  <1>1. PICK S : S = {m \in 0 .. n : \E r : IsTreeing(r, m, f, sel)}
    OBVIOUS
  <1>2. 0 \in S
    <2>1. IsTreeing([i \in 0 .. 0 |-> [f |-> f, prefix |-> -1]], 0, f, sel)
      BY DEF IsTreeing
    <2> QED BY <1>1, <2>1
  <1>3. ASSUME NEW m \in 0 .. n - 1, m \in S PROVE m + 1 \in S
    <2>1. PICK r : IsTreeing(r, m, f, sel)
      BY <1>1, <1>3
    <2>2. PICK q : q = [i \in 0 .. m + 1 |-> IF i = m + 1 THEN BuildTrees(r[m], sel, TreeTypes[m + 1]) ELSE r[i]]
      OBVIOUS
    <2>3. ASSUME NEW i \in 0 .. m + 1
          PROVE  q[i] = IF i = 0 THEN [f |-> f, prefix |-> -1] ELSE BuildTrees(q[i - 1], sel, TreeTypes[i])
      <3>1. CASE i = m + 1
        <4>1. i # 0 /\ i - 1 = m /\ q[m] = r[m] /\ q[i] = BuildTrees(r[m], sel, TreeTypes[m + 1])
          BY <2>2, <3>1
        <4> QED BY <3>1, <4>1
      <3>2. CASE i # m + 1
        <4>1. i \in 0 .. m /\ q[i] = r[i]
          BY <2>2, <3>2
        <4>2. i # 0 => i - 1 \in 0 .. m /\ q[i - 1] = r[i - 1]
          BY <2>2, <4>1
        <4>3. r[i] = IF i = 0 THEN [f |-> f, prefix |-> -1] ELSE BuildTrees(r[i - 1], sel, TreeTypes[i])
          BY <2>1, <4>1 DEF IsTreeing
        <4> QED BY <4>1, <4>2, <4>3
      <3> QED BY <3>1, <3>2
    <2>4. IsTreeing(q, m + 1, f, sel)
      BY <2>2, <2>3 DEF IsTreeing
    <2> QED BY <1>1, <2>4
  <1>4. \A i \in 0 .. n : i \in S
    <2>1. \A i \in 0 .. n - 1 : i \in S => i + 1 \in S
      BY <1>3
    <2> QED BY <1>2, <2>1, UpTo
  <1>5. n \in S
    BY <1>4
  <1> QED BY <1>1, <1>5

LEMMA TreeInfoSame ==
  ASSUME NEW f, DirOK(f), NEW sel PROVE SameData(f, TreeInfo(f, sel))
  <1>1. PICK n \in Nat : n = DICT_MAX_SIZE
    BY DEF DICT_MAX_SIZE
  <1>2. Len(TreeTypes) = n
    BY <1>1 DEF TreeTypes
  <1>3. PICK r : IsTreeing(r, n, f, sel) /\ TreeInfo(f, sel) = r[n].f
    <2> DEFINE g == CHOOSE r : IsTreeing(r, n, f, sel)
    <2>1. TreeInfo(f, sel) = g[n].f
      BY <1>2 DEF TreeInfo, FoldLines, IsTreeing, TreeTypes
    <2>2. IsTreeing(g, n, f, sel)
      BY TreeingUpTo
    <2> QED BY <2>1, <2>2
  <1>4. PICK S : S = {m \in 0 .. n : SameData(f, r[m].f)}
    OBVIOUS
  <1>5. 0 \in S
    BY <1>3, <1>4 DEF IsTreeing, SameData, SameDict
  <1>6. ASSUME NEW m \in 0 .. n - 1, m \in S PROVE m + 1 \in S
    <2>1. SameData(f, r[m].f) /\ DirOK(r[m].f)
      BY <1>4, <1>6, SameDictIs DEF SameData
    <2>2. r[m + 1] = BuildTrees(r[m], sel, TreeTypes[m + 1])
      BY <1>3 DEF IsTreeing
    <2>3. SameData(r[m].f, r[m + 1].f)
      BY <2>1, <2>2, BuildTreesSame
    <2>4. SameData(f, r[m + 1].f)
      BY <2>1, <2>3, SameDictIs DEF SameData
    <2> QED BY <1>4, <2>4
  <1>7. \A i \in 0 .. n : i \in S
    <2>1. \A i \in 0 .. n - 1 : i \in S => i + 1 \in S
      BY <1>6
    <2> QED BY <1>5, <2>1, UpTo
  <1>8. n \in S
    BY <1>7
  <1> QED BY <1>3, <1>4, <1>8

LEMMA DeleteItemSame ==
  ASSUME NEW f, DirOK(f), NEW d PROVE SameDict(f, DeleteItem(f, d))
  <1>1. ASSUME NEW v PROVE SameDict(f, [f EXCEPT !.data[CHINESE] = v])
    BY DEF DirOK, SameDict
  <1> QED BY <1>1 DEF DeleteItem

-----------------------------------------------------------------------------
(***************************************************************************)
(* What is given and the dictionary that is made of it, in every state.    *)
(***************************************************************************)
FormattedInv ==
  /\ IsSeq(words) /\ IsSeq(del) /\ selected \subseteq SelectTree
  /\ DirOK(dir)
  /\ IsSeq(dir.dict[CHINESE]) /\ Distinct(dir.dict[CHINESE])

LEMMA GivenIsSeq == \A in \in Inputs : IsSeq(in.words) /\ IsSeq(in.del) /\ in.sel \subseteq SelectTree
  BY IndexBuildAssumption, SeqIsSeq DEF IndexBuildAssumption

LEMMA SameKeepsFormatted ==
  ASSUME FormattedInv, UNCHANGED givenVars, SameDict(dir, dir') PROVE FormattedInv'
  <1>1. dir'.dict = dir.dict /\ DirOK(dir')
    BY SameDictIs DEF FormattedInv, SameDict
  <1> QED BY <1>1 DEF FormattedInv, givenVars

LEMMA EmptyDirectoryOK == DirOK(EmptyDirectory) /\ EmptyDirectory.dict[CHINESE] = <<>>
  BY DEF DirOK, EmptyDirectory, NoFiles, NoFile, CHINESE, SelectTree, Base

LEMMA FormattedInit == BuildInit => FormattedInv
  BY EmptyDirectoryOK, GivenIsSeq DEF BuildInit, FormattedInv, IsSeq, Distinct

LEMMA FormattedStep == ASSUME FormattedInv, [BuildNext]_buildVars PROVE FormattedInv'
  <1>1. ASSUME NEW in \in Inputs, Feed(in) PROVE FormattedInv'
    BY <1>1, GivenIsSeq DEF Feed, FormattedInv
  <1>2. ASSUME NEW programs, Runs(programs) PROVE FormattedInv'
    <2>1. SameDict(dir, dir')
      BY <1>2 DEF Runs, FormattedInv, DirOK, SameDict
    <2> QED BY <1>2, <2>1, SameKeepsFormatted DEF Runs
  <1>3. CASE RunFormat
    <2>1. PICK list : list = FormatFile(words, mustWrite).out
      OBVIOUS
    <2>2. IsSeq(list) /\ Distinct(list)
      BY <2>1, FormatFileKeeps, IndexBuildAssumption DEF FormattedInv, IsSeq, IndexBuildAssumption
    <2>3. dir' = [dir EXCEPT !.dict[CHINESE] = list] /\ UNCHANGED givenVars
      BY <1>3, <2>1 DEF RunFormat, Step
    <2>4. DirOK(dir') /\ dir'.dict[CHINESE] = list
      BY <2>3 DEF FormattedInv, DirOK
    <2> QED BY <2>2, <2>3, <2>4 DEF FormattedInv, givenVars
  <1>4. CASE CreateDict
    <2>1. dir' = [dir EXCEPT !.dict = CreateAllDict(@, selected)] /\ UNCHANGED givenVars
      BY <1>4 DEF CreateDict, Step
    <2>2. CHINESE \in SelectTree
      BY DEF SelectTree, Base
    <2>3. /\ CHINESE \in DOMAIN CreateAllDict(dir.dict, selected)
          /\ CreateAllDict(dir.dict, selected)[CHINESE] = dir.dict[CHINESE]
      BY <2>2 DEF CreateAllDict
    <2>4. DirOK(dir') /\ dir'.dict[CHINESE] = dir.dict[CHINESE]
      BY <2>1, <2>3 DEF FormattedInv, DirOK
    <2> QED BY <2>1, <2>4 DEF FormattedInv, givenVars
  <1>5. CASE Process_BasicInfo
    BY <1>5, BasicInfoSame, SameKeepsFormatted DEF Process_BasicInfo, Step, FormattedInv
  <1>6. CASE Process_TreeInfo
    BY <1>6, TreeInfoSame, SameKeepsFormatted DEF Process_TreeInfo, Step, FormattedInv, SameData
  <1>7. CASE Process_DeleteItem
    BY <1>7, DeleteItemSame, SameDictIs, SameKeepsFormatted DEF Process_DeleteItem, FormattedInv
  <1>8. CASE UNCHANGED dir /\ UNCHANGED givenVars
    BY <1>8, SameDictIs, SameKeepsFormatted
  <1>9. ASSUME NEW do, NEW rest, Dump(do, rest) PROVE FormattedInv'
    BY <1>9, <1>8 DEF Dump
  <1>10. CASE DumpOpen \/ DumpHeader \/ DumpFile \/ DumpEnd \/ Kill \/ Load \/ UNCHANGED buildVars
    BY <1>10, <1>8 DEF DumpOpen, DumpHeader, DumpFile, DumpEnd, Dump, Kill, Load, buildVars
  <1>11. CASE Make \/ \E mode \in 0 .. 4 : Start(mode)
    BY <1>11, <1>2 DEF Make, Start
  <1> QED BY <1>1, <1>3, <1>4, <1>5, <1>6, <1>7, <1>10, <1>11 DEF BuildNext

(***************************************************************************)
(* WordsAreUnique: whatever words are given, however often and under       *)
(* whatever prefixes, and whatever was made of them before, isformat       *)
(* writes no word twice with the same prefix and key.                      *)
(***************************************************************************)
THEOREM WordsStayUnique == BuildSpec => []WordsAreUnique
  <1>1. FormattedInv => WordsAreUnique
    BY DEF FormattedInv, Distinct, WordsAreUnique
  <1> QED BY <1>1, FormattedInit, FormattedStep, PTL DEF BuildSpec

-----------------------------------------------------------------------------
(***************************************************************************)
(* Whatever is asked, whatever the trees are like and however a category   *)
(* finds its nodes: a line that is taken is not marked in the node data of *)
(* one of the tasks it was looked for in.                                  *)
(***************************************************************************)
Clean(hits, data) == \A h \in hits : \E i \in DOMAIN data : DELETE \notin data[i][h[2] + 1].attr

LEMMA CollectIsClean ==
  ASSUME NEW trees, NEW data, NEW q, NEW found, DOMAIN found \subseteq DOMAIN data, NEW keyLen, NEW good
  PROVE  Clean(CollectResult(trees, data, q, found, keyLen, good), data)
  <1>1. ASSUME NEW i \in DOMAIN found, NEW x, NEW n, NEW u \in CollectNode(trees[i], data[i], x, n, good)
        PROVE  DELETE \notin data[i][u + 1].attr
    BY DEF CollectNode
  <1>2. ASSUME NEW h \in CollectResult(trees, data, q, found, keyLen, good)
        PROVE  \E i \in DOMAIN found : \E x, n : h[2] \in CollectNode(trees[i], data[i], x, n, good)
    BY DEF CollectResult
  <1> QED BY <1>1, <1>2 DEF Clean

LEMMA NothingIsClean == \A data : Clean(NothingFound.hits, data)
  BY DEF Clean, NothingFound

\* Nodes are found in trees that were given, if in any.
LEMMA FoundInTrees ==
  ASSUME NEW q, NEW trees
  PROVE  /\ DOMAIN FindMatchNode_Common(q, trees) \subseteq DOMAIN trees
         /\ DOMAIN FindMatchNode_NineGrid(q, trees) \subseteq DOMAIN trees
  <1>1. DOMAIN <<>> = {}
    OBVIOUS
  <1> QED BY <1>1 DEF FindMatchNode_Common, FindMatchNode_NineGrid

LEMMA FindStringsIsClean ==
  ASSUME NEW strings, NEW word, NEW trees, NEW data, DOMAIN strings \subseteq DOMAIN data, NEW q, NEW keyLen, NEW good
  PROVE  Clean(FindStrings(strings, word, trees, data, q, keyLen, good), data)
  <1> DEFINE Has(w) == {i \in DOMAIN strings : w \in strings[i]}
             Nodes(w) == FindMatchNode_Common([q EXCEPT !.key = w], [i \in Has(w) |-> trees[i]])
  <1>1. \A w : DOMAIN Nodes(w) \subseteq DOMAIN data
    BY FoundInTrees
  <1>2. ASSUME NEW h \in FindStrings(strings, word, trees, data, q, keyLen, good)
        PROVE  \E w : h \in CollectResult(trees, data, [q EXCEPT !.key = w], Nodes(w), keyLen, good)
    BY DEF FindStrings
  <1> HIDE DEF Nodes
  <1>3. \A w : Clean(CollectResult(trees, data, [q EXCEPT !.key = w], Nodes(w), keyLen, good), data)
    BY <1>1, CollectIsClean
  <1> QED BY <1>2, <1>3 DEF Clean

LEMMA MixedIsClean ==
  ASSUME NEW q, NEW trees, NEW to, NEW data, DOMAIN trees \subseteq DOMAIN data, NEW good
  PROVE  /\ Clean(FindMatchNode_MixedCS(q, trees, to, data, good).hits, data)
         /\ Clean(FindMatchNode_MixedSS(q, trees, to, data, good).hits, data)
  <1>1. ASSUME NEW spell, NEW word, NEW n, NEW found, DOMAIN found \subseteq DOMAIN data
        PROVE  Clean(MixedCS(spell, word, trees, to, data, n, good, found).hits, data)
    <2>1. DOMAIN WordsAt(trees, found, spell.key) = DOMAIN found
      BY DEF WordsAt
    <2>2. Clean(FindStrings(WordsAt(trees, found, spell.key), word, to, data, spell, n, good), data)
      BY <1>1, <2>1, FindStringsIsClean
    <2> QED BY <2>2, NothingIsClean DEF MixedCS
  <1>2. ASSUME NEW simple, NEW code, NEW tail, NEW found, DOMAIN found \subseteq DOMAIN data
        PROVE  Clean(MixedSS(q, simple, code, tail, trees, to, data, good, found).hits, data)
    <2>1. DOMAIN SpellingsAt(trees, found, simple, code, tail) = DOMAIN found
      BY DEF SpellingsAt
    <2>2. Clean(FindStrings(SpellingsAt(trees, found, simple, code, tail), <<>>, to, data, q, 0, good), data)
      BY <1>2, <2>1, FindStringsIsClean
    <2> QED BY <2>2, NothingIsClean DEF MixedSS
  <1>3. \A r : DOMAIN FindMatchNode_Common(r, trees) \subseteq DOMAIN data
    BY FoundInTrees
  <1>4. Clean(FindMatchNode_MixedCS(q, trees, to, data, good).hits, data)
    <2> DEFINE bar   == {i \in DOMAIN q.key : q.key[i] = BAR}
               cut   == CHOOSE i \in bar : \A j \in bar : i <= j
               spell == [q EXCEPT !.key = SubSeq(q.key, 1, cut - 1)]
               word  == SubSeq(q.key, cut + 1, Len(q.key))
    <2>1. FindMatchNode_MixedCS(q, trees, to, data, good) =
            IF bar = {} THEN NothingFound
            ELSE MixedCS(spell, word, trees, to, data, Len(q.key), good, FindMatchNode_Common(spell, trees))
      BY DEF FindMatchNode_MixedCS
    <2> HIDE DEF bar, cut, spell, word
    <2> QED BY <1>1, <1>3, <2>1, NothingIsClean
  <1>5. Clean(FindMatchNode_MixedSS(q, trees, to, data, good).hits, data)
    <2> DEFINE simple == FoldLines(LAMBDA r, c : IF IsLower(c) THEN r ELSE Append(r, ToLower(c)), <<>>, q.key)
               upper  == {i \in 2 .. Len(q.key) : IsUpper(q.key[i])}
               last   == IF upper = {} THEN 1 ELSE CHOOSE i \in upper : \A j \in upper : j <= i
               press  == CompressStr(Len(simple), SubSeq(q.key, 1, last))
               tail   == SubSeq(q.key, last + 1, Len(q.key))
    <2>1. FindMatchNode_MixedSS(q, trees, to, data, good) =
            IF ~press.ok THEN NothingFound
            ELSE MixedSS(q, simple, press.code, tail, trees, to, data, good,
                         FindMatchNode_Common([q EXCEPT !.key = simple], trees))
      BY DEF FindMatchNode_MixedSS
    <2> HIDE DEF simple, press, tail
    <2> QED BY <1>2, <1>3, <2>1, NothingIsClean
  <1> QED BY <1>4, <1>5

LEMMA SearchIsClean ==
  ASSUME NEW category, NEW all, NEW q, NEW trees, NEW to, NEW data, DOMAIN trees \subseteq DOMAIN data, NEW good
  PROVE  Clean(SearchCategory(category, all, q, trees, to, data, good).hits, data)
  <1>1. PICK r : r = IF all THEN [q EXCEPT !.pre = [i \in DOMAIN q.pre |-> 48]] ELSE q
    OBVIOUS
  <1> DEFINE Collected(found) == IF ~Matched(found) THEN NothingFound
                             ELSE [ret |-> TRUE, hits |-> CollectResult(trees, data, r, found, Len(q.key), good)]
  <1>2. ASSUME NEW found, DOMAIN found \subseteq DOMAIN data PROVE Clean(Collected(found).hits, data)
    BY <1>2, CollectIsClean, NothingIsClean
  <1>3. /\ DOMAIN FindMatchNode_Common(r, trees) \subseteq DOMAIN data
        /\ DOMAIN FindMatchNode_NineGrid(r, trees) \subseteq DOMAIN data
    BY FoundInTrees
  <1>4. SearchCategory(category, all, q, trees, to, data, good) \in
          {FindMatchNode_MixedSS(r, trees, to, data, good), FindMatchNode_MixedCS(r, trees, to, data, good),
           Collected(FindMatchNode_Common(r, trees)), Collected(FindMatchNode_NineGrid(r, trees))}
    BY <1>1 DEF SearchCategory
  <1> HIDE DEF Collected
  <1> QED BY <1>2, <1>3, <1>4, MixedIsClean

LEMMA AnswersAreClean ==
  ASSUME NEW list, NEW r, NEW left, NEW tasks, NEW c \in DOMAIN SearchEach(list, r, left, tasks),
         NEW h \in SearchEach(list, r, left, tasks)[c].hits
  PROVE  \E k \in DOMAIN tasks : DELETE \notin tasks[k].data[h[2] + 1].attr
  <1>1. ASSUME NEW S, S \subseteq DOMAIN tasks, NEW t, NEW u, NEW match, NEW all, NEW q, NEW good,
               h \in SearchCategory(match, all, q, [i \in S |-> tasks[i].tree[t]], [i \in S |-> tasks[i].tree[u]],
                                    [i \in S |-> tasks[i].data], good).hits
        PROVE  \E k \in DOMAIN tasks : DELETE \notin tasks[k].data[h[2] + 1].attr
    <2>1. PICK data : data = [i \in S |-> tasks[i].data]
      OBVIOUS
    <2>2. Clean(SearchCategory(match, all, q, [i \in S |-> tasks[i].tree[t]], [i \in S |-> tasks[i].tree[u]], data, good).hits, data)
      BY <2>1, SearchIsClean
    <2>3. PICK i \in DOMAIN data : DELETE \notin data[i][h[2] + 1].attr
      BY <1>1, <2>1, <2>2 DEF Clean
    <2> QED BY <1>1, <2>1, <2>3
  <1>2. h \notin NothingFound.hits
    BY DEF NothingFound
  <1> DEFINE own   == {i \in DOMAIN tasks : tasks[i].name \in {r.x, Second(r.x)}}
             every == IF r.p = <<>> THEN DOMAIN tasks \ own ELSE DOMAIN tasks
             Of(d) == IF d.all \/ Switch(r.mat) THEN every ELSE own
             flags == 0 .. NUMBER_MAX_FLAG_LIMIT
             good  == IF WithFlag(r) THEN {f \in flags : IsGoodFlag(r, left, f)} ELSE flags
             Take(t, S) == [i \in S |-> tasks[i].tree[t]]
             q(d)  == [pre |-> r.p, nul |-> ToInt(r.pns, 0, NUMBER_MAX_RETURN_LIMIT, 0), key |-> d.key, same |-> Switch(r.sl)]
             To(d) == IF d.match \in {MATCH_CATEGORY_MIXEDSS, MATCH_CATEGORY_MIXEDCS} THEN GetSpellTreeFromSimple(d.tree)
                      ELSE d.tree
             Search(d) == SearchCategory(d.match, d.all \/ r.p = <<>>, q(d), Take(d.tree, Of(d)), Take(To(d), Of(d)),
                                         [i \in Of(d) |-> tasks[i].data], good)
  <1>3. PICK d : SearchEach(list, r, left, tasks)[c] = IF ~d.all /\ Of(d) = {} THEN NothingFound ELSE Search(d)
    BY DEF SearchEach
  <1>4. Of(d) \subseteq DOMAIN tasks
    OBVIOUS
  <1>5. h \in Search(d).hits
    <2> HIDE DEF Search, Of
    <2> QED BY <1>2, <1>3
  <1> HIDE DEF Of, q, To, good
  <1> QED BY <1>1, <1>4, <1>5

-----------------------------------------------------------------------------
(***************************************************************************)
(* What the halves of the builder compute over lines and nodes, line by    *)
(* line and son by son, is out of the provers' reach: that the dictionary  *)
(* of the words over all tasks is a list, and that a file that is there    *)
(* begins with its size.                                                   *)
(***************************************************************************)
FilesAreWellMade ==
  /\ IsSeq(dir.dict[EX(CHINESE)])
  /\ Sized({Sections(dir, selected)[i] : i \in DOMAIN Sections(dir, selected)})

\* There is an entry of each line of dict.00, and an attribute in each of these.
Covers(lines, data) ==
  /\ lines # <<>> /\ IsSeq(data) /\ Len(lines) <= Len(data)
  /\ \A k \in 1 .. Len(lines) : "attr" \in DOMAIN data[k]

\* The entries of the lines that were named are marked.
Marked(lines, data, names) ==
  \A k \in DOMAIN lines : (\E d \in DOMAIN names : names[d] = <<lines[k].pre, lines[k].key>>) =>
    k \in DOMAIN data /\ DELETE \in data[k].attr

-----------------------------------------------------------------------------
\* CreateOneIndex_Chinese1 makes an entry of each line, those of extended trees are put after them.
LEMMA Chinese1Covers ==
  ASSUME NEW lines, IsSeq(lines), lines # <<>>, NEW pos PROVE Covers(lines, Chinese1(lines, pos))
  <1>1. PICK n \in Nat : n = Len(lines)
    BY DEF IsSeq
  <1>2. PICK data : data = Chinese1(lines, pos)
    OBVIOUS
  <1>3. /\ DOMAIN data = 1 .. n /\ data = [i \in 1 .. n |-> data[i]]
        /\ \A i \in 1 .. n : "attr" \in DOMAIN data[i]
    BY <1>1, <1>2 DEF Chinese1
  <1>4. Len(data) = n
    BY <1>3
  <1> QED BY <1>1, <1>2, <1>3, <1>4 DEF Covers, IsSeq

LEMMA AppendedCovers ==
  ASSUME NEW lines, IsSeq(lines), NEW data, Covers(lines, data), NEW more, IsSeq(more) PROVE Covers(lines, data \o more)
  <1>1. PICK n \in Nat : n = Len(lines)
    BY DEF IsSeq
  <1>2. PICK T : data \in Seq(T) /\ more \in Seq(T)
    <2>1. PICK T : T = {data[i] : i \in DOMAIN data} \cup {more[i] : i \in DOMAIN more}
      OBVIOUS
    <2>2. data \in Seq({data[i] : i \in DOMAIN data}) /\ more \in Seq({more[i] : i \in DOMAIN more})
      BY IsSeqIn DEF Covers
    <2>3. data \in Seq(T)
      BY <2>1, <2>2, SeqGrows
    <2>4. more \in Seq(T)
      BY <2>1, <2>2, SeqGrows
    <2> QED BY <2>3, <2>4
  <1>3. data \o more \in Seq(T) /\ Len(data \o more) = Len(data) + Len(more)
    BY <1>2
  <1>4. \A i \in 1 .. Len(data) : (data \o more)[i] = data[i]
    BY <1>2
  <1>5. Len(data) \in Nat /\ Len(more) \in Nat /\ n <= Len(data)
    BY <1>1, <1>2 DEF Covers
  <1>6. n <= Len(data \o more) /\ \A k \in 1 .. n : k \in 1 .. Len(data)
    BY <1>3, <1>5
  <1>7. IsSeq(data \o more)
    BY <1>3, SeqIsSeq
  <1> QED BY <1>1, <1>4, <1>6, <1>7 DEF Covers

\* What is made of the first m lines of another dictionary.
NothingEntered(extra) == [to |-> <<>>, data |-> <<>>, extra |-> extra]
IsEntering(r, m, extra, t, lines, base, at) ==
  r = [i \in 0 .. m |-> IF i = 0 THEN NothingEntered(extra)
                        ELSE AddEntry(r[i - 1], lines[i], t, base, at[lines[i]])]

LEMMA EnteringUpTo ==
  ASSUME NEW n \in Nat, NEW extra, NEW t, NEW lines, NEW base, NEW at
  PROVE  \E r : IsEntering(r, n, extra, t, lines, base, at)
  <1>1. PICK S : S = {m \in 0 .. n : \E r : IsEntering(r, m, extra, t, lines, base, at)}
    OBVIOUS
  <1>2. 0 \in S
    <2>1. IsEntering([i \in 0 .. 0 |-> NothingEntered(extra)], 0, extra, t, lines, base, at)
      BY DEF IsEntering
    <2> QED BY <1>1, <2>1
  <1>3. ASSUME NEW m \in 0 .. n - 1, m \in S PROVE m + 1 \in S
    <2>1. PICK r : IsEntering(r, m, extra, t, lines, base, at)
      BY <1>1, <1>3
    <2>2. PICK q : q = [i \in 0 .. m + 1 |-> IF i = m + 1 THEN AddEntry(r[m], lines[m + 1], t, base, at[lines[m + 1]])
                                             ELSE r[i]]
      OBVIOUS
    <2>3. ASSUME NEW i \in 0 .. m + 1
          PROVE  q[i] = IF i = 0 THEN NothingEntered(extra) ELSE AddEntry(q[i - 1], lines[i], t, base, at[lines[i]])
      <3>1. CASE i = m + 1
        <4>1. i # 0 /\ i - 1 = m /\ q[m] = r[m] /\ q[i] = AddEntry(r[m], lines[m + 1], t, base, at[lines[m + 1]])
          BY <2>2, <3>1
        <4> QED BY <3>1, <4>1
      <3>2. CASE i # m + 1
        <4>1. i \in 0 .. m /\ q[i] = r[i]
          BY <2>2, <3>2
        <4>2. i # 0 => i - 1 \in 0 .. m /\ q[i - 1] = r[i - 1]
          BY <2>2, <4>1
        <4>3. r[i] = IF i = 0 THEN NothingEntered(extra) ELSE AddEntry(r[i - 1], lines[i], t, base, at[lines[i]])
          BY <2>1, <4>1 DEF IsEntering
        <4> QED BY <4>1, <4>2, <4>3
      <3> QED BY <3>1, <3>2
    <2>4. IsEntering(q, m + 1, extra, t, lines, base, at)
      BY <2>2, <2>3 DEF IsEntering
    <2> QED BY <1>1, <2>4
  <1>4. \A i \in 0 .. n : i \in S
    <2>1. \A i \in 0 .. n - 1 : i \in S => i + 1 \in S
      BY <1>3
    <2> QED BY <1>2, <2>1, UpTo
  <1>5. n \in S
    BY <1>4
  <1> QED BY <1>1, <1>5

LEMMA EntriesAreASeq ==
  ASSUME NEW t, NEW f, IsSeq(f.dict[t]), NEW extra, NEW at PROVE IsSeq(Entries(t, f, extra, at).data)
  <1>1. PICK lines : lines = f.dict[t]
    OBVIOUS
  <1>2. PICK base : base = f.dict[SelectChangeFromEx(t)]
    OBVIOUS
  <1>3. PICK n \in Nat : n = Len(lines)
    BY <1>1 DEF IsSeq
  <1>4. PICK r : IsEntering(r, n, extra, t, lines, base, at) /\ Entries(t, f, extra, at) = [r[n] EXCEPT !.extra = Size(@)]
    <2> DEFINE g == CHOOSE r : IsEntering(r, n, extra, t, lines, base, at)
    <2>1. Entries(t, f, extra, at) = [g[n] EXCEPT !.extra = Size(@)]
      BY <1>1, <1>2, <1>3 DEF Entries, FoldLines, IsEntering, NothingEntered
    <2>2. IsEntering(g, n, extra, t, lines, base, at)
      BY EnteringUpTo
    <2> QED BY <2>1, <2>2
  <1>5. PICK S : S = {m \in 0 .. n : {"to", "data", "extra"} = DOMAIN r[m] /\ IsSeq(r[m].data)}
    OBVIOUS
  <1>6. 0 \in S
    <2>1. r[0] = NothingEntered(extra)
      BY <1>4 DEF IsEntering
    <2>2. IsSeq(<<>>)
      BY DEF IsSeq
    <2> QED BY <1>5, <2>1, <2>2 DEF NothingEntered
  <1>7. ASSUME NEW m \in 0 .. n - 1, m \in S PROVE m + 1 \in S
    <2>1. r[m + 1] = AddEntry(r[m], lines[m + 1], t, base, at[lines[m + 1]])
      <3>1. m + 1 \in 0 .. n /\ m + 1 # 0 /\ (m + 1) - 1 = m
        OBVIOUS
      <3>2. r[m + 1] = IF m + 1 = 0 THEN NothingEntered(extra)
                       ELSE AddEntry(r[(m + 1) - 1], lines[m + 1], t, base, at[lines[m + 1]])
        BY <1>4, <3>1 DEF IsEntering
      <3> QED BY <3>1, <3>2
    <2>2. {"to", "data", "extra"} = DOMAIN r[m] /\ IsSeq(r[m].data) /\ \A x : IsSeq(Append(r[m].data, x))
      BY <1>5, <1>7, AppendIsSeq
    <2>3. {"to", "data", "extra"} = DOMAIN r[m + 1]
      BY <2>1, <2>2 DEF AddEntry
    <2>4. IsSeq(r[m + 1].data)
      <3>1. CASE Joined(t, lines[m + 1], base)
        BY <2>1, <2>2, <3>1 DEF AddEntry
      <3>2. CASE ~Joined(t, lines[m + 1], base)
        <4>1. r[m + 1].data = Append(r[m].data, EntryOf(lines[m + 1], r[m].extra, at[lines[m + 1]]))
          BY <2>1, <3>2 DEF AddEntry
        <4> QED BY <2>2, <4>1
      <3> QED BY <3>1, <3>2
    <2> QED BY <1>5, <2>3, <2>4
  <1>8. \A i \in 0 .. n : i \in S
    <2>1. \A i \in 0 .. n - 1 : i \in S => i + 1 \in S
      BY <1>7
    <2> QED BY <1>6, <2>1, UpTo
  <1>9. n \in S
    BY <1>8
  <1> QED BY <1>4, <1>5, <1>9

\* Of a directory the builder goes on with, the node data of dict.00 has its entries.
Covered(f) == f.ok => Covers(f.dict[CHINESE], f.data[CHINESE])
Lists(f)   == DirOK(f) /\ IsSeq(f.dict[CHINESE]) /\ IsSeq(f.dict[EX(CHINESE)])

LEMMA SameKeepsLists == ASSUME NEW f, NEW g, Lists(f), SameDict(f, g) PROVE Lists(g)
  BY SameDictIs DEF Lists, SameDict

LEMMA CrashCovered == ASSUME NEW f, DirOK(f) PROVE Covered(Crash(f))
  BY CrashSame DEF Covered

LEMMA TreesOfChinese ==
  /\ {CHINESE, EX(CHINESE), CENTER_CHINESE, EX(CENTER_CHINESE), SPELL, EX(SPELL), CENTER_SPELL, EX(CENTER_SPELL),
      SIMPLE, EX(SIMPLE), CENTER_SIMPLE, EX(CENTER_SIMPLE)} = SelectTree
  /\ \A t \in SelectTree : SelectChangeFromEx(t) = CHINESE => t = CHINESE \/ t = EX(CHINESE)
  /\ EX(CHINESE) \notin Base /\ CHINESE \in SelectTree /\ SelectTree \subseteq Nat
  BY DEF SelectTree, Base, SelectChangeFromEx, EX, CHINESE, SPELL, SIMPLE, CENTER_CHINESE, CENTER_SPELL, CENTER_SIMPLE

LEMMA OneIndexCovers ==
  ASSUME NEW f, Lists(f), Covered(f), NEW t, NEW base, NEW keep, NEW o,
         base = CHINESE => keep /\ IsSeq(o.data)
  PROVE  Covered(OneIndex(f, t, base, keep, o))
  <1>1. PICK d : d = IF keep THEN f.data[base] \o o.data ELSE IF o.data # <<>> THEN o.data ELSE f.data[base]
    OBVIOUS
  <1>2. PICK i : i = IF t \in Base THEN f.idtoid[t] ELSE o.to
    OBVIOUS
  <1>3. PICK g : g = [f EXCEPT !.extra[base] = o.extra, !.data[base] = d, !.idtoid[t] = i]
    OBVIOUS
  <1>4. /\ g.ok = f.ok /\ g.dict = f.dict
        /\ base # CHINESE => g.data[CHINESE] = f.data[CHINESE]
        /\ base = CHINESE => g.data[CHINESE] = d
    BY <1>3 DEF Lists, DirOK
  <1>5. Covered(g)
    <2> SUFFICES ASSUME f.ok PROVE Covers(f.dict[CHINESE], g.data[CHINESE])
      BY <1>4 DEF Covered
    <2>1. Covers(f.dict[CHINESE], f.data[CHINESE])
      BY DEF Covered
    <2>2. CASE base = CHINESE
      <3>1. g.data[CHINESE] = f.data[CHINESE] \o o.data
        BY <1>1, <1>4, <2>2
      <3>2. IsSeq(o.data)
        BY <2>2
      <3> QED BY <2>1, <3>1, <3>2, AppendedCovers DEF Lists
    <2>3. CASE base # CHINESE
      BY <1>4, <2>1, <2>3
    <2> QED BY <2>2, <2>3
  <1>6. OneIndex(f, t, base, keep, o) \in {Crash(f), g}
    BY <1>1, <1>2, <1>3 DEF OneIndex
  <1> QED BY <1>5, <1>6, CrashCovered DEF Lists

LEMMA CreateOneIndexCovers ==
  ASSUME NEW f, Lists(f), NEW sel, NEW t \in SelectTree, NEW pos, t # CHINESE => Covered(f)
  PROVE  Covered(CreateOneIndex(f, sel, t, pos))
  <1>1. PICK base : base = SelectChangeFromEx(t)
    OBVIOUS
  <1>2. PICK keep : keep = (t \notin Base /\ (base \in sel \/ base = CHINESE))
    OBVIOUS
  <1>3. PICK lines : lines = f.dict[t]
    OBVIOUS
  <1>4. PICK extra : extra = IF keep THEN f.extra[base] ELSE Number(4)
    OBVIOUS
  <1>5. CreateOneIndex(f, sel, t, pos) =
          IF ~f.ok \/ (t \notin sel /\ t # CHINESE) THEN f
          ELSE IF lines = <<>> \/ (t \notin Base /\ f.dict[base] = <<>>) THEN Crash(f)
          ELSE IF t = CHINESE THEN [f EXCEPT !.data[CHINESE] = Chinese1(lines, pos)]
          ELSE IF base = CENTER_CHINESE THEN OneIndex(f, t, base, keep, Chinese3(t, f, extra))
          ELSE OneIndex(f, t, base, keep, Chinese2(t, f, extra, pos))
    BY <1>1, <1>2, <1>3, <1>4 DEF CreateOneIndex
  <1>6. Covered(Crash(f)) /\ (~f.ok => Covered(f))
    BY CrashCovered DEF Covered, Lists
  <1>7. CASE t = CHINESE
    <2>1. lines # <<>> => Covered([f EXCEPT !.data[CHINESE] = Chinese1(lines, pos)])
      <3> SUFFICES ASSUME lines # <<>> PROVE Covered([f EXCEPT !.data[CHINESE] = Chinese1(lines, pos)])
        OBVIOUS
      <3>1. Covers(f.dict[CHINESE], Chinese1(lines, pos))
        BY <1>3, <1>7, Chinese1Covers DEF Lists
      <3>2. PICK c : c = Chinese1(lines, pos)
        OBVIOUS
      <3>3. [f EXCEPT !.data[CHINESE] = c].dict = f.dict /\ [f EXCEPT !.data[CHINESE] = c].data[CHINESE] = c
        BY DEF Lists, DirOK
      <3> QED BY <3>1, <3>2, <3>3 DEF Covered
    <2> QED BY <1>5, <1>6, <1>7, <2>1
  <1>8. CASE t # CHINESE
    <2>1. Covered(f)
      BY <1>8
    <2>2. Covered(OneIndex(f, t, base, keep, Chinese3(t, f, extra))) \/ base # CENTER_CHINESE
      <3>1. base = CENTER_CHINESE => base # CHINESE
        BY DEF CENTER_CHINESE, CHINESE
      <3> QED BY <2>1, <3>1, OneIndexCovers
    <2>3. Covered(OneIndex(f, t, base, keep, Chinese2(t, f, extra, pos)))
      <3>1. ASSUME base = CHINESE PROVE keep /\ IsSeq(Chinese2(t, f, extra, pos).data)
        <4>1. t = EX(CHINESE) /\ t \notin Base
          <5>1. t \in SelectTree /\ SelectChangeFromEx(t) = CHINESE
            BY <1>1, <3>1
          <5>2. t = CHINESE \/ t = EX(CHINESE)
            BY <5>1, TreesOfChinese
          <5> QED BY <1>8, <5>2, TreesOfChinese
        <4>2. IsSeq(f.dict[t])
          BY <4>1 DEF Lists
        <4> QED BY <1>2, <3>1, <4>1, <4>2, EntriesAreASeq DEF Chinese2
      <3> QED BY <2>1, <3>1, OneIndexCovers
    <2> QED BY <1>5, <1>6, <1>8, <2>1, <2>2, <2>3
  <1> QED BY <1>7, <1>8

LEMMA FourIndexesCovers ==
  ASSUME NEW f, Lists(f), NEW sel, NEW base \in Base, NEW center \in Base, center # CHINESE, NEW pos,
         base # CHINESE => Covered(f)
  PROVE  Covered(FourIndexes(f, sel, base, center, pos))
  <1> DEFINE One(g, t) == CreateOneIndex(g, sel, t, pos)
             f1 == One(f, base)
             f2 == One(f1, EX(base))
             f3 == One(f2, center)
             f4 == One(f3, EX(center))
  <1>1. \A g : \A t \in SelectTree : Lists(g) /\ (t # CHINESE => Covered(g)) => Lists(One(g, t)) /\ Covered(One(g, t))
    BY CreateOneIndexCovers, CreateOneIndexSame, SameKeepsLists DEF Lists
  <1>2. FourIndexes(f, sel, base, center, pos) = f4
    BY DEF FourIndexes
  <1>3. /\ {base, EX(base), center, EX(center)} \subseteq SelectTree
        /\ EX(base) # CHINESE /\ EX(center) # CHINESE
    BY DEF SelectTree, Base, EX, CHINESE, SPELL, SIMPLE, CENTER_CHINESE, CENTER_SPELL, CENTER_SIMPLE
  <1> HIDE DEF One
  <1>4. Lists(f1) /\ Covered(f1)
    BY <1>1, <1>3
  <1> HIDE DEF f1
  <1>5. Lists(f2) /\ Covered(f2)
    BY <1>1, <1>3, <1>4
  <1> HIDE DEF f2
  <1>6. Lists(f3) /\ Covered(f3)
    BY <1>1, <1>3, <1>5
  <1> HIDE DEF f3
  <1>7. Covered(f4)
    BY <1>1, <1>3, <1>6
  <1> QED BY <1>2, <1>7

\* A directory the first half of the builder goes on with has an entry of each line of dict.00.
LEMMA BasicInfoCovers == ASSUME NEW f, Lists(f), NEW sel PROVE Covered(BasicInfo(f, sel))
  <1>0. DirOK(f) /\ {CHINESE, SPELL, SIMPLE, CENTER_CHINESE, CENTER_SPELL, CENTER_SIMPLE} = Base
        /\ CHINESE \notin {SPELL, SIMPLE, CENTER_CHINESE, CENTER_SPELL, CENTER_SIMPLE}
    BY DEF Lists, Base, CHINESE, SPELL, SIMPLE, CENTER_CHINESE, CENTER_SPELL, CENTER_SIMPLE
  <1>1. ASSUME NEW s PROVE Lists(BasicInfo_Chinese(f, s)) /\ Covered(BasicInfo_Chinese(f, s))
    <2>1. PICK o : o = AnlyInfo_Inside(f.dict[CHINESE])
      OBVIOUS
    <2>2. PICK f1 : f1 = [f EXCEPT !.string["chinese"] = o.out, !.extra[CHINESE] = o.extra]
      OBVIOUS
    <2>3. SameDict(f, f1)
      BY <2>2 DEF SameDict, Lists, DirOK
    <2>4. Lists(f1)
      BY <2>3, SameKeepsLists
    <2>5. Covered(FourIndexes(f1, s, CHINESE, CENTER_CHINESE, o.pos))
      BY <1>0, <2>4, FourIndexesCovers
    <2>6. SameDict(f1, FourIndexes(f1, s, CHINESE, CENTER_CHINESE, o.pos))
      BY <2>4, FourIndexesSame DEF Lists
    <2>7. Lists(FourIndexes(f1, s, CHINESE, CENTER_CHINESE, o.pos))
      BY <2>4, <2>6, SameKeepsLists
    <2>8. Lists(Crash(f)) /\ Covered(Crash(f))
      BY <1>0, CrashSame, CrashCovered, SameKeepsLists
    <2> QED BY <2>1, <2>2, <2>5, <2>7, <2>8 DEF BasicInfo_Chinese
  <1>2. ASSUME NEW g, Lists(g), Covered(g), NEW kind, NEW base \in Base \ {CHINESE}, NEW center \in Base \ {CHINESE}
        PROVE  Lists(BasicInfo_Other(g, sel, kind, base, center)) /\ Covered(BasicInfo_Other(g, sel, kind, base, center))
    <2>1. PICK from : from = StringSource(sel, base, center)
      OBVIOUS
    <2>2. PICK o : o = AnlyInfo(g.dict[from])
      OBVIOUS
    <2>3. PICK f1 : f1 = [g EXCEPT !.string[kind] = o.out]
      OBVIOUS
    <2>4. SameDict(g, f1) /\ Covered(f1)
      BY <1>2, <2>3 DEF SameDict, Lists, DirOK, Covered
    <2>5. Lists(f1)
      BY <1>2, <2>4, SameKeepsLists
    <2>6. Covered(FourIndexes(f1, sel, base, center, o.pos))
      BY <2>4, <2>5, FourIndexesCovers
    <2>7. SameDict(f1, FourIndexes(f1, sel, base, center, o.pos))
      BY <2>5, FourIndexesSame DEF Lists
    <2>8. Lists(FourIndexes(f1, sel, base, center, o.pos))
      BY <2>5, <2>7, SameKeepsLists
    <2>9. Lists(Crash(g)) /\ Covered(Crash(g))
      BY <1>2, CrashSame, CrashCovered, SameKeepsLists DEF Lists
    <2> QED BY <1>2, <2>1, <2>2, <2>3, <2>6, <2>8, <2>9 DEF BasicInfo_Other
  <1>3. PICK g : g = BasicInfo_Chinese(f, sel \cup {CHINESE})
    OBVIOUS
  <1>4. PICK h : h = BasicInfo_Other(g, sel, "spell", SPELL, CENTER_SPELL)
    OBVIOUS
  <1>5. Lists(g) /\ Covered(g)
    BY <1>1, <1>3
  <1>6. Lists(h) /\ Covered(h)
    BY <1>0, <1>2, <1>4, <1>5
  <1>7. Covered(BasicInfo_Other(h, sel, "simple", SIMPLE, CENTER_SIMPLE))
    BY <1>0, <1>2, <1>6
  <1> QED BY <1>3, <1>4, <1>7 DEF BasicInfo

-----------------------------------------------------------------------------
\* CIndexDeleteItem marks the entries of the lines it names, and takes no mark away.
LEMMA DeleteMarks ==
  ASSUME NEW lines, NEW data, Covers(lines, data), IsSeq(lines), NEW names, IsSeq(names), NEW more, IsSeq(more),
         Marked(lines, data, names), NEW data2, data2 = Mark(data, Named(lines, more))
  PROVE  Covers(lines, data2) /\ Marked(lines, data2, names \o more)
  <1>0. PICK hit : /\ hit = {i \in DOMAIN lines : \E d \in DOMAIN more : more[d] = <<lines[i].pre, lines[i].key>>}
                   /\ data2 = [i \in DOMAIN data |->
                                 IF i \in hit THEN [data[i] EXCEPT !.attr = @ \cup {DELETE}] ELSE data[i]]
    BY DEF Named, Mark
  <1>1. PICK n \in Nat : n = Len(lines) /\ DOMAIN lines = 1 .. n
    BY DEF IsSeq
  <1>2. PICK m \in Nat : m = Len(data) /\ DOMAIN data = 1 .. m /\ n <= m
    BY <1>1 DEF Covers, IsSeq
  <1>3. \A k \in 1 .. n : k \in 1 .. m /\ "attr" \in DOMAIN data[k]
    BY <1>1, <1>2 DEF Covers
  <1>4. ASSUME NEW k \in 1 .. n
        PROVE  /\ "attr" \in DOMAIN data2[k]
               /\ DELETE \in data[k].attr => DELETE \in data2[k].attr
               /\ k \in hit => DELETE \in data2[k].attr
    <2>1. k \in DOMAIN data /\ "attr" \in DOMAIN data[k]
      BY <1>2, <1>3
    <2>2. data2[k] = IF k \in hit THEN [data[k] EXCEPT !.attr = @ \cup {DELETE}] ELSE data[k]
      BY <1>0, <2>1
    <2> QED BY <2>1, <2>2
  <1>5. Covers(lines, data2)
    <2>1. Len(data2) = m /\ data2 = [i \in 1 .. m |-> data2[i]]
      BY <1>0, <1>2
    <2> QED BY <1>1, <1>2, <1>4, <2>1 DEF Covers, IsSeq
  <1>6. ASSUME NEW k \in 1 .. n, NEW d \in DOMAIN (names \o more), (names \o more)[d] = <<lines[k].pre, lines[k].key>>
        PROVE  DELETE \in data2[k].attr
    <2>1. (\E e \in DOMAIN names : names[e] = (names \o more)[d]) \/ (\E e \in DOMAIN more : more[e] = (names \o more)[d])
      <3>1. PICK T : T = {names[i] : i \in DOMAIN names} \cup {more[i] : i \in DOMAIN more}
        OBVIOUS
      <3>2. names \in Seq({names[i] : i \in DOMAIN names}) /\ more \in Seq({more[i] : i \in DOMAIN more})
        BY IsSeqIn
      <3>3. names \in Seq(T)
        BY <3>1, <3>2, SeqGrows
      <3>4. more \in Seq(T)
        BY <3>1, <3>2, SeqGrows
      <3>5. d \in 1 .. Len(names) + Len(more)
        BY <3>3, <3>4
      <3>6. CASE d <= Len(names)
        BY <3>3, <3>4, <3>5, <3>6
      <3>7. CASE d > Len(names)
        <4>1. d - Len(names) \in DOMAIN more /\ (names \o more)[d] = more[d - Len(names)]
          BY <3>3, <3>4, <3>5, <3>7
        <4> QED BY <4>1
      <3>8. Len(names) \in Nat
        BY <3>3
      <3> QED BY <3>5, <3>6, <3>7, <3>8
    <2>2. CASE \E e \in DOMAIN names : names[e] = (names \o more)[d]
      <3>1. DELETE \in data[k].attr
        BY <1>1, <1>6, <2>2 DEF Marked
      <3> QED BY <1>4, <3>1
    <2>3. CASE \E e \in DOMAIN more : more[e] = (names \o more)[d]
      <3>1. k \in hit
        BY <1>0, <1>1, <1>6, <2>3
      <3> QED BY <1>4, <3>1
    <2> QED BY <2>1, <2>2, <2>3
  <1>7. \A k \in 1 .. n : k \in DOMAIN data2
    BY <1>0, <1>2, <1>3
  <1> QED BY <1>1, <1>5, <1>6, <1>7 DEF Marked

\* c has the members of a and of b, and no others.
Joins(a, b, c) ==
  /\ IsSeq(c)
  /\ \A i \in DOMAIN a : i \in DOMAIN c /\ c[i] = a[i]
  /\ \A i \in DOMAIN b : \E j \in DOMAIN c : c[j] = b[i]
  /\ \A j \in DOMAIN c : (\E i \in DOMAIN a : c[j] = a[i]) \/ (\E i \in DOMAIN b : c[j] = b[i])

LEMMA ConcatIsSeq == ASSUME NEW a, IsSeq(a), NEW b, IsSeq(b) PROVE IsSeq(a \o b) /\ Joins(a, b, a \o b)
  <1>1. PICK T : T = {a[i] : i \in DOMAIN a} \cup {b[i] : i \in DOMAIN b}
    OBVIOUS
  <1>2. a \in Seq({a[i] : i \in DOMAIN a}) /\ b \in Seq({b[i] : i \in DOMAIN b})
    BY IsSeqIn
  <1>3. a \in Seq(T)
    BY <1>1, <1>2, SeqGrows
  <1>4. b \in Seq(T)
    BY <1>1, <1>2, SeqGrows
  <1>5. IsSeq(a \o b)
    <2>1. a \o b \in Seq(T)
      BY <1>3, <1>4
    <2> QED BY <2>1, SeqIsSeq
  <1>6. /\ Len(a) \in Nat /\ Len(b) \in Nat /\ DOMAIN a = 1 .. Len(a) /\ DOMAIN b = 1 .. Len(b)
        /\ DOMAIN (a \o b) = 1 .. Len(a) + Len(b)
    BY <1>3, <1>4
  <1>7. \A j \in 1 .. Len(a) + Len(b) : (a \o b)[j] = IF j <= Len(a) THEN a[j] ELSE b[j - Len(a)]
    BY <1>3, <1>4
  <1>8. \A i \in DOMAIN a : i \in DOMAIN (a \o b) /\ (a \o b)[i] = a[i]
    BY <1>6, <1>7
  <1>9. ASSUME NEW i \in DOMAIN b PROVE \E j \in DOMAIN (a \o b) : (a \o b)[j] = b[i]
    <2>1. i + Len(a) \in 1 .. Len(a) + Len(b) /\ ~(i + Len(a) <= Len(a)) /\ (i + Len(a)) - Len(a) = i
      BY <1>6
    <2>2. (a \o b)[i + Len(a)] = b[i]
      BY <1>7, <2>1
    <2> QED BY <1>6, <2>1, <2>2
  <1>10. ASSUME NEW j \in DOMAIN (a \o b)
         PROVE  (\E i \in DOMAIN a : (a \o b)[j] = a[i]) \/ (\E i \in DOMAIN b : (a \o b)[j] = b[i])
    <2>1. CASE j <= Len(a)
      BY <1>6, <1>7, <2>1
    <2>2. CASE ~(j <= Len(a))
      <3>1. j - Len(a) \in DOMAIN b /\ (a \o b)[j] = b[j - Len(a)]
        BY <1>6, <1>7, <2>2
      <3> QED BY <3>1
    <2> QED BY <2>1, <2>2
  <1> QED BY <1>5, <1>8, <1>9, <1>10 DEF Joins

-----------------------------------------------------------------------------
\* The part of the index file that holds the node data of dict.00.
OfChinese(s) == s.field = "data" /\ CHINESE \in s.types

\* In a list of parts there is none but the one that is wanted; there is one.
OnlyData(files, data) == IsSeq(files) /\ \A i \in DOMAIN files : OfChinese(files[i]) => files[i].file = data
SomeData(files) == \E i \in DOMAIN files : OfChinese(files[i])

LEMMA ConcatOnly ==
  ASSUME NEW a, NEW b, NEW data, OnlyData(a, data), OnlyData(b, data)
  PROVE  OnlyData(a \o b, data) /\ (SomeData(a) \/ SomeData(b) => SomeData(a \o b))
  <1>1. IsSeq(a) /\ IsSeq(b)
    BY DEF OnlyData
  <1>2. PICK c : c = a \o b
    OBVIOUS
  <1>3. Joins(a, b, c)
    BY <1>1, <1>2, ConcatIsSeq
  <1>4. OnlyData(c, data)
    BY <1>3 DEF Joins, OnlyData
  <1>5. SomeData(a) \/ SomeData(b) => SomeData(c)
    BY <1>3 DEF Joins, SomeData
  <1> QED BY <1>2, <1>4, <1>5

LEMMA AscendingIs == ASSUME NEW S, S \subseteq SelectTree PROVE \E n \in Nat : DOMAIN Ascending(S) = 1 .. n
  <1>1. SelectTree \subseteq 0 .. 32
    BY DEF SelectTree, Base, EX, CHINESE, SPELL, SIMPLE, CENTER_CHINESE, CENTER_SPELL, CENTER_SIMPLE
  <1>2. IsFiniteSet(S)
    <2>1. IsFiniteSet(0 .. 32)
      <3>1. 0 \in Int /\ 32 \in Int
        OBVIOUS
      <3> QED BY <3>1, FS_Interval, Zenon
    <2>2. S \subseteq 0 .. 32
      BY <1>1
    <2> QED BY <2>1, <2>2, FS_Subset
  <1>3. Cardinality(S) \in Nat
    BY <1>2, FS_CardinalityType
  <1> QED BY <1>3 DEF Ascending

\* The dump takes the node data of dict.00, whatever trees are selected.
LEMMA SectionsHold ==
  ASSUME NEW f, NEW sel, sel \subseteq SelectTree
  PROVE  OnlyData(Sections(f, sel), f.data[CHINESE]) /\ SomeData(Sections(f, sel))
  <1> DEFINE Part(field, types, file) == [field |-> field, types |-> types, file |-> file]
             Strings(base, center, kind) ==
               IF Family({base, center}) \cap sel = {} /\ base # CHINESE THEN <<>>
               ELSE <<Part("string", Family({base, center}), f.string[kind])>>
             NodeData(b) ==
               IF Family({b}) \cap sel = {} /\ b # CHINESE THEN <<>>
               ELSE <<Part("data", Family({b}), f.data[b]), Part("extra", Family({b}), f.extra[b])>>
             Each(field, files, types) == [i \in DOMAIN types |-> Part(field, {types[i]}, files[types[i]])]
             data == f.data[CHINESE]
  <1>1. ASSUME NEW base, NEW center, NEW kind PROVE OnlyData(Strings(base, center, kind), data)
    <2>1. IsSeq(<<>>) /\ \A x : IsSeq(<<x>>) /\ DOMAIN <<x>> = {1} /\ <<x>>[1] = x
      BY DEF IsSeq
    <2>2. ~OfChinese(Part("string", Family({base, center}), f.string[kind]))
      BY DEF OfChinese
    <2>3. DOMAIN <<>> = {}
      OBVIOUS
    <2>4. OnlyData(<<>>, data)
      BY <2>1, <2>3 DEF OnlyData
    <2>5. OnlyData(<<Part("string", Family({base, center}), f.string[kind])>>, data)
      <3> HIDE DEF Part
      <3> QED BY <2>1, <2>2 DEF OnlyData
    <2> QED BY <2>4, <2>5
  <1>2. ASSUME NEW b \in Base PROVE OnlyData(NodeData(b), data) /\ (b = CHINESE => SomeData(NodeData(b)))
    <2>1. IsSeq(<<>>) /\ DOMAIN <<>> = {}
      BY DEF IsSeq
    <2>2. \A x, y : IsSeq(<<x, y>>) /\ DOMAIN <<x, y>> = 1 .. 2 /\ <<x, y>>[1] = x /\ <<x, y>>[2] = y
      BY DEF IsSeq
    <2>3. CHINESE \in Family({b}) <=> b = CHINESE
      BY DEF Family, SelectTree, Base, SelectChangeFromEx, CHINESE, SPELL, SIMPLE, CENTER_CHINESE, CENTER_SPELL, CENTER_SIMPLE
    <2>4. PICK x, y : x = Part("data", Family({b}), f.data[b]) /\ y = Part("extra", Family({b}), f.extra[b])
      OBVIOUS
    <2>5. (OfChinese(x) <=> b = CHINESE) /\ ~OfChinese(y) /\ x.file = f.data[b]
      BY <2>3, <2>4 DEF OfChinese
    <2>6. OnlyData(<<>>, data)
      BY <2>1 DEF OnlyData
    <2>7. OnlyData(<<x, y>>, data)
      BY <2>2, <2>5 DEF OnlyData
    <2>8. b = CHINESE => SomeData(<<x, y>>)
      BY <2>2, <2>5 DEF SomeData
    <2>9. NodeData(b) = IF Family({b}) \cap sel = {} /\ b # CHINESE THEN <<>> ELSE <<x, y>>
      BY <2>4
    <2> HIDE DEF NodeData
    <2> QED BY <2>6, <2>7, <2>8, <2>9
  <1>3. ASSUME NEW field, field # "data", NEW files, NEW S, S \subseteq SelectTree
        PROVE  OnlyData(Each(field, files, Ascending(S)), data)
    <2>1. PICK n \in Nat : DOMAIN Ascending(S) = 1 .. n
      <3> HIDE DEF Each, Part
      <3> QED BY <1>3, AscendingIs
    <2>2. PICK e : e = Each(field, files, Ascending(S))
      OBVIOUS
    <2>3. DOMAIN e = 1 .. n /\ e = [i \in 1 .. n |-> e[i]] /\ \A i \in 1 .. n : e[i].field = field
      BY <2>1, <2>2
    <2>4. IsSeq(e)
      BY <2>3 DEF IsSeq
    <2> QED BY <1>3, <2>2, <2>3, <2>4 DEF OnlyData, OfChinese
  <1>4. OnlyData(<<>>, data)
    BY DEF OnlyData, IsSeq
  <1> DEFINE a1 == Strings(CHINESE, CENTER_CHINESE, "chinese")
             a2 == Strings(SIMPLE, CENTER_SIMPLE, "simple")
             a3 == Strings(SPELL, CENTER_SPELL, "spell")
             a4 == NodeData(CHINESE)
             a5 == NodeData(SPELL)
             a6 == NodeData(SIMPLE)
             a7 == NodeData(CENTER_CHINESE)
             a8 == NodeData(CENTER_SPELL)
             a9 == NodeData(CENTER_SIMPLE)
             aa == Each("tree", f.tree, Ascending(sel))
             ab == Each("mix", f.mix, IF withmixsearch THEN Ascending(sel \ Family({CHINESE, CENTER_CHINESE})) ELSE <<>>)
  <1>5. Sections(f, sel) = a1 \o a2 \o a3 \o a4 \o a5 \o a6 \o a7 \o a8 \o a9 \o aa \o ab
    BY DEF Sections
  <1>6. OnlyData(a1, data) /\ OnlyData(a2, data) /\ OnlyData(a3, data)
    BY <1>1
  <1>7. /\ OnlyData(a4, data) /\ OnlyData(a5, data) /\ OnlyData(a6, data)
        /\ OnlyData(a7, data) /\ OnlyData(a8, data) /\ OnlyData(a9, data) /\ SomeData(a4)
    <2> HIDE DEF NodeData
    <2> QED BY <1>2 DEF Base
  <1>8. OnlyData(aa, data)
    <2> HIDE DEF Each
    <2> QED BY <1>3
  <1>9. OnlyData(ab, data)
    <2>1. CASE withmixsearch
      <3> HIDE DEF Each
      <3>1. OnlyData(Each("mix", f.mix, Ascending(sel \ Family({CHINESE, CENTER_CHINESE}))), data)
        BY <1>3
      <3> QED BY <2>1, <3>1
    <2>2. CASE ~withmixsearch
      <3>1. DOMAIN <<>> = 1 .. 0
        OBVIOUS
      <3>2. PICK e : e = [i \in DOMAIN <<>> |-> Part("mix", {<<>>[i]}, f.mix[<<>>[i]])]
        OBVIOUS
      <3>3. ab = e
        BY <2>2, <3>2
      <3> HIDE DEF ab, Part
      <3>4. DOMAIN e = 1 .. 0 /\ e = [i \in 1 .. 0 |-> e[i]]
        BY <3>1, <3>2
      <3>5. IsSeq(e)
        BY <3>4 DEF IsSeq
      <3> QED BY <3>3, <3>4, <3>5 DEF OnlyData
    <2> QED BY <2>1, <2>2
  <1> HIDE DEF a1, a2, a3, a4, a5, a6, a7, a8, a9, aa, ab, data
  <1>10. OnlyData(a1 \o a2 \o a3 \o a4, data) /\ SomeData(a1 \o a2 \o a3 \o a4)
    <2>1. OnlyData(a1 \o a2, data)
      BY <1>6, ConcatOnly
    <2>2. OnlyData(a1 \o a2 \o a3, data)
      BY <1>6, <2>1, ConcatOnly
    <2> QED BY <1>7, <2>2, ConcatOnly
  <1>11. PICK b4 : b4 = a1 \o a2 \o a3 \o a4
    OBVIOUS
  <1>12. OnlyData(b4 \o a5 \o a6, data) /\ SomeData(b4 \o a5 \o a6)
    <2>1. OnlyData(b4 \o a5, data) /\ SomeData(b4 \o a5)
      BY <1>7, <1>10, <1>11, ConcatOnly
    <2> QED BY <1>7, <2>1, ConcatOnly
  <1>13. PICK b6 : b6 = b4 \o a5 \o a6
    OBVIOUS
  <1>14. OnlyData(b6 \o a7 \o a8 \o a9, data) /\ SomeData(b6 \o a7 \o a8 \o a9)
    <2>1. OnlyData(b6 \o a7, data) /\ SomeData(b6 \o a7)
      BY <1>7, <1>12, <1>13, ConcatOnly
    <2>2. OnlyData(b6 \o a7 \o a8, data) /\ SomeData(b6 \o a7 \o a8)
      BY <1>7, <2>1, ConcatOnly
    <2> QED BY <1>7, <2>2, ConcatOnly
  <1>15. PICK b9 : b9 = b6 \o a7 \o a8 \o a9
    OBVIOUS
  <1>16. OnlyData(b9 \o aa \o ab, data) /\ SomeData(b9 \o aa \o ab)
    <2>1. OnlyData(b9 \o aa, data) /\ SomeData(b9 \o aa)
      BY <1>8, <1>14, <1>15, ConcatOnly
    <2> QED BY <1>9, <2>1, ConcatOnly
  <1>17. Sections(f, sel) = b9 \o aa \o ab
    BY <1>5, <1>11, <1>13, <1>15
  <1> QED BY <1>16, <1>17 DEF data

-----------------------------------------------------------------------------
(***************************************************************************)
(* The index file of the builder is one of those IndexFileProofs is about. *)
(***************************************************************************)
LEMMA SectionsAreSized ==
  ASSUME FormattedInv, FilesAreWellMade
  PROVE  \E S : Sized(S) /\ Sections(dir, selected) \in Seq(S)
  <1>1. PICK files : files = Sections(dir, selected)
    OBVIOUS
  <1>2. IsSeq(files)
    BY <1>1, SectionsHold DEF OnlyData, FormattedInv
  <1>3. files \in Seq({files[i] : i \in DOMAIN files})
    BY <1>2, IsSeqIn
  <1> QED BY <1>1, <1>3 DEF FilesAreWellMade

LEMMA FileStep ==
  ASSUME FormattedInv, FilesAreWellMade, FileInv, [BuildNext]_buildVars PROVE FileInv'
  <1>1. CASE UNCHANGED fileVars
    BY <1>1 DEF fileVars, FileInv, Shapes, WholeIsDone, PartsAreWithin, PickIsTrue, LoadedIsWhole
  <1>2. CASE \/ \E in \in Inputs : Feed(in)
             \/ Make \/ \E mode \in 0 .. 4 : Start(mode)
             \/ RunFormat \/ CreateDict \/ Process_BasicInfo \/ Process_TreeInfo \/ Process_DeleteItem
             \/ UNCHANGED buildVars
    <2>1. UNCHANGED fileVars
      BY <1>2 DEF Feed, Make, Start, Runs, RunFormat, CreateDict, Process_BasicInfo, Process_TreeInfo, Process_DeleteItem,
                  Step, buildVars
    <2> QED BY <1>1, <2>1
  <1>3. CASE DumpOpen
    BY <1>3, OpenKeeps DEF DumpOpen, Dump
  <1>4. CASE DumpHeader
    <2>1. WriteHead(selected, Sections(dir, selected))
      BY <1>4 DEF DumpHeader, Dump
    <2> QED BY <2>1, SectionsAreSized, WriteHeadKeeps
  <1>5. CASE DumpFile
    BY <1>5, WriteNextKeeps DEF DumpFile, Dump
  <1>6. CASE DumpEnd
    BY <1>6, WriteEndKeeps DEF DumpEnd, Dump
  <1>7. CASE Kill
    BY <1>7, EndedKeeps DEF Kill
  <1>8. CASE Load
    BY <1>8, PickHeadKeeps, PickBodyKeeps DEF Load
  <1> QED BY <1>2, <1>3, <1>4, <1>5, <1>6, <1>7, <1>8 DEF BuildNext

(***************************************************************************)
(* LoadedIsWhole of the programs themselves: whatever is given between the *)
(* runs, in whatever order they are run, whenever they are ended and       *)
(* whenever the server reads the file, an index with a size that was read  *)
(* while nothing began to write it is all of the one dumped last.          *)
(***************************************************************************)
THEOREM BuiltIndexIsWhole == BuildSpec /\ []FilesAreWellMade => []LoadedIsWhole
  <1>1. BuildInit => FormattedInv /\ FileInv
    BY FormattedInit, FileInitInv DEF BuildInit
  <1>2. FilesAreWellMade /\ FormattedInv /\ FileInv /\ [BuildNext]_buildVars => FormattedInv' /\ FileInv'
    BY FormattedStep, FileStep
  <1>3. FileInv => LoadedIsWhole
    BY DEF FileInv
  <1> QED BY <1>1, <1>2, <1>3, PTL DEF BuildSpec

-----------------------------------------------------------------------------
(***************************************************************************)
(* What has still to be run, and how far the files are made of each other  *)
(* when it is.                                                             *)
(***************************************************************************)
Programs ==
  {<<>>, <<"format", "dict", "basic", "tree", "dump">>, <<"dict", "basic", "tree", "dump">>,
   <<"basic", "tree", "dump">>, <<"tree", "dump">>, <<"dump">>, <<"basic">>, <<"tree">>, <<"delete">>}
TodoIsMade ==
  /\ todo \in Programs
  /\ Does("tree") => stage >= 2
  /\ Does("dump") \/ Does("delete") => stage = 3

\* The node data that goes with dict.00 is marked for the lines the delete file had.
DataIsMarked ==
  /\ IsSeq(deleted) /\ stage \in 0 .. 3
  /\ stage >= 2 => /\ Covers(dir.dict[CHINESE], dir.data[CHINESE])
                   /\ Marked(dir.dict[CHINESE], dir.data[CHINESE], deleted)

\* While the index is written, the node data is still to be written, or it is where the header will say.
DumpTakesData ==
  /\ out.step # "no" => Does("dump")
  /\ out.step = "files" =>
       /\ "data" \in DOMAIN out.head /\ CHINESE \in DOMAIN out.head.data
       /\ \A i \in DOMAIN out.files : OfChinese(out.files[i]) => out.files[i].file = dir.data[CHINESE]
       /\ \/ SomeData(out.files)
          \/ /\ out.head.data[CHINESE] \in DOMAIN image.at
             /\ image.at[out.head.data[CHINESE]] = dir.data[CHINESE]

\* The node data of an index that was written to its end is marked for what it was made of.
IsMarked(x) ==
  /\ IsSeq(x.made.dict[CHINESE])
  /\ Marked(x.made.dict[CHINESE], x.image.at[x.image.head.data[CHINESE]], x.made.deleted)
WholeIsMarked == (whole # NoIndex => IsMarked(whole)) /\ (expect.whole # NoIndex => IsMarked(expect.whole))

MarkedInv == TodoIsMade /\ DataIsMarked /\ DumpTakesData /\ WholeIsMarked

\* The programs follow each other as each needs the files of the one before.
LEMMA ProgramsFollow ==
  ASSUME NEW p \in Programs, p # <<>>
  PROVE  /\ Tail(p) \in Programs
         /\ Head(p) = "format" => Tail(p) # <<>> /\ Head(Tail(p)) = "dict"
         /\ Head(p) = "dict" => Tail(p) # <<>> /\ Head(Tail(p)) = "basic"
         /\ Head(p) = "basic" => Tail(p) = <<>> \/ Head(Tail(p)) = "tree"
         /\ Head(p) = "tree" => Tail(p) = <<>> \/ Head(Tail(p)) = "dump"
  <1>1. \A a, b, c, d, e :
          /\ Head(<<a, b, c, d, e>>) = a /\ Tail(<<a, b, c, d, e>>) = <<b, c, d, e>>
          /\ Head(<<a, b, c, d>>) = a /\ Tail(<<a, b, c, d>>) = <<b, c, d>>
          /\ Head(<<a, b, c>>) = a /\ Tail(<<a, b, c>>) = <<b, c>>
          /\ Head(<<a, b>>) = a /\ Tail(<<a, b>>) = <<b>>
          /\ Head(<<a>>) = a /\ Tail(<<a>>) = <<>>
    OBVIOUS
  <1>2. \A a, b, c, d : <<a, b, c, d>> # <<>> /\ <<a, b, c>> # <<>> /\ <<a, b>> # <<>> /\ <<a>> # <<>>
    OBVIOUS
  <1>3. CASE p = <<"format", "dict", "basic", "tree", "dump">>
    BY <1>1, <1>2, <1>3 DEF Programs
  <1>4. CASE p = <<"dict", "basic", "tree", "dump">>
    BY <1>1, <1>2, <1>4 DEF Programs
  <1>5. CASE p = <<"basic", "tree", "dump">>
    BY <1>1, <1>2, <1>5 DEF Programs
  <1>6. CASE p = <<"tree", "dump">>
    BY <1>1, <1>2, <1>6 DEF Programs
  <1>7. ASSUME NEW a, p = <<a>>, a \in {"dump", "basic", "tree", "delete"}
        PROVE  /\ Tail(p) = <<>> /\ Tail(p) \in Programs
               /\ Head(p) = a /\ a # "format" /\ a # "dict"
    <2>1. Tail(p) = <<>> /\ Head(p) = a
      BY <1>1, <1>7
    <2>2. <<>> \in Programs
      BY DEF Programs
    <2> QED BY <1>7, <2>1, <2>2
  <1>8. CASE \E a \in {"dump", "basic", "tree", "delete"} : p = <<a>>
    BY <1>7, <1>8
  <1>9. \/ p = <<"format", "dict", "basic", "tree", "dump">> \/ p = <<"dict", "basic", "tree", "dump">>
        \/ p = <<"basic", "tree", "dump">> \/ p = <<"tree", "dump">>
        \/ \E a \in {"dump", "basic", "tree", "delete"} : p = <<a>>
    BY DEF Programs
  <1> QED BY <1>3, <1>4, <1>5, <1>6, <1>8, <1>9

LEMMA WorkIsAProgram ==
  /\ <<"format", "dict", "basic", "tree", "dump">> \in Programs
  /\ Head(<<"format", "dict", "basic", "tree", "dump">>) = "format"
  /\ \A mode \in 0 .. 4 : /\ Work(mode) \in Programs
                          /\ mode \in {0, 1} => Head(Work(mode)) = "basic"
                          /\ mode = 2 => Head(Work(mode)) = "tree"
  <1>1. \A a, b, c, d, e : Head(<<a, b, c, d, e>>) = a /\ Head(<<a, b, c>>) = a /\ Head(<<a>>) = a
    OBVIOUS
  <1> QED BY <1>1 DEF Work, Programs

\* Steps that leave the index file alone when none is written.
LEMMA NothingDumps ==
  ASSUME MarkedInv, ~Does("dump"), UNCHANGED fileVars PROVE DumpTakesData' /\ WholeIsMarked'
  <1>1. out.step = "no"
    BY DEF MarkedInv, DumpTakesData
  <1>2. out'.step = "no" /\ whole' = whole /\ expect' = expect
    BY <1>1 DEF fileVars
  <1>3. DumpTakesData'
    BY <1>2 DEF DumpTakesData
  <1>4. WholeIsMarked'
    BY <1>2 DEF MarkedInv, WholeIsMarked, IsMarked
  <1> QED BY <1>3, <1>4

LEMMA MarkedInit == BuildInit => MarkedInv
  <1> SUFFICES ASSUME BuildInit PROVE MarkedInv
    OBVIOUS
  <1>1. TodoIsMade
    BY DEF BuildInit, TodoIsMade, Programs, Does
  <1>2. DataIsMarked
    BY DEF BuildInit, DataIsMarked, IsSeq
  <1>3. DumpTakesData /\ WholeIsMarked
    BY DEF BuildInit, FileInit, NoDump, DumpTakesData, WholeIsMarked
  <1> QED BY <1>1, <1>2, <1>3 DEF MarkedInv

LEMMA FeedKeepsMarks == ASSUME MarkedInv, NEW in, Feed(in) PROVE MarkedInv'
  <1>1. ~Does("dump") /\ UNCHANGED fileVars /\ todo' = <<>>
    BY DEF Feed, Does
  <1>2. TodoIsMade'
    BY <1>1 DEF TodoIsMade, Programs, Does
  <1>3. DataIsMarked'
    <2>1. dir' = dir /\ deleted' = deleted /\ (stage' = stage \/ stage' = 0)
      BY DEF Feed
    <2> QED BY <2>1 DEF MarkedInv, DataIsMarked
  <1> QED BY <1>1, <1>2, <1>3, NothingDumps DEF MarkedInv

LEMMA RunsKeepMarks ==
  ASSUME MarkedInv, FormattedInv, NEW p \in Programs, Runs(p),
         p # <<>> => (Head(p) = "tree" => stage >= 2) /\ (Head(p) \in {"dump", "delete"} => stage = 3)
  PROVE  MarkedInv'
  <1>1. ~Does("dump") /\ UNCHANGED fileVars /\ todo' = p /\ stage' = stage
    BY DEF Runs, Does
  <1>2. TodoIsMade'
    BY <1>1 DEF TodoIsMade, Does
  <1>3. DataIsMarked'
    <2>1. dir'.dict = dir.dict /\ dir'.data = dir.data /\ deleted' = deleted
      BY DEF Runs, FormattedInv, DirOK
    <2> QED BY <1>1, <2>1 DEF MarkedInv, DataIsMarked
  <1> QED BY <1>1, <1>2, <1>3, NothingDumps DEF MarkedInv

LEMMA StartKeepsMarks == ASSUME MarkedInv, FormattedInv, NEW mode \in 0 .. 4, Start(mode) PROVE MarkedInv'
  <1>1. Work(mode) \in Programs /\ Runs(Work(mode))
    BY WorkIsAProgram DEF Start
  <1>2. stage \in 0 .. 3
    BY DEF MarkedInv, DataIsMarked
  <1>3. CASE mode \in {0, 1}
    <2>1. Head(Work(mode)) = "basic"
      BY <1>3, WorkIsAProgram
    <2> QED BY <1>1, <2>1, RunsKeepMarks
  <1>4. CASE mode = 2
    <2>1. Head(Work(mode)) = "tree" /\ stage >= 2
      BY <1>4, WorkIsAProgram DEF Start
    <2> QED BY <1>1, <2>1, RunsKeepMarks
  <1>5. CASE mode \in {3, 4}
    <2>1. stage = 3
      BY <1>2, <1>5 DEF Start
    <2> QED BY <1>1, <2>1, RunsKeepMarks
  <1> QED BY <1>3, <1>4, <1>5

\* A step of the programs: what is next to be run, if the directory is one to go on with.
LEMMA StepKeepsMarks ==
  ASSUME MarkedInv, NEW what, what # "dump", NEW f, NEW next \in 0 .. 3, Step(what, f, next),
         f.ok /\ Tail(todo) # <<>> => /\ Head(Tail(todo)) = "tree" => next >= 2
                                      /\ Head(Tail(todo)) \in {"dump", "delete"} => next = 3,
         IsSeq(deleted'),
         f.ok /\ next >= 2 => Covers(f.dict[CHINESE], f.data[CHINESE]) /\ Marked(f.dict[CHINESE], f.data[CHINESE], deleted')
  PROVE  MarkedInv'
  <1>1. todo # <<>> /\ Head(todo) = what /\ ~Does("dump") /\ UNCHANGED fileVars
    BY DEF Step, Does
  <1>2. /\ todo' = IF f.ok THEN Tail(todo) ELSE <<>>
        /\ stage' = IF f.ok THEN next ELSE 0
        /\ dir' = f
    BY DEF Step
  <1>3. TodoIsMade'
    <2>1. todo \in Programs
      BY DEF MarkedInv, TodoIsMade
    <2>2. Tail(todo) \in Programs /\ <<>> \in Programs
      BY <1>1, <2>1, ProgramsFollow DEF Programs
    <2>3. todo' \in Programs
      BY <1>2, <2>2
    <2>4. CASE f.ok
      BY <1>2, <2>3, <2>4 DEF TodoIsMade, Does
    <2>5. CASE ~f.ok
      BY <1>2, <2>3, <2>5 DEF TodoIsMade, Does
    <2> QED BY <2>4, <2>5
  <1>4. DataIsMarked'
    <2>1. CASE f.ok
      BY <1>2, <2>1 DEF DataIsMarked
    <2>2. CASE ~f.ok
      BY <1>2, <2>2 DEF DataIsMarked
    <2> QED BY <2>1, <2>2
  <1> QED BY <1>1, <1>3, <1>4, NothingDumps DEF MarkedInv

LEMMA MakersKeepMarks ==
  ASSUME MarkedInv, FormattedInv, FilesAreWellMade
  PROVE  /\ RunFormat => MarkedInv'
         /\ CreateDict => MarkedInv'
         /\ Process_BasicInfo => MarkedInv'
         /\ Process_TreeInfo => MarkedInv'
  <1>1. todo \in Programs /\ IsSeq(deleted)
    BY DEF MarkedInv, TodoIsMade, DataIsMarked
  <1>2. ASSUME NEW what, Does(what)
        PROVE  /\ what = "format" => Tail(todo) # <<>> /\ Head(Tail(todo)) = "dict"
               /\ what = "dict" => Tail(todo) # <<>> /\ Head(Tail(todo)) = "basic"
               /\ what = "basic" => Tail(todo) = <<>> \/ Head(Tail(todo)) = "tree"
               /\ what = "tree" => Tail(todo) = <<>> \/ Head(Tail(todo)) = "dump"
    BY <1>1, <1>2, ProgramsFollow DEF Does
  <1>3. ASSUME RunFormat PROVE MarkedInv'
    <2>1. PICK f : Step("format", f, 0) /\ deleted' = deleted
      BY <1>3 DEF RunFormat
    <2>2. Tail(todo) # <<>> /\ Head(Tail(todo)) = "dict"
      BY <1>2, <2>1 DEF Step
    <2> QED BY <1>1, <2>1, <2>2, StepKeepsMarks
  <1>4. ASSUME CreateDict PROVE MarkedInv'
    <2>1. PICK f : Step("dict", f, 1) /\ deleted' = deleted
      BY <1>4 DEF CreateDict
    <2>2. Tail(todo) # <<>> /\ Head(Tail(todo)) = "basic"
      BY <1>2, <2>1 DEF Step
    <2> QED BY <1>1, <2>1, <2>2, StepKeepsMarks
  <1>5. ASSUME Process_BasicInfo PROVE MarkedInv'
    <2>1. PICK f : f = BasicInfo(dir, selected)
      OBVIOUS
    <2>2. Step("basic", f, 2) /\ deleted' = <<>>
      BY <1>5, <2>1 DEF Process_BasicInfo
    <2>3. Tail(todo) = <<>> \/ Head(Tail(todo)) = "tree"
      BY <1>2, <2>2 DEF Step
    <2>4. Covered(f)
      BY <2>1, BasicInfoCovers DEF Lists, FormattedInv, FilesAreWellMade
    <2>5. IsSeq(<<>>) /\ \A lines, data : Marked(lines, data, <<>>)
      BY DEF IsSeq, Marked
    <2> QED BY <2>2, <2>3, <2>4, <2>5, StepKeepsMarks DEF Covered
  <1>6. ASSUME Process_TreeInfo PROVE MarkedInv'
    <2>1. PICK f : f = TreeInfo(dir, selected)
      OBVIOUS
    <2>2. Step("tree", f, 3) /\ deleted' = deleted
      BY <1>6, <2>1 DEF Process_TreeInfo
    <2>3. stage >= 2
      BY <2>2 DEF MarkedInv, TodoIsMade, Step
    <2>4. f.dict = dir.dict /\ f.data = dir.data
      BY <2>1, TreeInfoSame DEF FormattedInv, SameData, SameDict
    <2>5. Covers(f.dict[CHINESE], f.data[CHINESE]) /\ Marked(f.dict[CHINESE], f.data[CHINESE], deleted')
      BY <2>2, <2>3, <2>4 DEF MarkedInv, DataIsMarked
    <2> QED BY <1>1, <2>2, <2>5, StepKeepsMarks
  <1> QED BY <1>3, <1>4, <1>5, <1>6

LEMMA DeleteKeepsMarks == ASSUME MarkedInv, FormattedInv, Process_DeleteItem PROVE MarkedInv'
  <1>1. Does("delete") /\ ~Does("dump") /\ stage = 3 /\ stage' = 3 /\ UNCHANGED fileVars
    BY DEF Process_DeleteItem, Does, MarkedInv, TodoIsMade
  <1>2. CASE DeletesAny(dir, del)
    <2>1. dir' = DeleteItem(dir, del) /\ deleted' = deleted \o del /\ todo' = <<"dump">>
      BY <1>2 DEF Process_DeleteItem
    <2>2. PICK lines, data : lines = dir.dict[CHINESE] /\ data = dir.data[CHINESE]
      OBVIOUS
    <2>3. PICK data2 : data2 = Mark(data, Named(lines, del))
      OBVIOUS
    <2>4. dir' = [dir EXCEPT !.data[CHINESE] = data2]
      BY <2>1, <2>2, <2>3 DEF DeleteItem
    <2>5. dir'.dict = dir.dict /\ dir'.data[CHINESE] = data2
      BY <2>4 DEF FormattedInv, DirOK
    <2>6. Covers(lines, data) /\ Marked(lines, data, deleted) /\ IsSeq(deleted) /\ IsSeq(del) /\ IsSeq(lines)
      BY <1>1, <2>2 DEF MarkedInv, DataIsMarked, FormattedInv
    <2>7. Covers(dir.dict[CHINESE], data2) /\ Marked(dir.dict[CHINESE], data2, deleted \o del)
      BY <2>2, <2>3, <2>6, DeleteMarks
    <2>8. IsSeq(deleted \o del)
      BY <2>6, ConcatIsSeq
    <2>9. DataIsMarked'
      BY <1>1, <2>1, <2>5, <2>7, <2>8 DEF DataIsMarked
    <2>10. TodoIsMade'
      <3>1. Head(<<"dump">>) = "dump" /\ <<"dump">> \in Programs
        BY DEF Programs
      <3> QED BY <1>1, <2>1, <3>1 DEF TodoIsMade, Does
    <2> QED BY <1>1, <2>9, <2>10, NothingDumps DEF MarkedInv
  <1>3. CASE ~DeletesAny(dir, del)
    <2>1. dir' = dir /\ deleted' = deleted /\ todo' = <<>>
      BY <1>3 DEF Process_DeleteItem
    <2>2. DataIsMarked' /\ TodoIsMade'
      BY <1>1, <2>1 DEF MarkedInv, DataIsMarked, TodoIsMade, Programs, Does
    <2> QED BY <1>1, <2>2, NothingDumps DEF MarkedInv
  <1> QED BY <1>2, <1>3

\* The dump: it takes the node data as it is, puts it where the header will say and leaves it there.
LEMMA TodoStays == ASSUME MarkedInv, UNCHANGED <<dir, todo, deleted, stage>> PROVE TodoIsMade' /\ DataIsMarked'
  BY DEF MarkedInv, TodoIsMade, DataIsMarked, Does

LEMMA OpenKeepsMarks == ASSUME MarkedInv, DumpOpen PROVE MarkedInv'
  <1>1. TodoIsMade' /\ DataIsMarked'
    BY TodoStays DEF DumpOpen, Dump
  <1>2. DumpTakesData'
    BY DEF DumpOpen, Dump, OpenFile, DumpTakesData, Does
  <1>3. WholeIsMarked'
    BY DEF DumpOpen, Dump, OpenFile, MarkedInv, WholeIsMarked, IsMarked
  <1> QED BY <1>1, <1>2, <1>3 DEF MarkedInv

LEMMA HeaderKeepsMarks == ASSUME MarkedInv, FormattedInv, DumpHeader PROVE MarkedInv'
  <1>1. TodoIsMade' /\ DataIsMarked'
    BY TodoStays DEF DumpHeader, Dump
  <1>2. PICK files : files = Sections(dir, selected)
    OBVIOUS
  <1>3. WriteHead(selected, files) /\ Does("dump") /\ todo' = todo /\ dir' = dir
    BY <1>2 DEF DumpHeader, Dump
  <1>4. DumpTakesData'
    <2>1. out'.files = files /\ out'.head = [NoHead EXCEPT !.select = selected]
      BY <1>3 DEF WriteHead
    <2>2. "data" \in DOMAIN out'.head /\ CHINESE \in DOMAIN out'.head.data
      BY <2>1, TreesOfChinese DEF NoHead, Offsets
    <2>3. OnlyData(files, dir.data[CHINESE]) /\ SomeData(files)
      BY <1>2, SectionsHold DEF FormattedInv
    <2> QED BY <1>3, <2>1, <2>2, <2>3 DEF DumpTakesData, OnlyData, SomeData, Does
  <1>5. WholeIsMarked'
    BY <1>3 DEF WriteHead, MarkedInv, WholeIsMarked, IsMarked
  <1> QED BY <1>1, <1>4, <1>5 DEF MarkedInv

LEMMA WriteFileIs ==
  ASSUME NEW o, {"head", "files"} \subseteq DOMAIN o, NEW s
  PROVE  \E place : /\ s.field # "mix" => place = o.size
                    /\ WriteFile(o, s).files = Tail(o.files)
                    /\ WriteFile(o, s).head = [o.head EXCEPT ![s.field] = Placed(o.head[s.field], s.types, place)]
  <1>1. PICK place : place = IF s.field = "mix" /\ FileSize(s) <= 4 THEN 0 ELSE o.size
    OBVIOUS
  <1>2. PICK h : h = [o.head EXCEPT ![s.field] = Placed(o.head[s.field], s.types, place)]
    OBVIOUS
  <1>3. WriteFile(o, s) = [o EXCEPT !.head = h, !.size = @ + FileSize(s), !.files = Tail(@)]
    BY <1>1, <1>2 DEF WriteFile
  <1> QED BY <1>1, <1>2, <1>3

\* What is written next has the place the header gives it, and no place is used twice.
LEMMA NextKeepsData ==
  ASSUME DumpTakesData, FileInv, WriteNext, UNCHANGED <<dir, todo>>, dir.data[CHINESE] # NoFile
  PROVE  DumpTakesData'
  <1> DEFINE data == dir.data[CHINESE]
  <1>1. PICK files : files = out.files
    OBVIOUS
  <1>2. PICK S : files \in Seq(S) /\ files # <<>>
    BY <1>1 DEF FileInv, Shapes, IsDump, WriteNext
  <1>3. PICK s : s = Head(files)
    OBVIOUS
  <1>4. /\ s = files[1] /\ 1 \in DOMAIN files
        /\ \A i \in DOMAIN Tail(files) : i + 1 \in DOMAIN files /\ Tail(files)[i] = files[i + 1]
        /\ \A i \in DOMAIN files : i = 1 \/ (i - 1 \in DOMAIN Tail(files) /\ Tail(files)[i - 1] = files[i])
    BY <1>2, <1>3
  <1>5. out' = WriteFile(out, s) /\ {"head", "files"} \subseteq DOMAIN out
    BY <1>1, <1>3 DEF WriteNext, FileInv, Shapes, IsDump
  <1>6. PICK place : /\ s.field # "mix" => place = out.size
                     /\ out'.files = Tail(out.files)
                     /\ out'.head = [out.head EXCEPT ![s.field] = Placed(out.head[s.field], s.types, place)]
    BY <1>5, WriteFileIs
  <1>7. PICK v : v = Placed(out.head[s.field], s.types, place)
    OBVIOUS
  <1>8. /\ out.step = "files" /\ Does("dump")
        /\ "data" \in DOMAIN out.head /\ CHINESE \in DOMAIN out.head.data
        /\ \A i \in DOMAIN files : OfChinese(files[i]) => files[i].file = data
        /\ SomeData(files) \/ (out.head.data[CHINESE] \in DOMAIN image.at /\ image.at[out.head.data[CHINESE]] = data)
    BY <1>1 DEF DumpTakesData, WriteNext
  <1>9. PICK w : w = [out.head EXCEPT ![s.field] = v]
    OBVIOUS
  <1>10. /\ "data" \in DOMAIN w /\ CHINESE \in DOMAIN w.data
         /\ OfChinese(s) => w.data[CHINESE] = out.size
         /\ ~OfChinese(s) => w.data[CHINESE] = out.head.data[CHINESE]
    <2>1. CHINESE \in SelectTree
      BY TreesOfChinese
    <2>2. CASE s.field = "data"
      <3>1. w.data = v /\ place = out.size
        BY <1>6, <1>8, <1>9, <2>2
      <3>2. v[CHINESE] = IF CHINESE \in s.types THEN out.size ELSE out.head.data[CHINESE]
        BY <1>7, <2>1, <2>2, <3>1 DEF Placed
      <3>3. "data" \in DOMAIN w /\ CHINESE \in DOMAIN w.data
        BY <1>7, <1>8, <1>9, <2>1, <3>1 DEF Placed
      <3> QED BY <2>2, <3>1, <3>2, <3>3 DEF OfChinese
    <2>3. CASE s.field # "data"
      <3>1. w.data = out.head.data /\ "data" \in DOMAIN w
        BY <1>8, <1>9, <2>3
      <3> QED BY <1>8, <2>3, <3>1 DEF OfChinese
    <2> QED BY <2>2, <2>3
  <1>11. /\ s.file = NoFile => image' = image
         /\ s.file # NoFile => image'.at = [p \in DOMAIN image.at \cup {out.size} |-> IF p = out.size THEN s.file ELSE image.at[p]]
    <2>1. CASE s.file = NoFile
      BY <1>1, <1>3, <2>1 DEF WriteNext
    <2>2. CASE s.file # NoFile
      BY <1>1, <1>3, <2>2 DEF WriteNext, FileInv, Shapes, IsImage
    <2> QED BY <2>1, <2>2
  <1>12. \A p \in DOMAIN image.at : p # out.size
    <2>1. \A p \in DOMAIN image.at : p \in Nat /\ p < out.size
      BY <1>8 DEF FileInv, Shapes, IsImage, PartsAreWithin
    <2> QED BY <2>1 DEF FileInv, Shapes, IsDump
  <1>13. SomeData(Tail(files)) \/ (w.data[CHINESE] \in DOMAIN image'.at /\ image'.at[w.data[CHINESE]] = data)
    <2>1. CASE OfChinese(s)
      <3>1. s.file = data
        BY <1>4, <1>8, <2>1
      <3> QED BY <1>10, <1>11, <2>1, <3>1
    <2>2. CASE ~OfChinese(s) /\ SomeData(files)
      <3>1. PICK i \in DOMAIN files : OfChinese(files[i])
        BY <2>2 DEF SomeData
      <3>2. i # 1
        BY <1>4, <2>2, <3>1
      <3> QED BY <1>4, <3>1, <3>2 DEF SomeData
    <2>3. CASE ~OfChinese(s) /\ ~SomeData(files)
      BY <1>8, <1>10, <1>11, <1>12, <2>3
    <2> QED BY <2>1, <2>2, <2>3
  <1>14. \A i \in DOMAIN Tail(files) : OfChinese(Tail(files)[i]) => Tail(files)[i].file = data
    BY <1>4, <1>8
  <1>15. out'.head = w /\ out'.files = Tail(files) /\ data' = data /\ Does("dump")'
    <2>1. out'.head = w
      BY <1>6, <1>7, <1>9
    <2>2. out'.files = Tail(files)
      BY <1>1, <1>6
    <2> QED BY <1>8, <2>1, <2>2 DEF Does
  <1> QED BY <1>10, <1>13, <1>14, <1>15 DEF DumpTakesData

LEMMA CoversIsThere ==
  ASSUME NEW lines, IsSeq(lines), NEW data, Covers(lines, data) PROVE data # NoFile
  <1>1. PICK n \in Nat : n = Len(lines) /\ lines = [i \in 1 .. n |-> lines[i]]
    BY DEF IsSeq
  <1>2. n # 0
    <2> SUFFICES ASSUME n = 0 PROVE FALSE
      OBVIOUS
    <2>1. lines \in Seq({}) /\ Len(lines) = 0
      BY <1>1
    <2>2. lines = <<>>
      BY <2>1
    <2> QED BY <2>2 DEF Covers
  <1>3. Len(data) # 0
    BY <1>1, <1>2 DEF Covers, IsSeq
  <1> QED BY <1>3 DEF NoFile

LEMMA FileKeepsMarks == ASSUME MarkedInv, FormattedInv, FileInv, DumpFile PROVE MarkedInv'
  <1>1. WriteNext /\ Does("dump") /\ UNCHANGED <<dir, todo, deleted, stage>>
    BY DEF DumpFile, Dump
  <1>2. TodoIsMade' /\ DataIsMarked'
    BY <1>1, TodoStays
  <1>3. dir.data[CHINESE] # NoFile
    <2>1. Covers(dir.dict[CHINESE], dir.data[CHINESE])
      BY <1>1 DEF MarkedInv, TodoIsMade, DataIsMarked
    <2> QED BY <2>1, CoversIsThere DEF FormattedInv
  <1>4. DumpTakesData'
    BY <1>1, <1>3, NextKeepsData DEF MarkedInv
  <1>5. WholeIsMarked'
    BY <1>1 DEF WriteNext, MarkedInv, WholeIsMarked, IsMarked
  <1> QED BY <1>2, <1>4, <1>5 DEF MarkedInv

LEMMA EndKeepsMarks == ASSUME MarkedInv, FormattedInv, FileInv, DumpEnd PROVE MarkedInv'
  <1>1. PICK made : made = [dict |-> dir.dict, sel |-> selected, deleted |-> deleted]
    OBVIOUS
  <1>2. WriteEnd(made) /\ Does("dump") /\ todo' = <<>> /\ UNCHANGED <<dir, deleted, stage>>
    BY <1>1 DEF DumpEnd, Dump
  <1>3. TodoIsMade' /\ DataIsMarked'
    BY <1>2 DEF MarkedInv, TodoIsMade, DataIsMarked, Programs, Does
  <1>4. DumpTakesData'
    BY <1>2 DEF WriteEnd, NoDump, DumpTakesData
  <1>5. WholeIsMarked'
    <2>1. whole' = [image |-> image', made |-> made] /\ expect' = expect
      BY <1>2 DEF WriteEnd
    <2>2. out.step = "files" /\ out.files = <<>>
      BY <1>2 DEF WriteEnd
    <2>3. ~SomeData(out.files)
      BY <2>2 DEF SomeData
    <2>4. /\ "data" \in DOMAIN out.head
          /\ image.at[out.head.data[CHINESE]] = dir.data[CHINESE]
      BY <2>2, <2>3 DEF MarkedInv, DumpTakesData
    <2>5. image'.at = image.at /\ image'.head = [out.head EXCEPT !.size = out.size]
      BY <1>2 DEF WriteEnd, FileInv, Shapes, IsImage
    <2>6. image'.at[image'.head.data[CHINESE]] = dir.data[CHINESE]
      <3>1. image'.head.data = out.head.data
        BY <2>4, <2>5
      <3> QED BY <2>4, <2>5, <3>1
    <2>7. Marked(dir.dict[CHINESE], dir.data[CHINESE], deleted) /\ IsSeq(dir.dict[CHINESE])
      BY <1>2 DEF MarkedInv, TodoIsMade, DataIsMarked, FormattedInv
    <2>8. made.dict = dir.dict /\ made.deleted = deleted
      BY <1>1
    <2>9. whole'.image = image' /\ whole'.made = made
      BY <2>1
    <2>10. IsMarked(whole')
      BY <2>6, <2>7, <2>8, <2>9 DEF IsMarked
    <2>11. expect'.whole # NoIndex => IsMarked(expect'.whole)
      BY <2>1 DEF MarkedInv, WholeIsMarked, IsMarked
    <2> QED BY <2>10, <2>11 DEF WholeIsMarked, IsMarked
  <1> QED BY <1>3, <1>4, <1>5 DEF MarkedInv

LEMMA KillKeepsMarks == ASSUME MarkedInv, Kill PROVE MarkedInv'
  <1>1. todo' = <<>> /\ out'.step = "no" /\ UNCHANGED <<dir, deleted, whole, expect>>
    BY DEF Kill, Ended, NoDump
  <1>2. stage \in 0 .. 3 /\ Broken \in 0 .. 3 /\ stage' \in 0 .. 3 /\ stage' <= stage
    BY DEF MarkedInv, DataIsMarked, Kill, Broken
  <1>3. TodoIsMade' /\ DataIsMarked' /\ DumpTakesData'
    BY <1>1, <1>2 DEF MarkedInv, TodoIsMade, DataIsMarked, DumpTakesData, Programs, Does
  <1>4. WholeIsMarked'
    BY <1>1 DEF MarkedInv, WholeIsMarked, IsMarked
  <1> QED BY <1>3, <1>4 DEF MarkedInv

LEMMA LoadKeepsMarks == ASSUME MarkedInv, Load PROVE MarkedInv'
  <1>1. UNCHANGED <<dir, todo, deleted, stage, out, image, whole>> /\ expect'.whole \in {expect.whole, whole}
    BY DEF Load, PickHead, PickBody
  <1>2. TodoIsMade' /\ DataIsMarked'
    BY <1>1, TodoStays
  <1>3. DumpTakesData'
    BY <1>1 DEF MarkedInv, DumpTakesData, Does
  <1>4. WholeIsMarked'
    BY <1>1 DEF MarkedInv, WholeIsMarked, IsMarked
  <1> QED BY <1>2, <1>3, <1>4 DEF MarkedInv

LEMMA MarkedStep ==
  ASSUME FilesAreWellMade, FormattedInv, FileInv, MarkedInv, [BuildNext]_buildVars PROVE MarkedInv'
  <1>1. CASE \E in \in Inputs : Feed(in)
    BY <1>1, FeedKeepsMarks
  <1>2. CASE Make
    <2>1. Runs(<<"format", "dict", "basic", "tree", "dump">>)
      BY <1>2 DEF Make
    <2> QED BY <2>1, WorkIsAProgram, RunsKeepMarks
  <1>3. CASE \E mode \in 0 .. 4 : Start(mode)
    BY <1>3, StartKeepsMarks
  <1>4. CASE RunFormat \/ CreateDict \/ Process_BasicInfo \/ Process_TreeInfo
    BY <1>4, MakersKeepMarks
  <1>5. CASE Process_DeleteItem
    BY <1>5, DeleteKeepsMarks
  <1>6. CASE DumpOpen
    BY <1>6, OpenKeepsMarks
  <1>7. CASE DumpHeader
    BY <1>7, HeaderKeepsMarks
  <1>8. CASE DumpFile
    BY <1>8, FileKeepsMarks
  <1>9. CASE DumpEnd
    BY <1>9, EndKeepsMarks
  <1>10. CASE Kill
    BY <1>10, KillKeepsMarks
  <1>11. CASE Load
    BY <1>11, LoadKeepsMarks
  <1>12. CASE UNCHANGED buildVars
    <2>1. UNCHANGED <<dir, todo, deleted, stage, out, image, whole, expect>>
      BY <1>12 DEF buildVars, fileVars
    <2>2. TodoIsMade' /\ DataIsMarked'
      BY <2>1, TodoStays
    <2>3. DumpTakesData' /\ WholeIsMarked'
      BY <2>1 DEF MarkedInv, DumpTakesData, WholeIsMarked, IsMarked, Does
    <2> QED BY <2>2, <2>3 DEF MarkedInv
  <1> QED BY <1>1, <1>2, <1>3, <1>4, <1>5, <1>6, <1>7, <1>8, <1>9, <1>10, <1>11, <1>12 DEF BuildNext

\* In an index that is whole the node data the server reads is marked, and what is marked is not taken.
LEMMA MarkedIsNotAnswered == ASSUME LoadedIsWhole, WholeIsMarked PROVE DeletedIsNeverAnswered
  <1> SUFFICES ASSUME Serves, NEW u \in LineIds, IsDeleted(u), NEW r, u \in Ask(r) PROVE FALSE
    BY DEF DeletedIsNeverAnswered
  <1>1. PICK x : x = expect.whole
    OBVIOUS
  <1>2. PICK data : data = x.image.at[x.image.head.data[CHINESE]]
    OBVIOUS
  <1>3. IsMarked(x)
    BY <1>1 DEF Serves, WholeIsMarked, IsMarked
  <1>4. u + 1 \in DOMAIN x.made.dict[CHINESE]
    <2>1. PICK lines : lines = x.made.dict[CHINESE]
      OBVIOUS
    <2>2. IsSeq(lines) /\ u \in 0 .. Len(lines) - 1
      BY <1>1, <1>3, <2>1 DEF IsMarked, LineIds, Lines
    <2>3. DOMAIN lines = 1 .. Len(lines) /\ Len(lines) \in Nat
      BY <2>2 DEF IsSeq
    <2>4. u + 1 \in DOMAIN lines
      BY <2>2, <2>3
    <2> QED BY <2>1, <2>4
  <1>5. DELETE \in data[u + 1].attr
    BY <1>1, <1>2, <1>3, <1>4 DEF IsMarked, Marked, IsDeleted, LineOf, Lines
  <1>6. LoadedTask.data = data
    <2>1. index.at = x.image.at /\ index.head = x.image.head
      BY <1>1 DEF Serves, LoadedIsWhole
    <2>2. LoadedTree(CHINESE).wife = index.at[index.head.data[CHINESE]]
      BY DEF LoadedTree, NewTree
    <2> QED BY <1>2, <2>1, <2>2 DEF LoadedTask
  <1>7. PICK list, q : Results(r) = SearchEach(list, q, 0, <<LoadedTask>>)
    BY DEF Results, SearchResult
  <1>8. PICK c \in DOMAIN Results(r) : \E h \in Results(r)[c].hits : h[2] = u
    BY DEF Ask, HitLines
  <1>9. PICK h \in SearchEach(list, q, 0, <<LoadedTask>>)[c].hits : h[2] = u
    BY <1>7, <1>8
  <1>10. PICK tasks : tasks = <<LoadedTask>>
    OBVIOUS
  <1>11. PICK k \in DOMAIN tasks : DELETE \notin tasks[k].data[h[2] + 1].attr
    BY <1>7, <1>8, <1>9, <1>10, AnswersAreClean
  <1>12. tasks[k] = LoadedTask
    BY <1>10, <1>11
  <1> QED BY <1>5, <1>6, <1>9, <1>11, <1>12

(***************************************************************************)
(* DeletedIsNeverAnswered: whatever words, trees and delete files, in      *)
(* whatever order the programs are run and however often they are ended, a *)
(* word that was deleted when the index was written that the server has    *)
(* read is in no answer to what is typed for it: its entry was marked in   *)
(* the node data, that is what the dump took and where the header says it  *)
(* is, and no category takes a line whose entry is marked.                 *)
(***************************************************************************)
THEOREM DeletedStaysAway == BuildSpec /\ []FilesAreWellMade => []DeletedIsNeverAnswered
  <1>1. BuildInit => FormattedInv /\ FileInv /\ MarkedInv
    BY FormattedInit, FileInitInv, MarkedInit DEF BuildInit
  <1>2. FilesAreWellMade /\ FormattedInv /\ FileInv /\ MarkedInv /\ [BuildNext]_buildVars
          => FormattedInv' /\ FileInv' /\ MarkedInv'
    BY FormattedStep, FileStep, MarkedStep
  <1>3. FileInv /\ MarkedInv => DeletedIsNeverAnswered
    BY MarkedIsNotAnswered DEF FileInv, MarkedInv
  <1> QED BY <1>1, <1>2, <1>3, PTL DEF BuildSpec
=============================================================================
