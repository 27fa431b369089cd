------------------------------- MODULE IndexFile -------------------------------
(***************************************************************************)
(* The index file of a task: CDumpPickIndex writes it in place, a header   *)
(* without a size first, then file after file of the builder, then the     *)
(* header again; the server reads the header for the size and then so many *)
(* bytes from the start.  The builder may be ended at any point, and the   *)
(* server may read at any point; neither looks at what the other does.     *)
(*                                                                         *)
(* A file to write is [field, types, file]: where the header keeps its     *)
(* place, for which trees, and the file, NoFile if it is not there.        *)
(***************************************************************************)
EXTENDS IndexFormat

VARIABLES
  image,    \* the index file: its length, header and parts by position
  out,      \* the dump: how far it is, the header in memory, the size so far, the files to write
  picking,  \* the server is reading: the size it read first, -1 if it is not
  index,    \* what the server has read
  whole,    \* history: the index file if it was written to its end, and what it was made of
  torn,     \* history: the index file was written while the server read it
  expect    \* history: what was there when the server had read it

fileVars == <<image, out, picking, index, whole, torn, expect>>

Offsets == [t \in SelectTree |-> 0]
NoHead == [size |-> 0, select |-> {}, string |-> Offsets, extra |-> Offsets, tree |-> Offsets,
           data |-> Offsets, mix |-> Offsets]
HeadSize == 4 + 6 * 4 * DICT_MAX_SIZE
NoImage == [len |-> 0, head |-> NoHead, at |-> <<>>]
NoDump  == [step |-> "no", head |-> NoHead, size |-> 0, files |-> <<>>]
NoIndex == <<>>

-----------------------------------------------------------------------------
\* The first four bytes of a file.
FileSize(s) ==
  IF s.file = NoFile THEN 0
  ELSE IF s.field = "data" THEN 4 + 8 * Len(s.file) ELSE IF s.field = "tree" THEN s.file.size ELSE Len(s.file)

\* The places with that of the file, for the trees it is of.
Placed(offsets, types, place) == [t \in SelectTree |-> IF t \in types THEN place ELSE offsets[t]]

\* WriteFile: the file at the end of the index, its place in the header.  A file that is not
\* there takes no room; strings of a mixed search that are none have no place.
WriteFile(o, s) ==
  LET n == FileSize(s)
      place == IF s.field = "mix" /\ n <= 4 THEN 0 ELSE o.size
  IN  [o EXCEPT !.head[s.field] = Placed(@, s.types, place),
                !.size = @ + n, !.files = Tail(@)]

\* A mutant: the header that is written first has the size already.
SizeFirst(sel) == [NoHead EXCEPT !.select = sel, !.size = HeadSize]

FirstHead(sel) == [NoHead EXCEPT !.select = sel]

FileInit ==
  /\ image = NoImage /\ out = NoDump
  /\ picking = -1 /\ index = NoIndex
  /\ whole = NoIndex /\ torn = FALSE /\ expect = [torn |-> FALSE, whole |-> NoIndex]

\* Run opens the index file, which empties it.
OpenFile ==
  /\ out.step = "no"
  /\ out' = [step |-> "open", head |-> NoHead, size |-> 0, files |-> <<>>]
  /\ image' = NoImage
  /\ whole' = NoIndex /\ torn' = (torn \/ picking # -1)
  /\ UNCHANGED <<picking, index, expect>>

WriteHead(sel, files) ==
  /\ out.step = "open"
  /\ out' = [step |-> "files", head |-> [NoHead EXCEPT !.select = sel], size |-> HeadSize, files |-> files]
  /\ image' = [len |-> HeadSize, head |-> FirstHead(sel), at |-> <<>>]
  /\ UNCHANGED <<picking, index, whole, torn, expect>>

WriteNext ==
  /\ out.step = "files" /\ out.files # <<>>
  /\ out' = WriteFile(out, Head(out.files))
  /\ image' = IF Head(out.files).file = NoFile THEN image
              ELSE [image EXCEPT !.len = @ + FileSize(Head(out.files)),
                                 !.at = [p \in DOMAIN @ \cup {out.size} |->
                                           IF p = out.size THEN Head(out.files).file ELSE @[p]]]
  /\ UNCHANGED <<picking, index, whole, torn, expect>>

\* The header again, now with the places and the size.  made is what it was all made of.
WriteEnd(made) ==
  /\ out.step = "files" /\ out.files = <<>>
  /\ out' = NoDump
  /\ image' = [image EXCEPT !.head = [out.head EXCEPT !.size = out.size]]
  /\ whole' = [image |-> image', made |-> made]
  /\ UNCHANGED <<picking, index, torn, expect>>

\* The builder is ended from outside.
Ended ==
  /\ out' = NoDump
  /\ UNCHANGED <<image, picking, index, whole, torn, expect>>

-----------------------------------------------------------------------------
\* Pick reads the header for the size, and then so many bytes from the start.  Of a header
\* without a size it reads nothing, and says that it did.
PickHead ==
  /\ picking = -1 /\ image.len >= HeadSize
  /\ picking' = image.head.size
  /\ torn' = FALSE
  /\ UNCHANGED <<image, out, index, whole, expect>>

PickBody ==
  /\ picking # -1
  /\ picking' = -1
  /\ index' = IF image.len < picking THEN NoIndex
              ELSE IF picking = 0 THEN [size |-> 0, head |-> NoHead, at |-> <<>>]
              ELSE [size |-> picking, head |-> image.head,
                    at |-> [p \in {p \in DOMAIN image.at : p < picking} |-> image.at[p]]]
  /\ expect' = [torn |-> torn, whole |-> whole]
  /\ UNCHANGED <<image, out, whole, torn>>

-----------------------------------------------------------------------------
(***************************************************************************)
(* An index the server takes for whole, of a size, while nothing began to  *)
(* write it, is the one that was written last, to its end and all of it:   *)
(* not one of a builder that was ended, nor parts of two.                  *)
(***************************************************************************)
LoadedIsWhole ==
  index # NoIndex /\ index.size > 0 /\ ~expect.torn =>
    /\ expect.whole # NoIndex
    /\ LET made == expect.whole.image
       IN  index = [size |-> made.head.size, head |-> made.head, at |-> made.at]
=============================================================================
