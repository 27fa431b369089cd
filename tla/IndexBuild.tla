------------------------------ MODULE IndexBuild ------------------------------
(***************************************************************************)
(* The programs that make an index and the file they make: isformat and    *)
(* isdict write the dictionaries, CCreateIndex runs the halves of the      *)
(* builder, CDumpPickIndex puts their files into one, in place, and the    *)
(* server picks that one up.  A program may be ended at any point; what it *)
(* has written stays.                                                      *)
(***************************************************************************)
EXTENDS IndexTree, Dictionary, IndexFile

CONSTANTS
  Inputs,       \* what the user may give: [words, sel, del], the words of the task, selecttree
                \* and the lines <<prefix, word>> of chinese.dict.del
  mustWrite,    \* isformat -m
  MaxRun        \* bound: the runs of the programs

ASSUME IndexBuildAssumption ==
  /\ mustWrite \in Nat
  /\ \A in \in Inputs : /\ in.words \in Seq({in.words[i] : i \in DOMAIN in.words})
                        /\ in.del \in Seq({in.del[i] : i \in DOMAIN in.del})
                        /\ in.sel \subseteq SelectTree

VARIABLES
  words,    \* the words of the task
  dir,      \* the directory of the task
  selected, \* selecttree
  del,      \* chinese.dict.del
  todo,     \* what the run has still to do
  deleted,  \* history: the entries of dict.00 are marked for this
  stage,    \* history: how far the files are made of the words and of each other
  run       \* history: the runs of the programs

givenVars == <<words, selected, del>>
buildVars == <<givenVars, dir, todo, deleted, stage, run, fileVars>>

-----------------------------------------------------------------------------
Ascending(S) == [i \in 1 .. Cardinality(S) |-> CHOOSE t \in S : Cardinality({u \in S : u < t}) = i - 1]
Family(kind) == {t \in SelectTree : SelectChangeFromEx(t) \in kind}

\* The files of the dump in their order: where the header keeps the place, for which trees.
Sections(f, sel) ==
  LET Part(field, types, file) == [field |-> field, types |-> types, file |-> file]
      Strings(base, center, kind) ==
        IF Family({base, center}) \cap sel = {} /\ base # CHINESE THEN <<>>
        ELSE <<Part("string", Family({base, center}), f.string[kind])>>
      NodeData(b) ==
        IF Family({b}) \cap sel = {} /\ b # CHINESE THEN <<>>
        ELSE <<Part("data", Family({b}), f.data[b]), Part("extra", Family({b}), f.extra[b])>>
      Each(field, files, types) == [i \in DOMAIN types |-> Part(field, {types[i]}, files[types[i]])]
  IN  Strings(CHINESE, CENTER_CHINESE, "chinese") \o Strings(SIMPLE, CENTER_SIMPLE, "simple")
      \o Strings(SPELL, CENTER_SPELL, "spell")
      \o NodeData(CHINESE) \o NodeData(SPELL) \o NodeData(SIMPLE)
      \o NodeData(CENTER_CHINESE) \o NodeData(CENTER_SPELL) \o NodeData(CENTER_SIMPLE)
      \o Each("tree", f.tree, Ascending(sel))
      \o Each("mix", f.mix, IF withmixsearch THEN Ascending(sel \ Family({CHINESE, CENTER_CHINESE})) ELSE <<>>)

-----------------------------------------------------------------------------
BuildInit ==
  /\ \E in \in Inputs : words = in.words /\ selected = in.sel /\ del = in.del
  /\ dir = EmptyDirectory /\ todo = <<>> /\ deleted = <<>>
  /\ stage = 0 /\ run = 0
  /\ FileInit

\* The user between two runs: the words, selecttree in the configuration, the delete file.
Feed(in) ==
  /\ todo = <<>> /\ run < MaxRun
  /\ words' = in.words /\ selected' = in.sel /\ del' = in.del
  /\ stage' = IF in.words = words /\ in.sel = selected THEN stage ELSE 0
  /\ UNCHANGED <<dir, todo, deleted, run, fileVars>>

Runs(programs) ==
  /\ todo = <<>> /\ run < MaxRun
  /\ run' = run + 1
  /\ todo' = programs
  /\ dir' = [dir EXCEPT !.ok = TRUE]
  /\ UNCHANGED <<givenVars, deleted, stage, fileVars>>

\* A full build.  Run.sh runs the programs in this order, with isdict commented out: the
\* dictionaries it makes are then those of an earlier run, and not of this make.
Make == Runs(<<"format", "dict", "basic", "tree", "dump">>)

\* CCreateIndex::Process: what isindex does, by the argument it is given.
Work(mode) ==
  CASE mode = 1 -> <<"basic">> [] mode = 2 -> <<"tree">> [] mode = 3 -> <<"dump">> [] mode = 4 -> <<"delete">>
    [] OTHER -> <<"basic", "tree", "dump">>

\* The files isindex reads are of one make: the numbers in a file that is older than those
\* it refers to may be of no line, and nothing looks.
Start(mode) ==
  /\ stage >= (CASE mode \in {0, 1} -> 1 [] mode = 2 -> 2 [] OTHER -> 3)
  /\ Runs(Work(mode))

Does(what) == todo # <<>> /\ Head(todo) = what

\* The writes of a program up to the dump are one step.  One that ends itself takes the run
\* with it.
Step(what, f, next) ==
  /\ Does(what)
  /\ dir' = f
  /\ todo' = IF dir'.ok THEN Tail(todo) ELSE <<>>
  /\ stage' = IF dir'.ok THEN next ELSE 0
  /\ UNCHANGED <<givenVars, run, fileVars>>

RunFormat ==
  Step("format", [dir EXCEPT !.dict[CHINESE] = FormatFile(words, mustWrite).out], 0) /\ UNCHANGED deleted
CreateDict ==
  Step("dict", [dir EXCEPT !.dict = CreateAllDict(@, selected)], 1) /\ UNCHANGED deleted
Process_BasicInfo == Step("basic", BasicInfo(dir, selected), 2) /\ deleted' = <<>>
Process_TreeInfo  == Step("tree", TreeInfo(dir, selected), 3) /\ UNCHANGED deleted

Process_DeleteItem ==
  /\ Does("delete")
  /\ IF DeletesAny(dir, del)
     THEN dir' = DeleteItem(dir, del) /\ deleted' = deleted \o del /\ todo' = <<"dump">>
     ELSE UNCHANGED <<dir, deleted>> /\ todo' = <<>>
  /\ UNCHANGED <<givenVars, stage, run, fileVars>>

\* CDumpPickIndex::Run: the files of the builder into one.
Dump(do, rest) ==
  /\ Does("dump") /\ do
  /\ todo' = rest
  /\ UNCHANGED <<givenVars, dir, deleted, stage, run>>
DumpOpen   == Dump(OpenFile, todo)
DumpHeader == Dump(WriteHead(selected, Sections(dir, selected)), todo)
DumpFile   == Dump(WriteNext, todo)
DumpEnd    == Dump(WriteEnd([dict |-> dir.dict, sel |-> selected, deleted |-> deleted]), <<>>)

\* How far the files are still whole when a program was ended among its writes.
Broken == CASE Head(todo) \in {"format", "dict"} -> 0 [] Head(todo) \in {"basic", "delete"} -> 1
            [] Head(todo) = "tree" -> 2 [] OTHER -> 3

\* The builder is ended from outside, before its writes or among them.  dir keeps the files
\* as they were: those half written are read by no program before they are made again.
Kill ==
  /\ todo # <<>>
  /\ todo' = <<>> /\ Ended
  /\ stage' \in {stage, IF Broken < stage THEN Broken ELSE stage}
  /\ UNCHANGED <<givenVars, dir, deleted, run>>

\* The server loads the index.
Load == (PickHead \/ PickBody) /\ UNCHANGED <<givenVars, dir, todo, deleted, stage, run>>

BuildNext ==
  \/ \E in \in Inputs : Feed(in)
  \/ Make \/ \E mode \in 0 .. 4 : Start(mode)
  \/ RunFormat \/ CreateDict \/ Process_BasicInfo \/ Process_TreeInfo \/ Process_DeleteItem
  \/ DumpOpen \/ DumpHeader \/ DumpFile \/ DumpEnd \/ Kill
  \/ Load
BuildSpec == BuildInit /\ [][BuildNext]_buildVars

-----------------------------------------------------------------------------
\* CTreeArray::Init: the tree of a type in the index that was read.
NewTree(x, t) ==
  LET Part(field) == x.at[x.head[field][t]]
  IN  [type |-> t, size |-> Part("tree").size, node |-> Part("tree").node, string |-> Part("string"),
       wife |-> Part("data"), extra |-> Part("extra"),
       ss |-> IF x.head.mix[t] = 0 THEN <<>> ELSE Part("mix")]
=============================================================================
