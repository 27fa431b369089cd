------------------------------- MODULE MCSearch -------------------------------
(* Small instances of Search: three entries of one task and one of another. *)
EXTENDS Search

MCNode == 1 .. 7
EntryAs(id, tree, len) == [eleId |-> id, pPara |-> tree, length |-> len, queryNum |-> 0]
A == EntryAs(1, 0, 2)
B == EntryAs(2, 0, 1)
C == EntryAs(3, 0, 1)
D == EntryAs(1, 10, 1)
MCEntry == {A, B, C, D}
MCHidden == {A, C}

\* The spellings of the first task: 5 has 4 on the side and 3 in the middle, 3 the leaves 2 and 1;
\* B has two spellings.  6 is the tree of the other task, 7 a simple spelling of the first.
MCSide == [n \in MCNode |-> CASE n = 5 -> {4} [] n = 3 -> {2} [] OTHER -> {}]
MCMid  == [n \in MCNode |-> CASE n = 5 -> {3} [] n = 3 -> {1} [] OTHER -> {}]
MCWife == [n \in MCNode |->
  CASE n = 1 -> {A, B} [] n = 2 -> {C} [] n = 4 -> {B} [] n = 6 -> {D} [] n = 7 -> {A, C} [] OTHER -> {}]
MCBelow == [n \in MCNode |-> CASE n = 5 -> 1 .. 5 [] n = 3 -> 1 .. 3 [] OTHER -> {n}]

All(n)  == [node |-> n, whole |-> TRUE]
Rest(n) == [node |-> n, whole |-> FALSE]
MCFind  == {{}, {All(5)}, {Rest(5), Rest(6)}, {Rest(4)}, {Rest(6)}, {Rest(7)}}

\* A spelling, a simple spelling and a mixed category, as for a key of letters.
MCCategory ==
  <<[iAddWeight |-> 5, mixed |-> FALSE], [iAddWeight |-> 0, mixed |-> FALSE],
    [iAddWeight |-> 5, mixed |-> TRUE]>>
=============================================================================
