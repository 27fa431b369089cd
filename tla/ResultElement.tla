---------------------------- MODULE ResultElement ----------------------------
(***************************************************************************)
(* A result of a search, ResultElement: the entry it stands for (its       *)
(* number eleId in the tree pPara), the length of its string and its       *)
(* queryNum, the number results are ranked by.                             *)
(***************************************************************************)
EXTENDS Integers, FiniteSets

Result == [eleId : Int, pPara : Int, length : Int, queryNum : Int]

\* lessThan: the lower number, then the longer string, then the lower eleId.
Less(a, b) ==
  \/ a.queryNum < b.queryNum
  \/ a.queryNum = b.queryNum /\ a.length > b.length
  \/ a.queryNum = b.queryNum /\ a.length = b.length /\ a.eleId < b.eleId

\* The results of S that no other of S is less than.
Least(S) == {r \in S : \A x \in S : ~Less(x, r)}

\* AddWeight of one result.
Raised(r, iAdd) == [r EXCEPT !.queryNum = @ + iAdd]

\* The key isInQueue knows a result by.
Key(r) == r.eleId + r.pPara
=============================================================================
