----------------------------- MODULE MCTopResult -----------------------------
(* Small instances of TopResult. *)
EXTENDS TopResult

\* Two trees with keys that do not meet; numbers that tie and one that is 0.
MCEntry ==
  {[eleId |-> id, pPara |-> tree, length |-> 2 - (id % 2), queryNum |-> num] :
      id \in 1 .. 3, tree \in {0, 10}, num \in 0 .. 2}
=============================================================================
