---------------------------- MODULE MCTipManage ----------------------------
(* Small instances of TipManage. *)
EXTENDS TipManage, FiniteSets, TLC

AllTasks    == Task
QuerySymmetry == Permutations(Queries)

(***************************************************************************)
(* Operations without end.  An operation's number only names the objects   *)
(* it allocated; Recycle renames those still in use, in their order, to    *)
(* 1, 2, ... whenever a number is out of use, so that MaxOps bounds the    *)
(* objects alive at a time and not the operations accepted.                *)
(***************************************************************************)
Named ==
  ({so[t].id : t \in Task} \cup {mapInfo[t] : t \in Task} \cup {up.info} \cup liveTree
     \cup UNION {rd[q].trees \cup {rd[q].copy[t] : t \in Task} : q \in Queries}) \ {0}
Used == Named \cup liveInfo \cup UNION {{tm[i].slot[s] : s \in {0, 1}} \ {0} : i \in Named}

New(k)     == Cardinality({j \in Used : j <= k})
Renamed(k) == IF k = 0 THEN 0 ELSE New(k)
Old(k)     == CHOOSE j \in Used : New(j) = k
NewSet(S)  == {New(k) : k \in S \cap Used}

Recycle ==
  /\ Used # 1 .. nreq
  /\ nreq' = Cardinality(Used)
  /\ so' = [t \in Task |-> [so[t] EXCEPT !.id = Renamed(@)]]
  /\ mapInfo' = [t \in Task |-> Renamed(mapInfo[t])]
  /\ tm' = [i \in Ids |-> IF i > nreq' THEN NoTM
                          ELSE [tm[Old(i)] EXCEPT !.slot = [s \in {0, 1} |-> Renamed(@[s])]]]
  /\ liveInfo' = NewSet(liveInfo) /\ liveTree' = NewSet(liveTree) /\ goodTree' = NewSet(goodTree)
  /\ up' = [up EXCEPT !.info = Renamed(@)]
  /\ rd' = [q \in Queries |-> [rd[q] EXCEPT !.copy = [t \in Task |-> Renamed(@[t])],
                                           !.trees = {Renamed(k) : k \in @}]]
  /\ window' = [q \in Queries |-> NewSet(window[q])]
  /\ UNCHANGED waitFor

LiveNext == Recycle \/ (Used = 1 .. nreq /\ Next)
LiveSpec == Init /\ [][LiveNext]_vars /\ WF_vars(Recycle) /\ Fairness
=============================================================================
