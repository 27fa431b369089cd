------------------------------ MODULE BestQueue ------------------------------
(***************************************************************************)
(* What TopResult promises, without the heap: it keeps the Capacity best   *)
(* results it was given and hands them out from the worst to the best.     *)
(***************************************************************************)
EXTENDS ResultElement, Sequences

CONSTANTS
  Capacity,   \* the number of results asked for
  Raise       \* the weights added to all of them

VARIABLES
  kept,   \* the results kept
  out     \* the results handed out

qvars == <<kept, out>>

BQInit == kept = {} /\ out = <<>>

\* There is room, or a worst one that is not better gives way.
Keep(r) ==
  /\ out = <<>>
  /\ r \notin kept
  /\ \/ Cardinality(kept) < Capacity /\ kept' = kept \cup {r}
     \/ /\ Cardinality(kept) = Capacity
        /\ \E worst \in Least(kept) :
             ~Less(r, worst) /\ kept' = (kept \ {worst}) \cup {r}
  /\ UNCHANGED out

RaiseAll(iAdd) ==
  /\ out = <<>>
  /\ kept' = {Raised(r, iAdd) : r \in kept}
  /\ UNCHANGED out

HandOut ==
  \E worst \in Least(kept) :
    /\ kept' = kept \ {worst}
    /\ out' = Append(out, worst)

BQNext ==
  \/ \E r \in kept' \ kept : Keep(r)
  \/ \E iAdd \in Raise : RaiseAll(iAdd)
  \/ HandOut

BQSpec == BQInit /\ [][BQNext]_qvars
=============================================================================
