----------------------------- MODULE BoundedFifo -----------------------------
(***************************************************************************)
(* What a queue between two threads of the server promises: every item     *)
(* that was put is taken once, unchanged and in the order of the puts, and *)
(* no more than Capacity items are on their way.                           *)
(***************************************************************************)
EXTENDS Naturals, SequencesExt

CONSTANTS Item, Capacity

VARIABLES
  q,      \* the items on their way, oldest first
  taken   \* the items taken so far, in the order they were taken

vars == <<q, taken>>

Init == q = <<>> /\ taken = <<>>

Put(x) ==
  /\ x \notin ToSet(q) \cup ToSet(taken)
  /\ Len(q) < Capacity
  /\ q' = Append(q, x)
  /\ UNCHANGED taken

Take ==
  /\ q # <<>>
  /\ taken' = Append(taken, Head(q))
  /\ q' = Tail(q)

Next == Take \/ \E x \in Item : Put(x)

Spec == Init /\ [][Next]_vars
=============================================================================
