----------------------------- MODULE TaskCatalog -----------------------------
(***************************************************************************)
(* What the task table promises to its operators, without threads, objects *)
(* or memory: every task is served in one version or not at all, an        *)
(* accepted operation takes effect once, on its own task and in one step,  *)
(* and leaves the operation list only after it took effect.  The version   *)
(* an add or an update brings is named by the operation's number.          *)
(***************************************************************************)
EXTENDS Integers

CONSTANTS Task, MaxOps

VARIABLES
  pending,   \* the operation of each task, and its number
  served,    \* the version each task is served in, 0 if it is not
  accepted   \* the number of operations accepted

vars == <<pending, served, accepted>>

Nothing == [op |-> "none", id |-> 0]

\* The version task t is served in once its pending operation took effect.
Target(t) == IF pending[t].op = "d" THEN 0 ELSE pending[t].id

Init ==
  /\ pending = [t \in Task |-> Nothing]
  /\ served = [t \in Task |-> 0]
  /\ accepted = 0

Accept(t, op) ==
  /\ accepted < MaxOps
  /\ pending[t] = Nothing
  /\ (op = "a") <=> (served[t] = 0)
  /\ accepted' = accepted + 1
  /\ pending' = [pending EXCEPT ![t] = [op |-> op, id |-> accepted']]
  /\ UNCHANGED served

TakeEffect(t) ==
  /\ pending[t] # Nothing
  /\ served[t] # Target(t)
  /\ served' = [served EXCEPT ![t] = Target(t)]
  /\ UNCHANGED <<pending, accepted>>

Retire(t) ==
  /\ pending[t] # Nothing
  /\ served[t] = Target(t)
  /\ pending' = [pending EXCEPT ![t] = Nothing]
  /\ UNCHANGED <<served, accepted>>

Next ==
  \E t \in Task :
    \/ \E op \in {"a", "d", "u"} : Accept(t, op)
    \/ TakeEffect(t)
    \/ Retire(t)

Spec == Init /\ [][Next]_vars
=============================================================================
