----------------------------- MODULE LockedQueue -----------------------------
(***************************************************************************)
(* LockedQueue<T, SIZE>, the ring that joins the server's threads: the     *)
(* listener to the reader, the reader to the query threads, the query      *)
(* threads to the writer.                                                  *)
(*                                                                         *)
(* push and pop run under the mutex except while they wait on notfull and  *)
(* notempty; pthread_cond_signal wakes one waiter, a waiter may also wake  *)
(* by itself, and both look at the condition again.  pop returns a         *)
(* REFERENCE to the slot and the caller copies the item after the unlock:  *)
(* the slot is already free for push then.                                 *)
(***************************************************************************)
EXTENDS Integers, Sequences, FiniteSets

CONSTANTS
  SIZE,        \* the slots of the ring; one of them stays free
  Producers,   \* the threads that push
  Consumers,   \* the threads that pop in a loop
  MaxItems     \* bound on the number of items pushed

Slot == 0 .. SIZE - 1
Item == 1 .. MaxItems

ASSUME LockedQueueAssumption ==
  /\ SIZE \in Nat /\ SIZE > 1
  /\ MaxItems \in Nat
  /\ IsFiniteSet(Producers) /\ IsFiniteSet(Consumers)

VARIABLES
  queue, begin, end,   \* the fields of LockedQueue
  prod,                \* the producers: pc and the item they push
  cons,                \* the consumers: pc and the slot pop returned
  made,                \* the number of items the producers have made
  popped,              \* history: the item pop returned, per consumer
  received             \* the items the consumers have copied out

queueVars == <<queue, begin, end, prod, cons, made, popped, received>>

\* The fields stay inside the ring, whatever is pushed and popped.
QueueTypeOK ==
  /\ queue \in [Slot -> Item \cup {0}]
  /\ begin \in Slot /\ end \in Slot
  /\ prod \in [Producers -> [pc : {"out", "push", "wait"}, item : Item \cup {0}]]
  /\ cons \in [Consumers -> [pc : {"out", "pop", "wait", "copy"}, slot : Slot]]
  /\ made \in 0 .. MaxItems
  /\ popped \in [Consumers -> Item \cup {0}]
  /\ received \in Seq(Item \cup {0})

QueueInit ==
  /\ queue = [s \in Slot |-> 0]
  /\ begin = 0 /\ end = 0
  /\ prod = [p \in Producers |-> [pc |-> "out", item |-> 0]]
  /\ cons = [c \in Consumers |-> [pc |-> "out", slot |-> 0]]
  /\ made = 0
  /\ popped = [c \in Consumers |-> 0]
  /\ received = <<>>

\* A mutant: full() forgets that the ring wraps.
FullNoWrap == end + 1 = begin

Empty == begin = end
Full  == (end + 1 + SIZE) % SIZE = begin

\* A mutant: the index runs out of the ring.
NextSlotNoWrap(i) == i + 1

\* if(++i == SIZE) i = 0, of both push and pop.
NextSlot(i) == IF i + 1 = SIZE THEN 0 ELSE i + 1

\* A mutant: the signal is forgotten.
SignalNobody(threads, T, pc) == {threads}

\* pthread_cond_signal: one of the waiting threads goes back to its while.
Signal(threads, T, pc) ==
  IF \E x \in T : threads[x].pc = "wait"
  THEN {[threads EXCEPT ![w].pc = pc] : w \in {x \in T : threads[x].pc = "wait"}}
  ELSE {threads}

-----------------------------------------------------------------------------
CallPush(p) ==
  /\ prod[p].pc = "out" /\ made < MaxItems
  /\ made' = made + 1
  /\ prod' = [prod EXCEPT ![p] = [pc |-> "push", item |-> made + 1]]
  /\ UNCHANGED <<queue, begin, end, cons, popped, received>>

WaitNotFull(p) ==
  /\ prod[p].pc = "push" /\ Full
  /\ prod' = [prod EXCEPT ![p].pc = "wait"]
  /\ UNCHANGED <<queue, begin, end, cons, made, popped, received>>

Push(p) ==
  /\ prod[p].pc = "push" /\ ~Full
  /\ queue' = [queue EXCEPT ![end] = prod[p].item]
  /\ end' = NextSlot(end)
  /\ cons' \in Signal(cons, Consumers, "pop")
  /\ prod' = [prod EXCEPT ![p] = [pc |-> "out", item |-> 0]]
  /\ UNCHANGED <<begin, made, popped, received>>

CallPop(c) ==
  /\ cons[c].pc = "out"
  /\ cons' = [cons EXCEPT ![c].pc = "pop"]
  /\ UNCHANGED <<queue, begin, end, prod, made, popped, received>>

WaitNotEmpty(c) ==
  /\ cons[c].pc = "pop" /\ Empty
  /\ cons' = [cons EXCEPT ![c].pc = "wait"]
  /\ UNCHANGED <<queue, begin, end, prod, made, popped, received>>

Pop(c) ==
  /\ cons[c].pc = "pop" /\ ~Empty
  /\ begin' = NextSlot(begin)
  /\ prod' \in Signal(prod, Producers, "push")
  /\ cons' = [cons EXCEPT ![c] = [pc |-> "copy", slot |-> begin]]
  /\ popped' = [popped EXCEPT ![c] = queue[begin]]
  /\ UNCHANGED <<queue, end, made, received>>

\* T task = lq.pop(): the copy through the reference, after the unlock.
Copy(c) ==
  /\ cons[c].pc = "copy"
  /\ received' = Append(received, queue[cons[c].slot])
  /\ cons' = [cons EXCEPT ![c].pc = "out"]
  /\ UNCHANGED <<queue, begin, end, prod, made, popped>>

WakeProducer(p) ==
  /\ prod[p].pc = "wait"
  /\ prod' = [prod EXCEPT ![p].pc = "push"]
  /\ UNCHANGED <<queue, begin, end, cons, made, popped, received>>

WakeConsumer(c) ==
  /\ cons[c].pc = "wait"
  /\ cons' = [cons EXCEPT ![c].pc = "pop"]
  /\ UNCHANGED <<queue, begin, end, prod, made, popped, received>>

Producer(p) == WaitNotFull(p) \/ Push(p)
Consumer(c) == CallPop(c) \/ WaitNotEmpty(c) \/ Pop(c) \/ Copy(c)

QueueNext ==
  \/ \E p \in Producers : CallPush(p) \/ Producer(p) \/ WakeProducer(p)
  \/ \E c \in Consumers : Consumer(c) \/ WakeConsumer(c)

QueueSpec == QueueInit /\ [][QueueNext]_queueVars

\* Every thread that can run runs; nobody wakes up by himself.
FairQueueSpec ==
  /\ QueueSpec
  /\ \A p \in Producers : WF_queueVars(Producer(p))
  /\ \A c \in Consumers : WF_queueVars(Consumer(c))

-----------------------------------------------------------------------------
(***************************************************************************)
(* What pop returned is still there when the caller copies it: no push of  *)
(* the time in between wrote to the slot.                                  *)
(***************************************************************************)
ReferenceIntact ==
  \A c \in Consumers : cons[c].pc = "copy" => queue[cons[c].slot] = popped[c]

\* The number of items in the ring, and the items, oldest first.
Used    == IF begin <= end THEN end - begin ELSE end - begin + SIZE
Plus(k) == IF begin + k < SIZE THEN begin + k ELSE begin + k - SIZE
InRing  == [k \in 1 .. Used |-> queue[Plus(k - 1)]]

\* The threads of T at pc.
At(threads, T, pc) == {x \in T : threads[x].pc = pc}

(***************************************************************************)
(* A signal wakes one thread and that is enough: when consumers wait, as   *)
(* many of the others are on their way to pop as there are items, and when *)
(* producers wait, as many are on their way to push as there is room.      *)
(***************************************************************************)
EnoughAwake ==
  /\ At(cons, Consumers, "wait") # {} => Used <= Cardinality(At(cons, Consumers, "pop"))
  /\ At(prod, Producers, "wait") # {} => SIZE - 1 - Used <= Cardinality(At(prod, Producers, "push"))

(***************************************************************************)
(* With one consumer the ring is a FIFO of its SIZE - 1 items and the one  *)
(* that is being copied: nothing is lost, changed, doubled or overtaken.   *)
(***************************************************************************)
Copying == At(cons, Consumers, "copy")

Fifo == INSTANCE BoundedFifo WITH
  Capacity <- SIZE,
  q        <- (IF Copying = {} THEN <<>> ELSE <<queue[cons[CHOOSE c \in Copying : TRUE].slot]>>)
                \o InRing,
  taken    <- received

ImplementsFifo == Fifo!Spec

(***************************************************************************)
(* Under fair threads an item in the ring is copied out by a consumer.     *)
(***************************************************************************)
ItemsArrive ==
  \A x \in Item : (\E k \in 1 .. Used : InRing[k] = x) ~> (\E k \in DOMAIN received : received[k] = x)
=============================================================================
