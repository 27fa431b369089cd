------------------------------ MODULE TipManage ------------------------------
(***************************************************************************)
(* The task table of the input-suggestion server (CTipManage).             *)
(*                                                                         *)
(* Query threads answer searches from one CTreeArray per task and accept   *)
(* the operations a(dd), d(elete) and u(pdate); one update thread carries  *)
(* the accepted operations out.  The operation list and its check are      *)
(* protected by m_pmtMutex, but searches read m_mapInfo, the CTMInfo       *)
(* objects and the trees without it: the updater frees what it unlinked    *)
(* after a sleep of ONE_SEACH_MAXTIME and nothing else protects a search.  *)
(*                                                                         *)
(* A critical section of m_pmtMutex does not block, so it is one step.     *)
(* Unlocked accesses are one step per shared object read or written.       *)
(* Objects are named by the operation that allocated them: operation k     *)
(* allocates tree k and, when it is an add, CTMInfo k.  0 is NULL.         *)
(***************************************************************************)
EXTENDS Integers

CONSTANTS
  NumTask,       \* the task names are 1..NumTask, in the order of std::map
  TaskList,      \* config.ini's tasklist: the tasks the update thread adds first
  Queries,       \* the query threads
  MaxOps,        \* bound on the number of accepted operations
  QueryBounded   \* TRUE: no request outlasts the updater's sleep

Task == 1 .. NumTask
Ids  == 1 .. MaxOps

ASSUME TipManageAssumption ==
  /\ NumTask \in Nat /\ MaxOps \in Nat
  /\ TaskList \subseteq Task
  /\ QueryBounded \in BOOLEAN

VARIABLES
  so,        \* m_mapSOList: at most one operation per task
  mapInfo,   \* m_mapInfo: the CTMInfo of each task, 0 if the task is absent
  tm,        \* the CTMInfo objects: m_iCurrentUseTreeIdx and m_cTreeArray
  liveInfo,  \* the CTMInfo objects that are allocated
  liveTree,  \* the CTreeArray objects that are allocated
  goodTree,  \* the CTreeArray objects whose index file loaded
  nreq,      \* the number of operations accepted so far
  up,        \* the update thread: its pc and its locals
  waitFor,   \* the requests that were running when the updater went to sleep
  rd,        \* the query threads: pc and locals of the request they serve
  window     \* history: the trees that were current since the request began

vars == <<so, mapInfo, tm, liveInfo, liveTree, goodTree, nreq, up, waitFor, rd, window>>

Ops    == {"a", "d", "u"}
NoSO   == [op |-> "none", state |-> 0, id |-> 0]
NoTM   == [idx |-> -1, slot |-> [s \in {0, 1} |-> 0]]
UpIdle == [pc |-> "idle", task |-> 0, info |-> 0]
NoMap  == [t \in Task |-> 0]
RdIdle == [pc |-> "idle", copy |-> NoMap, pos |-> 0, idx |-> -1, trees |-> {}]

SORecord == [op : Ops \cup {"none"}, state : 0 .. 3, id : 0 .. MaxOps]
TMRecord == [idx : {-1, 0, 1}, slot : [{0, 1} -> 0 .. MaxOps]]
UpRecord == [pc : {"boot", "idle", "addLoad", "addPublish", "delWait", "updLoad",
                   "updSwap", "updWait", "clear"},
             task : 0 .. NumTask, info : 0 .. MaxOps]
RdRecord == [pc : {"idle", "copy", "scan", "slot", "iter", "iterSlot", "torn"},
             copy : [Task -> 0 .. MaxOps], pos : 0 .. NumTask, idx : {-1, 0, 1},
             trees : SUBSET (0 .. MaxOps)]

\* The fields have the types the code gives them; pointers are 0 or an object.
TypeOK ==
  /\ so \in [Task -> SORecord]
  /\ mapInfo \in [Task -> 0 .. MaxOps]
  /\ tm \in [Ids -> TMRecord]
  /\ liveInfo \subseteq Ids /\ liveTree \subseteq Ids /\ goodTree \subseteq Ids
  /\ nreq \in 0 .. MaxOps
  /\ up \in UpRecord
  /\ waitFor \subseteq Queries
  /\ rd \in [Queries -> RdRecord]
  /\ window \in [Queries -> SUBSET Ids]

(***************************************************************************)
(* The tree CTMInfo::GetTreeArray returns, 0 when the task is absent, and  *)
(* the requests that run: a torn one has left the defined behaviours.      *)
(***************************************************************************)
GetTreeArray(i) == IF tm[i].idx \in {0, 1} THEN tm[i].slot[tm[i].idx] ELSE 0
Current(t)      == IF mapInfo[t] = 0 THEN 0 ELSE GetTreeArray(mapInfo[t])
Served          == {Current(t) : t \in Task} \ {0}
Running         == {q \in Queries : rd[q].pc \notin {"idle", "torn"}}

\* The requests inside the unlocked copy, find or iteration of m_mapInfo.
InMap == {q \in Queries : rd[q].pc \in {"copy", "iter", "iterSlot"}}

\* A write to m_mapInfo tears every unlocked read of it that is under way.
TearReaders ==
  rd' = [q \in Queries |-> IF q \in InMap THEN [RdIdle EXCEPT !.pc = "torn"] ELSE rd[q]]

\* Tree k becomes current: every running request may answer from it.
Witness(k) ==
  window' = [q \in Queries |-> IF q \in Running THEN window[q] \cup {k} ELSE window[q]]

Init ==
  /\ so = [t \in Task |-> NoSO]
  /\ mapInfo = NoMap
  /\ tm = [i \in Ids |-> NoTM]
  /\ liveInfo = {} /\ liveTree = {} /\ goodTree = {}
  /\ nreq = 0
  /\ up = [UpIdle EXCEPT !.pc = "boot"]
  /\ waitFor = {}
  /\ rd = [q \in Queries |-> RdIdle]
  /\ window = [q \in Queries |-> {}]

-----------------------------------------------------------------------------
(***************************************************************************)
(* SpecialOperator, under m_pmtMutex.  An operation that is refused ("bad  *)
(* operator", "already one deal to this task") changes nothing.            *)
(***************************************************************************)
\* A mutant: one operation per task is not enforced.
AcceptableTwice(t, op) == (op = "a" <=> mapInfo[t] = 0) /\ nreq < MaxOps

Acceptable(t, op) ==
  /\ op = "a" <=> mapInfo[t] = 0
  /\ so[t] = NoSO
  /\ nreq < MaxOps

Accept(t, op) ==
  /\ so' = [so EXCEPT ![t] = [op |-> op, state |-> 1, id |-> nreq + 1]]
  /\ nreq' = nreq + 1

SpecialOperator(q, t, op) ==
  /\ rd[q].pc = "idle"
  /\ Acceptable(t, op)
  /\ Accept(t, op)
  /\ UNCHANGED <<mapInfo, tm, liveInfo, liveTree, goodTree, up, waitFor, rd, window>>

(***************************************************************************)
(* CInputTip::UpdateThread asks for an add of each configured task before  *)
(* it enters its loop; up.task counts the tasks asked for.                 *)
(***************************************************************************)
Boot ==
  /\ up.pc = "boot" /\ up.task < NumTask
  /\ LET t == up.task + 1 IN
     /\ up' = [up EXCEPT !.task = t]
     /\ IF t \in TaskList /\ Acceptable(t, "a") THEN Accept(t, "a")
                                                ELSE UNCHANGED <<so, nreq>>
  /\ UNCHANGED <<mapInfo, tm, liveInfo, liveTree, goodTree, waitFor, rd, window>>

BootDone ==
  /\ up.pc = "boot" /\ up.task = NumTask
  /\ up' = UpIdle
  /\ UNCHANGED <<so, mapInfo, tm, liveInfo, liveTree, goodTree, nreq, waitFor, rd, window>>

(***************************************************************************)
(* UpdateOperator, the update thread's loop.  Only the first entry of      *)
(* m_mapSOList is looked at; when it is not fresh (state 1) the call       *)
(* returns and the next second finds the same entry: no step.              *)
(***************************************************************************)
First(t) == so[t] # NoSO /\ \A s \in Task : s < t => so[s] = NoSO

Identify(t) ==
  LET op      == so[t].op
      missing == op # "a" /\ mapInfo[t] = 0
      erase   == op = "d" /\ ~missing
  IN  /\ up.pc = "idle"
      /\ First(t) /\ so[t].state = 1
      /\ so' = [so EXCEPT ![t].state = IF missing THEN 3 ELSE 2]
      /\ up' = IF missing THEN up
               ELSE [pc   |-> CASE op = "a" -> "addLoad" [] op = "d" -> "delWait"
                                [] OTHER -> "updLoad",
                     task |-> t,
                     info |-> IF op = "a" THEN so[t].id ELSE mapInfo[t]]
      /\ mapInfo' = IF erase THEN [mapInfo EXCEPT ![t] = 0] ELSE mapInfo
      /\ IF erase THEN TearReaders ELSE UNCHANGED rd
      /\ waitFor' = IF erase THEN Running \ InMap ELSE waitFor
      /\ UNCHANGED <<tm, liveInfo, liveTree, goodTree, nreq, window>>

\* new CTreeArray(task): reads the index file, which loads or not.
LoadTree(k) ==
  /\ liveTree' = liveTree \cup {k}
  /\ goodTree' \in {goodTree, goodTree \cup {k}}

AddLoad ==
  /\ up.pc = "addLoad"
  /\ LET i == up.info IN
     /\ LoadTree(i)
     /\ liveInfo' = liveInfo \cup {i}
     /\ tm' = [tm EXCEPT ![i] = [idx |-> 0, slot |-> [s \in {0, 1} |-> IF s = 0 THEN i ELSE 0]]]
  /\ up' = [up EXCEPT !.pc = "addPublish"]
  /\ UNCHANGED <<so, mapInfo, nreq, waitFor, rd, window>>

\* bChange: the task appeared meanwhile or its index did not load.
AddRefused == mapInfo[up.task] # 0 \/ up.info \notin goodTree

AddPublish ==
  /\ up.pc = "addPublish" /\ ~AddRefused
  /\ mapInfo' = [mapInfo EXCEPT ![up.task] = up.info]
  /\ TearReaders
  /\ Witness(GetTreeArray(up.info))
  /\ up' = [up EXCEPT !.pc = "clear"]
  /\ UNCHANGED <<so, tm, liveInfo, liveTree, goodTree, nreq, waitFor>>

\* The objects are deleted and the loop left: the entry stays in the list.
AddRefuse ==
  /\ up.pc = "addPublish" /\ AddRefused
  /\ liveInfo' = liveInfo \ {up.info}
  /\ liveTree' = liveTree \ {tm[up.info].slot[0]}
  /\ up' = UpIdle
  /\ UNCHANGED <<so, mapInfo, tm, goodTree, nreq, waitFor, rd, window>>

\* Mutants: no sleep, and a sleep until no request runs at all.
SleepNever == TRUE
SleepQuiet == Running = {}

\* sleep(ONE_SEACH_MAXTIME) is over; that no request outlasts it is an assumption.
SleepOver == QueryBounded => waitFor = {}

DelReclaim ==
  /\ up.pc = "delWait" /\ SleepOver
  /\ liveTree' = liveTree \ {tm[up.info].slot[s] : s \in {0, 1}}
  /\ liveInfo' = liveInfo \ {up.info}
  /\ up' = [up EXCEPT !.pc = "clear"]
  /\ waitFor' = {}
  /\ UNCHANGED <<so, mapInfo, tm, goodTree, nreq, rd, window>>

(***************************************************************************)
(* An update loads into the slot that is not in use.  A tree found there   *)
(* is deleted first ("i don't know why the array is not null").            *)
(***************************************************************************)
UpdLoad ==
  LET i    == up.info
      next == 1 - tm[i].idx
      k    == so[up.task].id
  IN  /\ up.pc = "updLoad"
      /\ IF tm[i].idx \in {0, 1}
         THEN /\ liveTree' = (liveTree \ {tm[i].slot[next]}) \cup {k}
              /\ goodTree' \in {goodTree, goodTree \cup {k}}
              /\ tm' = [tm EXCEPT ![i].slot[next] = k]
              /\ up' = [up EXCEPT !.pc = "updSwap"]
         ELSE /\ up' = UpIdle
              /\ UNCHANGED <<tm, liveTree, goodTree>>
      /\ UNCHANGED <<so, mapInfo, liveInfo, nreq, waitFor, rd, window>>

\* A mutant: the index is counted up and not turned round.
UpdSwapNext ==
  /\ up.pc = "updSwap"
  /\ tm' = [tm EXCEPT ![up.info].idx = @ + 1]
  /\ Witness(tm[up.info].slot[1 - tm[up.info].idx])
  /\ waitFor' = Running
  /\ up' = [up EXCEPT !.pc = "updWait"]
  /\ UNCHANGED <<so, mapInfo, liveInfo, liveTree, goodTree, nreq, rd>>

\* The index of the current tree is switched and the sleep begins.
UpdSwap ==
  /\ up.pc = "updSwap"
  /\ tm' = [tm EXCEPT ![up.info].idx = 1 - @]
  /\ Witness(tm[up.info].slot[1 - tm[up.info].idx])
  /\ waitFor' = Running
  /\ up' = [up EXCEPT !.pc = "updWait"]
  /\ UNCHANGED <<so, mapInfo, liveInfo, liveTree, goodTree, nreq, rd>>

\* A mutant: the old tree is deleted and its pointer left in the slot.
UpdReclaimKeepsSlot ==
  /\ up.pc = "updWait" /\ SleepOver
  /\ liveTree' = liveTree \ {tm[up.info].slot[1 - tm[up.info].idx]}
  /\ waitFor' = {}
  /\ up' = [up EXCEPT !.pc = "clear"]
  /\ UNCHANGED <<so, mapInfo, tm, liveInfo, goodTree, nreq, rd, window>>

UpdReclaim ==
  LET i == up.info
      old == 1 - tm[i].idx
  IN  /\ up.pc = "updWait" /\ SleepOver
      /\ liveTree' = liveTree \ {tm[i].slot[old]}
      /\ tm' = [tm EXCEPT ![i].slot[old] = 0]
      /\ waitFor' = {}
      /\ up' = [up EXCEPT !.pc = "clear"]
      /\ UNCHANGED <<so, mapInfo, liveInfo, goodTree, nreq, rd, window>>

\* A mutant: the first operation is erased instead of the one carried out.
ClearFirst ==
  /\ up.pc = "clear"
  /\ so' = [t \in Task |-> IF First(t) THEN NoSO ELSE so[t]]
  /\ up' = UpIdle
  /\ UNCHANGED <<mapInfo, tm, liveInfo, liveTree, goodTree, nreq, waitFor, rd, window>>

ClearOperator ==
  /\ up.pc = "clear"
  /\ so' = [so EXCEPT ![up.task] = NoSO]
  /\ up' = UpIdle
  /\ UNCHANGED <<mapInfo, tm, liveInfo, liveTree, goodTree, nreq, waitFor, rd, window>>

-----------------------------------------------------------------------------
(***************************************************************************)
(* op=is and op=dg.  SearchTip passes m_mapInfo by value, so the request   *)
(* copies the map without the mutex; SearchResult then asks every CTMInfo  *)
(* of its copy for the current tree (two reads: the index, the slot) and   *)
(* searches the trees it was given.  SearchDebug finds one task instead.   *)
(***************************************************************************)
BeginSearch(q) ==
  /\ rd[q].pc = "idle"
  /\ rd' = [rd EXCEPT ![q].pc = "copy"]
  /\ window' = [window EXCEPT ![q] = Served]
  /\ UNCHANGED <<so, mapInfo, tm, liveInfo, liveTree, goodTree, nreq, up, waitFor>>

CopyMap(q) ==
  /\ rd[q].pc = "copy"
  /\ \E D \in {Task} \cup {{t} : t \in Task} :
        rd' = [rd EXCEPT ![q].pc = "scan",
                         ![q].copy = [t \in Task |-> IF t \in D THEN mapInfo[t] ELSE 0]]
  /\ UNCHANGED <<so, mapInfo, tm, liveInfo, liveTree, goodTree, nreq, up, waitFor, window>>

\* The entry of the copy the scan is at: the first not yet taken.
ScanAt(q, t) == rd[q].copy[t] # 0 /\ \A s \in Task : s < t => rd[q].copy[s] = 0

ScanIdx(q, t) ==
  /\ rd[q].pc = "scan" /\ ScanAt(q, t)
  /\ rd' = [rd EXCEPT ![q].pc = "slot", ![q].idx = tm[rd[q].copy[t]].idx]
  /\ UNCHANGED <<so, mapInfo, tm, liveInfo, liveTree, goodTree, nreq, up, waitFor, window>>

\* A mutant: the spare slot is read.
TreeReadSpare(q, t) ==
  IF rd[q].idx \in {0, 1} THEN tm[rd[q].copy[t]].slot[1 - rd[q].idx] ELSE 0

\* The tree the index read before selects in the CTMInfo of task t.
TreeRead(q, t) ==
  IF rd[q].idx \in {0, 1} THEN tm[rd[q].copy[t]].slot[rd[q].idx] ELSE 0

ScanSlot(q, t) ==
  /\ rd[q].pc = "slot" /\ ScanAt(q, t)
  /\ rd' = [rd EXCEPT ![q].pc = "scan", ![q].copy[t] = 0, ![q].idx = -1,
                      ![q].trees = @ \cup {TreeRead(q, t)}]
  /\ UNCHANGED <<so, mapInfo, tm, liveInfo, liveTree, goodTree, nreq, up, waitFor, window>>

\* The request is answered; until then it may use every tree it collected.
EndRequest(q) ==
  /\ rd' = [rd EXCEPT ![q] = RdIdle]
  /\ waitFor' = waitFor \ {q}
  /\ window' = [window EXCEPT ![q] = {}]
  /\ UNCHANGED <<so, mapInfo, tm, liveInfo, liveTree, goodTree, nreq, up>>

EndSearch(q) ==
  /\ rd[q].pc = "scan" /\ rd[q].copy = NoMap
  /\ EndRequest(q)

(***************************************************************************)
(* op=xuan.  SpecialXuan walks m_mapInfo itself, without the mutex, and    *)
(* asks the current tree of each task for its size; copy holds the CTMInfo *)
(* the walk is at.                                                         *)
(***************************************************************************)
BeginXuan(q) ==
  /\ rd[q].pc = "idle"
  /\ rd' = [rd EXCEPT ![q].pc = "iter"]
  /\ window' = [window EXCEPT ![q] = Served]
  /\ UNCHANGED <<so, mapInfo, tm, liveInfo, liveTree, goodTree, nreq, up, waitFor>>

XuanAt(q, t) ==
  /\ t > rd[q].pos /\ mapInfo[t] # 0
  /\ \A s \in Task : rd[q].pos < s /\ s < t => mapInfo[s] = 0

XuanIdx(q, t) ==
  /\ rd[q].pc = "iter" /\ XuanAt(q, t)
  /\ rd' = [rd EXCEPT ![q].pc = "iterSlot", ![q].pos = t, ![q].copy[t] = mapInfo[t],
                      ![q].idx = tm[mapInfo[t]].idx, ![q].trees = {}]
  /\ UNCHANGED <<so, mapInfo, tm, liveInfo, liveTree, goodTree, nreq, up, waitFor, window>>

XuanSlot(q, t) ==
  /\ rd[q].pc = "iterSlot" /\ ScanAt(q, t)
  /\ rd' = [rd EXCEPT ![q].pc = "iter", ![q].copy[t] = 0, ![q].idx = -1,
                      ![q].trees = {TreeRead(q, t)}]
  /\ UNCHANGED <<so, mapInfo, tm, liveInfo, liveTree, goodTree, nreq, up, waitFor, window>>

XuanEnd(q) ==
  /\ rd[q].pc = "iter" /\ \A t \in Task : ~XuanAt(q, t)
  /\ EndRequest(q)

-----------------------------------------------------------------------------
Updater ==
  \/ Boot \/ BootDone
  \/ \E t \in Task : Identify(t)
  \/ AddLoad \/ AddPublish \/ AddRefuse
  \/ DelReclaim
  \/ UpdLoad \/ UpdSwap \/ UpdReclaim
  \/ ClearOperator

Request(q) ==
  \/ BeginSearch(q) \/ CopyMap(q) \/ EndSearch(q)
  \/ \E t \in Task : ScanIdx(q, t) \/ ScanSlot(q, t)
  \/ BeginXuan(q) \/ XuanEnd(q)
  \/ \E t \in Task : XuanIdx(q, t) \/ XuanSlot(q, t)

Next ==
  \/ Updater
  \/ \E q \in Queries : Request(q)
  \/ \E q \in Queries, t \in Task, op \in Ops : SpecialOperator(q, t, op)

Spec == Init /\ [][Next]_vars

\* Every thread keeps running; nobody has to send requests or operations.
Progress(q) == CopyMap(q) \/ EndSearch(q) \/ XuanEnd(q)
               \/ \E t \in Task : \/ ScanIdx(q, t) \/ ScanSlot(q, t)
                                 \/ XuanIdx(q, t) \/ XuanSlot(q, t)

Fairness == WF_vars(Updater) /\ \A q \in Queries : WF_vars(Progress(q))
FairSpec == Spec /\ Fairness

-----------------------------------------------------------------------------
(***************************************************************************)
(* Memory safety of the unlocked searches: every CTMInfo a request still   *)
(* has to ask and every tree it may still search is allocated, and no      *)
(* search was given a NULL tree, while the updater deletes behind it.      *)
(***************************************************************************)
NoUseAfterFree ==
  \A q \in Queries :
    /\ \A t \in Task : rd[q].copy[t] \in liveInfo \cup {0}
    /\ rd[q].trees \subseteq liveTree

(***************************************************************************)
(* A request answers only from trees that were current at some moment      *)
(* since it began: never from a version that was retired before it or that *)
(* was loaded and not published.                                           *)
(***************************************************************************)
AnswersFromServedTrees ==
  \A q \in Queries : rd[q].trees \subseteq window[q]

(***************************************************************************)
(* Everything allocated is owned: by a task of m_mapInfo, or by the        *)
(* updater between new and publish or between unlink and delete.  Whatever *)
(* way an operation ends, it leaks neither a CTMInfo nor a tree.           *)
(***************************************************************************)
Owned ==
  ({mapInfo[t] : t \in Task} \ {0})
    \cup (IF up.pc \in {"addPublish", "delWait"} THEN {up.info} ELSE {})

NoLeak ==
  /\ liveInfo = Owned
  /\ liveTree = (UNION {{tm[i].slot[s] : s \in {0, 1}} : i \in Owned}) \ {0}

(***************************************************************************)
(* An update finds the other slot empty (UpdateOperator:155 "this should   *)
(* not happen here"), because the update before it emptied that slot.      *)
(***************************************************************************)
UpdateFindsSlotEmpty ==
  up.pc = "updLoad" =>
    /\ tm[up.info].idx \in {0, 1}
    /\ tm[up.info].slot[1 - tm[up.info].idx] = 0

(***************************************************************************)
(* The check SpecialOperator made when it accepted an operation still      *)
(* holds when the updater takes it up, however long it waited: no entry    *)
(* ends in state 3, where it would stay for ever.                          *)
(***************************************************************************)
AcceptedStaysValid ==
  \A t \in Task :
    /\ so[t].state # 3
    /\ so[t].state = 1 => (so[t].op = "a" <=> mapInfo[t] = 0)

(***************************************************************************)
(* The operation list and the current trees implement TaskCatalog.         *)
(***************************************************************************)
Catalog == INSTANCE TaskCatalog WITH
  pending  <- [t \in Task |-> [op |-> so[t].op, id |-> so[t].id]],
  served   <- [t \in Task |-> Current(t)],
  accepted <- nreq

ImplementsCatalog == Catalog!Spec

(***************************************************************************)
(* Under fair threads every accepted operation leaves the list, with two   *)
(* exceptions.  UpdateOperator always takes the first entry by name (lines *)
(* 65, 85): an add that failed stays in it and blocks the operations on    *)
(* its task and on later ones; and operations on an earlier name that      *)
(* never stop coming starve those on a later one.                          *)
(***************************************************************************)
Blocked(t) == \E s \in Task : s <= t /\ so[s].state = 2 /\ up.pc = "idle"
Starved(t) == \E s \in Task : s < t /\ []<>(so[s] # NoSO) /\ []<>(so[s] = NoSO)

OperationsEnd ==
  \A t \in Task : (so[t] # NoSO ~> (so[t] = NoSO \/ Blocked(t))) \/ Starved(t)

-----------------------------------------------------------------------------
(***************************************************************************)
(* What the code says of itself and does not keep (see the README).        *)
(***************************************************************************)

\* TipManage.h:15: state 2 means "being processed": by the update thread.
ProcessingHasAProcessor ==
  \A t \in Task : so[t].state = 2 => up.pc # "idle" /\ up.task = t

\* TipManage.cpp:210: m_mapInfo is passed by value "to run normally without the
\* lock".  The copy itself reads the map, which the updater may be writing.
CopyIsUntorn == \A q \in Queries : rd[q].pc # "torn"
=============================================================================
