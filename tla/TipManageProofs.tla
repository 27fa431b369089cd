--------------------------- MODULE TipManageProofs ---------------------------
(***************************************************************************)
(* Theorems about TipManage, for every number of tasks, query threads and  *)
(* operations.                                                             *)
(***************************************************************************)
EXTENDS TipManage, TLAPS

(***************************************************************************)
(* The updater's part of the inductive invariant.                          *)
(***************************************************************************)
AddPc == {"addLoad", "addPublish"}
UpdPc == {"updLoad", "updSwap", "updWait"}
Working == up.pc \notin {"boot", "idle"}

\* The operation the updater works on, and the entries it has not taken up.
OpInv ==
  /\ \A t \in Task :
       /\ so[t].op = "none" => so[t] = NoSO
       /\ so[t] # NoSO => so[t].state \in {1, 2} /\ so[t].id \in 1 .. nreq
       /\ so[t].state = 1 => (so[t].op = "a" <=> mapInfo[t] = 0)
  /\ \A s, t \in Task : s # t /\ so[s] # NoSO => so[s].id # so[t].id
  /\ Working => up.task \in Task /\ so[up.task].state = 2
  /\ up.pc \in AddPc => so[up.task].op = "a" /\ up.info = so[up.task].id
  /\ up.pc = "delWait" => so[up.task].op = "d" /\ mapInfo[up.task] = 0 /\ up.info # 0
  /\ up.pc \in UpdPc => so[up.task].op = "u" /\ up.info = mapInfo[up.task] /\ up.info # 0

\* The operations that have allocated nothing yet.
Untouched(t) ==
  /\ so[t] # NoSO
  /\ so[t].state = 1 \/ (up.task = t /\ up.pc \in {"addLoad", "updLoad"})

\* Names of objects are fresh when they are allocated.
FreshInv ==
  /\ \A t \in Task : Untouched(t) => so[t].id \notin liveInfo \cup liveTree
  /\ liveInfo \subseteq 1 .. nreq
  /\ liveTree \subseteq 1 .. nreq

\* Who owns which CTMInfo and which tree, and which slots are in use.
OwnInv ==
  /\ NoLeak
  /\ \A s, t \in Task : mapInfo[s] # 0 /\ mapInfo[s] = mapInfo[t] => s = t
  /\ up.pc \in {"addPublish", "delWait"} => \A t \in Task : mapInfo[t] # up.info
  /\ up.pc = "addPublish" => tm[up.info].idx = 0
  /\ \A i \in Owned :
       /\ tm[i].idx \in {0, 1}
       /\ tm[i].slot[tm[i].idx] # 0
       /\ tm[i].slot[1 - tm[i].idx] # 0 <=> (i = up.info /\ up.pc \in {"updSwap", "updWait"})
  /\ \A i, j \in Owned : \A a, b \in {0, 1} :
       tm[i].slot[a] # 0 /\ tm[i].slot[a] = tm[j].slot[b] => i = j /\ a = b

UpInv == TypeOK /\ OpInv /\ FreshInv /\ OwnInv

-----------------------------------------------------------------------------
(***************************************************************************)
(* The requests and the mutex-free reads leave the updater's state alone.  *)
(***************************************************************************)
upVars == <<so, mapInfo, tm, liveInfo, liveTree, goodTree, nreq, up>>

\* UpInv without the types speaks of upVars only.
LEMMA UpFrame ==
  ASSUME OpInv, FreshInv, OwnInv, UNCHANGED upVars
  PROVE  OpInv' /\ FreshInv' /\ OwnInv'
<1>1. OpInv'
  BY DEF OpInv, upVars, Working, AddPc, UpdPc
<1>2. FreshInv'
  BY DEF FreshInv, upVars, Untouched
<1>3. OwnInv'
  BY DEF OwnInv, upVars, NoLeak, Owned
<1>4. QED
  BY <1>1, <1>2, <1>3

\* The current trees are objects.
LEMMA ServedType ==
  ASSUME TypeOK
  PROVE  Served \subseteq Ids /\ \A t \in Task : Current(t) \in 0 .. MaxOps
<1>1. MaxOps \in Nat /\ 0 .. MaxOps = Ids \cup {0}
  BY TipManageAssumption DEF Ids
<1>2. ASSUME NEW t \in Task PROVE Current(t) \in 0 .. MaxOps
  <2>1. mapInfo[t] \in Ids \cup {0}
    BY <1>1 DEF TypeOK
  <2>2. mapInfo[t] \in Ids => GetTreeArray(mapInfo[t]) \in 0 .. MaxOps
    BY <1>1 DEF TypeOK, GetTreeArray, TMRecord
  <2> QED
    BY <1>1, <2>1, <2>2 DEF Current
<1> QED
  BY <1>1, <1>2 DEF Served

\* A step that only moves reader q, and window[q], keeps the types.
LEMMA ReaderType ==
  ASSUME TypeOK, NEW q \in Queries, NEW r \in RdRecord, NEW w \in SUBSET Ids,
         rd' = [rd EXCEPT ![q] = r],
         window' \in {window, [window EXCEPT ![q] = w]},
         waitFor' \in {waitFor, waitFor \ {q}},
         UNCHANGED upVars
  PROVE  TypeOK'
BY DEF TypeOK, upVars

LEMMA TreeReadType ==
  ASSUME TypeOK, NEW q \in Queries, NEW t \in Task, ScanAt(q, t)
  PROVE  TreeRead(q, t) \in 0 .. MaxOps
BY TipManageAssumption DEF TreeRead, ScanAt, TypeOK, RdRecord, TMRecord, Ids

LEMMA RequestType ==
  ASSUME TypeOK, NEW q \in Queries, Request(q)
  PROVE  TypeOK' /\ UNCHANGED upVars
<1>0. rd[q] \in RdRecord /\ NoMap \in [Task -> 0 .. MaxOps] /\ 0 \in 0 .. NumTask
  BY TipManageAssumption DEF TypeOK, NoMap, Task
<1>1. CASE BeginSearch(q)
  <2> DEFINE r == [rd[q] EXCEPT !.pc = "copy"]
  <2>1. r \in RdRecord
    BY <1>0 DEF RdRecord
  <2>2. QED
    BY <1>1, <2>1, ReaderType, ServedType DEF BeginSearch, upVars
<1>2. CASE CopyMap(q)
  <2>1. PICK D \in {Task} \cup {{t} : t \in Task} :
          rd' = [rd EXCEPT ![q].pc = "scan",
                           ![q].copy = [t \in Task |-> IF t \in D THEN mapInfo[t] ELSE 0]]
    BY <1>2 DEF CopyMap
  <2> DEFINE m == [t \in Task |-> IF t \in D THEN mapInfo[t] ELSE 0]
             r == [rd[q] EXCEPT !.pc = "scan", !.copy = m]
  <2>2. m \in [Task -> 0 .. MaxOps]
    BY TipManageAssumption DEF TypeOK
  <2>3. r \in RdRecord
    BY <1>0, <2>2 DEF RdRecord
  <2>4. rd' = [rd EXCEPT ![q] = r]
    BY <2>1
  <2>5. QED
    BY <1>2, <2>3, <2>4, ReaderType DEF CopyMap, upVars
<1>3. CASE EndSearch(q) \/ XuanEnd(q)
  <2>1. RdIdle \in RdRecord
    BY <1>0 DEF RdRecord, RdIdle
  <2>2. QED
    BY <1>3, <2>1, ReaderType DEF EndSearch, XuanEnd, EndRequest, upVars
<1>4. ASSUME NEW t \in Task, ScanIdx(q, t)
      PROVE  TypeOK' /\ UNCHANGED upVars
  <2> DEFINE x == tm[rd[q].copy[t]].idx
             r == [rd[q] EXCEPT !.pc = "slot", !.idx = x]
  <2>1. x \in {-1, 0, 1}
    BY <1>0, <1>4 DEF ScanIdx, ScanAt, TMRecord, RdRecord, TypeOK, Ids
  <2>2. r \in RdRecord
    BY <1>0, <2>1 DEF RdRecord
  <2>3. rd' = [rd EXCEPT ![q] = r]
    BY <1>4 DEF ScanIdx
  <2>4. QED
    BY <1>4, <2>2, <2>3, ReaderType DEF ScanIdx, upVars
<1>5. ASSUME NEW t \in Task, ScanSlot(q, t)
      PROVE  TypeOK' /\ UNCHANGED upVars
  <2> DEFINE m == [rd[q].copy EXCEPT ![t] = 0]
             r == [rd[q] EXCEPT !.pc = "scan", !.copy = m, !.idx = -1,
                                !.trees = @ \cup {TreeRead(q, t)}]
  <2>1. TreeRead(q, t) \in 0 .. MaxOps
    BY <1>5, TreeReadType DEF ScanSlot
  <2>2. m \in [Task -> 0 .. MaxOps]
    BY <1>0, TipManageAssumption DEF RdRecord
  <2>3. r \in RdRecord
    BY <1>0, <2>1, <2>2 DEF RdRecord
  <2>4. rd' = [rd EXCEPT ![q] = r]
    BY <1>5 DEF ScanSlot
  <2>5. QED
    BY <1>5, <2>3, <2>4, ReaderType DEF ScanSlot, upVars
<1>6. CASE BeginXuan(q)
  <2> DEFINE r == [rd[q] EXCEPT !.pc = "iter"]
  <2>1. r \in RdRecord
    BY <1>0 DEF RdRecord
  <2>2. QED
    BY <1>6, <2>1, ReaderType, ServedType DEF BeginXuan, upVars
<1>7. ASSUME NEW t \in Task, XuanIdx(q, t)
      PROVE  TypeOK' /\ UNCHANGED upVars
  <2> DEFINE m == [rd[q].copy EXCEPT ![t] = mapInfo[t]]
             x == tm[mapInfo[t]].idx
             r == [rd[q] EXCEPT !.pc = "iterSlot", !.pos = t, !.copy = m, !.idx = x,
                                !.trees = {}]
  <2>1. t \in 0 .. NumTask /\ mapInfo[t] \in Ids /\ mapInfo[t] \in 0 .. MaxOps
    BY <1>7, TipManageAssumption DEF Task, TypeOK, XuanIdx, XuanAt, Ids
  <2>2. x \in {-1, 0, 1}
    BY <2>1 DEF TypeOK, TMRecord
  <2>3. m \in [Task -> 0 .. MaxOps]
    BY <1>0, <2>1 DEF RdRecord
  <2>4. r \in RdRecord
    BY <1>0, <2>1, <2>2, <2>3 DEF RdRecord
  <2>5. rd' = [rd EXCEPT ![q] = r]
    BY <1>7, ZenonT(40) DEF XuanIdx
  <2>6. QED
    BY <1>7, <2>4, <2>5, ReaderType DEF XuanIdx, upVars
<1>8. ASSUME NEW t \in Task, XuanSlot(q, t)
      PROVE  TypeOK' /\ UNCHANGED upVars
  <2> DEFINE m == [rd[q].copy EXCEPT ![t] = 0]
             r == [rd[q] EXCEPT !.pc = "iter", !.copy = m, !.idx = -1,
                                !.trees = {TreeRead(q, t)}]
  <2>1. TreeRead(q, t) \in 0 .. MaxOps
    BY <1>8, TreeReadType DEF XuanSlot
  <2>2. m \in [Task -> 0 .. MaxOps]
    BY <1>0, TipManageAssumption DEF RdRecord
  <2>3. r \in RdRecord
    BY <1>0, <2>1, <2>2 DEF RdRecord
  <2>4. rd' = [rd EXCEPT ![q] = r]
    BY <1>8 DEF XuanSlot
  <2>5. QED
    BY <1>8, <2>3, <2>4, ReaderType DEF XuanSlot, upVars
<1>9. QED
  BY <1>1, <1>2, <1>3, <1>4, <1>5, <1>6, <1>7, <1>8 DEF Request

(***************************************************************************)
(* Initially, and an operation accepted from a client or from tasklist.    *)
(***************************************************************************)
LEMMA InitUp == Init => UpInv
<1> SUFFICES ASSUME Init PROVE UpInv
  OBVIOUS
<1> USE TipManageAssumption DEF Init, Task, Ids
<1>1. TypeOK
  BY DEF TypeOK, SORecord, TMRecord, UpRecord, RdRecord, NoSO, NoTM, NoMap, UpIdle, RdIdle
<1>2. OpInv
  BY DEF OpInv, NoSO, UpIdle, Working, AddPc, UpdPc
<1>3. FreshInv
  BY DEF FreshInv, Untouched
<1>4. OwnInv
  BY DEF OwnInv, NoLeak, Owned, NoMap, UpIdle
<1>5. QED
  BY <1>1, <1>2, <1>3, <1>4 DEF UpInv

LEMMA AcceptStep ==
  ASSUME UpInv, NEW t \in Task, NEW op \in Ops, Acceptable(t, op), Accept(t, op),
         UNCHANGED <<mapInfo, tm, liveInfo, liveTree, goodTree, waitFor, rd, window>>,
         up' \in UpRecord,
         up' = up \/ (up.pc = "boot" /\ up'.pc = "boot")
  PROVE  UpInv'
<1> USE DEF UpInv
<1>1. nreq \in Nat /\ nreq + 1 \in 1 .. MaxOps /\ nreq + 1 \in 0 .. MaxOps
  BY TipManageAssumption DEF TypeOK, Acceptable
<1>2. so[t] = NoSO /\ so \in [Task -> SORecord]
  BY DEF TypeOK, Acceptable
<1>3. so' = [so EXCEPT ![t] = [op |-> op, state |-> 1, id |-> nreq + 1]] /\ nreq' = nreq + 1
  BY DEF Accept
<1>4. [op |-> op, state |-> 1, id |-> nreq + 1] \in SORecord
  BY <1>1 DEF SORecord, Ops
<1>5. TypeOK'
  BY <1>1, <1>2, <1>3, <1>4 DEF TypeOK
<1>6. /\ so'[t] = [op |-> op, state |-> 1, id |-> nreq + 1]
      /\ \A s \in Task : s # t => so'[s] = so[s]
  BY <1>2, <1>3
<1>7. ~(Working /\ up.task = t)
  BY <1>2 DEF OpInv, NoSO
<1>8. OpInv'
  <2>1. \A s \in Task :
          /\ so'[s].op = "none" => so'[s] = NoSO
          /\ so'[s] # NoSO => so'[s].state \in {1, 2} /\ so'[s].id \in 1 .. nreq'
          /\ so'[s].state = 1 => (so'[s].op = "a" <=> mapInfo'[s] = 0)
    BY <1>1, <1>3, <1>6 DEF OpInv, Acceptable, Ops
  <2>2. \A s, r \in Task : s # r /\ so'[s] # NoSO => so'[s].id # so'[r].id
    BY <1>1, <1>3, <1>6 DEF OpInv, NoSO
  <2>3. up' = up \/ ~Working'
    BY DEF Working
  <2>4. Working => /\ so'[up.task] = so[up.task]
                   /\ up.task \in Task
    BY <1>6, <1>7 DEF OpInv
  <2>5. QED
    BY <2>1, <2>2, <2>3, <2>4 DEF OpInv, Working, AddPc, UpdPc
<1>9. FreshInv'
  BY <1>1, <1>3, <1>6, <1>7 DEF FreshInv, Untouched, OpInv, NoSO
<1>10. OwnInv'
  BY DEF OwnInv, NoLeak, Owned
<1>11. QED
  BY <1>5, <1>8, <1>9, <1>10

LEMMA OperatorUp ==
  ASSUME UpInv, NEW q \in Queries, NEW t \in Task, NEW op \in Ops, SpecialOperator(q, t, op)
  PROVE  UpInv'
BY AcceptStep DEF SpecialOperator, UpInv, TypeOK

LEMMA BootUp == UpInv /\ (Boot \/ BootDone) => UpInv'
<1> SUFFICES ASSUME UpInv, Boot \/ BootDone PROVE UpInv'
  OBVIOUS
<1>0. TypeOK /\ OpInv /\ FreshInv /\ OwnInv
  BY DEF UpInv
<1>1. CASE Boot
  <2>1. up.task + 1 \in Task /\ up' = [up EXCEPT !.task = up.task + 1]
    BY <1>0, <1>1, TipManageAssumption DEF Boot, TypeOK, UpRecord, Task
  <2>2. up' \in UpRecord /\ up.pc = "boot" /\ up'.pc = "boot"
    BY <1>0, <1>1, <2>1 DEF Boot, TypeOK, UpRecord, Task
  <2>3. CASE UNCHANGED <<so, nreq>>
    <3>1. TypeOK'
      BY <1>0, <1>1, <2>2, <2>3 DEF Boot, TypeOK
    <3>2. OpInv'
      BY <1>0, <1>1, <2>2, <2>3 DEF Boot, OpInv, Working, AddPc, UpdPc
    <3>3. FreshInv'
      BY <1>0, <1>1, <2>2, <2>3 DEF Boot, FreshInv, Untouched
    <3>4. OwnInv'
      BY <1>0, <1>1, <2>2, <2>3 DEF Boot, OwnInv, NoLeak, Owned
    <3>5. QED
      BY <3>1, <3>2, <3>3, <3>4 DEF UpInv
  <2>4. CASE Acceptable(up.task + 1, "a") /\ Accept(up.task + 1, "a")
    BY <1>1, <2>1, <2>2, <2>4, AcceptStep DEF Boot, Ops
  <2>5. QED
    BY <1>1, <2>3, <2>4 DEF Boot
<1>2. CASE BootDone
  <2>1. up' = UpIdle /\ up.pc = "boot" /\ up' \in UpRecord
    BY <1>2, TipManageAssumption DEF BootDone, UpIdle, UpRecord
  <2>2. TypeOK'
    BY <1>0, <1>2, <2>1 DEF BootDone, TypeOK
  <2>3. OpInv'
    BY <1>0, <1>2, <2>1 DEF BootDone, OpInv, Working, AddPc, UpdPc, UpIdle
  <2>4. FreshInv'
    BY <1>0, <1>2, <2>1 DEF BootDone, FreshInv, Untouched, UpIdle
  <2>5. OwnInv'
    BY <1>0, <1>2, <2>1 DEF BootDone, OwnInv, NoLeak, Owned, UpIdle
  <2>6. QED
    BY <2>2, <2>3, <2>4, <2>5 DEF UpInv
<1>3. QED
  BY <1>1, <1>2

(***************************************************************************)
(* The updater takes up the first operation of the list.                   *)
(***************************************************************************)
LEMMA IdentifyUp ==
  ASSUME UpInv, NEW t \in Task, Identify(t)
  PROVE  UpInv'
<1>0. TypeOK /\ OpInv /\ FreshInv /\ OwnInv
  BY DEF UpInv
<1>1. /\ up.pc = "idle" /\ so[t] # NoSO /\ so[t].state = 1
      /\ so[t] \in SORecord /\ so[t].id \in Ids /\ so[t].id # 0 /\ so[t].id \in 1 .. nreq
      /\ so[t].op \in Ops /\ (so[t].op = "a" <=> mapInfo[t] = 0)
      /\ mapInfo[t] \in 0 .. MaxOps
  BY <1>0, TipManageAssumption DEF Identify, First, OpInv, TypeOK, SORecord, Ids, Ops, NoSO
<1>2. /\ so' = [so EXCEPT ![t].state = 2]
      /\ up' = [pc   |-> IF so[t].op = "a" THEN "addLoad"
                         ELSE IF so[t].op = "d" THEN "delWait" ELSE "updLoad",
                task |-> t,
                info |-> IF so[t].op = "a" THEN so[t].id ELSE mapInfo[t]]
      /\ mapInfo' = IF so[t].op = "d" THEN [mapInfo EXCEPT ![t] = 0] ELSE mapInfo
      /\ UNCHANGED <<tm, liveInfo, liveTree, goodTree, nreq, window>>
  BY <1>1 DEF Identify, Ops
<1>3. /\ so'[t] = [op |-> so[t].op, state |-> 2, id |-> so[t].id]
      /\ \A s \in Task : s # t => so'[s] = so[s]
  BY <1>0, <1>1, <1>2 DEF TypeOK, SORecord
<1>4. TypeOK'
  <2>1. so' \in [Task -> SORecord]
    BY <1>0, <1>1, <1>2 DEF TypeOK, SORecord
  <2>2. up' \in UpRecord
    BY <1>1, <1>2, TipManageAssumption DEF UpRecord, SORecord, Task
  <2>3. mapInfo' \in [Task -> 0 .. MaxOps]
    BY <1>0, <1>2, TipManageAssumption DEF TypeOK
  <2>4. waitFor' \subseteq Queries
    BY <1>0 DEF Identify, TypeOK, Running
  <2>5. RdIdle \in RdRecord /\ [RdIdle EXCEPT !.pc = "torn"] \in RdRecord
    BY TipManageAssumption DEF RdIdle, NoMap, RdRecord
  <2>6. rd' \in [Queries -> RdRecord]
    BY <1>0, <2>5 DEF Identify, TearReaders, TypeOK
  <2>7. QED
    BY <1>0, <1>2, <2>1, <2>2, <2>3, <2>4, <2>6 DEF TypeOK
<1>5. /\ up'.task = t
      /\ up'.pc = IF so[t].op = "a" THEN "addLoad"
                  ELSE IF so[t].op = "d" THEN "delWait" ELSE "updLoad"
      /\ up'.info = IF so[t].op = "a" THEN so[t].id ELSE mapInfo[t]
  BY <1>2
<1>6. /\ so[t].op = "d" => mapInfo'[t] = 0
      /\ so[t].op # "d" => mapInfo' = mapInfo
      /\ \A s \in Task : s # t => mapInfo'[s] = mapInfo[s]
  BY <1>0, <1>2 DEF TypeOK
<1>7. OpInv'
  <2>1. \A s \in Task :
          /\ so'[s].op = "none" => so'[s] = NoSO
          /\ so'[s] # NoSO => so'[s].state \in {1, 2} /\ so'[s].id \in 1 .. nreq'
          /\ so'[s].state = 1 => (so'[s].op = "a" <=> mapInfo'[s] = 0)
    BY <1>0, <1>1, <1>2, <1>3, <1>6 DEF OpInv, Ops
  <2>2. \A s, r \in Task : s # r /\ so'[s] # NoSO => so'[s].id # so'[r].id
    BY <1>0, <1>1, <1>3 DEF OpInv
  <2>3. QED
    BY <1>1, <1>3, <1>5, <1>6, <2>1, <2>2 DEF OpInv, Working, AddPc, UpdPc, Ops
<1>8. FreshInv'
  <2>1. \A s \in Task : Untouched(s)' => Untouched(s) /\ so'[s].id = so[s].id
    BY <1>1, <1>3, <1>5 DEF Untouched
  <2>2. QED
    BY <1>0, <1>2, <2>1 DEF FreshInv
<1>9. OwnInv'
  <2>1. CASE so[t].op # "d"
    <3>1. Owned' = Owned
      BY <1>1, <1>5, <1>6, <2>1 DEF Owned
    <3>2. QED
      BY <1>0, <1>1, <1>2, <1>5, <1>6, <2>1, <3>1 DEF OwnInv, NoLeak
  <2>2. CASE so[t].op = "d"
    <3>1. mapInfo[t] # 0 /\ up'.pc = "delWait" /\ up'.info = mapInfo[t]
      BY <1>1, <1>5, <2>2
    <3>2. Owned' = Owned
      BY <1>1, <1>6, <2>2, <3>1 DEF Owned
    <3>3. \A s \in Task : mapInfo'[s] # up'.info
      BY <1>0, <1>6, <2>2, <3>1 DEF OwnInv
    <3>4. QED
      BY <1>0, <1>1, <1>2, <1>6, <2>2, <3>1, <3>2, <3>3 DEF OwnInv, NoLeak
  <2>3. QED
    BY <2>1, <2>2
<1>10. QED
  BY <1>4, <1>7, <1>8, <1>9 DEF UpInv

(***************************************************************************)
(* NoLeak, one tree at a time.                                             *)
(***************************************************************************)
EachOwned ==
  /\ liveInfo = Owned
  /\ \A k : k \in liveTree <=>
       k # 0 /\ \E i \in Owned : tm[i].slot[0] = k \/ tm[i].slot[1] = k

LEMMA Leakless == (NoLeak <=> EachOwned) /\ (NoLeak' <=> EachOwned')
<1>1. \A k : k \in UNION {{tm[i].slot[s] : s \in {0, 1}} : i \in Owned} <=>
               \E i \in Owned : tm[i].slot[0] = k \/ tm[i].slot[1] = k
  OBVIOUS
<1>2. \A k : k \in UNION {{tm'[i].slot[s] : s \in {0, 1}} : i \in Owned'} <=>
               \E i \in Owned' : tm'[i].slot[0] = k \/ tm'[i].slot[1] = k
  OBVIOUS
<1>3. NoLeak <=> EachOwned
  BY <1>1 DEF NoLeak, EachOwned
<1>4. NoLeak' <=> EachOwned'
  BY <1>2 DEF NoLeak, EachOwned
<1>5. QED
  BY <1>3, <1>4

(***************************************************************************)
(* An add: new CTMInfo and CTreeArray, then publish or refuse.             *)
(***************************************************************************)
LEMMA AddLoadUp == UpInv /\ AddLoad => UpInv'
<1> SUFFICES ASSUME UpInv, AddLoad PROVE UpInv'
  OBVIOUS
<1>0. TypeOK /\ OpInv /\ FreshInv /\ OwnInv
  BY DEF UpInv
<1> DEFINE i == up.info
<1>1. /\ up.pc = "addLoad" /\ up.task \in Task /\ so[up.task].state = 2
      /\ so[up.task].op = "a" /\ i = so[up.task].id /\ so[up.task] # NoSO
  BY <1>0 DEF AddLoad, OpInv, Working, AddPc, NoSO
<1>2. i \in 1 .. nreq /\ i \in Ids /\ i # 0
  BY <1>0, <1>1, TipManageAssumption DEF OpInv, TypeOK, Ids
<1>3. i \notin liveInfo /\ i \notin liveTree
  BY <1>0, <1>1 DEF FreshInv, Untouched
<1>4. /\ liveInfo' = liveInfo \cup {i} /\ liveTree' = liveTree \cup {i}
      /\ up' = [up EXCEPT !.pc = "addPublish"]
      /\ goodTree' \in {goodTree, goodTree \cup {i}}
      /\ UNCHANGED <<so, mapInfo, nreq, waitFor, rd, window>>
  BY DEF AddLoad, LoadTree
<1>5. /\ tm'[i] = [idx |-> 0, slot |-> [s \in {0, 1} |-> IF s = 0 THEN i ELSE 0]]
      /\ \A j \in Ids : j # i => tm'[j] = tm[j]
      /\ tm' \in [Ids -> TMRecord]
  <2>1. [s \in {0, 1} |-> IF s = 0 THEN i ELSE 0] \in [{0, 1} -> 0 .. MaxOps]
    BY <1>2, TipManageAssumption DEF Ids
  <2>2. [idx |-> 0, slot |-> [s \in {0, 1} |-> IF s = 0 THEN i ELSE 0]] \in TMRecord
    BY <2>1 DEF TMRecord
  <2>3. tm' = [tm EXCEPT ![i] = [idx |-> 0, slot |-> [s \in {0, 1} |-> IF s = 0 THEN i ELSE 0]]]
    BY DEF AddLoad
  <2>4. QED
    BY <1>0, <1>2, <2>2, <2>3 DEF TypeOK
<1>6. up'.pc = "addPublish" /\ up'.task = up.task /\ up'.info = i /\ up' \in UpRecord
  BY <1>0, <1>4 DEF TypeOK, UpRecord
<1>7. TypeOK'
  BY <1>0, <1>2, <1>4, <1>5, <1>6 DEF TypeOK
<1>8. OpInv'
  BY <1>0, <1>1, <1>4, <1>6 DEF OpInv, Working, AddPc, UpdPc
<1>9. FreshInv'
  BY <1>0, <1>1, <1>2, <1>4, <1>6 DEF FreshInv, Untouched, OpInv
<1>10. OwnInv'
  <2>1. Owned' = Owned \cup {i} /\ i \notin Owned /\ Owned \subseteq Ids
    BY <1>0, <1>1, <1>3, <1>4, <1>6 DEF Owned, OwnInv, NoLeak, TypeOK
  <2>2. /\ tm'[i].idx = 0 /\ tm'[i].slot[0] = i /\ tm'[i].slot[1] = 0
        /\ \A j \in Owned : tm'[j] = tm[j]
    BY <1>5, <2>1
  <2>3. NoLeak'
    BY <1>0, <1>2, <1>4, <2>1, <2>2, Leakless DEF OwnInv, EachOwned
  <2>4. /\ \A r, t \in Task : mapInfo'[r] # 0 /\ mapInfo'[r] = mapInfo'[t] => r = t
        /\ \A t \in Task : mapInfo'[t] # i
    BY <1>0, <1>2, <1>4, <2>1 DEF OwnInv, Owned
  <2>5. \A j \in Owned' :
          /\ tm'[j].idx \in {0, 1}
          /\ tm'[j].slot[tm'[j].idx] # 0
          /\ tm'[j].slot[1 - tm'[j].idx] = 0
    BY <1>0, <1>1, <1>2, <2>1, <2>2 DEF OwnInv
  <2>6. \A j \in Owned : tm[j].slot[0] # i /\ tm[j].slot[1] # i
    BY <1>0, <1>2, <1>3, Leakless DEF OwnInv, EachOwned
  <2>7. \A j, k \in Owned' : \A a, b \in {0, 1} :
          tm'[j].slot[a] # 0 /\ tm'[j].slot[a] = tm'[k].slot[b] => j = k /\ a = b
    BY <1>0, <1>2, <2>1, <2>2, <2>6 DEF OwnInv
  <2>8. QED
    BY <1>6, <2>2, <2>3, <2>4, <2>5, <2>7 DEF OwnInv
<1>11. QED
  BY <1>7, <1>8, <1>9, <1>10 DEF UpInv

\* What the updater's pc says of the operation it works on.
LEMMA WorkFacts ==
  ASSUME UpInv, Working
  PROVE  /\ up.task \in Task /\ so[up.task].state = 2 /\ so[up.task] # NoSO
         /\ so[up.task].id \in 1 .. nreq /\ so[up.task].id \in Ids
         /\ up.info \in 0 .. MaxOps /\ mapInfo[up.task] \in 0 .. MaxOps
         /\ up.pc \in {"addPublish", "delWait", "updLoad", "updSwap", "updWait"}
              => up.info \in Owned /\ up.info \in Ids
<1>1. TypeOK /\ OpInv /\ FreshInv /\ OwnInv
  BY DEF UpInv
<1>2. /\ up.task \in Task /\ so[up.task].state = 2 /\ so[up.task] # NoSO
      /\ so[up.task].id \in 1 .. nreq
  BY <1>1 DEF OpInv, NoSO
<1>3. so[up.task].id \in Ids
  BY <1>1, <1>2, TipManageAssumption DEF TypeOK, Ids
<1>4. up.info \in 0 .. MaxOps /\ mapInfo[up.task] \in 0 .. MaxOps
  BY <1>1, <1>2 DEF TypeOK, UpRecord
<1>5. ASSUME up.pc \in {"addPublish", "delWait", "updLoad", "updSwap", "updWait"}
      PROVE  up.info \in Owned /\ up.info \in Ids
  <2>1. up.info # 0
    BY <1>1, <1>2, <1>3, <1>5, TipManageAssumption DEF OpInv, AddPc, UpdPc, Ids
  <2>2. up.info \in Ids
    BY <1>4, <2>1, TipManageAssumption DEF Ids
  <2>3. up.info \in Owned
    BY <1>1, <1>2, <1>5, <2>1 DEF Owned, OpInv, UpdPc
  <2>4. QED
    BY <2>2, <2>3
<1>6. QED
  BY <1>2, <1>3, <1>4, <1>5

LEMMA AddPublishUp == UpInv /\ AddPublish => UpInv'
<1> SUFFICES ASSUME UpInv, AddPublish PROVE UpInv'
  OBVIOUS
<1>0. TypeOK /\ OpInv /\ FreshInv /\ OwnInv
  BY DEF UpInv
<1> DEFINE i == up.info
           t == up.task
<1>1. /\ up.pc = "addPublish" /\ t \in Task /\ i \in Ids /\ i # 0 /\ i \in Owned
      /\ so[t].state = 2 /\ mapInfo[t] = 0
  BY <1>0, WorkFacts, TipManageAssumption DEF AddPublish, AddRefused, Working, Ids
<1>2. /\ mapInfo' = [mapInfo EXCEPT ![t] = i]
      /\ up' = [up EXCEPT !.pc = "clear"]
      /\ UNCHANGED <<so, tm, liveInfo, liveTree, goodTree, nreq, waitFor>>
  BY DEF AddPublish
<1>3. up'.pc = "clear" /\ up'.task = t /\ up'.info = i /\ up' \in UpRecord
  BY <1>0, <1>2 DEF TypeOK, UpRecord
<1>4. /\ mapInfo'[t] = i /\ \A s \in Task : s # t => mapInfo'[s] = mapInfo[s]
      /\ mapInfo' \in [Task -> 0 .. MaxOps]
  BY <1>0, <1>1, <1>2, TipManageAssumption DEF TypeOK, Ids
<1>5. TypeOK'
  <2>1. [RdIdle EXCEPT !.pc = "torn"] \in RdRecord
    BY TipManageAssumption DEF RdIdle, NoMap, RdRecord
  <2>2. rd' \in [Queries -> RdRecord]
    BY <1>0, <2>1 DEF AddPublish, TearReaders, TypeOK
  <2>3. window' \in [Queries -> SUBSET Ids]
    <3>1. GetTreeArray(i) \in Ids
      BY <1>0, <1>1, TipManageAssumption DEF OwnInv, GetTreeArray, TypeOK, TMRecord, Ids
    <3>2. QED
      BY <1>0, <3>1 DEF AddPublish, Witness, TypeOK
  <2>4. QED
    BY <1>0, <1>2, <1>3, <1>4, <2>2, <2>3 DEF TypeOK
<1>6. OpInv'
  BY <1>0, <1>1, <1>2, <1>3, <1>4 DEF OpInv, Working, AddPc, UpdPc
<1>7. FreshInv'
  BY <1>0, <1>1, <1>2, <1>3 DEF FreshInv, Untouched
<1>8. OwnInv'
  <2>1. Owned' = Owned
    BY <1>1, <1>3, <1>4 DEF Owned
  <2>2. \A r, s \in Task : mapInfo'[r] # 0 /\ mapInfo'[r] = mapInfo'[s] => r = s
    BY <1>0, <1>1, <1>4 DEF OwnInv
  <2>3. QED
    BY <1>0, <1>1, <1>2, <1>3, <2>1, <2>2 DEF OwnInv, NoLeak
<1>9. QED
  BY <1>5, <1>6, <1>7, <1>8 DEF UpInv

LEMMA AddRefuseUp == UpInv /\ AddRefuse => UpInv'
<1> SUFFICES ASSUME UpInv, AddRefuse PROVE UpInv'
  OBVIOUS
<1>0. TypeOK /\ OpInv /\ FreshInv /\ OwnInv
  BY DEF UpInv
<1> DEFINE i == up.info
<1>1. /\ up.pc = "addPublish" /\ up.task \in Task /\ i \in Ids /\ i # 0 /\ i \in Owned
      /\ so[up.task].state = 2
  BY <1>0, WorkFacts, TipManageAssumption DEF AddRefuse, Working, Ids
<1>2. /\ up' = UpIdle
      /\ liveInfo' = liveInfo \ {i}
      /\ liveTree' = liveTree \ {tm[i].slot[0]}
      /\ UNCHANGED <<so, mapInfo, tm, goodTree, nreq, waitFor, rd, window>>
  BY DEF AddRefuse
<1>3. up'.pc = "idle" /\ up' \in UpRecord
  BY <1>2, TipManageAssumption DEF UpIdle, UpRecord
<1>4. TypeOK'
  BY <1>0, <1>2, <1>3 DEF TypeOK
<1>5. OpInv'
  BY <1>0, <1>2, <1>3 DEF OpInv, Working, AddPc, UpdPc
<1>6. FreshInv'
  BY <1>0, <1>1, <1>2, <1>3 DEF FreshInv, Untouched
<1>7. OwnInv'
  <2>1. Owned' = Owned \ {i}
    BY <1>0, <1>1, <1>2, <1>3 DEF Owned, OwnInv
  <2>2. tm[i].idx = 0 /\ tm[i].slot[0] # 0 /\ tm[i].slot[1] = 0
    BY <1>0, <1>1 DEF OwnInv
  <2>3. NoLeak'
    <3>1. \A j \in Owned' : tm[j].slot[0] # tm[i].slot[0] /\ tm[j].slot[1] # tm[i].slot[0]
      BY <1>0, <1>1, <2>1, <2>2 DEF OwnInv
    <3>2. EachOwned
      BY <1>0, Leakless DEF OwnInv
    <3>3. EachOwned'
      BY <1>2, <2>1, <2>2, <3>1, <3>2 DEF EachOwned
    <3>4. QED
      BY <3>3, Leakless
  <2>4. QED
    BY <1>0, <1>1, <1>2, <1>3, <2>1, <2>3 DEF OwnInv
<1>8. QED
  BY <1>4, <1>5, <1>6, <1>7 DEF UpInv

(***************************************************************************)
(* A delete: the CTMInfo and both its trees are freed after the sleep.     *)
(***************************************************************************)
LEMMA DelReclaimUp == UpInv /\ DelReclaim => UpInv'
<1> SUFFICES ASSUME UpInv, DelReclaim PROVE UpInv'
  OBVIOUS
<1>0. TypeOK /\ OpInv /\ FreshInv /\ OwnInv
  BY DEF UpInv
<1> DEFINE i == up.info
<1>1. /\ up.pc = "delWait" /\ up.task \in Task /\ i \in Ids /\ i # 0 /\ i \in Owned
      /\ so[up.task].state = 2
  BY <1>0, WorkFacts, TipManageAssumption DEF DelReclaim, Working, Ids
<1>2. /\ up' = [up EXCEPT !.pc = "clear"]
      /\ liveInfo' = liveInfo \ {i}
      /\ liveTree' = liveTree \ {tm[i].slot[0], tm[i].slot[1]}
      /\ waitFor' = {}
      /\ UNCHANGED <<so, mapInfo, tm, goodTree, nreq, rd, window>>
  BY DEF DelReclaim
<1>3. up'.pc = "clear" /\ up'.task = up.task /\ up'.info = i /\ up' \in UpRecord
  BY <1>0, <1>2 DEF TypeOK, UpRecord
<1>4. TypeOK'
  BY <1>0, <1>2, <1>3 DEF TypeOK
<1>5. OpInv'
  BY <1>0, <1>1, <1>2, <1>3 DEF OpInv, Working, AddPc, UpdPc
<1>6. FreshInv'
  BY <1>0, <1>1, <1>2, <1>3 DEF FreshInv, Untouched
<1>7. OwnInv'
  <2>1. Owned' = Owned \ {i}
    BY <1>0, <1>1, <1>2, <1>3 DEF Owned, OwnInv
  <2>2. \A j \in Owned' : \A a, b \in {0, 1} : tm[j].slot[a] # 0 => tm[j].slot[a] # tm[i].slot[b]
    BY <1>0, <1>1, <2>1 DEF OwnInv
  <2>3. NoLeak'
    <3>1. EachOwned
      BY <1>0, Leakless DEF OwnInv
    <3>2. liveInfo' = Owned'
      BY <1>2, <2>1, <3>1 DEF EachOwned
    <3>3. ASSUME NEW k
          PROVE  k \in liveTree' <=>
                   k # 0 /\ \E j \in Owned' : tm'[j].slot[0] = k \/ tm'[j].slot[1] = k
      BY <1>2, <2>1, <2>2, <3>1 DEF EachOwned
    <3>4. QED
      BY <3>2, <3>3, Leakless DEF EachOwned
  <2>4. QED
    BY <1>0, <1>1, <1>2, <1>3, <2>1, <2>3 DEF OwnInv
<1>8. QED
  BY <1>4, <1>5, <1>6, <1>7 DEF UpInv

(***************************************************************************)
(* An update: load into the spare slot, switch, empty the old slot.        *)
(***************************************************************************)
LEMMA UpdLoadUp == UpInv /\ UpdLoad => UpInv'
<1> SUFFICES ASSUME UpInv, UpdLoad PROVE UpInv'
  OBVIOUS
<1>0. TypeOK /\ OpInv /\ FreshInv /\ OwnInv
  BY DEF UpInv
<1> DEFINE i == up.info
           k == so[up.task].id
           n == 1 - tm[i].idx
<1>1. /\ up.pc = "updLoad" /\ up.task \in Task /\ i \in Ids /\ i # 0 /\ i \in Owned
      /\ so[up.task].state = 2 /\ so[up.task] # NoSO
      /\ k \in 1 .. nreq /\ k \in Ids /\ k # 0
  BY <1>0, WorkFacts, TipManageAssumption DEF UpdLoad, Working, Ids, TypeOK
<1>2. /\ tm[i].idx \in {0, 1} /\ n \in {0, 1} /\ n # tm[i].idx
      /\ tm[i].slot[n] = 0 /\ tm[i].slot[tm[i].idx] # 0
      /\ tm[i].slot \in [{0, 1} -> 0 .. MaxOps]
  BY <1>0, <1>1 DEF OwnInv, TypeOK, TMRecord
<1>3. /\ liveTree' = liveTree \cup {k}
      /\ goodTree' \in {goodTree, goodTree \cup {k}}
      /\ tm' = [tm EXCEPT ![i].slot[n] = k]
      /\ up' = [up EXCEPT !.pc = "updSwap"]
      /\ UNCHANGED <<so, mapInfo, liveInfo, nreq, waitFor, rd, window>>
  <2>1. liveTree \ {0} = liveTree
    BY <1>0, TipManageAssumption DEF TypeOK, Ids
  <2>2. QED
    BY <1>2, <2>1 DEF UpdLoad
<1>4. up'.pc = "updSwap" /\ up'.task = up.task /\ up'.info = i /\ up' \in UpRecord
  BY <1>0, <1>3 DEF TypeOK, UpRecord
<1>5. /\ tm'[i].idx = tm[i].idx /\ tm'[i].slot[n] = k
      /\ tm'[i].slot[tm[i].idx] = tm[i].slot[tm[i].idx]
      /\ \A j \in Ids : j # i => tm'[j] = tm[j]
      /\ tm' \in [Ids -> TMRecord]
  <2> DEFINE sl == [tm[i].slot EXCEPT ![n] = k]
             r  == [tm[i] EXCEPT !.slot = sl]
  <2>1. sl \in [{0, 1} -> 0 .. MaxOps] /\ sl[n] = k /\ sl[tm[i].idx] = tm[i].slot[tm[i].idx]
    BY <1>1, <1>2, TipManageAssumption DEF Ids
  <2>2. r \in TMRecord /\ r.idx = tm[i].idx /\ r.slot = sl
    BY <1>0, <1>1, <2>1 DEF TypeOK, TMRecord
  <2>3. tm' = [tm EXCEPT ![i] = r]
    BY <1>3
  <2> HIDE DEF r
  <2>4. QED
    BY <1>0, <1>1, <2>1, <2>2, <2>3 DEF TypeOK
<1>6. TypeOK'
  BY <1>0, <1>1, <1>3, <1>4, <1>5 DEF TypeOK
<1>7. OpInv'
  BY <1>0, <1>1, <1>3, <1>4 DEF OpInv, Working, AddPc, UpdPc
<1>8. k \notin liveInfo /\ k \notin liveTree
  BY <1>0, <1>1 DEF FreshInv, Untouched
<1>9. FreshInv'
  BY <1>0, <1>1, <1>3, <1>4 DEF FreshInv, Untouched, OpInv
<1>10. OwnInv'
  <2>1. Owned' = Owned /\ Owned \subseteq Ids
    BY <1>0, <1>1, <1>3, <1>4 DEF Owned, OwnInv, NoLeak, TypeOK
  <2>2. EachOwned
    BY <1>0, Leakless DEF OwnInv
  <2>3. NoLeak'
    <3>1. ASSUME NEW x
          PROVE  x \in liveTree' <=>
                   x # 0 /\ \E j \in Owned' : tm'[j].slot[0] = x \/ tm'[j].slot[1] = x
      <4>1. \A j \in Owned : x # 0 /\ x # k =>
              (tm'[j].slot[0] = x \/ tm'[j].slot[1] = x <=> tm[j].slot[0] = x \/ tm[j].slot[1] = x)
        <5>1. SUFFICES ASSUME NEW j \in Owned, x # 0, x # k
                       PROVE  tm'[j].slot[0] = x \/ tm'[j].slot[1] = x <=> tm[j].slot[0] = x \/ tm[j].slot[1] = x
          OBVIOUS
        <5>2. CASE j # i
          <6>1. tm'[j] = tm[j]
            BY <1>5, <2>1, <5>1, <5>2
          <6> QED
            BY <6>1
        <5>3. CASE j = i
          BY <1>2, <1>5, <5>1, <5>3
        <5> QED
          BY <5>2, <5>3
      <4>2. CASE x = k
        BY <1>1, <1>2, <1>3, <1>5, <2>1, <4>2
      <4>3. CASE x # k
        BY <1>3, <2>1, <2>2, <4>1, <4>3 DEF EachOwned
      <4> QED
        BY <4>2, <4>3
    <3>2. QED
      BY <1>3, <2>1, <2>2, <3>1, Leakless DEF EachOwned
  <2>4. \A j \in Owned : tm[j].slot[0] # k /\ tm[j].slot[1] # k
    BY <1>1, <1>8, <2>2 DEF EachOwned
  <2>5. \A j \in Owned' :
          /\ tm'[j].idx \in {0, 1}
          /\ tm'[j].slot[tm'[j].idx] # 0
          /\ tm'[j].slot[1 - tm'[j].idx] # 0 <=> j = i
    BY <1>0, <1>1, <1>2, <1>5, <2>1 DEF OwnInv
  <2>6. \A j, l \in Owned' : \A a, b \in {0, 1} :
          tm'[j].slot[a] # 0 /\ tm'[j].slot[a] = tm'[l].slot[b] => j = l /\ a = b
    <3>1. \A j \in Owned : j # i => tm'[j].slot = tm[j].slot
      BY <1>5, <2>1
    <3>2. \A a \in {0, 1} : a = n \/ a = tm[i].idx
      BY <1>2
    <3>3. \A a \in {0, 1} : tm'[i].slot[a] = k \/ (tm'[i].slot[a] = tm[i].slot[a] /\ a # n)
      BY <1>2, <1>5, <3>2
    <3>4. \A j, l \in Owned : \A a, b \in {0, 1} :
            tm[j].slot[a] # 0 /\ tm[j].slot[a] = tm[l].slot[b] => j = l /\ a = b
      BY <1>0 DEF OwnInv
    <3>5. \A a \in {0, 1} : tm'[i].slot[a] = k => a = n
      BY <1>1, <1>5, <2>4, <3>2
    <3>6. \A j \in Owned : j # i => \A a \in {0, 1} : tm'[j].slot[a] # k
      BY <2>4, <3>1
    <3>7. ASSUME NEW j \in Owned, NEW l \in Owned, NEW a \in {0, 1}, NEW b \in {0, 1},
                 tm'[j].slot[a] # 0, tm'[j].slot[a] = tm'[l].slot[b]
          PROVE  j = l /\ a = b
      <4>1. CASE tm'[j].slot[a] = k
        <5>1. j = i /\ l = i
          BY <3>6, <3>7, <4>1
        <5>2. a = n
          BY <3>5, <4>1, <5>1
        <5>3. b = n
          BY <3>5, <3>7, <4>1, <5>1
        <5>4. QED
          BY <5>1, <5>2, <5>3
      <4>2. CASE tm'[j].slot[a] # k
        <5>1. tm'[j].slot[a] = tm[j].slot[a] /\ tm'[l].slot[b] = tm[l].slot[b]
          BY <3>1, <3>3, <3>7, <4>2
        <5>2. tm[j].slot[a] # 0 /\ tm[j].slot[a] = tm[l].slot[b]
          BY <3>7, <5>1
        <5>3. QED
          BY <3>4, <5>2
      <4>3. QED
        BY <4>1, <4>2
    <3>8. QED
      BY <2>1, <3>7
  <2>7. /\ \A r, s \in Task : mapInfo'[r] # 0 /\ mapInfo'[r] = mapInfo'[s] => r = s
        /\ up'.pc \notin {"addPublish", "delWait"} /\ up'.pc \in {"updSwap", "updWait"}
    BY <1>0, <1>3, <1>4 DEF OwnInv
  <2>8. QED
    BY <1>4, <2>3, <2>5, <2>6, <2>7 DEF OwnInv
<1>11. QED
  BY <1>6, <1>7, <1>9, <1>10 DEF UpInv

LEMMA UpdSwapUp == UpInv /\ UpdSwap => UpInv'
<1> SUFFICES ASSUME UpInv, UpdSwap PROVE UpInv'
  OBVIOUS
<1>0. TypeOK /\ OpInv /\ FreshInv /\ OwnInv
  BY DEF UpInv
<1> DEFINE i == up.info
<1>1. /\ up.pc = "updSwap" /\ up.task \in Task /\ i \in Ids /\ i # 0 /\ i \in Owned
      /\ so[up.task].state = 2 /\ so[up.task].id \in Ids
  BY <1>0, WorkFacts, TipManageAssumption DEF UpdSwap, Working, Ids
<1>2. /\ tm' = [tm EXCEPT ![i].idx = 1 - @]
      /\ waitFor' = Running
      /\ up' = [up EXCEPT !.pc = "updWait"]
      /\ UNCHANGED <<so, mapInfo, liveInfo, liveTree, goodTree, nreq, rd>>
  BY DEF UpdSwap
<1>3. up'.pc = "updWait" /\ up'.task = up.task /\ up'.info = i /\ up' \in UpRecord
  BY <1>0, <1>2 DEF TypeOK, UpRecord
<1>4. tm[i].idx \in {0, 1} /\ tm[i].slot[0] # 0 /\ tm[i].slot[1] # 0
  BY <1>0, <1>1 DEF OwnInv
<1>5. /\ tm'[i].idx = 1 - tm[i].idx /\ tm'[i].idx \in {0, 1}
      /\ \A j \in Ids : tm'[j].slot = tm[j].slot
      /\ \A j \in Ids : j # i => tm'[j] = tm[j]
      /\ tm' \in [Ids -> TMRecord]
  <2> DEFINE x == 1 - tm[i].idx
             r == [tm[i] EXCEPT !.idx = x]
  <2>1. x \in {0, 1}
    BY <1>4
  <2>2. r \in TMRecord /\ r.idx = x /\ r.slot = tm[i].slot
    BY <1>0, <1>1, <2>1 DEF TypeOK, TMRecord
  <2>3. tm' = [tm EXCEPT ![i] = r]
    BY <1>2
  <2> HIDE DEF r
  <2>4. QED
    BY <1>0, <1>1, <2>1, <2>2, <2>3 DEF TypeOK
<1>6. TypeOK'
  <2>1. window' \in [Queries -> SUBSET Ids]
    <3>1. tm[i].slot[1 - tm[i].idx] \in Ids
      BY <1>0, <1>1, <1>4, TipManageAssumption DEF TypeOK, TMRecord, Ids
    <3>2. QED
      BY <1>0, <3>1 DEF UpdSwap, Witness, TypeOK
  <2>2. QED
    BY <1>0, <1>2, <1>3, <1>5, <2>1 DEF TypeOK, Running
<1>7. OpInv'
  BY <1>0, <1>1, <1>2, <1>3 DEF OpInv, Working, AddPc, UpdPc
<1>8. FreshInv'
  BY <1>0, <1>1, <1>2, <1>3 DEF FreshInv, Untouched
<1>9. OwnInv'
  <2>1. Owned' = Owned /\ Owned \subseteq Ids
    BY <1>0, <1>1, <1>2, <1>3 DEF Owned, OwnInv, NoLeak, TypeOK
  <2>2. NoLeak'
    BY <1>0, <1>2, <1>5, <2>1, Leakless DEF OwnInv, EachOwned
  <2>3. \A j \in Owned' :
          /\ tm'[j].idx \in {0, 1}
          /\ tm'[j].slot[tm'[j].idx] # 0
          /\ tm'[j].slot[1 - tm'[j].idx] # 0 <=> j = i
    <3>1. ASSUME NEW j \in Owned, j # i
          PROVE  /\ tm'[j].idx \in {0, 1}
                 /\ tm'[j].slot[tm'[j].idx] # 0
                 /\ tm'[j].slot[1 - tm'[j].idx] = 0
      BY <1>0, <1>5, <2>1, <3>1 DEF OwnInv
    <3>2. tm'[i].slot[tm'[i].idx] # 0 /\ tm'[i].slot[1 - tm'[i].idx] # 0
      BY <1>1, <1>4, <1>5
    <3>3. QED
      BY <1>5, <2>1, <3>1, <3>2
  <2>4. /\ \A r, s \in Task : mapInfo'[r] # 0 /\ mapInfo'[r] = mapInfo'[s] => r = s
        /\ up'.pc \notin {"addPublish", "delWait"} /\ up'.pc \in {"updSwap", "updWait"}
        /\ \A j, l \in Owned : \A a, b \in {0, 1} :
             tm'[j].slot[a] # 0 /\ tm'[j].slot[a] = tm'[l].slot[b] => j = l /\ a = b
    BY <1>0, <1>2, <1>3, <1>5, <2>1 DEF OwnInv
  <2>5. QED
    BY <1>3, <2>1, <2>2, <2>3, <2>4 DEF OwnInv
<1>10. QED
  BY <1>6, <1>7, <1>8, <1>9 DEF UpInv

LEMMA UpdReclaimUp == UpInv /\ UpdReclaim => UpInv'
<1> SUFFICES ASSUME UpInv, UpdReclaim PROVE UpInv'
  OBVIOUS
<1>0. TypeOK /\ OpInv /\ FreshInv /\ OwnInv
  BY DEF UpInv
<1> DEFINE i == up.info
           o == 1 - tm[i].idx
<1>1. /\ up.pc = "updWait" /\ up.task \in Task /\ i \in Ids /\ i # 0 /\ i \in Owned
      /\ so[up.task].state = 2
  BY <1>0, WorkFacts, TipManageAssumption DEF UpdReclaim, Working, Ids
<1>2. /\ liveTree' = liveTree \ {tm[i].slot[o]}
      /\ tm' = [tm EXCEPT ![i].slot[o] = 0]
      /\ waitFor' = {}
      /\ up' = [up EXCEPT !.pc = "clear"]
      /\ UNCHANGED <<so, mapInfo, liveInfo, goodTree, nreq, rd, window>>
  BY DEF UpdReclaim
<1>3. up'.pc = "clear" /\ up'.task = up.task /\ up'.info = i /\ up' \in UpRecord
  BY <1>0, <1>2 DEF TypeOK, UpRecord
<1>4. /\ tm[i].idx \in {0, 1} /\ o \in {0, 1} /\ o # tm[i].idx
      /\ tm[i].slot[0] # 0 /\ tm[i].slot[1] # 0
      /\ tm[i].slot \in [{0, 1} -> 0 .. MaxOps]
  BY <1>0, <1>1 DEF OwnInv, TypeOK, TMRecord
<1>5. /\ tm'[i].idx = tm[i].idx /\ tm'[i].slot[o] = 0
      /\ tm'[i].slot[tm[i].idx] = tm[i].slot[tm[i].idx]
      /\ \A j \in Ids : j # i => tm'[j] = tm[j]
      /\ tm' \in [Ids -> TMRecord]
  <2> DEFINE sl == [tm[i].slot EXCEPT ![o] = 0]
             r  == [tm[i] EXCEPT !.slot = sl]
  <2>1. sl \in [{0, 1} -> 0 .. MaxOps] /\ sl[o] = 0 /\ sl[tm[i].idx] = tm[i].slot[tm[i].idx]
    BY <1>1, <1>4, TipManageAssumption
  <2>2. r \in TMRecord /\ r.idx = tm[i].idx /\ r.slot = sl
    BY <1>0, <1>1, <2>1 DEF TypeOK, TMRecord
  <2>3. tm' = [tm EXCEPT ![i] = r]
    BY <1>2
  <2> HIDE DEF r
  <2>4. QED
    BY <1>0, <1>1, <2>1, <2>2, <2>3 DEF TypeOK
<1>6. TypeOK'
  BY <1>0, <1>2, <1>3, <1>5 DEF TypeOK
<1>7. OpInv'
  BY <1>0, <1>1, <1>2, <1>3 DEF OpInv, Working, AddPc, UpdPc
<1>8. FreshInv'
  BY <1>0, <1>1, <1>2, <1>3 DEF FreshInv, Untouched
<1>9. OwnInv'
  <2>1. Owned' = Owned /\ Owned \subseteq Ids
    BY <1>0, <1>1, <1>2, <1>3 DEF Owned, OwnInv, NoLeak, TypeOK
  <2>2. EachOwned
    BY <1>0, Leakless DEF OwnInv
  <2>3. \A j \in Owned : \A a \in {0, 1} :
          /\ tm'[j].slot[a] = IF j = i /\ a = o THEN 0 ELSE tm[j].slot[a]
          /\ tm[j].slot[a] = tm[i].slot[o] => j = i /\ a = o
    <3>1. \A a \in {0, 1} : a = o \/ a = tm[i].idx
      BY <1>4
    <3>2. tm[i].slot[o] # 0
      BY <1>4
    <3>3. QED
      BY <1>0, <1>1, <1>4, <1>5, <2>1, <3>1, <3>2 DEF OwnInv
  <2>4. NoLeak'
    <3>1. ASSUME NEW x
          PROVE  x \in liveTree' <=>
                   x # 0 /\ \E j \in Owned' : tm'[j].slot[0] = x \/ tm'[j].slot[1] = x
      BY <1>1, <1>2, <1>4, <2>1, <2>2, <2>3 DEF EachOwned
    <3>2. QED
      BY <1>2, <2>1, <2>2, <3>1, Leakless DEF EachOwned
  <2>5. ASSUME NEW j \in Owned
        PROVE  /\ tm'[j].idx \in {0, 1}
               /\ tm'[j].slot[tm'[j].idx] # 0
               /\ tm'[j].slot[1 - tm'[j].idx] = 0
    <3>1. CASE j = i
      BY <1>4, <1>5, <3>1
    <3>2. CASE j # i
      BY <1>0, <1>5, <2>1, <3>2 DEF OwnInv
    <3>3. QED
      BY <3>1, <3>2
  <2>6. /\ \A r, s \in Task : mapInfo'[r] # 0 /\ mapInfo'[r] = mapInfo'[s] => r = s
        /\ up'.pc \notin {"addPublish", "delWait", "updSwap", "updWait"}
        /\ \A j, l \in Owned : \A a, b \in {0, 1} :
             tm'[j].slot[a] # 0 /\ tm'[j].slot[a] = tm'[l].slot[b] => j = l /\ a = b
    <3>1. \A j, l \in Owned : \A a, b \in {0, 1} :
            tm[j].slot[a] # 0 /\ tm[j].slot[a] = tm[l].slot[b] => j = l /\ a = b
      BY <1>0 DEF OwnInv
    <3>2. QED
      BY <1>0, <1>2, <1>3, <2>3, <3>1 DEF OwnInv
  <2>7. QED
    BY <1>3, <2>1, <2>4, <2>5, <2>6 DEF OwnInv
<1>10. QED
  BY <1>6, <1>7, <1>8, <1>9 DEF UpInv

LEMMA ClearUp == UpInv /\ ClearOperator => UpInv'
<1> SUFFICES ASSUME UpInv, ClearOperator PROVE UpInv'
  OBVIOUS
<1>0. TypeOK /\ OpInv /\ FreshInv /\ OwnInv
  BY DEF UpInv
<1>1. up.pc = "clear" /\ up.task \in Task /\ up' = UpIdle
  BY <1>0, WorkFacts DEF ClearOperator, Working
<1>2. /\ so' = [so EXCEPT ![up.task] = NoSO]
      /\ UNCHANGED <<mapInfo, tm, liveInfo, liveTree, goodTree, nreq, waitFor, rd, window>>
  BY DEF ClearOperator
<1>3. so'[up.task] = NoSO /\ \A s \in Task : s # up.task => so'[s] = so[s]
  BY <1>0, <1>1, <1>2 DEF TypeOK
<1>4. up'.pc = "idle" /\ up' \in UpRecord
  BY <1>1, TipManageAssumption DEF UpIdle, UpRecord
<1>5. NoSO \in SORecord
  BY TipManageAssumption DEF NoSO, SORecord
<1>6. TypeOK'
  BY <1>0, <1>2, <1>4, <1>5 DEF TypeOK
<1>7. OpInv'
  BY <1>0, <1>2, <1>3, <1>4 DEF OpInv, Working, AddPc, UpdPc, NoSO
<1>8. FreshInv'
  BY <1>0, <1>1, <1>2, <1>3, <1>4 DEF FreshInv, Untouched
<1>9. OwnInv'
  BY <1>0, <1>1, <1>2, <1>4 DEF OwnInv, NoLeak, Owned
<1>10. QED
  BY <1>6, <1>7, <1>8, <1>9 DEF UpInv

-----------------------------------------------------------------------------
(***************************************************************************)
(* UpInv is inductive.                                                     *)
(***************************************************************************)
LEMMA UpStep == UpInv /\ [Next]_vars => UpInv'
<1> SUFFICES ASSUME UpInv, [Next]_vars PROVE UpInv'
  OBVIOUS
<1>1. CASE Updater
  BY <1>1, BootUp, IdentifyUp, AddLoadUp, AddPublishUp, AddRefuseUp, DelReclaimUp,
     UpdLoadUp, UpdSwapUp, UpdReclaimUp, ClearUp DEF Updater
<1>2. CASE \E q \in Queries : Request(q)
  BY <1>2, RequestType, UpFrame DEF UpInv
<1>3. CASE \E q \in Queries, t \in Task, op \in Ops : SpecialOperator(q, t, op)
  BY <1>3, OperatorUp
<1>4. CASE UNCHANGED vars
  <2>1. TypeOK'
    BY <1>4 DEF UpInv, TypeOK, vars
  <2>2. QED
    BY <1>4, <2>1, UpFrame DEF UpInv, vars, upVars
<1>5. QED
  BY <1>1, <1>2, <1>3, <1>4 DEF Next

LEMMA UpInvariant == Spec => []UpInv
<1>1. QED
  BY InitUp, UpStep, PTL DEF Spec

(***************************************************************************)
(* CTipManage's fields keep their types for any tasks and threads.         *)
(***************************************************************************)
THEOREM TypeCorrect == Spec => []TypeOK
<1>1. UpInv => TypeOK
  BY DEF UpInv
<1>2. QED
  BY <1>1, UpInvariant, PTL

(***************************************************************************)
(* UpdateOperator leaks no CTMInfo and no tree, however operations end.    *)
(***************************************************************************)
THEOREM NothingLeaks == Spec => []NoLeak
<1>1. UpInv => NoLeak
  BY DEF UpInv, OwnInv
<1>2. QED
  BY <1>1, UpInvariant, PTL

(***************************************************************************)
(* An update never finds a tree in the slot it is about to load, so the    *)
(* branch of UpdateOperator:155 is dead code.                              *)
(***************************************************************************)
THEOREM SpareSlotEmpty == Spec => []UpdateFindsSlotEmpty
<1>1. UpInv => UpdateFindsSlotEmpty
  <2> SUFFICES ASSUME UpInv, up.pc = "updLoad"
               PROVE  /\ tm[up.info].idx \in {0, 1}
                      /\ tm[up.info].slot[1 - tm[up.info].idx] = 0
    BY DEF UpdateFindsSlotEmpty
  <2>1. up.info \in Owned
    BY WorkFacts DEF Working
  <2>2. QED
    BY <2>1 DEF UpInv, OwnInv
<1>2. QED
  BY <1>1, UpInvariant, PTL

(***************************************************************************)
(* The check of SpecialOperator still holds when the operation is taken up *)
(* and no operation is ever marked OPERATOR_TYPE_DO_3 and left behind.     *)
(***************************************************************************)
THEOREM AcceptedOperationsValid == Spec => []AcceptedStaysValid
<1>1. UpInv => AcceptedStaysValid
  BY DEF UpInv, OpInv, AcceptedStaysValid, NoSO
<1>2. QED
  BY <1>1, UpInvariant, PTL

-----------------------------------------------------------------------------
(***************************************************************************)
(* The refinement.  What TipManage maps to the catalog changes with the    *)
(* steps that accept an operation, publish or unlink a CTMInfo, switch a   *)
(* tree and clear an operation.                                            *)
(***************************************************************************)
Pending(t) == [op |-> so[t].op, id |-> so[t].id]
Aim(t)     == IF so[t].op = "d" THEN 0 ELSE so[t].id

\* What the updater is about to publish is the operation's own tree, and has taken effect after it.
AimInv ==
  /\ up.pc = "addPublish" => tm[up.info].slot[0] = up.info
  /\ up.pc = "updSwap" => tm[up.info].slot[1 - tm[up.info].idx] = so[up.task].id
  /\ up.pc \in {"updWait", "clear"} => Current(up.task) = Aim(up.task)

ViewSame == nreq' = nreq /\ \A t \in Task : Pending(t)' = Pending(t) /\ Current(t)' = Current(t)

LEMMA CurrentIs ==
  ASSUME UpInv, NEW t \in Task
  PROVE  /\ mapInfo[t] # 0 => /\ mapInfo[t] \in Owned /\ mapInfo[t] \in Ids
                             /\ tm[mapInfo[t]].idx \in {0, 1}
                             /\ Current(t) = tm[mapInfo[t]].slot[tm[mapInfo[t]].idx]
         /\ Current(t) = 0 <=> mapInfo[t] = 0
<1>1. TypeOK /\ OwnInv
  BY DEF UpInv
<1>2. CASE mapInfo[t] = 0
  BY <1>2 DEF Current
<1>3. CASE mapInfo[t] # 0
  <2>1. mapInfo[t] \in Owned
    BY <1>3 DEF Owned
  <2>2. mapInfo[t] \in Ids
    BY <1>1, <1>3, TipManageAssumption DEF TypeOK, Ids
  <2> QED
    BY <1>1, <1>3, <2>1, <2>2 DEF OwnInv, Current, GetTreeArray
<1> QED
  BY <1>2, <1>3

\* AimInv after a step that leaves the updater at updWait or clear.
LEMMA AimKept ==
  ASSUME NEW t \in Task, up'.task = t, up'.pc \in {"updWait", "clear"}, Current(t)' = Aim(t)'
  PROVE  AimInv'
BY DEF AimInv, Current, Aim

LEMMA SameView == ASSUME ViewSame PROVE UNCHANGED Catalog!vars
BY DEF ViewSame, Catalog!vars, Pending

LEMMA ViewAccepts ==
  ASSUME UpInv, NEW t \in Task, NEW op \in Ops, Acceptable(t, op), Accept(t, op), UNCHANGED <<mapInfo, tm>>
  PROVE  Catalog!Accept(t, op)
<1>1. \A s \in Task : Current(s)' = Current(s)
  BY DEF Current, GetTreeArray
<1>2. (op = "a") <=> (Current(t) = 0)
  BY CurrentIs DEF Acceptable
<1>3. nreq < MaxOps /\ Pending(t) = Catalog!Nothing /\ nreq' = nreq + 1
  BY DEF Acceptable, Accept, Pending, NoSO, Catalog!Nothing
<1>4. so' = [so EXCEPT ![t] = [op |-> op, state |-> 1, id |-> nreq + 1]] /\ so \in [Task -> SORecord]
  BY DEF Accept, UpInv, TypeOK
<1>5. \A s \in Task : Pending(s)' = IF s = t THEN [op |-> op, id |-> nreq + 1] ELSE Pending(s)
  BY <1>4 DEF Pending
<1> QED
  BY <1>1, <1>2, <1>3, <1>5 DEF Catalog!Accept, Pending

LEMMA ViewTakesEffect ==
  ASSUME NEW t \in Task, so[t].op # "none", Current(t) # Aim(t), Current(t)' = Aim(t),
         \A s \in Task : s # t => Current(s)' = Current(s),
         \A s \in Task : Pending(s)' = Pending(s), nreq' = nreq
  PROVE  Catalog!TakeEffect(t)
BY DEF Catalog!TakeEffect, Catalog!Nothing, Catalog!Target, Pending, Aim

LEMMA ViewRetires ==
  ASSUME UpInv, AimInv, ClearOperator, NEW t \in Task, t = up.task
  PROVE  Catalog!Retire(t)
<1>1. up.pc = "clear" /\ so' = [so EXCEPT ![t] = NoSO] /\ UNCHANGED <<mapInfo, tm, nreq>>
  BY DEF ClearOperator
<1>2. t \in Task /\ so[t] # NoSO /\ so \in [Task -> SORecord]
  BY <1>1, WorkFacts DEF Working, UpInv, TypeOK
<1>3. so[t].op # "none"
  BY <1>2 DEF UpInv, OpInv
<1>4. Current(t) = Aim(t)
  BY <1>1 DEF AimInv
<1>5. \A s \in Task : Current(s)' = Current(s)
  BY <1>1 DEF Current, GetTreeArray
<1>6. \A s \in Task : Pending(s)' = IF s = t THEN Catalog!Nothing ELSE Pending(s)
  BY <1>1, <1>2 DEF Pending, NoSO, Catalog!Nothing
<1> QED
  BY <1>1, <1>2, <1>3, <1>4, <1>5, <1>6 DEF Catalog!Retire, Catalog!Target, Catalog!Nothing, Pending, Aim

\* Identify takes a task up: a delete takes effect there, nothing else does.
LEMMA IdentifyView ==
  ASSUME UpInv, UpInv', NEW t \in Task, Identify(t)
  PROVE  AimInv' /\ (ViewSame \/ Catalog!TakeEffect(t))
<1>0. TypeOK /\ OpInv /\ OwnInv
  BY DEF UpInv
<1>1. so[t] # NoSO /\ so[t].state = 1 /\ so[t].op # "none"
  BY <1>0 DEF Identify, First, OpInv
<1>2. so[t].op = "a" <=> mapInfo[t] = 0
  BY <1>0, <1>1 DEF OpInv
<1>3. /\ so' = [so EXCEPT ![t].state = 2] /\ UNCHANGED <<tm, nreq>>
      /\ up' = [pc |-> CASE so[t].op = "a" -> "addLoad" [] so[t].op = "d" -> "delWait" [] OTHER -> "updLoad",
                task |-> t, info |-> IF so[t].op = "a" THEN so[t].id ELSE mapInfo[t]]
      /\ mapInfo' = IF so[t].op = "d" THEN [mapInfo EXCEPT ![t] = 0] ELSE mapInfo
  BY <1>2 DEF Identify
<1>4. AimInv'
  BY <1>3 DEF AimInv
<1>5. \A s \in Task : Pending(s)' = Pending(s)
  BY <1>0, <1>3 DEF TypeOK, Pending, SORecord
<1>6. CASE so[t].op # "d"
  BY <1>3, <1>4, <1>5, <1>6 DEF ViewSame, Current, GetTreeArray
<1>7. CASE so[t].op = "d"
  <2>1. mapInfo[t] # 0 /\ mapInfo' = [mapInfo EXCEPT ![t] = 0]
    BY <1>2, <1>3, <1>7
  <2>2. Current(t) # 0 /\ Aim(t) = 0
    BY <1>7, <2>1, CurrentIs DEF Aim
  <2>3. Current(t)' = 0 /\ \A s \in Task : s # t => Current(s)' = Current(s)
    BY <1>0, <1>3, <2>1 DEF TypeOK, Current, GetTreeArray
  <2> QED
    BY <1>1, <1>3, <1>5, <2>2, <2>3, <1>4, ViewTakesEffect
<1> QED
  BY <1>4, <1>6, <1>7

\* The CTMInfo of an add is not yet one of m_mapInfo.
LEMMA AddLoadView ==
  ASSUME UpInv, AddLoad
  PROVE  AimInv' /\ ViewSame
<1> DEFINE i == up.info
<1>0. TypeOK /\ OpInv /\ FreshInv /\ OwnInv
  BY DEF UpInv
<1>1. /\ up.pc = "addLoad" /\ UNCHANGED <<so, mapInfo, nreq>>
      /\ tm' = [tm EXCEPT ![i] = [idx |-> 0, slot |-> [s \in {0, 1} |-> IF s = 0 THEN i ELSE 0]]]
      /\ up' = [up EXCEPT !.pc = "addPublish"]
  BY DEF AddLoad
<1>2. up.task \in Task /\ so[up.task] # NoSO /\ i = so[up.task].id /\ i \in Ids
  BY <1>0, <1>1, WorkFacts DEF Working, OpInv, AddPc
<1>3. i \notin liveInfo
  BY <1>0, <1>1, <1>2 DEF FreshInv, Untouched
<1>4. \A t \in Task : mapInfo[t] # i
  BY <1>0, <1>2, <1>3, TipManageAssumption DEF OwnInv, NoLeak, Owned, Ids
<1>5. tm'[i].slot[0] = i /\ \A j \in Ids : j # i => tm'[j] = tm[j]
  BY <1>0, <1>1, <1>2 DEF TypeOK
<1>6. \A t \in Task : Current(t)' = Current(t)
  <2> SUFFICES ASSUME NEW t \in Task, mapInfo[t] # 0 PROVE Current(t)' = Current(t)
    BY <1>1 DEF Current
  <2>1. mapInfo[t] \in Ids /\ tm'[mapInfo[t]] = tm[mapInfo[t]]
    BY <1>4, <1>5, CurrentIs
  <2> QED
    BY <1>1, <2>1 DEF Current, GetTreeArray
<1>7. up'.pc = "addPublish" /\ up'.info = i
  BY <1>0, <1>1 DEF TypeOK, UpRecord
<1> HIDE DEF i
<1>8. AimInv'
  BY <1>5, <1>7 DEF AimInv
<1> QED
  BY <1>1, <1>6, <1>8 DEF ViewSame, Pending

LEMMA AddPublishView ==
  ASSUME UpInv, AimInv, AddPublish, NEW t \in Task, t = up.task
  PROVE  AimInv' /\ Catalog!TakeEffect(t)
<1>0. TypeOK /\ OpInv /\ OwnInv
  BY DEF UpInv
<1>1. PICK i \in Ids : i = up.info /\ i # 0
  BY WorkFacts, TipManageAssumption DEF Working, Ids, AddPublish
<1>2. /\ up.pc = "addPublish" /\ mapInfo[t] = 0 /\ UNCHANGED <<so, tm, nreq>>
      /\ mapInfo' = [mapInfo EXCEPT ![t] = i] /\ up' = [up EXCEPT !.pc = "clear"]
  BY <1>1 DEF AddPublish, AddRefused
<1>3. so[t].op = "a" /\ i = so[t].id
  BY <1>0, <1>1, <1>2 DEF OpInv, AddPc
<1>4. tm[i].idx = 0 /\ tm[i].slot[0] = i
  BY <1>0, <1>1, <1>2 DEF OwnInv, AimInv
<1>5. mapInfo'[t] = i /\ \A s \in Task : s # t => mapInfo'[s] = mapInfo[s]
  BY <1>0, <1>1, <1>2 DEF TypeOK
<1>6. up'.pc = "clear" /\ up'.task = t
  BY <1>0, <1>2 DEF TypeOK, UpRecord
<1>7. Current(t)' = i /\ Current(t) = 0 /\ \A s \in Task : s # t => Current(s)' = Current(s)
  BY <1>1, <1>2, <1>4, <1>5 DEF Current, GetTreeArray
<1>8. Aim(t) = i /\ Aim(t)' = i
  BY <1>2, <1>3 DEF Aim
<1>9. \A s \in Task : Pending(s)' = Pending(s)
  BY <1>2 DEF Pending
<1>10. Catalog!TakeEffect(t)
  BY <1>1, <1>2, <1>3, <1>7, <1>8, <1>9, ViewTakesEffect
<1>11. AimInv'
  BY <1>6, <1>7, <1>8, AimKept
<1> QED
  BY <1>10, <1>11

\* These steps move no index and no tree in use.
LEMMA ReclaimView ==
  ASSUME UpInv, AimInv, AddRefuse \/ DelReclaim
  PROVE  AimInv' /\ ViewSame
<1>1. UNCHANGED <<so, mapInfo, tm, nreq>>
  BY DEF AddRefuse, DelReclaim
<1>2. ViewSame
  BY <1>1 DEF ViewSame, Pending, Current, GetTreeArray
<1>3. CASE AddRefuse
  BY <1>2, <1>3 DEF AddRefuse, UpIdle, AimInv
<1>4. CASE DelReclaim
  <2>1. up.pc = "delWait" /\ up' = [up EXCEPT !.pc = "clear"] /\ up \in UpRecord
    BY <1>4 DEF DelReclaim, UpInv, TypeOK
  <2>2. up'.pc = "clear" /\ up'.task = up.task
    BY <2>1 DEF UpRecord
  <2>3. so[up.task].op = "d" /\ mapInfo[up.task] = 0
    BY <2>1 DEF UpInv, OpInv
  <2>4. PICK t \in Task : t = up.task
    BY <2>1, WorkFacts DEF Working
  <2>5. Current(t)' = 0 /\ Aim(t)' = 0
    BY <1>1, <2>3, <2>4 DEF Current, Aim
  <2> QED
    BY <1>2, <2>2, <2>4, <2>5, AimKept
<1> QED
  BY <1>3, <1>4

\* An update loads into the slot that is not in use, and later empties it.
LEMMA SpareView ==
  ASSUME UpInv, NEW i \in Ids, i = up.info, tm[i].idx \in {0, 1}, NEW k,
         tm' = [tm EXCEPT ![i].slot[1 - tm[i].idx] = k], mapInfo' = mapInfo, so' = so, nreq' = nreq
  PROVE  ViewSame /\ tm'[i].idx = tm[i].idx /\ tm'[i].slot[1 - tm[i].idx] = k
<1>1. tm \in [Ids -> TMRecord]
  BY DEF UpInv, TypeOK
<1>2. 1 - tm[i].idx \in {0, 1} /\ 1 - tm[i].idx # tm[i].idx
  OBVIOUS
<1>3. /\ tm'[i].idx = tm[i].idx
      /\ tm'[i].slot[1 - tm[i].idx] = k
      /\ tm'[i].slot[tm[i].idx] = tm[i].slot[tm[i].idx]
      /\ \A j \in Ids : j # i => tm'[j] = tm[j]
  BY <1>1, <1>2 DEF TMRecord
<1>4. \A t \in Task : Current(t)' = Current(t)
  <2> SUFFICES ASSUME NEW t \in Task, mapInfo[t] # 0 PROVE Current(t)' = Current(t)
    BY DEF Current
  <2>1. mapInfo[t] \in Ids
    BY CurrentIs
  <2>2. CASE mapInfo[t] = i
    BY <1>3, <2>2 DEF Current, GetTreeArray
  <2>3. CASE mapInfo[t] # i
    BY <1>3, <2>1, <2>3 DEF Current, GetTreeArray
  <2> QED
    BY <2>2, <2>3
<1> QED
  BY <1>3, <1>4 DEF ViewSame, Pending

LEMMA UpdLoadView ==
  ASSUME UpInv, UpdLoad
  PROVE  AimInv' /\ ViewSame
<1>0. up.pc = "updLoad" /\ up \in UpRecord /\ UNCHANGED <<so, mapInfo, nreq>>
  BY DEF UpdLoad, UpInv, TypeOK
<1>1. PICK i \in Ids : i = up.info /\ i \in Owned
  BY <1>0, WorkFacts DEF Working
<1>2. tm[i].idx \in {0, 1}
  BY <1>1 DEF UpInv, OwnInv
<1>3. PICK k : k = so[up.task].id
  OBVIOUS
<1>4. tm' = [tm EXCEPT ![i].slot[1 - tm[i].idx] = k] /\ up' = [up EXCEPT !.pc = "updSwap"]
  BY <1>1, <1>2, <1>3 DEF UpdLoad
<1>5. up'.pc = "updSwap" /\ up'.info = i /\ up'.task = up.task
  BY <1>0, <1>1, <1>4 DEF UpRecord
<1>6. ViewSame /\ tm'[i].idx = tm[i].idx /\ tm'[i].slot[1 - tm[i].idx] = k
  BY <1>0, <1>1, <1>2, <1>4, SpareView
<1> QED
  BY <1>0, <1>3, <1>5, <1>6 DEF AimInv

LEMMA UpdReclaimView ==
  ASSUME UpInv, AimInv, UpdReclaim, NEW t \in Task, t = up.task
  PROVE  AimInv' /\ ViewSame
<1>0. up.pc = "updWait" /\ up \in UpRecord /\ UNCHANGED <<so, mapInfo, nreq>> /\ up' = [up EXCEPT !.pc = "clear"]
  BY DEF UpdReclaim, UpInv, TypeOK
<1>1. PICK i \in Ids : i = up.info /\ i \in Owned
  BY <1>0, WorkFacts DEF Working
<1>2. tm[i].idx \in {0, 1}
  BY <1>1 DEF UpInv, OwnInv
<1>3. tm' = [tm EXCEPT ![i].slot[1 - tm[i].idx] = 0]
  BY <1>1 DEF UpdReclaim
<1>4. ViewSame
  BY <1>0, <1>1, <1>2, <1>3, SpareView
<1>5. up'.pc = "clear" /\ up'.task = t
  BY <1>0 DEF UpRecord
<1>6. Current(t)' = Aim(t)'
  BY <1>0, <1>4 DEF AimInv, ViewSame, Aim
<1> QED
  BY <1>4, <1>5, <1>6, AimKept

LEMMA UpdSwapView ==
  ASSUME UpInv, AimInv, UpdSwap, NEW t \in Task, t = up.task
  PROVE  AimInv' /\ Catalog!TakeEffect(t)
<1>0. TypeOK /\ OpInv /\ OwnInv
  BY DEF UpInv
<1>1. up.pc = "updSwap" /\ UNCHANGED <<so, mapInfo, nreq>> /\ up' = [up EXCEPT !.pc = "updWait"]
  BY DEF UpdSwap
<1>2. PICK i \in Ids : i = up.info /\ i \in Owned /\ i # 0
  BY <1>1, WorkFacts, TipManageAssumption DEF Working, Ids
<1>3. so[t].op = "u" /\ mapInfo[t] = i
  BY <1>0, <1>1, <1>2 DEF OpInv, UpdPc
<1>4. PICK a \in {0, 1} : a = tm[i].idx
  BY <1>0, <1>2 DEF OwnInv
<1>5. 1 - a \in {0, 1} /\ 1 - a # a
  OBVIOUS
<1>6. tm[i].slot[a] # 0 /\ tm[i].slot[a] # tm[i].slot[1 - a]
  BY <1>0, <1>2, <1>4, <1>5 DEF OwnInv
<1>7. tm[i].slot[1 - a] = so[t].id
  BY <1>1, <1>2, <1>4 DEF AimInv
<1>8. tm' = [tm EXCEPT ![i].idx = 1 - a]
  BY <1>2, <1>4 DEF UpdSwap
<1>9. tm'[i].idx = 1 - a /\ tm'[i].slot = tm[i].slot /\ \A j \in Ids : j # i => tm'[j] = tm[j]
  BY <1>0, <1>8 DEF TypeOK, TMRecord
<1>10. Current(t) = tm[i].slot[a]
  BY <1>2, <1>3, <1>4 DEF Current, GetTreeArray
<1>11. Current(t)' = tm[i].slot[1 - a]
  BY <1>1, <1>2, <1>3, <1>5, <1>9 DEF Current, GetTreeArray
<1>12. ASSUME NEW s \in Task, s # t PROVE Current(s)' = Current(s)
  <2>1. mapInfo[s] # 0 => mapInfo[s] # i /\ mapInfo[s] \in Ids
    BY <1>0, <1>3, <1>12, CurrentIs DEF OwnInv
  <2> QED
    BY <1>1, <1>9, <2>1 DEF Current, GetTreeArray
<1>13. Aim(t) = so[t].id /\ Aim(t)' = so[t].id
  BY <1>1, <1>3 DEF Aim
<1>14. \A s \in Task : Pending(s)' = Pending(s)
  BY <1>1 DEF Pending
<1>15. Catalog!TakeEffect(t)
  BY <1>1, <1>3, <1>6, <1>7, <1>10, <1>11, <1>12, <1>13, <1>14, ViewTakesEffect
<1>16. up'.pc = "updWait" /\ up'.task = t
  BY <1>0, <1>1 DEF TypeOK, UpRecord
<1> QED
  BY <1>7, <1>11, <1>13, <1>15, <1>16, AimKept

\* An operation that is accepted is another task's than the one worked on.
LEMMA AcceptKeepsAim ==
  ASSUME UpInv, AimInv, NEW t \in Task, NEW op \in Ops, Acceptable(t, op), Accept(t, op),
         UNCHANGED <<mapInfo, tm, up>>
  PROVE  AimInv'
<1>1. so' = [so EXCEPT ![t] = [op |-> op, state |-> 1, id |-> nreq + 1]] /\ so \in [Task -> SORecord]
  BY DEF Accept, UpInv, TypeOK
<1>2. Working => up.task \in Task /\ up.task # t
  BY WorkFacts DEF Acceptable
<1>3. Working => so'[up.task] = so[up.task]
  BY <1>1, <1>2
<1> QED
  BY <1>3 DEF AimInv, Working, Aim, Current, GetTreeArray

LEMMA BootView ==
  ASSUME UpInv, Boot \/ BootDone
  PROVE  AimInv' /\ (ViewSame \/ \E t \in Task : Catalog!Accept(t, "a"))
<1>1. UNCHANGED <<mapInfo, tm>>
  BY DEF Boot, BootDone
<1>2. CASE UNCHANGED <<so, nreq>>
  BY <1>1, <1>2 DEF ViewSame, Pending, Current, GetTreeArray, Boot, BootDone, AimInv, UpIdle, UpInv, TypeOK, UpRecord
<1>3. CASE ~UNCHANGED <<so, nreq>>
  <2>1. Boot
    BY <1>3 DEF BootDone
  <2>2. PICK t \in Nat : t = up.task + 1 /\ t \in Task /\ Acceptable(t, "a") /\ Accept(t, "a")
    BY <1>3, <2>1, TipManageAssumption DEF Boot, UpInv, TypeOK, UpRecord, Task
  <2>3. Catalog!Accept(t, "a")
    BY <1>1, <2>2, ViewAccepts DEF Ops
  <2>4. AimInv'
    BY <2>1 DEF Boot, AimInv, UpInv, TypeOK, UpRecord
  <2> QED
    BY <2>2, <2>3, <2>4
<1> QED
  BY <1>2, <1>3

LEMMA CatalogStep ==
  ASSUME UpInv, UpInv', AimInv, [Next]_vars
  PROVE  AimInv' /\ (Catalog!Next \/ UNCHANGED Catalog!vars)
<1> DEFINE Step == AimInv' /\ (Catalog!Next \/ UNCHANGED Catalog!vars)
<1>1. ASSUME NEW t \in Task, Identify(t) PROVE Step
  BY <1>1, IdentifyView, SameView DEF Catalog!Next
<1>2. CASE Boot \/ BootDone
  BY <1>2, BootView, SameView DEF Catalog!Next
<1>3. CASE AddLoad \/ AddRefuse \/ DelReclaim \/ UpdLoad
  BY <1>3, AddLoadView, ReclaimView, UpdLoadView, SameView
<1>4. CASE AddPublish \/ UpdSwap \/ UpdReclaim
  <2>1. PICK t \in Task : t = up.task
    BY <1>4, WorkFacts DEF Working, AddPublish, UpdSwap, UpdReclaim
  <2> QED
    BY <1>4, <2>1, AddPublishView, UpdSwapView, UpdReclaimView, SameView DEF Catalog!Next
<1>5. CASE ClearOperator
  <2>1. PICK t \in Task : t = up.task
    BY <1>5, WorkFacts DEF Working, ClearOperator
  <2>3. Catalog!Retire(t)
    BY <1>5, <2>1, ViewRetires
  <2>2. AimInv'
    BY <1>5 DEF ClearOperator, UpIdle, AimInv
  <2> QED
    BY <2>2, <2>3 DEF Catalog!Next
<1>6. CASE UNCHANGED upVars
  BY <1>6, SameView DEF upVars, ViewSame, Pending, AimInv, Aim, Current, GetTreeArray
<1>7. CASE \E q \in Queries : Request(q)
  BY <1>6, <1>7, RequestType DEF UpInv
<1>8. ASSUME NEW q \in Queries, NEW t \in Task, NEW op \in Ops, SpecialOperator(q, t, op) PROVE Step
  <2>1. Acceptable(t, op) /\ Accept(t, op) /\ UNCHANGED <<mapInfo, tm, up>>
    BY <1>8 DEF SpecialOperator
  <2> QED
    BY <2>1, ViewAccepts, AcceptKeepsAim DEF Catalog!Next, Ops
<1>9. CASE UNCHANGED vars
  BY <1>6, <1>9 DEF vars, upVars
<1> QED
  BY <1>1, <1>2, <1>3, <1>4, <1>5, <1>7, <1>8, <1>9 DEF Next, Updater

(***************************************************************************)
(* Threads, slots and allocations seen from the operators' side are the    *)
(* catalog: an accepted operation takes effect once and in one step, and   *)
(* leaves the list only then.                                              *)
(***************************************************************************)
THEOREM TableImplementsCatalog == Spec => ImplementsCatalog
<1>1. Init => Catalog!Init
  BY DEF Init, Catalog!Init, NoSO, Catalog!Nothing, Current, NoMap
<1>2. Init => AimInv
  BY DEF Init, AimInv, UpIdle
<1>3. UpInv /\ UpInv' /\ AimInv /\ [Next]_vars => AimInv' /\ [Catalog!Next]_(Catalog!vars)
  BY CatalogStep
<1> QED
  BY <1>1, <1>2, <1>3, UpInvariant, PTL DEF Spec, ImplementsCatalog, Catalog!Spec

-----------------------------------------------------------------------------
(***************************************************************************)
(* The unlocked searches of TipManage are memory safe when no request      *)
(* outlasts the updater's sleep, for every number of tasks, query threads  *)
(* and operations.                                                         *)
(***************************************************************************)

(***************************************************************************)
(* The readers' part of the inductive invariant: the trees a request may   *)
(* hold are the current ones and, when it ran as the updater went to       *)
(* sleep, the one waiting to be deleted.                                   *)
(***************************************************************************)
Doomed ==
  IF up.pc = "delWait" THEN {GetTreeArray(up.info)}
  ELSE IF up.pc = "updWait" THEN {tm[up.info].slot[1 - tm[up.info].idx]} ELSE {}

Holdable(q) == IF q \in waitFor THEN Served \cup Doomed ELSE Served

\* The CTMInfo request q has for task t: still in the table, or unlinked and doomed.
KnownInfo(q, t) ==
  \/ rd[q].copy[t] = mapInfo[t]
  \/ q \in waitFor /\ up.pc = "delWait" /\ rd[q].copy[t] = up.info

ReadOK(q) ==
  /\ rd[q].pc \in {"idle", "copy", "iter", "torn"} => rd[q].copy = NoMap
  /\ rd[q].pc \in {"idle", "copy", "torn"} => rd[q].trees = {}
  /\ rd[q].pc = "iterSlot" => \A s \in Task : s # rd[q].pos => rd[q].copy[s] = 0
  /\ q \in Running => Holdable(q) \subseteq window[q]
  /\ rd[q].trees \subseteq Holdable(q)
  /\ \A t \in Task : rd[q].copy[t] # 0 => KnownInfo(q, t)
  /\ rd[q].pc \in {"slot", "iterSlot"} => \A t \in Task : ScanAt(q, t) =>
       /\ rd[q].idx \in {0, 1}
       /\ tm[rd[q].copy[t]].slot[rd[q].idx] \in Holdable(q)

\* The updater waits for requests only while it sleeps.
WaitEmpty == up.pc \notin {"delWait", "updWait"} => waitFor = {}

ReadInv ==
  /\ waitFor \subseteq Running
  /\ WaitEmpty
  /\ \A q \in Queries : ReadOK(q)

IInv == UpInv /\ ReadInv

-----------------------------------------------------------------------------
(***************************************************************************)
(* The tree of a task in the table, and of the CTMInfo a request asks.     *)
(***************************************************************************)
LEMMA TreeFacts ==
  ASSUME UpInv
  PROVE  /\ \A t \in Task : mapInfo[t] # 0 => mapInfo[t] \in Owned
         /\ \A i \in Owned : /\ i \in Ids /\ i # 0
                             /\ tm[i].idx \in {0, 1}
                             /\ GetTreeArray(i) = tm[i].slot[tm[i].idx]
                             /\ GetTreeArray(i) \in Ids
                             /\ GetTreeArray(i) # 0
         /\ up.pc \in {"delWait", "updWait", "updSwap", "updLoad", "addPublish"}
              => up.info \in Owned
         /\ 0 \notin Doomed
<1>1. TypeOK /\ OwnInv
  BY DEF UpInv
<1>2. \A t \in Task : mapInfo[t] # 0 => mapInfo[t] \in Owned
  BY DEF Owned
<1>3. \A i \in Owned : i \in Ids /\ i # 0
  BY <1>1 DEF OwnInv, NoLeak, TypeOK, Ids
<1>4. ASSUME NEW i \in Owned
      PROVE  /\ tm[i].idx \in {0, 1}
             /\ GetTreeArray(i) = tm[i].slot[tm[i].idx]
             /\ GetTreeArray(i) \in Ids
             /\ GetTreeArray(i) # 0
  <2>1. tm[i].idx \in {0, 1} /\ tm[i].slot[tm[i].idx] # 0
    BY <1>1 DEF OwnInv
  <2>2. GetTreeArray(i) = tm[i].slot[tm[i].idx]
    BY <2>1 DEF GetTreeArray
  <2>3. tm[i].slot[tm[i].idx] \in 0 .. MaxOps
    BY <1>1, <1>3, <2>1 DEF TypeOK, TMRecord
  <2>4. QED
    BY <2>1, <2>2, <2>3, TipManageAssumption DEF Ids
<1>5. up.pc \in {"delWait", "updWait", "updSwap", "updLoad", "addPublish"} => up.info \in Owned
  BY WorkFacts DEF Working
<1>6. 0 \notin Doomed
  <2>1. CASE up.pc = "delWait"
    BY <1>4, <1>5, <2>1 DEF Doomed
  <2>2. CASE up.pc = "updWait"
    BY <1>1, <1>5, <2>2 DEF Doomed, OwnInv
  <2>3. QED
    BY <2>1, <2>2 DEF Doomed
<1>7. QED
  BY <1>2, <1>3, <1>4, <1>5, <1>6

\* A CTMInfo a request still has to ask is allocated, and its current tree may be held.
LEMMA KnownFacts ==
  ASSUME UpInv, NEW q \in Queries, NEW t \in Task, rd[q].copy[t] # 0, KnownInfo(q, t)
  PROVE  rd[q].copy[t] \in Owned /\ GetTreeArray(rd[q].copy[t]) \in Holdable(q)
<1>1. CASE rd[q].copy[t] = mapInfo[t]
  BY <1>1, TreeFacts DEF Holdable, Served, Current
<1>2. CASE q \in waitFor /\ up.pc = "delWait" /\ rd[q].copy[t] = up.info
  BY <1>2, TreeFacts DEF Holdable, Doomed
<1>3. QED
  BY <1>1, <1>2 DEF KnownInfo

\* A step of the updater that changes no tree in use.
LEMMA QuietStep ==
  ASSUME UpInv, ReadInv, UNCHANGED <<rd, waitFor, window, mapInfo>>,
         \A i \in Owned : /\ tm'[i].idx = tm[i].idx
                          /\ \A s \in {0, 1} : tm[i].slot[s] # 0 => tm'[i].slot[s] = tm[i].slot[s],
         Doomed' = Doomed,
         up.pc = "delWait" => up'.pc = "delWait" /\ up'.info = up.info,
         up.pc = "updWait" => up'.pc = "updWait"
  PROVE  ReadInv'
<1>1. \A t \in Task : Current(t)' = Current(t)
  BY TreeFacts DEF Current, GetTreeArray
<1>2. Served' = Served
  BY <1>1 DEF Served
<1>3. \A q \in Queries : Holdable(q)' = Holdable(q)
  BY <1>2 DEF Holdable
<1>4. Running' = Running
  BY DEF Running
<1>5. ASSUME NEW q \in Queries PROVE ReadOK(q)'
  <2>1. ReadOK(q)
    BY DEF ReadInv
  <2>2. \A t \in Task : rd[q].copy[t] # 0 => KnownInfo(q, t)'
    BY <2>1 DEF ReadOK, KnownInfo
  <2>3. ASSUME rd[q].pc \in {"slot", "iterSlot"}, NEW t \in Task, ScanAt(q, t)
        PROVE  /\ rd[q].idx \in {0, 1}
               /\ tm'[rd[q].copy[t]].slot[rd[q].idx] \in Holdable(q)'
    <3>1. rd[q].copy[t] \in Owned
      BY <2>1, <2>3, KnownFacts DEF ReadOK, ScanAt
    <3>2. rd[q].idx \in {0, 1} /\ tm[rd[q].copy[t]].slot[rd[q].idx] \in Holdable(q)
      BY <2>1, <2>3 DEF ReadOK
    <3>3. 0 \notin Holdable(q)
      BY TreeFacts DEF Holdable, Served
    <3>4. QED
      BY <1>3, <3>1, <3>2, <3>3
  <2>4. QED
    BY <1>3, <1>4, <2>1, <2>2, <2>3 DEF ReadOK, ScanAt
<1>6. QED
  BY <1>4, <1>5 DEF ReadInv, WaitEmpty

\* A step of one reader leaves the other readers as they are.
LEMMA ReaderStep ==
  ASSUME ReadInv, UNCHANGED upVars, NEW q \in Queries, ReadOK(q)',
         \A p \in Queries : p # q => rd'[p] = rd[p] /\ window'[p] = window[p],
         waitFor' \in {waitFor, waitFor \ {q}},
         q \in waitFor' => q \in Running'
  PROVE  ReadInv'
<1>1. Served' = Served /\ Doomed' = Doomed
  BY DEF Served, Current, GetTreeArray, Doomed, upVars
<1>2. ASSUME NEW p \in Queries, p # q PROVE ReadOK(p)' /\ (p \in waitFor' => p \in Running')
  <2>1. Holdable(p)' = Holdable(p) /\ (p \in Running' <=> p \in Running)
    BY <1>1, <1>2 DEF Holdable, Running
  <2>2. ReadOK(p) /\ (p \in waitFor <=> p \in waitFor')
    BY <1>2 DEF ReadInv
  <2>3. \A t \in Task : (KnownInfo(p, t)' <=> KnownInfo(p, t)) /\ (ScanAt(p, t)' <=> ScanAt(p, t))
    BY <1>2, <2>2 DEF KnownInfo, ScanAt, upVars
  <2>4. QED
    BY <1>2, <2>1, <2>2, <2>3 DEF ReadOK, upVars, ReadInv
<1>3. waitFor' \subseteq Queries
  BY DEF ReadInv, Running
<1>4. QED
  BY <1>2, <1>3 DEF ReadInv, WaitEmpty, upVars

-----------------------------------------------------------------------------
(***************************************************************************)
(* The requests.                                                           *)
(***************************************************************************)
LEMMA BeginRead ==
  ASSUME IInv, NEW q \in Queries, BeginSearch(q) \/ BeginXuan(q)
  PROVE  ReadInv'
<1>0. TypeOK /\ ReadInv /\ rd[q] \in RdRecord /\ UNCHANGED upVars /\ waitFor' = waitFor
  BY DEF IInv, UpInv, TypeOK, BeginSearch, BeginXuan, upVars
<1>1. rd[q].pc = "idle" /\ rd[q].copy = NoMap /\ rd[q].trees = {} /\ q \notin waitFor
  BY <1>0 DEF BeginSearch, BeginXuan, ReadInv, ReadOK, Running
<1>2. /\ rd'[q].pc \in {"copy", "iter"} /\ rd'[q].copy = NoMap /\ rd'[q].trees = {}
      /\ \A p \in Queries : p # q => rd'[p] = rd[p] /\ window'[p] = window[p]
      /\ window'[q] = Served
  <2> DEFINE R(pc) == [rd[q] EXCEPT !.pc = pc]
  <2>1. PICK pc \in {"copy", "iter"} : rd' = [rd EXCEPT ![q] = R(pc)]
    BY DEF BeginSearch, BeginXuan
  <2>2. R(pc).pc = pc /\ R(pc).copy = rd[q].copy /\ R(pc).trees = rd[q].trees
    BY <1>0 DEF RdRecord
  <2>3. rd'[q] = R(pc) /\ \A p \in Queries : p # q => rd'[p] = rd[p]
    BY <1>0, <2>1 DEF TypeOK
  <2>4. window'[q] = Served /\ \A p \in Queries : p # q => window'[p] = window[p]
    BY <1>0 DEF BeginSearch, BeginXuan, TypeOK
  <2> HIDE DEF R
  <2>5. QED
    BY <1>1, <2>2, <2>3, <2>4
<1>3. Served' = Served
  BY <1>0 DEF Served, Current, GetTreeArray, upVars
<1>4. Holdable(q)' = Served
  BY <1>0, <1>1, <1>3 DEF Holdable
<1>5. ReadOK(q)'
  BY <1>2, <1>4 DEF ReadOK, NoMap
<1>6. QED
  BY <1>0, <1>1, <1>2, <1>5, ReaderStep

LEMMA CopyRead ==
  ASSUME IInv, NEW q \in Queries, CopyMap(q)
  PROVE  ReadInv'
<1>0. /\ TypeOK /\ ReadInv /\ ReadOK(q) /\ rd[q] \in RdRecord /\ UNCHANGED upVars
      /\ waitFor' = waitFor /\ window' = window
  BY DEF IInv, UpInv, TypeOK, CopyMap, upVars, ReadInv
<1>1. rd[q].pc = "copy" /\ rd[q].trees = {} /\ q \in Running
  BY <1>0 DEF CopyMap, ReadOK, Running
<1>2. /\ rd'[q].pc = "scan" /\ rd'[q].trees = {}
      /\ \A t \in Task : rd'[q].copy[t] # 0 => rd'[q].copy[t] = mapInfo[t]
      /\ \A p \in Queries : p # q => rd'[p] = rd[p]
  <2>1. PICK D \in {Task} \cup {{t} : t \in Task} :
          rd' = [rd EXCEPT ![q].pc = "scan",
                           ![q].copy = [t \in Task |-> IF t \in D THEN mapInfo[t] ELSE 0]]
    BY DEF CopyMap
  <2> DEFINE m == [t \in Task |-> IF t \in D THEN mapInfo[t] ELSE 0]
             r == [rd[q] EXCEPT !.pc = "scan", !.copy = m]
  <2>2. rd' = [rd EXCEPT ![q] = r]
    BY <2>1
  <2>3. r.pc = "scan" /\ r.trees = {} /\ r.copy = m
    BY <1>0, <1>1 DEF RdRecord
  <2>4. rd'[q] = r /\ \A p \in Queries : p # q => rd'[p] = rd[p]
    BY <1>0, <2>2 DEF TypeOK
  <2> HIDE DEF r
  <2>5. QED
    BY <2>3, <2>4
<1>3. Holdable(q)' = Holdable(q) /\ q \in Running'
  BY <1>0, <1>2 DEF Holdable, Served, Current, GetTreeArray, Doomed, upVars, Running
<1>4. ReadOK(q)'
  BY <1>0, <1>1, <1>2, <1>3 DEF ReadOK, KnownInfo, upVars
<1>5. QED
  BY <1>0, <1>2, <1>3, <1>4, ReaderStep

\* ScanAt is the first entry of the copy: there is one.
LEMMA OneEntry ==
  ASSUME NEW q \in Queries, NEW s \in Task, NEW t \in Task, ScanAt(q, s), ScanAt(q, t)
  PROVE  s = t
BY TipManageAssumption DEF ScanAt, Task

LEMMA IdxRead ==
  ASSUME IInv, NEW q \in Queries, NEW t \in Task, ScanIdx(q, t)
  PROVE  ReadInv'
<1>0. /\ TypeOK /\ UpInv /\ ReadInv /\ ReadOK(q) /\ rd[q] \in RdRecord /\ UNCHANGED upVars
      /\ waitFor' = waitFor /\ window' = window
  BY DEF IInv, UpInv, TypeOK, ScanIdx, upVars, ReadInv
<1> DEFINE i == rd[q].copy[t]
<1>1. /\ rd[q].pc = "scan" /\ q \in Running /\ i # 0 /\ ScanAt(q, t)
      /\ i \in Owned /\ GetTreeArray(i) \in Holdable(q)
      /\ tm[i].idx \in {0, 1} /\ GetTreeArray(i) = tm[i].slot[tm[i].idx]
  <2>1. rd[q].pc = "scan" /\ q \in Running /\ i # 0 /\ ScanAt(q, t)
    BY DEF ScanIdx, Running, ScanAt
  <2>2. i \in Owned /\ GetTreeArray(i) \in Holdable(q)
    BY <1>0, <2>1, KnownFacts DEF ReadOK
  <2>3. QED
    BY <1>0, <2>1, <2>2, TreeFacts
<1>2. /\ rd'[q].pc = "slot" /\ rd'[q].trees = rd[q].trees /\ rd'[q].copy = rd[q].copy
      /\ rd'[q].idx = tm[i].idx
      /\ \A p \in Queries : p # q => rd'[p] = rd[p]
  BY <1>0 DEF ScanIdx, TypeOK, RdRecord
<1>3. Holdable(q)' = Holdable(q) /\ q \in Running'
  BY <1>0, <1>2 DEF Holdable, Served, Current, GetTreeArray, Doomed, upVars, Running
<1>4. \A s \in Task : ScanAt(q, s)' => s = t
  BY <1>1, <1>2, OneEntry DEF ScanAt
<1>5. ReadOK(q)'
  BY <1>0, <1>1, <1>2, <1>3, <1>4 DEF ReadOK, KnownInfo, upVars
<1>6. QED
  BY <1>0, <1>2, <1>3, <1>5, ReaderStep

LEMMA SlotRead ==
  ASSUME IInv, NEW q \in Queries, NEW t \in Task, ScanSlot(q, t) \/ XuanSlot(q, t)
  PROVE  ReadInv'
<1>0. /\ TypeOK /\ UpInv /\ ReadInv /\ ReadOK(q) /\ rd[q] \in RdRecord /\ UNCHANGED upVars
      /\ waitFor' = waitFor /\ window' = window
  BY DEF IInv, UpInv, TypeOK, ScanSlot, XuanSlot, upVars, ReadInv
<1>1. /\ rd[q].pc \in {"slot", "iterSlot"} /\ q \in Running /\ ScanAt(q, t)
      /\ TreeRead(q, t) \in Holdable(q)
  BY <1>0 DEF ScanSlot, XuanSlot, Running, ReadOK, TreeRead
<1>2. /\ rd'[q].pc = IF rd[q].pc = "slot" THEN "scan" ELSE "iter"
      /\ rd'[q].trees \subseteq rd[q].trees \cup {TreeRead(q, t)}
      /\ rd'[q].copy = [rd[q].copy EXCEPT ![t] = 0]
      /\ \A p \in Queries : p # q => rd'[p] = rd[p]
  <2> DEFINE m == [rd[q].copy EXCEPT ![t] = 0]
  <2>1. CASE ScanSlot(q, t)
    <3> DEFINE r == [rd[q] EXCEPT !.pc = "scan", !.copy = m, !.idx = -1,
                                  !.trees = @ \cup {TreeRead(q, t)}]
    <3>1. rd' = [rd EXCEPT ![q] = r] /\ rd[q].pc = "slot"
      BY <2>1 DEF ScanSlot
    <3>2. r.pc = "scan" /\ r.copy = m /\ r.trees = rd[q].trees \cup {TreeRead(q, t)}
      BY <1>0 DEF RdRecord
    <3> HIDE DEF r
    <3>3. QED
      BY <1>0, <3>1, <3>2 DEF TypeOK
  <2>2. CASE XuanSlot(q, t)
    <3> DEFINE r == [rd[q] EXCEPT !.pc = "iter", !.copy = m, !.idx = -1,
                                  !.trees = {TreeRead(q, t)}]
    <3>1. rd' = [rd EXCEPT ![q] = r] /\ rd[q].pc = "iterSlot"
      BY <2>2, ZenonT(40) DEF XuanSlot
    <3>2. r.pc = "iter" /\ r.copy = m /\ r.trees = {TreeRead(q, t)}
      BY <1>0 DEF RdRecord
    <3> HIDE DEF r
    <3>3. QED
      BY <1>0, <3>1, <3>2 DEF TypeOK
  <2>3. QED
    BY <2>1, <2>2
<1>3. Holdable(q)' = Holdable(q) /\ q \in Running'
  BY <1>0, <1>1, <1>2 DEF Holdable, Served, Current, GetTreeArray, Doomed, upVars, Running
<1>4. /\ rd[q].copy \in [Task -> 0 .. MaxOps]
      /\ \A s \in Task : rd'[q].copy[s] = IF s = t THEN 0 ELSE rd[q].copy[s]
  BY <1>0, <1>2 DEF RdRecord
<1>5. rd[q].pc = "iterSlot" => rd'[q].copy = NoMap
  <2>1. ASSUME rd[q].pc = "iterSlot" PROVE \A s \in Task : rd'[q].copy[s] = 0
    BY <1>0, <1>1, <1>4, <2>1 DEF ReadOK, ScanAt
  <2>2. rd'[q].copy = [s \in Task |-> rd'[q].copy[s]]
    BY <1>2, <1>4
  <2>3. QED
    BY <2>1, <2>2 DEF NoMap
<1>6. ReadOK(q)'
  <2>1. \A s \in Task : rd'[q].copy[s] # 0 => KnownInfo(q, s)'
    BY <1>0, <1>4 DEF ReadOK, KnownInfo, upVars
  <2>2. rd'[q].trees \subseteq Holdable(q)'
    BY <1>0, <1>1, <1>2, <1>3 DEF ReadOK
  <2>3. QED
    BY <1>0, <1>1, <1>2, <1>3, <1>5, <2>1, <2>2 DEF ReadOK
<1>7. QED
  BY <1>0, <1>2, <1>3, <1>6, ReaderStep

LEMMA XuanRead ==
  ASSUME IInv, NEW q \in Queries, NEW t \in Task, XuanIdx(q, t)
  PROVE  ReadInv'
<1>0. /\ TypeOK /\ UpInv /\ ReadInv /\ ReadOK(q) /\ rd[q] \in RdRecord /\ UNCHANGED upVars
      /\ waitFor' = waitFor /\ window' = window
  BY DEF IInv, UpInv, TypeOK, XuanIdx, upVars, ReadInv
<1> DEFINE i == mapInfo[t]
<1>1. /\ rd[q].pc = "iter" /\ q \in Running /\ rd[q].copy = NoMap
      /\ i # 0 /\ GetTreeArray(i) \in Served
      /\ tm[i].idx \in {0, 1} /\ GetTreeArray(i) = tm[i].slot[tm[i].idx]
  <2>1. rd[q].pc = "iter" /\ q \in Running /\ i # 0 /\ rd[q].copy = NoMap
    BY <1>0 DEF XuanIdx, XuanAt, Running, ReadOK
  <2>2. QED
    BY <1>0, <2>1, TreeFacts DEF Served, Current
<1>2. /\ rd'[q].pc = "iterSlot" /\ rd'[q].trees = {} /\ rd'[q].idx = tm[i].idx
      /\ rd'[q].pos = t
      /\ \A s \in Task : rd'[q].copy[s] = IF s = t THEN i ELSE 0
      /\ \A p \in Queries : p # q => rd'[p] = rd[p]
  <2> DEFINE m == [rd[q].copy EXCEPT ![t] = i]
             r == [rd[q] EXCEPT !.pc = "iterSlot", !.pos = t, !.copy = m,
                                !.idx = tm[i].idx, !.trees = {}]
  <2>1. rd' = [rd EXCEPT ![q] = r]
    BY ZenonT(40) DEF XuanIdx
  <2>2. /\ r.pc = "iterSlot" /\ r.trees = {} /\ r.idx = tm[i].idx /\ r.pos = t /\ r.copy = m
    BY <1>0 DEF RdRecord
  <2>3. \A s \in Task : m[s] = IF s = t THEN i ELSE 0
    BY <1>1 DEF NoMap
  <2> HIDE DEF r, m
  <2>4. QED
    BY <1>0, <2>1, <2>2, <2>3 DEF TypeOK
<1>3. Holdable(q)' = Holdable(q) /\ q \in Running' /\ Served \subseteq Holdable(q)
  BY <1>0, <1>1, <1>2, SMTT(20), ZenonT(40) DEF Holdable, Served, Current, GetTreeArray, Doomed, upVars, Running
<1>4. ReadOK(q)'
  <2>1. \A s \in Task : ScanAt(q, s)' => s = t
    BY <1>2 DEF ScanAt
  <2>2. \A s \in Task : rd'[q].copy[s] # 0 => KnownInfo(q, s)'
    BY <1>0, <1>2 DEF KnownInfo, upVars
  <2>3. QED
    BY <1>0, <1>1, <1>2, <1>3, <2>1, <2>2, SMTT(20), ZenonT(40) DEF ReadOK, upVars
<1>5. QED
  BY <1>0, <1>2, <1>3, <1>4, ReaderStep

LEMMA EndRead ==
  ASSUME IInv, NEW q \in Queries, EndSearch(q) \/ XuanEnd(q)
  PROVE  ReadInv'
<1>0. /\ TypeOK /\ ReadInv /\ UNCHANGED upVars /\ waitFor' = waitFor \ {q}
      /\ rd' = [rd EXCEPT ![q] = RdIdle] /\ window' = [window EXCEPT ![q] = {}]
  BY DEF IInv, UpInv, EndSearch, XuanEnd, EndRequest, upVars
<1>1. /\ rd'[q].pc = "idle" /\ rd'[q].trees = {} /\ rd'[q].copy = NoMap
      /\ \A p \in Queries : p # q => rd'[p] = rd[p] /\ window'[p] = window[p]
  BY <1>0 DEF TypeOK, RdIdle
<1>2. ReadOK(q)'
  BY <1>1 DEF ReadOK, Running, NoMap
<1>3. QED
  BY <1>0, <1>1, <1>2, ReaderStep

-----------------------------------------------------------------------------
(***************************************************************************)
(* The updater's steps that change no tree in use.                         *)
(***************************************************************************)
LEMMA QuietRead ==
  ASSUME IInv,
         \/ Boot \/ BootDone \/ AddRefuse \/ ClearOperator
         \/ \E q \in Queries, t \in Task, op \in Ops : SpecialOperator(q, t, op)
  PROVE  ReadInv'
<1>1. UNCHANGED <<rd, waitFor, window, mapInfo, tm>>
  BY DEF Boot, BootDone, AddRefuse, ClearOperator, SpecialOperator
<1>2. up' = up \/ (up.pc \notin {"delWait", "updWait"} /\ up'.pc \notin {"delWait", "updWait"})
  <2>1. CASE Boot
    BY <2>1 DEF Boot, IInv, UpInv, TypeOK, UpRecord
  <2>2. CASE BootDone \/ AddRefuse \/ ClearOperator
    BY <2>2 DEF BootDone, AddRefuse, ClearOperator, UpIdle
  <2>3. CASE \E q \in Queries, t \in Task, op \in Ops : SpecialOperator(q, t, op)
    BY <2>3 DEF SpecialOperator
  <2>4. QED
    BY <2>1, <2>2, <2>3
<1>3. Doomed' = Doomed
  BY <1>1, <1>2 DEF Doomed, GetTreeArray
<1>4. QED
  BY <1>1, <1>2, <1>3, QuietStep DEF IInv

LEMMA AddLoadRead == IInv /\ AddLoad => ReadInv'
<1> SUFFICES ASSUME IInv, AddLoad PROVE ReadInv'
  OBVIOUS
<1>0. TypeOK /\ OpInv /\ FreshInv /\ OwnInv /\ UpInv /\ ReadInv
  BY DEF IInv, UpInv
<1>1. up.pc = "addLoad" /\ up'.pc = "addPublish"
  BY <1>0 DEF AddLoad, TypeOK, UpRecord
<1>2. up.info \notin Owned
  BY <1>0, <1>1 DEF OpInv, Working, AddPc, FreshInv, Untouched, OwnInv, NoLeak, NoSO
<1>3. \A i \in Owned : tm'[i] = tm[i]
  BY <1>0, <1>2, TreeFacts DEF AddLoad, TypeOK
<1>4. Doomed' = Doomed
  BY <1>1 DEF Doomed
<1>5. UNCHANGED <<rd, waitFor, window, mapInfo>>
  BY DEF AddLoad
<1>6. QED
  BY <1>0, <1>1, <1>3, <1>4, <1>5, QuietStep

LEMMA UpdLoadRead == IInv /\ UpdLoad => ReadInv'
<1> SUFFICES ASSUME IInv, UpdLoad PROVE ReadInv'
  OBVIOUS
<1>0. TypeOK /\ OpInv /\ FreshInv /\ OwnInv /\ UpInv /\ ReadInv
  BY DEF IInv, UpInv
<1> DEFINE i == up.info
           n == 1 - tm[i].idx
           k == so[up.task].id
<1>1. /\ up.pc = "updLoad" /\ i \in Owned /\ i \in Ids
      /\ tm[i].idx \in {0, 1} /\ n \in {0, 1} /\ tm[i].slot[n] = 0
  BY <1>0, TreeFacts DEF UpdLoad, OwnInv
<1>2. tm' = [tm EXCEPT ![i].slot[n] = k] /\ up' = [up EXCEPT !.pc = "updSwap"]
  BY <1>1 DEF UpdLoad
<1>3. up'.pc = "updSwap"
  BY <1>0, <1>2 DEF TypeOK, UpRecord
<1>4. \A j \in Owned : /\ tm'[j].idx = tm[j].idx
                       /\ \A s \in {0, 1} : tm[j].slot[s] # 0 => tm'[j].slot[s] = tm[j].slot[s]
  <2> DEFINE sl == [tm[i].slot EXCEPT ![n] = k]
             r  == [tm[i] EXCEPT !.slot = sl]
  <2>1. \A s \in {0, 1} : tm[i].slot[s] # 0 => sl[s] = tm[i].slot[s]
    BY <1>0, <1>1 DEF TypeOK, TMRecord
  <2>2. r.idx = tm[i].idx /\ r.slot = sl
    BY <1>0, <1>1 DEF TypeOK, TMRecord
  <2>3. tm' = [tm EXCEPT ![i] = r]
    BY <1>2
  <2> HIDE DEF r, sl
  <2>4. QED
    BY <1>0, <1>1, <2>1, <2>2, <2>3 DEF TypeOK
<1>5. Doomed' = Doomed
  BY <1>1, <1>3 DEF Doomed
<1>6. UNCHANGED <<rd, waitFor, window, mapInfo>>
  BY DEF UpdLoad
<1>7. QED
  BY <1>0, <1>1, <1>3, <1>4, <1>5, <1>6, QuietStep

(***************************************************************************)
(* A write to m_mapInfo ends the requests inside it and spares the others. *)
(***************************************************************************)
LEMMA Torn ==
  ASSUME ReadInv, TearReaders, NEW q \in Queries
  PROVE  \/ q \notin Running /\ rd'[q] = rd[q]
         \/ q \in Running \ InMap /\ rd'[q] = rd[q]
         \/ rd'[q].pc = "torn" /\ rd'[q].copy = NoMap /\ rd'[q].trees = {}
BY DEF TearReaders, RdIdle, Running, InMap

LEMMA NotRunning ==
  ASSUME ReadInv, NEW q \in Queries, q \notin Running
  PROVE  rd[q].copy = NoMap /\ rd[q].trees = {} /\ rd[q].pc \in {"idle", "torn"} /\ q \notin waitFor
BY DEF ReadInv, ReadOK, Running

LEMMA IdentifyRead ==
  ASSUME IInv, NEW t \in Task, Identify(t)
  PROVE  ReadInv'
<1>0. TypeOK /\ OpInv /\ OwnInv /\ UpInv /\ ReadInv
  BY DEF IInv, UpInv
<1>1. /\ up.pc = "idle" /\ so[t].op \in Ops /\ (so[t].op = "a" <=> mapInfo[t] = 0)
      /\ tm' = tm /\ window' = window /\ Doomed = {}
  BY <1>0 DEF Identify, First, OpInv, TypeOK, SORecord, Ops, Doomed
<1>2. CASE so[t].op # "d"
  <2>1. UNCHANGED <<rd, waitFor, mapInfo>> /\ up'.pc \in {"addLoad", "updLoad"}
    BY <1>1, <1>2 DEF Identify, Ops
  <2>2. Doomed' = Doomed
    BY <1>1, <2>1 DEF Doomed
  <2>3. QED
    BY <1>0, <1>1, <2>1, <2>2, QuietStep
<1>3. CASE so[t].op = "d"
  <2>1. /\ mapInfo[t] # 0 /\ mapInfo' = [mapInfo EXCEPT ![t] = 0]
        /\ up'.pc = "delWait" /\ up'.info = mapInfo[t]
        /\ waitFor' = Running \ InMap /\ TearReaders
    BY <1>1, <1>3 DEF Identify
  <2>2. mapInfo'[t] = 0 /\ \A s \in Task : s # t => mapInfo'[s] = mapInfo[s]
    BY <1>0, <2>1 DEF TypeOK
  <2>3. /\ Current(t)' = 0
        /\ \A s \in Task : s # t => Current(s)' = Current(s)
        /\ Doomed' = {Current(t)} /\ Current(t) # 0
    BY <1>0, <1>1, <2>1, <2>2, TreeFacts DEF Current, GetTreeArray, Doomed
  <2>4. Served' \cup Doomed' = Served /\ Served' \subseteq Served
    BY <2>3 DEF Served
  <2>5. waitFor' \subseteq Running'
    BY <2>1 DEF TearReaders, Running, InMap
  <2>6. ASSUME NEW q \in Queries PROVE ReadOK(q)'
    <3>1. ReadOK(q) /\ Holdable(q) = Served
      BY <1>0, <1>1 DEF ReadInv, Holdable
    <3>2. CASE q \in Running \ InMap /\ rd'[q] = rd[q]
      <4>1. Holdable(q)' = Served /\ q \in waitFor' /\ q \in Running
        BY <2>1, <2>4, <3>2 DEF Holdable
      <4>2. \A s \in Task : rd'[q].copy[s] # 0 => KnownInfo(q, s)'
        BY <1>1, <2>1, <2>2, <3>1, <3>2, <4>1 DEF ReadOK, KnownInfo
      <4>3. QED
        BY <1>1, <3>1, <3>2, <4>1, <4>2 DEF ReadOK, ScanAt
    <3>3. CASE q \notin Running /\ rd'[q] = rd[q]
      BY <1>0, <3>3, NotRunning DEF ReadOK, Running, NoMap
    <3>4. CASE rd'[q].pc = "torn" /\ rd'[q].copy = NoMap /\ rd'[q].trees = {}
      BY <3>4 DEF ReadOK, Running, NoMap
    <3>5. QED
      BY <1>0, <2>1, <3>2, <3>3, <3>4, Torn
  <2>7. QED
    BY <2>1, <2>5, <2>6 DEF ReadInv, WaitEmpty
<1>4. QED
  BY <1>2, <1>3

LEMMA AddPublishRead == IInv /\ AddPublish => ReadInv'
<1> SUFFICES ASSUME IInv, AddPublish PROVE ReadInv'
  OBVIOUS
<1>0. TypeOK /\ OpInv /\ OwnInv /\ UpInv /\ ReadInv
  BY DEF IInv, UpInv
<1> DEFINE i == up.info
           t == up.task
<1>1. /\ up.pc = "addPublish" /\ t \in Task /\ mapInfo[t] = 0 /\ i \in Owned /\ Doomed = {}
      /\ i # 0 /\ GetTreeArray(i) # 0
  BY <1>0, WorkFacts, TreeFacts DEF AddPublish, AddRefused, Working, Doomed
<1>2. /\ mapInfo' = [mapInfo EXCEPT ![t] = i] /\ TearReaders /\ Witness(GetTreeArray(i))
      /\ up'.pc = "clear" /\ UNCHANGED <<tm, waitFor>>
  BY <1>0 DEF AddPublish, TypeOK, UpRecord
<1>3. mapInfo'[t] = i /\ \A s \in Task : s # t => mapInfo'[s] = mapInfo[s]
  BY <1>0, <1>1, <1>2 DEF TypeOK
<1>4. /\ Current(t) = 0
      /\ \A s \in Task : Current(s)' = IF s = t THEN GetTreeArray(i) ELSE Current(s)
      /\ Doomed' = {}
  <2>1. \A s \in Task :
          Current(s)' = IF mapInfo'[s] = 0 THEN 0 ELSE GetTreeArray(mapInfo'[s])
    BY <1>2 DEF Current, GetTreeArray
  <2>2. \A s \in Task : Current(s)' = IF s = t THEN GetTreeArray(i) ELSE Current(s)
    BY <1>1, <1>2, <1>3, <2>1 DEF Current
  <2>3. QED
    BY <1>1, <1>2, <2>2 DEF Current, Doomed
<1>5. Served' = Served \cup {GetTreeArray(i)}
  <2> DEFINE new == GetTreeArray(i)
             c    == [s \in Task |-> Current(s)]
             d    == [s \in Task |-> Current(s)']
  <2>1. Served = {c[s] : s \in Task} \ {0} /\ Served' = {d[s] : s \in Task} \ {0}
    BY DEF Served
  <2>2. c[t] = 0 /\ d[t] = new /\ \A s \in Task : s # t => d[s] = c[s]
    BY <1>1, <1>4
  <2>3. {d[s] : s \in Task} \ {0} = ({c[s] : s \in Task} \ {0}) \cup {new}
    <3> HIDE DEF c, d, new
    <3>1. new # 0 /\ t \in Task
      BY <1>1 DEF new
    <3>2. QED
      BY <2>2, <3>1
  <2>4. QED
    BY <2>1, <2>3
<1>6. \A q \in Queries : Holdable(q) = Served /\ Holdable(q)' = Served'
  BY <1>1, <1>4 DEF Holdable
<1>7. waitFor = {}
  BY <1>0, <1>1 DEF IInv, ReadInv, WaitEmpty
<1>8. ASSUME NEW q \in Queries PROVE ReadOK(q)'
  <2>1. ReadOK(q)
    BY <1>0 DEF ReadInv
  <2>2. CASE q \in Running \ InMap /\ rd'[q] = rd[q]
    <3>1. window'[q] = window[q] \cup {GetTreeArray(i)}
      BY <1>2, <2>2 DEF Witness
    <3>2. \A s \in Task : rd'[q].copy[s] # 0 => KnownInfo(q, s)'
      BY <1>1, <1>3, <2>1, <2>2 DEF ReadOK, KnownInfo
    <3>3. Holdable(q)' \subseteq window'[q] /\ Holdable(q) \subseteq Holdable(q)'
      BY <1>5, <1>6, <2>1, <2>2, <3>1 DEF ReadOK
    <3>4. QED
      BY <1>2, <2>1, <2>2, <3>2, <3>3 DEF ReadOK, ScanAt
  <2>3. CASE q \notin Running /\ rd'[q] = rd[q]
    BY <1>0, <2>3, NotRunning DEF ReadOK, Running, NoMap
  <2>4. CASE rd'[q].pc = "torn" /\ rd'[q].copy = NoMap /\ rd'[q].trees = {}
    BY <2>4 DEF ReadOK, Running, NoMap
  <2>5. QED
    BY <1>0, <1>2, <2>2, <2>3, <2>4, Torn
<1>9. QED
  BY <1>2, <1>7, <1>8 DEF ReadInv, WaitEmpty

(***************************************************************************)
(* The switch of an update: what was current is doomed, and every request  *)
(* that runs may still hold it.                                            *)
(***************************************************************************)
LEMMA UpdSwapRead == IInv /\ UpdSwap => ReadInv'
<1> SUFFICES ASSUME IInv, UpdSwap PROVE ReadInv'
  OBVIOUS
<1>0. TypeOK /\ OpInv /\ OwnInv /\ UpInv /\ ReadInv
  BY DEF IInv, UpInv
<1> DEFINE new == tm[up.info].slot[1 - tm[up.info].idx]
<1>1. PICK i \in Owned : i = up.info /\ i \in Ids /\ tm[i].idx \in {0, 1}
  BY <1>0, TreeFacts DEF UpdSwap
<1>2. /\ tm' = [tm EXCEPT ![i].idx = 1 - @] /\ Witness(new) /\ waitFor' = Running
      /\ up.pc = "updSwap" /\ up'.pc = "updWait" /\ up'.info = i
      /\ UNCHANGED <<mapInfo, rd>> /\ waitFor = {} /\ Doomed = {}
  BY <1>0, <1>1 DEF UpdSwap, TypeOK, UpRecord, ReadInv, WaitEmpty, Doomed
<1>3. /\ \A j \in Ids : tm'[j].slot = tm[j].slot
      /\ \A j \in Ids : j # i => tm'[j] = tm[j]
      /\ tm'[i].idx = 1 - tm[i].idx
  <2> DEFINE x == 1 - tm[i].idx
             r == [tm[i] EXCEPT !.idx = x]
  <2>1. r.idx = x /\ r.slot = tm[i].slot /\ tm' = [tm EXCEPT ![i] = r]
    BY <1>0, <1>1, <1>2 DEF TypeOK, TMRecord
  <2> HIDE DEF r
  <2>2. QED
    BY <1>0, <1>1, <2>1 DEF TypeOK
<1>4. /\ \A j \in Ids : j # i => GetTreeArray(j)' = GetTreeArray(j)
      /\ \A j \in Ids : j = i => GetTreeArray(j)' = new
      /\ Doomed' = {GetTreeArray(i)}
  <2>1. tm'[i].slot[tm'[i].idx] = new /\ tm'[i].idx \in {0, 1}
        /\ tm'[i].slot[1 - tm'[i].idx] = GetTreeArray(i)
    BY <1>0, <1>1, <1>3, TreeFacts
  <2>2. \A j \in Ids : j # i => GetTreeArray(j)' = GetTreeArray(j)
    BY <1>3 DEF GetTreeArray
  <2>3. \A j \in Ids : j = i => GetTreeArray(j)' = new
    BY <2>1 DEF GetTreeArray
  <2>4. Doomed' = {GetTreeArray(i)}
    BY <1>2, <2>1 DEF Doomed
  <2>5. QED
    BY <2>2, <2>3, <2>4
<1>5. \A t \in Task : Current(t)' \in {Current(t), new} /\ Current(t) \in {Current(t)'} \cup Doomed'
  BY <1>0, <1>1, <1>2, <1>4, TreeFacts DEF Current
<1>6. Served' \subseteq Served \cup {new} /\ Served \subseteq Served' \cup Doomed'
  BY <1>5 DEF Served
<1>7. ASSUME NEW q \in Queries PROVE ReadOK(q)'
  <2>1. ReadOK(q) /\ Holdable(q) = Served
    BY <1>0, <1>2 DEF ReadInv, Holdable
  <2>2. CASE q \in Running
    <3>1. Holdable(q)' = Served' \cup Doomed'
      BY <1>2, <2>2 DEF Holdable
    <3>2. Holdable(q) \subseteq Holdable(q)'
      BY <1>6, <2>1, <3>1
    <3>3. Holdable(q)' \subseteq window'[q]
      <4>1. window'[q] = window[q] \cup {new} /\ Served \subseteq window[q]
        BY <1>2, <2>1, <2>2 DEF Witness, ReadOK
      <4>2. Doomed' \subseteq Served
        <5>1. GetTreeArray(i) \in Served
          <6>1. PICK t \in Task : mapInfo[t] = i
            BY <1>1, <1>2 DEF Owned
          <6>2. Current(t) = GetTreeArray(i) /\ GetTreeArray(i) # 0
            BY <1>0, <1>1, <6>1, TreeFacts DEF Current
          <6>3. QED
            BY <6>2 DEF Served
        <5>2. QED
          BY <1>4, <5>1
      <4>3. QED
        BY <1>6, <3>1, <4>1, <4>2
    <3>4. \A t \in Task : rd'[q].copy[t] # 0 => KnownInfo(q, t)'
      BY <1>2, <2>1 DEF ReadOK, KnownInfo
    <3>5. ASSUME rd'[q].pc \in {"slot", "iterSlot"}, NEW t \in Task, ScanAt(q, t)'
          PROVE  /\ rd'[q].idx \in {0, 1}
                 /\ tm'[rd'[q].copy[t]].slot[rd'[q].idx] \in Holdable(q)'
      <4>1. /\ rd[q].idx \in {0, 1} /\ tm[rd[q].copy[t]].slot[rd[q].idx] \in Holdable(q)
            /\ rd[q].copy[t] # 0 /\ KnownInfo(q, t)
        BY <1>2, <2>1, <3>5 DEF ReadOK, ScanAt
      <4>2. rd[q].copy[t] \in Ids
        BY <1>0, <4>1, KnownFacts, TreeFacts
      <4>3. QED
        BY <1>2, <1>3, <3>2, <4>1, <4>2
    <3>6. QED
      BY <1>2, <2>1, <3>2, <3>3, <3>4, <3>5 DEF ReadOK
  <2>3. CASE q \notin Running
    BY <1>0, <1>2, <2>3, NotRunning DEF ReadOK, Running, NoMap
  <2>4. QED
    BY <2>2, <2>3
<1>8. QED
  BY <1>2, <1>7 DEF ReadInv, WaitEmpty, Running

(***************************************************************************)
(* The end of the sleep: no request of before it runs any more, so what is *)
(* freed is held by nobody.                                                *)
(***************************************************************************)
LEMMA DelReclaimRead == QueryBounded /\ IInv /\ DelReclaim => ReadInv'
<1> SUFFICES ASSUME QueryBounded, IInv, DelReclaim PROVE ReadInv'
  OBVIOUS
<1>0. TypeOK /\ UpInv /\ ReadInv
  BY DEF IInv, UpInv
<1>1. /\ waitFor = {} /\ waitFor' = {} /\ up'.pc = "clear"
      /\ UNCHANGED <<mapInfo, tm, rd, window>>
  BY <1>0 DEF DelReclaim, SleepOver, TypeOK, UpRecord
<1>2. Served' = Served
  BY <1>1 DEF Served, Current, GetTreeArray
<1>3. \A q \in Queries : ReadOK(q)'
  BY <1>0, <1>1, <1>2 DEF ReadInv, ReadOK, Holdable, KnownInfo, ScanAt, Running
<1>4. QED
  BY <1>1, <1>3 DEF ReadInv, WaitEmpty

LEMMA UpdReclaimRead == QueryBounded /\ IInv /\ UpdReclaim => ReadInv'
<1> SUFFICES ASSUME QueryBounded, IInv, UpdReclaim PROVE ReadInv'
  OBVIOUS
<1>0. TypeOK /\ OwnInv /\ UpInv /\ ReadInv
  BY DEF IInv, UpInv
<1>1. PICK i \in Owned : i = up.info /\ i \in Ids /\ tm[i].idx \in {0, 1}
  BY <1>0, TreeFacts DEF UpdReclaim
<1>2. PICK o \in {0, 1} : o = 1 - tm[i].idx
  BY <1>1
<1>3. /\ waitFor = {} /\ waitFor' = {} /\ up'.pc = "clear" /\ up.pc = "updWait"
      /\ tm' = [tm EXCEPT ![i].slot[o] = 0]
      /\ UNCHANGED <<mapInfo, rd, window>>
  BY <1>0, <1>1, <1>2 DEF UpdReclaim, SleepOver, TypeOK, UpRecord
<1>4. /\ \A j \in Ids : tm'[j].idx = tm[j].idx
      /\ \A j \in Ids : \A s \in {0, 1} :
           tm'[j].slot[s] = IF j = i /\ s = o THEN 0 ELSE tm[j].slot[s]
  <2> DEFINE sl == [tm[i].slot EXCEPT ![o] = 0]
             r  == [tm[i] EXCEPT !.slot = sl]
  <2>1. \A s \in {0, 1} : sl[s] = IF s = o THEN 0 ELSE tm[i].slot[s]
    BY <1>0, <1>1 DEF TypeOK, TMRecord
  <2>2. r.idx = tm[i].idx /\ r.slot = sl /\ tm' = [tm EXCEPT ![i] = r]
    BY <1>0, <1>1, <1>3 DEF TypeOK, TMRecord
  <2> HIDE DEF r, sl
  <2>3. QED
    BY <1>0, <1>1, <2>1, <2>2 DEF TypeOK
<1>5. \A j \in Owned : GetTreeArray(j)' = GetTreeArray(j)
  BY <1>0, <1>1, <1>2, <1>4, TreeFacts DEF GetTreeArray
<1>6. Served' = Served
  <2>1. \A t \in Task : Current(t)' = Current(t)
    BY <1>0, <1>3, <1>5, TreeFacts DEF Current
  <2>2. QED
    BY <2>1 DEF Served
<1>7. tm[i].slot[o] \notin Served
  <2>1. tm[i].slot[o] # 0 /\ o # tm[i].idx
    BY <1>0, <1>1, <1>2, <1>3 DEF OwnInv
  <2>2. \A j \in Owned : GetTreeArray(j) # tm[i].slot[o]
    BY <1>0, <1>1, <2>1, TreeFacts DEF OwnInv
  <2>3. QED
    BY <1>0, <2>1, <2>2, TreeFacts DEF Served, Current
<1>8. ASSUME NEW q \in Queries PROVE ReadOK(q)'
  <2>1. ReadOK(q) /\ Holdable(q) = Served /\ Holdable(q)' = Served
    BY <1>0, <1>3, <1>6 DEF ReadInv, Holdable
  <2>2. \A t \in Task : rd[q].copy[t] # 0 => rd[q].copy[t] = mapInfo[t]
    BY <1>3, <2>1 DEF ReadOK, KnownInfo
  <2>3. ASSUME rd'[q].pc \in {"slot", "iterSlot"}, NEW t \in Task, ScanAt(q, t)'
        PROVE  /\ rd'[q].idx \in {0, 1}
               /\ tm'[rd'[q].copy[t]].slot[rd'[q].idx] \in Served
    <3>1. /\ rd[q].idx \in {0, 1} /\ tm[rd[q].copy[t]].slot[rd[q].idx] \in Served
          /\ rd[q].copy[t] # 0
      BY <1>3, <2>1, <2>3 DEF ReadOK, ScanAt
    <3>2. rd[q].copy[t] \in Ids
      BY <1>0, <2>2, <3>1, TreeFacts
    <3>3. QED
      BY <1>3, <1>4, <1>7, <3>1, <3>2
  <2>4. QED
    BY <1>3, <2>1, <2>2, <2>3 DEF ReadOK, KnownInfo, Running
<1>9. QED
  BY <1>3, <1>8 DEF ReadInv, WaitEmpty

-----------------------------------------------------------------------------
(***************************************************************************)
(* IInv is inductive when no request outlasts the sleep.                   *)
(***************************************************************************)
LEMMA InitRead == Init => ReadInv
<1> SUFFICES ASSUME Init PROVE ReadInv
  OBVIOUS
<1>1. \A q \in Queries : rd[q] = RdIdle /\ rd[q].pc = "idle" /\ rd[q].copy = NoMap /\ rd[q].trees = {}
  BY DEF Init, RdIdle
<1>2. \A q \in Queries : ReadOK(q)
  BY <1>1 DEF ReadOK, Running, NoMap
<1>3. QED
  BY <1>2 DEF Init, ReadInv, WaitEmpty

LEMMA ReadNext == QueryBounded /\ IInv /\ [Next]_vars => IInv'
<1> SUFFICES ASSUME QueryBounded, IInv, [Next]_vars PROVE IInv'
  OBVIOUS
<1>1. UpInv'
  BY UpStep DEF IInv
<1>2. CASE Updater
  BY <1>1, <1>2, QuietRead, IdentifyRead, AddLoadRead, AddPublishRead, DelReclaimRead,
     UpdLoadRead, UpdSwapRead, UpdReclaimRead DEF Updater, IInv
<1>3. CASE \E q \in Queries : Request(q)
  BY <1>1, <1>3, BeginRead, CopyRead, IdxRead, SlotRead, XuanRead, EndRead DEF Request, IInv
<1>4. CASE \E q \in Queries, t \in Task, op \in Ops : SpecialOperator(q, t, op)
  BY <1>1, <1>4, QuietRead DEF IInv
<1>5. CASE UNCHANGED vars
  <2>1. Doomed' = Doomed
    BY <1>5 DEF vars, Doomed, GetTreeArray
  <2>2. ReadInv'
    BY <1>5, <2>1, QuietStep DEF vars, IInv
  <2>3. QED
    BY <1>1, <2>2 DEF IInv
<1>6. QED
  BY <1>2, <1>3, <1>4, <1>5 DEF Next

LEMMA ReadInvariant == QueryBounded => (Spec => []IInv)
<1> SUFFICES ASSUME QueryBounded PROVE Spec => []IInv
  OBVIOUS
<1>1. Init => IInv
  BY InitUp, InitRead DEF IInv
<1>2. IInv /\ [Next]_vars => IInv'
  BY ReadNext
<1>3. QED
  BY <1>1, <1>2, PTL DEF Spec

(***************************************************************************)
(* No search reads a freed CTMInfo or a freed or NULL tree while the       *)
(* updater deletes behind it, for any number of threads and tasks, as long *)
(* as no request outlasts ONE_SEACH_MAXTIME.                               *)
(***************************************************************************)
THEOREM SearchesAreMemorySafe == QueryBounded => (Spec => []NoUseAfterFree)
<1>1. IInv => NoUseAfterFree
  <2> SUFFICES ASSUME IInv, NEW q \in Queries
               PROVE  /\ \A t \in Task : rd[q].copy[t] \in liveInfo \cup {0}
                      /\ rd[q].trees \subseteq liveTree
    BY DEF NoUseAfterFree
  <2>1. UpInv /\ OwnInv /\ ReadOK(q) /\ liveInfo = Owned
    BY DEF IInv, UpInv, OwnInv, NoLeak, ReadInv
  <2>2. \A t \in Task : rd[q].copy[t] \in liveInfo \cup {0}
    BY <2>1, KnownFacts DEF ReadOK
  <2>3. \A i \in Owned : GetTreeArray(i) \in liveTree
    BY <2>1, TreeFacts, Leakless DEF OwnInv, EachOwned
  <2>4. Served \subseteq liveTree
    BY <2>1, <2>3, TreeFacts DEF Served, Current
  <2>5. Doomed \subseteq liveTree
    <3>1. CASE up.pc = "delWait"
      BY <2>1, <2>3, <3>1, TreeFacts DEF Doomed
    <3>2. CASE up.pc = "updWait"
      <4>1. up.info \in Owned /\ tm[up.info].idx \in {0, 1}
            /\ tm[up.info].slot[1 - tm[up.info].idx] # 0
        BY <2>1, <3>2, TreeFacts DEF OwnInv
      <4>2. tm[up.info].slot[1 - tm[up.info].idx] \in liveTree
        BY <2>1, <4>1, Leakless DEF OwnInv, EachOwned
      <4>3. QED
        BY <3>2, <4>2 DEF Doomed
    <3>3. QED
      BY <3>1, <3>2 DEF Doomed
  <2>6. QED
    BY <2>1, <2>2, <2>4, <2>5 DEF ReadOK, Holdable
<1>2. QED
  BY <1>1, ReadInvariant, PTL

(***************************************************************************)
(* Under the same assumption an answer comes only from trees that were     *)
(* published and current at some moment of the request.                    *)
(***************************************************************************)
THEOREM AnswersAreCurrent == QueryBounded => (Spec => []AnswersFromServedTrees)
<1>1. IInv => AnswersFromServedTrees
  <2> SUFFICES ASSUME IInv, NEW q \in Queries PROVE rd[q].trees \subseteq window[q]
    BY DEF AnswersFromServedTrees
  <2>1. ReadOK(q) /\ ReadInv
    BY DEF IInv, ReadInv
  <2>2. CASE q \in Running
    BY <2>1, <2>2 DEF ReadOK
  <2>3. CASE q \notin Running
    BY <2>1, <2>3, NotRunning
  <2>4. QED
    BY <2>2, <2>3
<1>2. QED
  BY <1>1, ReadInvariant, PTL
=============================================================================
