---------------------------- MODULE NetServerProofs ----------------------------
(***************************************************************************)
(* Theorems about NetServer, for every number of clients, descriptors and  *)
(* query threads and all sizes of the buffer and the queues: the types,    *)
(* that every open descriptor is in one hand, and that the answers reach   *)
(* their askers.  bHtml is FALSE for a frame there; with what the stack    *)
(* may hold instead, a descriptor gets into two hands.                     *)
(***************************************************************************)
EXTENDS NetServer, LockedQueue, FiniteSetTheorems, NaturalsInduction, SequenceTheorems, TLAPS

-----------------------------------------------------------------------------
(***************************************************************************)
(* Sequences, queues and the least descriptor.                             *)
(***************************************************************************)
LessPairs == {ss \in Nat \X Nat : ss[1] < ss[2]}

LEMMA LessPairsWellFounded == IsWellFoundedOn(LessPairs, Nat)
  BY NatLessThanWellFounded DEF OpToRel, LessPairs

\* Least finds the least of a set of numbers.
LEMMA LeastIsLeast ==
  ASSUME NEW S, S \subseteq Nat, S # {}
  PROVE  Least(S) \in S
<1>1. PICK x \in S : \A y \in S : ~(<<y, x>> \in LessPairs)
  BY LessPairsWellFounded, WFMin
<1>2. ASSUME NEW y \in S PROVE x <= y
  <2>1. x \in Nat /\ y \in Nat
    OBVIOUS
  <2>2. <<y, x>> \in LessPairs <=> y < x
    BY <2>1 DEF LessPairs
  <2>3. ~(y < x)
    BY <1>1, <1>2, <2>2
  <2> QED
    BY <2>1, <2>3
<1> QED
  BY <1>2 DEF Least

LEMMA DropType ==
  ASSUME NEW S, NEW s \in Seq(S), NEW n \in 0 .. Len(s)
  PROVE  Drop(s, n) \in Seq(S) /\ Len(Drop(s, n)) = Len(s) - n
<1>1. n + 1 \in 1 .. Len(s) + 1 /\ Len(s) \in n + 1 - 1 .. Len(s)
  OBVIOUS
<1> QED
  BY <1>1, SubSeqProperties DEF Drop

\* A queue at its two ends.
LEMMA QueueEnds ==
  ASSUME NEW S, NEW s \in Seq(S)
  PROVE  /\ \A x \in S : /\ Append(s, x) \in Seq(S) /\ Len(Append(s, x)) = Len(s) + 1
                         /\ Append(s, x)[Len(s) + 1] = x
                         /\ \A i \in DOMAIN s : i \in DOMAIN Append(s, x) /\ Append(s, x)[i] = s[i]
                         /\ DOMAIN Append(s, x) = DOMAIN s \cup {Len(s) + 1}
         /\ s # <<>> => /\ Head(s) \in S /\ Tail(s) \in Seq(S) /\ Len(Tail(s)) = Len(s) - 1
                        /\ 1 \in DOMAIN s /\ s[1] = Head(s)
                        /\ \A i \in DOMAIN Tail(s) : i + 1 \in DOMAIN s /\ i + 1 # 1 /\ Tail(s)[i] = s[i + 1]
                        /\ \A i \in DOMAIN s : i = 1 \/ (i - 1 \in DOMAIN Tail(s) /\ Tail(s)[i - 1] = s[i])
<1>1. ASSUME NEW x \in S
      PROVE  /\ Append(s, x) \in Seq(S) /\ Len(Append(s, x)) = Len(s) + 1
             /\ Append(s, x)[Len(s) + 1] = x
             /\ \A i \in DOMAIN s : i \in DOMAIN Append(s, x) /\ Append(s, x)[i] = s[i]
             /\ DOMAIN Append(s, x) = DOMAIN s \cup {Len(s) + 1}
  BY AppendProperties
<1>2. ASSUME s # <<>>
      PROVE  /\ Head(s) \in S /\ Tail(s) \in Seq(S) /\ Len(Tail(s)) = Len(s) - 1
             /\ 1 \in DOMAIN s /\ s[1] = Head(s)
             /\ \A i \in DOMAIN Tail(s) : i + 1 \in DOMAIN s /\ i + 1 # 1 /\ Tail(s)[i] = s[i + 1]
             /\ \A i \in DOMAIN s : i = 1 \/ (i - 1 \in DOMAIN Tail(s) /\ Tail(s)[i - 1] = s[i])
  <2>1. /\ Head(s) \in S /\ Tail(s) \in Seq(S) /\ Len(Tail(s)) = Len(s) - 1
        /\ \A i \in 1 .. Len(Tail(s)) : Tail(s)[i] = s[i + 1]
    BY <1>2, HeadTailProperties
  <2>2. Len(s) \in Nat /\ Len(s) > 0 /\ DOMAIN s = 1 .. Len(s) /\ DOMAIN Tail(s) = 1 .. Len(s) - 1 /\ s[1] = Head(s)
    BY <1>2, <2>1
  <2>3. ASSUME NEW i \in DOMAIN Tail(s)
        PROVE i + 1 \in DOMAIN s /\ i + 1 # 1 /\ Tail(s)[i] = s[i + 1]
    BY <2>1, <2>2
  <2>4. ASSUME NEW i \in DOMAIN s
        PROVE  i = 1 \/ (i - 1 \in DOMAIN Tail(s) /\ Tail(s)[i - 1] = s[i])
    <3>1. CASE i # 1
      <4>1. i - 1 \in 1 .. Len(Tail(s)) /\ (i - 1) + 1 = i
        BY <2>1, <2>2, <3>1
      <4> QED
        BY <2>1, <2>2, <4>1
    <3> QED
      BY <3>1
  <2> QED
    BY <2>1, <2>2, <2>3, <2>4
<1> QED
  BY <1>1, <1>2

-----------------------------------------------------------------------------
(***************************************************************************)
(* The types: TypeOK and those of the locals it does not name.             *)
(***************************************************************************)
RdRecord  == [pc : {"pop", "read", "parse", "loop", "wait"}, fd : FD \cup {0}, buf : Seq(Unit),
              long : Nat, more : BOOLEAN, fresh : BOOLEAN]
LisRecord == [ready : SUBSET (FD \cup {0}), hand : FD \cup {0}]

ClientType ==
  /\ st \in [Clients -> {"new", "up", "closed"}]
  /\ script \in [Clients -> Scripts \cup {<<>>}]
  /\ sent \in [Clients -> Nat]
  /\ \A c \in Clients : sent[c] <= Len(script[c]) /\ (st[c] = "new" => sent[c] = 0)

PipeType ==
  /\ inbox \in [Clients -> Seq(Unit)] /\ asked \in [Clients -> Nat]
  /\ got \in [Clients -> Seq(Clients \X Nat)]
  /\ backlog \in Seq(Clients)

QueueType ==
  /\ readq \in Seq(FD) /\ queryq \in Seq(Task) /\ writeq \in Seq(Task)
  /\ Len(readq) <= Capacity /\ Len(queryq) <= Capacity /\ Len(writeq) <= Capacity

ThreadType ==
  /\ owner \in [FD -> Clients \cup {NoClient}]
  /\ armed \subseteq FD
  /\ lis \in LisRecord
  /\ rd \in RdRecord /\ Len(rd.buf) <= BUF_SIZE
  /\ qt \in [QueryThreads -> Task \cup {NoTask}]
  /\ wr \in FD \cup {0}

Types == ClientType /\ PipeType /\ QueueType /\ ThreadType

LEMMA TypesOK == Types => TypeOK
BY DEF Types, ClientType, PipeType, QueueType, ThreadType, TypeOK, RdRecord, LisRecord

(***************************************************************************)
(* Where a descriptor may be, and the descriptors each place holds.        *)
(***************************************************************************)
Place == {"fde", "listener", "readq", "reader", "queryq", "query", "writeq", "writer"}

Html(q) == {q[i].fd : i \in {k \in DOMAIN q : q[k].html}}

Held(p) ==
  CASE p = "fde"      -> armed
    [] p = "listener" -> {lis.hand} \ {0}
    [] p = "readq"    -> {readq[i] : i \in DOMAIN readq}
    [] p = "reader"   -> {rd.fd} \ {0}
    [] p = "queryq"   -> Html(queryq)
    [] p = "query"    -> {qt[t].fd : t \in {u \in QueryThreads : qt[u] # NoTask /\ qt[u].html}}
    [] p = "writeq"   -> Html(writeq)
    [] p = "writer"   -> {wr} \ {0}

\* Open descriptors are in one place, closed ones in none.
OnePlace ==
  /\ \A fd \in FD : owner[fd] # NoClient <=> \E p \in Place : fd \in Held(p)
  /\ \A fd \in FD : \A p, r \in Place : fd \in Held(p) /\ fd \in Held(r) => p = r

\* And there once.
Once(q) == \A i, j \in DOMAIN q : q[i].html /\ q[j].html /\ q[i].fd = q[j].fd => i = j

OnceEach ==
  /\ \A i, j \in DOMAIN readq : readq[i] = readq[j] => i = j
  /\ Once(queryq) /\ Once(writeq)
  /\ \A t, u \in QueryThreads :
       qt[t] # NoTask /\ qt[t].html /\ qt[u] # NoTask /\ qt[u].html /\ qt[t].fd = qt[u].fd => t = u

\* What the listener saw is still in its set, and the reader has a descriptor when it reads.
Locals ==
  /\ lis.ready \ {0} \subseteq armed
  /\ 0 \in lis.ready => backlog # <<>>
  /\ rd.pc = "pop" <=> rd.fd = 0

Inv == Types /\ OnePlace /\ OnceEach /\ Locals

LEMMA InitInv == Init => Inv
<1> SUFFICES ASSUME Init PROVE Inv
  OBVIOUS
<1>1. Types
  BY NetServerAssumption DEF Init, Types, ClientType, PipeType, QueueType, ThreadType, RdIdle, RdRecord, LisRecord
<1>2. \A p \in Place : Held(p) = {}
  BY DEF Init, Held, Place, Html, RdIdle
<1>3. OnePlace
  BY <1>2 DEF OnePlace, Init
<1> QED
  BY <1>1, <1>3 DEF Inv, OnceEach, Once, Locals, Init, RdIdle

-----------------------------------------------------------------------------
(***************************************************************************)
(* How places change: a descriptor comes, moves, or goes.                  *)
(***************************************************************************)
LEMMA Stay ==
  ASSUME OnePlace, owner' = owner, \A p \in Place : Held(p)' = Held(p)
  PROVE  OnePlace'
BY DEF OnePlace

LEMMA Move ==
  ASSUME OnePlace, owner' = owner, NEW fd \in FD, NEW p \in Place, NEW r \in Place, p # r, fd \in Held(p),
         Held(p)' = Held(p) \ {fd}, Held(r)' = Held(r) \cup {fd},
         \A x \in Place : x # p /\ x # r => Held(x)' = Held(x)
  PROVE  OnePlace'
BY DEF OnePlace

LEMMA Come ==
  ASSUME OnePlace, NEW fd \in FD, owner[fd] = NoClient, NEW r \in Place,
         owner'[fd] # NoClient, \A e \in FD : e # fd => owner'[e] = owner[e],
         Held(r)' = Held(r) \cup {fd}, \A x \in Place : x # r => Held(x)' = Held(x)
  PROVE  OnePlace'
BY DEF OnePlace

LEMMA Go ==
  ASSUME OnePlace, NEW fd \in FD, NEW p \in Place, fd \in Held(p),
         owner'[fd] = NoClient, \A e \in FD : e # fd => owner'[e] = owner[e],
         Held(p)' = Held(p) \ {fd}, \A x \in Place : x # p => Held(x)' = Held(x)
  PROVE  OnePlace'
BY DEF OnePlace

\* The places by name, before and after a step.
LEMMA HeldIs ==
  /\ Held("fde") = armed /\ Held("listener") = {lis.hand} \ {0} /\ Held("readq") = {readq[i] : i \in DOMAIN readq}
  /\ Held("reader") = {rd.fd} \ {0} /\ Held("queryq") = Html(queryq) /\ Held("writeq") = Html(writeq)
  /\ Held("query") = {qt[t].fd : t \in {u \in QueryThreads : qt[u] # NoTask /\ qt[u].html}}
  /\ Held("writer") = {wr} \ {0}
BY DEF Held

LEMMA HeldNext ==
  /\ Held("fde")' = armed' /\ Held("listener")' = {lis'.hand} \ {0} /\ Held("readq")' = {readq'[i] : i \in DOMAIN readq'}
  /\ Held("reader")' = {rd'.fd} \ {0} /\ Held("queryq")' = Html(queryq') /\ Held("writeq")' = Html(writeq')
  /\ Held("query")' = {qt'[t].fd : t \in {u \in QueryThreads : qt'[u] # NoTask /\ qt'[u].html}}
  /\ Held("writer")' = {wr'} \ {0}
BY DEF Held, Html

\* A place whose variable does not change holds the same.
LEMMA HeldFrame ==
  /\ armed' = armed => Held("fde")' = Held("fde")
  /\ lis'.hand = lis.hand => Held("listener")' = Held("listener")
  /\ readq' = readq => Held("readq")' = Held("readq")
  /\ rd'.fd = rd.fd => Held("reader")' = Held("reader")
  /\ queryq' = queryq => Held("queryq")' = Held("queryq")
  /\ qt' = qt => Held("query")' = Held("query")
  /\ writeq' = writeq => Held("writeq")' = Held("writeq")
  /\ wr' = wr => Held("writer")' = Held("writer")
BY DEF Held, Html

LEMMA HtmlAppend ==
  ASSUME NEW q \in Seq(Task), NEW x \in Task, Once(q)
  PROVE  /\ Html(Append(q, x)) = IF x.html THEN Html(q) \cup {x.fd} ELSE Html(q)
         /\ (x.html => x.fd \notin Html(q)) => Once(Append(q, x))
<1>1. /\ Append(q, x)[Len(q) + 1] = x
      /\ \A i \in DOMAIN q : i \in DOMAIN Append(q, x) /\ Append(q, x)[i] = q[i]
      /\ DOMAIN Append(q, x) = DOMAIN q \cup {Len(q) + 1}
  BY QueueEnds
<1>2. Html(Append(q, x)) = IF x.html THEN Html(q) \cup {x.fd} ELSE Html(q)
  BY <1>1 DEF Html
<1>3. ASSUME x.html => x.fd \notin Html(q) PROVE Once(Append(q, x))
  BY <1>1, <1>3 DEF Html, Once
<1> QED
  BY <1>2, <1>3

LEMMA HtmlTail ==
  ASSUME NEW q \in Seq(Task), q # <<>>, Once(q)
  PROVE  /\ Head(q) \in Task
         /\ Head(q).html => Head(q).fd \in Html(q)
         /\ Html(Tail(q)) = IF Head(q).html THEN Html(q) \ {Head(q).fd} ELSE Html(q)
         /\ Once(Tail(q))
<1>1. /\ Head(q) \in Task /\ 1 \in DOMAIN q /\ q[1] = Head(q)
      /\ \A i \in DOMAIN Tail(q) : i + 1 \in DOMAIN q /\ i + 1 # 1 /\ Tail(q)[i] = q[i + 1]
      /\ \A i \in DOMAIN q : i = 1 \/ (i - 1 \in DOMAIN Tail(q) /\ Tail(q)[i - 1] = q[i])
  BY QueueEnds
<1>2. Head(q).html => Head(q).fd \in Html(q)
  BY <1>1 DEF Html
<1>3. Html(Tail(q)) \subseteq IF Head(q).html THEN Html(q) \ {Head(q).fd} ELSE Html(q)
  BY <1>1 DEF Html, Once
<1>4. (IF Head(q).html THEN Html(q) \ {Head(q).fd} ELSE Html(q)) \subseteq Html(Tail(q))
  <2> SUFFICES ASSUME NEW i \in DOMAIN q, q[i].html, Head(q).html => q[i].fd # Head(q).fd
               PROVE  q[i].fd \in Html(Tail(q))
    BY DEF Html
  <2>1. i # 1
    BY <1>1
  <2>2. i - 1 \in DOMAIN Tail(q) /\ Tail(q)[i - 1] = q[i]
    BY <1>1, <2>1
  <2> QED
    BY <2>2 DEF Html
<1>5. Once(Tail(q))
  <2> SUFFICES ASSUME NEW i \in DOMAIN Tail(q), NEW j \in DOMAIN Tail(q),
                      Tail(q)[i].html, Tail(q)[j].html, Tail(q)[i].fd = Tail(q)[j].fd
               PROVE  i = j
    BY DEF Once
  <2>1. i \in Nat /\ j \in Nat
    BY QueueEnds
  <2>2. i + 1 = j + 1
    BY <1>1 DEF Once
  <2> QED
    BY <2>1, <2>2
<1> QED
  BY <1>1, <1>2, <1>3, <1>4, <1>5

LEMMA QueueAppend ==
  ASSUME NEW q \in Seq(FD), NEW x \in FD, \A i, j \in DOMAIN q : q[i] = q[j] => i = j
  PROVE  /\ {Append(q, x)[i] : i \in DOMAIN Append(q, x)} = {q[i] : i \in DOMAIN q} \cup {x}
         /\ x \notin {q[i] : i \in DOMAIN q} => \A i, j \in DOMAIN Append(q, x) : Append(q, x)[i] = Append(q, x)[j] => i = j
<1>1. /\ Append(q, x)[Len(q) + 1] = x
      /\ \A i \in DOMAIN q : i \in DOMAIN Append(q, x) /\ Append(q, x)[i] = q[i]
      /\ DOMAIN Append(q, x) = DOMAIN q \cup {Len(q) + 1}
  BY QueueEnds
<1>2. {Append(q, x)[i] : i \in DOMAIN Append(q, x)} = {q[i] : i \in DOMAIN q} \cup {x}
  BY <1>1
<1>3. ASSUME x \notin {q[i] : i \in DOMAIN q}, NEW i \in DOMAIN Append(q, x), NEW j \in DOMAIN Append(q, x),
             Append(q, x)[i] = Append(q, x)[j]
      PROVE  i = j
  BY <1>1, <1>3
<1> QED
  BY <1>2, <1>3

LEMMA QueueTail ==
  ASSUME NEW q \in Seq(FD), q # <<>>, \A i, j \in DOMAIN q : q[i] = q[j] => i = j
  PROVE  /\ Head(q) \in FD /\ Head(q) \in {q[i] : i \in DOMAIN q}
         /\ {Tail(q)[i] : i \in DOMAIN Tail(q)} = {q[i] : i \in DOMAIN q} \ {Head(q)}
         /\ \A i, j \in DOMAIN Tail(q) : Tail(q)[i] = Tail(q)[j] => i = j
<1>1. /\ Head(q) \in FD /\ 1 \in DOMAIN q /\ q[1] = Head(q)
      /\ \A i \in DOMAIN Tail(q) : i + 1 \in DOMAIN q /\ i + 1 # 1 /\ Tail(q)[i] = q[i + 1]
      /\ \A i \in DOMAIN q : i = 1 \/ (i - 1 \in DOMAIN Tail(q) /\ Tail(q)[i - 1] = q[i])
  BY QueueEnds
<1>2. ASSUME NEW i \in DOMAIN Tail(q), NEW j \in DOMAIN Tail(q), Tail(q)[i] = Tail(q)[j] PROVE i = j
  <2>1. i \in Nat /\ j \in Nat
    BY QueueEnds
  <2>2. i + 1 = j + 1
    BY <1>1, <1>2
  <2> QED
    BY <2>1, <2>2
<1>3. {Tail(q)[i] : i \in DOMAIN Tail(q)} \subseteq {q[i] : i \in DOMAIN q} \ {Head(q)}
  BY <1>1
<1>4. {q[i] : i \in DOMAIN q} \ {Head(q)} \subseteq {Tail(q)[i] : i \in DOMAIN Tail(q)}
  <2> SUFFICES ASSUME NEW i \in DOMAIN q, q[i] # Head(q) PROVE q[i] \in {Tail(q)[j] : j \in DOMAIN Tail(q)}
    OBVIOUS
  <2>1. i - 1 \in DOMAIN Tail(q) /\ Tail(q)[i - 1] = q[i]
    BY <1>1
  <2> QED
    BY <2>1
<1>5. Head(q) \in {q[i] : i \in DOMAIN q}
  BY <1>1
<1> QED
  BY <1>1, <1>2, <1>3, <1>4, <1>5

-----------------------------------------------------------------------------
(***************************************************************************)
(* The clients touch no descriptor.                                        *)
(***************************************************************************)
threadVars == <<owner, armed, lis, readq, queryq, writeq, rd, qt, wr>>

LEMMA SamePlaces ==
  ASSUME Inv, UNCHANGED threadVars, ClientType', PipeType', 0 \in lis.ready => backlog' # <<>>
  PROVE  Inv'
<1>1. OnePlace'
  BY HeldFrame, Stay DEF Inv, threadVars, Place
<1>2. QueueType' /\ ThreadType'
  BY DEF Inv, Types, QueueType, ThreadType, threadVars
<1>3. OnceEach' /\ Locals'
  BY DEF Inv, OnceEach, Once, Locals, threadVars
<1> QED
  BY <1>1, <1>2, <1>3 DEF Inv, Types

LEMMA ClientsInv == ASSUME Inv, NEW c \in Clients, Connect(c) \/ Send(c) \/ HangUp(c) PROVE Inv'
<1>0. ClientType /\ PipeType /\ \A s \in Scripts : s \in Seq(Unit)
  BY NetServerAssumption DEF Inv, Types
<1>1. CASE Connect(c)
  <2>1. /\ st[c] = "new" /\ st' = [st EXCEPT ![c] = "up"] /\ backlog' = Append(backlog, c)
        /\ UNCHANGED <<sent, inbox, got, asked>> /\ UNCHANGED threadVars
    BY <1>1 DEF Connect, serverVars, threadVars
  <2>2. PICK s \in Scripts : script' = [script EXCEPT ![c] = s]
    BY <1>1 DEF Connect
  <2>3. sent[c] = 0 /\ Len(s) \in Nat
    BY <1>0, <2>1 DEF ClientType
  <2>4. ClientType'
    BY <1>0, <2>1, <2>2, <2>3 DEF ClientType
  <2>5. backlog' \in Seq(Clients) /\ backlog' # <<>>
    <3>1. backlog \in Seq(Clients) /\ backlog' = Append(backlog, c)
      BY <1>0, <2>1 DEF PipeType
    <3> QED
      BY <3>1, AppendProperties
  <2>6. PipeType'
    BY <1>0, <2>1, <2>5 DEF PipeType
  <2> QED
    BY <2>1, <2>4, <2>5, <2>6, SamePlaces
<1>2. CASE Send(c)
  <2>1. /\ st[c] = "up" /\ sent[c] < Len(script[c]) /\ sent' = [sent EXCEPT ![c] = @ + 1]
        /\ UNCHANGED <<st, script, got, asked, backlog>> /\ UNCHANGED threadVars
        /\ inbox' = inbox \/ inbox' = [inbox EXCEPT ![c] = Append(@, script[c][sent[c] + 1])]
    BY <1>2 DEF Send, serverVars, threadVars
  <2>2. script[c] \in Seq(Unit)
    <3>1. script[c] \in Scripts \cup {<<>>} /\ <<>> \in Seq(Unit)
      BY <1>0 DEF ClientType
    <3> QED
      BY <1>0, <3>1
  <2>3. script[c][sent[c] + 1] \in Unit
    BY <1>0, <2>1, <2>2 DEF ClientType
  <2>4. ClientType'
    BY <1>0, <2>1, <2>2 DEF ClientType
  <2>5. PipeType'
    <3>1. Append(inbox[c], script[c][sent[c] + 1]) \in Seq(Unit)
      BY <1>0, <2>3, AppendProperties DEF PipeType
    <3> QED
      BY <1>0, <2>1, <3>1 DEF PipeType
  <2> QED
    BY <2>1, <2>4, <2>5, SamePlaces DEF Inv, Locals
<1>3. CASE HangUp(c)
  <2>1. st' = [st EXCEPT ![c] = "closed"] /\ UNCHANGED <<script, sent, inbox, got, asked, backlog>> /\ UNCHANGED threadVars
    BY <1>3 DEF HangUp, serverVars, threadVars
  <2>2. ClientType' /\ PipeType'
    BY <1>0, <2>1 DEF ClientType, PipeType
  <2> QED
    BY <2>1, <2>2, SamePlaces DEF Inv, Locals
<1> QED
  BY <1>1, <1>2, <1>3

-----------------------------------------------------------------------------
(***************************************************************************)
(* The listener.                                                           *)
(***************************************************************************)
LEMMA ClientFrame == ClientType /\ UNCHANGED clientVars => ClientType'
BY DEF ClientType, clientVars

LEMMA SelectInv == ASSUME Inv, Select PROVE Inv'
<1>1. /\ UNCHANGED <<inbox, got, asked, backlog>> /\ UNCHANGED <<owner, armed, readq, queryq, writeq, rd, qt, wr>>
      /\ UNCHANGED clientVars
  BY DEF Select
<1> DEFINE now == {fd \in armed : Readable(owner[fd])} \cup (IF backlog = <<>> THEN {} ELSE {0})
<1>2. lis' = [lis EXCEPT !.ready = now] /\ now \subseteq armed \cup {0} /\ (0 \in now => backlog # <<>>)
  <2>1. 0 \notin armed
    BY DEF Inv, Types, ThreadType, FD
  <2> QED
    BY <2>1 DEF Select
<1> HIDE DEF now
<1>3. lis' \in LisRecord /\ lis'.hand = lis.hand /\ lis'.ready = now
  BY <1>2 DEF Inv, Types, ThreadType, LisRecord
<1>4. Types'
  BY <1>1, <1>3, ClientFrame DEF Inv, Types, PipeType, QueueType, ThreadType
<1>5. OnePlace'
  BY <1>1, <1>3, HeldFrame, Stay DEF Inv, Place
<1> QED
  BY <1>1, <1>2, <1>3, <1>4, <1>5 DEF Inv, OnceEach, Once, Locals

LEMMA AcceptInv == ASSUME Inv, Accept PROVE Inv'
<1> DEFINE free == {fd \in FD : owner[fd] = NoClient}
<1>1. /\ UNCHANGED <<inbox, got, asked>> /\ UNCHANGED <<readq, queryq, writeq, rd, qt, wr>>
      /\ UNCHANGED clientVars /\ 0 \in lis.ready /\ lis' = [lis EXCEPT !.ready = @ \ {0}]
  BY DEF Accept
<1>2. lis' \in LisRecord /\ lis'.hand = lis.hand /\ lis'.ready = lis.ready \ {0}
  BY <1>1 DEF Inv, Types, ThreadType, LisRecord
<1>3. CASE free = {}
  <2>1. UNCHANGED <<backlog, owner, armed>>
    BY <1>3 DEF Accept
  <2>2. Types'
    BY <1>1, <1>2, <2>1, ClientFrame DEF Inv, Types, PipeType, QueueType, ThreadType
  <2>3. OnePlace'
    BY <1>1, <1>2, <2>1, HeldFrame, Stay DEF Inv, Place
  <2> QED
    BY <1>1, <1>2, <2>1, <2>2, <2>3 DEF Inv, OnceEach, Once, Locals
<1>4. CASE free # {}
  <2>1. PICK fd \in FD : fd = Least(free) /\ owner[fd] = NoClient
    BY <1>4, LeastIsLeast DEF FD
  <2>2. backlog # <<>> /\ backlog \in Seq(Clients)
    BY <1>1 DEF Inv, Locals, Types, PipeType
  <2>3. Head(backlog) \in Clients /\ Tail(backlog) \in Seq(Clients) /\ Head(backlog) # NoClient
    BY <2>2, NetServerAssumption
  <2>4. owner' = [owner EXCEPT ![fd] = Head(backlog)] /\ armed' = armed \cup {fd} /\ backlog' = Tail(backlog)
    BY <1>4, <2>1 DEF Accept
  <2>5. owner \in [FD -> Clients \cup {NoClient}]
    BY DEF Inv, Types, ThreadType
  <2>6. Types'
    BY <1>1, <1>2, <2>3, <2>4, <2>5, ClientFrame DEF Inv, Types, PipeType, QueueType, ThreadType
  <2>7. owner'[fd] # NoClient /\ \A e \in FD : e # fd => owner'[e] = owner[e]
    BY <2>3, <2>4, <2>5
  <2>8. Held("fde")' = Held("fde") \cup {fd} /\ \A x \in Place : x # "fde" => Held(x)' = Held(x)
    BY <1>1, <1>2, <2>4, HeldIs, HeldNext, HeldFrame DEF Place
  <2>9. OnePlace'
    BY <2>1, <2>7, <2>8, Come DEF Inv, Place
  <2> QED
    BY <1>1, <1>2, <2>4, <2>6, <2>9 DEF Inv, OnceEach, Once, Locals
<1> QED
  BY <1>3, <1>4

LEMMA TakeInv == ASSUME Inv, Take PROVE Inv'
<1>1. /\ UNCHANGED <<inbox, got, asked, backlog>> /\ UNCHANGED <<owner, readq, queryq, writeq, rd, qt, wr>>
      /\ UNCHANGED clientVars /\ lis.hand = 0 /\ lis.ready # {} /\ 0 \notin lis.ready
  BY DEF Take
<1>2. lis.ready \subseteq FD
  BY <1>1 DEF Inv, Types, ThreadType, LisRecord
<1>3. PICK fd \in FD : fd = Least(lis.ready) /\ fd \in lis.ready
  BY <1>1, <1>2, LeastIsLeast DEF FD
<1>4. armed' = armed \ {fd} /\ lis' = [ready |-> lis.ready \ {fd}, hand |-> fd]
  BY <1>3 DEF Take
<1>5. fd \in armed /\ fd # 0
  BY <1>1, <1>3 DEF Inv, Locals
<1>6. Types'
  BY <1>1, <1>2, <1>4, ClientFrame DEF Inv, Types, PipeType, QueueType, ThreadType, LisRecord
<1>7. Held("fde")' = Held("fde") \ {fd} /\ Held("listener")' = Held("listener") \cup {fd} /\ fd \in Held("fde")
  BY <1>1, <1>4, <1>5, HeldIs, HeldNext
<1>8. \A x \in Place : x # "fde" /\ x # "listener" => Held(x)' = Held(x)
  BY <1>1, HeldFrame DEF Place
<1>9. OnePlace'
  BY <1>1, <1>7, <1>8, Move DEF Inv, Place
<1> QED
  BY <1>1, <1>4, <1>6, <1>9 DEF Inv, OnceEach, Once, Locals

LEMMA PushReadInv == ASSUME Inv, PushRead PROVE Inv'
<1>1. /\ UNCHANGED <<inbox, got, asked, backlog>> /\ UNCHANGED <<owner, armed, queryq, writeq, rd, qt, wr>>
      /\ UNCHANGED clientVars /\ lis.hand # 0 /\ Len(readq) < Capacity
      /\ readq' = Append(readq, lis.hand) /\ lis' = [lis EXCEPT !.hand = 0]
  BY DEF PushRead
<1>2. lis' \in LisRecord /\ lis'.hand = 0 /\ lis'.ready = lis.ready
  BY <1>1 DEF Inv, Types, ThreadType, LisRecord
<1>3. PICK fd \in FD : fd = lis.hand
  BY <1>1 DEF Inv, Types, ThreadType, LisRecord
<1>4. readq \in Seq(FD) /\ Len(readq) \in Nat /\ \A i, j \in DOMAIN readq : readq[i] = readq[j] => i = j
  BY DEF Inv, Types, QueueType, OnceEach
<1>5. readq' \in Seq(FD) /\ Len(readq') <= Capacity
  BY <1>1, <1>3, <1>4, QueueEnds, NetServerAssumption
<1>6. Types'
  BY <1>1, <1>2, <1>5, ClientFrame DEF Inv, Types, PipeType, QueueType, ThreadType
<1>7. Held("listener")' = Held("listener") \ {fd} /\ fd \in Held("listener") /\ Held("readq")' = Held("readq") \cup {fd}
  <2>1. Held("listener")' = {} /\ Held("listener") = {fd}
    BY <1>1, <1>2, <1>3, HeldIs, HeldNext
  <2>2. {readq'[i] : i \in DOMAIN readq'} = {readq[i] : i \in DOMAIN readq} \cup {fd}
    BY <1>1, <1>3, <1>4, QueueAppend
  <2> QED
    BY <2>1, <2>2, HeldIs, HeldNext
<1>8. \A x \in Place : x # "readq" /\ x # "listener" => Held(x)' = Held(x)
  BY <1>1, HeldFrame DEF Place
<1>9. OnePlace'
  BY <1>1, <1>7, <1>8, Move DEF Inv, Place
<1>10. fd \notin Held("readq")
  BY <1>7 DEF Inv, OnePlace, Place
<1>11. \A i, j \in DOMAIN readq' : readq'[i] = readq'[j] => i = j
  BY <1>1, <1>3, <1>4, <1>10, HeldIs, QueueAppend
<1>12. OnceEach'
  BY <1>1, <1>11 DEF Inv, OnceEach, Once
<1> QED
  BY <1>1, <1>2, <1>6, <1>9, <1>12 DEF Inv, Locals

-----------------------------------------------------------------------------
(***************************************************************************)
(* The reader: it goes on with its descriptor, hands it back, or closes    *)
(* it.                                                                     *)
(***************************************************************************)
otherVars == <<lis, readq, writeq, qt, wr>>

\* The reader holds the descriptor it reads, and nobody else does.
LEMMA ReadersOwn ==
  ASSUME Inv, rd.pc # "pop"
  PROVE  /\ rd.fd \in FD /\ rd.fd # 0 /\ owner[rd.fd] \in Clients
         /\ rd.fd \in Held("reader") /\ \A p \in Place : p # "reader" => rd.fd \notin Held(p)
<1>1. rd.fd \in FD /\ rd.fd # 0
  BY DEF Inv, Locals, Types, ThreadType, RdRecord
<1>2. rd.fd \in Held("reader")
  BY <1>1, HeldIs
<1> QED
  BY <1>1, <1>2 DEF Inv, OnePlace, Place, Types, ThreadType

LEMMA ReaderGoesOn ==
  ASSUME Inv, rd.pc # "pop", NEW r \in RdRecord, rd' = r, Len(r.buf) <= BUF_SIZE, r.fd = rd.fd, r.pc # "pop",
         PipeType', backlog' = backlog, UNCHANGED clientVars, UNCHANGED <<owner, armed, queryq>>, UNCHANGED otherVars
  PROVE  Inv'
<1>1. Types'
  BY ClientFrame DEF Inv, Types, QueueType, ThreadType, otherVars
<1>2. OnePlace'
  BY HeldFrame, Stay DEF Inv, Place, otherVars
<1>3. rd'.pc # "pop" /\ rd'.fd # 0
  BY ReadersOwn
<1> QED
  BY <1>1, <1>2, <1>3 DEF Inv, OnceEach, Once, Locals, otherVars

LEMMA ReaderGivesBack ==
  ASSUME Inv, rd.pc # "pop", rd' = RdIdle, armed' = armed \cup {rd.fd},
         UNCHANGED <<inbox, got, asked, backlog>>, UNCHANGED clientVars, UNCHANGED <<owner, queryq>>, UNCHANGED otherVars
  PROVE  Inv'
<1>1. PICK fd \in FD : fd = rd.fd /\ fd \in Held("reader") /\ fd # 0
  BY ReadersOwn
<1>2. rd' \in RdRecord /\ rd'.fd = 0 /\ rd'.pc = "pop" /\ Len(rd'.buf) = 0
  BY DEF RdIdle, RdRecord
<1>3. Types'
  BY <1>1, <1>2, ClientFrame, NetServerAssumption DEF Inv, Types, PipeType, QueueType, ThreadType, otherVars
<1>4. Held("reader")' = Held("reader") \ {fd} /\ Held("fde")' = Held("fde") \cup {fd}
  BY <1>1, <1>2, HeldIs, HeldNext
<1>5. \A x \in Place : x # "reader" /\ x # "fde" => Held(x)' = Held(x)
  BY HeldFrame DEF Place, otherVars
<1>6. OnePlace'
  BY <1>1, <1>4, <1>5, Move DEF Inv, Place
<1> QED
  BY <1>2, <1>3, <1>6 DEF Inv, OnceEach, Once, Locals, otherVars

LEMMA ReaderCloses ==
  ASSUME Inv, rd.pc # "pop", rd' = RdIdle, Close(rd.fd),
         UNCHANGED <<inbox, got, asked, backlog>>, UNCHANGED clientVars, UNCHANGED <<armed, queryq>>, UNCHANGED otherVars
  PROVE  Inv'
<1>1. PICK fd \in FD : fd = rd.fd /\ fd \in Held("reader") /\ fd # 0
  BY ReadersOwn
<1>2. rd' \in RdRecord /\ rd'.fd = 0 /\ rd'.pc = "pop" /\ Len(rd'.buf) = 0
  BY DEF RdIdle, RdRecord
<1>3. owner' = [owner EXCEPT ![fd] = NoClient] /\ owner \in [FD -> Clients \cup {NoClient}]
  BY <1>1 DEF Close, Inv, Types, ThreadType
<1>4. Types'
  BY <1>2, <1>3, ClientFrame, NetServerAssumption DEF Inv, Types, PipeType, QueueType, ThreadType, otherVars
<1>5. Held("reader")' = Held("reader") \ {fd}
  BY <1>1, <1>2, HeldIs, HeldNext
<1>6. \A x \in Place : x # "reader" => Held(x)' = Held(x)
  BY HeldFrame DEF Place, otherVars
<1>7. OnePlace'
  BY <1>1, <1>3, <1>5, <1>6, Go DEF Inv, Place
<1> QED
  BY <1>2, <1>4, <1>7 DEF Inv, OnceEach, Once, Locals, otherVars

LEMMA ReadPopInv == ASSUME Inv, ReadPop PROVE Inv'
<1>1. /\ UNCHANGED <<inbox, got, asked, backlog>> /\ UNCHANGED <<owner, armed, lis, queryq, writeq, qt, wr>>
      /\ UNCHANGED clientVars /\ rd.pc = "pop" /\ readq # <<>>
      /\ rd' = [RdIdle EXCEPT !.pc = "read", !.fd = Head(readq)] /\ readq' = Tail(readq)
  BY DEF ReadPop
<1>2. readq \in Seq(FD) /\ Len(readq) <= Capacity /\ \A i, j \in DOMAIN readq : readq[i] = readq[j] => i = j
  BY DEF Inv, Types, QueueType, OnceEach
<1>3. PICK fd \in FD : fd = Head(readq)
  BY <1>1, <1>2, QueueTail
<1>4. rd' \in RdRecord /\ rd'.fd = fd /\ rd'.pc = "read" /\ Len(rd'.buf) = 0 /\ fd # 0
  <2>1. rd' = [pc |-> "read", fd |-> fd, buf |-> <<>>, long |-> 0, more |-> FALSE, fresh |-> TRUE]
    BY <1>1, <1>3 DEF RdIdle
  <2>2. fd # 0
    BY DEF FD
  <2> QED
    BY <2>1, <2>2 DEF RdRecord
<1>5. readq' \in Seq(FD) /\ Len(readq') <= Capacity
  BY <1>1, <1>2, QueueEnds, NetServerAssumption
<1>6. Types'
  BY <1>1, <1>4, <1>5, ClientFrame, NetServerAssumption DEF Inv, Types, PipeType, QueueType, ThreadType
<1>7. /\ {readq'[i] : i \in DOMAIN readq'} = {readq[i] : i \in DOMAIN readq} \ {fd}
      /\ fd \in {readq[i] : i \in DOMAIN readq}
      /\ \A i, j \in DOMAIN readq' : readq'[i] = readq'[j] => i = j
  <2>1. /\ {Tail(readq)[i] : i \in DOMAIN Tail(readq)} = {readq[i] : i \in DOMAIN readq} \ {Head(readq)}
        /\ Head(readq) \in {readq[i] : i \in DOMAIN readq}
        /\ \A i, j \in DOMAIN Tail(readq) : Tail(readq)[i] = Tail(readq)[j] => i = j
    BY <1>1, <1>2, QueueTail
  <2>2. readq' = Tail(readq) /\ fd = Head(readq)
    BY <1>1, <1>3
  <2> QED
    BY <2>1, <2>2
<1>8. rd.fd = 0
  BY <1>1 DEF Inv, Locals
<1>9. Held("readq")' = Held("readq") \ {fd} /\ fd \in Held("readq") /\ Held("reader")' = Held("reader") \cup {fd}
  BY <1>4, <1>7, <1>8, HeldIs, HeldNext
<1>10. \A x \in Place : x # "reader" /\ x # "readq" => Held(x)' = Held(x)
  BY <1>1, HeldFrame DEF Place
<1>11. OnePlace'
  BY <1>1, <1>9, <1>10, Move DEF Inv, Place
<1> QED
  BY <1>1, <1>4, <1>6, <1>7, <1>11 DEF Inv, OnceEach, Once, Locals

LEMMA RdParts ==
  ASSUME Inv
  PROVE  rd \in RdRecord /\ Len(rd.buf) <= BUF_SIZE /\ Len(rd.buf) \in Nat /\ BUF_SIZE \in Nat
BY NetServerAssumption DEF Inv, Types, ThreadType, RdRecord

LEMMA SettleInv ==
  ASSUME Inv, rd.pc # "pop", Settle, UNCHANGED <<inbox, got, asked, backlog>>, UNCHANGED clientVars,
         UNCHANGED <<owner, queryq>>, UNCHANGED otherVars
  PROVE  Inv'
<1>1. CASE rd.buf = <<>> /\ rd.long = 0
  BY <1>1, ReaderGivesBack DEF Settle
<1>2. CASE ~(rd.buf = <<>> /\ rd.long = 0)
  <2> DEFINE r == [rd EXCEPT !.pc = "wait"]
  <2>1. r \in RdRecord /\ r.fd = rd.fd /\ r.pc # "pop" /\ r.buf = rd.buf
    BY RdParts DEF RdRecord
  <2>2. rd' = r /\ armed' = armed
    BY <1>2 DEF Settle
  <2>3. PipeType'
    BY DEF Inv, Types, PipeType
  <2> HIDE DEF r
  <2> QED
    BY <2>1, <2>2, <2>3, RdParts, ReaderGoesOn
<1> QED
  BY <1>1, <1>2

LEMMA ReadDataInv == ASSUME Inv, ReadData PROVE Inv'
<1>1. rd.pc = "read" /\ Remain > 0 /\ owner[rd.fd] # NoClient
      /\ UNCHANGED clientVars /\ UNCHANGED <<owner, armed, queryq>> /\ UNCHANGED otherVars /\ UNCHANGED <<got, asked, backlog>>
  BY DEF ReadData, otherVars
<1>2. PICK c \in Clients : c = owner[rd.fd]
  BY <1>1, ReadersOwn
<1>3. inbox \in [Clients -> Seq(Unit)] /\ Len(inbox[c]) \in Nat /\ Remain \in Nat
  BY <1>1, RdParts DEF Inv, Types, PipeType, Remain
<1>4. PICK ret \in 0 .. Len(inbox[c]) : ret = (IF Len(inbox[c]) < Remain THEN Len(inbox[c]) ELSE Remain) /\ ret <= Remain
  BY <1>3
<1> DEFINE r == [rd EXCEPT !.pc = "parse", !.buf = @ \o SubSeq(inbox[c], 1, ret), !.more = (ret = Remain), !.fresh = (rd.buf = <<>>)]
<1>5. inbox' = [inbox EXCEPT ![c] = Drop(@, ret)] /\ rd' = r
  BY <1>2, <1>4 DEF ReadData
<1>6. PipeType'
  <2>1. Drop(inbox[c], ret) \in Seq(Unit)
    BY <1>3, <1>4, DropType
  <2> QED
    BY <1>1, <1>5, <2>1 DEF Inv, Types, PipeType
<1>7. SubSeq(inbox[c], 1, ret) \in Seq(Unit) /\ Len(SubSeq(inbox[c], 1, ret)) = ret
  BY <1>3, <1>4, SubSeqProperties
<1>8. rd.buf \in Seq(Unit)
  BY RdParts DEF RdRecord
<1>9. rd.buf \o SubSeq(inbox[c], 1, ret) \in Seq(Unit) /\ Len(rd.buf \o SubSeq(inbox[c], 1, ret)) = Len(rd.buf) + ret
  <2>1. PICK s \in Seq(Unit), u \in Seq(Unit) : s = rd.buf /\ u = SubSeq(inbox[c], 1, ret)
    BY <1>7, <1>8
  <2>2. s \o u \in Seq(Unit) /\ Len(s \o u) = Len(s) + Len(u)
    BY ConcatProperties
  <2> QED
    BY <1>7, <2>1, <2>2
<1>10. r \in RdRecord /\ r.fd = rd.fd /\ r.pc = "parse" /\ r.buf = rd.buf \o SubSeq(inbox[c], 1, ret)
  BY <1>9, RdParts DEF RdRecord
<1>11. Len(r.buf) <= BUF_SIZE
  BY <1>4, <1>9, <1>10, RdParts DEF Remain
<1> HIDE DEF r
<1> QED
  BY <1>1, <1>5, <1>6, <1>10, <1>11, ReaderGoesOn

LEMMA SkipLongInv == ASSUME Inv, SkipLong PROVE Inv'
<1>1. rd.pc = "parse" /\ rd.long > 0
      /\ UNCHANGED clientVars /\ UNCHANGED <<owner, armed, queryq>> /\ UNCHANGED otherVars /\ UNCHANGED <<inbox, got, asked, backlog>>
  BY DEF SkipLong, otherVars
<1>2. PipeType'
  BY <1>1 DEF Inv, Types, PipeType
<1>3. rd.buf \in Seq(Unit) /\ rd.long \in Nat
  BY RdParts DEF RdRecord
<1>4. CASE rd.long > Len(rd.buf)
  <2>0. PICK k \in Nat : k = rd.long - Len(rd.buf)
    BY <1>3, <1>4, RdParts
  <2> DEFINE r == [rd EXCEPT !.pc = "loop", !.buf = <<>>, !.long = k]
  <2>1. rd' = r
    BY <1>4, <2>0 DEF SkipLong
  <2>2. Len(<<>>) = 0 /\ <<>> \in Seq(Unit)
    OBVIOUS
  <2>3. r \in RdRecord /\ r.fd = rd.fd /\ r.pc # "pop" /\ r.buf = <<>>
    BY <2>2, RdParts DEF RdRecord
  <2> HIDE DEF r
  <2> QED
    BY <1>1, <1>2, <2>1, <2>2, <2>3, RdParts, ReaderGoesOn
<1>5. CASE ~(rd.long > Len(rd.buf))
  <2> DEFINE r == [rd EXCEPT !.buf = Drop(@, rd.long), !.long = 0]
  <2>1. rd' = r
    BY <1>5 DEF SkipLong
  <2>2. Drop(rd.buf, rd.long) \in Seq(Unit) /\ Len(Drop(rd.buf, rd.long)) <= BUF_SIZE
    <3>1. rd.long \in 0 .. Len(rd.buf)
      BY <1>3, <1>5
    <3> QED
      BY <1>3, <3>1, RdParts, DropType
  <2>3. r \in RdRecord /\ r.fd = rd.fd /\ r.pc # "pop" /\ Len(r.buf) <= BUF_SIZE
    BY <1>1, <2>2, RdParts DEF RdRecord
  <2> HIDE DEF r
  <2> QED
    BY <1>1, <1>2, <2>1, <2>3, ReaderGoesOn
<1> QED
  BY <1>4, <1>5

LEMMA EndOfBufferInv == ASSUME Inv, EndOfBuffer PROVE Inv'
<1> DEFINE n == IF rd.buf = <<>> THEN 0 ELSE Head(rd.buf)
<1>1. rd.pc = "parse"
      /\ UNCHANGED clientVars /\ UNCHANGED <<owner, armed, queryq>> /\ UNCHANGED otherVars /\ UNCHANGED <<inbox, got, asked, backlog>>
  BY DEF EndOfBuffer, otherVars
<1>2. PipeType'
  BY <1>1 DEF Inv, Types, PipeType
<1>3. rd.buf \in Seq(Unit)
  BY RdParts DEF RdRecord
<1>4. CASE n > BUF_SIZE
  <2>2. rd.buf # <<>>
    BY <1>4, RdParts
  <2>3. n \in Int
    BY <1>3, <2>2 DEF Unit, Bad, Get, Payload
  <2>0. PICK k \in Nat : k = n - (Len(rd.buf) - 1)
    BY <1>4, <2>3, RdParts
  <2> DEFINE r == [rd EXCEPT !.pc = "loop", !.buf = <<>>, !.long = k]
  <2>1. rd' = r
    BY <1>4, <2>0 DEF EndOfBuffer
  <2>4. Len(<<>>) = 0 /\ <<>> \in Seq(Unit)
    OBVIOUS
  <2> HIDE DEF n
  <2>5. r \in RdRecord /\ r.fd = rd.fd /\ r.pc # "pop" /\ r.buf = <<>>
    BY <2>4, RdParts DEF RdRecord
  <2> HIDE DEF r
  <2> QED
    BY <1>1, <1>2, <2>1, <2>4, <2>5, RdParts, ReaderGoesOn
<1>5. CASE ~(n > BUF_SIZE)
  <2> DEFINE r == [rd EXCEPT !.pc = "loop"]
  <2>1. rd' = r
    BY <1>5 DEF EndOfBuffer
  <2>2. r \in RdRecord /\ r.fd = rd.fd /\ r.pc # "pop" /\ r.buf = rd.buf
    BY RdParts DEF RdRecord
  <2> HIDE DEF r
  <2> QED
    BY <1>1, <1>2, <2>1, <2>2, RdParts, ReaderGoesOn
<1> QED
  BY <1>4, <1>5

LEMMA LoopInv == ASSUME Inv, Loop \/ WaitRest PROVE Inv'
<1>1. rd.pc \in {"loop", "wait"}
      /\ UNCHANGED clientVars /\ UNCHANGED <<owner, queryq>> /\ UNCHANGED otherVars /\ UNCHANGED <<inbox, got, asked, backlog>>
  BY DEF Loop, WaitRest, otherVars
<1>2. CASE rd' = [rd EXCEPT !.pc = "read"] /\ armed' = armed
  <2> DEFINE r == [rd EXCEPT !.pc = "read"]
  <2>1. r \in RdRecord /\ r.fd = rd.fd /\ r.pc # "pop" /\ r.buf = rd.buf
    BY RdParts DEF RdRecord
  <2>2. PipeType'
    BY <1>1 DEF Inv, Types, PipeType
  <2>3. rd' = r
    BY <1>2
  <2> HIDE DEF r
  <2> QED
    BY <1>1, <1>2, <2>1, <2>2, <2>3, RdParts, ReaderGoesOn
<1>3. CASE Settle
  BY <1>1, <1>3, SettleInv
<1> QED
  BY <1>2, <1>3 DEF Loop, WaitRest

LEMMA ReadNothingInv == ASSUME Inv, ReadNothing PROVE Inv'
<1>1. rd.pc = "read" /\ Settle
      /\ UNCHANGED clientVars /\ UNCHANGED <<owner, queryq>> /\ UNCHANGED otherVars /\ UNCHANGED <<inbox, got, asked, backlog>>
  BY DEF ReadNothing, otherVars
<1> QED
  BY <1>1, SettleInv

LEMMA ClosesInv == ASSUME Inv, ReadEnd \/ BadHead PROVE Inv'
<1>1. rd.pc # "pop" /\ Close(rd.fd) /\ rd' = RdIdle
      /\ UNCHANGED clientVars /\ UNCHANGED <<armed, queryq>> /\ UNCHANGED otherVars /\ UNCHANGED <<inbox, got, asked, backlog>>
  BY DEF ReadEnd, BadHead, otherVars
<1> QED
  BY <1>1, ReaderCloses

\* A request goes into the queue with its descriptor.
LEMMA EnqueueTypes ==
  ASSUME Inv, rd.pc # "pop", NEW html \in BOOLEAN, Enqueue(rd.fd, html),
         UNCHANGED <<inbox, got, backlog>>
  PROVE  \E x \in Task : /\ x.fd = rd.fd /\ x.html = html
                          /\ queryq' = Append(queryq, x) /\ queryq' \in Seq(Task) /\ Len(queryq') <= Capacity
                          /\ PipeType'
<1> DEFINE c == owner[rd.fd]
           x == [fd |-> rd.fd, html |-> html, from |-> c, no |-> asked[c] + 1]
<1>1. rd.fd \in FD /\ c \in Clients
  BY ReadersOwn
<1>2. Len(queryq) < Capacity /\ queryq' = Append(queryq, x) /\ asked' = [asked EXCEPT ![c] = @ + 1]
  BY DEF Enqueue
<1>3. asked \in [Clients -> Nat] /\ queryq \in Seq(Task)
  BY DEF Inv, Types, PipeType, QueueType
<1>4. x \in Task
  BY <1>1, <1>3 DEF Task
<1>5. PipeType'
  <2>1. asked' \in [Clients -> Nat]
    BY <1>1, <1>2, <1>3
  <2> QED
    BY <2>1 DEF Inv, Types, PipeType
<1>6. x.fd = rd.fd /\ x.html = html
  OBVIOUS
<1> HIDE DEF x, c
<1>7. queryq' \in Seq(Task) /\ Len(queryq') <= Capacity
  BY <1>2, <1>3, <1>4, QueueEnds, NetServerAssumption
<1> QED
  BY <1>2, <1>4, <1>5, <1>6, <1>7

LEMMA PushFrameInv == ASSUME Inv, TRUE \notin FlagValues, PushFrame PROVE Inv'
<1>1. /\ rd.pc = "parse" /\ rd.buf # <<>> /\ Whole(Head(rd.buf)) /\ rd' = [rd EXCEPT !.buf = Drop(@, Head(rd.buf) + 1)]
      /\ UNCHANGED clientVars /\ UNCHANGED <<owner, armed>> /\ UNCHANGED otherVars /\ UNCHANGED <<inbox, got, backlog>>
  BY DEF PushFrame, otherVars
<1>2. Enqueue(rd.fd, FALSE)
  BY NetServerAssumption DEF PushFrame
<1>3. PICK x \in Task : /\ x.fd = rd.fd /\ x.html = FALSE
                        /\ queryq' = Append(queryq, x) /\ queryq' \in Seq(Task) /\ Len(queryq') <= Capacity
                        /\ PipeType'
  BY <1>1, <1>2, EnqueueTypes
<1>4. queryq \in Seq(Task) /\ Once(queryq)
  BY DEF Inv, Types, QueueType, OnceEach
<1>5. Html(queryq') = Html(queryq) /\ Once(queryq')
  BY <1>3, <1>4, HtmlAppend
<1>6. Drop(rd.buf, Head(rd.buf) + 1) \in Seq(Unit) /\ Len(Drop(rd.buf, Head(rd.buf) + 1)) <= BUF_SIZE
  <2>1. rd.buf \in Seq(Unit)
    BY RdParts DEF RdRecord
  <2>2. Head(rd.buf) + 1 \in 0 .. Len(rd.buf)
    BY <1>1, <2>1, RdParts DEF Whole, Unit, Bad, Get, Payload
  <2>3. PICK k \in 0 .. Len(rd.buf) : k = Head(rd.buf) + 1
    BY <2>2
  <2>4. Drop(rd.buf, k) \in Seq(Unit) /\ Len(Drop(rd.buf, k)) = Len(rd.buf) - k
    BY <2>1, DropType
  <2>5. Len(rd.buf) - k <= BUF_SIZE
    BY RdParts
  <2> QED
    BY <2>3, <2>4, <2>5
<1>7. rd' \in RdRecord /\ rd'.fd = rd.fd /\ rd'.pc = "parse" /\ Len(rd'.buf) <= BUF_SIZE
  BY <1>1, <1>6, RdParts DEF RdRecord
<1>8. Types'
  BY <1>1, <1>3, <1>7, ClientFrame DEF Inv, Types, QueueType, ThreadType, otherVars
<1>9. Held("queryq")' = Held("queryq")
  BY <1>5, HeldIs, HeldNext
<1>10. OnePlace'
  BY <1>1, <1>7, <1>9, HeldFrame, Stay DEF Inv, Place, otherVars
<1>11. rd'.fd # 0
  BY <1>1, <1>7, ReadersOwn
<1> QED
  BY <1>1, <1>5, <1>7, <1>8, <1>10, <1>11 DEF Inv, OnceEach, Once, Locals, otherVars

LEMMA PushHtmlInv == ASSUME Inv, PushHtml PROVE Inv'
<1>1. /\ rd.pc = "parse" /\ Enqueue(rd.fd, TRUE) /\ rd' = RdIdle
      /\ UNCHANGED clientVars /\ UNCHANGED <<owner, armed>> /\ UNCHANGED otherVars /\ UNCHANGED <<inbox, got, backlog>>
  BY DEF PushHtml, otherVars
<1>2. PICK x \in Task : /\ x.fd = rd.fd /\ x.html = TRUE
                        /\ queryq' = Append(queryq, x) /\ queryq' \in Seq(Task) /\ Len(queryq') <= Capacity
                        /\ PipeType'
  BY <1>1, EnqueueTypes
<1>3. PICK fd \in FD : fd = rd.fd /\ fd \in Held("reader") /\ fd # 0 /\ fd \notin Held("queryq")
  BY <1>1, ReadersOwn DEF Place
<1>4. queryq \in Seq(Task) /\ Once(queryq)
  BY DEF Inv, Types, QueueType, OnceEach
<1>5. Html(queryq') = Html(queryq) \cup {fd} /\ Once(queryq')
  BY <1>2, <1>3, <1>4, HtmlAppend, HeldIs
<1>6. rd' \in RdRecord /\ rd'.fd = 0 /\ rd'.pc = "pop" /\ Len(rd'.buf) = 0
  BY <1>1 DEF RdIdle, RdRecord
<1>7. Types'
  BY <1>1, <1>2, <1>6, ClientFrame, NetServerAssumption DEF Inv, Types, QueueType, ThreadType, otherVars
<1>8. Held("reader")' = Held("reader") \ {fd} /\ Held("queryq")' = Held("queryq") \cup {fd}
  BY <1>3, <1>5, <1>6, HeldIs, HeldNext
<1>9. \A p \in Place : p # "reader" /\ p # "queryq" => Held(p)' = Held(p)
  BY <1>1, HeldFrame DEF Place, otherVars
<1>10. OnePlace'
  BY <1>1, <1>3, <1>8, <1>9, Move DEF Inv, Place
<1> QED
  BY <1>1, <1>5, <1>6, <1>7, <1>10 DEF Inv, OnceEach, Once, Locals, otherVars

-----------------------------------------------------------------------------
(***************************************************************************)
(* The query threads and the writer.                                       *)
(***************************************************************************)
LEMMA NotNoTask == \A x \in Task : x # NoTask
BY DEF Task, NoTask, FD

\* What the query threads hold when one of them takes a task, and gives one away.
LEMMA QueryTakes ==
  ASSUME NEW t \in QueryThreads, NEW x \in Task, qt[t] = NoTask, qt'[t] = x,
         \A u \in QueryThreads : u # t => qt'[u] = qt[u]
  PROVE  Held("query")' = IF x.html THEN Held("query") \cup {x.fd} ELSE Held("query")
<1> DEFINE Busy == {u \in QueryThreads : qt[u] # NoTask /\ qt[u].html}
           Next1 == {u \in QueryThreads : qt'[u] # NoTask /\ qt'[u].html}
<1>1. x # NoTask
  BY NotNoTask
<1>2. t \notin Busy /\ \A u \in Busy : qt'[u] = qt[u]
  OBVIOUS
<1>3. CASE x.html
  <2>1. Next1 = Busy \cup {t}
    BY <1>1, <1>3
  <2>2. {qt'[u].fd : u \in Next1} = {qt[u].fd : u \in Busy} \cup {x.fd}
    BY <1>2, <2>1
  <2> QED
    BY <1>3, <2>2, HeldIs, HeldNext
<1>4. CASE ~x.html
  <2>1. Next1 = Busy
    BY <1>1, <1>4
  <2>2. {qt'[u].fd : u \in Next1} = {qt[u].fd : u \in Busy}
    BY <1>2, <2>1
  <2> QED
    BY <1>4, <2>2, HeldIs, HeldNext
<1> QED
  BY <1>3, <1>4

LEMMA QueryGives ==
  ASSUME NEW t \in QueryThreads, NEW x \in Task, qt[t] = x, qt'[t] = NoTask,
         \A u \in QueryThreads : u # t => qt'[u] = qt[u],
         \A u \in QueryThreads : u # t /\ qt[u] # NoTask /\ qt[u].html /\ x.html => qt[u].fd # x.fd
  PROVE  Held("query")' = IF x.html THEN Held("query") \ {x.fd} ELSE Held("query")
<1> DEFINE Busy == {u \in QueryThreads : qt[u] # NoTask /\ qt[u].html}
           Next1 == {u \in QueryThreads : qt'[u] # NoTask /\ qt'[u].html}
<1>1. x # NoTask
  BY NotNoTask
<1>2. Next1 = Busy \ {t} /\ \A u \in Next1 : qt'[u] = qt[u]
  OBVIOUS
<1>3. CASE x.html
  <2>1. t \in Busy /\ \A u \in Next1 : qt[u].fd # x.fd
    BY <1>1, <1>2, <1>3
  <2>2. {qt'[u].fd : u \in Next1} = {qt[u].fd : u \in Busy} \ {x.fd}
    BY <1>2, <2>1
  <2> QED
    BY <1>3, <2>2, HeldIs, HeldNext
<1>4. CASE ~x.html
  <2>1. t \notin Busy
    BY <1>4
  <2>2. {qt'[u].fd : u \in Next1} = {qt[u].fd : u \in Busy}
    BY <1>2, <2>1
  <2> QED
    BY <1>4, <2>2, HeldIs, HeldNext
<1> QED
  BY <1>3, <1>4

LEMMA QueryPopInv == ASSUME Inv, NEW t \in QueryThreads, QueryPop(t) PROVE Inv'
<1>1. /\ qt[t] = NoTask /\ queryq # <<>> /\ qt' = [qt EXCEPT ![t] = Head(queryq)] /\ queryq' = Tail(queryq)
      /\ UNCHANGED clientVars /\ UNCHANGED <<inbox, got, asked, backlog>>
      /\ UNCHANGED <<owner, armed, lis, readq, writeq, rd, wr>>
  BY DEF QueryPop
<1>2. /\ queryq \in Seq(Task) /\ Once(queryq) /\ Len(queryq) <= Capacity /\ Len(queryq) \in Nat
      /\ qt \in [QueryThreads -> Task \cup {NoTask}]
  BY DEF Inv, Types, QueueType, ThreadType, OnceEach
<1>3. PICK x \in Task : x = Head(queryq) /\ x.fd \in FD
  <2>1. Head(queryq) \in Task
    BY <1>1, <1>2, QueueEnds
  <2> QED
    BY <2>1 DEF Task
<1>4. /\ queryq' \in Seq(Task) /\ Len(queryq') <= Capacity /\ Once(queryq')
      /\ Html(queryq') = IF x.html THEN Html(queryq) \ {x.fd} ELSE Html(queryq)
      /\ x.html => x.fd \in Html(queryq)
  BY <1>1, <1>2, <1>3, QueueEnds, HtmlTail, NetServerAssumption
<1>5. qt' \in [QueryThreads -> Task \cup {NoTask}] /\ qt'[t] = x /\ x # NoTask /\ \A u \in QueryThreads : u # t => qt'[u] = qt[u]
  BY <1>1, <1>2, <1>3, NotNoTask
<1>6. Types'
  BY <1>1, <1>4, <1>5, ClientFrame DEF Inv, Types, PipeType, QueueType, ThreadType
<1>7. \A p \in Place : p # "queryq" /\ p # "query" => Held(p)' = Held(p)
  BY <1>1, HeldFrame DEF Place
<1>8. Held("query")' = IF x.html THEN Held("query") \cup {x.fd} ELSE Held("query")
  BY <1>1, <1>5, QueryTakes
<1>9. x.html => x.fd \in Held("queryq") /\ x.fd \notin Held("query")
  BY <1>3, <1>4, HeldIs DEF Inv, OnePlace, Place
<1>10. OnePlace'
  <2>1. CASE x.html
    BY <1>1, <1>3, <1>4, <1>7, <1>8, <1>9, <2>1, HeldIs, HeldNext, Move DEF Inv, Place
  <2>2. CASE ~x.html
    BY <1>1, <1>4, <1>7, <1>8, <2>2, HeldIs, HeldNext, Stay DEF Inv
  <2> QED
    BY <2>1, <2>2
<1>11. ASSUME NEW u \in QueryThreads, NEW v \in QueryThreads, qt'[u] # NoTask, qt'[u].html, qt'[v] # NoTask, qt'[v].html, qt'[u].fd = qt'[v].fd
       PROVE  u = v
  <2>1. \A w \in QueryThreads : w # t /\ qt[w] # NoTask /\ qt[w].html => qt[w].fd \in Held("query")
    BY HeldIs
  <2> QED
    BY <1>5, <1>9, <1>11, <2>1 DEF Inv, OnceEach
<1>12. OnceEach'
  BY <1>1, <1>4, <1>11 DEF Inv, OnceEach, Once
<1> QED
  BY <1>1, <1>6, <1>10, <1>12 DEF Inv, Locals

LEMMA QueryPushInv == ASSUME Inv, NEW t \in QueryThreads, QueryPush(t) PROVE Inv'
<1>1. /\ qt[t] # NoTask /\ Len(writeq) < Capacity /\ writeq' = Append(writeq, qt[t]) /\ qt' = [qt EXCEPT ![t] = NoTask]
      /\ UNCHANGED clientVars /\ UNCHANGED <<inbox, got, asked, backlog>>
      /\ UNCHANGED <<owner, armed, lis, readq, queryq, rd, wr>>
  BY DEF QueryPush
<1>2. /\ writeq \in Seq(Task) /\ Once(writeq) /\ Len(writeq) \in Nat
      /\ qt \in [QueryThreads -> Task \cup {NoTask}]
  BY DEF Inv, Types, QueueType, ThreadType, OnceEach
<1>3. PICK x \in Task : x = qt[t] /\ x.fd \in FD
  BY <1>1, <1>2 DEF Task
<1>4. x.html => x.fd \in Held("query") /\ x.fd \notin Held("writeq")
  <2>1. x.html => x.fd \in Held("query")
    BY <1>1, <1>3, HeldIs
  <2> QED
    BY <1>3, <2>1 DEF Inv, OnePlace, Place
<1>5. /\ writeq' \in Seq(Task) /\ Len(writeq') <= Capacity /\ Once(writeq')
      /\ Html(writeq') = IF x.html THEN Html(writeq) \cup {x.fd} ELSE Html(writeq)
  BY <1>1, <1>2, <1>3, <1>4, HeldIs, QueueEnds, HtmlAppend, NetServerAssumption
<1>6. qt' \in [QueryThreads -> Task \cup {NoTask}] /\ qt'[t] = NoTask /\ \A u \in QueryThreads : u # t => qt'[u] = qt[u]
  BY <1>1, <1>2
<1>7. Types'
  BY <1>1, <1>5, <1>6, ClientFrame DEF Inv, Types, PipeType, QueueType, ThreadType
<1>8. \A p \in Place : p # "writeq" /\ p # "query" => Held(p)' = Held(p)
  BY <1>1, HeldFrame DEF Place
<1>9. \A u \in QueryThreads : u # t /\ qt[u] # NoTask /\ qt[u].html /\ x.html => qt[u].fd # x.fd
  BY <1>1, <1>3 DEF Inv, OnceEach
<1>10. Held("query")' = IF x.html THEN Held("query") \ {x.fd} ELSE Held("query")
  BY <1>1, <1>3, <1>6, <1>9, QueryGives
<1>11. OnePlace'
  <2>1. CASE x.html
    BY <1>1, <1>3, <1>4, <1>5, <1>8, <1>10, <2>1, HeldIs, HeldNext, Move DEF Inv, Place
  <2>2. CASE ~x.html
    BY <1>1, <1>5, <1>8, <1>10, <2>2, HeldIs, HeldNext, Stay DEF Inv
  <2> QED
    BY <2>1, <2>2
<1>12. OnceEach'
  BY <1>1, <1>5, <1>6 DEF Inv, OnceEach, Once
<1> QED
  BY <1>1, <1>7, <1>11, <1>12 DEF Inv, Locals

LEMMA WriteInv == ASSUME Inv, Write PROVE Inv'
<1>1. /\ wr = 0 /\ writeq # <<>> /\ writeq' = Tail(writeq)
      /\ wr' = (IF Head(writeq).html THEN Head(writeq).fd ELSE 0)
      /\ UNCHANGED clientVars /\ UNCHANGED <<inbox, asked, backlog>>
      /\ UNCHANGED <<owner, armed, lis, readq, queryq, rd, qt>>
  BY DEF Write
<1>2. writeq \in Seq(Task) /\ Once(writeq) /\ Len(writeq) <= Capacity /\ Len(writeq) \in Nat
  BY DEF Inv, Types, QueueType, OnceEach
<1>3. PICK x \in Task : x = Head(writeq) /\ x.fd \in FD /\ x.from \in Clients /\ x.no \in Nat
  <2>1. Head(writeq) \in Task
    BY <1>1, <1>2, QueueEnds
  <2> QED
    BY <2>1 DEF Task
<1>4. /\ writeq' \in Seq(Task) /\ Len(writeq') <= Capacity /\ Once(writeq')
      /\ Html(writeq') = IF x.html THEN Html(writeq) \ {x.fd} ELSE Html(writeq)
      /\ x.html => x.fd \in Html(writeq)
  BY <1>1, <1>2, <1>3, QueueEnds, HtmlTail, NetServerAssumption
<1>5. PipeType'
  <2>1. got \in [Clients -> Seq(Clients \X Nat)] /\ owner[x.fd] \in Clients \cup {NoClient}
    BY <1>3 DEF Inv, Types, PipeType, ThreadType
  <2>2. \/ got' = got
        \/ owner[x.fd] # NoClient /\ got' = [got EXCEPT ![owner[x.fd]] = Append(@, <<x.from, x.no>>)]
    BY <1>3 DEF Write
  <2>3. <<x.from, x.no>> \in Clients \X Nat
    BY <1>3
  <2>4. owner[x.fd] # NoClient => Append(got[owner[x.fd]], <<x.from, x.no>>) \in Seq(Clients \X Nat)
    BY <2>1, <2>3, AppendProperties
  <2>5. got' \in [Clients -> Seq(Clients \X Nat)]
    BY <2>1, <2>2, <2>4
  <2> QED
    BY <1>1, <2>5 DEF Inv, Types, PipeType
<1>6. wr' = (IF x.html THEN x.fd ELSE 0) /\ x.fd # 0 /\ wr' \in FD \cup {0}
  BY <1>1, <1>3 DEF FD
<1>7. Types'
  BY <1>1, <1>4, <1>5, <1>6, ClientFrame DEF Inv, Types, QueueType, ThreadType
<1>8. \A p \in Place : p # "writeq" /\ p # "writer" => Held(p)' = Held(p)
  BY <1>1, HeldFrame DEF Place
<1>9. Held("writer")' = IF x.html THEN Held("writer") \cup {x.fd} ELSE Held("writer")
  <2>1. Held("writer") = {} /\ Held("writer")' = {wr'} \ {0}
    BY <1>1, HeldIs, HeldNext
  <2>2. CASE x.html
    BY <1>6, <2>1, <2>2
  <2>3. CASE ~x.html
    BY <1>6, <2>1, <2>3
  <2> QED
    BY <2>2, <2>3
<1>10. OnePlace'
  <2>1. CASE x.html
    BY <1>1, <1>3, <1>4, <1>8, <1>9, <2>1, HeldIs, HeldNext, Move DEF Inv, Place
  <2>2. CASE ~x.html
    BY <1>1, <1>4, <1>8, <1>9, <2>2, HeldIs, HeldNext, Stay DEF Inv
  <2> QED
    BY <2>1, <2>2
<1>11. OnceEach'
  BY <1>1, <1>4 DEF Inv, OnceEach, Once
<1> QED
  BY <1>1, <1>7, <1>10, <1>11 DEF Inv, Locals

LEMMA WriteCloseInv == ASSUME Inv, WriteClose PROVE Inv'
<1>1. /\ wr # 0 /\ Close(wr) /\ wr' = 0
      /\ UNCHANGED clientVars /\ UNCHANGED <<inbox, got, asked, backlog>>
      /\ UNCHANGED <<armed, lis, readq, queryq, writeq, rd, qt>>
  BY DEF WriteClose
<1>2. PICK fd \in FD : fd = wr /\ fd # 0
  BY <1>1 DEF Inv, Types, ThreadType
<1>3. owner' = [owner EXCEPT ![fd] = NoClient] /\ owner \in [FD -> Clients \cup {NoClient}]
  BY <1>1, <1>2 DEF Close, Inv, Types, ThreadType
<1>4. Types'
  BY <1>1, <1>3, ClientFrame DEF Inv, Types, PipeType, QueueType, ThreadType
<1>5. Held("writer")' = Held("writer") \ {fd} /\ fd \in Held("writer")
  BY <1>1, <1>2, HeldIs, HeldNext
<1>6. \A p \in Place : p # "writer" => Held(p)' = Held(p)
  BY <1>1, HeldFrame DEF Place
<1>7. OnePlace'
  BY <1>3, <1>5, <1>6, Go DEF Inv, Place
<1> QED
  BY <1>1, <1>4, <1>7 DEF Inv, OnceEach, Once, Locals

-----------------------------------------------------------------------------
LEMMA StepInv == ASSUME TRUE \notin FlagValues, Inv, [Next]_vars PROVE Inv'
<1>1. CASE UNCHANGED vars
  <2>1. UNCHANGED threadVars /\ UNCHANGED clientVars /\ UNCHANGED <<inbox, got, asked, backlog>>
    BY <1>1 DEF vars, threadVars, clientVars
  <2>2. ClientType' /\ PipeType'
    BY <2>1, ClientFrame DEF Inv, Types, PipeType
  <2> QED
    BY <2>1, <2>2, SamePlaces DEF Inv, Locals
<1>2. CASE Listener
  BY <1>2, SelectInv, AcceptInv, TakeInv, PushReadInv DEF Listener
<1>3. CASE Reader
  BY <1>3, ReadPopInv, ReadDataInv, ReadNothingInv, ClosesInv, SkipLongInv, PushFrameInv, EndOfBufferInv,
     PushHtmlInv, LoopInv DEF Reader
<1>4. CASE Writer
  BY <1>4, WriteInv, WriteCloseInv DEF Writer
<1>5. ASSUME NEW t \in QueryThreads, Query(t) PROVE Inv'
  BY <1>5, QueryPopInv, QueryPushInv DEF Query
<1> QED
  BY <1>1, <1>2, <1>3, <1>4, <1>5, ClientsInv DEF Next

LEMMA NetInvariant == TRUE \notin FlagValues => (Spec => []Inv)
<1> SUFFICES ASSUME TRUE \notin FlagValues PROVE Spec => []Inv
  OBVIOUS
<1>1. Inv /\ [Next]_vars => Inv'
  BY StepInv
<1> QED
  BY <1>1, InitInv, PTL DEF Spec

(***************************************************************************)
(* The threads hold descriptors in range and the reader no more than its   *)
(* buffer.                                                                 *)
(***************************************************************************)
THEOREM TypeCorrect == TRUE \notin FlagValues => (Spec => []TypeOK)
<1>1. Inv => TypeOK
  BY TypesOK DEF Inv
<1> QED
  BY <1>1, NetInvariant, PTL

\* The hands of a descriptor are its places: there is one hand where there is one place.
LEMMA OnePlaceIsOneHand == Inv => OneHand
<1> SUFFICES ASSUME Inv, NEW fd \in FD
             PROVE  (owner[fd] = NoClient <=> Hands(fd) = {}) /\ \A h, k \in Hands(fd) : h = k
  BY DEF OneHand
<1> DEFINE Mine(S) == {x \in S : x.html /\ x.fd = fd}
           InQueryq == {queryq[i] : i \in DOMAIN queryq}
           InWriteq == {writeq[i] : i \in DOMAIN writeq}
           InQuery  == {qt[t] : t \in QueryThreads} \ {NoTask}
<1>1. fd # 0
  BY DEF FD
<1>2. \A p, r \in Place : fd \in Held(p) /\ fd \in Held(r) => p = r
  BY DEF Inv, OnePlace
<1>3. /\ fd \in Held("fde") <=> fd \in armed
      /\ fd \in Held("listener") <=> lis.hand = fd
      /\ fd \in Held("reader") <=> rd.fd = fd
      /\ fd \in Held("writer") <=> wr = fd
      /\ fd \in Held("readq") <=> \E i \in DOMAIN readq : readq[i] = fd
  BY <1>1, HeldIs
<1>4. fd \in Held("queryq") <=> Mine(InQueryq) # {}
  BY HeldIs DEF Html
<1>5. fd \in Held("writeq") <=> Mine(InWriteq) # {}
  BY HeldIs DEF Html
<1>6. fd \in Held("query") <=> Mine(InQuery) # {}
  BY HeldIs
<1>7. Mine(Tasks) = Mine(InQueryq) \cup Mine(InWriteq) \cup Mine(InQuery)
  <2>1. NoTask \notin InQueryq /\ NoTask \notin InWriteq
    BY NotNoTask DEF Inv, Types, QueueType
  <2> QED
    BY <2>1 DEF Tasks
<1>8. /\ \A x, y \in Mine(InQueryq) : x = y
      /\ \A x, y \in Mine(InWriteq) : x = y
      /\ \A x, y \in Mine(InQuery) : x = y
      /\ \A i, j \in DOMAIN readq : readq[i] = fd /\ readq[j] = fd => i = j
  BY DEF Inv, OnceEach, Once
<1>9. /\ Mine(InQueryq) # {} => Mine(InWriteq) = {} /\ Mine(InQuery) = {}
      /\ Mine(InWriteq) # {} => Mine(InQuery) = {}
  BY <1>2, <1>4, <1>5, <1>6 DEF Place
<1>10. \A x, y \in Mine(Tasks) : x = y
  BY <1>7, <1>8, <1>9
<1> DEFINE Part(p) ==
      CASE p = "fde"      -> {<<"fde", x>> : x \in armed \cap {fd}}
        [] p = "listener" -> {<<"listener", x>> : x \in {lis.hand} \cap {fd}}
        [] p = "readq"    -> {<<"readq", i>> : i \in {k \in DOMAIN readq : readq[k] = fd}}
        [] p = "reader"   -> {<<"reader", x>> : x \in {rd.fd} \cap {fd}}
        [] p = "html"     -> {<<"html", task>> : task \in Mine(Tasks)}
        [] p = "writer"   -> {<<"writer", x>> : x \in {wr} \cap {fd}}
      Parts == {"fde", "listener", "readq", "reader", "html", "writer"}
<1>11. Hands(fd) = UNION {Part(p) : p \in Parts}
  BY DEF Hands
<1>12. ASSUME NEW p \in Parts, NEW h \in Part(p), NEW k \in Part(p) PROVE h = k
  <2>1. p = "fde" => h = k
    OBVIOUS
  <2>2. p = "listener" => h = k
    OBVIOUS
  <2>3. p = "readq" => h = k
    BY <1>8
  <2>4. p = "reader" => h = k
    OBVIOUS
  <2>5. p = "html" => h = k
    BY <1>10
  <2>6. p = "writer" => h = k
    OBVIOUS
  <2> QED
    BY <2>1, <2>2, <2>3, <2>4, <2>5, <2>6
<1>13. /\ Part("fde") # {} <=> fd \in Held("fde")
       /\ Part("listener") # {} <=> fd \in Held("listener")
       /\ Part("readq") # {} <=> fd \in Held("readq")
       /\ Part("reader") # {} <=> fd \in Held("reader")
       /\ Part("writer") # {} <=> fd \in Held("writer")
       /\ Part("html") # {} <=> fd \in Held("queryq") \/ fd \in Held("query") \/ fd \in Held("writeq")
  <2>1. Part("html") # {} <=> Mine(Tasks) # {}
    OBVIOUS
  <2>2. Part("fde") # {} <=> fd \in Held("fde")
    BY <1>3
  <2>3. Part("listener") # {} <=> fd \in Held("listener")
    BY <1>3
  <2>4. Part("readq") # {} <=> fd \in Held("readq")
    BY <1>3
  <2>5. Part("reader") # {} <=> fd \in Held("reader")
    BY <1>3
  <2>6. Part("writer") # {} <=> fd \in Held("writer")
    BY <1>3
  <2> QED
    BY <1>4, <1>5, <1>6, <1>7, <2>1, <2>2, <2>3, <2>4, <2>5, <2>6
<1> HIDE DEF Part
<1>14. \A p, r \in Parts : Part(p) # {} /\ Part(r) # {} => p = r
  BY <1>2, <1>13 DEF Place
<1>15. \A h, k \in Hands(fd) : h = k
  BY <1>11, <1>12, <1>14
<1>16. Hands(fd) # {} <=> \E p \in Place : fd \in Held(p)
  <2>1. Hands(fd) # {} <=> \E p \in Parts : Part(p) # {}
    BY <1>11
  <2> QED
    BY <1>13, <2>1 DEF Place
<1>17. owner[fd] # NoClient <=> \E p \in Place : fd \in Held(p)
  BY DEF Inv, OnePlace
<1> QED
  BY <1>15, <1>16, <1>17

(***************************************************************************)
(* Every open descriptor is in one hand and no closed one in any, for any  *)
(* clients, impatient ones too, any queues and any number of threads, if   *)
(* bHtml is FALSE for a frame.                                             *)
(***************************************************************************)
THEOREM DescriptorsInOneHand == TRUE \notin FlagValues => (Spec => []OneHand)
BY OnePlaceIsOneHand, NetInvariant, PTL

-----------------------------------------------------------------------------
(***************************************************************************)
(* The tasks under way, the next one to be written first.  With one query  *)
(* thread they keep their order from the reader to the writer.             *)
(***************************************************************************)
Working == IF \E t \in QueryThreads : qt[t] # NoTask
           THEN <<qt[CHOOSE t \in QueryThreads : qt[t] # NoTask]>> ELSE <<>>
Line    == (writeq \o Working) \o queryq

LEMMA LineParts ==
  ASSUME Types
  PROVE  /\ writeq \in Seq(Task) /\ queryq \in Seq(Task) /\ Working \in Seq(Task) /\ Line \in Seq(Task)
         /\ \A t \in QueryThreads : qt[t] # NoTask => qt[t] \in Task
<1>1. writeq \in Seq(Task) /\ queryq \in Seq(Task) /\ \A t \in QueryThreads : qt[t] # NoTask => qt[t] \in Task
  BY DEF Types, QueueType, ThreadType
<1>2. Working \in Seq(Task)
  <2>1. CASE \E t \in QueryThreads : qt[t] # NoTask
    <3>1. PICK x \in Task : Working = <<x>>
      BY <1>1, <2>1 DEF Working
    <3> QED
      BY <3>1
  <2>2. CASE ~\E t \in QueryThreads : qt[t] # NoTask
    BY <2>2 DEF Working
  <2> QED
    BY <2>1, <2>2
<1>3. writeq \o Working \in Seq(Task)
  BY <1>1, <1>2, ConcatProperties
<1>4. Line \in Seq(Task)
  BY <1>1, <1>3, ConcatProperties DEF Line
<1> QED
  BY <1>1, <1>2, <1>4

\* The thread that works is the one there is.
LEMMA WorkingIs ==
  ASSUME Solo, NEW t \in QueryThreads
  PROVE  Working = IF qt[t] # NoTask THEN <<qt[t]>> ELSE <<>>
<1>1. \A u \in QueryThreads : u = t
  BY DEF Solo
<1>2. CASE qt[t] # NoTask
  <2>1. (CHOOSE u \in QueryThreads : qt[u] # NoTask) = t
    BY <1>1, <1>2
  <2> QED
    BY <1>2, <2>1 DEF Working
<1>3. CASE qt[t] = NoTask
  BY <1>1, <1>3 DEF Working
<1> QED
  BY <1>2, <1>3

LEMMA WorkingNext ==
  ASSUME Solo, NEW t \in QueryThreads
  PROVE  Working' = IF qt'[t] # NoTask THEN <<qt'[t]>> ELSE <<>>
<1>1. \A u \in QueryThreads : u = t
  BY DEF Solo
<1>2. CASE qt'[t] # NoTask
  <2>1. (CHOOSE u \in QueryThreads : qt'[u] # NoTask) = t
    BY <1>1, <1>2
  <2> QED
    BY <1>2, <2>1 DEF Working
<1>3. CASE qt'[t] = NoTask
  BY <1>1, <1>3 DEF Working
<1> QED
  BY <1>2, <1>3

LEMMA HeadAndTail == ASSUME NEW S, NEW s \in Seq(S), s # <<>> PROVE s = <<Head(s)>> \o Tail(s)
<1>1. Head(s) \in S /\ Tail(s) \in Seq(S) /\ Len(Tail(s)) = Len(s) - 1 /\ \A i \in 1 .. Len(Tail(s)) : Tail(s)[i] = s[i + 1]
  BY HeadTailProperties
<1>2. <<Head(s)>> \in Seq(S) /\ Len(<<Head(s)>>) = 1 /\ <<Head(s)>>[1] = s[1]
  BY <1>1
<1> DEFINE u == <<Head(s)>> \o Tail(s)
<1>3. u \in Seq(S) /\ Len(u) = Len(s) /\ \A i \in 1 .. Len(s) : u[i] = IF i <= 1 THEN <<Head(s)>>[i] ELSE Tail(s)[i - 1]
  <2>1. Len(s) \in Nat
    OBVIOUS
  <2>2. /\ u \in Seq(S) /\ Len(u) = 1 + (Len(s) - 1)
        /\ \A i \in 1 .. 1 + (Len(s) - 1) : u[i] = IF i <= 1 THEN <<Head(s)>>[i] ELSE Tail(s)[i - 1]
    BY <1>1, <1>2, ConcatProperties
  <2> QED
    BY <2>1, <2>2
<1>4. ASSUME NEW i \in 1 .. Len(s) PROVE u[i] = s[i]
  <2>1. CASE i = 1
    BY <1>2, <1>3, <2>1
  <2>2. CASE i # 1
    <3>1. i - 1 \in 1 .. Len(Tail(s)) /\ ~(i <= 1) /\ (i - 1) + 1 = i
      BY <1>1, <2>2
    <3> QED
      BY <1>1, <1>3, <3>1
  <2> QED
    BY <2>1, <2>2
<1> QED
  BY <1>3, <1>4, SeqEqual

\* A query thread takes the head of its queue: the line stays.
LEMMA LineOfPop ==
  ASSUME Types, Solo, NEW t \in QueryThreads, QueryPop(t)
  PROVE  Line' = Line
<1>1. /\ qt[t] = NoTask /\ queryq # <<>> /\ qt' = [qt EXCEPT ![t] = Head(queryq)]
      /\ queryq' = Tail(queryq) /\ writeq' = writeq /\ qt \in [QueryThreads -> Task \cup {NoTask}]
  BY DEF QueryPop, Types, ThreadType
<1>2. writeq \in Seq(Task) /\ queryq \in Seq(Task)
  BY LineParts
<1>3. Head(queryq) \in Task /\ Tail(queryq) \in Seq(Task) /\ queryq = <<Head(queryq)>> \o Tail(queryq)
  BY <1>1, <1>2, HeadTailProperties, HeadAndTail
<1>4. qt'[t] = Head(queryq) /\ Head(queryq) # NoTask
  BY <1>1, <1>3, NotNoTask
<1>5. Working = <<>> /\ Working' = <<Head(queryq)>>
  BY <1>1, <1>4, WorkingIs, WorkingNext
<1>6. Line' = (writeq \o <<Head(queryq)>>) \o Tail(queryq)
  BY <1>1, <1>5 DEF Line
<1>7. Line = writeq \o queryq
  BY <1>2, <1>5, ConcatEmptySeq DEF Line
<1>8. (writeq \o <<Head(queryq)>>) \o Tail(queryq) = writeq \o (<<Head(queryq)>> \o Tail(queryq))
  <2>1. <<Head(queryq)>> \in Seq(Task)
    BY <1>3
  <2> QED
    BY <1>2, <1>3, <2>1, ConcatAssociative
<1> QED
  BY <1>3, <1>6, <1>7, <1>8

\* It hands its task on: the line stays.
LEMMA LineOfPush ==
  ASSUME Types, Solo, NEW t \in QueryThreads, QueryPush(t)
  PROVE  Line' = Line
<1>1. /\ qt[t] # NoTask /\ writeq' = Append(writeq, qt[t]) /\ qt' = [qt EXCEPT ![t] = NoTask] /\ queryq' = queryq
      /\ qt \in [QueryThreads -> Task \cup {NoTask}]
  BY DEF QueryPush, Types, ThreadType
<1>2. writeq \in Seq(Task) /\ queryq \in Seq(Task) /\ qt[t] \in Task
  BY <1>1, LineParts
<1>3. Working = <<qt[t]>> /\ Working' = <<>>
  BY <1>1, WorkingIs, WorkingNext
<1>4. Append(writeq, qt[t]) \in Seq(Task) /\ Append(writeq, qt[t]) = writeq \o <<qt[t]>>
  BY <1>2, AppendProperties, AppendIsConcat
<1>5. Append(writeq, qt[t]) \o <<>> = Append(writeq, qt[t])
  BY <1>4, ConcatEmptySeq
<1> QED
  BY <1>1, <1>3, <1>4, <1>5 DEF Line

LEMMA InConcat ==
  ASSUME NEW S, NEW s \in Seq(S), NEW u \in Seq(S), NEW i \in DOMAIN (s \o u)
  PROVE  (\E k \in DOMAIN s : s[k] = (s \o u)[i]) \/ (\E k \in DOMAIN u : u[k] = (s \o u)[i])
<1>1. /\ Len(s) \in Nat /\ Len(u) \in Nat /\ DOMAIN s = 1 .. Len(s) /\ DOMAIN u = 1 .. Len(u)
      /\ s \o u \in Seq(S) /\ Len(s \o u) = Len(s) + Len(u)
      /\ \A k \in 1 .. Len(s) + Len(u) : (s \o u)[k] = IF k <= Len(s) THEN s[k] ELSE u[k - Len(s)]
  BY ConcatProperties
<1>2. i \in 1 .. Len(s) + Len(u)
  BY <1>1
<1>3. CASE i <= Len(s)
  <2>1. i \in DOMAIN s /\ (s \o u)[i] = s[i]
    BY <1>1, <1>2, <1>3
  <2> QED
    BY <2>1
<1>4. CASE ~(i <= Len(s))
  <2>1. i - Len(s) \in DOMAIN u /\ (s \o u)[i] = u[i - Len(s)]
    BY <1>1, <1>2, <1>4
  <2> QED
    BY <2>1
<1> QED
  BY <1>3, <1>4

\* What is read goes behind what the buffer holds.
LEMMA ConcatPrefix ==
  ASSUME NEW S, NEW s \in Seq(S), NEW u \in Seq(S), NEW m \in 0 .. Len(u)
  PROVE  /\ Len(s \o SubSeq(u, 1, m)) = Len(s) + m
         /\ \A k \in DOMAIN (s \o SubSeq(u, 1, m)) :
              \/ k \in DOMAIN s /\ (s \o SubSeq(u, 1, m))[k] = s[k]
              \/ k \in Nat /\ k - Len(s) \in DOMAIN u /\ (s \o SubSeq(u, 1, m))[k] = u[k - Len(s)]
<1>1. \A i \in 1 .. m : u[i] \in S
  OBVIOUS
<1>2. PICK v \in Seq(S) : v = SubSeq(u, 1, m) /\ Len(v) = m /\ \A i \in 1 .. m : v[i] = u[i]
  <2>1. /\ SubSeq(u, 1, m) \in Seq(S) /\ Len(SubSeq(u, 1, m)) = IF 1 <= m THEN m - 1 + 1 ELSE 0
        /\ \A i \in 1 .. m - 1 + 1 : SubSeq(u, 1, m)[i] = u[1 + i - 1]
    BY <1>1, SubSeqProperties
  <2>2. Len(SubSeq(u, 1, m)) = m /\ \A i \in 1 .. m : SubSeq(u, 1, m)[i] = u[i]
    BY <2>1
  <2> QED
    BY <2>1, <2>2
<1>3. /\ Len(s) \in Nat /\ DOMAIN s = 1 .. Len(s) /\ DOMAIN u = 1 .. Len(u)
      /\ s \o v \in Seq(S) /\ Len(s \o v) = Len(s) + m
      /\ \A k \in 1 .. Len(s) + m : (s \o v)[k] = IF k <= Len(s) THEN s[k] ELSE v[k - Len(s)]
  BY <1>2, ConcatProperties
<1>4. ASSUME NEW k \in DOMAIN (s \o v)
      PROVE  \/ k \in DOMAIN s /\ (s \o v)[k] = s[k]
             \/ k \in Nat /\ k - Len(s) \in DOMAIN u /\ (s \o v)[k] = u[k - Len(s)]
  <2>1. k \in 1 .. Len(s) + m
    BY <1>3
  <2>2. CASE k <= Len(s)
    BY <1>3, <2>1, <2>2
  <2>3. CASE ~(k <= Len(s))
    <3>1. k - Len(s) \in 1 .. m /\ k \in Nat
      BY <1>3, <2>1, <2>3
    <3>2. (s \o v)[k] = v[k - Len(s)] /\ v[k - Len(s)] = u[k - Len(s)]
      BY <1>2, <1>3, <2>1, <2>3, <3>1
    <3>3. k - Len(s) \in DOMAIN u
      BY <1>3, <3>1
    <3> QED
      BY <3>1, <3>2, <3>3
  <2> QED
    BY <2>2, <2>3
<1> QED
  BY <1>2, <1>3, <1>4

LEMMA FirstOfLine ==
  ASSUME NEW S, NEW x \in S, NEW u \in Seq(S), NEW s, s = <<x>> \o u
  PROVE  /\ 1 \in DOMAIN s /\ s[1] = x
         /\ \A i \in DOMAIN u : i \in Nat /\ i > 0 /\ i + 1 \in DOMAIN s /\ u[i] = s[i + 1]
         /\ \A i \in DOMAIN s : i = 1 \/ (i - 1 \in DOMAIN u /\ u[i - 1] = s[i] /\ i \in Nat /\ i > 1)
<1>1. <<x>> \in Seq(S) /\ Len(<<x>>) = 1 /\ <<x>>[1] = x
  OBVIOUS
<1>2. /\ s \in Seq(S) /\ Len(s) = 1 + Len(u) /\ Len(u) \in Nat
      /\ \A i \in 1 .. 1 + Len(u) : s[i] = IF i <= 1 THEN <<x>>[i] ELSE u[i - 1]
  BY <1>1, ConcatProperties
<1>3. DOMAIN s = 1 .. Len(u) + 1 /\ DOMAIN u = 1 .. Len(u)
  BY <1>2
<1>4. 1 \in DOMAIN s /\ s[1] = x
  BY <1>1, <1>2, <1>3
<1>5. ASSUME NEW i \in DOMAIN u PROVE i \in Nat /\ i > 0 /\ i + 1 \in DOMAIN s /\ u[i] = s[i + 1]
  <2>1. i \in Nat /\ i > 0 /\ i + 1 \in 1 .. 1 + Len(u) /\ ~(i + 1 <= 1) /\ (i + 1) - 1 = i
    BY <1>2, <1>3
  <2> QED
    BY <1>2, <1>3, <2>1
<1>6. ASSUME NEW i \in DOMAIN s, i # 1 PROVE i - 1 \in DOMAIN u /\ u[i - 1] = s[i] /\ i \in Nat /\ i > 1
  <2>1. i \in 1 .. 1 + Len(u) /\ ~(i <= 1) /\ i \in Nat /\ i - 1 \in 1 .. Len(u)
    BY <1>2, <1>3, <1>6
  <2> QED
    BY <1>2, <1>3, <2>1
<1> QED
  BY <1>4, <1>5, <1>6

LEMMA ConcatAppend ==
  ASSUME NEW S, NEW s \in Seq(S), NEW u \in Seq(S), NEW x \in S
  PROVE  s \o Append(u, x) = Append(s \o u, x)
<1>1. PICK b \in Seq(S) : b = <<x>>
  <2>1. <<x>> \in Seq(S)
    OBVIOUS
  <2> QED
    BY <2>1, Zenon
<1>2. (s \o u) \o b = s \o (u \o b)
  BY ConcatAssociative
<1>3. Append(u, x) = u \o b
  BY <1>1, AppendIsConcat
<1>4. PICK a \in Seq(S) : a = s \o u
  BY ConcatProperties
<1>5. Append(a, x) = a \o b
  BY <1>1, AppendIsConcat
<1> QED
  BY <1>2, <1>3, <1>4, <1>5

\* A request comes at the end of the line.
LEMMA LineOfEnqueue ==
  ASSUME Types, NEW x \in Task, queryq' = Append(queryq, x), UNCHANGED <<writeq, qt>>
  PROVE  Line' = Append(Line, x)
<1>1. queryq \in Seq(Task) /\ writeq \in Seq(Task) /\ Working \in Seq(Task)
  BY LineParts
<1>2. PICK a \in Seq(Task) : a = writeq \o Working
  BY <1>1, ConcatProperties
<1>3. a \o Append(queryq, x) = Append(a \o queryq, x)
  BY <1>1, ConcatAppend
<1>4. Working' = Working
  BY DEF Working
<1> QED
  BY <1>2, <1>3, <1>4 DEF Line

\* The writer takes the first task of the line.
LEMMA LineOfWrite ==
  ASSUME Types, writeq # <<>>, writeq' = Tail(writeq), UNCHANGED <<queryq, qt>>
  PROVE  Line = <<Head(writeq)>> \o Line' /\ Line' \in Seq(Task) /\ Head(writeq) \in Task
<1>1. writeq \in Seq(Task) /\ queryq \in Seq(Task) /\ Working \in Seq(Task)
  BY LineParts
<1>2. Head(writeq) \in Task /\ Tail(writeq) \in Seq(Task) /\ writeq = <<Head(writeq)>> \o Tail(writeq)
  BY <1>1, HeadTailProperties, HeadAndTail
<1>3. Working' = Working
  BY DEF Working
<1>4. <<Head(writeq)>> \in Seq(Task) /\ Tail(writeq) \o Working \in Seq(Task)
  BY <1>1, <1>2, ConcatProperties
<1>5. (<<Head(writeq)>> \o Tail(writeq)) \o Working = <<Head(writeq)>> \o (Tail(writeq) \o Working)
  BY <1>1, <1>2, <1>4, ConcatAssociative
<1>6. (<<Head(writeq)>> \o (Tail(writeq) \o Working)) \o queryq = <<Head(writeq)>> \o ((Tail(writeq) \o Working) \o queryq)
  BY <1>1, <1>4, ConcatAssociative
<1>7. Line' = (Tail(writeq) \o Working) \o queryq
  BY <1>3 DEF Line
<1>8. Line' \in Seq(Task)
  BY <1>1, <1>4, <1>7, ConcatProperties
<1> QED
  BY <1>2, <1>5, <1>6, <1>7, <1>8 DEF Line

LEMMA DropParts ==
  ASSUME NEW S, NEW s \in Seq(S), NEW n \in 0 .. Len(s)
  PROVE  /\ Drop(s, n) \in Seq(S) /\ Len(Drop(s, n)) = Len(s) - n
         /\ \A k \in DOMAIN Drop(s, n) : Drop(s, n)[k] = s[n + k] /\ n + k \in DOMAIN s /\ k \in Nat
<1>1. n + 1 \in Int /\ Len(s) \in Nat /\ \A i \in n + 1 .. Len(s) : s[i] \in S
  OBVIOUS
<1>2. Drop(s, n) \in Seq(S) /\ Len(Drop(s, n)) = Len(s) - n
  BY DropType
<1>3. \A i \in 1 .. Len(s) - (n + 1) + 1 : Drop(s, n)[i] = s[(n + 1) + i - 1]
  BY <1>1, SubSeqProperties DEF Drop
<1>4. ASSUME NEW k \in DOMAIN Drop(s, n) PROVE Drop(s, n)[k] = s[n + k] /\ n + k \in DOMAIN s /\ k \in Nat
  <2>1. k \in 1 .. Len(s) - n
    BY <1>2
  <2>2. k \in 1 .. Len(s) - (n + 1) + 1 /\ (n + 1) + k - 1 = n + k /\ n + k \in 1 .. Len(s)
    BY <1>1, <2>1
  <2> QED
    BY <1>3, <2>1, <2>2
<1> QED
  BY <1>2, <1>4

-----------------------------------------------------------------------------
(***************************************************************************)
(* The tasks as a set, for any number of query threads.                    *)
(***************************************************************************)
Elements(q) == {q[i] : i \in DOMAIN q}
Worked      == {qt[t] : t \in QueryThreads} \ {NoTask}

LEMMA TasksParts == Tasks = (Elements(queryq) \cup Elements(writeq) \cup Worked) \ {NoTask}
BY DEF Tasks, Elements, Worked

LEMMA TasksNext == Tasks' = (Elements(queryq') \cup Elements(writeq') \cup Worked') \ {NoTask}
BY DEF Tasks, Elements, Worked

LEMMA TasksFrame == UNCHANGED <<writeq, qt, queryq>> => Tasks' = Tasks
BY DEF Tasks

LEMMA ElementsAre ==
  ASSUME NEW S, NEW s \in Seq(S)
  PROVE  /\ s # <<>> => Elements(s) = Elements(Tail(s)) \cup {Head(s)}
         /\ \A x \in S : Elements(Append(s, x)) = Elements(s) \cup {x}
<1>1. ASSUME s # <<>> PROVE Elements(s) = Elements(Tail(s)) \cup {Head(s)}
  <2>1. PICK t, x : t = Tail(s) /\ x = Head(s)
    OBVIOUS
  <2>2. /\ 1 \in DOMAIN s /\ s[1] = x
        /\ \A i \in DOMAIN t : i + 1 \in DOMAIN s /\ t[i] = s[i + 1]
        /\ \A i \in DOMAIN s : i = 1 \/ (i - 1 \in DOMAIN t /\ t[i - 1] = s[i])
    BY <1>1, <2>1, QueueEnds
  <2>3. Elements(s) \subseteq Elements(t) \cup {x}
    <3> SUFFICES ASSUME NEW i \in DOMAIN s PROVE s[i] = x \/ \E j \in DOMAIN t : t[j] = s[i]
      BY DEF Elements
    <3> QED
      BY <2>2
  <2>4. Elements(t) \cup {x} \subseteq Elements(s)
    BY <2>2 DEF Elements
  <2> QED
    BY <2>1, <2>3, <2>4
<1>2. ASSUME NEW x \in S PROVE Elements(Append(s, x)) = Elements(s) \cup {x}
  <2>1. /\ Append(s, x)[Len(s) + 1] = x
        /\ \A i \in DOMAIN s : i \in DOMAIN Append(s, x) /\ Append(s, x)[i] = s[i]
        /\ DOMAIN Append(s, x) = DOMAIN s \cup {Len(s) + 1}
    BY QueueEnds
  <2> QED
    BY <2>1 DEF Elements
<1> QED
  BY <1>1, <1>2

\* A task under way is well formed, and a place holds the descriptor of one that closes it.
LEMMA TasksAre ==
  ASSUME Types
  PROVE  /\ \A x \in Tasks : x \in Task /\ x.fd \in FD /\ x.html \in BOOLEAN /\ x.from \in Clients /\ x.no \in Nat
         /\ \A x \in Tasks : x.html => \E p \in {"queryq", "query", "writeq"} : x.fd \in Held(p)
<1>1. writeq \in Seq(Task) /\ queryq \in Seq(Task) /\ \A t \in QueryThreads : qt[t] # NoTask => qt[t] \in Task
  BY LineParts
<1>2. ASSUME NEW x \in Tasks
      PROVE  x \in Task /\ (x.html => \E p \in {"queryq", "query", "writeq"} : x.fd \in Held(p))
  <2>1. CASE x \in Elements(queryq)
    BY <1>1, <2>1, HeldIs DEF Html, Elements
  <2>2. CASE x \in Elements(writeq)
    BY <1>1, <2>2, HeldIs DEF Html, Elements
  <2>3. CASE x \in Worked
    <3>1. PICK t \in QueryThreads : qt[t] = x /\ qt[t] # NoTask
      BY <2>3 DEF Worked
    <3>2. x.html => x.fd \in Held("query")
      BY <3>1, HeldIs
    <3> QED
      BY <1>1, <3>1, <3>2
  <2> QED
    BY <2>1, <2>2, <2>3, TasksParts
<1> QED
  BY <1>2 DEF Task

LEMMA TasksOfPop ==
  ASSUME Types, NEW t \in QueryThreads, QueryPop(t)
  PROVE  Tasks' = Tasks
<1>1. /\ qt[t] = NoTask /\ queryq # <<>> /\ qt' = [qt EXCEPT ![t] = Head(queryq)]
      /\ queryq' = Tail(queryq) /\ writeq' = writeq /\ qt \in [QueryThreads -> Task \cup {NoTask}]
      /\ queryq \in Seq(Task)
  BY DEF QueryPop, Types, ThreadType, QueueType
<1>2. PICK x \in Task : x = Head(queryq) /\ x # NoTask
  BY <1>1, HeadTailProperties, NotNoTask
<1>3. Elements(queryq) = Elements(queryq') \cup {x}
  BY <1>1, <1>2, ElementsAre
<1>4. Worked' = Worked \cup {x}
  BY <1>1, <1>2 DEF Worked
<1> QED
  BY <1>1, <1>3, <1>4, TasksParts, TasksNext

LEMMA TasksOfPush ==
  ASSUME Types, NEW t \in QueryThreads, QueryPush(t)
  PROVE  Tasks' = Tasks
<1>1. /\ qt[t] # NoTask /\ writeq' = Append(writeq, qt[t]) /\ qt' = [qt EXCEPT ![t] = NoTask]
      /\ queryq' = queryq /\ qt \in [QueryThreads -> Task \cup {NoTask}] /\ writeq \in Seq(Task)
  BY DEF QueryPush, Types, ThreadType, QueueType
<1>2. PICK x \in Task : x = qt[t]
  BY <1>1
<1>3. Elements(writeq') = Elements(writeq) \cup {x}
  BY <1>1, <1>2, ElementsAre
<1>4. Worked = Worked' \cup {x}
  BY <1>1, <1>2 DEF Worked
<1> QED
  BY <1>1, <1>3, <1>4, TasksParts, TasksNext

LEMMA TasksOfEnqueue ==
  ASSUME Types, NEW x \in Task, queryq' = Append(queryq, x), UNCHANGED <<writeq, qt>>
  PROVE  Tasks' = Tasks \cup {x}
<1>1. Elements(queryq') = Elements(queryq) \cup {x}
  BY ElementsAre DEF Types, QueueType
<1>2. Worked' = Worked /\ x # NoTask
  BY NotNoTask DEF Worked
<1> QED
  BY <1>1, <1>2, TasksParts, TasksNext

LEMMA TasksOfWrite ==
  ASSUME Types, writeq # <<>>, writeq' = Tail(writeq), UNCHANGED <<queryq, qt>>
  PROVE  Tasks = Tasks' \cup {Head(writeq)} /\ Head(writeq) \in Task
<1>1. writeq \in Seq(Task)
  BY DEF Types, QueueType
<1>2. Elements(writeq) = Elements(writeq') \cup {Head(writeq)} /\ Head(writeq) \in Task
  BY <1>1, ElementsAre, HeadTailProperties
<1>3. Worked' = Worked /\ Head(writeq) # NoTask
  BY <1>2, NotNoTask DEF Worked
<1> QED
  BY <1>2, <1>3, TasksParts, TasksNext

\* The tasks of the line are the tasks under way.
LEMMA LineInTasks ==
  ASSUME Types
  PROVE  \A i \in DOMAIN Line : Line[i] \in Tasks
<1> SUFFICES ASSUME NEW i \in DOMAIN Line PROVE Line[i] \in Tasks
  OBVIOUS
<1>1. writeq \in Seq(Task) /\ queryq \in Seq(Task) /\ Working \in Seq(Task) /\ Line \in Seq(Task)
  BY LineParts
<1>2. PICK a \in Seq(Task) : a = writeq \o Working
  BY <1>1, ConcatProperties
<1>3. Line = a \o queryq
  BY <1>2 DEF Line
<1>4. Line[i] # NoTask
  BY <1>1, NotNoTask
<1>5. CASE \E k \in DOMAIN queryq : queryq[k] = Line[i]
  BY <1>4, <1>5, TasksParts DEF Elements
<1>6. CASE \E k \in DOMAIN writeq : writeq[k] = Line[i]
  BY <1>4, <1>6, TasksParts DEF Elements
<1>7. CASE \E k \in DOMAIN Working : Working[k] = Line[i]
  <2>1. CASE \E t \in QueryThreads : qt[t] # NoTask
    <3>1. PICK t \in QueryThreads : qt[t] # NoTask /\ Working = <<qt[t]>>
      BY <2>1 DEF Working
    <3>2. Line[i] = qt[t]
      BY <1>7, <3>1
    <3> QED
      BY <1>4, <3>2, TasksParts DEF Worked
  <2>2. CASE ~\E t \in QueryThreads : qt[t] # NoTask
    <3>1. Working = <<>>
      BY <2>2 DEF Working
    <3> QED
      BY <1>7, <3>1
  <2> QED
    BY <2>1, <2>2
<1>8. (\E k \in DOMAIN a : a[k] = Line[i]) \/ (\E k \in DOMAIN queryq : queryq[k] = Line[i])
  BY <1>1, <1>2, <1>3, InConcat
<1>9. (\E k \in DOMAIN a : a[k] = Line[i]) =>
         (\E k \in DOMAIN writeq : writeq[k] = Line[i]) \/ (\E k \in DOMAIN Working : Working[k] = Line[i])
  BY <1>1, <1>2, InConcat
<1> QED
  BY <1>5, <1>6, <1>7, <1>8, <1>9

-----------------------------------------------------------------------------
(***************************************************************************)
(* Whose number a task carries.  A client that has not given up keeps its  *)
(* descriptor while a task of its own is under way: the reader finds a     *)
(* header where the next frame of a client begins, a browser has one task  *)
(* and its descriptor goes with it, and the writer closes no other.        *)
(***************************************************************************)

\* Whom the reader reads, how far it has come in what the client sent, and how
\* much of a long request it has still to skip.
Reads(c)    == rd.fd # 0 /\ owner[rd.fd] = c
Ahead(c)    == IF Reads(c) THEN Len(rd.buf) ELSE 0
Skips(c)    == IF Reads(c) THEN rd.long ELSE 0
Taken(c)    == sent[c] - Len(inbox[c]) - Ahead(c)
NextHead(c) == Taken(c) + Skips(c) + 1

\* A connection has one descriptor, or waits for it and has asked nothing.
Owners ==
  /\ \A fd, e \in FD : owner[fd] # NoClient /\ owner[fd] = owner[e] => fd = e
  /\ \A i, j \in DOMAIN backlog : backlog[i] = backlog[j] => i = j
  /\ \A i \in DOMAIN backlog : asked[backlog[i]] = 0 /\ \A fd \in FD : backlog[i] # owner[fd]
  /\ \A c \in Clients : Connected(c) => st[c] # "new"
  /\ \A c \in Clients : st[c] = "new" => asked[c] = 0 /\ inbox[c] = <<>> /\ script[c] = <<>>

\* What is not taken yet is the end of what was sent.
StreamOf(c) ==
  Connected(c) =>
    /\ Taken(c) \in Nat
    /\ \A k \in DOMAIN inbox[c] : inbox[c][k] = script[c][sent[c] - Len(inbox[c]) + k]
    /\ Reads(c) => \A k \in DOMAIN rd.buf : rd.buf[k] = script[c][Taken(c) + k]

\* Frame by frame.
FramedOf(c) ==
  Framed(script[c]) /\ Connected(c) /\ NextHead(c) \in DOMAIN script[c] => script[c][NextHead(c)] >= 0

\* A browser that has not asked is at its GET.
BrowserOf(c) ==
  Browser(script[c]) /\ Connected(c) /\ asked[c] = 0 => Taken(c) = 0 /\ Skips(c) = 0

ClientOf(c) == StreamOf(c) /\ FramedOf(c) /\ BrowserOf(c)

\* The descriptor of a browser that has asked goes with its task.
BrowserHeld ==
  \A c \in Clients : Browser(script[c]) /\ asked[c] # 0 =>
    \A fd \in FD : owner[fd] = c => fd = wr \/ \E x \in Tasks : x.html /\ x.fd = fd

\* A task's descriptor is its client's, or that one is gone and had given up.
TasksOf ==
  \A x \in Tasks :
    /\ owner[x.fd] = x.from \/ (~Connected(x.from) /\ GaveUp(x.from))
    /\ x.html => owner[x.fd] = x.from /\ ~Framed(script[x.from])
    /\ Browser(script[x.from]) => x.html

WriterOf == wr # 0 => ~Framed(script[owner[wr]])

Tasked == BrowserHeld /\ TasksOf /\ WriterOf

Addressed == Owners /\ (\A c \in Clients : ClientOf(c)) /\ Tasked /\ NotAstray

-----------------------------------------------------------------------------
(***************************************************************************)
(* Facts about the parts.                                                  *)
(***************************************************************************)
LEMMA ConnectedIs ==
  ASSUME NEW c \in Clients
  PROVE  /\ Connected(c) <=> (\E fd \in FD : owner[fd] = c) \/ (\E i \in DOMAIN backlog : backlog[i] = c)
         /\ Connected(c)' <=> (\E fd \in FD : owner'[fd] = c) \/ (\E i \in DOMAIN backlog' : backlog'[i] = c)
BY DEF Connected

LEMMA ScriptType ==
  ASSUME Types, NEW c \in Clients
  PROVE  script[c] \in Seq(Unit) /\ Len(script[c]) \in Nat
<1>1. script[c] \in Scripts \cup {<<>>}
  BY DEF Types, ClientType
<1>2. <<>> \in Seq(Unit)
  OBVIOUS
<1>3. script[c] \in Seq(Unit)
  BY <1>1, <1>2, NetServerAssumption
<1> QED
  BY <1>3

LEMMA UnitIs == \A u \in Unit : u \in Int
BY DEF Unit, Payload, Bad, Get

\* A header follows a frame.
LEMMA NextFrame ==
  ASSUME NEW s \in Seq(Unit), Framed(s), NEW p \in Nat, p + 1 \in DOMAIN s, NEW n \in Nat, s[p + 1] = n,
         p + n + 1 + 1 \in DOMAIN s
  PROVE  s[p + n + 1 + 1] >= 0
<1>1. PICK h \in DOMAIN s : h = p + 1
  OBVIOUS
<1>2. s[h] = n /\ n >= 0
  BY <1>1
<1>3. h + n + 1 = p + n + 1 + 1
  BY <1>1
<1>4. h + s[h] + 1 = p + n + 1 + 1 /\ s[h] >= 0
  BY <1>2, <1>3
<1> QED
  BY <1>4 DEF Framed

LEMMA GaveUpStays ==
  ASSUME NEW c, GaveUp(c), script'[c] = script[c], st[c] = "closed" => st'[c] = "closed"
  PROVE  GaveUp(c)'
BY DEF GaveUp

LEMMA AstrayKeeps ==
  ASSUME Types, NotAstray, got' = got, \A c \in Clients : GaveUp(c) => GaveUp(c)'
  PROVE  NotAstray'
<1> SUFFICES ASSUME NEW c \in Clients, NEW i \in DOMAIN got[c]
             PROVE  got[c][i][1] = c \/ GaveUp(got[c][i][1])'
  BY DEF NotAstray
<1>1. got[c] \in Seq(Clients \X Nat)
  BY DEF Types, PipeType
<1>2. got[c][i][1] \in Clients
  BY <1>1
<1>3. got[c][i][1] = c \/ GaveUp(got[c][i][1])
  BY DEF NotAstray
<1> QED
  BY <1>2, <1>3

-----------------------------------------------------------------------------
(***************************************************************************)
(* Steps that leave a client, or the tasks, as they were.                  *)
(***************************************************************************)
ReaderSees(c) ==
  /\ Ahead(c)' = Ahead(c) /\ Skips(c)' = Skips(c)
  /\ Reads(c)' => (Reads(c) /\ rd'.buf = rd.buf) \/ rd'.buf = <<>>

LEMMA AskingKeeps ==
  ASSUME NEW c \in Clients, ClientOf(c), script'[c] = script[c], asked'[c] = asked[c],
         Connected(c)' => Connected(c) /\ Taken(c)' = Taken(c) /\ Skips(c)' = Skips(c)
  PROVE  FramedOf(c)' /\ BrowserOf(c)'
<1>1. Connected(c)' => NextHead(c)' = NextHead(c)
  BY DEF NextHead
<1>2. FramedOf(c)'
  BY <1>1 DEF ClientOf, FramedOf
<1>3. BrowserOf(c)'
  BY DEF ClientOf, BrowserOf
<1> QED
  BY <1>2, <1>3

LEMMA ClientKeeps ==
  ASSUME NEW c \in Clients, ClientOf(c), script'[c] = script[c], sent'[c] = sent[c],
         inbox'[c] = inbox[c], asked'[c] = asked[c],
         Connected(c)' => Connected(c) /\ ReaderSees(c)
  PROVE  ClientOf(c)'
<1>1. Connected(c)' => Taken(c)' = Taken(c)
  BY DEF Taken, ReaderSees
<1>2. StreamOf(c)'
  <2> SUFFICES ASSUME Connected(c)'
               PROVE  /\ Taken(c)' \in Nat
                      /\ \A k \in DOMAIN inbox'[c] : inbox'[c][k] = script'[c][sent'[c] - Len(inbox'[c]) + k]
                      /\ Reads(c)' => \A k \in DOMAIN rd'.buf : rd'.buf[k] = script'[c][Taken(c)' + k]
    BY DEF StreamOf
  <2>1. /\ Taken(c) \in Nat
        /\ \A k \in DOMAIN inbox[c] : inbox[c][k] = script[c][sent[c] - Len(inbox[c]) + k]
        /\ Reads(c) => \A k \in DOMAIN rd.buf : rd.buf[k] = script[c][Taken(c) + k]
    BY DEF ClientOf, StreamOf
  <2>2. ASSUME Reads(c)' PROVE \A k \in DOMAIN rd'.buf : rd'.buf[k] = script'[c][Taken(c)' + k]
    <3>1. CASE Reads(c) /\ rd'.buf = rd.buf
      BY <1>1, <2>1, <3>1
    <3>2. CASE rd'.buf = <<>>
      BY <3>2
    <3> QED
      BY <2>2, <3>1, <3>2 DEF ReaderSees
  <2> QED
    BY <1>1, <2>1, <2>2
<1>3. FramedOf(c)' /\ BrowserOf(c)'
  BY <1>1, AskingKeeps DEF ReaderSees
<1> QED
  BY <1>2, <1>3 DEF ClientOf

\* A step of the reader that only turns its program counter, or begins or ends with nothing.
LEMMA ReaderTurns ==
  ASSUME owner' = owner, NEW c \in Clients,
         \/ rd'.fd = rd.fd /\ rd'.buf = rd.buf /\ rd'.long = rd.long
         \/ rd'.buf = <<>> /\ rd'.long = 0 /\ (rd.fd = 0 \/ (rd.buf = <<>> /\ rd.long = 0))
  PROVE  ReaderSees(c)
BY DEF ReaderSees, Ahead, Skips, Reads

LEMMA TaskedKeeps ==
  ASSUME Types, Tasked, Tasks' = Tasks, UNCHANGED <<asked, wr, owner, backlog, script>>,
         \A c \in Clients : GaveUp(c) => GaveUp(c)'
  PROVE  Tasked'
<1>1. BrowserHeld' /\ WriterOf'
  BY DEF Tasked, BrowserHeld, WriterOf
<1>2. ASSUME NEW x \in Tasks
      PROVE  /\ owner'[x.fd] = x.from \/ (~Connected(x.from)' /\ GaveUp(x.from)')
             /\ x.html => owner'[x.fd] = x.from /\ ~Framed(script'[x.from])
             /\ Browser(script'[x.from]) => x.html
  <2>1. x.from \in Clients
    BY TasksAre
  <2>2. Connected(x.from)' = Connected(x.from)
    BY DEF Connected
  <2> QED
    BY <2>1, <2>2 DEF Tasked, TasksOf
<1>3. TasksOf'
  BY <1>2 DEF TasksOf
<1> QED
  BY <1>1, <1>3 DEF Tasked

\* A step that touches neither clients nor tasks.
LEMMA QuietStep ==
  ASSUME Types, Addressed, Tasks' = Tasks, UNCHANGED clientVars,
         UNCHANGED <<inbox, got, asked, backlog, owner, wr>>, \A c \in Clients : ReaderSees(c)
  PROVE  Addressed'
<1>1. UNCHANGED <<st, script, sent>>
  BY DEF clientVars
<1>2. \A c \in Clients : Connected(c)' = Connected(c)
  BY DEF Connected
<1>3. Owners'
  BY <1>1, <1>2 DEF Addressed, Owners
<1>4. ASSUME NEW c \in Clients PROVE ClientOf(c)'
  BY <1>1, <1>2, ClientKeeps DEF Addressed
<1>5. \A c \in Clients : GaveUp(c) => GaveUp(c)'
  BY <1>1, GaveUpStays
<1>6. Tasked' /\ NotAstray'
  BY <1>1, <1>5, TaskedKeeps, AstrayKeeps DEF Addressed
<1> QED
  BY <1>3, <1>4, <1>6 DEF Addressed

LEMMA LineFrame == UNCHANGED <<writeq, qt, queryq>> => Line' = Line
BY DEF Line, Working

LEMMA QuietSteps ==
  ASSUME Types, Addressed,
         Select \/ Take \/ PushRead \/ \E t \in QueryThreads : QueryPop(t) \/ QueryPush(t)
  PROVE  Addressed'
<1>1. UNCHANGED clientVars /\ UNCHANGED <<inbox, got, asked, backlog, owner, wr>> /\ rd' = rd
  BY DEF Select, Take, PushRead, QueryPop, QueryPush
<1>2. Tasks' = Tasks
  <2>1. CASE Select \/ Take \/ PushRead
    BY <2>1, TasksFrame DEF Select, Take, PushRead
  <2>2. CASE \E t \in QueryThreads : QueryPop(t) \/ QueryPush(t)
    BY <2>2, TasksOfPop, TasksOfPush
  <2> QED
    BY <2>1, <2>2
<1>3. \A c \in Clients : ReaderSees(c)
  BY <1>1, ReaderTurns
<1> QED
  BY <1>1, <1>2, <1>3, QuietStep

LEMMA SettleTurns ==
  ASSUME Types, Settle
  PROVE  \/ rd'.fd = rd.fd /\ rd'.buf = rd.buf /\ rd'.long = rd.long
         \/ rd'.buf = <<>> /\ rd'.long = 0 /\ rd.buf = <<>> /\ rd.long = 0
<1>1. CASE rd.buf = <<>> /\ rd.long = 0
  BY <1>1 DEF Settle, RdIdle
<1>2. CASE ~(rd.buf = <<>> /\ rd.long = 0)
  <2>1. rd \in RdRecord /\ rd' = [rd EXCEPT !.pc = "wait"]
    BY <1>2 DEF Settle, Types, ThreadType
  <2> QED
    BY <2>1 DEF RdRecord
<1> QED
  BY <1>1, <1>2

LEMMA ReaderQuiet ==
  ASSUME Inv, Addressed, ReadPop \/ ReadNothing \/ Loop \/ WaitRest
  PROVE  Addressed'
<1>1. /\ UNCHANGED clientVars /\ UNCHANGED <<inbox, got, asked, backlog, owner, wr>>
      /\ UNCHANGED <<writeq, qt, queryq>>
  BY DEF ReadPop, ReadNothing, Loop, WaitRest
<1>2. \/ rd'.fd = rd.fd /\ rd'.buf = rd.buf /\ rd'.long = rd.long
      \/ rd'.buf = <<>> /\ rd'.long = 0 /\ (rd.fd = 0 \/ (rd.buf = <<>> /\ rd.long = 0))
  <2>0. rd \in RdRecord
    BY DEF Inv, Types, ThreadType
  <2>1. CASE ReadPop
    <3>1. rd.fd = 0
      BY <2>1 DEF ReadPop, Inv, Locals
    <3>2. rd'.buf = <<>> /\ rd'.long = 0
      BY <2>1 DEF ReadPop, RdIdle
    <3> QED
      BY <3>1, <3>2
  <2>2. CASE ReadNothing
    BY <2>2, SettleTurns DEF ReadNothing, Inv
  <2>3. CASE Loop
    <3>1. CASE rd.more
      BY <2>0, <2>3, <3>1 DEF Loop, RdRecord
    <3>2. CASE ~rd.more
      BY <2>3, <3>2, SettleTurns DEF Loop, Inv
    <3> QED
      BY <3>1, <3>2
  <2>4. CASE WaitRest
    BY <2>0, <2>4 DEF WaitRest, RdRecord
  <2> QED
    BY <2>1, <2>2, <2>3, <2>4
<1>3. \A c \in Clients : ReaderSees(c)
  BY <1>1, <1>2, ReaderTurns
<1>4. Tasks' = Tasks
  BY <1>1, TasksFrame
<1> QED
  BY <1>1, <1>3, <1>4, QuietStep DEF Inv

-----------------------------------------------------------------------------
(***************************************************************************)
(* What the reader finds in its buffer.                                    *)
(***************************************************************************)
LEMMA WithinSent ==
  ASSUME NEW a \in Nat, NEW b \in Nat, NEW m \in Nat, NEW n \in Nat, a <= n,
         NEW p \in Nat, p = a - b - m, NEW k \in 1 .. m
  PROVE  p + k \in 1 .. n
OBVIOUS

LEMMA ReadingClient ==
  ASSUME Inv, Addressed, rd.pc # "pop", NEW c, c = owner[rd.fd]
  PROVE  /\ c \in Clients /\ rd.fd \in FD /\ rd.fd # wr /\ Connected(c) /\ Reads(c)
         /\ Ahead(c) = Len(rd.buf) /\ Skips(c) = rd.long
         /\ \A d \in Clients : d # c => ~Reads(d)
         /\ \A fd \in FD : owner[fd] = c => fd = rd.fd
         /\ \A x \in Tasks : x.html => x.fd # rd.fd
         /\ Browser(script[c]) => asked[c] = 0
<1>1. /\ rd.fd \in FD /\ rd.fd # 0 /\ c \in Clients
      /\ \A p \in Place : p # "reader" => rd.fd \notin Held(p)
  BY ReadersOwn
<1>2. /\ Connected(c) /\ Reads(c) /\ Ahead(c) = Len(rd.buf) /\ Skips(c) = rd.long
      /\ \A d \in Clients : d # c => ~Reads(d)
  BY <1>1, ConnectedIs DEF Reads, Ahead, Skips
<1>3. rd.fd # wr
  BY <1>1, HeldIs DEF Place
<1>4. \A x \in Tasks : x.html => x.fd # rd.fd
  BY <1>1, TasksAre DEF Place, Inv
<1>5. \A fd \in FD : owner[fd] = c => fd = rd.fd
  BY <1>1, NetServerAssumption DEF Addressed, Owners
<1>6. Browser(script[c]) => asked[c] = 0
  BY <1>1, <1>3, <1>4 DEF Addressed, Tasked, BrowserHeld
<1> QED
  BY <1>1, <1>2, <1>3, <1>4, <1>5, <1>6

\* The units sent that are not taken lie in the buffer and the socket.
LEMMA ReadingStream ==
  ASSUME Inv, Addressed, rd.pc # "pop", NEW c, c = owner[rd.fd]
  PROVE  /\ rd.buf \in Seq(Unit) /\ Len(rd.buf) \in Nat /\ Len(rd.buf) <= BUF_SIZE /\ rd.long \in Nat
         /\ inbox[c] \in Seq(Unit) /\ Len(inbox[c]) \in Nat /\ sent[c] \in Nat /\ sent[c] <= Len(script[c])
         /\ script[c] \in Seq(Unit) /\ Len(script[c]) \in Nat
         /\ Taken(c) \in Nat /\ Taken(c) = sent[c] - Len(inbox[c]) - Len(rd.buf)
         /\ \A k \in DOMAIN rd.buf : Taken(c) + k \in DOMAIN script[c] /\ rd.buf[k] = script[c][Taken(c) + k]
         /\ rd.buf # <<>> => /\ Taken(c) + 1 \in DOMAIN script[c]
                             /\ Head(rd.buf) = script[c][Taken(c) + 1] /\ Head(rd.buf) \in Unit
<1>1. c \in Clients /\ Connected(c) /\ Reads(c) /\ Ahead(c) = Len(rd.buf)
  BY ReadingClient
<1>2. /\ rd.buf \in Seq(Unit) /\ Len(rd.buf) \in Nat /\ Len(rd.buf) <= BUF_SIZE /\ rd.long \in Nat
      /\ inbox[c] \in Seq(Unit) /\ Len(inbox[c]) \in Nat /\ sent[c] \in Nat /\ sent[c] <= Len(script[c])
  <2>1. rd.buf \in Seq(Unit) /\ Len(rd.buf) <= BUF_SIZE /\ rd.long \in Nat
    BY DEF Inv, Types, ThreadType, RdRecord
  <2>2. inbox[c] \in Seq(Unit) /\ sent[c] \in Nat /\ sent[c] <= Len(script[c])
    BY <1>1 DEF Inv, Types, ClientType, PipeType
  <2> QED
    BY <2>1, <2>2
<1>3. script[c] \in Seq(Unit) /\ Len(script[c]) \in Nat
  BY <1>1, ScriptType DEF Inv
<1>4. /\ Taken(c) \in Nat /\ Taken(c) = sent[c] - Len(inbox[c]) - Len(rd.buf)
      /\ \A k \in DOMAIN rd.buf : rd.buf[k] = script[c][Taken(c) + k]
  BY <1>1 DEF Addressed, ClientOf, StreamOf, Taken
<1>5. ASSUME NEW k \in DOMAIN rd.buf PROVE Taken(c) + k \in DOMAIN script[c]
  <2>1. k \in 1 .. Len(rd.buf) /\ DOMAIN script[c] = 1 .. Len(script[c])
    BY <1>2, <1>3
  <2>2. PICK p \in Nat : p = Taken(c)
    BY <1>4
  <2>3. p = sent[c] - Len(inbox[c]) - Len(rd.buf) /\ k \in Nat /\ k >= 1
    BY <1>4, <2>1, <2>2
  <2>4. p + k \in 1 .. Len(script[c])
    BY <1>2, <1>3, <2>1, <2>3, WithinSent
  <2> QED
    BY <2>1, <2>2, <2>4
<1>6. rd.buf # <<>> => 1 \in DOMAIN rd.buf /\ Head(rd.buf) = rd.buf[1] /\ rd.buf[1] \in Unit
  BY <1>2
<1> QED
  BY <1>2, <1>3, <1>4, <1>5, <1>6

\* A client's frames begin with a header, and a browser is at its GET.
LEMMA ReadingHead ==
  ASSUME Inv, Addressed, rd.pc # "pop", NEW c, c = owner[rd.fd]
  PROVE  /\ Framed(script[c]) /\ rd.long = 0 /\ rd.buf # <<>> => Head(rd.buf) >= 0
         /\ Browser(script[c]) => rd.long = 0 /\ (rd.buf # <<>> => Head(rd.buf) = Get)
<1>1. c \in Clients /\ Connected(c) /\ Skips(c) = rd.long /\ (Browser(script[c]) => asked[c] = 0) /\ ClientOf(c)
  BY ReadingClient DEF Addressed
<1>2. Taken(c) \in Nat /\ rd.long \in Nat
  BY ReadingStream
<1>3. ASSUME rd.buf # <<>> PROVE Taken(c) + 1 \in DOMAIN script[c] /\ Head(rd.buf) = script[c][Taken(c) + 1]
  BY <1>3, ReadingStream
<1>4. ASSUME Framed(script[c]), rd.long = 0, rd.buf # <<>> PROVE Head(rd.buf) >= 0
  <2>1. NextHead(c) = Taken(c) + 1
    BY <1>1, <1>2, <1>4 DEF NextHead
  <2> QED
    BY <1>1, <1>3, <1>4, <2>1 DEF ClientOf, FramedOf
<1>5. ASSUME Browser(script[c]) PROVE rd.long = 0 /\ (rd.buf # <<>> => Head(rd.buf) = Get)
  <2>1. Taken(c) = 0 /\ rd.long = 0
    BY <1>1, <1>5 DEF ClientOf, BrowserOf
  <2>2. script[c][1] = Get
    BY <1>5 DEF Browser
  <2> QED
    BY <1>3, <2>1, <2>2
<1> QED
  BY <1>4, <1>5

\* What is taken when fewer units are left.
LEMMA FewerLeft ==
  ASSUME NEW s \in Nat, NEW i \in Nat, NEW r \in Nat, NEW n \in 0 .. r, NEW p \in Nat, p = s - i - r
  PROVE  s - i - (r - n) = p + n /\ p + n \in Nat
OBVIOUS

\* The reader has dealt with the first units of its buffer.
LEMMA StreamDrops ==
  ASSUME Inv, Addressed, rd.pc # "pop", NEW c, c = owner[rd.fd], NEW n \in 0 .. Len(rd.buf),
         rd'.fd = rd.fd, rd'.buf = Drop(rd.buf, n),
         UNCHANGED <<script, sent, inbox, owner, backlog>>
  PROVE  Taken(c)' = Taken(c) + n /\ StreamOf(c)' /\ Reads(c)' /\ Connected(c)' /\ Skips(c)' = rd'.long
<1>1. c \in Clients /\ Connected(c) /\ Reads(c)
  BY ReadingClient
<1>2. /\ rd.buf \in Seq(Unit) /\ Len(rd.buf) \in Nat /\ Len(inbox[c]) \in Nat /\ sent[c] \in Nat
      /\ Taken(c) \in Nat /\ Taken(c) = sent[c] - Len(inbox[c]) - Len(rd.buf)
      /\ \A k \in DOMAIN rd.buf : rd.buf[k] = script[c][Taken(c) + k]
  BY ReadingStream
<1>3. Connected(c)' /\ Reads(c)'
  BY <1>1 DEF Connected, Reads
<1>4. /\ Len(rd'.buf) = Len(rd.buf) - n
      /\ \A k \in DOMAIN rd'.buf : rd'.buf[k] = rd.buf[n + k] /\ n + k \in DOMAIN rd.buf /\ k \in Nat
  BY <1>2, DropParts
<1>5. Ahead(c)' = Len(rd.buf) - n /\ Skips(c)' = rd'.long
  BY <1>3, <1>4 DEF Ahead, Skips
<1>6. Taken(c)' = sent[c] - Len(inbox[c]) - (Len(rd.buf) - n)
  BY <1>5 DEF Taken
<1>7. PICK p \in Nat : p = Taken(c)
  BY <1>2
<1>8. Taken(c)' = p + n /\ p + n \in Nat
  <2>1. PICK s \in Nat : s = sent[c]
    BY <1>2
  <2>2. PICK i \in Nat : i = Len(inbox[c])
    BY <1>2
  <2>3. PICK r \in Nat : r = Len(rd.buf)
    BY <1>2
  <2>4. n \in 0 .. r
    BY <2>3
  <2>5. p = s - i - r
    BY <1>2, <1>7, <2>1, <2>2, <2>3, Zenon
  <2>6. s - i - (r - n) = p + n /\ p + n \in Nat
    BY <2>4, <2>5, FewerLeft
  <2>7. Taken(c)' = s - i - (r - n)
    BY <1>6, <2>1, <2>2, <2>3, Zenon
  <2> QED
    BY <2>6, <2>7
<1>9. ASSUME NEW k \in DOMAIN rd'.buf PROVE rd'.buf[k] = script[c][(p + n) + k]
  <2>1. rd'.buf[k] = rd.buf[n + k] /\ n + k \in DOMAIN rd.buf /\ k \in Nat
    BY <1>4
  <2>2. rd.buf[n + k] = script[c][p + (n + k)]
    BY <1>2, <1>7, <2>1
  <2>3. p + (n + k) = (p + n) + k
    BY <2>1
  <2> QED
    BY <2>1, <2>2, <2>3
<1>10. \A k \in DOMAIN inbox[c] : inbox[c][k] = script[c][sent[c] - Len(inbox[c]) + k]
  BY <1>1 DEF Addressed, ClientOf, StreamOf
<1>11. StreamOf(c)'
  BY <1>8, <1>9, <1>10 DEF StreamOf
<1> QED
  BY <1>3, <1>5, <1>7, <1>8, <1>11

-----------------------------------------------------------------------------
(***************************************************************************)
(* The reader.                                                             *)
(***************************************************************************)
LEMMA OthersSee ==
  ASSUME Inv, Addressed, rd.pc # "pop", rd'.fd = rd.fd \/ rd'.fd = 0, owner' = owner,
         NEW d \in Clients, d # owner[rd.fd]
  PROVE  ReaderSees(d)
<1>1. ~Reads(d)
  BY ReadingClient
<1>2. ~Reads(d)'
  BY <1>1 DEF Reads
<1> QED
  BY <1>1, <1>2 DEF ReaderSees, Ahead, Skips

LEMMA OwnersKeep ==
  ASSUME Addressed, UNCHANGED <<owner, backlog, st, script>>,
         \A c \in Clients : ~(\E fd \in FD : owner[fd] = c) => asked'[c] = asked[c],
         \A c \in Clients : inbox'[c] = inbox[c] \/ st[c] # "new",
         backlog \in Seq(Clients)
  PROVE  Owners'
<1>0. Owners
  BY DEF Addressed
<1>1. \A c \in Clients : Connected(c)' = Connected(c)
  BY DEF Connected
<1>2. ASSUME NEW i \in DOMAIN backlog PROVE asked'[backlog[i]] = 0
  <2>1. backlog[i] \in Clients /\ asked[backlog[i]] = 0 /\ \A fd \in FD : backlog[i] # owner[fd]
    BY <1>0 DEF Owners
  <2> QED
    BY <2>1
<1>3. ASSUME NEW c \in Clients, st[c] = "new" PROVE asked'[c] = 0 /\ inbox'[c] = <<>>
  <2>1. asked[c] = 0 /\ inbox[c] = <<>> /\ ~Connected(c)
    BY <1>0, <1>3 DEF Owners
  <2>2. asked'[c] = asked[c]
    BY <2>1, ConnectedIs
  <2> QED
    BY <1>3, <2>1, <2>2
<1> QED
  BY <1>0, <1>1, <1>2, <1>3 DEF Owners

LEMMA GivenUpSame ==
  ASSUME UNCHANGED <<st, script>>
  PROVE  \A c \in Clients : GaveUp(c) => GaveUp(c)'
BY GaveUpStays

LEMMA ReadDataAddressed == ASSUME Inv, Addressed, ReadData PROVE Addressed'
<1>0. rd.pc # "pop"
  BY DEF ReadData
<1>1. PICK c \in Clients : c = owner[rd.fd] /\ Connected(c) /\ Reads(c) /\ rd.fd \in FD /\ Skips(c) = rd.long
  BY <1>0, ReadingClient
<1> DEFINE ret == IF Len(inbox[c]) < Remain THEN Len(inbox[c]) ELSE Remain
<1>2. /\ Remain > 0 /\ inbox' = [inbox EXCEPT ![c] = Drop(@, ret)]
      /\ rd' = [rd EXCEPT !.pc = "parse", !.buf = @ \o SubSeq(inbox[c], 1, ret),
                          !.more = (ret = Remain), !.fresh = (rd.buf = <<>>)]
      /\ UNCHANGED clientVars /\ UNCHANGED <<got, asked, backlog, owner, wr>> /\ UNCHANGED <<writeq, qt, queryq>>
  BY <1>1 DEF ReadData
<1>3. UNCHANGED <<st, script, sent>> /\ Tasks' = Tasks
  BY <1>2, TasksFrame DEF clientVars
<1>4. /\ rd.buf \in Seq(Unit) /\ Len(rd.buf) \in Nat /\ inbox[c] \in Seq(Unit) /\ Len(inbox[c]) \in Nat
      /\ sent[c] \in Nat /\ Taken(c) \in Nat /\ Taken(c) = sent[c] - Len(inbox[c]) - Len(rd.buf)
      /\ \A k \in DOMAIN rd.buf : rd.buf[k] = script[c][Taken(c) + k]
  BY <1>0, <1>1, ReadingStream
<1>5. PICK m \in 0 .. Len(inbox[c]) : m = ret
  <2>1. Remain \in Nat
    BY <1>2, <1>4, NetServerAssumption DEF Remain
  <2> QED
    BY <1>4, <2>1
<1> HIDE DEF ret
<1>6. rd'.fd = rd.fd /\ rd'.long = rd.long /\ rd'.buf = rd.buf \o SubSeq(inbox[c], 1, m)
  BY <1>2, <1>5 DEF Inv, Types, ThreadType, RdRecord
<1>7. inbox'[c] = Drop(inbox[c], m) /\ \A d \in Clients : d # c => inbox'[d] = inbox[d]
  BY <1>2, <1>5 DEF Inv, Types, PipeType
<1>8. /\ Len(inbox'[c]) = Len(inbox[c]) - m
      /\ \A k \in DOMAIN inbox'[c] : inbox'[c][k] = inbox[c][m + k] /\ m + k \in DOMAIN inbox[c] /\ k \in Nat
  <2>1. PICK u \in Seq(Unit) : u = inbox[c]
    BY <1>4
  <2>2. m \in 0 .. Len(u)
    BY <2>1
  <2>3. /\ Len(Drop(u, m)) = Len(u) - m
        /\ \A k \in DOMAIN Drop(u, m) : Drop(u, m)[k] = u[m + k] /\ m + k \in DOMAIN u /\ k \in Nat
    BY <2>2, DropParts
  <2> QED
    BY <1>7, <2>1, <2>3
<1>9. /\ Len(rd'.buf) = Len(rd.buf) + m
      /\ \A k \in DOMAIN rd'.buf : \/ k \in DOMAIN rd.buf /\ rd'.buf[k] = rd.buf[k]
                                   \/ k \in Nat /\ k - Len(rd.buf) \in DOMAIN inbox[c] /\ rd'.buf[k] = inbox[c][k - Len(rd.buf)]
  <2>1. PICK u \in Seq(Unit), s \in Seq(Unit) : u = inbox[c] /\ s = rd.buf
    BY <1>4
  <2>2. m \in 0 .. Len(u)
    BY <2>1
  <2>3. /\ Len(s \o SubSeq(u, 1, m)) = Len(s) + m
        /\ \A k \in DOMAIN (s \o SubSeq(u, 1, m)) :
              \/ k \in DOMAIN s /\ (s \o SubSeq(u, 1, m))[k] = s[k]
              \/ k \in Nat /\ k - Len(s) \in DOMAIN u /\ (s \o SubSeq(u, 1, m))[k] = u[k - Len(s)]
    BY <2>2, ConcatPrefix
  <2> QED
    BY <1>6, <2>1, <2>3
<1>10. Reads(c)' /\ Connected(c)' /\ Skips(c)' = Skips(c)
  BY <1>1, <1>2, <1>6 DEF Reads, Connected, Skips
<1>11. PICK p \in Nat : p = Taken(c)
  BY <1>4
<1>12. Taken(c)' = p
  <2>1. Ahead(c)' = Len(rd.buf) + m
    BY <1>9, <1>10 DEF Ahead
  <2>2. Taken(c)' = sent[c] - (Len(inbox[c]) - m) - (Len(rd.buf) + m)
    BY <1>3, <1>8, <2>1 DEF Taken
  <2>3. p = sent[c] - Len(inbox[c]) - Len(rd.buf)
    BY <1>4, <1>11
  <2> QED
    BY <1>4, <2>2, <2>3
<1>13. \A k \in DOMAIN inbox[c] : inbox[c][k] = script[c][sent[c] - Len(inbox[c]) + k]
  BY <1>1 DEF Addressed, ClientOf, StreamOf
<1>14. ASSUME NEW k \in DOMAIN inbox'[c] PROVE inbox'[c][k] = script[c][sent[c] - Len(inbox'[c]) + k]
  <2>1. inbox'[c][k] = inbox[c][m + k] /\ m + k \in DOMAIN inbox[c] /\ k \in Nat
    BY <1>8
  <2>2. inbox[c][m + k] = script[c][sent[c] - Len(inbox[c]) + (m + k)]
    BY <1>13, <2>1
  <2>3. sent[c] - Len(inbox[c]) + (m + k) = sent[c] - Len(inbox'[c]) + k
    BY <1>4, <1>8, <2>1
  <2> QED
    BY <2>1, <2>2, <2>3
<1>15. ASSUME NEW k \in DOMAIN rd'.buf PROVE rd'.buf[k] = script[c][p + k]
  <2>1. CASE k \in DOMAIN rd.buf /\ rd'.buf[k] = rd.buf[k]
    BY <1>4, <1>11, <2>1
  <2>2. CASE k \in Nat /\ k - Len(rd.buf) \in DOMAIN inbox[c] /\ rd'.buf[k] = inbox[c][k - Len(rd.buf)]
    <3>1. rd'.buf[k] = script[c][sent[c] - Len(inbox[c]) + (k - Len(rd.buf))]
      BY <1>13, <2>2
    <3>2. sent[c] - Len(inbox[c]) + (k - Len(rd.buf)) = (sent[c] - Len(inbox[c]) - Len(rd.buf)) + k
      <4>1. sent[c] \in Int /\ Len(inbox[c]) \in Int /\ Len(rd.buf) \in Int /\ k \in Int
        BY <1>4, <2>2
      <4> QED
        BY <4>1
    <3> QED
      BY <1>4, <1>11, <3>1, <3>2
  <2> QED
    BY <1>9, <2>1, <2>2
<1>16. StreamOf(c)'
  BY <1>3, <1>12, <1>14, <1>15 DEF StreamOf
<1>17. FramedOf(c)' /\ BrowserOf(c)'
  BY <1>1, <1>2, <1>3, <1>10, <1>11, <1>12, AskingKeeps DEF Addressed
<1>18. ASSUME NEW d \in Clients PROVE ClientOf(d)'
  <2>1. CASE d = c
    BY <1>16, <1>17, <2>1 DEF ClientOf
  <2>2. CASE d # c
    <3>1. ReaderSees(d)
      BY <1>0, <1>1, <1>2, <1>6, <2>2, OthersSee
    <3>2. Connected(d)' = Connected(d)
      BY <1>2 DEF Connected
    <3> QED
      BY <1>2, <1>3, <1>7, <2>2, <3>1, <3>2, ClientKeeps DEF Addressed
  <2> QED
    BY <2>1, <2>2
<1>19. Owners'
  <2>1. st[c] # "new"
    BY <1>1 DEF Addressed, Owners
  <2>2. backlog \in Seq(Clients)
    BY DEF Inv, Types, PipeType
  <2> QED
    BY <1>2, <1>3, <1>7, <2>1, <2>2, OwnersKeep
<1>20. Tasked' /\ NotAstray'
  BY <1>2, <1>3, GivenUpSame, TaskedKeeps, AstrayKeeps DEF Addressed, Inv
<1> QED
  BY <1>18, <1>19, <1>20 DEF Addressed

\* The reader drops units of a client that has no GET.
LEMMA ReaderDrops ==
  ASSUME Inv, Addressed, rd.pc # "pop", NEW c, c = owner[rd.fd], NEW n \in 0 .. Len(rd.buf),
         FramedOf(c)', ~Browser(script[c]),
         rd'.fd = rd.fd, rd'.buf = Drop(rd.buf, n),
         UNCHANGED clientVars, UNCHANGED <<inbox, got, asked, backlog, owner, wr>>, UNCHANGED <<writeq, qt, queryq>>
  PROVE  Addressed'
<1>1. UNCHANGED <<st, script, sent>> /\ Tasks' = Tasks
  BY TasksFrame DEF clientVars
<1>2. c \in Clients /\ StreamOf(c)'
  BY <1>1, ReadingClient, StreamDrops
<1>3. BrowserOf(c)'
  BY <1>1 DEF BrowserOf
<1>4. ASSUME NEW d \in Clients PROVE ClientOf(d)'
  <2>1. CASE d = c
    BY <1>2, <1>3, <2>1 DEF ClientOf
  <2>2. CASE d # c
    <3>1. ReaderSees(d)
      BY <2>2, OthersSee
    <3>2. Connected(d)' = Connected(d)
      BY DEF Connected
    <3> QED
      BY <1>1, <3>1, <3>2, ClientKeeps DEF Addressed
  <2> QED
    BY <2>1, <2>2
<1>5. Owners'
  BY <1>1, OwnersKeep DEF Inv, Types, PipeType
<1>6. Tasked' /\ NotAstray'
  BY <1>1, GivenUpSame, TaskedKeeps, AstrayKeeps DEF Addressed, Inv
<1> QED
  BY <1>4, <1>5, <1>6 DEF Addressed

LEMMA DropAll == ASSUME NEW S, NEW s \in Seq(S) PROVE Drop(s, Len(s)) = <<>>
<1>1. Len(s) \in 0 .. Len(s)
  OBVIOUS
<1>2. Drop(s, Len(s)) \in Seq(S) /\ Len(Drop(s, Len(s))) = Len(s) - Len(s)
  BY <1>1, DropType
<1> QED
  BY <1>2, EmptySeq

\* What is skipped brings the reader no nearer to the next header, and no further.
LEMMA SkipLongAddressed == ASSUME Inv, Addressed, SkipLong PROVE Addressed'
<1>1. /\ rd.pc # "pop" /\ rd.long > 0 /\ rd.long \in Nat /\ rd.buf \in Seq(Unit) /\ Len(rd.buf) \in Nat
      /\ rd \in RdRecord
      /\ UNCHANGED clientVars /\ UNCHANGED <<inbox, got, asked, backlog, owner, wr>> /\ UNCHANGED <<writeq, qt, queryq>>
  BY DEF SkipLong, Inv, Types, ThreadType, RdRecord
<1>2. UNCHANGED <<st, script, sent>>
  BY <1>1 DEF clientVars
<1>3. PICK c \in Clients : c = owner[rd.fd] /\ Connected(c) /\ Skips(c) = rd.long /\ Taken(c) \in Nat /\ ~Browser(script[c])
  BY <1>1, ReadingClient, ReadingStream, ReadingHead
<1>4. PICK n \in 0 .. Len(rd.buf) : rd'.fd = rd.fd /\ rd'.buf = Drop(rd.buf, n) /\ rd'.long = rd.long - n
  <2>1. CASE rd.long > Len(rd.buf)
    <3>1. rd'.fd = rd.fd /\ rd'.buf = <<>> /\ rd'.long = rd.long - Len(rd.buf)
      BY <1>1, <2>1 DEF SkipLong, RdRecord
    <3>2. Len(rd.buf) \in 0 .. Len(rd.buf)
      BY <1>1
    <3> QED
      BY <1>1, <3>1, <3>2, DropAll
  <2>2. CASE ~(rd.long > Len(rd.buf))
    <3>1. rd'.fd = rd.fd /\ rd'.buf = Drop(rd.buf, rd.long) /\ rd'.long = 0
      BY <1>1, <2>2 DEF SkipLong, RdRecord
    <3>2. rd.long \in 0 .. Len(rd.buf) /\ rd.long - rd.long = 0
      BY <1>1, <2>2
    <3> QED
      BY <3>1, <3>2
  <2> QED
    BY <2>1, <2>2
<1>5. Taken(c)' = Taken(c) + n /\ Skips(c)' = rd.long - n
  BY <1>1, <1>2, <1>3, <1>4, StreamDrops
<1>6. NextHead(c)' = NextHead(c)
  <2>1. NextHead(c)' = (Taken(c) + n) + (rd.long - n) + 1
    BY <1>5 DEF NextHead
  <2>2. NextHead(c) = Taken(c) + rd.long + 1
    BY <1>3 DEF NextHead
  <2> QED
    BY <1>1, <1>3, <2>1, <2>2
<1>7. FramedOf(c)'
  BY <1>2, <1>3, <1>6 DEF FramedOf, Addressed, ClientOf
<1> QED
  BY <1>1, <1>3, <1>4, <1>7, ReaderDrops

LEMMA EndOfBufferAddressed == ASSUME Inv, Addressed, EndOfBuffer PROVE Addressed'
<1> DEFINE n == IF rd.buf = <<>> THEN 0 ELSE Head(rd.buf)
<1>1. /\ rd.pc # "pop" /\ rd.buf \in Seq(Unit) /\ Len(rd.buf) \in Nat /\ rd \in RdRecord /\ rd.long = 0
      /\ rd' = IF n > BUF_SIZE
               THEN [rd EXCEPT !.pc = "loop", !.buf = <<>>, !.long = n - (Len(rd.buf) - 1)]
               ELSE [rd EXCEPT !.pc = "loop"]
      /\ UNCHANGED clientVars /\ UNCHANGED <<inbox, got, asked, backlog, owner, wr>> /\ UNCHANGED <<writeq, qt, queryq>>
  BY DEF EndOfBuffer, Inv, Types, ThreadType, RdRecord
<1>2. CASE n > BUF_SIZE
  <2>0. UNCHANGED <<st, script, sent>>
    BY <1>1 DEF clientVars
  <2>1. rd'.fd = rd.fd /\ rd'.buf = <<>> /\ rd'.long = n - (Len(rd.buf) - 1)
    BY <1>1, <1>2 DEF RdRecord
  <2>2. PICK h \in Nat : rd.buf # <<>> /\ n = h /\ Head(rd.buf) = h
    <3>1. rd.buf # <<>>
      BY <1>2, NetServerAssumption
    <3>2. Head(rd.buf) \in Unit
      BY <1>1, <3>1, HeadTailProperties
    <3>3. Head(rd.buf) \in Int /\ Head(rd.buf) > BUF_SIZE /\ BUF_SIZE \in Nat
      BY <1>2, <3>1, <3>2, UnitIs, NetServerAssumption
    <3> QED
      BY <3>1, <3>3
  <2> HIDE DEF n
  <2>3. PICK c \in Clients : c = owner[rd.fd] /\ ~Browser(script[c])
    BY <1>1, <2>2, ReadingClient, ReadingHead DEF Get
  <2>4. /\ script[c] \in Seq(Unit) /\ Taken(c) \in Nat /\ Taken(c) + 1 \in DOMAIN script[c] /\ script[c][Taken(c) + 1] = h
    BY <1>1, <2>2, <2>3, ReadingStream
  <2>5. Len(rd.buf) \in 0 .. Len(rd.buf) /\ rd'.buf = Drop(rd.buf, Len(rd.buf))
    BY <1>1, <2>1, DropAll
  <2>6. Taken(c)' = Taken(c) + Len(rd.buf) /\ Skips(c)' = h - (Len(rd.buf) - 1)
    BY <1>1, <2>0, <2>1, <2>2, <2>3, <2>5, StreamDrops
  <2>7. PICK p \in Nat : p = Taken(c)
    BY <2>4
  <2>8. NextHead(c)' = p + h + 1 + 1
    <3>1. NextHead(c)' = (p + Len(rd.buf)) + (h - (Len(rd.buf) - 1)) + 1
      BY <2>6, <2>7 DEF NextHead
    <3> QED
      BY <1>1, <3>1
  <2>9. FramedOf(c)'
    <3> SUFFICES ASSUME Framed(script[c]), p + h + 1 + 1 \in DOMAIN script[c] PROVE script[c][p + h + 1 + 1] >= 0
      BY <2>0, <2>8 DEF FramedOf
    <3> QED
      BY <2>4, <2>7, NextFrame
  <2> QED
    BY <1>1, <2>1, <2>3, <2>5, <2>9, ReaderDrops
<1>3. CASE ~(n > BUF_SIZE)
  <2>1. rd'.fd = rd.fd /\ rd'.buf = rd.buf /\ rd'.long = rd.long
    BY <1>1, <1>3 DEF RdRecord
  <2>2. \A c \in Clients : ReaderSees(c)
    BY <1>1, <2>1, ReaderTurns
  <2>3. Tasks' = Tasks
    BY <1>1, TasksFrame
  <2> QED
    BY <1>1, <2>2, <2>3, QuietStep DEF Inv
<1> QED
  BY <1>2, <1>3

-----------------------------------------------------------------------------
(***************************************************************************)
(* Requests are passed on.                                                 *)
(***************************************************************************)
LEMMA TaskComes ==
  ASSUME Inv, Addressed, NEW c \in Clients, NEW x \in Task, owner[x.fd] = c, x.from = c,
         x.html => ~Framed(script[c]), Browser(script[c]) => x.html,
         asked' = [asked EXCEPT ![c] = @ + 1], Tasks' = Tasks \cup {x},
         UNCHANGED <<wr, owner, backlog, st, script>>
  PROVE  Tasked'
<1>1. asked \in [Clients -> Nat] /\ x.fd \in FD /\ Types
  BY DEF Inv, Types, PipeType, Task
<1>2. BrowserHeld'
  <2> SUFFICES ASSUME NEW d \in Clients, Browser(script[d]), asked'[d] # 0, NEW fd \in FD, owner[fd] = d, fd # wr
               PROVE  \E y \in Tasks' : y.html /\ y.fd = fd
    BY DEF BrowserHeld
  <2>1. CASE d = c
    <3>1. fd = x.fd
      BY <1>1, <2>1, NetServerAssumption DEF Addressed, Owners
    <3> QED
      BY <2>1, <3>1
  <2>2. CASE d # c
    <3>1. asked[d] # 0
      BY <1>1, <2>2
    <3>2. PICK y \in Tasks : y.html /\ y.fd = fd
      BY <3>1 DEF Addressed, Tasked, BrowserHeld
    <3> QED
      BY <3>2
  <2> QED
    BY <2>1, <2>2
<1>3. ASSUME NEW y \in Tasks'
      PROVE  /\ owner[y.fd] = y.from \/ (~Connected(y.from)' /\ GaveUp(y.from)')
             /\ y.html => owner[y.fd] = y.from /\ ~Framed(script[y.from])
             /\ Browser(script[y.from]) => y.html
  <2>1. CASE y = x
    BY <2>1
  <2>2. CASE y \in Tasks
    <3>1. y.from \in Clients
      BY <1>1, <2>2, TasksAre
    <3>2. Connected(y.from)' = Connected(y.from)
      BY DEF Connected
    <3> QED
      BY <2>2, <3>1, <3>2, GivenUpSame DEF Addressed, Tasked, TasksOf
  <2> QED
    BY <2>1, <2>2
<1>4. TasksOf'
  BY <1>3 DEF TasksOf
<1>5. WriterOf'
  BY DEF Addressed, Tasked, WriterOf
<1> QED
  BY <1>2, <1>4, <1>5 DEF Tasked

\* What a request that is passed on is.
LEMMA EnqueueTask ==
  ASSUME Inv, rd.pc # "pop", NEW html \in BOOLEAN, Enqueue(rd.fd, html), UNCHANGED <<writeq, qt>>
  PROVE  \E x \in Task : /\ x.fd = rd.fd /\ x.html = html /\ x.from = owner[rd.fd] /\ x.no = asked[x.from] + 1
                         /\ queryq' = Append(queryq, x) /\ Tasks' = Tasks \cup {x} /\ Line' = Append(Line, x)
                         /\ asked' = [asked EXCEPT ![x.from] = @ + 1] /\ asked \in [Clients -> Nat]
<1>1. rd.fd \in FD /\ owner[rd.fd] \in Clients
  BY ReadersOwn
<1>2. asked \in [Clients -> Nat] /\ Types
  BY DEF Inv, Types, PipeType
<1>3. PICK x \in Task : x = [fd |-> rd.fd, html |-> html, from |-> owner[rd.fd], no |-> asked[owner[rd.fd]] + 1]
  <2>1. asked[owner[rd.fd]] + 1 \in Nat
    BY <1>1, <1>2
  <2>2. [fd |-> rd.fd, html |-> html, from |-> owner[rd.fd], no |-> asked[owner[rd.fd]] + 1] \in Task
    BY <1>1, <2>1 DEF Task
  <2> QED
    BY <2>2, Zenon
<1>4. /\ x.fd = rd.fd /\ x.html = html /\ x.from = owner[rd.fd] /\ x.no = asked[x.from] + 1
      /\ queryq' = Append(queryq, x) /\ asked' = [asked EXCEPT ![x.from] = @ + 1]
  BY <1>3 DEF Enqueue
<1>5. Tasks' = Tasks \cup {x} /\ Line' = Append(Line, x)
  BY <1>2, <1>4, TasksOfEnqueue, LineOfEnqueue
<1> QED
  BY <1>2, <1>4, <1>5

\* The clients the reader does not read, when it passes a request on.
LEMMA OthersKeep ==
  ASSUME Inv, Addressed, rd.pc # "pop", rd'.fd = rd.fd \/ rd'.fd = 0, NEW c, c = owner[rd.fd],
         asked' = [asked EXCEPT ![c] = @ + 1], UNCHANGED clientVars, UNCHANGED <<inbox, owner, backlog>>
  PROVE  Owners' /\ \A d \in Clients : d # c => ClientOf(d)'
<1>1. UNCHANGED <<st, script, sent>>
  BY DEF clientVars
<1>2. c \in Clients /\ \E fd \in FD : owner[fd] = c
  BY ReadingClient
<1>3. asked \in [Clients -> Nat] /\ backlog \in Seq(Clients)
  BY DEF Inv, Types, PipeType
<1>4. ASSUME NEW d \in Clients, d # c PROVE ClientOf(d)'
  <2>1. ReaderSees(d)
    BY <1>4, OthersSee
  <2>2. Connected(d)' = Connected(d)
    BY DEF Connected
  <2>3. asked'[d] = asked[d]
    BY <1>3, <1>4
  <2> QED
    BY <1>1, <2>1, <2>2, <2>3, ClientKeeps DEF Addressed
<1>5. Owners'
  <2>1. \A d \in Clients : ~(\E fd \in FD : owner[fd] = d) => asked'[d] = asked[d]
    BY <1>2, <1>3
  <2> QED
    BY <1>1, <1>3, <2>1, OwnersKeep
<1> QED
  BY <1>4, <1>5

LEMMA PushFrameAddressed == ASSUME Inv, TRUE \notin FlagValues, Addressed, PushFrame PROVE Addressed'
<1>1. /\ rd.pc # "pop" /\ rd.buf # <<>> /\ Whole(Head(rd.buf)) /\ rd' = [rd EXCEPT !.buf = Drop(@, Head(rd.buf) + 1)]
      /\ rd.long = 0
      /\ UNCHANGED clientVars /\ UNCHANGED <<inbox, got, backlog, owner>> /\ UNCHANGED <<writeq, qt, wr>>
  BY DEF PushFrame
<1>2. Enqueue(rd.fd, FALSE)
  BY NetServerAssumption DEF PushFrame
<1>3. UNCHANGED <<st, script, sent>>
  BY <1>1 DEF clientVars
<1>4. PICK c \in Clients : c = owner[rd.fd]
  BY <1>1, ReadingClient
<1>5. PICK x \in Task : /\ x.fd = rd.fd /\ ~x.html /\ x.from = c /\ Tasks' = Tasks \cup {x}
                        /\ asked' = [asked EXCEPT ![c] = @ + 1] /\ asked \in [Clients -> Nat]
  BY <1>1, <1>2, <1>4, EnqueueTask
<1>6. /\ rd.buf \in Seq(Unit) /\ Len(rd.buf) \in Nat /\ script[c] \in Seq(Unit)
      /\ Taken(c) \in Nat /\ Taken(c) + 1 \in DOMAIN script[c] /\ Head(rd.buf) = script[c][Taken(c) + 1]
      /\ Head(rd.buf) \in Unit
  BY <1>1, <1>4, ReadingStream
<1>7. PICK n \in Nat : n = Head(rd.buf) /\ n + 1 \in 0 .. Len(rd.buf)
  BY <1>1, <1>6, UnitIs DEF Whole
<1>8. ~Browser(script[c])
  BY <1>1, <1>4, <1>7, ReadingHead DEF Get
<1>9. rd'.fd = rd.fd /\ rd'.long = 0 /\ rd'.buf = Drop(rd.buf, n + 1)
  BY <1>1, <1>7 DEF Inv, Types, ThreadType, RdRecord
<1>10. Taken(c)' = Taken(c) + (n + 1) /\ StreamOf(c)' /\ Skips(c)' = 0
  BY <1>1, <1>3, <1>4, <1>7, <1>9, StreamDrops
<1>11. FramedOf(c)'
  <2>1. PICK p \in Nat : p = Taken(c)
    BY <1>6
  <2>2. NextHead(c)' = p + n + 1 + 1
    BY <1>10, <2>1 DEF NextHead
  <2> SUFFICES ASSUME Framed(script[c]), p + n + 1 + 1 \in DOMAIN script[c] PROVE script[c][p + n + 1 + 1] >= 0
    BY <1>3, <2>2 DEF FramedOf
  <2> QED
    BY <1>6, <1>7, <2>1, NextFrame
<1>12. ClientOf(c)'
  BY <1>3, <1>8, <1>10, <1>11 DEF ClientOf, BrowserOf
<1>13. Owners' /\ \A d \in Clients : d # c => ClientOf(d)'
  BY <1>1, <1>4, <1>5, <1>9, OthersKeep
<1>14. Tasked'
  BY <1>1, <1>3, <1>4, <1>5, <1>8, TaskComes
<1>15. NotAstray'
  BY <1>1, <1>3, GivenUpSame, AstrayKeeps DEF Addressed, Inv
<1> QED
  BY <1>12, <1>13, <1>14, <1>15 DEF Addressed

LEMMA PushHtmlAddressed == ASSUME Inv, Addressed, PushHtml PROVE Addressed'
<1>1. /\ rd.pc # "pop" /\ rd.buf # <<>> /\ Head(rd.buf) = Get /\ rd' = RdIdle /\ Enqueue(rd.fd, TRUE)
      /\ rd.long = 0
      /\ UNCHANGED clientVars /\ UNCHANGED <<inbox, got, backlog, owner>> /\ UNCHANGED <<writeq, qt, wr>>
  BY DEF PushHtml
<1>2. PICK c \in Clients : c = owner[rd.fd] /\ Connected(c) /\ Ahead(c) = Len(rd.buf)
  BY <1>1, ReadingClient
<1>3. PICK x \in Task : /\ x.fd = rd.fd /\ x.html /\ x.from = c /\ Tasks' = Tasks \cup {x}
                        /\ asked' = [asked EXCEPT ![c] = @ + 1] /\ asked \in [Clients -> Nat]
  BY <1>1, <1>2, EnqueueTask
<1>4. ~Framed(script[c])
  BY <1>1, <1>2, ReadingHead DEF Get
<1>5. UNCHANGED <<st, script, sent>> /\ rd'.fd = 0 /\ rd'.buf = <<>> /\ rd'.long = 0
  BY <1>1 DEF clientVars, RdIdle
<1>6. asked'[c] # 0
  BY <1>3
<1>7. /\ Len(rd.buf) \in Nat /\ Len(inbox[c]) \in Nat /\ sent[c] \in Nat
      /\ Taken(c) \in Nat /\ Taken(c) = sent[c] - Len(inbox[c]) - Len(rd.buf)
  BY <1>1, <1>2, ReadingStream
<1>8. StreamOf(c)'
  <2>1. ~Reads(c)' /\ Ahead(c)' = 0
    BY <1>5 DEF Reads, Ahead
  <2>2. Taken(c)' = sent[c] - Len(inbox[c])
    BY <1>1, <1>5, <1>7, <2>1 DEF Taken
  <2>3. sent[c] - Len(inbox[c]) \in Nat
    BY <1>7
  <2>4. \A k \in DOMAIN inbox[c] : inbox[c][k] = script[c][sent[c] - Len(inbox[c]) + k]
    BY <1>2 DEF Addressed, ClientOf, StreamOf
  <2> QED
    BY <1>1, <1>5, <2>1, <2>2, <2>3, <2>4 DEF StreamOf
<1>9. ClientOf(c)'
  BY <1>4, <1>5, <1>6, <1>8 DEF ClientOf, FramedOf, BrowserOf
<1>10. Owners' /\ \A d \in Clients : d # c => ClientOf(d)'
  BY <1>1, <1>2, <1>3, <1>5, OthersKeep
<1>11. Tasked'
  BY <1>1, <1>2, <1>3, <1>4, <1>5, TaskComes
<1>12. NotAstray'
  BY <1>1, <1>5, GivenUpSame, AstrayKeeps DEF Addressed, Inv
<1> QED
  BY <1>9, <1>10, <1>11, <1>12 DEF Addressed

-----------------------------------------------------------------------------
(***************************************************************************)
(* A descriptor is closed when its client has no task any more or has      *)
(* given up.                                                               *)
(***************************************************************************)
LEMMA ClosedAddressed ==
  ASSUME Inv, Addressed, NEW f \in FD, Close(f),
         \A x \in Tasks : /\ x.from = owner[f] => GaveUp(x.from)
                          /\ x.html => x.fd # f,
         UNCHANGED clientVars, UNCHANGED <<inbox, got, asked, backlog>>, UNCHANGED <<writeq, qt, queryq>>,
         \/ f = rd.fd /\ rd' = RdIdle /\ wr' = wr /\ f # wr
         \/ rd' = rd /\ f = wr /\ wr' = 0 /\ f # rd.fd
  PROVE  Addressed'
<1>1. UNCHANGED <<st, script, sent>> /\ Tasks' = Tasks
  BY TasksFrame DEF clientVars
<1>2. owner' = [owner EXCEPT ![f] = NoClient] /\ owner \in [FD -> Clients \cup {NoClient}] /\ NoClient \notin Clients
  BY NetServerAssumption DEF Close, Inv, Types, ThreadType
<1>3. owner'[f] = NoClient /\ \A e \in FD : e # f => owner'[e] = owner[e]
  BY <1>2
<1>4. ASSUME NEW c \in Clients PROVE Connected(c)' => Connected(c)
  BY <1>2, <1>3, ConnectedIs
<1>5. rd.fd \in FD \cup {0} /\ 0 \notin FD /\ wr \in FD \cup {0}
  BY DEF Inv, Types, ThreadType, RdRecord, FD
<1>6. ASSUME NEW c \in Clients, owner[f] = c PROVE ~Connected(c)'
  <2>1. \A fd \in FD : owner'[fd] # c
    BY <1>2, <1>3, <1>6 DEF Addressed, Owners
  <2>2. \A i \in DOMAIN backlog : backlog[i] # c
    BY <1>6 DEF Addressed, Owners
  <2> QED
    BY <2>1, <2>2, ConnectedIs
<1>7. ASSUME NEW c \in Clients, Connected(c)' PROVE ReaderSees(c)
  <2>1. CASE f = rd.fd /\ rd' = RdIdle
    <3>1. ~Reads(c)'
      BY <2>1 DEF Reads, RdIdle
    <3>2. ~Reads(c)
      BY <1>6, <1>7, <2>1 DEF Reads
    <3> QED
      BY <3>1, <3>2 DEF ReaderSees, Ahead, Skips
  <2>2. CASE rd' = rd /\ f # rd.fd
    <3>1. Reads(c)' = Reads(c)
      BY <1>3, <1>5, <2>2 DEF Reads
    <3> QED
      BY <2>2, <3>1 DEF ReaderSees, Ahead, Skips
  <2> QED
    BY <2>1, <2>2
<1>8. ASSUME NEW c \in Clients PROVE ClientOf(c)'
  BY <1>1, <1>4, <1>7, ClientKeeps DEF Addressed
<1>9. Owners'
  <2>0. Owners
    BY DEF Addressed
  <2>1. \A fd, e \in FD : owner'[fd] # NoClient /\ owner'[fd] = owner'[e] => fd = e
    BY <1>3, <2>0 DEF Owners
  <2>2. \A i \in DOMAIN backlog : asked[backlog[i]] = 0 /\ \A fd \in FD : backlog[i] # owner'[fd]
    <3>1. \A i \in DOMAIN backlog : backlog[i] \in Clients
      BY DEF Inv, Types, PipeType
    <3> QED
      BY <1>2, <1>3, <2>0, <3>1 DEF Owners
  <2>3. \A c \in Clients : Connected(c)' => st'[c] # "new"
    BY <1>1, <1>4, <2>0 DEF Owners
  <2> QED
    BY <1>1, <2>0, <2>1, <2>2, <2>3 DEF Owners
<1>10. BrowserHeld'
  <2> SUFFICES ASSUME NEW d \in Clients, Browser(script[d]), asked[d] # 0, NEW fd \in FD, owner'[fd] = d
               PROVE  fd = wr' \/ \E x \in Tasks : x.html /\ x.fd = fd
    BY <1>1 DEF BrowserHeld
  <2>1. fd # f /\ owner[fd] = d
    BY <1>2, <1>3
  <2>2. fd = wr \/ \E x \in Tasks : x.html /\ x.fd = fd
    BY <2>1 DEF Addressed, Tasked, BrowserHeld
  <2> QED
    BY <2>1, <2>2
<1>11. TasksOf'
  <2> SUFFICES ASSUME NEW x \in Tasks
               PROVE  /\ owner'[x.fd] = x.from \/ (~Connected(x.from)' /\ GaveUp(x.from)')
                      /\ x.html => owner'[x.fd] = x.from /\ ~Framed(script[x.from])
                      /\ Browser(script[x.from]) => x.html
    BY <1>1 DEF TasksOf
  <2>1. x.from \in Clients /\ x.fd \in FD
    BY TasksAre DEF Inv
  <2>2. /\ owner[x.fd] = x.from \/ (~Connected(x.from) /\ GaveUp(x.from))
        /\ x.html => owner[x.fd] = x.from /\ ~Framed(script[x.from])
        /\ Browser(script[x.from]) => x.html
    BY DEF Addressed, Tasked, TasksOf
  <2>3. CASE x.fd # f
    BY <1>1, <1>3, <1>4, <2>1, <2>2, <2>3, GivenUpSame
  <2>4. CASE x.fd = f
    <3>1. ~x.html
      BY <2>4
    <3>2. ~Connected(x.from)' /\ GaveUp(x.from)'
      BY <1>1, <1>4, <1>6, <2>1, <2>2, <2>4, GivenUpSame
    <3> QED
      BY <2>2, <3>1, <3>2
  <2> QED
    BY <2>3, <2>4
<1>12. WriterOf'
  <2>1. wr' # 0 => wr' = wr /\ wr # f /\ wr \in FD
    BY <1>5
  <2> QED
    BY <1>1, <1>3, <2>1 DEF Addressed, Tasked, WriterOf
<1>13. NotAstray'
  BY <1>1, GivenUpSame, AstrayKeeps DEF Addressed, Inv
<1> QED
  BY <1>8, <1>9, <1>10, <1>11, <1>12, <1>13 DEF Addressed, Tasked

LEMMA ReaderClosesAddressed == ASSUME Inv, Addressed, ReadEnd \/ BadHead PROVE Addressed'
<1>1. /\ rd.pc # "pop" /\ Close(rd.fd) /\ rd' = RdIdle
      /\ UNCHANGED clientVars /\ UNCHANGED <<inbox, got, asked, backlog>> /\ UNCHANGED <<writeq, qt, queryq>> /\ wr' = wr
  BY DEF ReadEnd, BadHead
<1>2. PICK c \in Clients : /\ c = owner[rd.fd] /\ rd.fd \in FD /\ rd.fd # wr
                           /\ \A fd \in FD : owner[fd] = c => fd = rd.fd
                           /\ \A x \in Tasks : x.html => x.fd # rd.fd
  BY <1>1, ReadingClient
<1>3. ASSUME NEW x \in Tasks, x.from = c PROVE GaveUp(c)
  <2>1. CASE ReadEnd
    <3>1. st[c] = "closed"
      BY <1>2, <2>1, NetServerAssumption DEF ReadEnd
    <3> QED
      BY <3>1 DEF GaveUp
  <2>2. CASE BadHead
    <3>1. rd.buf # <<>> /\ Head(rd.buf) < 0 /\ rd.long = 0
      BY <2>2 DEF BadHead
    <3>2. Head(rd.buf) \in Unit
      BY <1>1, <3>1, ReadingStream
    <3>3. ~(Head(rd.buf) >= 0)
      BY <3>1, <3>2, UnitIs
    <3>4. ~Framed(script[c])
      BY <1>1, <1>2, <3>1, <3>3, ReadingHead
    <3>5. ~Browser(script[c])
      <4> SUFFICES ASSUME Browser(script[c]) PROVE FALSE
        OBVIOUS
      <4>1. x.html
        BY <1>3 DEF Addressed, Tasked, TasksOf
      <4>2. owner[x.fd] = c /\ x.fd \in FD
        BY <1>3, <4>1, TasksAre DEF Addressed, Tasked, TasksOf, Inv
      <4> QED
        BY <1>2, <4>1, <4>2
    <3> QED
      BY <3>4, <3>5 DEF GaveUp
  <2> QED
    BY <1>1, <2>1, <2>2
<1> QED
  BY <1>1, <1>2, <1>3, ClosedAddressed

LEMMA WriteCloseAddressed == ASSUME Inv, Addressed, WriteClose PROVE Addressed'
<1>1. /\ wr # 0 /\ Close(wr) /\ wr' = 0 /\ rd' = rd
      /\ UNCHANGED clientVars /\ UNCHANGED <<inbox, got, asked, backlog>> /\ UNCHANGED <<writeq, qt, queryq>>
  BY DEF WriteClose
<1>2. wr \in FD /\ wr \in Held("writer")
  BY <1>1, HeldIs DEF Inv, Types, ThreadType
<1>3. wr # rd.fd
  <2>1. wr = rd.fd => wr \in Held("reader")
    BY <1>1, HeldIs
  <2> QED
    BY <1>2, <2>1 DEF Inv, OnePlace, Place
<1>4. PICK c \in Clients : c = owner[wr]
  BY <1>2 DEF Inv, OnePlace, Place, Types, ThreadType
<1>5. \A x \in Tasks : x.html => x.fd # wr
  <2> SUFFICES ASSUME NEW x \in Tasks, x.html, x.fd = wr PROVE FALSE
    OBVIOUS
  <2>1. PICK p \in {"queryq", "query", "writeq"} : wr \in Held(p)
    BY TasksAre DEF Inv
  <2>2. p \in Place /\ "writer" \in Place /\ p # "writer"
    BY DEF Place
  <2> QED
    BY <1>2, <2>1, <2>2 DEF Inv, OnePlace
<1>6. ASSUME NEW x \in Tasks, x.from = c PROVE GaveUp(c)
  <2>1. ~Framed(script[c])
    BY <1>1, <1>4 DEF Addressed, Tasked, WriterOf
  <2>2. ASSUME Browser(script[c]) PROVE FALSE
    <3>1. x.html
      BY <1>6, <2>2 DEF Addressed, Tasked, TasksOf
    <3>2. owner[x.fd] = c /\ x.fd \in FD
      BY <1>6, <3>1, TasksAre DEF Addressed, Tasked, TasksOf, Inv
    <3>3. x.fd = wr
      BY <1>2, <1>4, <3>2, NetServerAssumption DEF Addressed, Owners
    <3> QED
      BY <1>5, <3>1, <3>3
  <2> QED
    BY <2>1, <2>2 DEF GaveUp
<1> QED
  BY <1>1, <1>2, <1>3, <1>4, <1>5, <1>6, ClosedAddressed

-----------------------------------------------------------------------------
(***************************************************************************)
(* An answer is written.                                                   *)
(***************************************************************************)

\* Who gets the answer of the task at the head of the queue.
LEMMA WriteGives ==
  ASSUME Inv, Write
  PROVE  \E x \in Task :
           /\ x = Head(writeq) /\ Tasks = Tasks' \cup {x} /\ wr' = (IF x.html THEN x.fd ELSE 0)
           /\ \/ got' = got /\ (owner[x.fd] \in Clients => st[owner[x.fd]] = "closed")
              \/ /\ owner[x.fd] \in Clients /\ st[owner[x.fd]] # "closed"
                 /\ got' = [got EXCEPT ![owner[x.fd]] = Append(@, <<x.from, x.no>>)]
<1>1. writeq # <<>> /\ writeq' = Tail(writeq) /\ UNCHANGED <<queryq, qt>> /\ Types
  BY DEF Write, Inv
<1>2. PICK x \in Task : x = Head(writeq) /\ Tasks = Tasks' \cup {x}
  BY <1>1, TasksOfWrite
<1>3. owner[x.fd] \in Clients \cup {NoClient}
  BY DEF Inv, Types, ThreadType, Task
<1>4. /\ wr' = (IF x.html THEN x.fd ELSE 0)
      /\ got' = IF owner[x.fd] # NoClient /\ st[owner[x.fd]] # "closed"
                THEN [got EXCEPT ![owner[x.fd]] = Append(@, <<x.from, x.no>>)] ELSE got
  BY <1>2 DEF Write
<1> QED
  BY <1>2, <1>3, <1>4, NetServerAssumption

\* A list of answers that grows.
LEMMA AnswersGrow ==
  ASSUME Types, NEW d \in Clients, NEW y \in Clients \X Nat, got' = [got EXCEPT ![d] = Append(@, y)]
  PROVE  /\ \A c \in Clients : c # d => got'[c] = got[c]
         /\ Len(got[d]) \in Nat /\ DOMAIN got[d] = 1 .. Len(got[d])
         /\ DOMAIN got'[d] = DOMAIN got[d] \cup {Len(got[d]) + 1} /\ got'[d][Len(got[d]) + 1] = y
         /\ \A i \in DOMAIN got[d] : got'[d][i] = got[d][i]
<1>1. got \in [Clients -> Seq(Clients \X Nat)]
  BY DEF Types, PipeType
<1>2. got'[d] = Append(got[d], y) /\ \A c \in Clients : c # d => got'[c] = got[c]
  BY <1>1
<1>3. PICK s \in Seq(Clients \X Nat) : s = got[d]
  BY <1>1
<1>4. /\ Len(s) \in Nat /\ DOMAIN s = 1 .. Len(s)
      /\ Append(s, y)[Len(s) + 1] = y /\ DOMAIN Append(s, y) = DOMAIN s \cup {Len(s) + 1}
      /\ \A i \in DOMAIN s : Append(s, y)[i] = s[i]
  BY QueueEnds
<1> QED
  BY <1>2, <1>3, <1>4

LEMMA WriteAddressed == ASSUME Inv, Addressed, Write PROVE Addressed'
<1>1. /\ wr = 0 /\ UNCHANGED clientVars /\ UNCHANGED <<inbox, asked, backlog, owner, rd>> /\ Types
  BY DEF Write, Inv
<1>2. UNCHANGED <<st, script, sent>>
  BY <1>1 DEF clientVars
<1>3. PICK x \in Task :
        /\ Tasks = Tasks' \cup {x} /\ wr' = (IF x.html THEN x.fd ELSE 0)
        /\ \/ got' = got
           \/ owner[x.fd] \in Clients /\ got' = [got EXCEPT ![owner[x.fd]] = Append(@, <<x.from, x.no>>)]
  BY WriteGives
<1>4. /\ x.from \in Clients /\ x.no \in Nat /\ x.fd \in FD
      /\ owner[x.fd] = x.from \/ (~Connected(x.from) /\ GaveUp(x.from))
      /\ x.html => owner[x.fd] = x.from /\ ~Framed(script[x.from])
  BY <1>1, <1>3, TasksAre DEF Addressed, Tasked, TasksOf
<1>5. ASSUME NEW c \in Clients PROVE ClientOf(c)'
  <2>1. ReaderSees(c)
    BY <1>1, ReaderTurns
  <2>2. Connected(c)' = Connected(c)
    BY <1>1 DEF Connected
  <2> QED
    BY <1>1, <1>2, <2>1, <2>2, ClientKeeps DEF Addressed
<1>6. Owners'
  BY <1>1, <1>2, OwnersKeep DEF Inv, Types, PipeType
<1>7. BrowserHeld'
  <2> SUFFICES ASSUME NEW d \in Clients, Browser(script[d]), asked[d] # 0, NEW fd \in FD, owner[fd] = d, fd # wr'
               PROVE  \E y \in Tasks' : y.html /\ y.fd = fd
    BY <1>1, <1>2 DEF BrowserHeld
  <2>1. fd # wr
    BY <1>1 DEF FD
  <2>2. PICK y \in Tasks : y.html /\ y.fd = fd
    BY <2>1 DEF Addressed, Tasked, BrowserHeld
  <2>3. y # x
    BY <1>3, <2>2
  <2> QED
    BY <1>3, <2>2, <2>3
<1>8. TasksOf'
  <2> SUFFICES ASSUME NEW y \in Tasks'
               PROVE  /\ owner[y.fd] = y.from \/ (~Connected(y.from)' /\ GaveUp(y.from)')
                      /\ y.html => owner[y.fd] = y.from /\ ~Framed(script[y.from])
                      /\ Browser(script[y.from]) => y.html
    BY <1>1, <1>2 DEF TasksOf
  <2>1. y \in Tasks /\ y.from \in Clients
    BY <1>1, <1>3, TasksAre
  <2>2. Connected(y.from)' = Connected(y.from)
    BY <1>1 DEF Connected
  <2> QED
    BY <1>2, <2>1, <2>2, GivenUpSame DEF Addressed, Tasked, TasksOf
<1>9. WriterOf'
  BY <1>1, <1>2, <1>3, <1>4 DEF WriterOf
<1>10. NotAstray'
  <2>1. CASE got' = got
    BY <1>1, <1>2, <2>1, GivenUpSame, AstrayKeeps DEF Addressed
  <2>2. CASE owner[x.fd] \in Clients /\ got' = [got EXCEPT ![owner[x.fd]] = Append(@, <<x.from, x.no>>)]
    <3>1. PICK d \in Clients, y \in Clients \X Nat : d = owner[x.fd] /\ y = <<x.from, x.no>>
      BY <1>4, <2>2
    <3>2. y[1] = x.from /\ (x.from = d \/ GaveUp(x.from))
      BY <1>4, <3>1
    <3>3. /\ \A c \in Clients : c # d => got'[c] = got[c]
          /\ DOMAIN got'[d] = DOMAIN got[d] \cup {Len(got[d]) + 1} /\ got'[d][Len(got[d]) + 1] = y
          /\ \A i \in DOMAIN got[d] : got'[d][i] = got[d][i]
      <4>1. got' = [got EXCEPT ![d] = Append(@, y)]
        BY <2>2, <3>1, Zenon
      <4> QED
        BY <1>1, <4>1, AnswersGrow
    <3> SUFFICES ASSUME NEW c \in Clients, NEW i \in DOMAIN got'[c]
                 PROVE  (got[c][i][1] = c \/ GaveUp(got[c][i][1]))'
      BY DEF NotAstray
    <3>4. CASE c = d /\ i = Len(got[d]) + 1
      <4>1. got'[c][i][1] = x.from
        BY <3>2, <3>3, <3>4
      <4> QED
        BY <1>2, <3>2, <3>4, <4>1 DEF GaveUp
    <3>5. CASE ~(c = d /\ i = Len(got[d]) + 1)
      <4>1. i \in DOMAIN got[c] /\ got'[c][i] = got[c][i]
        BY <3>3, <3>5
      <4>2. got[c] \in Seq(Clients \X Nat)
        BY <1>1 DEF Types, PipeType
      <4>3. got[c][i][1] \in Clients
        BY <4>1, <4>2
      <4>4. got[c][i][1] = c \/ GaveUp(got[c][i][1])
        BY <4>1 DEF Addressed, NotAstray
      <4> QED
        BY <1>2, <4>1, <4>4 DEF GaveUp
    <3> QED
      BY <3>4, <3>5
  <2> QED
    BY <1>3, <2>1, <2>2
<1> QED
  BY <1>5, <1>6, <1>7, <1>8, <1>9, <1>10 DEF Addressed, Tasked

-----------------------------------------------------------------------------
(***************************************************************************)
(* The clients come, send and go.                                          *)
(***************************************************************************)

\* A client that is new has no task, and no answer of its own is with anybody.
LEMMA NewHasNone ==
  ASSUME Inv, Addressed, NEW c \in Clients, st[c] = "new"
  PROVE  /\ ~Connected(c) /\ ~GaveUp(c) /\ \A x \in Tasks : x.from # c
         /\ \A d \in Clients : \A i \in DOMAIN got[d] : got[d][i][1] = c => d = c
<1>1. ~Connected(c) /\ script[c] = <<>>
  BY DEF Addressed, Owners
<1>2. ~GaveUp(c)
  BY <1>1 DEF GaveUp, Framed
<1>3. ASSUME NEW x \in Tasks, x.from = c PROVE FALSE
  <2>1. owner[x.fd] = c /\ x.fd \in FD
    BY <1>2, <1>3, TasksAre DEF Addressed, Tasked, TasksOf, Inv
  <2> QED
    BY <1>1, <2>1, ConnectedIs
<1>4. \A d \in Clients : \A i \in DOMAIN got[d] : got[d][i][1] = c => d = c
  BY <1>2 DEF Addressed, NotAstray
<1> QED
  BY <1>1, <1>2, <1>3, <1>4

LEMMA ConnectAddressed == ASSUME Inv, Addressed, NEW c \in Clients, Connect(c) PROVE Addressed'
<1>1. /\ st[c] = "new" /\ st' = [st EXCEPT ![c] = "up"] /\ backlog' = Append(backlog, c)
      /\ UNCHANGED <<sent, inbox, got, asked>> /\ UNCHANGED <<owner, rd, wr>> /\ UNCHANGED <<writeq, qt, queryq>>
  BY DEF Connect, serverVars
<1>2. PICK s \in Scripts : script' = [script EXCEPT ![c] = s]
  BY DEF Connect
<1>3. /\ st \in [Clients -> {"new", "up", "closed"}] /\ script \in [Clients -> Scripts \cup {<<>>}]
      /\ sent[c] = 0 /\ backlog \in Seq(Clients) /\ s \in Seq(Unit) /\ Types
  BY <1>1, NetServerAssumption DEF Inv, Types, ClientType, PipeType
<1>4. /\ st'[c] = "up" /\ script'[c] = s
      /\ \A d \in Clients : d # c => st'[d] = st[d] /\ script'[d] = script[d]
  BY <1>1, <1>2, <1>3
<1>5. asked[c] = 0 /\ inbox[c] = <<>> /\ ~Connected(c)
  BY <1>1 DEF Addressed, Owners
<1>6. (\A fd \in FD : owner[fd] # c) /\ (\A i \in DOMAIN backlog : backlog[i] # c)
  BY <1>5, ConnectedIs
<1>7. /\ Len(backlog) \in Nat /\ backlog'[Len(backlog) + 1] = c /\ DOMAIN backlog' = DOMAIN backlog \cup {Len(backlog) + 1}
      /\ \A i \in DOMAIN backlog : i \in DOMAIN backlog' /\ backlog'[i] = backlog[i]
  BY <1>1, <1>3, QueueEnds
<1>8. \A d \in Clients : d # c => (Connected(d)' <=> Connected(d))
  BY <1>1, <1>7, ConnectedIs
<1>9. Tasks' = Tasks
  BY <1>1, TasksFrame
<1>10. Taken(c)' = 0 /\ ~Reads(c)' /\ Skips(c)' = 0
  <2>0. rd.fd \in FD \cup {0}
    BY DEF Inv, Types, ThreadType, RdRecord
  <2>1. ~Reads(c)'
    BY <1>1, <1>6, <2>0 DEF Reads
  <2>2. Ahead(c)' = 0 /\ Skips(c)' = 0 /\ Len(inbox'[c]) = 0 /\ sent'[c] = 0
    BY <1>1, <1>3, <1>5, <2>1 DEF Ahead, Skips
  <2> QED
    BY <2>1, <2>2 DEF Taken
<1>11. ClientOf(c)'
  <2>1. StreamOf(c)'
    BY <1>1, <1>5, <1>10 DEF StreamOf
  <2>2. NextHead(c)' = 1
    BY <1>10 DEF NextHead
  <2>3. Framed(s) /\ 1 \in DOMAIN s => s[1] >= 0
    BY <1>3 DEF Framed
  <2>4. FramedOf(c)'
    BY <1>4, <2>2, <2>3 DEF FramedOf
  <2>5. BrowserOf(c)'
    BY <1>1, <1>10 DEF BrowserOf
  <2> QED
    BY <2>1, <2>4, <2>5 DEF ClientOf
<1>12. ASSUME NEW d \in Clients, d # c PROVE ClientOf(d)'
  <2>1. ReaderSees(d)
    BY <1>1, ReaderTurns
  <2> QED
    BY <1>1, <1>4, <1>8, <1>12, <2>1, ClientKeeps DEF Addressed
<1>13. Owners'
  <2>0. Owners
    BY DEF Addressed
  <2>1. \A i, j \in DOMAIN backlog' : backlog'[i] = backlog'[j] => i = j
    BY <1>6, <1>7, <2>0 DEF Owners
  <2>2. \A i \in DOMAIN backlog' : asked'[backlog'[i]] = 0 /\ \A fd \in FD : backlog'[i] # owner'[fd]
    BY <1>1, <1>5, <1>6, <1>7, <2>0 DEF Owners
  <2>3. \A d \in Clients : Connected(d)' => st'[d] # "new"
    BY <1>4, <1>8, <2>0 DEF Owners
  <2>4. \A d \in Clients : st'[d] = "new" => asked'[d] = 0 /\ inbox'[d] = <<>> /\ script'[d] = <<>>
    BY <1>1, <1>4, <2>0 DEF Owners
  <2> QED
    BY <1>1, <2>0, <2>1, <2>2, <2>3, <2>4 DEF Owners
<1>14. ASSUME NEW d \in Clients, d # c, GaveUp(d) PROVE GaveUp(d)'
  BY <1>4, <1>14, GaveUpStays
<1>15. /\ \A x \in Tasks : x.from # c
       /\ \A d \in Clients : \A i \in DOMAIN got[d] : got[d][i][1] = c => d = c
  BY <1>1, NewHasNone
<1>16. BrowserHeld'
  BY <1>1, <1>4, <1>5, <1>9 DEF Addressed, Tasked, BrowserHeld
<1>17. TasksOf'
  <2> SUFFICES ASSUME NEW x \in Tasks
               PROVE  /\ owner[x.fd] = x.from \/ (~Connected(x.from)' /\ GaveUp(x.from)')
                      /\ x.html => owner[x.fd] = x.from /\ ~Framed(script'[x.from])
                      /\ Browser(script'[x.from]) => x.html
    BY <1>1, <1>9 DEF TasksOf
  <2>1. x.from \in Clients /\ x.from # c
    BY <1>3, <1>15, TasksAre
  <2> QED
    BY <1>4, <1>8, <1>14, <2>1 DEF Addressed, Tasked, TasksOf
<1>18. WriterOf'
  <2>1. wr # 0 => owner[wr] \in Clients /\ owner[wr] # c
    <3>1. wr # 0 => wr \in FD /\ wr \in Held("writer")
      BY <1>3, HeldIs DEF Types, ThreadType
    <3>2. wr # 0 => owner[wr] \in Clients
      BY <1>3, <3>1 DEF Inv, OnePlace, Place, Types, ThreadType
    <3> QED
      BY <1>6, <3>1, <3>2
  <2> QED
    BY <1>1, <1>4, <2>1 DEF Addressed, Tasked, WriterOf
<1>19. NotAstray'
  <2> SUFFICES ASSUME NEW d \in Clients, NEW i \in DOMAIN got[d]
               PROVE  \A e \in Clients : e = got[d][i][1] => e = d \/ GaveUp(e)'
    <3>1. got' = got /\ got \in [Clients -> Seq(Clients \X Nat)]
      BY <1>1, <1>3 DEF Types, PipeType
    <3>2. \A d \in Clients : \A i \in DOMAIN got[d] : got[d][i][1] \in Clients
      BY <3>1
    <3> QED
      BY <3>1, <3>2 DEF NotAstray, GaveUp
  <2>1. got[d][i][1] = d \/ GaveUp(got[d][i][1])
    BY DEF Addressed, NotAstray
  <2> QED
    BY <1>14, <1>15, <2>1
<1> QED
  BY <1>11, <1>12, <1>13, <1>16, <1>17, <1>18, <1>19 DEF Addressed, Tasked

LEMMA SendAddressed == ASSUME Inv, Addressed, NEW c \in Clients, Send(c) PROVE Addressed'
<1>1. /\ st[c] = "up" /\ sent[c] < Len(script[c]) /\ sent' = [sent EXCEPT ![c] = @ + 1]
      /\ inbox' = IF Connected(c) THEN [inbox EXCEPT ![c] = Append(@, script[c][sent[c] + 1])] ELSE inbox
      /\ UNCHANGED <<st, script, got, asked, backlog>> /\ UNCHANGED <<owner, rd, wr>> /\ UNCHANGED <<writeq, qt, queryq>>
  BY DEF Send, serverVars
<1>2. /\ sent \in [Clients -> Nat] /\ inbox \in [Clients -> Seq(Unit)] /\ inbox[c] \in Seq(Unit)
      /\ script[c] \in Seq(Unit) /\ backlog \in Seq(Clients) /\ Types
  BY ScriptType DEF Inv, Types, ClientType, PipeType
<1>3. /\ sent'[c] = sent[c] + 1 /\ \A d \in Clients : d # c => sent'[d] = sent[d] /\ inbox'[d] = inbox[d]
      /\ ~Connected(c) => inbox' = inbox
      /\ Connected(c) => inbox'[c] = Append(inbox[c], script[c][sent[c] + 1])
  BY <1>1, <1>2
<1>4. \A d \in Clients : /\ Connected(d)' = Connected(d) /\ Reads(d)' = Reads(d) /\ Ahead(d)' = Ahead(d)
                         /\ Skips(d)' = Skips(d) /\ ReaderSees(d)
  BY <1>1, ReaderTurns DEF Connected, Reads, Ahead, Skips
<1>5. script[c][sent[c] + 1] \in Unit
  BY <1>1, <1>2
<1>6. Tasks' = Tasks
  BY <1>1, TasksFrame
<1>7. ASSUME Connected(c) PROVE Taken(c)' = Taken(c) /\ StreamOf(c)'
  <2>1. PICK u \in Seq(Unit), x \in Unit : u = inbox[c] /\ x = script[c][sent[c] + 1]
    BY <1>2, <1>5
  <2>2. inbox'[c] = Append(u, x)
    BY <1>3, <1>7, <2>1
  <2>3. /\ Len(inbox'[c]) = Len(u) + 1 /\ Len(u) \in Nat
        /\ \A k \in DOMAIN inbox'[c] : \/ k = Len(u) + 1 /\ inbox'[c][k] = x
                                       \/ k \in DOMAIN u /\ inbox'[c][k] = u[k]
    BY <2>2, QueueEnds
  <2>4. PICK a \in Nat, m \in Nat : a = sent[c] /\ m = Len(u)
    BY <1>2, <2>3
  <2>5. /\ Taken(c) \in Nat /\ \A k \in DOMAIN u : u[k] = script[c][a - m + k]
        /\ Reads(c) => \A k \in DOMAIN rd.buf : rd.buf[k] = script[c][Taken(c) + k]
    BY <1>7, <2>1, <2>4 DEF Addressed, ClientOf, StreamOf
  <2>6. Taken(c)' = Taken(c)
    <3>1. Taken(c) = a - m - Ahead(c) /\ Taken(c)' = (a + 1) - (m + 1) - Ahead(c)
      BY <1>3, <1>4, <2>1, <2>3, <2>4 DEF Taken
    <3>2. (a + 1) - (m + 1) = a - m
      OBVIOUS
    <3> QED
      BY <3>1, <3>2
  <2>7. ASSUME NEW k \in DOMAIN inbox'[c] PROVE inbox'[c][k] = script[c][(a + 1) - (m + 1) + k]
    <3>1. (a + 1) - (m + 1) = a - m
      OBVIOUS
    <3>2. CASE k = m + 1 /\ inbox'[c][k] = x
      <4>1. a - m + k = a + 1
        BY <3>2
      <4> QED
        BY <2>1, <2>4, <3>1, <3>2, <4>1
    <3>3. CASE k \in DOMAIN u /\ inbox'[c][k] = u[k]
      BY <2>5, <3>1, <3>3
    <3> QED
      BY <2>3, <2>4, <3>2, <3>3
  <2>8. \A k \in DOMAIN inbox'[c] : inbox'[c][k] = script'[c][sent'[c] - Len(inbox'[c]) + k]
    BY <1>1, <1>3, <2>3, <2>4, <2>7
  <2>9. Reads(c)' => \A k \in DOMAIN rd'.buf : rd'.buf[k] = script'[c][Taken(c)' + k]
    BY <1>1, <1>4, <2>5, <2>6
  <2> QED
    BY <2>5, <2>6, <2>8, <2>9 DEF StreamOf
<1>8. ClientOf(c)'
  <2>1. StreamOf(c)'
    BY <1>4, <1>7 DEF StreamOf
  <2>2. FramedOf(c)' /\ BrowserOf(c)'
    BY <1>1, <1>4, <1>7, AskingKeeps DEF Addressed
  <2> QED
    BY <2>1, <2>2 DEF ClientOf
<1>9. ASSUME NEW d \in Clients, d # c PROVE ClientOf(d)'
  BY <1>1, <1>3, <1>4, <1>9, ClientKeeps DEF Addressed
<1>10. Owners'
  BY <1>1, <1>2, <1>3, OwnersKeep
<1>11. Tasked' /\ NotAstray'
  BY <1>1, <1>2, <1>6, GivenUpSame, TaskedKeeps, AstrayKeeps DEF Addressed
<1> QED
  BY <1>8, <1>9, <1>10, <1>11 DEF Addressed

LEMMA HangUpAddressed == ASSUME Inv, Addressed, NEW c \in Clients, HangUp(c) PROVE Addressed'
<1>1. /\ st[c] = "up" /\ st' = [st EXCEPT ![c] = "closed"]
      /\ UNCHANGED <<script, sent, inbox, got, asked, backlog>> /\ UNCHANGED <<owner, rd, wr>> /\ UNCHANGED <<writeq, qt, queryq>>
  BY DEF HangUp, serverVars
<1>2. st \in [Clients -> {"new", "up", "closed"}] /\ Types
  BY DEF Inv, Types, ClientType
<1>3. st'[c] = "closed" /\ \A d \in Clients : d # c => st'[d] = st[d]
  BY <1>1, <1>2
<1>4. \A d \in Clients : Connected(d)' = Connected(d) /\ ReaderSees(d)
  BY <1>1, ReaderTurns DEF Connected
<1>5. Tasks' = Tasks
  BY <1>1, TasksFrame
<1>6. \A d \in Clients : ClientOf(d)'
  BY <1>1, <1>4, ClientKeeps DEF Addressed
<1>7. Owners'
  BY <1>1, <1>3, <1>4 DEF Addressed, Owners
<1>8. \A d \in Clients : GaveUp(d) => GaveUp(d)'
  BY <1>1, <1>3, GaveUpStays
<1>9. Tasked' /\ NotAstray'
  BY <1>1, <1>2, <1>5, <1>8, TaskedKeeps, AstrayKeeps DEF Addressed
<1> QED
  BY <1>6, <1>7, <1>9 DEF Addressed

\* A connection that waited gets its descriptor: no task that carries the number
\* closes it, and those that do are of clients that gave up.
LEMMA AcceptAddressed == ASSUME Inv, Addressed, Accept PROVE Addressed'
<1> DEFINE free == {fd \in FD : owner[fd] = NoClient}
<1>1. /\ 0 \in lis.ready /\ UNCHANGED clientVars /\ UNCHANGED <<inbox, got, asked, rd, wr>> /\ UNCHANGED <<writeq, qt, queryq>>
      /\ Types
  BY DEF Accept, Inv
<1>2. UNCHANGED <<st, script, sent>> /\ Tasks' = Tasks
  BY <1>1, TasksFrame DEF clientVars
<1>3. CASE free = {}
  <2>1. UNCHANGED <<backlog, owner>>
    BY <1>3 DEF Accept
  <2>2. \A c \in Clients : ReaderSees(c)
    BY <1>1, <2>1, ReaderTurns
  <2> QED
    BY <1>1, <1>2, <2>1, <2>2, QuietStep
<1>4. CASE free # {}
  <2>1. PICK f \in FD : f = Least(free) /\ owner[f] = NoClient
    <3>1. free \subseteq Nat
      BY DEF FD
    <3> QED
      BY <1>4, <3>1, LeastIsLeast
  <2>2. owner' = [owner EXCEPT ![f] = Head(backlog)] /\ backlog' = Tail(backlog)
    BY <1>4, <2>1 DEF Accept
  <2>3. backlog \in Seq(Clients) /\ backlog # <<>> /\ owner \in [FD -> Clients \cup {NoClient}] /\ NoClient \notin Clients
    BY <1>1, NetServerAssumption DEF Inv, Types, PipeType, ThreadType, Locals
  <2>4. /\ Head(backlog) \in Clients /\ 1 \in DOMAIN backlog /\ backlog[1] = Head(backlog)
        /\ \A i \in DOMAIN backlog' : i + 1 \in DOMAIN backlog /\ i + 1 # 1 /\ backlog'[i] = backlog[i + 1] /\ i \in Nat
        /\ \A i \in DOMAIN backlog : i = 1 \/ (i - 1 \in DOMAIN backlog' /\ backlog'[i - 1] = backlog[i])
    <3>1. Tail(backlog) \in Seq(Clients)
      BY <2>3, QueueEnds
    <3>2. \A i \in DOMAIN Tail(backlog) : i \in Nat
      BY <3>1
    <3> QED
      BY <2>2, <2>3, <3>2, QueueEnds
  <2>5. PICK c \in Clients : c = Head(backlog)
    BY <2>4
  <2>6. owner'[f] = c /\ \A e \in FD : e # f => owner'[e] = owner[e]
    BY <2>2, <2>3, <2>5
  <2>7. Connected(c) /\ asked[c] = 0 /\ \A fd \in FD : owner[fd] # c
    BY <2>4, <2>5, ConnectedIs DEF Addressed, Owners
  <2>8. \A d \in Clients : Connected(d)' => Connected(d)
    BY <2>4, <2>6, <2>7, ConnectedIs
  <2>9. rd.fd # f /\ rd.fd \in FD \cup {0} /\ wr # f /\ wr \in FD \cup {0}
    <3>1. f # 0 /\ \A p \in Place : f \notin Held(p)
      BY <2>1 DEF FD, Inv, OnePlace
    <3>2. f \notin Held("reader") /\ f \notin Held("writer")
      BY <3>1 DEF Place
    <3> QED
      BY <1>1, <3>1, <3>2, HeldIs DEF Types, ThreadType, RdRecord
  <2>10. ASSUME NEW d \in Clients PROVE ReaderSees(d)
    <3>1. Reads(d)' = Reads(d)
      BY <1>1, <2>6, <2>9 DEF Reads
    <3> QED
      BY <1>1, <3>1 DEF ReaderSees, Ahead, Skips
  <2>11. ASSUME NEW d \in Clients PROVE ClientOf(d)'
    BY <1>1, <1>2, <2>8, <2>10, ClientKeeps DEF Addressed
  <2>12. Owners'
    <3>0. Owners
      BY DEF Addressed
    <3>1. \A fd, e \in FD : owner'[fd] # NoClient /\ owner'[fd] = owner'[e] => fd = e
      BY <2>6, <2>7, <3>0 DEF Owners
    <3>2. \A i, j \in DOMAIN backlog' : backlog'[i] = backlog'[j] => i = j
      <4> SUFFICES ASSUME NEW i \in DOMAIN backlog', NEW j \in DOMAIN backlog', backlog'[i] = backlog'[j] PROVE i = j
        OBVIOUS
      <4>1. i + 1 = j + 1
        BY <2>4, <3>0 DEF Owners
      <4> QED
        BY <2>4, <4>1
    <3>3. \A i \in DOMAIN backlog' : backlog'[i] # c
      BY <2>4, <2>5, <3>0 DEF Owners
    <3>4. \A i \in DOMAIN backlog' : asked[backlog'[i]] = 0 /\ \A fd \in FD : backlog'[i] # owner'[fd]
      BY <2>4, <2>6, <3>0, <3>3 DEF Owners
    <3>5. \A d \in Clients : Connected(d)' => st[d] # "new"
      BY <2>8, <3>0 DEF Owners
    <3> QED
      BY <1>1, <1>2, <3>0, <3>1, <3>2, <3>4, <3>5 DEF Owners
  <2>13. BrowserHeld'
    <3> SUFFICES ASSUME NEW d \in Clients, Browser(script[d]), asked[d] # 0, NEW fd \in FD, owner'[fd] = d
                 PROVE  fd = wr \/ \E x \in Tasks : x.html /\ x.fd = fd
      BY <1>1, <1>2 DEF BrowserHeld
    <3>1. fd # f
      BY <2>6, <2>7
    <3> QED
      BY <2>6, <3>1 DEF Addressed, Tasked, BrowserHeld
  <2>14. TasksOf'
    <3> SUFFICES ASSUME NEW x \in Tasks
                 PROVE  /\ owner'[x.fd] = x.from \/ (~Connected(x.from)' /\ GaveUp(x.from)')
                        /\ x.html => owner'[x.fd] = x.from /\ ~Framed(script[x.from])
                        /\ Browser(script[x.from]) => x.html
      BY <1>2 DEF TasksOf
    <3>1. x.from \in Clients /\ x.fd \in FD
      BY <1>1, TasksAre
    <3>2. /\ owner[x.fd] = x.from \/ (~Connected(x.from) /\ GaveUp(x.from))
          /\ x.html => owner[x.fd] = x.from /\ ~Framed(script[x.from])
          /\ Browser(script[x.from]) => x.html
      BY DEF Addressed, Tasked, TasksOf
    <3>3. owner[x.fd] = x.from => owner'[x.fd] = x.from
      BY <2>1, <2>3, <2>6, <3>1
    <3> QED
      BY <1>2, <2>8, <3>1, <3>2, <3>3, GivenUpSame
  <2>15. WriterOf'
    BY <1>1, <1>2, <2>6, <2>9 DEF Addressed, Tasked, WriterOf
  <2>16. NotAstray'
    BY <1>1, <1>2, GivenUpSame, AstrayKeeps DEF Addressed
  <2> QED
    BY <2>11, <2>12, <2>13, <2>14, <2>15, <2>16 DEF Addressed, Tasked
<1> QED
  BY <1>3, <1>4

-----------------------------------------------------------------------------
LEMMA InitAddressed == Init => Addressed
<1> SUFFICES ASSUME Init PROVE Addressed
  OBVIOUS
<1>1. Tasks = {}
  BY DEF Init, Tasks
<1>2. /\ \A c \in Clients : st[c] = "new" /\ script[c] = <<>> /\ sent[c] = 0 /\ inbox[c] = <<>> /\ got[c] = <<>> /\ asked[c] = 0
      /\ backlog = <<>> /\ wr = 0 /\ \A fd \in FD : owner[fd] = NoClient
  BY DEF Init
<1>3. \A c \in Clients : ~Connected(c)
  BY <1>2, ConnectedIs, NetServerAssumption
<1>4. Owners
  BY <1>2, <1>3 DEF Owners
<1>5. ASSUME NEW c \in Clients PROVE ClientOf(c)
  BY <1>2, <1>3 DEF ClientOf, StreamOf, FramedOf, BrowserOf
<1>6. Tasked
  BY <1>1, <1>2 DEF Tasked, BrowserHeld, TasksOf, WriterOf
<1>7. NotAstray
  BY <1>2 DEF NotAstray
<1> QED
  BY <1>4, <1>5, <1>6, <1>7 DEF Addressed

LEMMA StepAddressed == ASSUME TRUE \notin FlagValues, Inv, Addressed, [Next]_vars PROVE Addressed'
<1>1. CASE UNCHANGED vars
  <2>1. UNCHANGED clientVars /\ UNCHANGED <<inbox, got, asked, backlog, owner, wr>> /\ rd' = rd
        /\ UNCHANGED <<writeq, qt, queryq>>
    BY <1>1 DEF vars, clientVars
  <2>2. \A c \in Clients : ReaderSees(c)
    BY <2>1, ReaderTurns
  <2> QED
    BY <2>1, <2>2, TasksFrame, QuietStep DEF Inv
<1>2. ASSUME NEW c \in Clients, Connect(c) \/ Send(c) \/ HangUp(c) PROVE Addressed'
  BY <1>2, ConnectAddressed, SendAddressed, HangUpAddressed
<1>3. CASE Listener
  BY <1>3, QuietSteps, AcceptAddressed DEF Listener, Inv
<1>4. CASE Reader
  BY <1>4, ReaderQuiet, ReadDataAddressed, ReaderClosesAddressed, SkipLongAddressed, PushFrameAddressed,
     EndOfBufferAddressed, PushHtmlAddressed DEF Reader
<1>5. CASE Writer
  BY <1>5, WriteAddressed, WriteCloseAddressed DEF Writer
<1>6. ASSUME NEW t \in QueryThreads, Query(t) PROVE Addressed'
  BY <1>6, QuietSteps DEF Query, Inv
<1> QED
  BY <1>1, <1>2, <1>3, <1>4, <1>5, <1>6 DEF Next

-----------------------------------------------------------------------------
(***************************************************************************)
(* The order of the answers, with one query thread: the numbers of a       *)
(* client's tasks rise along the line and are above those it was answered, *)
(* and what a client that is there has asked is answered or in the line.   *)
(***************************************************************************)
Own(c) == {i \in DOMAIN got[c] : got[c][i][1] = c}

InOrder == \A i, j \in DOMAIN Line : i < j /\ Line[i].from = Line[j].from => Line[i].no < Line[j].no

AskedBefore ==
  /\ \A i \in DOMAIN Line : Line[i].no <= asked[Line[i].from]
  /\ \A c \in Clients : \A i \in Own(c) : got[c][i][2] <= asked[c]

AnsweredBefore == \A i \in DOMAIN Line : \A k \in Own(Line[i].from) : got[Line[i].from][k][2] < Line[i].no

Covered ==
  \A c \in Clients : Connected(c) /\ st[c] # "closed" =>
    \A n \in 1 .. asked[c] : \/ \E i \in Own(c) : got[c][i][2] = n
                             \/ \E i \in DOMAIN Line : Line[i].from = c /\ Line[i].no = n

Ordered == InOrder /\ AskedBefore /\ AnsweredBefore /\ Covered /\ OwnInOrder

LEMMA OwnFrame == got' = got => \A c : Own(c)' = Own(c)
BY DEF Own

LEMMA LineTasks ==
  ASSUME Types
  PROVE  /\ Line \in Seq(Task) /\ Len(Line) \in Nat /\ DOMAIN Line = 1 .. Len(Line)
         /\ \A i \in DOMAIN Line : /\ Line[i] \in Tasks /\ Line[i] \in Task /\ Line[i].fd \in FD
                                   /\ Line[i].from \in Clients /\ Line[i].no \in Nat
  BY LineParts, LineInTasks, TasksAre

LEMMA OwnNumbers ==
  ASSUME Types, NEW c \in Clients, NEW i \in DOMAIN got[c]
  PROVE  got[c][i] = <<got[c][i][1], got[c][i][2]>> /\ got[c][i][1] \in Clients /\ got[c][i][2] \in Nat
<1>1. got[c] \in Seq(Clients \X Nat)
  BY DEF Types, PipeType
<1>2. got[c][i] \in Clients \X Nat
  BY <1>1
<1> QED
  BY <1>2

\* A step that leaves the line and the answers as they were; who comes has asked nothing.
LEMMA OrderKeeps ==
  ASSUME Types, Ordered, Line' = Line, got' = got, asked' = asked,
         \A c \in Clients : Connected(c)' /\ st'[c] # "closed" => (Connected(c) /\ st[c] # "closed") \/ asked[c] = 0
  PROVE  Ordered'
<1>1. \A c : Own(c)' = Own(c)
  BY OwnFrame
<1>2. InOrder' /\ AskedBefore' /\ AnsweredBefore'
  BY <1>1 DEF Ordered, InOrder, AskedBefore, AnsweredBefore
<1>3. OwnInOrder'
  BY DEF Ordered, OwnInOrder
<1>4. Covered'
  <2> SUFFICES ASSUME NEW c \in Clients, Connected(c)', st'[c] # "closed", NEW n \in 1 .. asked[c]
               PROVE  \/ \E i \in Own(c) : got[c][i][2] = n
                      \/ \E i \in DOMAIN Line : Line[i].from = c /\ Line[i].no = n
    BY <1>1 DEF Covered
  <2>1. asked[c] # 0
    OBVIOUS
  <2> QED
    BY <2>1 DEF Ordered, Covered
<1> QED
  BY <1>2, <1>3, <1>4 DEF Ordered

\* A request comes at the end of the line.
LEMMA OrderJoins ==
  ASSUME Types, Ordered, NEW x \in Task, x.no = asked[x.from] + 1, Line' = Append(Line, x),
         asked' = [asked EXCEPT ![x.from] = @ + 1], UNCHANGED <<got, owner, backlog, st>>
  PROVE  Ordered'
<1>1. Line \in Seq(Task) /\ Len(Line) \in Nat /\ DOMAIN Line = 1 .. Len(Line)
  BY LineTasks
<1>2. /\ Line'[Len(Line) + 1] = x /\ Len(Line) + 1 \in DOMAIN Line'
      /\ \A i \in DOMAIN Line : i \in DOMAIN Line' /\ Line'[i] = Line[i]
      /\ DOMAIN Line' = DOMAIN Line \cup {Len(Line) + 1}
  BY <1>1, QueueEnds
<1>3. PICK c \in Clients : c = x.from /\ x.no = asked[c] + 1
  BY DEF Task
<1>4. /\ asked \in [Clients -> Nat] /\ asked'[c] = asked[c] + 1
      /\ \A d \in Clients : asked[d] \in Nat /\ (d # c => asked'[d] = asked[d]) /\ asked[d] <= asked'[d]
  BY <1>3 DEF Types, PipeType
<1>5. \A d : Own(d)' = Own(d)
  BY OwnFrame
<1>6. /\ \A i \in DOMAIN Line : Line[i].from \in Clients /\ Line[i].no \in Nat /\ Line[i].no <= asked[Line[i].from]
      /\ \A d \in Clients : \A i \in Own(d) : got[d][i][2] \in Nat /\ got[d][i][2] <= asked[d]
  BY LineTasks, OwnNumbers DEF Ordered, AskedBefore, Own
<1>7. InOrder'
  <2> SUFFICES ASSUME NEW i \in DOMAIN Line', NEW j \in DOMAIN Line', i < j, Line'[i].from = Line'[j].from
               PROVE  Line'[i].no < Line'[j].no
    BY DEF InOrder
  <2>1. i \in DOMAIN Line
    BY <1>1, <1>2
  <2>2. CASE j = Len(Line) + 1
    <3>1. Line'[j] = x /\ Line'[i] = Line[i] /\ Line[i].from = c
      BY <1>2, <1>3, <2>1, <2>2
    <3>2. Line[i].no <= asked[c] /\ Line[i].no \in Nat /\ asked[c] \in Nat
      BY <1>4, <1>6, <2>1, <3>1
    <3> QED
      BY <1>3, <3>1, <3>2
  <2>3. CASE j \in DOMAIN Line
    BY <1>2, <2>1, <2>3 DEF Ordered, InOrder
  <2> QED
    BY <1>2, <2>2, <2>3
<1>8. AskedBefore'
  <2>1. ASSUME NEW i \in DOMAIN Line' PROVE Line'[i].no <= asked'[Line'[i].from]
    <3>1. CASE i = Len(Line) + 1
      BY <1>2, <1>3, <1>4, <3>1
    <3>2. CASE i \in DOMAIN Line
      BY <1>2, <1>4, <1>6, <3>2
    <3> QED
      BY <1>2, <3>1, <3>2
  <2>2. ASSUME NEW d \in Clients, NEW i \in Own(d) PROVE got[d][i][2] <= asked'[d]
    BY <1>4, <1>6
  <2> QED
    BY <1>5, <2>1, <2>2 DEF AskedBefore
<1>9. AnsweredBefore'
  <2> SUFFICES ASSUME NEW i \in DOMAIN Line', NEW k \in Own(Line'[i].from)
               PROVE  got[Line'[i].from][k][2] < Line'[i].no
    BY <1>5 DEF AnsweredBefore
  <2>1. CASE i = Len(Line) + 1
    <3>1. Line'[i].from = c /\ Line'[i].no = asked[c] + 1
      BY <1>2, <1>3, <2>1
    <3>2. got[c][k][2] \in Nat /\ got[c][k][2] <= asked[c]
      BY <1>6, <3>1
    <3> QED
      BY <1>4, <3>1, <3>2
  <2>2. CASE i \in DOMAIN Line
    BY <1>2, <2>2 DEF Ordered, AnsweredBefore
  <2> QED
    BY <1>2, <2>1, <2>2
<1>10. Covered'
  <2> SUFFICES ASSUME NEW d \in Clients, Connected(d)', st[d] # "closed", NEW n \in 1 .. asked'[d]
               PROVE  \/ \E i \in Own(d) : got[d][i][2] = n
                      \/ \E i \in DOMAIN Line' : Line'[i].from = d /\ Line'[i].no = n
    BY <1>5 DEF Covered
  <2>1. Connected(d)
    BY DEF Connected
  <2>2. CASE n \in 1 .. asked[d]
    <3>1. \/ \E i \in Own(d) : got[d][i][2] = n
          \/ \E i \in DOMAIN Line : Line[i].from = d /\ Line[i].no = n
      BY <2>1, <2>2 DEF Ordered, Covered
    <3> QED
      BY <1>2, <3>1
  <2>3. CASE n \notin 1 .. asked[d]
    <3>1. d = c /\ n = asked[c] + 1
      BY <1>4, <2>3
    <3> QED
      BY <1>2, <1>3, <3>1
  <2> QED
    BY <2>2, <2>3
<1>11. OwnInOrder'
  BY DEF Ordered, OwnInOrder
<1> QED
  BY <1>7, <1>8, <1>9, <1>10, <1>11 DEF Ordered

\* The answer of the first task of the line is the next one of its client.
LEMMA OrderWrites == ASSUME Inv, Addressed, Ordered, Write PROVE Ordered'
<1>1. writeq # <<>> /\ writeq' = Tail(writeq) /\ UNCHANGED <<asked, backlog, owner, queryq, qt>> /\ UNCHANGED clientVars
      /\ Types
  BY DEF Write, Inv
<1>2. PICK x \in Task :
        /\ x = Head(writeq)
        /\ \/ got' = got /\ (owner[x.fd] \in Clients => st[owner[x.fd]] = "closed")
           \/ /\ owner[x.fd] \in Clients /\ st[owner[x.fd]] # "closed"
              /\ got' = [got EXCEPT ![owner[x.fd]] = Append(@, <<x.from, x.no>>)]
  BY WriteGives
<1>3. Line = <<x>> \o Line' /\ Line' \in Seq(Task)
  BY <1>1, <1>2, LineOfWrite
<1>4. /\ 1 \in DOMAIN Line /\ Line[1] = x
      /\ \A i \in DOMAIN Line' : i \in Nat /\ i > 0 /\ i + 1 \in DOMAIN Line /\ Line'[i] = Line[i + 1]
      /\ \A i \in DOMAIN Line : i = 1 \/ (i - 1 \in DOMAIN Line' /\ Line'[i - 1] = Line[i] /\ i \in Nat /\ i > 1)
  BY <1>3, FirstOfLine
<1>5. /\ x.from \in Clients /\ x.no \in Nat /\ x.fd \in FD /\ x.no <= asked[x.from] /\ asked[x.from] \in Nat
      /\ owner[x.fd] = x.from \/ ~Connected(x.from)
  <2>1. x \in Tasks
    BY <1>1, <1>4, LineTasks
  <2>2. x.from \in Clients /\ x.no \in Nat /\ x.fd \in FD
    BY <1>1, <2>1, TasksAre
  <2>3. x.no <= asked[x.from]
    BY <1>4 DEF Ordered, AskedBefore
  <2>4. asked[x.from] \in Nat
    BY <1>1, <2>2 DEF Types, PipeType
  <2> QED
    BY <2>1, <2>2, <2>3, <2>4 DEF Addressed, Tasked, TasksOf
<1>6. UNCHANGED <<st, script>>
  BY <1>1 DEF clientVars
<1>7. ASSUME NEW i \in DOMAIN Line, i # 1, Line[i].from = x.from
      PROVE  x.no < Line[i].no /\ Line[i].no \in Nat
  <2>1. 1 < i
    BY <1>4, <1>7
  <2>2. x.no < Line[i].no
    BY <1>4, <1>7, <2>1 DEF Ordered, InOrder
  <2> QED
    BY <1>1, <2>2, LineTasks
<1>8. ASSUME NEW k \in Own(x.from) PROVE got[x.from][k][2] < x.no
  BY <1>4 DEF Ordered, AnsweredBefore
<1>9. InOrder'
  <2> SUFFICES ASSUME NEW i \in DOMAIN Line', NEW j \in DOMAIN Line', i < j, Line'[i].from = Line'[j].from
               PROVE  Line'[i].no < Line'[j].no
    BY DEF InOrder
  <2>1. /\ i + 1 \in DOMAIN Line /\ j + 1 \in DOMAIN Line /\ i + 1 < j + 1
        /\ Line'[i] = Line[i + 1] /\ Line'[j] = Line[j + 1]
    BY <1>4
  <2> QED
    BY <2>1 DEF Ordered, InOrder
<1>10. \A i \in DOMAIN Line' : Line'[i].no <= asked[Line'[i].from]
  BY <1>4 DEF Ordered, AskedBefore
<1>11. CASE got' = got /\ (owner[x.fd] \in Clients => st[owner[x.fd]] = "closed")
  <2>1. \A c : Own(c)' = Own(c)
    BY <1>11, OwnFrame
  <2>2. AskedBefore' /\ AnsweredBefore'
    BY <1>1, <1>4, <1>10, <1>11, <2>1 DEF Ordered, AskedBefore, AnsweredBefore
  <2>3. Covered'
    <3> SUFFICES ASSUME NEW c \in Clients, Connected(c)', st[c] # "closed", NEW n \in 1 .. asked[c]
                 PROVE  \/ \E i \in Own(c) : got[c][i][2] = n
                        \/ \E i \in DOMAIN Line' : Line'[i].from = c /\ Line'[i].no = n
      BY <1>1, <1>6, <1>11, <2>1 DEF Covered
    <3>1. Connected(c)
      BY <1>1 DEF Connected
    <3>2. \/ \E i \in Own(c) : got[c][i][2] = n
          \/ \E i \in DOMAIN Line : Line[i].from = c /\ Line[i].no = n
      BY <3>1 DEF Ordered, Covered
    <3>3. x.from # c
      BY <1>5, <1>11, <3>1
    <3>4. ASSUME NEW i \in DOMAIN Line, Line[i].from = c PROVE i - 1 \in DOMAIN Line' /\ Line'[i - 1] = Line[i]
      BY <1>4, <3>3, <3>4
    <3> QED
      BY <3>2, <3>4
  <2>4. OwnInOrder'
    BY <1>11 DEF Ordered, OwnInOrder
  <2> QED
    BY <1>9, <2>2, <2>3, <2>4 DEF Ordered
<1>12. CASE /\ owner[x.fd] \in Clients /\ st[owner[x.fd]] # "closed"
            /\ got' = [got EXCEPT ![owner[x.fd]] = Append(@, <<x.from, x.no>>)]
  <2>1. PICK d \in Clients, y \in Clients \X Nat :
          d = owner[x.fd] /\ st[d] # "closed" /\ y = <<x.from, x.no>> /\ y[1] = x.from /\ y[2] = x.no
    <3>1. <<x.from, x.no>> \in Clients \X Nat /\ <<x.from, x.no>>[1] = x.from /\ <<x.from, x.no>>[2] = x.no
      BY <1>5
    <3>2. owner[x.fd] \in Clients /\ st[owner[x.fd]] # "closed"
      BY <1>12
    <3> QED
      BY <3>1, <3>2
  <2>2. PICK m \in Nat :
          /\ \A c \in Clients : c # d => got'[c] = got[c]
          /\ DOMAIN got[d] = 1 .. m - 1 /\ m > 0
          /\ DOMAIN got'[d] = DOMAIN got[d] \cup {m} /\ got'[d][m] = y
          /\ \A i \in DOMAIN got[d] : got'[d][i] = got[d][i]
    <3>1. /\ \A c \in Clients : c # d => got'[c] = got[c]
          /\ Len(got[d]) \in Nat /\ DOMAIN got[d] = 1 .. Len(got[d])
          /\ DOMAIN got'[d] = DOMAIN got[d] \cup {Len(got[d]) + 1} /\ got'[d][Len(got[d]) + 1] = y
          /\ \A i \in DOMAIN got[d] : got'[d][i] = got[d][i]
      BY <1>1, <1>12, <2>1, AnswersGrow
    <3>2. PICK m \in Nat : m = Len(got[d]) + 1
      BY <3>1
    <3> QED
      BY <3>1, <3>2
  <2>3. \A c \in Clients : Own(c)' = Own(c) \cup (IF c = d /\ x.from = d THEN {m} ELSE {})
    BY <2>1, <2>2 DEF Own
  <2>4. \A c \in Clients : \A i \in Own(c) : i \in DOMAIN got[c] /\ got'[c][i] = got[c][i] /\ (c = d => i \in Nat /\ i < m)
    BY <2>2 DEF Own
  <2>5. AskedBefore'
    <3>1. ASSUME NEW c \in Clients, NEW i \in Own(c)' PROVE got'[c][i][2] <= asked[c]
      <4>1. CASE i \in Own(c)
        BY <2>4, <4>1 DEF Ordered, AskedBefore
      <4>2. CASE i \notin Own(c)
        BY <1>5, <2>1, <2>2, <2>3, <4>2
      <4> QED
        BY <4>1, <4>2
    <3> QED
      BY <1>1, <1>10, <3>1 DEF AskedBefore
  <2>6. AnsweredBefore'
    <3> SUFFICES ASSUME NEW j \in DOMAIN Line', NEW k, (k \in Own(Line[j].from))'
                 PROVE  got'[Line'[j].from][k][2] < Line'[j].no
      BY DEF AnsweredBefore
    <3>1. PICK i \in DOMAIN Line : i # 1 /\ Line'[j] = Line[i] /\ Line[i].from \in Clients
      <4>1. j \in Nat /\ j > 0 /\ j + 1 \in DOMAIN Line /\ Line'[j] = Line[j + 1]
        BY <1>4
      <4> QED
        BY <1>1, <4>1, LineTasks
    <3>4. k \in DOMAIN got'[Line[i].from] /\ got'[Line[i].from][k][1] = Line[i].from
      BY <3>1 DEF Own
    <3>2. CASE k \in Own(Line[i].from)
      BY <2>4, <3>1, <3>2 DEF Ordered, AnsweredBefore
    <3>3. CASE k \notin Own(Line[i].from)
      <4>1. Line[i].from = d /\ x.from = d /\ k = m
        BY <2>1, <2>2, <3>1, <3>3, <3>4 DEF Own
      <4> QED
        BY <1>7, <2>1, <2>2, <3>1, <4>1
    <3> QED
      BY <3>2, <3>3
  <2>7. Covered'
    <3> SUFFICES ASSUME NEW c \in Clients, Connected(c)', st[c] # "closed", NEW n \in 1 .. asked[c]
                 PROVE  \/ \E i \in Own(c)' : got'[c][i][2] = n
                        \/ \E i \in DOMAIN Line' : Line'[i].from = c /\ Line'[i].no = n
      BY <1>1, <1>6 DEF Covered
    <3>1. Connected(c)
      BY <1>1 DEF Connected
    <3>2. CASE \E i \in Own(c) : got[c][i][2] = n
      BY <2>3, <2>4, <3>2
    <3>3. CASE \E i \in DOMAIN Line : Line[i].from = c /\ Line[i].no = n
      <4>1. PICK i \in DOMAIN Line : Line[i].from = c /\ Line[i].no = n
        BY <3>3
      <4>2. CASE i = 1
        <5>1. c = d /\ x.from = d /\ x.no = n
          BY <1>4, <1>5, <2>1, <3>1, <4>1, <4>2
        <5> QED
          BY <2>1, <2>2, <2>3, <5>1
      <4>3. CASE i # 1
        BY <1>4, <4>1, <4>3
      <4> QED
        BY <4>2, <4>3
    <3> QED
      BY <3>1, <3>2, <3>3 DEF Ordered, Covered
  <2>8. ASSUME NEW c \in Clients, NEW i \in DOMAIN got'[c], got'[c][i][1] = c
        PROVE  /\ \A j \in DOMAIN got'[c] : j < i /\ got'[c][j][1] = c => got'[c][j][2] < got'[c][i][2]
               /\ \A n \in 1 .. got'[c][i][2] - 1 : \E j \in DOMAIN got'[c] : j < i /\ got'[c][j] = <<c, n>>
    <3>1. CASE i \in DOMAIN got[c]
      <4>1. got'[c][i] = got[c][i] /\ \A j \in DOMAIN got'[c] : j < i => j \in DOMAIN got[c] /\ got'[c][j] = got[c][j]
        BY <2>2, <3>1
      <4>2. \A j \in DOMAIN got[c] : j \in DOMAIN got'[c] /\ got'[c][j] = got[c][j]
        BY <2>2
      <4>3. /\ \A j \in DOMAIN got[c] : j < i /\ got[c][j][1] = c => got[c][j][2] < got[c][i][2]
            /\ \A n \in 1 .. got[c][i][2] - 1 : \E j \in DOMAIN got[c] : j < i /\ got[c][j] = <<c, n>>
        BY <2>8, <3>1, <4>1 DEF Ordered, OwnInOrder
      <4> QED
        BY <4>1, <4>2, <4>3
    <3>2. CASE i \notin DOMAIN got[c]
      <4>1. c = d /\ i = m /\ x.from = c /\ got'[c][i][2] = x.no
        BY <2>1, <2>2, <2>8, <3>2
      <4>2. ASSUME NEW j \in DOMAIN got'[c], j < i, got'[c][j][1] = c PROVE got'[c][j][2] < x.no
        <5>1. j \in Own(c) /\ got'[c][j] = got[c][j]
          BY <2>2, <4>1, <4>2 DEF Own
        <5> QED
          BY <1>8, <4>1, <5>1
      <4>3. ASSUME NEW n \in 1 .. x.no - 1 PROVE \E j \in DOMAIN got'[c] : j < i /\ got'[c][j] = <<c, n>>
        <5>1. n \in 1 .. asked[c] /\ n < x.no
          BY <1>5, <4>1
        <5>2. Connected(c)
          BY <1>5, <2>1, <4>1, ConnectedIs
        <5>3. ASSUME NEW k \in DOMAIN Line, Line[k].from = c, Line[k].no = n PROVE FALSE
          <6>1. k = 1 \/ x.no < n
            BY <1>7, <4>1, <5>3
          <6>2. k = 1 => x.no = n
            BY <1>4, <5>3
          <6> QED
            BY <1>5, <5>1, <6>1, <6>2
        <5>4. PICK j \in Own(c) : got[c][j][2] = n
          BY <2>1, <4>1, <5>1, <5>2, <5>3 DEF Ordered, Covered
        <5>5. got[c][j] = <<c, n>>
          BY <1>1, <5>4, OwnNumbers DEF Own
        <5> QED
          BY <2>2, <2>4, <4>1, <5>4, <5>5
      <4> QED
        BY <4>1, <4>2, <4>3
    <3> QED
      BY <3>1, <3>2
  <2>9. OwnInOrder'
    BY <2>8 DEF OwnInOrder
  <2> QED
    BY <1>9, <2>5, <2>6, <2>7, <2>9 DEF Ordered
<1> QED
  BY <1>2, <1>11, <1>12

LEMMA InitOrdered == Init => Ordered
<1> SUFFICES ASSUME Init PROVE Ordered
  OBVIOUS
<1>1. Line = <<>>
  BY DEF Init, Line, Working
<1>2. \A c \in Clients : got[c] = <<>> /\ asked[c] = 0
  BY DEF Init
<1> QED
  BY <1>1, <1>2 DEF Ordered, InOrder, AskedBefore, AnsweredBefore, Covered, OwnInOrder, Own

\* Who is there after a step was there before it, or has just come.
LEMMA ClosedGo ==
  ASSUME Inv, NEW f \in FD, Close(f), UNCHANGED <<backlog, st>>, NEW c \in Clients, Connected(c)', st'[c] # "closed"
  PROVE  Connected(c) /\ st[c] # "closed"
<1>1. owner' = [owner EXCEPT ![f] = NoClient] /\ owner \in [FD -> Clients \cup {NoClient}] /\ NoClient \notin Clients
  BY NetServerAssumption DEF Close, Inv, Types, ThreadType
<1>2. owner'[f] = NoClient /\ \A e \in FD : e # f => owner'[e] = owner[e]
  BY <1>1
<1> QED
  BY <1>1, <1>2, ConnectedIs

LEMMA StepOrdered == ASSUME Solo, TRUE \notin FlagValues, Inv, Addressed, Ordered, [Next]_vars PROVE Ordered'
<1>0. Types
  BY DEF Inv
<1>1. ASSUME UNCHANGED <<st, got, asked, backlog, owner>>, Line' = Line PROVE Ordered'
  <2>1. \A c \in Clients : Connected(c)' = Connected(c)
    BY <1>1 DEF Connected
  <2> QED
    BY <1>0, <1>1, <2>1, OrderKeeps
<1>2. CASE UNCHANGED vars
  BY <1>1, <1>2, LineFrame DEF vars
<1>3. ASSUME NEW c \in Clients, Connect(c) PROVE Ordered'
  <2>1. /\ st[c] = "new" /\ st' = [st EXCEPT ![c] = "up"] /\ backlog' = Append(backlog, c)
        /\ UNCHANGED <<got, asked, owner>> /\ UNCHANGED <<writeq, qt, queryq>>
    BY <1>3 DEF Connect, serverVars
  <2>2. st \in [Clients -> {"new", "up", "closed"}] /\ backlog \in Seq(Clients) /\ asked[c] = 0
    BY <1>0, <2>1 DEF Types, ClientType, PipeType, Addressed, Owners
  <2>3. \A i \in DOMAIN backlog' : (i \in DOMAIN backlog /\ backlog'[i] = backlog[i]) \/ backlog'[i] = c
    BY <2>1, <2>2, QueueEnds
  <2>4. \A d \in Clients : d # c /\ Connected(d)' => Connected(d) /\ st'[d] = st[d]
    BY <2>1, <2>2, <2>3, ConnectedIs
  <2> QED
    BY <1>0, <2>1, <2>2, <2>4, LineFrame, OrderKeeps
<1>4. ASSUME NEW c \in Clients, Send(c) PROVE Ordered'
  BY <1>1, <1>4, LineFrame DEF Send, serverVars
<1>5. ASSUME NEW c \in Clients, HangUp(c) PROVE Ordered'
  <2>1. /\ st' = [st EXCEPT ![c] = "closed"] /\ UNCHANGED <<got, asked, owner, backlog>> /\ UNCHANGED <<writeq, qt, queryq>>
    BY <1>5 DEF HangUp, serverVars
  <2>2. st \in [Clients -> {"new", "up", "closed"}]
    BY <1>0 DEF Types, ClientType
  <2>3. \A d \in Clients : Connected(d)' = Connected(d) /\ (st'[d] # "closed" => st'[d] = st[d])
    BY <2>1, <2>2 DEF Connected
  <2> QED
    BY <1>0, <2>1, <2>3, LineFrame, OrderKeeps
<1>6. CASE Select \/ Take \/ PushRead
  BY <1>1, <1>6, LineFrame DEF Select, Take, PushRead, clientVars
<1>7. CASE Accept
  <2>1. UNCHANGED <<st, got, asked>> /\ UNCHANGED <<writeq, qt, queryq>>
    BY <1>7 DEF Accept, clientVars
  <2>2. ASSUME NEW c \in Clients, Connected(c)' PROVE Connected(c)
    <3>1. CASE UNCHANGED <<backlog, owner>>
      BY <2>2, <3>1 DEF Connected
    <3>2. CASE ~UNCHANGED <<backlog, owner>>
      <4>1. PICK f : owner' = [owner EXCEPT ![f] = Head(backlog)] /\ backlog' = Tail(backlog)
        BY <1>7, <3>2 DEF Accept
      <4>2. backlog \in Seq(Clients) /\ backlog # <<>> /\ owner \in [FD -> Clients \cup {NoClient}]
        BY <1>7 DEF Accept, Inv, Types, PipeType, ThreadType, Locals
      <4>3. /\ 1 \in DOMAIN backlog /\ backlog[1] = Head(backlog)
            /\ \A i \in DOMAIN backlog' : i + 1 \in DOMAIN backlog /\ backlog'[i] = backlog[i + 1]
        BY <4>1, <4>2, QueueEnds
      <4>4. \A fd \in FD : owner'[fd] = owner[fd] \/ owner'[fd] = Head(backlog)
        BY <4>1, <4>2
      <4> QED
        BY <2>2, <4>3, <4>4, ConnectedIs
    <3> QED
      BY <3>1, <3>2
  <2> QED
    BY <1>0, <2>1, <2>2, LineFrame, OrderKeeps
<1>8. CASE ReadPop \/ ReadData \/ ReadNothing \/ SkipLong \/ EndOfBuffer \/ Loop \/ WaitRest
  BY <1>1, <1>8, LineFrame DEF ReadPop, ReadData, ReadNothing, SkipLong, EndOfBuffer, Loop, WaitRest, clientVars
<1>9. CASE ReadEnd \/ BadHead
  <2>1. Close(rd.fd) /\ UNCHANGED <<st, got, asked, backlog>> /\ UNCHANGED <<writeq, qt, queryq>> /\ rd.pc # "pop"
    BY <1>9 DEF ReadEnd, BadHead, clientVars
  <2>2. rd.fd \in FD
    BY <2>1, ReadersOwn
  <2> QED
    BY <1>0, <2>1, <2>2, LineFrame, ClosedGo, OrderKeeps
<1>10. CASE PushFrame \/ PushHtml
  <2>1. /\ rd.pc # "pop" /\ UNCHANGED <<got, owner, backlog, st>> /\ UNCHANGED <<writeq, qt>>
        /\ \E html \in BOOLEAN : Enqueue(rd.fd, html)
    BY <1>10, NetServerAssumption DEF PushFrame, PushHtml, clientVars
  <2>2. PICK x \in Task : /\ x.no = asked[x.from] + 1 /\ Line' = Append(Line, x)
                          /\ asked' = [asked EXCEPT ![x.from] = @ + 1]
    BY <2>1, EnqueueTask
  <2> QED
    BY <1>0, <2>1, <2>2, OrderJoins
<1>11. CASE WriteClose
  <2>1. Close(wr) /\ wr # 0 /\ UNCHANGED <<st, got, asked, backlog>> /\ UNCHANGED <<writeq, qt, queryq>>
    BY <1>11 DEF WriteClose, clientVars
  <2>2. wr \in FD
    BY <1>0, <2>1 DEF Types, ThreadType
  <2> QED
    BY <1>0, <2>1, <2>2, LineFrame, ClosedGo, OrderKeeps
<1>12. ASSUME NEW t \in QueryThreads, Query(t) PROVE Ordered'
  <2>1. UNCHANGED <<st, got, asked, backlog, owner>>
    BY <1>12 DEF Query, QueryPop, QueryPush, clientVars
  <2>2. Line' = Line
    BY <1>0, <1>12, LineOfPop, LineOfPush DEF Query
  <2> QED
    BY <1>1, <2>1, <2>2
<1>13. CASE Write
  BY <1>13, OrderWrites
<1> QED
  BY <1>2, <1>3, <1>4, <1>5, <1>6, <1>7, <1>8, <1>9, <1>10, <1>11, <1>12, <1>13 DEF Next, Listener, Reader, Writer, Query

(***************************************************************************)
(* No answer goes astray but those of clients that gave up, and with one   *)
(* query thread a client gets the answers to its own requests once each    *)
(* and in their order, for any clients that come, stop, hang up or send    *)
(* what they like, any descriptors, and any sizes of frames, buffer and    *)
(* queues, if bHtml is FALSE for a frame.                                  *)
(***************************************************************************)
THEOREM AnswersReachTheirAskers == TRUE \notin FlagValues => (Spec => []AnswersReachTheirAsker)
<1> SUFFICES ASSUME TRUE \notin FlagValues PROVE Spec => []AnswersReachTheirAsker
  OBVIOUS
<1> DEFINE All == Addressed /\ (Solo => Ordered)
<1>1. Init => All
  BY InitAddressed, InitOrdered
<1>2. Solo' <=> Solo
  BY DEF Solo
<1>3. Inv /\ All /\ [Next]_vars => All'
  BY <1>2, StepAddressed, StepOrdered
<1>4. All => AnswersReachTheirAsker
  BY DEF AnswersReachTheirAsker, Addressed, Ordered
<1>5. Spec => []Inv
  BY NetInvariant
<1> HIDE DEF All
<1> QED
  BY <1>1, <1>3, <1>4, <1>5, PTL DEF Spec

-----------------------------------------------------------------------------
(***************************************************************************)
(* The queue between the threads.  NetServer takes it for a sequence of    *)
(* Capacity places; what follows is about LockedQueue, for every SIZE and  *)
(* any number of threads.                                                  *)
(***************************************************************************)

(***************************************************************************)
(* full(): the expression (end+1+SIZE)%SIZE is the index after end, and    *)
(* the ring is full when all slots but one are used.                       *)
(***************************************************************************)
LEMMA ModOnce ==
  ASSUME NEW n \in Nat \ {0}, NEW a \in 0 .. n - 1
  PROVE  (a + n) % n = a /\ (n + n) % n = 0
OBVIOUS

LEMMA FullMeans ==
  ASSUME begin \in Slot, end \in Slot
  PROVE  /\ Full <=> begin = NextSlot(end)
         /\ Full <=> Used = SIZE - 1
         /\ Empty <=> Used = 0
         /\ Used \in 0 .. SIZE - 1
         /\ NextSlot(end) \in Slot /\ NextSlot(begin) \in Slot
<1>1. (end + 1 + SIZE) % SIZE = NextSlot(end)
  <2>1. CASE end + 1 = SIZE
    BY <2>1, ModOnce, LockedQueueAssumption DEF NextSlot, Slot
  <2>2. CASE end + 1 # SIZE
    BY <2>2, ModOnce, LockedQueueAssumption DEF NextSlot, Slot
  <2>3. QED
    BY <2>1, <2>2
<1>2. Full <=> begin = NextSlot(end)
  BY <1>1 DEF Full
<1>3. QED
  BY <1>2, LockedQueueAssumption DEF Used, NextSlot, Slot, Empty

\* What a push and a pop do to the number of items.
LEMMA UsedSteps ==
  ASSUME begin \in Slot, end \in Slot
  PROVE  /\ ~Full /\ end' = NextSlot(end) /\ begin' = begin => Used' = Used + 1
         /\ ~Empty /\ begin' = NextSlot(begin) /\ end' = end => Used' = Used - 1
BY FullMeans, LockedQueueAssumption DEF Used, NextSlot, Slot, Empty

(***************************************************************************)
(* The inductive invariant: besides the types, the slot a consumer holds   *)
(* is the one before begin, which stays free until the next pop.           *)
(***************************************************************************)
OneConsumer == \A c, d \in Consumers : c = d

HeldSlot ==
  \A c \in Consumers : cons[c].pc = "copy" =>
    /\ NextSlot(cons[c].slot) = begin
    /\ queue[cons[c].slot] = popped[c]

ConsType == [Consumers -> [pc : {"out", "pop", "wait", "copy"}, slot : Slot]]
ProdType == [Producers -> [pc : {"out", "push", "wait"}, item : Item \cup {0}]]

LEMMA InitTypes == QueueInit => QueueTypeOK
BY LockedQueueAssumption DEF QueueInit, QueueTypeOK, Slot

LEMMA NextTypes == QueueTypeOK /\ [QueueNext]_queueVars => QueueTypeOK'
<1> SUFFICES ASSUME QueueTypeOK, [QueueNext]_queueVars PROVE QueueTypeOK'
  OBVIOUS
<1> USE DEF QueueTypeOK
<1>1. ASSUME NEW p \in Producers, CallPush(p) PROVE QueueTypeOK'
  BY <1>1, LockedQueueAssumption DEF CallPush, Item
<1>2. ASSUME NEW p \in Producers, WaitNotFull(p) PROVE QueueTypeOK'
  BY <1>2 DEF WaitNotFull
<1>3. ASSUME NEW p \in Producers, Push(p) PROVE QueueTypeOK'
  <2>1. cons' \in ConsType
    <3>1. cons' = cons \/ \E w \in Consumers : cons' = [cons EXCEPT ![w].pc = "pop"]
      BY <1>3 DEF Push, Signal
    <3>2. CASE cons' = cons
      BY <3>2 DEF ConsType
    <3>3. CASE \E w \in Consumers : cons' = [cons EXCEPT ![w].pc = "pop"]
      BY <3>3, SMTT(20), ZenonT(40) DEF ConsType
    <3>4. QED
      BY <3>1, <3>2, <3>3
  <2>2. end' \in Slot
    BY <1>3, FullMeans DEF Push
  <2>3. QED
    BY <1>3, <2>1, <2>2 DEF Push, ConsType
<1>4. ASSUME NEW p \in Producers, WakeProducer(p) PROVE QueueTypeOK'
  BY <1>4 DEF WakeProducer
<1>5. ASSUME NEW c \in Consumers, CallPop(c) PROVE QueueTypeOK'
  BY <1>5 DEF CallPop
<1>6. ASSUME NEW c \in Consumers, WaitNotEmpty(c) PROVE QueueTypeOK'
  BY <1>6 DEF WaitNotEmpty
<1>7. ASSUME NEW c \in Consumers, Pop(c) PROVE QueueTypeOK'
  <2>1. prod' \in ProdType
    <3>1. prod' = prod \/ \E w \in Producers : prod' = [prod EXCEPT ![w].pc = "push"]
      BY <1>7 DEF Pop, Signal
    <3>2. CASE prod' = prod
      BY <3>2 DEF ProdType
    <3>3. CASE \E w \in Producers : prod' = [prod EXCEPT ![w].pc = "push"]
      BY <3>3 DEF ProdType
    <3>4. QED
      BY <3>1, <3>2, <3>3
  <2>2. begin' \in Slot
    BY <1>7, FullMeans DEF Pop
  <2>3. QED
    BY <1>7, <2>1, <2>2 DEF Pop, ProdType
<1>8. ASSUME NEW c \in Consumers, Copy(c) PROVE QueueTypeOK'
  <2>1. queue[cons[c].slot] \in Item \cup {0}
    OBVIOUS
  <2>2. received' \in Seq(Item \cup {0})
    BY <1>8, <2>1 DEF Copy
  <2>3. QED
    BY <1>8, <2>2 DEF Copy
<1>9. ASSUME NEW c \in Consumers, WakeConsumer(c) PROVE QueueTypeOK'
  BY <1>9 DEF WakeConsumer
<1>10. CASE UNCHANGED queueVars
  BY <1>10 DEF queueVars
<1>11. QED
  BY <1>1, <1>2, <1>3, <1>4, <1>5, <1>6, <1>7, <1>8, <1>9, <1>10 DEF QueueNext, Producer, Consumer

\* The awake threads are counted: one more, one less.
LEMMA CountMore ==
  ASSUME NEW P, IsFiniteSet(P), NEW w, w \notin P
  PROVE  Cardinality(P \cup {w}) = Cardinality(P) + 1
BY FS_AddElement

LEMMA CountLess ==
  ASSUME NEW P, IsFiniteSet(P), NEW w \in P
  PROVE  Cardinality(P \ {w}) = Cardinality(P) - 1
BY FS_RemoveElement

LEMMA CountType ==
  ASSUME NEW T, IsFiniteSet(T), NEW th, NEW pc
  PROVE  IsFiniteSet(At(th, T, pc)) /\ Cardinality(At(th, T, pc)) \in Nat
<1>1. At(th, T, pc) \subseteq T
  BY DEF At
<1>2. QED
  BY <1>1, FS_Subset, FS_CardinalityType

THEOREM QueueTypeCorrect == QueueSpec => []QueueTypeOK
BY InitTypes, NextTypes, PTL DEF QueueSpec

LEMMA InitHeld == QueueInit => HeldSlot
BY DEF QueueInit, HeldSlot

LEMMA NextHeld == OneConsumer /\ QueueTypeOK /\ HeldSlot /\ [QueueNext]_queueVars => HeldSlot'
<1> SUFFICES ASSUME OneConsumer, QueueTypeOK, HeldSlot, [QueueNext]_queueVars,
                    NEW c \in Consumers, (cons[c].pc = "copy")'
             PROVE  (NextSlot(cons[c].slot) = begin /\ queue[cons[c].slot] = popped[c])'
  BY DEF HeldSlot
<1> USE DEF QueueTypeOK
<1>1. ASSUME NEW p \in Producers, Push(p)
      PROVE  (NextSlot(cons[c].slot) = begin /\ queue[cons[c].slot] = popped[c])'
  <2>1. cons' = cons \/ \E w \in Consumers : cons' = [cons EXCEPT ![w].pc = "pop"]
    BY <1>1 DEF Push, Signal
  <2>2. cons'[c] = cons[c]
    BY <2>1
  <2>3. cons[c].slot # end
    BY <1>1, <2>2, FullMeans DEF Push, HeldSlot
  <2>4. queue'[cons[c].slot] = queue[cons[c].slot]
    BY <1>1, <2>3 DEF Push
  <2>5. QED
    BY <1>1, <2>2, <2>4 DEF Push, HeldSlot, NextSlot
<1>2. ASSUME NEW d \in Consumers, Pop(d)
      PROVE  (NextSlot(cons[c].slot) = begin /\ queue[cons[c].slot] = popped[c])'
  <2>1. c = d
    BY DEF OneConsumer
  <2>2. QED
    BY <1>2, <2>1 DEF Pop, NextSlot
<1>3. ASSUME \/ \E p \in Producers : CallPush(p) \/ WaitNotFull(p) \/ WakeProducer(p)
             \/ UNCHANGED queueVars
      PROVE  (NextSlot(cons[c].slot) = begin /\ queue[cons[c].slot] = popped[c])'
  BY <1>3 DEF CallPush, WaitNotFull, WakeProducer, queueVars, HeldSlot, NextSlot
<1>4. ASSUME NEW d \in Consumers, CallPop(d) \/ WaitNotEmpty(d) \/ Copy(d) \/ WakeConsumer(d)
      PROVE  (NextSlot(cons[c].slot) = begin /\ queue[cons[c].slot] = popped[c])'
  <2>1. cons[c].pc = "copy" /\ cons'[c].slot = cons[c].slot
    BY <1>4 DEF CallPop, WaitNotEmpty, Copy, WakeConsumer
  <2>2. QED
    BY <1>4, <2>1 DEF CallPop, WaitNotEmpty, Copy, WakeConsumer, HeldSlot, NextSlot
<1>5. QED
  BY <1>1, <1>2, <1>3, <1>4 DEF QueueNext, Producer, Consumer

(***************************************************************************)
(* With one consumer, the reference that pop returns is not written to     *)
(* before the consumer has copied the item, whatever the producers do.     *)
(***************************************************************************)
THEOREM OneConsumerCopies == OneConsumer => (QueueSpec => []ReferenceIntact)
<1> SUFFICES ASSUME OneConsumer PROVE QueueSpec => []ReferenceIntact
  OBVIOUS
<1>1. QueueTypeOK /\ HeldSlot /\ [QueueNext]_queueVars => HeldSlot'
  BY NextHeld
<1>2. HeldSlot => ReferenceIntact
  BY DEF HeldSlot, ReferenceIntact
<1>3. QED
  BY InitTypes, NextTypes, InitHeld, <1>1, <1>2, PTL DEF QueueSpec

-----------------------------------------------------------------------------
(***************************************************************************)
(* EnoughAwake is inductive with the types: a thread goes to sleep only    *)
(* when there is nothing for it, a signal adds one awake thread for the    *)
(* one item or the one free slot it announces, and each thread that is     *)
(* served takes no more than one.                                          *)
(***************************************************************************)
EnoughPop  == At(cons, Consumers, "wait") # {} => Used <= Cardinality(At(cons, Consumers, "pop"))
EnoughPush == At(prod, Producers, "wait") # {} => SIZE - 1 - Used <= Cardinality(At(prod, Producers, "push"))

LEMMA InitEnough == QueueInit => EnoughAwake
BY LockedQueueAssumption DEF QueueInit, EnoughAwake, At

LEMMA UsedSame == begin' = begin /\ end' = end => Used' = Used
BY DEF Used

LEMMA NextEnoughPop == QueueTypeOK /\ EnoughPop /\ [QueueNext]_queueVars => EnoughPop'
<1> SUFFICES ASSUME QueueTypeOK, EnoughPop, [QueueNext]_queueVars, At(cons', Consumers, "wait") # {}
             PROVE  Used' <= Cardinality(At(cons', Consumers, "pop"))
  BY DEF EnoughPop, At
<1> DEFINE n == Cardinality(At(cons, Consumers, "pop"))
           m == Cardinality(At(cons', Consumers, "pop"))
<1>0. n \in Nat /\ m \in Nat /\ Used \in 0 .. SIZE - 1 /\ SIZE \in Nat
  BY CountType, FullMeans, LockedQueueAssumption DEF QueueTypeOK
<1>00. cons \in ConsType /\ IsFiniteSet(Consumers)
  BY LockedQueueAssumption DEF QueueTypeOK, ConsType
<1>1. ASSUME NEW p \in Producers, Push(p) PROVE Used' <= m
  <2>1. Used' = Used + 1
    BY <1>1, UsedSteps DEF Push, QueueTypeOK
  <2>2. PICK w \in Consumers : cons[w].pc = "wait" /\ cons' = [cons EXCEPT ![w].pc = "pop"]
    <3>1. \E x \in Consumers : cons'[x].pc = "wait"
      BY DEF At
    <3>2. \/ cons' = cons /\ ~ \E x \in Consumers : cons[x].pc = "wait"
          \/ \E w \in Consumers : cons[w].pc = "wait" /\ cons' = [cons EXCEPT ![w].pc = "pop"]
      BY <1>1 DEF Push, Signal
    <3>3. QED
      BY <3>1, <3>2
  <2>3. m = n + 1
    <3>1. w \notin At(cons, Consumers, "pop")
          /\ At(cons', Consumers, "pop") = At(cons, Consumers, "pop") \cup {w}
      BY <2>2, <1>00 DEF ConsType, At
    <3>2. QED
      BY <3>1, <1>00, CountMore, CountType
  <2>4. Used <= n
    BY <2>2 DEF EnoughPop, At
  <2>5. QED
    BY <1>0, <2>1, <2>3, <2>4
<1>2. ASSUME NEW c \in Consumers, Pop(c) PROVE Used' <= m
  <2>1. Used' = Used - 1
    BY <1>2, UsedSteps DEF Pop, QueueTypeOK
  <2>2. c \in At(cons, Consumers, "pop")
        /\ At(cons', Consumers, "pop") = At(cons, Consumers, "pop") \ {c}
    BY <1>2, <1>00 DEF Pop, ConsType, At
  <2>3. m = n - 1
    BY <2>2, <1>00, CountLess, CountType
  <2>4. Used <= n
    <3>1. At(cons, Consumers, "wait") # {}
      BY <1>2, <1>00 DEF Pop, At, ConsType
    <3>2. QED
      BY <3>1 DEF EnoughPop
  <2>5. QED
    BY <1>0, <2>1, <2>3, <2>4
<1>3. ASSUME NEW c \in Consumers, WaitNotEmpty(c) PROVE Used' <= m
  <2>1. Used = 0 /\ Used' = Used
    BY <1>3, UsedSame, FullMeans DEF WaitNotEmpty, QueueTypeOK
  <2>2. QED
    BY <2>1, <1>0
<1>4. ASSUME NEW c \in Consumers, CallPop(c) \/ WakeConsumer(c) PROVE Used' <= m
  <2>1. c \notin At(cons, Consumers, "pop")
        /\ At(cons', Consumers, "pop") = At(cons, Consumers, "pop") \cup {c}
    BY <1>4, <1>00 DEF CallPop, WakeConsumer, ConsType, At
  <2>2. m = n + 1
    BY <2>1, <1>00, CountMore, CountType
  <2>3. At(cons, Consumers, "wait") # {}
    BY <1>4, <1>00 DEF CallPop, WakeConsumer, ConsType, At
  <2>4. Used' = Used
    BY <1>4, UsedSame DEF CallPop, WakeConsumer
  <2>5. QED
    BY <1>0, <2>2, <2>3, <2>4 DEF EnoughPop
<1>5. ASSUME NEW c \in Consumers, Copy(c) PROVE Used' <= m
  <2>1. At(cons', Consumers, "pop") = At(cons, Consumers, "pop")
        /\ At(cons', Consumers, "wait") = At(cons, Consumers, "wait")
    BY <1>5, <1>00 DEF Copy, ConsType, At
  <2>2. QED
    BY <1>5, <2>1, UsedSame DEF Copy, EnoughPop
<1>6. ASSUME cons' = cons, begin' = begin, end' = end PROVE Used' <= m
  BY <1>6, UsedSame DEF EnoughPop
<1>7. QED
  BY <1>1, <1>2, <1>3, <1>4, <1>5, <1>6
  DEF QueueNext, Producer, Consumer, CallPush, WaitNotFull, WakeProducer, queueVars

LEMMA NextEnoughPush == QueueTypeOK /\ EnoughPush /\ [QueueNext]_queueVars => EnoughPush'
<1> SUFFICES ASSUME QueueTypeOK, EnoughPush, [QueueNext]_queueVars, At(prod', Producers, "wait") # {}
             PROVE  SIZE - 1 - Used' <= Cardinality(At(prod', Producers, "push"))
  BY DEF EnoughPush, At
<1> DEFINE n == Cardinality(At(prod, Producers, "push"))
           m == Cardinality(At(prod', Producers, "push"))
<1>0. n \in Nat /\ m \in Nat /\ Used \in 0 .. SIZE - 1 /\ SIZE \in Nat
  BY CountType, FullMeans, LockedQueueAssumption DEF QueueTypeOK
<1>00. prod \in ProdType /\ IsFiniteSet(Producers)
  BY LockedQueueAssumption DEF QueueTypeOK, ProdType
<1>1. ASSUME NEW c \in Consumers, Pop(c) PROVE SIZE - 1 - Used' <= m
  <2>1. Used' = Used - 1
    BY <1>1, UsedSteps DEF Pop, QueueTypeOK
  <2>2. PICK w \in Producers : prod[w].pc = "wait" /\ prod' = [prod EXCEPT ![w].pc = "push"]
    <3>1. \E x \in Producers : prod'[x].pc = "wait"
      BY DEF At
    <3>2. \/ prod' = prod /\ ~ \E x \in Producers : prod[x].pc = "wait"
          \/ \E w \in Producers : prod[w].pc = "wait" /\ prod' = [prod EXCEPT ![w].pc = "push"]
      BY <1>1 DEF Pop, Signal
    <3>3. QED
      BY <3>1, <3>2
  <2>3. m = n + 1
    <3>1. w \notin At(prod, Producers, "push")
          /\ At(prod', Producers, "push") = At(prod, Producers, "push") \cup {w}
      BY <2>2, <1>00 DEF ProdType, At
    <3>2. QED
      BY <3>1, <1>00, CountMore, CountType
  <2>4. SIZE - 1 - Used <= n
    BY <2>2 DEF EnoughPush, At
  <2>5. QED
    BY <1>0, <2>1, <2>3, <2>4
<1>2. ASSUME NEW p \in Producers, Push(p) PROVE SIZE - 1 - Used' <= m
  <2>1. Used' = Used + 1
    BY <1>2, UsedSteps DEF Push, QueueTypeOK
  <2>2. p \in At(prod, Producers, "push")
        /\ At(prod', Producers, "push") = At(prod, Producers, "push") \ {p}
    BY <1>2, <1>00 DEF Push, ProdType, At
  <2>3. m = n - 1
    BY <2>2, <1>00, CountLess, CountType
  <2>4. SIZE - 1 - Used <= n
    <3>1. At(prod, Producers, "wait") # {}
      BY <1>2, <1>00 DEF Push, At, ProdType
    <3>2. QED
      BY <3>1 DEF EnoughPush
  <2>5. QED
    BY <1>0, <2>1, <2>3, <2>4
<1>3. ASSUME NEW p \in Producers, WaitNotFull(p) PROVE SIZE - 1 - Used' <= m
  <2>1. Used = SIZE - 1 /\ Used' = Used
    BY <1>3, UsedSame, FullMeans DEF WaitNotFull, QueueTypeOK
  <2>2. QED
    BY <2>1, <1>0
<1>4. ASSUME NEW p \in Producers, CallPush(p) \/ WakeProducer(p) PROVE SIZE - 1 - Used' <= m
  <2>1. p \notin At(prod, Producers, "push")
        /\ At(prod', Producers, "push") = At(prod, Producers, "push") \cup {p}
    BY <1>4, <1>00 DEF CallPush, WakeProducer, ProdType, At
  <2>2. m = n + 1
    BY <2>1, <1>00, CountMore, CountType
  <2>3. At(prod, Producers, "wait") # {}
    BY <1>4, <1>00 DEF CallPush, WakeProducer, ProdType, At
  <2>4. Used' = Used
    BY <1>4, UsedSame DEF CallPush, WakeProducer
  <2>5. QED
    BY <1>0, <2>2, <2>3, <2>4 DEF EnoughPush
<1>6. ASSUME prod' = prod, begin' = begin, end' = end PROVE SIZE - 1 - Used' <= m
  BY <1>6, UsedSame DEF EnoughPush
<1>7. QED
  BY <1>1, <1>2, <1>3, <1>4, <1>6
  DEF QueueNext, Producer, Consumer, CallPop, WaitNotEmpty, Copy, WakeConsumer, queueVars

(***************************************************************************)
(* One signal per push and one per pop are enough for any number of        *)
(* threads: nobody sleeps through an item or a free slot.                  *)
(***************************************************************************)
THEOREM NoLostWakeup == QueueSpec => []EnoughAwake
<1>1. EnoughAwake <=> EnoughPop /\ EnoughPush
  BY DEF EnoughAwake, EnoughPop, EnoughPush
<1>2. QED
  BY InitTypes, NextTypes, InitEnough, NextEnoughPop, NextEnoughPush, <1>1, PTL DEF QueueSpec
-----------------------------------------------------------------------------
(***************************************************************************)
(* The refinement.  Way is the sequence LockedQueue maps to q: the item    *)
(* being copied and the items in the ring.                                 *)
(***************************************************************************)
Value == Item \cup {0}
CopyHeld  == IF Copying = {} THEN <<>> ELSE <<queue[cons[CHOOSE c \in Copying : TRUE].slot]>>
Way   == CopyHeld \o InRing

LEMMA RingType == QueueTypeOK => InRing \in Seq(Value) /\ Len(InRing) = Used /\ Used \in 0 .. SIZE - 1
<1> SUFFICES ASSUME QueueTypeOK PROVE InRing \in Seq(Value) /\ Len(InRing) = Used /\ Used \in 0 .. SIZE - 1
  OBVIOUS
<1>1. Used \in 0 .. SIZE - 1
  BY FullMeans DEF QueueTypeOK
<1>2. \A k \in 1 .. Used : Plus(k - 1) \in Slot
  BY <1>1, LockedQueueAssumption DEF QueueTypeOK, Slot, Plus
<1>3. InRing \in [1 .. Used -> Value]
  BY <1>2 DEF InRing, QueueTypeOK, Value
<1> QED
  BY <1>1, <1>3, LockedQueueAssumption DEF InRing

LEMMA HeldType == QueueTypeOK => CopyHeld \in Seq(Value) /\ Len(CopyHeld) \in 0 .. 1
<1> SUFFICES ASSUME QueueTypeOK, Copying # {} PROVE CopyHeld \in Seq(Value) /\ Len(CopyHeld) \in 0 .. 1
  BY DEF CopyHeld
<1> DEFINE d == CHOOSE c \in Copying : TRUE
<1>1. d \in Consumers
  BY DEF Copying, At
<1>2. queue[cons[d].slot] \in Value
  BY <1>1 DEF QueueTypeOK, Value
<1>3. CopyHeld = <<queue[cons[d].slot]>>
  BY DEF CopyHeld
<1> HIDE DEF d
<1> QED
  BY <1>2, <1>3

\* A push makes the ring longer at its end.
LEMMA RingPushed ==
  ASSUME QueueTypeOK, QueueTypeOK', ~Full, NEW x \in Value,
         queue' = [queue EXCEPT ![end] = x], begin' = begin, end' = NextSlot(end)
  PROVE  InRing' = Append(InRing, x)
<1>1. Used' = Used + 1 /\ Used \in 0 .. SIZE - 1
  BY UsedSteps, FullMeans DEF QueueTypeOK
<1>2. (InRing \in Seq(Value) /\ Len(InRing) = Used)'
  <2>1. (InRing \in Seq(Value) /\ Len(InRing) = Used /\ Used \in 0 .. SIZE - 1)'
    BY RingType, PTL
  <2> QED
    BY <2>1
<1>0. begin \in 0 .. SIZE - 1 /\ end \in 0 .. SIZE - 1 /\ SIZE \in Nat /\ SIZE > 1
  BY LockedQueueAssumption DEF QueueTypeOK, Slot
<1>3. \A k \in 1 .. Used : Plus(k - 1) \in Slot /\ Plus(k - 1) # end /\ Plus(k - 1)' = Plus(k - 1)
  BY <1>0, <1>1 DEF Slot, Plus, Used
<1>4. (IF begin + Used < SIZE THEN begin + Used ELSE begin + Used - SIZE) = end
  BY <1>0, <1>1 DEF Used
<1>5. \A k \in 1 .. Used : InRing'[k] = InRing[k]
  <2>1. SUFFICES ASSUME NEW k \in 1 .. Used PROVE InRing'[k] = InRing[k]
    OBVIOUS
  <2>2. k \in 1 .. Used'
    BY <1>1
  <2>3. InRing[k] = queue[Plus(k - 1)] /\ InRing'[k] = queue'[Plus(k - 1)']
    BY <2>2 DEF InRing
  <2>4. queue'[Plus(k - 1)] = queue[Plus(k - 1)]
    BY <1>3 DEF QueueTypeOK
  <2> QED
    BY <1>3, <2>3, <2>4
<1>6. InRing'[Used + 1] = x
  <2> DEFINE n == Used
  <2>1. n + 1 \in 1 .. n + 1 /\ (n + 1) - 1 = n
    BY <1>1
  <2>2. InRing' = [k \in 1 .. n + 1 |-> queue'[IF begin + (k - 1) < SIZE THEN begin + (k - 1) ELSE begin + (k - 1) - SIZE]]
    BY <1>1 DEF InRing, Plus
  <2>3. InRing'[n + 1] = queue'[IF begin + n < SIZE THEN begin + n ELSE begin + n - SIZE]
    <3> HIDE DEF n
    <3> QED BY <2>1, <2>2
  <2>4. queue'[end] = x
    BY DEF QueueTypeOK
  <2> QED
    BY <2>3, <2>4, <1>4
<1>7. InRing \in Seq(Value) /\ Len(InRing) = Used
  BY RingType
<1> QED
  BY <1>1, <1>2, <1>5, <1>6, <1>7, AppendProperties, SeqEqual

\* A pop takes its first item.
LEMMA RingPopped ==
  ASSUME QueueTypeOK, QueueTypeOK', ~Empty, queue' = queue, end' = end, begin' = NextSlot(begin)
  PROVE  InRing = <<queue[begin]>> \o InRing'
<1>1. Used' = Used - 1 /\ Used \in 1 .. SIZE - 1
  BY UsedSteps, FullMeans DEF QueueTypeOK
<1>2. (InRing \in Seq(Value) /\ Len(InRing) = Used)'
  <2>1. (InRing \in Seq(Value) /\ Len(InRing) = Used /\ Used \in 0 .. SIZE - 1)'
    BY RingType, PTL
  <2> QED
    BY <2>1
<1>3. InRing \in Seq(Value) /\ Len(InRing) = Used
  BY RingType
<1>4. \A k \in 1 .. Used - 1 : Plus(k - 1)' = Plus(k)
  BY <1>1, LockedQueueAssumption DEF QueueTypeOK, Slot, Plus, NextSlot
<1>5. \A k \in 1 .. Used - 1 : InRing'[k] = InRing[k + 1]
  <2> SUFFICES ASSUME NEW k \in 1 .. Used - 1 PROVE InRing'[k] = InRing[k + 1]
    OBVIOUS
  <2>1. InRing'[k] = queue'[Plus(k - 1)']
    BY <1>1 DEF InRing
  <2>2. InRing[k + 1] = queue[Plus((k + 1) - 1)]
    BY <1>1 DEF InRing
  <2>3. (k + 1) - 1 = k
    BY <1>1
  <2> QED
    BY <2>1, <2>2, <2>3, <1>4
<1>6. InRing[1] = queue[begin]
  <2>1. InRing[1] = queue[Plus(1 - 1)]
    BY <1>1 DEF InRing
  <2>2. Plus(1 - 1) = begin
    BY LockedQueueAssumption DEF QueueTypeOK, Slot, Plus
  <2> QED
    BY <2>1, <2>2
<1>7. <<queue[begin]>> \in Seq(Value)
  BY DEF QueueTypeOK, Value
<1>8. <<queue[begin]>> \o InRing' \in Seq(Value)
  BY <1>2, <1>7
<1>9. Len(<<queue[begin]>> \o InRing') = Used
  BY <1>1, <1>2, <1>7
<1>10. \A i \in 1 .. Used : (<<queue[begin]>> \o InRing')[i] = InRing[i]
  <2> SUFFICES ASSUME NEW i \in 1 .. Used PROVE (<<queue[begin]>> \o InRing')[i] = InRing[i]
    OBVIOUS
  <2>1. (<<queue[begin]>> \o InRing')[i] = IF i <= 1 THEN queue[begin] ELSE InRing'[i - 1]
    BY <1>1, <1>2, <1>7, ConcatProperties
  <2>2. CASE i = 1
    BY <2>1, <2>2, <1>6
  <2>3. CASE i # 1
    <3>1. i - 1 \in 1 .. Used - 1 /\ (i - 1) + 1 = i
      BY <2>3, <1>1
    <3>2. InRing'[i - 1] = InRing[(i - 1) + 1]
      BY <3>1, <1>5
    <3>3. ~(i <= 1)
      BY <2>3
    <3> QED
      BY <2>1, <3>1, <3>2, <3>3
  <2> QED
    BY <2>2, <2>3
<1> QED
  BY <1>3, <1>8, <1>9, <1>10, SeqEqual

LEMMA WayType == QueueTypeOK => Way \in Seq(Value) /\ Len(Way) = Len(CopyHeld) + Used
BY RingType, HeldType, ConcatProperties DEF Way

\* What is held stays the same item as long as the same consumer holds a slot that keeps it.
LEMMA HeldSame ==
  ASSUME Copying' = Copying,
         \A c \in Copying : queue'[cons'[c].slot] = queue[cons[c].slot]
  PROVE  CopyHeld' = CopyHeld
<1>1. CASE Copying = {}
  BY <1>1 DEF CopyHeld
<1>2. CASE Copying # {}
  <2> DEFINE d == CHOOSE c \in Copying : TRUE
  <2>1. d \in Copying
    BY <1>2
  <2>2. (CHOOSE c \in Copying : TRUE)' = d
    OBVIOUS
  <2>3. CopyHeld = <<queue[cons[d].slot]>>
    BY <1>2 DEF CopyHeld
  <2>4. CopyHeld' = <<queue'[cons'[d].slot]>>
    BY <1>2, <2>2 DEF CopyHeld
  <2> HIDE DEF d
  <2> QED
    BY <2>1, <2>3, <2>4
<1> QED
  BY <1>1, <1>2

\* These steps do not change the items on their way.
LEMMA WaySame ==
  ASSUME QueueTypeOK,
         \/ \E p \in Producers : CallPush(p) \/ WaitNotFull(p) \/ WakeProducer(p)
         \/ \E c \in Consumers : CallPop(c) \/ WaitNotEmpty(c) \/ WakeConsumer(c)
         \/ UNCHANGED queueVars
  PROVE  Way' = Way /\ received' = received
<1>1. queue' = queue /\ begin' = begin /\ end' = end /\ received' = received
  BY DEF CallPush, WaitNotFull, WakeProducer, CallPop, WaitNotEmpty, WakeConsumer, queueVars
<1>2. InRing' = InRing
  BY <1>1 DEF InRing, Used, Plus
<1>3. \A c \in Consumers : (cons'[c].pc = "copy") = (cons[c].pc = "copy") /\ cons'[c].slot = cons[c].slot
  <2>1. cons' = cons \/ \E w \in Consumers : cons[w].pc # "copy" /\ \E pc \in {"pop", "wait"} : cons' = [cons EXCEPT ![w].pc = pc]
    BY DEF CallPush, WaitNotFull, WakeProducer, CallPop, WaitNotEmpty, WakeConsumer, queueVars
  <2>2. ASSUME NEW w \in Consumers, cons[w].pc # "copy", NEW pc \in {"pop", "wait"}, cons' = [cons EXCEPT ![w].pc = pc],
               NEW c \in Consumers
        PROVE  (cons'[c].pc = "copy") = (cons[c].pc = "copy") /\ cons'[c].slot = cons[c].slot
    <3>1. cons \in [Consumers -> [pc : {"out", "pop", "wait", "copy"}, slot : Slot]]
      BY DEF QueueTypeOK, ConsType
    <3>2. CASE c = w
      <4>1. cons'[c].pc = pc /\ cons'[c].slot = cons[c].slot
        BY <2>2, <3>1, <3>2
      <4> QED
        BY <2>2, <3>2, <4>1
    <3>3. CASE c # w
      BY <2>2, <3>1, <3>3
    <3> QED
      BY <3>2, <3>3
  <2> QED
    BY <2>1, <2>2
<1>4. Copying' = Copying
  BY <1>3 DEF Copying, At
<1>5. Copying \subseteq Consumers
  BY DEF Copying, At
<1>6. CopyHeld' = CopyHeld
  BY <1>1, <1>3, <1>4, <1>5, HeldSame
<1> QED
  BY <1>1, <1>2, <1>6 DEF Way

\* A push puts its item behind the others.
LEMMA PushPuts ==
  ASSUME QueueTypeOK, QueueTypeOK', HeldSlot, NEW p \in Producers, Push(p)
  PROVE  /\ Way' = Append(Way, prod[p].item)
         /\ received' = received
         /\ Len(Way) < SIZE
<1>1. ~Full /\ queue' = [queue EXCEPT ![end] = prod[p].item] /\ begin' = begin /\ end' = NextSlot(end) /\ received' = received
  BY DEF Push
<1>2. prod[p].item \in Value
  BY DEF QueueTypeOK, Value
<1>3. InRing' = Append(InRing, prod[p].item)
  BY <1>1, <1>2, RingPushed
<1>4. \A c \in Consumers : (cons'[c].pc = "copy") = (cons[c].pc = "copy") /\ cons'[c].slot = cons[c].slot
  <2>1. cons' = cons \/ \E w \in Consumers : cons[w].pc = "wait" /\ cons' = [cons EXCEPT ![w].pc = "pop"]
    BY DEF Push, Signal
  <2>2. CASE cons' = cons
    BY <2>2
  <2>3. ASSUME NEW w \in Consumers, cons[w].pc = "wait", cons' = [cons EXCEPT ![w].pc = "pop"]
        PROVE  \A c \in Consumers : (cons'[c].pc = "copy") = (cons[c].pc = "copy") /\ cons'[c].slot = cons[c].slot
    BY <2>3 DEF QueueTypeOK
  <2> QED
    BY <2>1, <2>2, <2>3
<1>5. Copying' = Copying
  BY <1>4 DEF Copying, At
<1>6. \A c \in Copying : c \in Consumers /\ cons[c].slot # end /\ cons[c].slot \in Slot
  BY <1>1, FullMeans DEF Copying, At, HeldSlot, QueueTypeOK
<1>7. \A c \in Copying : queue'[cons'[c].slot] = queue[cons[c].slot]
  BY <1>1, <1>4, <1>6 DEF QueueTypeOK
<1>8. CopyHeld' = CopyHeld
  BY <1>5, <1>7, HeldSame
<1>9. CopyHeld \o Append(InRing, prod[p].item) = Append(CopyHeld \o InRing, prod[p].item)
  <2>1. <<prod[p].item>> \in Seq(Value) /\ CopyHeld \in Seq(Value) /\ InRing \in Seq(Value)
    BY <1>2, HeldType, RingType
  <2>2. CopyHeld \o InRing \in Seq(Value)
    BY <2>1, ConcatProperties
  <2>3. Append(InRing, prod[p].item) = InRing \o <<prod[p].item>>
    BY <1>2, <2>1, AppendIsConcat
  <2>4. Append(CopyHeld \o InRing, prod[p].item) = (CopyHeld \o InRing) \o <<prod[p].item>>
    BY <1>2, <2>2, AppendIsConcat
  <2> QED
    BY <2>1, <2>3, <2>4, ConcatAssociative
<1>10. Len(Way) < SIZE
  <2>1. Used \in 0 .. SIZE - 1 /\ Used # SIZE - 1
    BY <1>1, FullMeans DEF QueueTypeOK
  <2>2. Len(CopyHeld) \in 0 .. 1 /\ Len(Way) = Len(CopyHeld) + Used
    BY HeldType, WayType
  <2>3. SIZE \in Nat
    BY LockedQueueAssumption
  <2>4. \A h \in 0 .. 1, u \in 0 .. SIZE - 1 : u # SIZE - 1 => h + u < SIZE
    BY <2>3
  <2> QED
    BY <2>1, <2>2, <2>4
<1> QED
  BY <1>1, <1>3, <1>8, <1>9, <1>10 DEF Way

\* The only consumer takes the first item from the ring and holds it: it is still the first.
LEMMA PopKeeps ==
  ASSUME OneConsumer, QueueTypeOK, QueueTypeOK', NEW c \in Consumers, Pop(c)
  PROVE  Way' = Way /\ received' = received
<1>1. Copying = {} /\ Copying' = {c}
  BY DEF Pop, Copying, At, OneConsumer, QueueTypeOK
<1>2. ~Empty /\ queue' = queue /\ end' = end /\ begin' = NextSlot(begin) /\ received' = received
  BY DEF Pop
<1>3. InRing = <<queue[begin]>> \o InRing'
  BY <1>2, RingPopped
<1>4. CopyHeld = <<>>
  BY <1>1 DEF CopyHeld
<1>5. (CHOOSE d \in Copying : TRUE)' = c
  BY <1>1
<1>6. cons'[c].slot = begin
  BY DEF Pop, QueueTypeOK
<1>7. CopyHeld' = <<queue[begin]>>
  BY <1>1, <1>2, <1>5, <1>6 DEF CopyHeld
<1>8. <<>> \o InRing = InRing
  BY RingType, ConcatEmptySeq
<1> QED
  BY <1>2, <1>3, <1>4, <1>7, <1>8 DEF Way

\* The copy takes it.
LEMMA CopyTakes ==
  ASSUME OneConsumer, QueueTypeOK, QueueTypeOK', NEW c \in Consumers, Copy(c)
  PROVE  Way # <<>> /\ received' = Append(received, Head(Way)) /\ Way' = Tail(Way)
<1> DEFINE v == queue[cons[c].slot]
<1>1. Copying = {c} /\ Copying' = {}
  BY DEF Copy, Copying, At, OneConsumer, QueueTypeOK
<1>2. queue' = queue /\ begin' = begin /\ end' = end /\ received' = Append(received, v)
  BY DEF Copy
<1>3. InRing' = InRing
  BY <1>2 DEF InRing, Used, Plus
<1>4. CopyHeld = <<v>> /\ CopyHeld' = <<>>
  BY <1>1 DEF CopyHeld
<1>5. v \in Value /\ <<v>> \in Seq(Value)
  BY DEF QueueTypeOK, Value
<1>6. InRing \in Seq(Value)
  BY RingType
<1> HIDE DEF v
<1>7. <<v>> \o InRing \in Seq(Value) /\ Len(<<v>> \o InRing) = 1 + Len(InRing)
  BY <1>5, <1>6, ConcatProperties
<1>8. (<<v>> \o InRing)[1] = v
  BY <1>5, <1>6, ConcatProperties
<1>9. Tail(<<v>> \o InRing) = InRing
  <2> DEFINE w == <<v>> \o InRing
  <2>1. w \in Seq(Value) /\ w # <<>>
    BY <1>6, <1>7
  <2>2. Tail(w) \in Seq(Value) /\ Len(Tail(w)) = Len(InRing) /\ \A i \in 1 .. Len(InRing) : Tail(w)[i] = w[i + 1]
    BY <2>1, <1>6, <1>7, HeadTailProperties
  <2>3. \A i \in 1 .. Len(InRing) : w[i + 1] = InRing[i]
    <3> SUFFICES ASSUME NEW i \in 1 .. Len(InRing) PROVE w[i + 1] = InRing[i]
      OBVIOUS
    <3>1. i + 1 \in 1 .. 1 + Len(InRing) /\ ~(i + 1 <= 1) /\ (i + 1) - 1 = i
      BY <1>6
    <3> QED
      BY <3>1, <1>5, <1>6, ConcatProperties
  <2> HIDE DEF w
  <2> QED
    BY <2>2, <2>3, <1>6, SeqEqual DEF w
<1>10. <<>> \o InRing' = InRing
  BY <1>3, <1>6, ConcatEmptySeq
<1> QED
  BY <1>2, <1>4, <1>7, <1>8, <1>9, <1>10, <1>6 DEF Way

(***************************************************************************)
(* No item is put twice: those that are on their way or were taken are     *)
(* none that a producer still has, and no two producers have the same.     *)
(***************************************************************************)
Seen == Elements(Way) \cup Elements(received)

Fresh ==
  /\ \A p \in Producers : prod[p].pc # "out" => prod[p].item \in 1 .. made
  /\ \A p, r \in Producers : prod[p].pc # "out" /\ prod[r].pc # "out" /\ prod[p].item = prod[r].item => p = r
  /\ \A x \in Seen : x \in 1 .. made /\ \A p \in Producers : prod[p].pc # "out" => prod[p].item # x

LEMMA AppendElements ==
  ASSUME NEW S, NEW s \in Seq(S), NEW x \in S
  PROVE  Elements(Append(s, x)) = Elements(s) \cup {x}
BY AppendProperties DEF Elements

LEMMA TakenElements ==
  ASSUME NEW S, NEW s \in Seq(S), s # <<>>, NEW t \in Seq(S)
  PROVE  Elements(Tail(s)) \cup Elements(Append(t, Head(s))) \subseteq Elements(s) \cup Elements(t)
<1>1. Head(s) \in S /\ Head(s) = s[1] /\ 1 \in DOMAIN s
  OBVIOUS
<1>2. Elements(Append(t, Head(s))) = Elements(t) \cup {Head(s)}
  BY <1>1, AppendElements
<1>3. Elements(Tail(s)) \subseteq Elements(s)
  BY HeadTailProperties DEF Elements
<1> QED
  BY <1>1, <1>2, <1>3 DEF Elements

LEMMA InitWay == QueueInit => Way = <<>> /\ received = <<>> /\ Fresh
<1> SUFFICES ASSUME QueueInit PROVE Way = <<>> /\ received = <<>> /\ Fresh
  OBVIOUS
<1>1. Copying = {} /\ CopyHeld = <<>>
  BY DEF QueueInit, Copying, At, CopyHeld
<1>2. QueueTypeOK /\ Used = 0
  BY InitTypes DEF QueueInit, Used
<1>3. InRing = <<>>
  BY <1>2, RingType
<1>4. Way = <<>>
  BY <1>1, <1>3 DEF Way
<1> QED
  BY <1>4 DEF QueueInit, Fresh, Seen, Elements

\* What a step does to the items on their way.
Puts(p) ==
  /\ Push(p)
  /\ Way' = Append(Way, prod[p].item) /\ received' = received /\ Len(Way) < SIZE
Takes ==
  /\ \E c \in Consumers : Copy(c)
  /\ Way # <<>> /\ received' = Append(received, Head(Way)) /\ Way' = Tail(Way)

LEMMA WaySteps ==
  ASSUME OneConsumer, QueueTypeOK, QueueTypeOK', HeldSlot, [QueueNext]_queueVars
  PROVE  (Way' = Way /\ received' = received) \/ Takes \/ \E p \in Producers : Puts(p)
<1>1. ASSUME NEW p \in Producers, Push(p) PROVE Puts(p)
  BY <1>1, PushPuts DEF Puts
<1>2. ASSUME NEW c \in Consumers, Pop(c) PROVE Way' = Way /\ received' = received
  BY <1>2, PopKeeps
<1>3. ASSUME NEW c \in Consumers, Copy(c) PROVE Takes
  BY <1>3, CopyTakes DEF Takes
<1> QED
  BY <1>1, <1>2, <1>3, WaySame DEF QueueNext, Producer, Consumer

\* Only CallPush and Push change what a producer has.
LEMMA HasSame ==
  ASSUME QueueTypeOK, [QueueNext]_queueVars, ~(\E p \in Producers : CallPush(p) \/ Push(p))
  PROVE  made' = made /\ \A p \in Producers : prod'[p].item = prod[p].item /\ (prod'[p].pc # "out") = (prod[p].pc # "out")
<1> DEFINE Same == made' = made /\ \A p \in Producers : prod'[p].item = prod[p].item /\ (prod'[p].pc # "out") = (prod[p].pc # "out")
<1>1. ASSUME NEW r \in Producers, WaitNotFull(r) \/ WakeProducer(r) PROVE Same
  <2>1. PICK pc \in {"push", "wait"} : prod' = [prod EXCEPT ![r].pc = pc]
    BY <1>1 DEF WaitNotFull, WakeProducer
  <2>2. prod[r].pc # "out" /\ made' = made
    BY <1>1 DEF WaitNotFull, WakeProducer
  <2> QED
    BY <2>1, <2>2 DEF QueueTypeOK
<1>2. ASSUME NEW c \in Consumers, CallPop(c) \/ WaitNotEmpty(c) \/ Copy(c) \/ WakeConsumer(c) PROVE Same
  BY <1>2 DEF CallPop, WaitNotEmpty, Copy, WakeConsumer
<1>3. ASSUME NEW c \in Consumers, Pop(c) PROVE Same
  <2>1. prod' = prod \/ \E w \in Producers : prod[w].pc = "wait" /\ prod' = [prod EXCEPT ![w].pc = "push"]
    BY <1>3 DEF Pop, Signal
  <2>2. ASSUME NEW w \in Producers, prod[w].pc = "wait", prod' = [prod EXCEPT ![w].pc = "push"] PROVE Same
    BY <1>3, <2>2 DEF Pop, QueueTypeOK
  <2>3. CASE prod' = prod
    BY <1>3, <2>3 DEF Pop
  <2> QED
    BY <2>1, <2>2, <2>3
<1>4. CASE UNCHANGED queueVars
  BY <1>4 DEF queueVars
<1> QED
  BY <1>1, <1>2, <1>3, <1>4 DEF QueueNext, Producer, Consumer

LEMMA FreshSame ==
  ASSUME Fresh, Seen' \subseteq Seen, made' = made,
         \A p \in Producers : prod'[p].item = prod[p].item /\ (prod'[p].pc # "out") = (prod[p].pc # "out")
  PROVE  Fresh'
BY DEF Fresh

LEMMA NextFresh ==
  ASSUME OneConsumer, QueueTypeOK, QueueTypeOK', HeldSlot, Fresh, [QueueNext]_queueVars
  PROVE  Fresh'
<1>0. Way \in Seq(Value) /\ received \in Seq(Value)
  BY WayType DEF QueueTypeOK, Value
<1>1. ASSUME NEW p \in Producers, CallPush(p) PROVE Fresh'
  <2>1. Seen' = Seen
    BY <1>1, WaySame DEF Seen
  <2>2. made' = made + 1 /\ made \in Nat /\ prod' = [prod EXCEPT ![p] = [pc |-> "push", item |-> made + 1]]
    BY <1>1 DEF CallPush, QueueTypeOK
  <2> QED
    BY <2>1, <2>2 DEF Fresh, QueueTypeOK
<1>2. ASSUME NEW p \in Producers, Push(p) PROVE Fresh'
  <2>1. Way' = Append(Way, prod[p].item) /\ received' = received
    BY <1>2, PushPuts
  <2>2. Seen' = Seen \cup {prod[p].item}
    <3>1. prod[p].item \in Value
      BY DEF QueueTypeOK, Value
    <3>2. Elements(Append(Way, prod[p].item)) = Elements(Way) \cup {prod[p].item}
      BY <1>0, <3>1, AppendElements
    <3> QED
      BY <2>1, <3>2 DEF Seen
  <2>3. made' = made /\ prod[p].pc # "out" /\ prod' = [prod EXCEPT ![p] = [pc |-> "out", item |-> 0]]
    BY <1>2 DEF Push
  <2> QED
    BY <2>2, <2>3 DEF Fresh, QueueTypeOK
<1>3. ASSUME ~(\E p \in Producers : CallPush(p) \/ Push(p)) PROVE Fresh'
  <2>1. Seen' \subseteq Seen
    <3>1. CASE Way' = Way /\ received' = received
      BY <3>1 DEF Seen
    <3>2. CASE Takes
      BY <3>2, <1>0, TakenElements DEF Takes, Seen
    <3> QED
      BY <1>3, <3>1, <3>2, WaySteps DEF Puts
  <2> QED
    BY <1>3, <2>1, HasSame, FreshSame
<1> QED
  BY <1>1, <1>2, <1>3

(***************************************************************************)
(* With one consumer every behaviour of the ring, its mutex and its        *)
(* conditions is one of a FIFO of SIZE items, for every SIZE and any       *)
(* number of producers.                                                    *)
(***************************************************************************)
THEOREM RingImplementsFifo == OneConsumer => (QueueSpec => ImplementsFifo)
<1> SUFFICES ASSUME OneConsumer PROVE QueueSpec => ImplementsFifo
  OBVIOUS
<1>1. QueueInit => Fifo!Init
  BY InitWay DEF Fifo!Init, Way, CopyHeld
<1>2. QueueTypeOK /\ QueueTypeOK' /\ HeldSlot /\ Fresh /\ [QueueNext]_queueVars => [Fifo!Next]_(Fifo!vars)
  <2> SUFFICES ASSUME QueueTypeOK, QueueTypeOK', HeldSlot, Fresh, [QueueNext]_queueVars
               PROVE  Fifo!Next \/ UNCHANGED <<Way, received>>
    BY DEF Fifo!vars, Way, CopyHeld
  <2>1. ASSUME Takes PROVE Fifo!Take
    BY <2>1 DEF Takes, Fifo!Take, Way, CopyHeld
  <2>2. ASSUME NEW p \in Producers, Puts(p) PROVE prod[p].item \in Item /\ Fifo!Put(prod[p].item)
    <3>1. prod[p].pc # "out"
      BY <2>2 DEF Puts, Push
    <3>2. prod[p].item \in Item
      BY <3>1, LockedQueueAssumption DEF Fresh, QueueTypeOK, Item
    <3>3. prod[p].item \notin Elements(Way) \cup Elements(received)
      BY <3>1 DEF Fresh, Seen
    <3>4. prod[p].item \notin Fifo!ToSet(Way) \cup Fifo!ToSet(received)
      BY <3>3 DEF Elements, Fifo!ToSet
    <3> QED
      BY <2>2, <3>2, <3>4 DEF Puts, Fifo!Put, Way, CopyHeld
  <2> QED
    BY <2>1, <2>2, WaySteps DEF Fifo!Next
<1>3. QueueInit => QueueTypeOK /\ HeldSlot /\ Fresh
  BY InitTypes, InitHeld, InitWay
<1>4. QueueTypeOK /\ HeldSlot /\ Fresh /\ [QueueNext]_queueVars => QueueTypeOK' /\ HeldSlot' /\ Fresh'
  BY NextTypes, NextHeld, NextFresh
<1> QED
  BY <1>1, <1>2, <1>3, <1>4, PTL DEF QueueSpec, ImplementsFifo, Fifo!Spec
=============================================================================
