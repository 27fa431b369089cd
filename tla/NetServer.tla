------------------------------ MODULE NetServer ------------------------------
(***************************************************************************)
(* The network pipeline of isserver: the listener, the reader, the query   *)
(* threads and the writer, joined by three LockedQueues, and the file      *)
(* descriptors that pass from one to the next.                             *)
(*                                                                         *)
(* A descriptor is a number that the system gives out again (the lowest    *)
(* free one) as soon as it is closed.  The listener watches a set of them; *)
(* a readable one is taken out of the set and read by the one reader,      *)
(* which puts it back when what was read ends with a whole request.  An    *)
(* answer is written to the number its request was read from.  A client    *)
(* is is.cgi (frames: a header with a length, then the payload) or a       *)
(* browser (one GET, answered and closed).                                 *)
(*                                                                         *)
(* A stream is a sequence of units that arrive one by one: n >= 0 is the   *)
(* header of a frame of n payload units.  BUF_SIZE is counted in units.  A *)
(* header with a length below 0 is left out: as a size_t it is huge, and   *)
(* the allocation that follows (line 926) ends the process.                *)
(***************************************************************************)
EXTENDS Integers, Sequences, FiniteSets

CONSTANTS
  Clients,      \* the clients; each connects once
  NoClient,     \* no client
  Scripts,      \* what a client may send: sequences of units
  QueryThreads, \* the query threads
  MaxFd,        \* the descriptors the process can have open
  BUF_SIZE,     \* the reader's buffer
  Capacity,     \* of each queue: SIZE - 1 of LockedQueue
  FlagValues,   \* what the stack may hold where bHtml is never set
  Patient       \* the clients that hang up only when they have an answer to every request

Get     == -1
Bad     == -2   \* neither a frame's header nor a whole GET line
Payload == -3
Unit    == {Bad, Get, Payload} \cup Nat
FD      == 1 .. MaxFd

ASSUME NetServerAssumption ==
  /\ NoClient \notin Clients
  /\ Scripts \subseteq Seq(Unit)
  /\ MaxFd \in Nat /\ Capacity \in Nat \ {0} /\ BUF_SIZE \in Nat \ {0}
  /\ FlagValues \subseteq BOOLEAN /\ Patient \subseteq Clients

VARIABLES
  st, script, sent,  \* the clients: connected or not, the script, the units sent
  inbox,             \* the units in the socket buffer of each connection
  got,               \* the answers each client received: whose request, which
  asked,             \* history: the requests the reader has passed on, per client
  backlog,           \* the connections that wait for accept
  owner,             \* the connection of each descriptor, NoClient when it is closed
  armed,             \* fde of NetServer: the descriptors the listener selects on
  lis,               \* the listener: the rest of the select result, the fd to push
  readq, queryq, writeq,   \* the three LockedQueues
  rd,                \* the reader: pc and locals
  qt,                \* the query threads: the task each one works on
  wr                 \* the writer: the descriptor it still has to close, or 0

vars == <<st, script, sent, inbox, got, asked, backlog, owner, armed, lis,
          readq, queryq, writeq, rd, qt, wr>>
clientVars == <<st, script, sent>>

Task   == [fd : FD, html : BOOLEAN, from : Clients, no : Nat]
NoTask == [fd |-> 0]
RdIdle == [pc |-> "pop", fd |-> 0, buf |-> <<>>, long |-> 0, more |-> FALSE, fresh |-> TRUE]

\* The threads hold descriptors in range, and the reader no more than its buffer.
TypeOK ==
  /\ st \in [Clients -> {"new", "up", "closed"}]
  /\ \A c \in Clients : script[c] \in Scripts \cup {<<>>} /\ sent[c] \in 0 .. Len(script[c])
  /\ \A c \in Clients : inbox[c] \in Seq(Unit) /\ asked[c] \in Nat
  /\ got \in [Clients -> Seq(Clients \X Nat)]
  /\ backlog \in Seq(Clients)
  /\ owner \in [FD -> Clients \cup {NoClient}]
  /\ armed \subseteq FD
  /\ lis.ready \subseteq FD \cup {0} /\ lis.hand \in FD \cup {0}
  /\ readq \in Seq(FD) /\ queryq \in Seq(Task) /\ writeq \in Seq(Task)
  /\ Len(readq) <= Capacity /\ Len(queryq) <= Capacity /\ Len(writeq) <= Capacity
  /\ rd.pc \in {"pop", "read", "parse", "loop", "wait"} /\ rd.fd \in FD \cup {0}
  /\ rd.buf \in Seq(Unit) /\ Len(rd.buf) <= BUF_SIZE /\ rd.long \in Nat
  /\ qt \in [QueryThreads -> Task \cup {NoTask}]
  /\ wr \in FD \cup {0}

Init ==
  /\ st = [c \in Clients |-> "new"]
  /\ script = [c \in Clients |-> <<>>] /\ sent = [c \in Clients |-> 0]
  /\ inbox = [c \in Clients |-> <<>>]
  /\ got = [c \in Clients |-> <<>>] /\ asked = [c \in Clients |-> 0]
  /\ backlog = <<>>
  /\ owner = [fd \in FD |-> NoClient]
  /\ armed = {}
  /\ lis = [ready |-> {}, hand |-> 0]
  /\ readq = <<>> /\ queryq = <<>> /\ writeq = <<>>
  /\ rd = RdIdle
  /\ qt = [t \in QueryThreads |-> NoTask]
  /\ wr = 0

Least(S)    == CHOOSE x \in S : \A y \in S : x <= y
Drop(s, n)  == SubSeq(s, n + 1, Len(s))
Close(fd)   == owner' = [owner EXCEPT ![fd] = NoClient]
Readable(c) == c # NoClient /\ (inbox[c] # <<>> \/ st[c] = "closed")

-----------------------------------------------------------------------------
(***************************************************************************)
(* The clients and the sockets.                                            *)
(***************************************************************************)
Requests(s)     == {i \in DOMAIN s : s[i] >= 0 \/ s[i] = Get}
Connected(c)    == c \in {owner[fd] : fd \in FD} \cup {backlog[i] : i \in DOMAIN backlog}
HasAnswers(c)   == Len(got[c]) >= Cardinality(Requests(script[c]))
serverVars      == <<owner, armed, lis, readq, queryq, writeq, rd, qt, wr>>

Connect(c) ==
  /\ st[c] = "new"
  /\ st' = [st EXCEPT ![c] = "up"]
  /\ \E s \in Scripts : script' = [script EXCEPT ![c] = s]
  /\ backlog' = Append(backlog, c)
  /\ UNCHANGED <<sent, inbox, got, asked, serverVars>>

Send(c) ==
  /\ st[c] = "up" /\ sent[c] < Len(script[c])
  /\ sent' = [sent EXCEPT ![c] = @ + 1]
  /\ inbox' = IF Connected(c) THEN [inbox EXCEPT ![c] = Append(@, script[c][sent[c] + 1])]
                              ELSE inbox
  /\ UNCHANGED <<st, script, got, asked, backlog, serverVars>>

HangUp(c) ==
  /\ st[c] = "up"
  /\ c \in Patient => sent[c] = Len(script[c]) /\ (HasAnswers(c) \/ ~Connected(c))
  /\ st' = [st EXCEPT ![c] = "closed"]
  /\ UNCHANGED <<script, sent, inbox, got, asked, backlog, serverVars>>

-----------------------------------------------------------------------------
(***************************************************************************)
(* NetServer::run.  select fails while a descriptor of the set is closed.  *)
(***************************************************************************)
Select ==
  /\ lis = [ready |-> {}, hand |-> 0]
  /\ \A fd \in armed : owner[fd] # NoClient
  /\ LET now == {fd \in armed : Readable(owner[fd])} \cup (IF backlog = <<>> THEN {} ELSE {0})
     IN  now # {} /\ lis' = [lis EXCEPT !.ready = now]
  /\ UNCHANGED <<clientVars, inbox, got, asked, backlog, owner, armed, readq, queryq, writeq, rd, qt, wr>>

\* accept and fde.add, or "accept error!" when no descriptor is free.
Accept ==
  LET free == {fd \in FD : owner[fd] = NoClient} IN
  /\ 0 \in lis.ready
  /\ lis' = [lis EXCEPT !.ready = @ \ {0}]
  /\ IF free = {}
     THEN UNCHANGED <<backlog, owner, armed>>
     ELSE /\ owner' = [owner EXCEPT ![Least(free)] = Head(backlog)]
          /\ armed' = armed \cup {Least(free)}
          /\ backlog' = Tail(backlog)
  /\ UNCHANGED <<clientVars, inbox, got, asked, readq, queryq, writeq, rd, qt, wr>>

\* A mutant: the descriptor stays in the set.
TakeStillArmed ==
  /\ lis.hand = 0 /\ lis.ready # {} /\ 0 \notin lis.ready
  /\ lis' = [ready |-> lis.ready \ {Least(lis.ready)}, hand |-> Least(lis.ready)]
  /\ UNCHANGED <<clientVars, inbox, got, asked, backlog, owner, armed, readq, queryq, writeq, rd, qt, wr>>

\* fde.del of the next descriptor.
Take ==
  /\ lis.hand = 0 /\ lis.ready # {} /\ 0 \notin lis.ready
  /\ armed' = armed \ {Least(lis.ready)}
  /\ lis' = [ready |-> lis.ready \ {Least(lis.ready)}, hand |-> Least(lis.ready)]
  /\ UNCHANGED <<clientVars, inbox, got, asked, backlog, owner, readq, queryq, writeq, rd, qt, wr>>

PushRead ==
  /\ lis.hand # 0 /\ Len(readq) < Capacity
  /\ readq' = Append(readq, lis.hand)
  /\ lis' = [lis EXCEPT !.hand = 0]
  /\ UNCHANGED <<clientVars, inbox, got, asked, backlog, owner, armed, queryq, writeq, rd, qt, wr>>

-----------------------------------------------------------------------------
(***************************************************************************)
(* SocketNonBlockingReadThread::run.  When the buffer is full read is      *)
(* asked for 0 units, returns 0, and the loop goes on: no step.            *)
(***************************************************************************)
ReadPop ==
  /\ rd.pc = "pop" /\ readq # <<>>
  /\ rd' = [RdIdle EXCEPT !.pc = "read", !.fd = Head(readq)]
  /\ readq' = Tail(readq)
  /\ UNCHANGED <<clientVars, inbox, got, asked, backlog, owner, armed, lis, queryq, writeq, qt, wr>>


\* Nothing more to read: back to the listener, or wait for the rest of a request.
Settle ==
  IF rd.buf = <<>> /\ rd.long = 0
  THEN armed' = armed \cup {rd.fd} /\ rd' = RdIdle
  ELSE armed' = armed /\ rd' = [rd EXCEPT !.pc = "wait"]

\* A mutant: what the buffer already holds is forgotten.
RemainWhole == BUF_SIZE

Remain == BUF_SIZE - Len(rd.buf)

ReadData ==
  LET c   == owner[rd.fd]
      ret == IF Len(inbox[c]) < Remain THEN Len(inbox[c]) ELSE Remain
  IN  /\ rd.pc = "read" /\ c # NoClient /\ Remain > 0 /\ inbox[c] # <<>>
      /\ inbox' = [inbox EXCEPT ![c] = Drop(@, ret)]
      /\ rd' = [rd EXCEPT !.pc = "parse", !.buf = @ \o SubSeq(inbox[c], 1, ret),
                          !.more = (ret = Remain), !.fresh = (rd.buf = <<>>)]
      /\ UNCHANGED <<clientVars, got, asked, backlog, owner, armed, lis, readq, queryq, writeq, qt, wr>>

\* EAGAIN.
ReadNothing ==
  /\ rd.pc = "read" /\ owner[rd.fd] # NoClient /\ Remain > 0
  /\ ~Readable(owner[rd.fd])
  /\ Settle
  /\ UNCHANGED <<clientVars, inbox, got, asked, backlog, owner, lis, readq, queryq, writeq, qt, wr>>

\* The end of the stream, or an error: the descriptor was closed meanwhile.
ReadEnd ==
  LET c == owner[rd.fd] IN
  /\ rd.pc = "read" /\ Remain > 0
  /\ c = NoClient \/ (inbox[c] = <<>> /\ st[c] = "closed")
  /\ Close(rd.fd)
  /\ rd' = RdIdle
  /\ UNCHANGED <<clientVars, inbox, got, asked, backlog, armed, lis, readq, queryq, writeq, qt, wr>>

\* The rest of a long request is collected, and dropped when it is complete.
SkipLong ==
  /\ rd.pc = "parse" /\ rd.long > 0
  /\ rd' = IF rd.long > Len(rd.buf)
           THEN [rd EXCEPT !.pc = "loop", !.buf = <<>>, !.long = @ - Len(rd.buf)]
           ELSE [rd EXCEPT !.buf = Drop(@, rd.long), !.long = 0]
  /\ UNCHANGED <<clientVars, inbox, got, asked, backlog, owner, armed, lis, readq, queryq, writeq, qt, wr>>

\* while(p+8 <= buf+ret+pos), of a request that fits the buffer.
Whole(n) == n >= 0 /\ n <= BUF_SIZE /\ n + 1 <= Len(rd.buf)

Enqueue(fd, html) ==
  LET c == owner[fd] IN
  /\ Len(queryq) < Capacity
  /\ queryq' = Append(queryq, [fd |-> fd, html |-> html, from |-> c, no |-> asked[c] + 1])
  /\ asked' = [asked EXCEPT ![c] = @ + 1]

\* A mutant: p += size, without the header.
PushFrameShort ==
  /\ rd.pc = "parse" /\ rd.long = 0 /\ rd.buf # <<>> /\ Whole(Head(rd.buf))
  /\ \E html \in FlagValues : Enqueue(rd.fd, html)
  /\ rd' = [rd EXCEPT !.buf = Drop(@, Head(rd.buf))]
  /\ UNCHANGED <<clientVars, inbox, got, backlog, owner, armed, lis, readq, writeq, qt, wr>>

PushFrame ==
  /\ rd.pc = "parse" /\ rd.long = 0 /\ rd.buf # <<>> /\ Whole(Head(rd.buf))
  /\ \E html \in FlagValues : Enqueue(rd.fd, html)
  /\ rd' = [rd EXCEPT !.buf = Drop(@, Head(rd.buf) + 1)]
  /\ UNCHANGED <<clientVars, inbox, got, backlog, owner, armed, lis, readq, writeq, qt, wr>>

\* A header of a long request, or too little of a short one.
EndOfBuffer ==
  LET n == IF rd.buf = <<>> THEN 0 ELSE Head(rd.buf) IN
  /\ rd.pc = "parse" /\ rd.long = 0
  /\ rd.buf = <<>> \/ (n >= 0 /\ ~Whole(n))
  /\ rd' = IF n > BUF_SIZE
           THEN [rd EXCEPT !.pc = "loop", !.buf = <<>>, !.long = n - (Len(rd.buf) - 1)]
           ELSE [rd EXCEPT !.pc = "loop"]
  /\ UNCHANGED <<clientVars, inbox, got, asked, backlog, owner, armed, lis, readq, queryq, writeq, qt, wr>>

\* ReadFromHtml: the descriptor goes with the request and the rest is forgotten.
PushHtml ==
  /\ rd.pc = "parse" /\ rd.long = 0 /\ rd.buf # <<>>
  /\ Head(rd.buf) = Get /\ rd.fresh
  /\ Enqueue(rd.fd, TRUE)
  /\ rd' = RdIdle
  /\ UNCHANGED <<clientVars, inbox, got, backlog, owner, armed, lis, readq, writeq, qt, wr>>

BadHead ==
  /\ rd.pc = "parse" /\ rd.long = 0 /\ rd.buf # <<>>
  /\ Head(rd.buf) < 0 /\ ~(Head(rd.buf) = Get /\ rd.fresh)
  /\ Close(rd.fd)
  /\ rd' = RdIdle
  /\ UNCHANGED <<clientVars, inbox, got, asked, backlog, armed, lis, readq, queryq, writeq, qt, wr>>

\* while (ret == remain), and what follows the loop.
Loop ==
  /\ rd.pc = "loop"
  /\ IF rd.more THEN rd' = [rd EXCEPT !.pc = "read"] /\ armed' = armed ELSE Settle
  /\ UNCHANGED <<clientVars, inbox, got, asked, backlog, owner, lis, readq, queryq, writeq, qt, wr>>

\* The reader's own fde: it waits for this connection and no other.
WaitRest ==
  /\ rd.pc = "wait" /\ Readable(owner[rd.fd])
  /\ rd' = [rd EXCEPT !.pc = "read"]
  /\ UNCHANGED <<clientVars, inbox, got, asked, backlog, owner, armed, lis, readq, queryq, writeq, qt, wr>>

-----------------------------------------------------------------------------
(***************************************************************************)
(* QuerySearchThread::run and SocketWriteThread::run.                      *)
(***************************************************************************)
QueryPop(t) ==
  /\ qt[t] = NoTask /\ queryq # <<>>
  /\ qt' = [qt EXCEPT ![t] = Head(queryq)]
  /\ queryq' = Tail(queryq)
  /\ UNCHANGED <<clientVars, inbox, got, asked, backlog, owner, armed, lis, readq, writeq, rd, wr>>

QueryPush(t) ==
  /\ qt[t] # NoTask /\ Len(writeq) < Capacity
  /\ writeq' = Append(writeq, qt[t])
  /\ qt' = [qt EXCEPT ![t] = NoTask]
  /\ UNCHANGED <<clientVars, inbox, got, asked, backlog, owner, armed, lis, readq, queryq, rd, wr>>

\* The answer goes to whoever has the descriptor now; EPIPE and EBADF are ignored.
Write ==
  LET task == Head(writeq)
      c    == owner[task.fd]
  IN  /\ wr = 0 /\ writeq # <<>>
      /\ writeq' = Tail(writeq)
      /\ got' = IF c # NoClient /\ st[c] # "closed"
                THEN [got EXCEPT ![c] = Append(@, <<task.from, task.no>>)] ELSE got
      /\ wr' = IF task.html THEN task.fd ELSE 0
      /\ UNCHANGED <<clientVars, inbox, asked, backlog, owner, armed, lis, readq, queryq, rd, qt>>

\* The end of WriteHtml.
WriteClose ==
  /\ wr # 0
  /\ Close(wr)
  /\ wr' = 0
  /\ UNCHANGED <<clientVars, inbox, got, asked, backlog, armed, lis, readq, queryq, writeq, rd, qt>>

-----------------------------------------------------------------------------
Listener == Select \/ Accept \/ Take \/ PushRead
Reader   == ReadPop \/ ReadData \/ ReadNothing \/ ReadEnd \/ SkipLong \/ PushFrame
            \/ EndOfBuffer \/ PushHtml \/ BadHead \/ Loop \/ WaitRest
Query(t) == QueryPop(t) \/ QueryPush(t)
Writer   == Write \/ WriteClose

Next ==
  \/ \E c \in Clients : Connect(c) \/ Send(c) \/ HangUp(c)
  \/ Listener \/ Reader \/ Writer
  \/ \E t \in QueryThreads : Query(t)

Spec == Init /\ [][Next]_vars

\* The threads run and a client sends what it began.  Nobody has to hang up.
FairSpec ==
  /\ Spec
  /\ WF_vars(Listener) /\ WF_vars(Reader) /\ WF_vars(Writer)
  /\ \A t \in QueryThreads : WF_vars(Query(t))
  /\ \A c \in Clients : WF_vars(Send(c))

-----------------------------------------------------------------------------
(***************************************************************************)
(* Every open descriptor is in exactly one hand, the one that will put it  *)
(* back or close it, and no closed one is in any: none is leaked, closed   *)
(* twice, or watched or read after its number may be another connection's. *)
(***************************************************************************)
Tasks == ({queryq[i] : i \in DOMAIN queryq} \cup {writeq[i] : i \in DOMAIN writeq}
           \cup {qt[t] : t \in QueryThreads}) \ {NoTask}

Hands(fd) ==
  {<<"fde", x>> : x \in armed \cap {fd}}
    \cup {<<"listener", x>> : x \in {lis.hand} \cap {fd}}
    \cup {<<"readq", i>> : i \in {k \in DOMAIN readq : readq[k] = fd}}
    \cup {<<"reader", x>> : x \in {rd.fd} \cap {fd}}
    \cup {<<"html", task>> : task \in {k \in Tasks : k.html /\ k.fd = fd}}
    \cup {<<"writer", x>> : x \in {wr} \cap {fd}}

OneHand ==
  \A fd \in FD :
    /\ owner[fd] = NoClient <=> Hands(fd) = {}
    /\ \A h, k \in Hands(fd) : h = k

(***************************************************************************)
(* What a client may send for the server to keep its connection: frames    *)
(* of any size, each followed by the next (the last may be cut off), or a  *)
(* GET first.                                                              *)
(***************************************************************************)
Framed(s) ==
  /\ s # <<>> => s[1] >= 0
  /\ \A i \in DOMAIN s : s[i] >= 0 \/ s[i] = Payload
  /\ \A i \in DOMAIN s : s[i] >= 0 =>
       /\ \A k \in DOMAIN s : i < k /\ k <= i + s[i] => s[k] = Payload
       /\ i + s[i] + 1 \in DOMAIN s => s[i + s[i] + 1] >= 0
Browser(s) == s # <<>> /\ s[1] = Get

\* The client is gone, or has sent what is no request: the server closes its
\* descriptor (lines 911, 991) while its requests may be under way.
GaveUp(c) == st[c] = "closed" \/ ~(Framed(script[c]) \/ Browser(script[c]))

(***************************************************************************)
(* Answers are addressed by descriptor number.  A client is sent somebody  *)
(* else's answer only if that one hung up before it had it or sent what is *)
(* no request: its number was then another's.  Whatever the others do, no  *)
(* answer to a client that stays and sends requests goes astray.  With one *)
(* query thread a client gets the answers to its own requests once each    *)
(* and in their order.                                                     *)
(***************************************************************************)
NotAstray ==
  \A c \in Clients : \A i \in DOMAIN got[c] : got[c][i][1] = c \/ GaveUp(got[c][i][1])

OwnInOrder ==
  \A c \in Clients : \A i \in DOMAIN got[c] : got[c][i][1] = c =>
    /\ \A j \in DOMAIN got[c] : j < i /\ got[c][j][1] = c => got[c][j][2] < got[c][i][2]
    /\ \A n \in 1 .. got[c][i][2] - 1 : \E j \in DOMAIN got[c] : j < i /\ got[c][j] = <<c, n>>

\* One thread answers the queries.
Solo == \A t, u \in QueryThreads : t = u

AnswersReachTheirAsker == NotAstray /\ (Solo => OwnInOrder)

(***************************************************************************)
(* Every client that waits, and sends whole frames shorter than the buffer *)
(* or one GET, gets as many answers as it sent requests, however full the  *)
(* queues are and whatever the others send or leave, unless the reader is  *)
(* held for ever by one connection: by a frame that is not long and never  *)
(* whole (line 923, it reads 0 bytes without end), or by a client that     *)
(* stopped half way and stays (line 996).                                  *)
(***************************************************************************)
Answerable(s) ==
  \/ s = <<Get>>
  \/ Framed(s) /\ \A i \in DOMAIN s : s[i] < BUF_SIZE /\ i + s[i] <= Len(s)

ReaderHeld ==
  \/ rd.pc = "read" /\ Remain = 0
  \/ /\ rd.pc = "wait" /\ ~Readable(owner[rd.fd])
     /\ \A c \in Clients : owner[rd.fd] = c => sent[c] = Len(script[c])


\* NetServer.h:279: bHtml means that the request came from a browser's GET.
HtmlMeansGet ==
  \A task \in Tasks : task.html => \E i \in DOMAIN script[task.from] : script[task.from][i] = Get
=============================================================================
