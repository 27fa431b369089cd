-------------------------------- MODULE Search --------------------------------
(***************************************************************************)
(* One search, CTreeArrayMng::SearchResult: the categories of the request  *)
(* are searched one after the other until enough results are saved, and    *)
(* the answer is packed.  A category finds the nodes that match its key    *)
(* and CollectResult takes their entries, the heaviest node first, leaving *)
(* out the branches that cannot bring a better result.  The results are    *)
(* saved in a TopResult, taken here by what it promises, BestQueue.        *)
(*                                                                         *)
(* What a key matches is left open: a find may match any nodes that have   *)
(* nothing below them in common.  bSameLen, which takes the entries of one *)
(* length only, is left out.                                               *)
(***************************************************************************)
EXTENDS ResultElement, Sequences

CONSTANTS
  Node,    \* the nodes of the trees
  Side,    \* the left and the right son of a node
  Mid,     \* its middle son
  Wife,    \* the entries of its leaf
  Below,   \* the node and all that is under it
  Entry,   \* the entries, as results of queryNum 0
  Hidden,  \* those that may be deleted or lack the flags asked for
  Find,    \* what a find may match: sets of [node, whole]
  MAX_WEIGHT_CHINESE,
  MAX_MIX_SEARCH_TIME,
  iRetLimit,   \* lmt
  Category     \* the categories of the request, in order

ASSUME SearchAssumption ==
  /\ Side \in [Node -> SUBSET Node] /\ Mid \in [Node -> SUBSET Node]
  \* Nodes are numbered as Do_WriteTreeNode finishes them, sons first.
  /\ Node \subseteq Nat /\ \A n \in Node : \A s \in Side[n] \cup Mid[n] : s < n
  /\ Wife \in [Node -> SUBSET Entry] /\ Below \in [Node -> SUBSET Node]
  /\ \A n \in Node : Below[n] = {n} \cup UNION {Below[s] : s \in Side[n] \cup Mid[n]}
  \* A node of CTSTPat has a middle son or an item.
  /\ \A n \in Node : Mid[n] # {} => Wife[n] = {} /\ \E s \in Node : Mid[n] = {s}
  /\ Entry \subseteq Result /\ IsFiniteSet(Entry) /\ \A e \in Entry : e.queryNum = 0
  \* The keys of two entries differ.
  /\ \A d, e \in Entry : Key(d) = Key(e) => d = e
  /\ MAX_WEIGHT_CHINESE \in Nat /\ MAX_MIX_SEARCH_TIME \in Nat
  /\ iRetLimit \in Nat \ {0}
  /\ Category \in Seq([iAddWeight : Nat, mixed : BOOLEAN])

VARIABLES
  weight,       \* the weights of the entries
  usWeight,     \* the weights of the nodes
  good,         \* the entries that are not deleted and have the flags asked for
  iLoop,        \* the category
  pc,           \* where the search is
  bSCRet,       \* the category found nodes
  iLimitTime,   \* the finds a mixed category may still do
  vecMatched,   \* the nodes a find matched, [node, whole]
  pqRes,        \* the nodes to look at
  extra,        \* the entries of a node to collect
  queueSet,     \* the keys collect has seen
  kept, out,    \* the TopResult
  strResult,    \* the answer, best first
  offered       \* history: the entries matched, [score, since the category]

env  == <<weight, usWeight, good>>
top  == <<queueSet, kept, out>>
vars == <<env, iLoop, pc, bSCRet, iLimitTime, vecMatched, pqRes, extra, top, strResult, offered>>

Weight == 0 .. MAX_WEIGHT_CHINESE
Match  == [node : Node, whole : BOOLEAN]
Queue  == INSTANCE BestQueue WITH
            Capacity <- iRetLimit, Raise <- {Category[k].iAddWeight : k \in DOMAIN Category}

\* The greatest of a set of numbers, 0 of none.
Greatest(S) == CHOOSE m \in S \cup {0} : \A x \in S : x <= m

\* A mutant: the sons on the sides are forgotten.
OfMidSon(n, w) == {w[s] : s \in Mid[n]}

\* The weights a node takes over from its sons.
OfSons(n, w) == {w[s] : s \in Side[n] \cup Mid[n]}

\* Do_WriteTreeNode: the node is given the greatest weight under it.
Inherited(w) ==
  \A n \in Node : w[n] = Greatest({weight[e] : e \in Wife[n]} \cup OfSons(n, w))

Init ==
  /\ weight \in [Entry -> Weight]
  /\ usWeight \in {w \in [Node -> Weight] : Inherited(w)}
  /\ good \in {Entry \ h : h \in SUBSET Hidden}
  /\ iLoop = 1 /\ pc = "category" /\ bSCRet = TRUE /\ iLimitTime = 0
  /\ vecMatched = {} /\ pqRes = {} /\ extra = {}
  /\ queueSet = {} /\ kept = {} /\ out = <<>>
  /\ strResult = <<>> /\ offered = <<>>

-----------------------------------------------------------------------------
\* The nodes a match stands for.
Under(h) ==
  IF h.whole THEN Below[h.node]
  ELSE IF Mid[h.node] = {} THEN {h.node} ELSE UNION {Below[s] : s \in Mid[h.node]}

\* The matches of one find have nothing in common.
ASSUME FindAssumption ==
  /\ {} \in Find /\ Find \subseteq SUBSET Match
  /\ \A m \in Find : \A g, h \in m : g # h => Under(g) \cap Under(h) = {}

EntriesOf(m) == {e \in good : \E h \in m : \E n \in Under(h) : e \in Wife[n]}

\* An entry is ranked from the first category on that finds it.
Offer(m) ==
  offered' = [e \in DOMAIN offered \cup EntriesOf(m) |->
               IF e \in DOMAIN offered THEN offered[e]
               ELSE [score |-> weight[e], since |-> iLoop]]

\* A find hands its matches to CollectResult.
Collect(m) == vecMatched' = m /\ Offer(m) /\ pc' = "matched"

InCategory == pc = "category" /\ iLoop <= Len(Category)

\* MATCH_CATEGORY_COMMON and NINEGRIDKEY: one find.
SearchCommon(m) ==
  /\ InCategory /\ ~Category[iLoop].mixed
  /\ bSCRet' = (m # {})
  /\ IF m # {} THEN Collect(m)
     ELSE pc' = "searched" /\ UNCHANGED <<vecMatched, offered>>
  /\ UNCHANGED <<env, iLoop, iLimitTime, pqRes, extra, top, strResult>>

\* MATCH_CATEGORY_MIXEDCS and MIXEDSS: a find for each string the key may mean.
SearchMixed(found) ==
  /\ InCategory /\ Category[iLoop].mixed
  /\ bSCRet' = found
  /\ iLimitTime' = MAX_MIX_SEARCH_TIME
  /\ pc' = IF found THEN "mixed" ELSE "searched"
  /\ UNCHANGED <<env, iLoop, vecMatched, pqRes, extra, top, strResult, offered>>

\* A mutant: the last find is not counted.
NotNegative == iLimitTime >= 0

TimeLeft == iLimitTime > 0

MixedFind(m) ==
  /\ pc = "mixed" /\ TimeLeft
  /\ iLimitTime' = iLimitTime - 1
  /\ IF m # {} THEN Collect(m) ELSE UNCHANGED <<vecMatched, offered, pc>>
  /\ UNCHANGED <<env, iLoop, bSCRet, pqRes, extra, top, strResult>>

MixedEnd ==
  /\ pc = "mixed"
  /\ pc' = "searched"
  /\ UNCHANGED <<env, iLoop, bSCRet, iLimitTime, vecMatched, pqRes, extra, top, strResult, offered>>

-----------------------------------------------------------------------------
\* CollectResult, first loop: the matched nodes are queued, or collected at once.
Matched(h) ==
  /\ pc = "matched" /\ extra = {} /\ h \in vecMatched
  /\ vecMatched' = vecMatched \ {h}
  /\ \/ h.whole /\ pqRes' = pqRes \cup {h.node} /\ UNCHANGED extra
     \/ ~h.whole /\ Mid[h.node] = {} /\ extra' = Wife[h.node] /\ UNCHANGED pqRes
     \/ ~h.whole /\ Mid[h.node] # {} /\ pqRes' = pqRes \cup Mid[h.node] /\ UNCHANGED extra
  /\ UNCHANGED <<env, iLoop, pc, bSCRet, iLimitTime, top, strResult, offered>>

MatchedEnd ==
  /\ pc = "matched" /\ extra = {} /\ vecMatched = {}
  /\ pc' = "best"
  /\ UNCHANGED <<env, iLoop, bSCRet, iLimitTime, vecMatched, pqRes, extra, top, strResult, offered>>

IsFullQueue == Cardinality(kept) >= iRetLimit

\* A mutant: a branch is left out while there is room.
BetterOnly(n) == \A r \in kept : usWeight[n] > r.queryNum

\* ADD_NEW_FRANCH: the branch can bring a result that is better than GetMinScore.
Promising(n) == IsFullQueue => \E r \in Least(kept) : usWeight[n] > r.queryNum

\* A mutant: the node itself is queued again.
SonsAndSelf(n) == {n} \cup Side[n] \cup Mid[n]

\* The sons a node is followed to.
Sons(n) == Side[n] \cup Mid[n]

\* The second loop: a heaviest node brings its sons and its own entries.
Best(n) ==
  /\ pc = "best" /\ extra = {}
  /\ n \in pqRes /\ \A x \in pqRes : usWeight[x] <= usWeight[n]
  /\ pqRes' = (pqRes \ {n}) \cup {s \in Sons(n) : Promising(s)}
  /\ extra' = Wife[n]
  /\ UNCHANGED <<env, iLoop, pc, bSCRet, iLimitTime, vecMatched, top, strResult, offered>>

BestEnd ==
  /\ pc = "best" /\ extra = {} /\ pqRes = {}
  /\ pc' = IF Category[iLoop].mixed THEN "mixed" ELSE "searched"
  /\ UNCHANGED <<env, iLoop, bSCRet, iLimitTime, vecMatched, pqRes, extra, top, strResult, offered>>

-----------------------------------------------------------------------------
Found(e) == Raised(e, weight[e])

\* A mutant: what was seen before is not asked.
AlwaysNew(e) == TRUE

New(e) == Key(e) \notin queueSet

\* A result is wanted while there is room, and then unless its number is 0.
Wanted(e) == ~IsFullQueue \/ weight[e] > 0

\* collect: a result that is wanted and new is remembered, and saved if it is good enough.
Offered(e) ==
  \/ /\ Wanted(e) /\ New(e)
     /\ queueSet' = queueSet \cup {Key(e)}
     /\ \/ Queue!Keep(Found(e))
        \/ /\ IsFullQueue /\ \E r \in Least(kept) : Less(Found(e), r)
           /\ UNCHANGED <<kept, out>>
  \/ ~(Wanted(e) /\ New(e)) /\ UNCHANGED top

\* CollectNode, an entry at a time: one that is deleted or has other flags is passed over.
CollectNode(e) ==
  /\ e \in extra
  /\ extra' = extra \ {e}
  /\ IF e \in good THEN Offered(e) ELSE UNCHANGED top
  /\ UNCHANGED <<env, iLoop, pc, bSCRet, iLimitTime, vecMatched, pqRes, strResult, offered>>

-----------------------------------------------------------------------------
\* Enough results are saved: the other categories are not searched.
Enough == Cardinality(kept) >= iRetLimit

\* AddWeight with what the category has.
AddWeight(iAddWeight) ==
  IF iAddWeight > 0
  THEN /\ Queue!RaiseAll(iAddWeight)
       /\ offered' = [e \in DOMAIN offered |-> [offered[e] EXCEPT !.score = @ + iAddWeight]]
  ELSE UNCHANGED <<kept, out, offered>>

\* The end of the loop over the categories.
NextCategory ==
  /\ pc = "searched"
  /\ \/ /\ Enough
        /\ pc' = "packet" /\ UNCHANGED <<iLoop, kept, out, offered>>
     \/ /\ ~Enough
        /\ iLoop' = iLoop + 1 /\ pc' = "category"
        /\ IF bSCRet THEN AddWeight(Category[iLoop].iAddWeight) ELSE UNCHANGED <<kept, out, offered>>
  /\ UNCHANGED <<env, bSCRet, iLimitTime, vecMatched, pqRes, extra, queueSet, strResult>>

NoMoreCategory ==
  /\ pc = "category" /\ iLoop > Len(Category)
  /\ pc' = "packet"
  /\ UNCHANGED <<env, iLoop, bSCRet, iLimitTime, vecMatched, pqRes, extra, top, strResult, offered>>

\* A mutant: the results are packed as they come.
AtTheEnd(r) == Append(strResult, r)

\* Packet puts a result before those it has.
InFront(r) == <<r>> \o strResult

Packet ==
  /\ pc = "packet"
  /\ Queue!HandOut
  /\ strResult' = InFront(out'[Len(out')])
  /\ UNCHANGED <<env, iLoop, pc, bSCRet, iLimitTime, vecMatched, pqRes, extra, queueSet, offered>>

PacketEnd ==
  /\ pc = "packet" /\ kept = {}
  /\ pc' = "done"
  /\ UNCHANGED <<env, iLoop, bSCRet, iLimitTime, vecMatched, pqRes, extra, top, strResult, offered>>

Next ==
  \/ \E m \in Find : SearchCommon(m) \/ MixedFind(m)
  \/ \E found \in BOOLEAN : SearchMixed(found)
  \/ MixedEnd
  \/ \E h \in vecMatched : Matched(h)
  \/ MatchedEnd
  \/ \E n \in pqRes : Best(n)
  \/ BestEnd
  \/ \E e \in extra : CollectNode(e)
  \/ NextCategory \/ NoMoreCategory
  \/ Packet \/ PacketEnd

Spec     == Init /\ [][Next]_vars
FairSpec == Spec /\ WF_vars(Next)

-----------------------------------------------------------------------------
EntryOf(r) == [r EXCEPT !.queryNum = 0]

TypeOK ==
  /\ weight \in [Entry -> Weight] /\ usWeight \in [Node -> Weight] /\ good \subseteq Entry
  /\ iLoop \in 1 .. Len(Category) + 1
  /\ pc \in {"category", "mixed", "matched", "best", "searched", "packet", "done"}
  /\ bSCRet \in BOOLEAN /\ iLimitTime \in 0 .. MAX_MIX_SEARCH_TIME
  /\ vecMatched \subseteq Match /\ pqRes \subseteq Node /\ extra \subseteq Entry
  /\ queueSet \subseteq Int
  /\ kept \subseteq Result /\ out \in Seq(Result) /\ strResult \in Seq(Result)
  /\ DOMAIN offered \subseteq Entry
  /\ \A e \in DOMAIN offered : offered[e] \in [score : Nat, since : 1 .. Len(Category)]

(***************************************************************************)
(* The answer holds as many of the matched entries as were asked for, with *)
(* the score they have earned, and no matched entry that was left out has  *)
(* a higher one, although whole branches were never looked at.             *)
(***************************************************************************)
Answer == {strResult[i] : i \in DOMAIN strResult}
BestAnswered ==
  pc = "done" =>
    /\ Len(strResult) = IF Cardinality(DOMAIN offered) < iRetLimit
                        THEN Cardinality(DOMAIN offered) ELSE iRetLimit
    /\ \A r \in Answer : EntryOf(r) \in DOMAIN offered /\ r.queryNum = offered[EntryOf(r)].score
    /\ \A e \in DOMAIN offered : \A r \in Answer :
         (\A a \in Answer : EntryOf(a) # e) => offered[e].score <= r.queryNum

(***************************************************************************)
(* At any moment an entry that was matched is saved, or still to come, or  *)
(* as many results are saved as were asked for and none of them has a      *)
(* lower score: the branches that CollectResult leaves out, and the        *)
(* results collect turns down, are not missed later.                       *)
(***************************************************************************)
Saved  == kept \cup {out[i] : i \in DOMAIN out}
ToCome == (UNION {Under(h) : h \in vecMatched}) \cup (UNION {Below[n] : n \in pqRes})
NothingBetterLeftOut ==
  \A e \in DOMAIN offered :
    \/ \E r \in Saved : EntryOf(r) = e
    \/ e \in extra
    \/ \E n \in ToCome : e \in Wife[n]
    \/ Cardinality(Saved) = iRetLimit /\ \A r \in Saved : offered[e].score <= r.queryNum

(***************************************************************************)
(* An entry is saved once, whatever nodes and categories bring it.         *)
(***************************************************************************)
SavedOnce == \A a, b \in Saved : EntryOf(a) = EntryOf(b) => a = b

(***************************************************************************)
(* The answer goes from the best result to the worst.                      *)
(***************************************************************************)
BestComesFirst ==
  \A i, j \in DOMAIN strResult : i < j => ~Less(strResult[i], strResult[j])

(***************************************************************************)
(* Every search ends with an answer.                                       *)
(***************************************************************************)
Answered == <>(pc = "done")

(***************************************************************************)
(* The comment on iAddWeight: when a category is added, what was found     *)
(* before it stays in front of what it finds.                              *)
(***************************************************************************)
EarlierStaysInFront ==
  \A i, j \in DOMAIN strResult :
    LET a == offered[EntryOf(strResult[i])].since
        b == offered[EntryOf(strResult[j])].since
    IN  a < b /\ Category[b].iAddWeight > 0 => i < j
=============================================================================
