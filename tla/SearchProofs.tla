---------------------------- MODULE SearchProofs ----------------------------
(***************************************************************************)
(* Proofs about Search, for every index, every request and whatever the    *)
(* keys match.                                                             *)
(***************************************************************************)
EXTENDS Search, FiniteSetTheorems, TLAPS

-----------------------------------------------------------------------------
(***************************************************************************)
(* A set of numbers has a least one.  The theorems of induction are out of *)
(* the provers' reach, this consequence of well-foundedness is not.        *)
(***************************************************************************)
LessPairs == {ss \in Nat \X Nat : ss[1] < ss[2]}

\* The order of the natural numbers is well-founded.
LEMMA LessPairsWellFounded == IsWellFoundedOn(LessPairs, Nat)
  BY NatLessThanWellFounded DEF OpToRel, LessPairs

\* Every nonempty set of natural numbers has a least member.
LEMMA LeastNumber ==
  ASSUME NEW T, T \subseteq Nat, T # {}
  PROVE  \E x \in T : \A y \in T : x <= y
<1>1. \E x \in T : \A y \in T : ~ (<<y, x>> \in LessPairs)
  BY LessPairsWellFounded, WFMin
<1>2. \A x, y \in Nat : (<<y, x>> \in LessPairs) <=> y < x
  BY DEF LessPairs
<1>3. PICK x \in T : \A y \in T : ~ (<<y, x>> \in LessPairs)
  BY <1>1
<1>4. ASSUME NEW y \in T PROVE x <= y
  <2>1. x \in Nat /\ y \in Nat /\ ~(y < x)
    BY <1>2, <1>3
  <2> QED BY <2>1, SMT
<1> QED BY <1>3, <1>4

-----------------------------------------------------------------------------
\* Less is a strict weak order on results.
LEMMA LessIsOrder ==
  /\ \A a \in Result : ~Less(a, a)
  /\ \A a, b \in Result : Less(a, b) => ~Less(b, a)
  /\ \A a, b, c \in Result : ~Less(a, b) /\ ~Less(b, c) => ~Less(a, c)
  /\ \A a, b \in Result : ~Less(a, b) => b.queryNum <= a.queryNum
  /\ \A a, b \in Result : Less(a, b) => a.queryNum <= b.queryNum
  BY DEF Less, Result

(***************************************************************************)
(* A finite set of results has a least one: taking a result away from a    *)
(* set without one would leave such a set again, without end.              *)
(***************************************************************************)
LEMMA LeastExists ==
  ASSUME NEW S, S \subseteq Result, IsFiniteSet(S), S # {}
  PROVE  Least(S) # {}
<1> SUFFICES ASSUME \A r \in S : \E x \in S : Less(x, r) PROVE FALSE
  BY DEF Least
<1> DEFINE Endless == {U \in FiniteSubsetsOf(S) : U # {} /\ \A r \in U : \E x \in U : Less(x, r)}
<1>1. S \in Endless
  BY DEF FiniteSubsetsOf
<1>2. PICK U \in Endless : \A V \in Endless : ~(<<V, U>> \in StrictSubsetOrdering(S))
  <2>1. Endless \subseteq FiniteSubsetsOf(S) /\ Endless # {}
    BY <1>1
  <2> HIDE DEF Endless
  <2> QED BY <2>1, FS_StrictSubsetOrderingWellFounded, WFMin
<1>3. PICK r \in U : TRUE
  BY <1>2
<1> DEFINE V == U \ {r}
<1>4. U \subseteq S /\ IsFiniteSet(U)
  BY <1>2 DEF FiniteSubsetsOf
<1>5. V \in Endless
  <2>1. PICK x \in U : Less(x, r)
    BY <1>2, <1>3
  <2>2. x \in V
    BY <2>1, <1>4, LessIsOrder
  <2>3. V \in FiniteSubsetsOf(S)
    BY <1>4, FS_RemoveElement DEF FiniteSubsetsOf
  <2>4. ASSUME NEW y \in V PROVE \E z \in V : Less(z, y)
    <3>1. PICK z \in U : Less(z, y)
      BY <1>2, <2>4
    <3>2. CASE z # r
      BY <3>1, <3>2
    <3>3. CASE z = r
      <4>1. Less(x, y)
        BY <2>1, <3>1, <3>3, <1>4, <1>3 DEF Less, Result
      <4> QED BY <2>2, <4>1
    <3> QED BY <3>2, <3>3
  <2> QED BY <2>2, <2>3, <2>4
<1>6. <<V, U>> \in StrictSubsetOrdering(S)
  BY <1>3, <1>4 DEF StrictSubsetOrdering
<1> QED BY <1>2, <1>5, <1>6

-----------------------------------------------------------------------------
(***************************************************************************)
(* The inductive invariant.  Staged: what is empty where, and no index of  *)
(* a category is past the end.                                             *)
(***************************************************************************)
Staged ==
  /\ pc \notin {"category", "packet", "done"} => iLoop <= Len(Category)
  /\ pc # "matched" => vecMatched = {}
  /\ pc \notin {"matched", "best"} => pqRes = {} /\ extra = {}
  /\ pc \notin {"packet", "done"} => out = <<>>

\* No more is kept than asked for, and what is saved has been seen, under its entry's score.
KeptOK == IsFiniteSet(kept) /\ Cardinality(kept) <= iRetLimit
Known  == \A r \in Saved : Key(r) \in queueSet
Scored == \A r \in Saved : EntryOf(r) \in DOMAIN offered /\ offered[EntryOf(r)].score = r.queryNum

\* Only matched entries are seen; one that is not seen yet has its own weight.
Ours    == \A e \in Entry : Key(e) \in queueSet => e \in DOMAIN offered
Fresh   == \A e \in DOMAIN offered : Key(e) \notin queueSet => offered[e].score = weight[e]
Visible == DOMAIN offered \subseteq good

\* A matched entry that was seen is saved or has lost.
Held(e)   == \E r \in Saved : EntryOf(r) = e
Beaten(e) == Cardinality(Saved) = iRetLimit /\ \A r \in Saved : offered[e].score <= r.queryNum
Settled   == \A e \in DOMAIN offered : Key(e) \in queueSet => Held(e) \/ Beaten(e)

\* What is still to come was matched.
Coming(e) == e \in extra \/ \E n \in ToCome : e \in Wife[n]
Kin       == \A e \in good : Coming(e) => e \in DOMAIN offered

\* A matched entry is saved, to come, or has lost.
Covered == \A e \in DOMAIN offered : Held(e) \/ Coming(e) \/ Beaten(e)

Ranked == Known /\ Scored /\ Ours /\ Fresh /\ Visible /\ Settled
Inv == TypeOK /\ Inherited(usWeight) /\ Staged /\ KeptOK /\ Ranked /\ Kin /\ Covered

-----------------------------------------------------------------------------
\* Raising a result changes its number and nothing else.
LEMMA RaisedFacts ==
  ASSUME NEW r \in Result, NEW i \in Int
  PROVE  /\ Raised(r, i) \in Result
         /\ Raised(r, i).queryNum = r.queryNum + i
         /\ EntryOf(Raised(r, i)) = EntryOf(r)
         /\ Key(Raised(r, i)) = Key(r)
<1>1. /\ Raised(r, i) \in Result
      /\ Raised(r, i).queryNum = r.queryNum + i
      /\ Key(Raised(r, i)) = Key(r)
  BY DEF Raised, Result, Key
<1>2. EntryOf(r) = [eleId |-> r.eleId, pPara |-> r.pPara, length |-> r.length, queryNum |-> 0]
  BY DEF Result, EntryOf
<1>3. Raised(r, i) = [eleId |-> r.eleId, pPara |-> r.pPara, length |-> r.length,
                      queryNum |-> r.queryNum + i]
  BY DEF Result, Raised
<1>4. EntryOf(Raised(r, i)) = [eleId |-> r.eleId, pPara |-> r.pPara, length |-> r.length, queryNum |-> 0]
  BY <1>3 DEF EntryOf
<1> QED BY <1>1, <1>2, <1>4

\* The entry of a result has its key.
LEMMA EntryFacts ==
  ASSUME NEW r \in Result
  PROVE  Key(EntryOf(r)) = Key(r)
  BY DEF Result, EntryOf, Key

\* An entry is a result, the one it stands for.
LEMMA EntryIsItself ==
  ASSUME NEW e \in Entry
  PROVE  e \in Result /\ e.queryNum = 0 /\ EntryOf(e) = e
<1>1. e \in Result /\ e.queryNum = 0
  BY SearchAssumption
<1>2. \A r \in Result : r.queryNum = 0 => EntryOf(r) = r
  BY DEF Result, EntryOf
<1> QED BY <1>1, <1>2

\* Two results of one entry with one number are the same.
LEMMA SameResult ==
  ASSUME NEW a \in Result, NEW b \in Result,
         EntryOf(a) = EntryOf(b), a.queryNum = b.queryNum
  PROVE  a = b
<1>1. /\ EntryOf(a).eleId = a.eleId /\ EntryOf(a).pPara = a.pPara /\ EntryOf(a).length = a.length
      /\ EntryOf(b).eleId = b.eleId /\ EntryOf(b).pPara = b.pPara /\ EntryOf(b).length = b.length
  BY DEF Result, EntryOf
<1> QED BY <1>1 DEF Result

\* What a new result of an entry looks like.
LEMMA FoundFacts ==
  ASSUME NEW e \in Entry, weight[e] \in Nat
  PROVE  /\ Found(e) \in Result
         /\ Found(e).queryNum = weight[e]
         /\ EntryOf(Found(e)) = e
         /\ Key(Found(e)) = Key(e)
<1>1. e \in Result /\ e.queryNum = 0 /\ EntryOf(e) = e
  BY EntryIsItself
<1>2. weight[e] \in Int /\ 0 + weight[e] = weight[e]
  OBVIOUS
<1> QED BY <1>1, <1>2, RaisedFacts DEF Found

-----------------------------------------------------------------------------
\* A set of numbers with a bound has its greatest member, and it is no less than the others.
LEMMA GreatestBounds ==
  ASSUME NEW S, NEW b \in Nat, S \subseteq 0 .. b
  PROVE  Greatest(S) \in 0 .. b /\ \A x \in S : x <= Greatest(S)
<1> DEFINE T == {n \in Nat : \E x \in S \cup {0} : n = b - x}
<1>1. T \subseteq Nat /\ T # {}
  <2>1. b \in T
    BY b = b - 0
  <2> QED BY <2>1
<1>2. PICK n \in T : \A y \in T : n <= y
  <2> HIDE DEF T
  <2> QED BY <1>1, LeastNumber
<1>3. PICK m \in S \cup {0} : n = b - m
  BY <1>2
<1>4. ASSUME NEW x \in S \cup {0} PROVE x <= m
  <2>1. x \in 0 .. b /\ m \in 0 .. b
    BY <1>4, <1>3
  <2>2. b - x \in T
    BY <2>1, <1>4
  <2>3. n <= b - x
    BY <2>2, <1>2
  <2> QED BY <2>1, <2>3, <1>3
<1>5. \E y \in S \cup {0} : \A x \in S : x <= y
  BY <1>4
<1>6. Greatest(S) \in S \cup {0} /\ \A x \in S : x <= Greatest(S)
  BY <1>5 DEF Greatest
<1>7. \A y \in S \cup {0} : y \in 0 .. b
  OBVIOUS
<1> HIDE DEF T
<1> QED BY <1>6, <1>7

\* The weight of a node is no less than that of any entry below it.
LEMMA HeaviestBelow ==
  ASSUME weight \in [Entry -> Weight], usWeight \in [Node -> Weight], Inherited(usWeight)
  PROVE  \A n \in Node : \A k \in Below[n] : \A e \in Wife[k] : weight[e] <= usWeight[n]
<1> DEFINE Light(n) == \E k \in Below[n] : \E e \in Wife[k] : ~(weight[e] <= usWeight[n])
           T == {n \in Node : Light(n)}
<1> SUFFICES ASSUME T # {} PROVE FALSE
  OBVIOUS
<1>0. /\ Node \subseteq Nat /\ \A n \in Node : Side[n] \cup Mid[n] \subseteq Node
      /\ \A n \in Node : \A s \in Side[n] \cup Mid[n] : s < n
      /\ \A n \in Node : Below[n] = {n} \cup UNION {Below[s] : s \in Side[n] \cup Mid[n]}
      /\ \A n \in Node : Below[n] \subseteq Node /\ Wife[n] \subseteq Entry
      /\ MAX_WEIGHT_CHINESE \in Nat
  <2>1. Side \in [Node -> SUBSET Node] /\ Mid \in [Node -> SUBSET Node]
        /\ Below \in [Node -> SUBSET Node] /\ Wife \in [Node -> SUBSET Entry]
    BY SearchAssumption
  <2> QED BY <2>1, SearchAssumption
<1>1. PICK n \in T : \A y \in T : n <= y
  <2>1. T \subseteq Nat
    BY <1>0
  <2> HIDE DEF T
  <2> QED BY <2>1, LeastNumber
<1>2. PICK k \in Below[n] : \E e \in Wife[k] : ~(weight[e] <= usWeight[n])
  BY <1>1
<1>2a. PICK e \in Wife[k] : ~(weight[e] <= usWeight[n])
  BY <1>2
<1>2b. n \in Node /\ k \in Node /\ e \in Entry
  BY <1>0, <1>1, <1>2, <1>2a
<1> DEFINE W == {weight[d] : d \in Wife[n]} \cup OfSons(n, usWeight)
<1>3. W \subseteq 0 .. MAX_WEIGHT_CHINESE
  <2>1. \A d \in Wife[n] : weight[d] \in Weight
    BY <1>0, <1>2b
  <2>2. \A s \in Side[n] \cup Mid[n] : usWeight[s] \in Weight
    BY <1>0, <1>2b
  <2> QED BY <2>1, <2>2 DEF OfSons, Weight
<1>4. \A x \in W : x <= usWeight[n]
  <2>1. usWeight[n] = Greatest(W)
    BY <1>2b DEF Inherited
  <2>2. MAX_WEIGHT_CHINESE \in Nat
    BY <1>0
  <2> HIDE DEF W
  <2>3. \A x \in W : x <= Greatest(W)
    BY <2>2, <1>3, GreatestBounds
  <2> QED BY <2>1, <2>3
<1>5. CASE k = n
  BY <1>2a, <1>4, <1>5
<1>6. CASE k # n
  <2>1. PICK s \in Side[n] \cup Mid[n] : k \in Below[s]
    <3>1. k \in UNION {Below[s] : s \in Side[n] \cup Mid[n]}
      BY <1>0, <1>2, <1>2b, <1>6
    <3> QED BY <3>1
  <2>2. s \in Node /\ s < n /\ s \in Nat /\ n \in Nat
    BY <2>1, <1>0, <1>2b
  <2>3. s \notin T
    <3> HIDE DEF T
    <3> QED BY <1>1, <2>2
  <2>4. weight[e] <= usWeight[s]
    BY <2>1, <2>2, <2>3, <1>2a
  <2>5. usWeight[s] <= usWeight[n]
    BY <1>4, <2>1 DEF OfSons
  <2>6. weight[e] \in Nat /\ usWeight[s] \in Nat /\ usWeight[n] \in Nat
    <3>1. weight[e] \in Weight /\ usWeight[s] \in Weight /\ usWeight[n] \in Weight
      BY <1>2b, <2>2
    <3> QED BY <3>1, <1>0 DEF Weight
  <2> QED BY <2>4, <2>5, <2>6, <1>2a
<1> QED BY <1>5, <1>6
-----------------------------------------------------------------------------
\* The entries of a node and the nodes below it, without the functions.
LEMMA TreeFacts ==
  /\ \A n \in Node : Side[n] \subseteq Node /\ Mid[n] \subseteq Node /\ Sons(n) \subseteq Node
  /\ \A n \in Node : Wife[n] \subseteq Entry /\ Below[n] \subseteq Node
  /\ \A n \in Node : Below[n] = {n} \cup UNION {Below[s] : s \in Sons(n)}
<1>1. Side \in [Node -> SUBSET Node] /\ Mid \in [Node -> SUBSET Node]
      /\ Below \in [Node -> SUBSET Node] /\ Wife \in [Node -> SUBSET Entry]
  BY SearchAssumption
<1>2. \A n \in Node : Below[n] = {n} \cup UNION {Below[s] : s \in Side[n] \cup Mid[n]}
  BY SearchAssumption
<1> QED BY <1>1, <1>2 DEF Sons

\* What BestQueue says of sets of results is what Search says of them.
LEMMA QueueRanks ==
  /\ \A S : Queue!Least(S) = Least(S)
  /\ \A r, i : Queue!Raised(r, i) = Raised(r, i)
  /\ \A a, b : Queue!Less(a, b) <=> Less(a, b)
  /\ \A S : Queue!Cardinality(S) = Cardinality(S)
<1>1. \A a, b : Queue!Less(a, b) <=> Less(a, b)
  BY DEF Queue!Less, Less
<1>2. \A S : Queue!Cardinality(S) = Cardinality(S)
  BY DEF Queue!Cardinality, Cardinality
<1> QED BY <1>1, <1>2 DEF Queue!Least, Least, Queue!Raised, Raised

\* The weights and the entries that are seen stay as they are.
LEMMA EnvStays == [Next]_vars => UNCHANGED env
  BY DEF Next, vars, env, SearchCommon, SearchMixed, MixedFind, MixedEnd, Matched, MatchedEnd,
         Best, BestEnd, CollectNode, NextCategory, NoMoreCategory, Packet, PacketEnd

\* What CollectNode leaves in the queue.
LEMMA OfferedType ==
  ASSUME kept \subseteq Result, queueSet \subseteq Int, out \in Seq(Result),
         NEW e \in Entry, weight[e] \in Nat, Offered(e)
  PROVE  kept' \subseteq Result /\ queueSet' \subseteq Int /\ out' = out
<1>1. Found(e) \in Result /\ Key(e) \in Int
  <2>1. Found(e) \in Result /\ e \in Result
    BY FoundFacts, EntryIsItself
  <2> QED BY <2>1 DEF Key, Result
<1>2. CASE Wanted(e) /\ New(e)
  BY <1>1, <1>2 DEF Offered, Queue!Keep
<1>3. CASE ~(Wanted(e) /\ New(e))
  BY <1>3 DEF Offered, top
<1> QED BY <1>2, <1>3

\* The entries a find brings are given a score.
LEMMA OfferType ==
  ASSUME TypeOK, iLoop <= Len(Category), NEW m, Offer(m)
  PROVE  /\ DOMAIN offered' \subseteq Entry
         /\ \A e \in DOMAIN offered' : offered'[e] \in [score : Nat, since : 1 .. Len(Category)]
<1>1. iLoop \in 1 .. Len(Category)
  BY SearchAssumption DEF TypeOK
<1>2. \A e \in Entry : weight[e] \in Nat
  BY SearchAssumption DEF TypeOK, Weight
<1>3. DOMAIN offered' = DOMAIN offered \cup EntriesOf(m) /\ EntriesOf(m) \subseteq Entry
  BY DEF Offer, EntriesOf, TypeOK
<1>4. ASSUME NEW e \in DOMAIN offered'
      PROVE  offered'[e] \in [score : Nat, since : 1 .. Len(Category)]
  <2>1. offered'[e] = IF e \in DOMAIN offered THEN offered[e]
                      ELSE [score |-> weight[e], since |-> iLoop]
    BY <1>3, <1>4 DEF Offer
  <2> QED BY <2>1, <1>1, <1>2, <1>3, <1>4 DEF TypeOK
<1>5. DOMAIN offered' \subseteq Entry
  BY <1>3 DEF TypeOK
<1> QED BY <1>4, <1>5
(***************************************************************************)
(* The variables stay in their types.                                      *)
(***************************************************************************)
LEMMA TypeStep == TypeOK /\ Staged /\ [Next]_vars => TypeOK'
<1> SUFFICES ASSUME TypeOK, Staged, [Next]_vars PROVE TypeOK'
  OBVIOUS
<1>0. weight' = weight /\ usWeight' = usWeight /\ good' = good
  BY EnvStays DEF env
<1>a. /\ \A k \in 1 .. Len(Category) : Category[k].iAddWeight \in Nat /\ Category[k].mixed \in BOOLEAN
      /\ Len(Category) \in Nat /\ MAX_MIX_SEARCH_TIME \in Nat /\ MAX_WEIGHT_CHINESE \in Nat
  <2> DEFINE C == [iAddWeight : Nat, mixed : BOOLEAN]
  <2>1. Category \in Seq(C) /\ MAX_MIX_SEARCH_TIME \in Nat /\ MAX_WEIGHT_CHINESE \in Nat
    BY SearchAssumption
  <2>2. \A c \in C : c.iAddWeight \in Nat /\ c.mixed \in BOOLEAN
    OBVIOUS
  <2> HIDE DEF C
  <2>3. Len(Category) \in Nat /\ \A k \in 1 .. Len(Category) : Category[k] \in C
    BY <2>1
  <2> QED BY <2>1, <2>2, <2>3
<1>b. Find \subseteq SUBSET Match
  BY FindAssumption
<1>1. ASSUME NEW m \in Find, SearchCommon(m) PROVE TypeOK'
  <2>1. CASE m # {}
    <3>1. DOMAIN offered' \subseteq Entry
          /\ \A e \in DOMAIN offered' : offered'[e] \in [score : Nat, since : 1 .. Len(Category)]
      BY <1>1, <2>1, OfferType DEF SearchCommon, InCategory, Collect
    <3>2. vecMatched' \subseteq Match /\ pc' = "matched"
      BY <1>1, <2>1, <1>b DEF SearchCommon, Collect
    <3> QED BY <1>0, <1>1, <3>1, <3>2 DEF SearchCommon, TypeOK, top
  <2>2. CASE m = {}
    BY <1>0, <1>1, <2>2 DEF SearchCommon, TypeOK, top
  <2> QED BY <2>1, <2>2
<1>2. ASSUME NEW m \in Find, MixedFind(m) PROVE TypeOK'
  <2>0. iLimitTime' \in 0 .. MAX_MIX_SEARCH_TIME
    BY <1>2, <1>a DEF MixedFind, TimeLeft, TypeOK
  <2>1. CASE m # {}
    <3>1. DOMAIN offered' \subseteq Entry
          /\ \A e \in DOMAIN offered' : offered'[e] \in [score : Nat, since : 1 .. Len(Category)]
      BY <1>2, <2>1, OfferType DEF MixedFind, Collect, Staged
    <3>2. vecMatched' \subseteq Match /\ pc' = "matched"
      BY <1>2, <2>1, <1>b DEF MixedFind, Collect
    <3> QED BY <1>0, <1>2, <2>0, <3>1, <3>2 DEF MixedFind, TypeOK, top
  <2>2. CASE m = {}
    BY <1>0, <1>2, <2>0, <2>2 DEF MixedFind, TypeOK, top
  <2> QED BY <2>1, <2>2
<1>3. ASSUME NEW found \in BOOLEAN, SearchMixed(found) PROVE TypeOK'
  BY <1>0, <1>3, <1>a DEF SearchMixed, TypeOK, top
<1>4. CASE MixedEnd
  BY <1>0, <1>4 DEF MixedEnd, TypeOK, top
<1>5. ASSUME NEW h \in vecMatched, Matched(h) PROVE TypeOK'
  <2>1. h.node \in Node /\ Mid[h.node] \subseteq Node /\ Wife[h.node] \subseteq Entry
    BY TreeFacts DEF TypeOK, Match
  <2>2. pqRes' \subseteq Node /\ extra' \subseteq Entry /\ vecMatched' \subseteq Match
    BY <1>5, <2>1 DEF Matched, TypeOK
  <2> QED BY <1>0, <1>5, <2>2 DEF Matched, TypeOK, top
<1>6. CASE MatchedEnd
  BY <1>0, <1>6 DEF MatchedEnd, TypeOK, top
<1>7. ASSUME NEW n \in pqRes, Best(n) PROVE TypeOK'
  <2>1. n \in Node /\ Sons(n) \subseteq Node /\ Wife[n] \subseteq Entry
    BY TreeFacts DEF TypeOK
  <2>2. pqRes' \subseteq Node /\ extra' \subseteq Entry
    BY <1>7, <2>1 DEF Best, TypeOK
  <2> QED BY <1>0, <1>7, <2>2 DEF Best, TypeOK, top
<1>8. CASE BestEnd
  BY <1>0, <1>8 DEF BestEnd, TypeOK, top
<1>9. ASSUME NEW e \in extra, CollectNode(e) PROVE TypeOK'
  <2>1. kept' \subseteq Result /\ queueSet' \subseteq Int /\ out' \in Seq(Result)
    <3>1. CASE e \in good
      <4>1. e \in Entry /\ weight[e] \in Nat
        BY <1>a DEF TypeOK, Weight
      <4> QED BY <4>1, <3>1, <1>9, OfferedType DEF CollectNode, TypeOK
    <3>2. CASE e \notin good
      BY <3>2, <1>9 DEF CollectNode, TypeOK, top
    <3> QED BY <3>1, <3>2
  <2> QED BY <1>0, <1>9, <2>1 DEF CollectNode, TypeOK
<1>10. CASE NextCategory
  <2>1. CASE Enough
    BY <1>0, <1>10, <2>1 DEF NextCategory, TypeOK
  <2>2. CASE ~Enough
    <3>1. iLoop \in 1 .. Len(Category) /\ iLoop' \in 1 .. Len(Category) + 1
      BY <1>10, <2>2, <1>a DEF NextCategory, Staged, TypeOK
    <3> DEFINE iAdd == Category[iLoop].iAddWeight
    <3>2. iAdd \in Nat
      BY <3>1, <1>a
    <3>3. CASE bSCRet /\ iAdd > 0
      <4>1. AddWeight(iAdd)
        BY <1>10, <2>2, <3>3 DEF NextCategory
      <4> HIDE DEF iAdd
      <4>2. kept' = {Raised(r, iAdd) : r \in kept} /\ out' = out
        BY <4>1, <3>3, QueueRanks DEF AddWeight, Queue!RaiseAll
      <4>3. kept' \subseteq Result
        BY <4>2, <3>2, RaisedFacts DEF TypeOK
      <4>4. DOMAIN offered' = DOMAIN offered
            /\ \A e \in DOMAIN offered : offered'[e] = [offered[e] EXCEPT !.score = @ + iAdd]
        BY <4>1, <3>3 DEF AddWeight
      <4>5. \A x \in [score : Nat, since : 1 .. Len(Category)] :
              [x EXCEPT !.score = @ + iAdd] \in [score : Nat, since : 1 .. Len(Category)]
        BY <3>2
      <4>6. \A e \in DOMAIN offered' : offered'[e] \in [score : Nat, since : 1 .. Len(Category)]
        BY <4>4, <4>5 DEF TypeOK
      <4>7. DOMAIN offered' \subseteq Entry
        BY <4>4 DEF TypeOK
      <4> QED BY <1>0, <1>10, <2>2, <3>1, <4>2, <4>3, <4>6, <4>7 DEF NextCategory, TypeOK
    <3>4. CASE ~(bSCRet /\ iAdd > 0)
      BY <1>0, <1>10, <2>2, <3>1, <3>4 DEF NextCategory, AddWeight, TypeOK
    <3> QED BY <3>3, <3>4
  <2> QED BY <2>1, <2>2
<1>11. CASE NoMoreCategory
  BY <1>0, <1>11 DEF NoMoreCategory, TypeOK, top
<1>12. CASE Packet
  <2>1. PICK worst \in Least(kept) : kept' = kept \ {worst} /\ out' = Append(out, worst)
    BY <1>12, QueueRanks DEF Packet, Queue!HandOut
  <2>2. worst \in Result
    BY <2>1 DEF Least, TypeOK
  <2>3. out' \in Seq(Result) /\ out'[Len(out')] = worst
    BY <2>1, <2>2 DEF TypeOK
  <2>4. strResult' = <<worst>> \o strResult
    BY <1>12, <2>3 DEF Packet, InFront
  <2>5. strResult' \in Seq(Result)
    BY <2>2, <2>4 DEF TypeOK
  <2> QED BY <1>0, <1>12, <2>1, <2>3, <2>5 DEF Packet, TypeOK
<1>13. CASE PacketEnd
  BY <1>0, <1>13 DEF PacketEnd, TypeOK, top
<1>14. CASE UNCHANGED vars
  BY <1>14 DEF vars, env, top, TypeOK
<1> QED
  BY <1>1, <1>2, <1>3, <1>4, <1>5, <1>6, <1>7, <1>8, <1>9, <1>10, <1>11, <1>12, <1>13, <1>14 DEF Next
-----------------------------------------------------------------------------
\* While the search goes on nothing is handed out, and what is saved is what is kept.
LEMMA SavedIsKept == out = <<>> => Saved = kept
  BY DEF Saved

\* What is saved are results, with numbers that are not negative.
LEMMA SavedType ==
  ASSUME TypeOK
  PROVE  /\ Saved \subseteq Result
         /\ Scored => \A r \in Saved : r.queryNum \in Nat /\ EntryOf(r) \in Entry
<1>1. Saved \subseteq Result
  BY DEF Saved, TypeOK
<1>2. \A e \in DOMAIN offered : e \in Entry /\ offered[e].score \in Nat
  BY DEF TypeOK
<1> QED BY <1>1, <1>2 DEF Scored

\* What stays the same when the saved results, the keys and the scores do.
LEMMA RankStays ==
  ASSUME Saved' = Saved, queueSet' = queueSet, offered' = offered, weight' = weight, good' = good
  PROVE  /\ Ranked => Ranked'
         /\ \A e : (Held(e)' <=> Held(e)) /\ (Beaten(e)' <=> Beaten(e))
<1>1. \A e : (Held(e)' <=> Held(e)) /\ (Beaten(e)' <=> Beaten(e))
  BY DEF Held, Beaten
<1>2. Ranked => Known' /\ Scored' /\ Ours' /\ Fresh' /\ Visible'
  BY DEF Ranked, Known, Scored, Ours, Fresh, Visible
<1>3. Ranked => Settled'
  BY <1>1 DEF Ranked, Settled
<1> QED BY <1>1, <1>2, <1>3 DEF Ranked

\* The least results of those kept have the least number.
LEMMA LeastIsLowest ==
  ASSUME kept \subseteq Result, NEW r \in Least(kept)
  PROVE  r \in kept /\ \A x \in kept : r.queryNum <= x.queryNum
  BY LessIsOrder DEF Least

\* The limit is a number, and no more than that many are kept.
LEMMA FullIsLimit ==
  ASSUME KeptOK
  PROVE  /\ iRetLimit \in Nat /\ Cardinality(kept) \in Nat
         /\ IsFullQueue <=> Cardinality(kept) = iRetLimit
         /\ ~IsFullQueue <=> Cardinality(kept) < iRetLimit
         /\ IsFullQueue => kept # {}
<1>1. iRetLimit \in Nat /\ iRetLimit # 0
  BY SearchAssumption
<1>2. Cardinality(kept) \in Nat /\ Cardinality(kept) <= iRetLimit
  BY FS_CardinalityType DEF KeptOK
<1>3. kept = {} => Cardinality(kept) = 0
  BY FS_EmptySet
<1> QED BY <1>1, <1>2, <1>3 DEF IsFullQueue

\* The indices of the categories only run past the end between two of them.
LEMMA StagedStep == TypeOK /\ Staged /\ [Next]_vars => Staged'
<1> SUFFICES ASSUME TypeOK, Staged, [Next]_vars PROVE Staged'
  OBVIOUS
<1>1. ASSUME NEW m \in Find, SearchCommon(m) \/ MixedFind(m) PROVE Staged'
  BY <1>1 DEF SearchCommon, MixedFind, InCategory, Collect, Staged, top
<1>2. ASSUME NEW found \in BOOLEAN, SearchMixed(found) PROVE Staged'
  BY <1>2 DEF SearchMixed, InCategory, Staged, top
<1>3. CASE MixedEnd
  BY <1>3 DEF MixedEnd, Staged, top
<1>4. ASSUME NEW h \in vecMatched, Matched(h) PROVE Staged'
  BY <1>4 DEF Matched, Staged, top
<1>5. CASE MatchedEnd
  BY <1>5 DEF MatchedEnd, Staged, top
<1>6. ASSUME NEW n \in pqRes, Best(n) PROVE Staged'
  BY <1>6 DEF Best, Staged, top
<1>7. CASE BestEnd
  BY <1>7 DEF BestEnd, Staged, top
<1>8. ASSUME NEW e \in extra, CollectNode(e) PROVE Staged'
  <2>1. out' = out
    BY <1>8 DEF CollectNode, Offered, Queue!Keep, top
  <2>2. pc \in {"matched", "best"}
    BY <1>8 DEF Staged
  <2> QED BY <1>8, <2>1, <2>2 DEF CollectNode, Staged
<1>9. CASE NextCategory
  <2>1. out' = out
    BY <1>9 DEF NextCategory, AddWeight, Queue!RaiseAll
  <2> QED BY <1>9, <2>1 DEF NextCategory, Staged
<1>10. CASE NoMoreCategory
  BY <1>10 DEF NoMoreCategory, Staged, top
<1>11. CASE Packet
  BY <1>11 DEF Packet, Staged
<1>12. CASE PacketEnd
  BY <1>12 DEF PacketEnd, Staged, top
<1>13. CASE UNCHANGED vars
  BY <1>13 DEF vars, top, Staged
<1> QED
  BY <1>1, <1>2, <1>3, <1>4, <1>5, <1>6, <1>7, <1>8, <1>9, <1>10, <1>11, <1>12, <1>13 DEF Next
-----------------------------------------------------------------------------
(***************************************************************************)
(* One entry goes through collect.  Whoever was saved or had lost is saved *)
(* or has lost after it, and so is the entry.                              *)
(***************************************************************************)
LEMMA OfferedRanks ==
  ASSUME TypeOK, KeptOK, Ranked, out = <<>>,
         NEW e \in DOMAIN offered, Offered(e),
         offered' = offered, weight' = weight, good' = good
  PROVE  /\ KeptOK' /\ Ranked'
         /\ \A d \in DOMAIN offered : Held(d) \/ Beaten(d) => Held(d)' \/ Beaten(d)'
         /\ Held(e)' \/ Beaten(e)'
<1> DEFINE f == Found(e)
<1>1. /\ e \in Entry /\ weight[e] \in Nat
      /\ \A d \in DOMAIN offered : d \in Entry /\ offered[d].score \in Nat
  BY SearchAssumption DEF TypeOK, Weight
<1>2. f \in Result /\ f.queryNum = weight[e] /\ EntryOf(f) = e /\ Key(f) = Key(e)
  BY <1>1, FoundFacts
<1>3. Saved = kept /\ kept \subseteq Result
  BY SavedIsKept DEF TypeOK
<1>4. \A r \in kept : r.queryNum \in Nat
  BY <1>3, SavedType DEF Ranked
<1>5. out' = out
  BY DEF Offered, Queue!Keep, top
<1>6. Saved' = kept'
  BY <1>5 DEF Saved
<1>7. \A d \in Entry : Key(d) = Key(e) => d = e
  BY <1>1, SearchAssumption
<1>8. \A r \in Least(kept) : r \in kept /\ \A x \in kept : r.queryNum <= x.queryNum
  BY <1>3, LeastIsLowest
<1> HIDE DEF f
<1>9. CASE Wanted(e) /\ New(e) /\ Queue!Keep(f)
  <2>1. queueSet' = queueSet \cup {Key(e)}
    BY <1>9 DEF Offered
  <2>2. offered[e].score = f.queryNum /\ f \notin kept
    BY <1>2, <1>9 DEF New, Ranked, Fresh, Queue!Keep
  <2>3. CASE Cardinality(kept) < iRetLimit /\ kept' = kept \cup {f}
    <3>1. KeptOK'
      <4>1. IsFiniteSet(kept') /\ Cardinality(kept') = Cardinality(kept) + 1
        BY <2>2, <2>3, FS_AddElement DEF KeptOK
      <4> QED BY <4>1, <2>3, FullIsLimit DEF KeptOK
    <3>2. ~(\E d \in DOMAIN offered : Beaten(d))
      BY <1>3, <2>3, FullIsLimit DEF Beaten
    <3>3. \A d : Held(d) => Held(d)'
      BY <1>3, <1>6, <2>3 DEF Held
    <3>4. Held(e)'
      BY <1>2, <1>6, <2>3 DEF Held
    <3>5. Known' /\ Scored'
      BY <1>2, <1>3, <1>6, <2>1, <2>2, <2>3 DEF Ranked, Known, Scored
    <3>6. Ours' /\ Fresh' /\ Visible'
      BY <1>7, <2>1 DEF Ranked, Ours, Fresh, Visible
    <3>7. Settled'
      BY <1>1, <1>7, <2>1, <3>2, <3>3, <3>4 DEF Ranked, Settled
    <3> QED BY <3>1, <3>2, <3>3, <3>4, <3>5, <3>6, <3>7 DEF Ranked
  <2>4. ASSUME Cardinality(kept) = iRetLimit, NEW worst \in Least(kept), ~Less(f, worst),
               kept' = (kept \ {worst}) \cup {f}
        PROVE  /\ KeptOK' /\ Ranked'
               /\ \A d \in DOMAIN offered : Held(d) \/ Beaten(d) => Held(d)' \/ Beaten(d)'
               /\ Held(e)' \/ Beaten(e)'
    <3>1. IsFiniteSet(kept') /\ Cardinality(kept') = iRetLimit
      <4>1. IsFiniteSet(kept \ {worst}) /\ Cardinality(kept \ {worst}) = Cardinality(kept) - 1
        BY <1>8, <2>4, FS_RemoveElement DEF KeptOK
      <4>2. IsFiniteSet(kept') /\ Cardinality(kept') = Cardinality(kept) - 1 + 1
        BY <4>1, <2>2, <2>4, FS_AddElement
      <4> QED BY <4>2, <2>4, FullIsLimit
    <3>2. KeptOK'
      BY <3>1, FullIsLimit DEF KeptOK
    <3>3. \A r \in Saved' : worst.queryNum <= r.queryNum /\ r.queryNum \in Nat
      <4>1. worst \in kept /\ worst \in Result /\ worst.queryNum <= f.queryNum
        BY <1>2, <1>3, <1>8, <2>4, LessIsOrder
      <4> QED BY <1>1, <1>2, <1>4, <1>6, <1>8, <2>4, <4>1
    <3>4. ASSUME NEW d \in DOMAIN offered, Held(d) \/ Beaten(d)
          PROVE  Held(d)' \/ Beaten(d)'
      <4>1. CASE \E r \in kept' : EntryOf(r) = d
        BY <4>1, <1>6 DEF Held
      <4>2. CASE Held(d) /\ ~(\E r \in kept' : EntryOf(r) = d)
        <5>1. EntryOf(worst) = d
          BY <4>2, <1>3, <2>4 DEF Held
        <5>2. offered[d].score = worst.queryNum
          BY <5>1, <1>3, <1>8 DEF Ranked, Scored
        <5> QED BY <5>2, <3>1, <3>3, <1>6 DEF Beaten
      <4>3. CASE Beaten(d)
        <5>1. offered[d].score <= worst.queryNum
          BY <4>3, <1>3, <1>8 DEF Beaten
        <5>2. \A r \in Saved' : offered[d].score <= r.queryNum
          BY <5>1, <3>3, <1>1, <1>4, <1>8
        <5> QED BY <5>2, <3>1, <1>6 DEF Beaten
      <4> QED BY <3>4, <4>1, <4>2, <4>3
    <3>5. Held(e)'
      BY <1>2, <1>6, <2>4 DEF Held
    <3>6. Known' /\ Scored'
      BY <1>2, <1>3, <1>6, <2>1, <2>2, <2>4 DEF Ranked, Known, Scored
    <3>7. Ours' /\ Fresh' /\ Visible'
      BY <1>7, <2>1 DEF Ranked, Ours, Fresh, Visible
    <3>8. Settled'
      BY <1>1, <1>7, <2>1, <3>4, <3>5 DEF Ranked, Settled
    <3> QED BY <3>2, <3>4, <3>5, <3>6, <3>7, <3>8 DEF Ranked
  <2>5. \/ Cardinality(kept) < iRetLimit /\ kept' = kept \cup {f}
        \/ /\ Cardinality(kept) = iRetLimit
           /\ \E worst \in Least(kept) : ~Less(f, worst) /\ kept' = (kept \ {worst}) \cup {f}
    <3>1. \/ Queue!Cardinality(kept) < iRetLimit /\ kept' = kept \cup {f}
          \/ /\ Queue!Cardinality(kept) = iRetLimit
             /\ \E worst \in Queue!Least(kept) :
                  ~Queue!Less(f, worst) /\ kept' = (kept \ {worst}) \cup {f}
      BY <1>9 DEF Queue!Keep
    <3>2. Queue!Least(kept) = Least(kept)
      BY QueueRanks
    <3>3. \A worst : Queue!Less(f, worst) <=> Less(f, worst)
      BY QueueRanks
    <3>4. Queue!Cardinality(kept) = Cardinality(kept)
      BY QueueRanks
    <3> QED BY <3>1, <3>2, <3>3, <3>4
  <2>6. CASE \E worst \in Least(kept) : ~Less(f, worst) /\ kept' = (kept \ {worst}) \cup {f}
    <3>1. CASE Cardinality(kept) = iRetLimit
      BY <2>6, <3>1, <2>4
    <3>2. CASE Cardinality(kept) < iRetLimit /\ kept' = kept \cup {f}
      BY <3>2, <2>3
    <3> QED BY <2>5, <3>1, <3>2
  <2> QED BY <2>3, <2>5, <2>6
<1>10. CASE /\ Wanted(e) /\ New(e) /\ IsFullQueue
            /\ \E r \in Least(kept) : Less(f, r)
            /\ queueSet' = queueSet \cup {Key(e)} /\ kept' = kept
  <2>1. PICK r \in Least(kept) : Less(f, r)
    BY <1>10
  <2>2. f.queryNum <= r.queryNum
    BY <2>1, <1>2, <1>3, <1>8, LessIsOrder
  <2>3. offered[e].score = f.queryNum
    BY <1>2, <1>10 DEF New, Ranked, Fresh
  <2>4. Cardinality(kept) = iRetLimit
    BY <1>10, FullIsLimit
  <2>5. \A d : (Held(d)' <=> Held(d)) /\ (Beaten(d)' <=> Beaten(d))
    BY <1>3, <1>6, <1>10 DEF Held, Beaten
  <2>6. Beaten(e)
    BY <1>1, <1>2, <1>3, <1>4, <1>8, <2>2, <2>3, <2>4 DEF Beaten
  <2>7. Known' /\ Scored' /\ Ours' /\ Fresh' /\ Visible'
    BY <1>3, <1>6, <1>7, <1>10 DEF Ranked, Known, Scored, Ours, Fresh, Visible
  <2>8. Settled'
    BY <1>1, <1>7, <1>10, <2>5, <2>6 DEF Ranked, Settled
  <2>9. KeptOK'
    BY <1>10 DEF KeptOK
  <2> QED BY <2>5, <2>6, <2>7, <2>8, <2>9 DEF Ranked
<1>11. CASE ~(Wanted(e) /\ New(e)) /\ UNCHANGED top
  <2>1. Saved' = Saved /\ queueSet' = queueSet /\ kept' = kept
    BY <1>3, <1>6, <1>11 DEF top
  <2>2. Ranked' /\ \A d : (Held(d)' <=> Held(d)) /\ (Beaten(d)' <=> Beaten(d))
    BY <2>1, RankStays
  <2>3. ASSUME ~New(e) PROVE Held(e) \/ Beaten(e)
    BY <2>3 DEF New, Ranked, Settled
  <2>4. ASSUME New(e) PROVE Beaten(e)
    <3>1. IsFullQueue /\ ~(weight[e] > 0)
      BY <2>4, <1>11 DEF Wanted
    <3>2. offered[e].score = 0
      BY <3>1, <2>4, <1>1 DEF New, Ranked, Fresh
    <3> QED BY <3>1, <3>2, <1>3, <1>4, FullIsLimit DEF Beaten
  <2>5. Held(e) \/ Beaten(e)
    BY <2>3, <2>4
  <2>6. KeptOK'
    BY <2>1 DEF KeptOK
  <2> QED BY <2>2, <2>5, <2>6
<1> QED BY <1>9, <1>10, <1>11, <1>5 DEF Offered, f, top
(***************************************************************************)
(* A find hands over its matches.  The entries that are new are not seen   *)
(* yet, so nothing is lost.                                                *)
(***************************************************************************)
LEMMA OfferRanks ==
  ASSUME TypeOK, Ranked, NEW m \in Find, Offer(m),
         UNCHANGED <<env, top>>
  PROVE  /\ Ranked'
         /\ DOMAIN offered' = DOMAIN offered \cup EntriesOf(m)
         /\ \A d \in DOMAIN offered : (Held(d)' <=> Held(d)) /\ (Beaten(d)' <=> Beaten(d))
<1>1. /\ DOMAIN offered' = DOMAIN offered \cup EntriesOf(m)
      /\ \A d \in DOMAIN offered : offered'[d] = offered[d]
      /\ \A d \in EntriesOf(m) \ DOMAIN offered : offered'[d] = [score |-> weight[d], since |-> iLoop]
  BY DEF Offer
<1>2. Saved' = Saved /\ queueSet' = queueSet /\ weight' = weight /\ good' = good
  BY DEF Saved, top, env
<1>3. EntriesOf(m) \subseteq good /\ good \subseteq Entry
  BY DEF EntriesOf, TypeOK
<1>4. \A d \in DOMAIN offered : (Held(d)' <=> Held(d)) /\ (Beaten(d)' <=> Beaten(d))
  BY <1>1, <1>2 DEF Held, Beaten
<1>5. Known' /\ Scored'
  BY <1>1, <1>2 DEF Ranked, Known, Scored
<1>6. Ours'
  BY <1>1, <1>2 DEF Ranked, Ours
<1>7. Fresh'
  BY <1>1, <1>2 DEF Ranked, Fresh
<1>8. Visible'
  BY <1>1, <1>2, <1>3 DEF Ranked, Visible
<1>9. Settled'
  <2>1. ASSUME NEW d \in DOMAIN offered', Key(d) \in queueSet PROVE d \in DOMAIN offered
    <3>1. d \in Entry
      BY <2>1, <1>1, <1>3 DEF TypeOK
    <3> QED BY <3>1, <2>1 DEF Ranked, Ours
  <2> QED BY <2>1, <1>1, <1>2, <1>4 DEF Ranked, Settled
<1> QED BY <1>1, <1>4, <1>5, <1>6, <1>7, <1>8, <1>9 DEF Ranked

(***************************************************************************)
(* AddWeight: there is room, so every matched entry is saved, and all of   *)
(* them go up together.                                                    *)
(***************************************************************************)
LEMMA WeightRanks ==
  ASSUME TypeOK, KeptOK, Ranked, out = <<>>,
         \A d \in DOMAIN offered : Held(d),
         NEW i \in Nat, i > 0, AddWeight(i), UNCHANGED <<env, queueSet>>
  PROVE  KeptOK' /\ Ranked' /\ \A d \in DOMAIN offered' : Held(d)'
<1>1. kept' = {Raised(r, i) : r \in kept} /\ out' = out
  BY QueueRanks DEF AddWeight, Queue!RaiseAll
<1>2. /\ DOMAIN offered' = DOMAIN offered
      /\ \A d \in DOMAIN offered : offered'[d] = [offered[d] EXCEPT !.score = @ + i]
  BY DEF AddWeight
<1>3. \A d \in DOMAIN offered : d \in Entry /\ offered'[d].score = offered[d].score + i
  <2>1. \A x \in [score : Nat, since : 1 .. Len(Category)] : [x EXCEPT !.score = @ + i].score = x.score + i
    OBVIOUS
  <2> QED BY <1>2, <2>1 DEF TypeOK
<1>4. Saved = kept /\ Saved' = kept' /\ kept \subseteq Result
  BY <1>1, SavedIsKept DEF Saved, TypeOK
<1>5. \A r \in kept : /\ Raised(r, i).queryNum = r.queryNum + i
                      /\ EntryOf(Raised(r, i)) = EntryOf(r)
                      /\ Key(Raised(r, i)) = Key(r)
  BY <1>4, RaisedFacts
<1>6. KeptOK'
  <2> DEFINE f == [r \in kept |-> Raised(r, i)]
  <2>1. f \in Surjection(kept, kept')
    BY <1>1 DEF Surjection
  <2>2. IsFiniteSet(kept') /\ Cardinality(kept') <= Cardinality(kept)
    <3> HIDE DEF f
    <3> QED BY <2>1, FS_Surjection DEF KeptOK
  <2>3. Cardinality(kept') \in Nat
    BY <2>2, FS_CardinalityType
  <2> QED BY <2>2, <2>3, FullIsLimit DEF KeptOK
<1>7. Known'
  BY <1>1, <1>4, <1>5 DEF Ranked, Known, env
<1>8. Scored'
  <2>1. ASSUME NEW r \in kept
        PROVE  /\ EntryOf(Raised(r, i)) \in DOMAIN offered'
               /\ offered'[EntryOf(Raised(r, i))].score = Raised(r, i).queryNum
    <3>1. EntryOf(r) \in DOMAIN offered /\ offered[EntryOf(r)].score = r.queryNum
      BY <1>4 DEF Ranked, Scored
    <3> QED BY <3>1, <1>2, <1>3, <1>5
  <2> QED BY <2>1, <1>1, <1>4 DEF Scored
<1>9. ASSUME NEW d \in DOMAIN offered PROVE Held(d)' /\ Key(d) \in queueSet
  <2>1. PICK r \in kept : EntryOf(r) = d
    BY <1>4 DEF Held
  <2>2. Key(d) = Key(r)
    BY <2>1, <1>4, EntryFacts
  <2>3. Key(d) \in queueSet
    BY <2>1, <2>2, <1>4 DEF Ranked, Known
  <2>4. EntryOf(Raised(r, i)) = d /\ Raised(r, i) \in kept'
    BY <2>1, <1>1, <1>5
  <2> QED BY <2>3, <2>4, <1>4 DEF Held
<1>10. Ours' /\ Visible'
  BY <1>2 DEF Ranked, Ours, Visible, env
<1>11. Fresh' /\ Settled'
  BY <1>2, <1>9 DEF Fresh, Settled
<1> QED BY <1>2, <1>6, <1>7, <1>8, <1>9, <1>10, <1>11 DEF Ranked

-----------------------------------------------------------------------------
\* The nodes under the matches M and the nodes Q.
LEMMA NodesToCome ==
  ASSUME NEW M, NEW Q
  PROVE  \A n : n \in (UNION {Under(h) : h \in M}) \cup (UNION {Below[q] : q \in Q})
               <=> (\E h \in M : n \in Under(h)) \/ (\E q \in Q : n \in Below[q])
  OBVIOUS

\* The nodes of a match are as much to come when they are queued, or their entries taken, as before.
LEMMA MatchedComing ==
  ASSUME TypeOK, NEW h \in vecMatched, Matched(h)
  PROVE  \A e : Coming(e)' <=> Coming(e)
<1> DEFINE Left(n) == \E g \in vecMatched' : n \in Under(g)
           Pick(n) == \E p \in pqRes : n \in Below[p]
<1>0. vecMatched' = vecMatched \ {h}
  BY DEF Matched
<1>1. \A n : n \in ToCome <=> n \in Under(h) \/ Left(n) \/ Pick(n)
  <2>1. \A n : n \in ToCome <=> (\E g \in vecMatched : n \in Under(g)) \/ Pick(n)
    BY NodesToCome DEF ToCome
  <2> QED BY <2>1, <1>0
<1>2. \A n : n \in ToCome' <=> Left(n) \/ \E p \in pqRes' : n \in Below[p]
  BY NodesToCome DEF ToCome
<1>3. extra = {}
  BY DEF Matched
<1> SUFFICES ASSUME NEW e PROVE Coming(e)' <=> Coming(e)
  OBVIOUS
<1>4. CASE h.whole /\ pqRes' = pqRes \cup {h.node} /\ UNCHANGED extra
  <2>1. \A n : n \in Under(h) <=> n \in Below[h.node]
    BY <1>4 DEF Under
  <2>2. \A n : n \in ToCome' <=> n \in ToCome
    BY <1>1, <1>2, <1>4, <2>1
  <2> QED BY <1>4, <2>2 DEF Coming
<1>5. CASE ~h.whole /\ Mid[h.node] = {} /\ extra' = Wife[h.node] /\ UNCHANGED pqRes
  <2>1. \A n : n \in Under(h) <=> n = h.node
    BY <1>5 DEF Under
  <2>2. \A n : n \in ToCome <=> n = h.node \/ n \in ToCome'
    BY <1>1, <1>2, <1>5, <2>1
  <2> QED BY <1>3, <1>5, <2>2 DEF Coming
<1>6. CASE ~h.whole /\ Mid[h.node] # {} /\ pqRes' = pqRes \cup Mid[h.node] /\ UNCHANGED extra
  <2>1. \A n : n \in Under(h) <=> \E s \in Mid[h.node] : n \in Below[s]
    BY <1>6 DEF Under
  <2>2. \A n : n \in ToCome' <=> n \in ToCome
    BY <1>1, <1>2, <1>6, <2>1
  <2> QED BY <1>6, <2>2 DEF Coming
<1> QED BY <1>4, <1>5, <1>6 DEF Matched

\* What is to come after a heaviest node was to come before; what no longer is, is under a
\* son that was left out.
LEMMA BestComing ==
  ASSUME TypeOK, Staged, NEW n \in pqRes, Best(n)
  PROVE  /\ \A e : Coming(e)' => Coming(e)
         /\ \A e : Coming(e) => \/ Coming(e)'
                                \/ \E s \in Sons(n) : ~Promising(s) /\ \E k \in Below[s] : e \in Wife[k]
<1>1. n \in Node /\ Sons(n) \subseteq Node /\ Below[n] = {n} \cup UNION {Below[s] : s \in Sons(n)}
  BY TreeFacts DEF TypeOK
<1>2. /\ vecMatched = {} /\ vecMatched' = {} /\ extra = {} /\ extra' = Wife[n]
      /\ pqRes' = (pqRes \ {n}) \cup {s \in Sons(n) : Promising(s)}
  BY DEF Best, Staged
<1>3. /\ \A k : k \in ToCome <=> \E p \in pqRes : k \in Below[p]
      /\ \A k : k \in ToCome' <=> \E p \in pqRes' : k \in Below[p]
  <2>1. \A k : k \in ToCome <=> (\E h \in vecMatched : k \in Under(h)) \/ \E p \in pqRes : k \in Below[p]
    BY NodesToCome DEF ToCome
  <2>2. \A k : k \in ToCome' <=> (\E h \in vecMatched' : k \in Under(h)) \/ \E p \in pqRes' : k \in Below[p]
    BY NodesToCome DEF ToCome
  <2> QED BY <1>2, <2>1, <2>2
<1>3a. \A s \in Sons(n) : \A k \in Below[s] : k \in Below[n]
  BY <1>1
<1>4. \A k : k \in ToCome' => k \in ToCome
  BY <1>2, <1>3, <1>3a
<1>5. \A k \in ToCome : \/ k \in ToCome' \/ k = n
                        \/ \E s \in Sons(n) : ~Promising(s) /\ k \in Below[s]
  <2>1. ASSUME NEW k \in ToCome, k # n, k \notin ToCome'
        PROVE  \E s \in Sons(n) : ~Promising(s) /\ k \in Below[s]
    <3>1. PICK p \in pqRes : k \in Below[p]
      BY <1>3
    <3>2. p = n
      BY <1>2, <1>3, <2>1, <3>1
    <3>3. PICK s \in Sons(n) : k \in Below[s]
      <4>1. k \in UNION {Below[s] : s \in Sons(n)}
        BY <1>1, <2>1, <3>1, <3>2
      <4> QED BY <4>1
    <3>4. ~Promising(s)
      BY <1>2, <1>3, <2>1, <3>3
    <3> QED BY <3>3, <3>4
  <2> QED BY <2>1
<1>6. n \in ToCome
  BY <1>1, <1>3
<1>7. ASSUME NEW e, Coming(e)' PROVE Coming(e)
  BY <1>2, <1>4, <1>6, <1>7 DEF Coming
<1>8. ASSUME NEW e, Coming(e), ~Coming(e)'
      PROVE  \E s \in Sons(n) : ~Promising(s) /\ \E k \in Below[s] : e \in Wife[k]
  BY <1>2, <1>5, <1>8 DEF Coming
<1> QED BY <1>7, <1>8
-----------------------------------------------------------------------------
\* What has to hold between what is saved, what was matched and what is to come.
Flow == KeptOK /\ Ranked /\ Kin /\ Covered

\* A step that changes neither the results nor what is to come.
LEMMA FlowStays ==
  ASSUME Flow, UNCHANGED <<env, top, offered>>, \A e : Coming(e)' <=> Coming(e)
  PROVE  Flow'
<1>1. Saved' = Saved /\ queueSet' = queueSet /\ offered' = offered /\ weight' = weight
      /\ good' = good /\ kept' = kept
  BY DEF Saved, top, env
<1>2. Ranked' /\ \A e : (Held(e)' <=> Held(e)) /\ (Beaten(e)' <=> Beaten(e))
  BY <1>1, RankStays DEF Flow
<1>3. KeptOK'
  BY <1>1 DEF Flow, KeptOK
<1>4. Kin'
  BY <1>1 DEF Flow, Kin
<1>5. Covered'
  BY <1>1, <1>2 DEF Flow, Covered
<1> QED BY <1>2, <1>3, <1>4, <1>5 DEF Flow

\* Where nothing is queued nothing is to come.
LEMMA NothingComing ==
  ASSUME vecMatched = {}, pqRes = {}, extra = {}
  PROVE  \A e : ~Coming(e)
<1>1. \A n : n \notin ToCome
  BY NodesToCome DEF ToCome
<1> QED BY <1>1 DEF Coming

\* The matches of a find are all to come.
LEMMA CollectFlow ==
  ASSUME TypeOK, Flow, NEW m \in Find, Collect(m),
         vecMatched = {}, pqRes = {}, extra = {},
         UNCHANGED <<env, top, pqRes, extra>>
  PROVE  Flow'
<1>1. /\ Ranked' /\ DOMAIN offered' = DOMAIN offered \cup EntriesOf(m)
      /\ \A d \in DOMAIN offered : (Held(d)' <=> Held(d)) /\ (Beaten(d)' <=> Beaten(d))
  BY OfferRanks DEF Flow, Collect
<1>2. vecMatched' = m /\ pqRes' = {} /\ extra' = {} /\ good' = good
  BY DEF Collect, env
<1>3. \A n : n \in ToCome' <=> \E h \in m : n \in Under(h)
  <2>1. \A n : n \in ToCome' <=> (\E h \in m : n \in Under(h)) \/ \E q \in pqRes' : n \in Below[q]
    BY <1>2, NodesToCome DEF ToCome
  <2> QED BY <2>1, <1>2
<1>4. \A e \in good : Coming(e)' <=> e \in EntriesOf(m)
  BY <1>2, <1>3 DEF Coming, EntriesOf
<1>5. KeptOK'
  BY DEF Flow, KeptOK, top
<1>6. Kin'
  BY <1>1, <1>2, <1>4 DEF Kin
<1>7. Covered'
  <2>1. ASSUME NEW d \in DOMAIN offered PROVE Held(d)' \/ Beaten(d)'
    BY <1>1, NothingComing DEF Flow, Covered
  <2>2. ASSUME NEW d \in EntriesOf(m) PROVE Coming(d)'
    BY <1>4 DEF EntriesOf
  <2> QED BY <1>1, <2>1, <2>2 DEF Covered
<1> QED BY <1>1, <1>5, <1>6, <1>7 DEF Flow

(***************************************************************************)
(* A branch that is left out brings nothing that would have been kept: the *)
(* limit is reached, and its weight bounds those of all entries below it.  *)
(***************************************************************************)
LEMMA LeftOutIsBeaten ==
  ASSUME TypeOK, Inherited(usWeight), KeptOK, Ranked, out = <<>>,
         NEW s \in Node, ~Promising(s), NEW k \in Below[s], NEW e \in Wife[k],
         e \in DOMAIN offered
  PROVE  Held(e) \/ Beaten(e)
<1>1. CASE Key(e) \in queueSet
  BY <1>1 DEF Ranked, Settled
<1>2. CASE Key(e) \notin queueSet
  <2>1. IsFullQueue /\ \A r \in Least(kept) : ~(usWeight[s] > r.queryNum)
    BY DEF Promising
  <2>2. Cardinality(kept) = iRetLimit /\ kept # {} /\ IsFiniteSet(kept)
    BY <2>1, FullIsLimit DEF KeptOK
  <2>3. Saved = kept /\ kept \subseteq Result
    BY SavedIsKept DEF TypeOK
  <2>4. PICK r \in Least(kept) : TRUE
    BY <2>2, <2>3, LeastExists
  <2>5. r \in kept /\ \A x \in kept : r.queryNum <= x.queryNum
    BY <2>3, LeastIsLowest
  <2>6. weight[e] <= usWeight[s]
    BY HeaviestBelow DEF TypeOK
  <2>7. usWeight[s] \in Nat /\ weight[e] \in Nat
    BY SearchAssumption DEF TypeOK, Weight
  <2>8. \A x \in kept : x.queryNum \in Nat
    BY <2>3, SavedType DEF Ranked
  <2>9. \A x \in kept : weight[e] <= x.queryNum
    BY <2>1, <2>4, <2>5, <2>6, <2>7, <2>8
  <2>10. offered[e].score = weight[e]
    BY <1>2 DEF Ranked, Fresh
  <2> QED BY <2>2, <2>3, <2>9, <2>10 DEF Beaten
<1> QED BY <1>1, <1>2

\* A heaviest node brings its sons and entries.
LEMMA BestFlow ==
  ASSUME Inv, NEW n \in pqRes, Best(n)
  PROVE  Flow'
<1>1. /\ \A e : Coming(e)' => Coming(e)
      /\ \A e : Coming(e) => \/ Coming(e)'
                             \/ \E s \in Sons(n) : ~Promising(s) /\ \E k \in Below[s] : e \in Wife[k]
  BY BestComing DEF Inv
<1>2. Saved' = Saved /\ queueSet' = queueSet /\ offered' = offered /\ weight' = weight
      /\ good' = good /\ kept' = kept
  BY DEF Best, Saved, top, env
<1>3. Ranked' /\ \A e : (Held(e)' <=> Held(e)) /\ (Beaten(e)' <=> Beaten(e))
  BY <1>2, RankStays DEF Inv
<1>4. KeptOK'
  BY <1>2 DEF Inv, KeptOK
<1>5. Kin'
  BY <1>1, <1>2 DEF Inv, Kin
<1>6. ASSUME NEW e \in DOMAIN offered PROVE Held(e) \/ Coming(e)' \/ Beaten(e)
  <2>1. CASE Held(e) \/ Beaten(e) \/ Coming(e)'
    BY <2>1
  <2>2. CASE Coming(e) /\ ~Coming(e)'
    <3>1. PICK s \in Sons(n) : ~Promising(s) /\ \E k \in Below[s] : e \in Wife[k]
      BY <2>2, <1>1
    <3>2. PICK k \in Below[s] : e \in Wife[k]
      BY <3>1
    <3>3. s \in Node
      BY TreeFacts DEF Inv, TypeOK
    <3>4. out = <<>>
      BY DEF Best, Inv, Staged
    <3> QED BY <3>1, <3>2, <3>3, <3>4, LeftOutIsBeaten DEF Inv
  <2> QED BY <2>1, <2>2 DEF Inv, Covered
<1>7. Covered'
  BY <1>2, <1>3, <1>6 DEF Covered
<1> QED BY <1>3, <1>4, <1>5, <1>7 DEF Flow

\* An entry that is collected is saved or has lost, or it was not matched.
LEMMA CollectNodeFlow ==
  ASSUME Inv, NEW e \in extra, CollectNode(e)
  PROVE  Flow'
<1>1. /\ extra' = extra \ {e} /\ vecMatched' = vecMatched /\ pqRes' = pqRes /\ offered' = offered
      /\ weight' = weight /\ good' = good /\ ToCome' = ToCome
  BY DEF CollectNode, ToCome, env
<1>2. \A d : Coming(d)' => Coming(d)
  BY <1>1 DEF Coming
<1>3. \A d : Coming(d) => d = e \/ Coming(d)'
  BY <1>1 DEF Coming
<1>4. Kin'
  BY <1>1, <1>2 DEF Inv, Kin
<1>5. CASE e \in good
  <2>1. out = <<>> /\ e \in DOMAIN offered
    BY <1>5 DEF Inv, Staged, Kin, Coming
  <2>2. /\ KeptOK' /\ Ranked'
        /\ \A d \in DOMAIN offered : Held(d) \/ Beaten(d) => Held(d)' \/ Beaten(d)'
        /\ Held(e)' \/ Beaten(e)'
    BY <1>1, <1>5, <2>1, OfferedRanks DEF Inv, CollectNode
  <2>3. Covered'
    BY <1>1, <1>3, <2>2 DEF Inv, Covered
  <2> QED BY <1>4, <2>2, <2>3 DEF Flow
<1>6. CASE e \notin good
  <2>1. Saved' = Saved /\ queueSet' = queueSet /\ kept' = kept
    BY <1>6 DEF CollectNode, top, Saved
  <2>2. Ranked' /\ \A d : (Held(d)' <=> Held(d)) /\ (Beaten(d)' <=> Beaten(d))
    BY <1>1, <2>1, RankStays DEF Inv
  <2>3. e \notin DOMAIN offered
    BY <1>6 DEF Inv, Ranked, Visible
  <2>4. Covered'
    BY <1>1, <1>3, <2>2, <2>3 DEF Inv, Covered
  <2>5. KeptOK'
    BY <2>1 DEF Inv, KeptOK
  <2> QED BY <1>4, <2>2, <2>4, <2>5 DEF Flow
<1> QED BY <1>5, <1>6
\* At the end of a category all that was matched is saved if there is room.
LEMMA NextCategoryFlow ==
  ASSUME Inv, NextCategory
  PROVE  Flow'
<1>1. /\ vecMatched = {} /\ pqRes = {} /\ extra = {} /\ out = <<>>
      /\ vecMatched' = {} /\ pqRes' = {} /\ extra' = {}
      /\ iLoop \in 1 .. Len(Category)
  BY SearchAssumption DEF Inv, TypeOK, Staged, NextCategory
<1>2. \A e : ~Coming(e) /\ ~Coming(e)'
  <2>1. \A n : n \notin ToCome'
    BY <1>1, NodesToCome DEF ToCome
  <2>2. \A e : ~Coming(e)'
    BY <1>1, <2>1 DEF Coming
  <2> QED BY <1>1, <2>2, NothingComing
<1>3. UNCHANGED <<env, queueSet>>
  BY DEF NextCategory
<1> DEFINE iAdd == Category[iLoop].iAddWeight
<1>4. CASE ~Enough /\ bSCRet /\ iAdd > 0
  <2>1. iAdd \in Nat
    <3> DEFINE C == [iAddWeight : Nat, mixed : BOOLEAN]
    <3>1. Category \in Seq(C)
      BY SearchAssumption
    <3>2. \A c \in C : c.iAddWeight \in Nat
      OBVIOUS
    <3> HIDE DEF C
    <3> QED BY <1>1, <3>1, <3>2
  <2>2. AddWeight(iAdd)
    BY <1>4 DEF NextCategory
  <2>3. ASSUME NEW d \in DOMAIN offered PROVE Held(d)
    <3>1. Cardinality(Saved) # iRetLimit
      BY <1>1, <1>4, SavedIsKept, FullIsLimit DEF Enough, Inv
    <3> QED BY <3>1, <1>2 DEF Inv, Covered, Beaten
  <2> HIDE DEF iAdd
  <2>4. KeptOK' /\ Ranked' /\ \A d \in DOMAIN offered' : Held(d)'
    BY <1>1, <1>3, <1>4, <2>1, <2>2, <2>3, WeightRanks DEF Inv
  <2> QED BY <1>2, <2>4 DEF Flow, Kin, Covered
<1>5. CASE ~(~Enough /\ bSCRet /\ iAdd > 0)
  <2>1. UNCHANGED <<kept, out, offered>>
    BY <1>5 DEF NextCategory, AddWeight
  <2> QED BY <1>2, <1>3, <2>1, FlowStays DEF Inv, Flow, top
<1> QED BY <1>4, <1>5

\* Packet moves a result from those kept to those handed out.
LEMMA PacketFlow ==
  ASSUME Inv, Packet
  PROVE  Flow'
<1>1. PICK worst \in Least(kept) : kept' = kept \ {worst} /\ out' = Append(out, worst)
  BY QueueRanks DEF Packet, Queue!HandOut
<1>2. worst \in kept /\ worst \in Result
  BY DEF Least, Inv, TypeOK
<1>3. Saved' = Saved
  <2>1. out \in Seq(Result) /\ out' \in Seq(Result)
    BY <1>1, <1>2 DEF Inv, TypeOK
  <2>2. DOMAIN out = 1 .. Len(out) /\ DOMAIN out' = 1 .. Len(out) + 1 /\ Len(out) \in Nat
    BY <1>1, <2>1
  <2>3. \A i \in 1 .. Len(out) + 1 : out'[i] = IF i <= Len(out) THEN out[i] ELSE worst
    BY <1>1, <1>2, <2>1
  <2>4. ASSUME NEW r PROVE (\E i \in DOMAIN out' : out'[i] = r) <=> (\E i \in DOMAIN out : out[i] = r) \/ r = worst
    <3>1. ASSUME NEW i \in DOMAIN out PROVE i \in DOMAIN out' /\ out'[i] = out[i]
      BY <2>2, <2>3
    <3>2. ASSUME NEW i \in DOMAIN out' PROVE out'[i] = worst \/ (i \in DOMAIN out /\ out'[i] = out[i])
      BY <2>2, <2>3
    <3>3. Len(out) + 1 \in DOMAIN out' /\ out'[Len(out) + 1] = worst
      BY <2>2, <2>3
    <3> QED BY <3>1, <3>2, <3>3
  <2>5. \A r : r \in Saved' <=> r \in kept' \/ \E i \in DOMAIN out' : out'[i] = r
    BY DEF Saved
  <2>6. \A r : r \in Saved <=> r \in kept \/ \E i \in DOMAIN out : out[i] = r
    BY DEF Saved
  <2>7. \A r : r \in Saved' <=> r \in Saved
    BY <1>1, <1>2, <2>4, <2>5, <2>6
  <2> QED BY <2>7
<1>4. /\ queueSet' = queueSet /\ offered' = offered /\ weight' = weight /\ good' = good
      /\ vecMatched' = vecMatched /\ pqRes' = pqRes /\ extra' = extra
  BY DEF Packet, env
<1>5. Ranked' /\ \A e : (Held(e)' <=> Held(e)) /\ (Beaten(e)' <=> Beaten(e))
  BY <1>3, <1>4, RankStays DEF Inv
<1>6. \A e : Coming(e)' <=> Coming(e)
  BY <1>4 DEF Coming, ToCome
<1>7. KeptOK'
  <2>1. IsFiniteSet(kept') /\ Cardinality(kept') = Cardinality(kept) - 1
    BY <1>1, <1>2, FS_RemoveElement DEF Inv, KeptOK
  <2> QED BY <2>1, FullIsLimit DEF Inv, KeptOK
<1>8. Kin' /\ Covered'
  BY <1>4, <1>5, <1>6 DEF Inv, Kin, Covered
<1> QED BY <1>5, <1>7, <1>8 DEF Flow

-----------------------------------------------------------------------------
\* The invariant holds before the first category.
LEMMA InvInit == Init => Inv
<1> SUFFICES ASSUME Init PROVE Inv
  OBVIOUS
<1>1. TypeOK
  <2>1. Category \in Seq([iAddWeight : Nat, mixed : BOOLEAN]) /\ MAX_MIX_SEARCH_TIME \in Nat
    BY SearchAssumption
  <2>2. Len(Category) \in Nat
    BY <2>1
  <2>3. DOMAIN offered = {}
    BY DEF Init
  <2> QED BY <2>1, <2>2, <2>3 DEF Init, TypeOK
<1>2. Saved = {} /\ DOMAIN offered = {}
  BY DEF Init, Saved
<1>3. KeptOK
  BY FS_EmptySet, SearchAssumption DEF Init, KeptOK
<1>4. \A e : ~Coming(e)
  BY NothingComing DEF Init
<1>5. Ranked /\ Kin /\ Covered
  BY <1>2, <1>4 DEF Init, Ranked, Known, Scored, Ours, Fresh, Visible, Settled, Kin, Covered
<1> QED BY <1>1, <1>3, <1>5 DEF Init, Inv, Staged

\* Every step preserves the invariant.
LEMMA InvStep == Inv /\ [Next]_vars => Inv'
<1> SUFFICES ASSUME Inv, [Next]_vars PROVE Inv'
  OBVIOUS
<1>0. TypeOK' /\ Staged'
  BY TypeStep, StagedStep DEF Inv
<1>a. Inherited(usWeight)'
  BY EnvStays DEF Inv, Inherited, OfSons, env
<1>b. TypeOK /\ Flow /\ Staged
  BY DEF Inv, Flow
<1>1. ASSUME NEW m \in Find, SearchCommon(m) \/ MixedFind(m) PROVE Flow'
  <2>1. vecMatched = {} /\ pqRes = {} /\ extra = {} /\ UNCHANGED <<env, top, pqRes, extra>>
    BY <1>b, <1>1 DEF SearchCommon, MixedFind, InCategory, Staged
  <2>2. CASE Collect(m)
    BY <1>b, <2>1, <2>2, CollectFlow
  <2>3. CASE UNCHANGED <<vecMatched, offered>>
    <3>1. \A e : Coming(e)' <=> Coming(e)
      BY <2>1, <2>3 DEF Coming, ToCome
    <3> QED BY <1>b, <2>1, <2>3, <3>1, FlowStays
  <2> QED BY <1>1, <2>2, <2>3 DEF SearchCommon, MixedFind
<1>2. ASSUME UNCHANGED <<env, vecMatched, pqRes, extra, top, offered>> PROVE Flow'
  <2>1. \A e : Coming(e)' <=> Coming(e)
    BY <1>2 DEF Coming, ToCome
  <2> QED BY <1>b, <1>2, <2>1, FlowStays
<1>3. ASSUME NEW found \in BOOLEAN, SearchMixed(found) PROVE Flow'
  BY <1>2, <1>3 DEF SearchMixed
<1>4. ASSUME MixedEnd \/ MatchedEnd \/ BestEnd \/ NoMoreCategory \/ PacketEnd \/ UNCHANGED vars
      PROVE  Flow'
  BY <1>2, <1>4 DEF MixedEnd, MatchedEnd, BestEnd, NoMoreCategory, PacketEnd, vars
<1>5. ASSUME NEW h \in vecMatched, Matched(h) PROVE Flow'
  <2>1. UNCHANGED <<env, top, offered>>
    BY <1>5 DEF Matched
  <2>2. \A e : Coming(e)' <=> Coming(e)
    BY <1>b, <1>5, MatchedComing
  <2> QED BY <1>b, <2>1, <2>2, FlowStays
<1>6. ASSUME NEW n \in pqRes, Best(n) PROVE Flow'
  BY <1>6, BestFlow
<1>7. ASSUME NEW e \in extra, CollectNode(e) PROVE Flow'
  BY <1>7, CollectNodeFlow
<1>8. ASSUME NextCategory PROVE Flow'
  BY <1>8, NextCategoryFlow
<1>9. ASSUME Packet PROVE Flow'
  BY <1>9, PacketFlow
<1>10. Flow'
  BY <1>1, <1>3, <1>4, <1>5, <1>6, <1>7, <1>8, <1>9 DEF Next
<1> QED BY <1>0, <1>a, <1>10 DEF Inv, Flow

(***************************************************************************)
(* The invariant holds throughout every search.                            *)
(***************************************************************************)
THEOREM SearchInvariant == Spec => []Inv
<1>1. Init => Inv
  BY InvInit
<1>2. Inv /\ [Next]_vars => Inv'
  BY InvStep
<1> QED BY <1>1, <1>2, PTL DEF Spec

(***************************************************************************)
(* The variables of a search stay in their types.                          *)
(***************************************************************************)
THEOREM SearchTypeOK == Spec => []TypeOK
<1>1. Inv => TypeOK
  BY DEF Inv
<1> QED BY <1>1, SearchInvariant, PTL

(***************************************************************************)
(* CollectResult leaves out no branch, and collect turns down no result,   *)
(* that is better than one of those saved: in every index whose nodes have *)
(* taken over the weights below them, for every plan of categories and     *)
(* whatever the finds match.                                               *)
(***************************************************************************)
THEOREM SearchLeavesOutNothingBetter == Spec => []NothingBetterLeftOut
<1>1. Inv => NothingBetterLeftOut
  BY DEF Inv, Covered, Held, Coming, Beaten, NothingBetterLeftOut
<1> QED BY <1>1, SearchInvariant, PTL

(***************************************************************************)
(* However many nodes, finds and categories bring an entry, it is saved    *)
(* once.                                                                   *)
(***************************************************************************)
THEOREM SearchSavesOnce == Spec => []SavedOnce
<1>1. ASSUME Inv, NEW a \in Saved, NEW b \in Saved, EntryOf(a) = EntryOf(b) PROVE a = b
  <2>1. a \in Result /\ b \in Result
    BY <1>1, SavedType DEF Inv
  <2>2. a.queryNum = b.queryNum
    BY <1>1 DEF Inv, Ranked, Scored
  <2> QED BY <1>1, <2>1, <2>2, SameResult
<1>2. Inv => SavedOnce
  BY <1>1 DEF SavedOnce
<1> QED BY <1>2, SearchInvariant, PTL
-----------------------------------------------------------------------------
(***************************************************************************)
(* The answer.  What was handed out is in it, once; what is still kept is  *)
(* no worse than what is in it, and both together are no more than asked   *)
(* for.                                                                    *)
(***************************************************************************)
Unpacked == pc \notin {"packet", "done"} => strResult = <<>>
Finished == pc = "done" => kept = {}
Moved    == Answer = {out[i] : i \in DOMAIN out} /\ Answer \cap kept = {}
Counted  == /\ IsFiniteSet(Answer) /\ Cardinality(Answer) = Len(strResult)
            /\ Len(strResult) + Cardinality(kept) <= iRetLimit
Rising   == \A j \in DOMAIN strResult : \A r \in kept : ~Less(r, strResult[j])
Packed   == Unpacked /\ Finished /\ Moved /\ Counted /\ Rising /\ BestComesFirst

\* The first of a longer sequence is the new element.
LEMMA InFrontFacts ==
  ASSUME NEW S, NEW s \in Seq(S), NEW r \in S
  PROVE  /\ <<r>> \o s \in Seq(S) /\ Len(<<r>> \o s) = Len(s) + 1
         /\ DOMAIN (<<r>> \o s) = 1 .. Len(s) + 1 /\ DOMAIN s = 1 .. Len(s) /\ Len(s) \in Nat
         /\ (<<r>> \o s)[1] = r
         /\ \A i \in 1 .. Len(s) : (<<r>> \o s)[i + 1] = s[i]
         /\ \A i \in 2 .. Len(s) + 1 : (<<r>> \o s)[i] = s[i - 1]
  OBVIOUS

\* The last of a longer sequence is the new element.
LEMMA AppendFacts ==
  ASSUME NEW S, NEW s \in Seq(S), NEW r \in S
  PROVE  /\ Append(s, r)[Len(Append(s, r))] = r
         /\ {Append(s, r)[i] : i \in DOMAIN Append(s, r)} = {s[i] : i \in DOMAIN s} \cup {r}
<1>1. /\ Append(s, r) \in Seq(S) /\ Len(s) \in Nat /\ Len(Append(s, r)) = Len(s) + 1
      /\ DOMAIN s = 1 .. Len(s) /\ DOMAIN Append(s, r) = 1 .. Len(s) + 1
      /\ Append(s, r)[Len(s) + 1] = r
      /\ \A i \in 1 .. Len(s) : Append(s, r)[i] = s[i]
  OBVIOUS
<1> DEFINE t == Append(s, r)
<1> HIDE DEF t
<1>2. ASSUME NEW i \in DOMAIN t PROVE t[i] \in {s[k] : k \in DOMAIN s} \cup {r}
  <2>1. i \in 1 .. Len(s) \/ i = Len(s) + 1
    BY <1>1, <1>2 DEF t
  <2> QED BY <2>1, <1>1 DEF t
<1>3. ASSUME NEW k \in DOMAIN s PROVE s[k] \in {t[i] : i \in DOMAIN t}
  <2>1. k \in DOMAIN t /\ t[k] = s[k]
    BY <1>1, <1>3 DEF t
  <2> QED BY <2>1
<1>4. r \in {t[i] : i \in DOMAIN t}
  <2>1. Len(s) + 1 \in DOMAIN t /\ t[Len(s) + 1] = r
    BY <1>1 DEF t
  <2> QED BY <2>1
<1>5. {t[i] : i \in DOMAIN t} = {s[i] : i \in DOMAIN s} \cup {r}
  BY <1>2, <1>3, <1>4
<1> QED BY <1>1, <1>5 DEF t

\* Before anything is packed.
LEMMA PackedEmpty ==
  ASSUME strResult = <<>>, out = <<>>, KeptOK, pc # "done"
  PROVE  Packed
<1>1. DOMAIN strResult = {} /\ DOMAIN out = {} /\ Len(strResult) = 0
  OBVIOUS
<1>2. Answer = {} /\ {out[i] : i \in DOMAIN out} = {}
  BY <1>1 DEF Answer
<1>3. Counted
  BY <1>1, <1>2, FS_EmptySet, FullIsLimit DEF Counted, KeptOK
<1> QED BY <1>1, <1>2, <1>3 DEF Packed, Unpacked, Finished, Moved, Rising, BestComesFirst

\* Packet puts the worst of what is kept in front of an answer that is no worse.
LEMMA PacketPacks ==
  ASSUME TypeOK, KeptOK, Packed, Packet
  PROVE  Packed'
<1>1. PICK worst \in Least(kept) : kept' = kept \ {worst} /\ out' = Append(out, worst)
  BY QueueRanks DEF Packet, Queue!HandOut
<1>2. /\ worst \in kept /\ worst \in Result /\ kept \subseteq Result
      /\ \A x \in kept : ~Less(x, worst)
      /\ out \in Seq(Result) /\ strResult \in Seq(Result)
  BY DEF Least, TypeOK
<1>3. out'[Len(out')] = worst /\ {out'[i] : i \in DOMAIN out'} = {out[i] : i \in DOMAIN out} \cup {worst}
  BY <1>1, <1>2, AppendFacts
<1>4. strResult' = <<worst>> \o strResult
  BY <1>3 DEF Packet, InFront
<1>5. /\ Len(strResult') = Len(strResult) + 1 /\ Len(strResult) \in Nat
      /\ DOMAIN strResult' = 1 .. Len(strResult) + 1 /\ DOMAIN strResult = 1 .. Len(strResult)
      /\ strResult'[1] = worst
      /\ \A i \in 2 .. Len(strResult) + 1 : strResult'[i] = strResult[i - 1]
  BY <1>2, <1>4, InFrontFacts
<1>6. Answer' = Answer \cup {worst}
  <2>1. ASSUME NEW i \in DOMAIN strResult', i # 1
        PROVE  i - 1 \in DOMAIN strResult /\ strResult'[i] = strResult[i - 1]
    BY <1>5, <2>1
  <2>2. ASSUME NEW k \in DOMAIN strResult
        PROVE  k + 1 \in DOMAIN strResult' /\ strResult'[k + 1] = strResult[k]
    BY <1>5, <2>2
  <2>3. 1 \in DOMAIN strResult'
    BY <1>5
  <2>4. ASSUME NEW x \in Answer' PROVE x \in Answer \/ x = worst
    BY <1>5, <2>1, <2>4 DEF Answer
  <2>5. ASSUME NEW x \in Answer PROVE x \in Answer'
    BY <2>2, <2>5 DEF Answer
  <2>6. worst \in Answer'
    BY <1>5, <2>3 DEF Answer
  <2> QED BY <2>4, <2>5, <2>6
<1>7. worst \notin Answer
  BY <1>2 DEF Packed, Moved
<1>8. Moved'
  BY <1>1, <1>3, <1>6 DEF Packed, Moved
<1>9. Counted'
  <2>1. IsFiniteSet(Answer') /\ Cardinality(Answer') = Cardinality(Answer) + 1
    BY <1>6, <1>7, FS_AddElement DEF Packed, Counted
  <2>2. Cardinality(kept') = Cardinality(kept) - 1 /\ Cardinality(kept) \in Nat /\ iRetLimit \in Nat
    BY <1>1, <1>2, FS_RemoveElement, FullIsLimit DEF KeptOK
  <2> QED BY <1>5, <2>1, <2>2 DEF Packed, Counted
<1>10. Rising'
  <2>1. ASSUME NEW j \in DOMAIN strResult', NEW r \in kept' PROVE ~Less(r, strResult'[j])
    <3>1. r \in kept
      BY <1>1
    <3>2. CASE j = 1
      BY <3>1, <3>2, <1>2, <1>5
    <3>3. CASE j # 1
      <4>1. j \in 2 .. Len(strResult) + 1 /\ j - 1 \in DOMAIN strResult
        BY <3>3, <1>5
      <4> QED BY <4>1, <3>1, <1>5 DEF Packed, Rising
    <3> QED BY <3>2, <3>3
  <2> QED BY <2>1 DEF Rising
<1>11. BestComesFirst'
  <2>1. ASSUME NEW i \in DOMAIN strResult', NEW j \in DOMAIN strResult', i < j
        PROVE  ~Less(strResult'[i], strResult'[j])
    <3>1. j \in 2 .. Len(strResult) + 1 /\ j - 1 \in DOMAIN strResult /\ strResult'[j] = strResult[j - 1]
      BY <2>1, <1>5
    <3>2. CASE i = 1
      BY <3>1, <3>2, <1>2, <1>5 DEF Packed, Rising
    <3>3. CASE i # 1
      <4>1. /\ i \in 2 .. Len(strResult) + 1 /\ i - 1 \in DOMAIN strResult /\ i - 1 < j - 1
            /\ strResult'[i] = strResult[i - 1]
        BY <3>3, <2>1, <1>5
      <4> QED BY <4>1, <3>1 DEF Packed, BestComesFirst
    <3> QED BY <3>2, <3>3
  <2> QED BY <2>1 DEF BestComesFirst
<1> QED BY <1>8, <1>9, <1>10, <1>11 DEF Packed, Packet, Unpacked, Finished

\* Every step preserves what holds of the answer.
LEMMA PackedStep == Inv /\ Packed /\ [Next]_vars => Packed'
<1> SUFFICES ASSUME Inv, Packed, [Next]_vars PROVE Packed'
  OBVIOUS
<1>1. Inv'
  BY InvStep
<1>2. CASE Packet
  BY <1>2, PacketPacks DEF Inv
<1>3. ASSUME UNCHANGED <<strResult, kept, out>>, pc' = "done" => kept = {}, pc' \in {"packet", "done"} PROVE Packed'
  BY <1>3 DEF Packed, Unpacked, Finished, Moved, Counted, Rising, BestComesFirst, Answer
<1>4. ASSUME strResult' = strResult, pc \notin {"packet", "done"}, pc' \notin {"packet", "done"} PROVE Packed'
  <2>1. strResult' = <<>> /\ out' = <<>> /\ KeptOK'
    BY <1>1, <1>4 DEF Inv, Staged, Packed, Unpacked
  <2>2. (strResult = <<>> /\ out = <<>> /\ KeptOK /\ pc # "done" => Packed)'
    BY PackedEmpty, PTL
  <2> QED BY <1>4, <2>1, <2>2
<1>5. ASSUME NEW m \in Find, SearchCommon(m) \/ MixedFind(m) PROVE Packed'
  BY <1>4, <1>5 DEF SearchCommon, MixedFind, Collect, InCategory
<1>6. ASSUME NEW found \in BOOLEAN, SearchMixed(found) PROVE Packed'
  BY <1>4, <1>6 DEF SearchMixed, InCategory
<1>7. ASSUME MixedEnd \/ MatchedEnd \/ BestEnd PROVE Packed'
  BY <1>4, <1>7 DEF MixedEnd, MatchedEnd, BestEnd
<1>8. ASSUME NEW h \in vecMatched, Matched(h) PROVE Packed'
  BY <1>4, <1>8 DEF Matched
<1>9. ASSUME NEW n \in pqRes, Best(n) PROVE Packed'
  BY <1>4, <1>9 DEF Best
<1>10. ASSUME NEW e \in extra, CollectNode(e) PROVE Packed'
  BY <1>4, <1>10 DEF CollectNode, Inv, Staged
<1>11. ASSUME NextCategory PROVE Packed'
  <2>1. CASE Enough
    BY <1>3, <1>11, <2>1 DEF NextCategory
  <2>2. CASE ~Enough
    BY <1>4, <1>11, <2>2 DEF NextCategory
  <2> QED BY <2>1, <2>2
<1>12. ASSUME NoMoreCategory \/ PacketEnd PROVE Packed'
  BY <1>3, <1>12 DEF NoMoreCategory, PacketEnd, top
<1>13. ASSUME UNCHANGED vars PROVE Packed'
  BY <1>13 DEF vars, top, Packed, Unpacked, Finished, Moved, Counted, Rising, BestComesFirst, Answer
<1> QED BY <1>2, <1>5, <1>6, <1>7, <1>8, <1>9, <1>10, <1>11, <1>12, <1>13 DEF Next
(***************************************************************************)
(* When the answer is packed it holds everything that was saved; a matched *)
(* entry it does not hold has lost against all of it.                      *)
(***************************************************************************)
LEMMA AnswerIsBest == Inv /\ Packed => BestAnswered
<1> SUFFICES ASSUME Inv, Packed, pc = "done" PROVE BestAnswered
  BY DEF BestAnswered
<1>1. kept = {} /\ Answer = Saved
  BY DEF Packed, Finished, Moved, Saved
<1>2. \A e \in DOMAIN offered : Held(e) \/ Beaten(e)
  <2>1. vecMatched = {} /\ pqRes = {} /\ extra = {}
    BY DEF Inv, Staged
  <2> QED BY <2>1, NothingComing DEF Inv, Covered
<1>3. \A r \in Answer : EntryOf(r) \in DOMAIN offered /\ r.queryNum = offered[EntryOf(r)].score
  BY <1>1 DEF Inv, Ranked, Scored
<1>4. \A e \in DOMAIN offered : \A r \in Answer :
        (\A a \in Answer : EntryOf(a) # e) => offered[e].score <= r.queryNum
  BY <1>1, <1>2 DEF Held, Beaten
<1>5. IsFiniteSet(Answer) /\ Cardinality(Answer) = Len(strResult) /\ Len(strResult) <= iRetLimit
  <2>1. Cardinality(kept) = 0 /\ Len(strResult) \in Nat /\ iRetLimit \in Nat
    BY <1>1, FS_EmptySet, SearchAssumption DEF Inv, TypeOK
  <2> QED BY <2>1 DEF Packed, Counted
<1>6. IsFiniteSet(DOMAIN offered) /\ Cardinality(DOMAIN offered) \in Nat
  <2>1. IsFiniteSet(Entry) /\ DOMAIN offered \in SUBSET Entry
    BY SearchAssumption DEF Inv, TypeOK
  <2>2. IsFiniteSet(DOMAIN offered)
    BY <2>1, FS_Subset
  <2> QED BY <2>2, FS_CardinalityType
<1> DEFINE f == [r \in Answer |-> EntryOf(r)]
<1>7. f \in Injection(Answer, DOMAIN offered)
  <2>1. f \in [Answer -> DOMAIN offered]
    BY <1>3
  <2>2. ASSUME NEW a \in Answer, NEW b \in Answer, f[a] = f[b] PROVE a = b
    <3>1. a \in Result /\ b \in Result /\ EntryOf(a) = EntryOf(b)
      BY <1>1, <2>2, SavedType DEF Inv
    <3>2. a.queryNum = b.queryNum
      BY <1>3, <3>1
    <3> QED BY <3>1, <3>2, SameResult
  <2> QED BY <2>1, <2>2 DEF Injection, IsInjective
<1>8. Cardinality(Answer) <= Cardinality(DOMAIN offered)
  <2> HIDE DEF f
  <2> QED BY <1>6, <1>7, FS_Injection
<1>9. CASE \A e \in DOMAIN offered : Held(e)
  <2>1. f \in Surjection(Answer, DOMAIN offered)
    <3>1. \A e \in DOMAIN offered : \E r \in Answer : f[r] = e
      BY <1>1, <1>9 DEF Held
    <3>2. f \in [Answer -> DOMAIN offered]
      BY <1>3
    <3> HIDE DEF f
    <3> QED BY <3>1, <3>2 DEF Surjection
  <2>2. Cardinality(DOMAIN offered) <= Cardinality(Answer)
    <3> HIDE DEF f
    <3> QED BY <2>1, <1>5, FS_Surjection
  <2>3. Len(strResult) = Cardinality(DOMAIN offered) /\ Cardinality(DOMAIN offered) <= iRetLimit
    <3>1. Cardinality(Answer) \in Nat
      BY <1>5, FS_CardinalityType
    <3> QED BY <3>1, <2>2, <1>5, <1>6, <1>8
  <2>4. iRetLimit \in Nat
    BY SearchAssumption
  <2> HIDE DEF f
  <2>5. Len(strResult) = IF Cardinality(DOMAIN offered) < iRetLimit THEN Cardinality(DOMAIN offered) ELSE iRetLimit
    BY <2>3, <2>4, <1>6
  <2> QED BY <1>3, <1>4, <2>5 DEF BestAnswered
<1>10. CASE \E e \in DOMAIN offered : ~Held(e)
  <2>1. Cardinality(Answer) = iRetLimit
    BY <1>1, <1>2, <1>10 DEF Beaten
  <2>2. iRetLimit \in Nat
    BY SearchAssumption
  <2> HIDE DEF f
  <2>3. Len(strResult) = IF Cardinality(DOMAIN offered) < iRetLimit THEN Cardinality(DOMAIN offered) ELSE iRetLimit
    BY <2>1, <2>2, <1>5, <1>6, <1>8
  <2> QED BY <1>3, <1>4, <2>3 DEF BestAnswered
<1> QED BY <1>9, <1>10

\* What holds of the answer holds throughout every search.
LEMMA AnswerInvariant == Spec => [](Inv /\ Packed)
<1>1. Init => Inv /\ Packed
  BY InvInit, PackedEmpty DEF Init, Inv
<1>2. Inv /\ Packed /\ [Next]_vars => Inv' /\ Packed'
  BY InvStep, PackedStep
<1> QED BY <1>1, <1>2, PTL DEF Spec

(***************************************************************************)
(* The answer of a search is the best one: as many of the matched entries  *)
(* as were asked for, with the scores they earned, and none that was left  *)
(* out has a higher one.                                                   *)
(***************************************************************************)
THEOREM SearchAnswersBest == Spec => []BestAnswered
  BY AnswerInvariant, AnswerIsBest, PTL

(***************************************************************************)
(* And it goes from the best to the worst.                                 *)
(***************************************************************************)
THEOREM SearchAnswersInOrder == Spec => []BestComesFirst
<1>1. Inv /\ Packed => BestComesFirst
  BY DEF Packed
<1> QED BY <1>1, AnswerInvariant, PTL
=============================================================================
