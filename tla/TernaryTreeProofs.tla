-------------------------- MODULE TernaryTreeProofs ---------------------------
(***************************************************************************)
(* What holds of the ternary tree whatever is inserted and removed, on the *)
(* lemmas of TernaryTreeNodes: a new level, the pool, insert as a whole,   *)
(* the invariant, and the theorems.  A search finds the keys that are      *)
(* held, the levels are red-black trees, the pool accounts for its nodes.  *)
(***************************************************************************)
EXTENDS TernaryTreeNodes

(***************************************************************************)
(* A node a is put between p and what hung under it.                       *)
(***************************************************************************)
Lifted(g, h, p, a, i, c) ==
  /\ IsHeap(g) /\ DOMAIN g = DOMAIN h
  /\ g[a].index = i /\ g[a].cbyte = c /\ g[a].item = h[p].item /\ g[a].color = BLACK /\ g[a].parent = 0
  /\ g[a]["left"] = 0 /\ g[a].mid = h[p].mid /\ g[a]["right"] = 0
  /\ \A y \in DOMAIN h \ {a} :
       /\ g[y].cbyte = h[y].cbyte /\ g[y].index = h[y].index /\ g[y].item = (IF y = p THEN NoKey ELSE h[y].item)
       /\ g[y].color = h[y].color /\ g[y].parent = h[y].parent
       /\ \A s \in Sides : g[y][s] = IF y = p /\ s = "mid" THEN a ELSE h[y][s]
Lifting(g, h, U, T, S, p, a, i, c) ==
  /\ Shape(h, U, T, S, NoNode) /\ p \in U /\ a \in DOMAIN h /\ a \notin U /\ a # 0
  /\ Lifted(g, h, p, a, i, c)
\* What is under the nodes then, and in their levels.
LiftT(T, h, p, a) == [x \in DOMAIN T |-> IF x = a THEN {a} \cup T[h[p].mid] ELSE IF p \in T[x] THEN T[x] \cup {a} ELSE T[x]]
LiftS(S, a) == [x \in DOMAIN S |-> IF x = a THEN {a} ELSE S[x]]
LiftTSet(R, T, h, p, a) ==
  /\ R \in [DOMAIN h -> SUBSET DOMAIN h] /\ R[a] = {a} \cup T[h[p].mid]
  /\ \A x \in DOMAIN h : x # a => R[x] = IF p \in T[x] THEN T[x] \cup {a} ELSE T[x]
LEMMA LiftTIs ==
  ASSUME NEW h, NEW T, T \in [DOMAIN h -> SUBSET DOMAIN h], NEW p, NEW a, a \in DOMAIN h, h[p].mid \in DOMAIN h, NEW R, R = LiftT(T, h, p, a)
  PROVE  LiftTSet(R, T, h, p, a)
  BY DEF LiftT, LiftTSet
LEMMA LiftSIs ==
  ASSUME NEW D, NEW S \in [D -> SUBSET D], NEW a \in D, NEW Q, Q = LiftS(S, a)
  PROVE  Q \in [D -> SUBSET D] /\ Q[a] = {a} /\ \A x \in D : x # a => Q[x] = S[x]
  BY DEF LiftS

LiftFacts(g, h, U, T, S, p, a, R, Q) ==
  /\ Shape(h, U, T, S, NoNode) /\ Loose(h, U, T, S, NoNode) /\ Wired(h, U, NoNode) /\ LooseFacts(h, U, T, S)
  /\ p \in U /\ p # 0 /\ a \in DOMAIN h /\ a \notin U /\ a # 0 /\ a # p /\ a # NoNode
  /\ IsHeap(g) /\ DOMAIN g = DOMAIN h /\ 0 \in DOMAIN h /\ U \subseteq DOMAIN h \ {0}
  /\ g[a]["left"] = 0 /\ g[a].mid = h[p].mid /\ g[a]["right"] = 0 /\ h[p].mid \in U \cup {0} /\ p \notin T[h[p].mid] /\ g[p].mid = a
  /\ \A x \in U \cup {0} : x \in DOMAIN h /\ x # a /\ (x # p => g[x].mid = h[x].mid) /\ h[x].mid \in U \cup {0}
  /\ \A x \in U : \A s \in Around : g[x][s] = h[x][s] /\ h[x][s] \in U \cup {0}
  /\ R \in [DOMAIN h -> SUBSET DOMAIN h] /\ Q \in [DOMAIN h -> SUBSET DOMAIN h]
  /\ R[a] = {a} \cup T[h[p].mid] /\ Q[a] = {a} /\ R[0] = {} /\ Q[0] = {} /\ T[0] = {} /\ S[0] = {}
  /\ \A x \in U \cup {0} : /\ R[x] = IF p \in T[x] THEN T[x] \cup {a} ELSE T[x]
                           /\ Q[x] = S[x] /\ T[x] \subseteq U /\ S[x] \subseteq U
LEMMA LiftFactsAre ==
  ASSUME NEW g, NEW h, NEW U, NEW T, NEW S, NEW p, NEW a, NEW i, NEW c, Lifting(g, h, U, T, S, p, a, i, c),
         NEW R, NEW Q, R = LiftT(T, h, p, a), Q = LiftS(S, a)
  PROVE  LiftFacts(g, h, U, T, S, p, a, R, Q)
  <1>1. /\ Shape(h, U, T, S, NoNode) /\ Loose(h, U, T, S, NoNode) /\ Wired(h, U, NoNode) /\ Bounded(h, U, T, NoNode) /\ Levels(h, U, S)
        /\ p \in U /\ a \in DOMAIN h /\ a \notin U /\ a # 0 /\ Lifted(g, h, p, a, i, c)
    BY DEF Lifting, Shape, Loose
  <1>2. LooseFacts(h, U, T, S)
    BY <1>1, LooseFactsAre
  <1>3. /\ 0 \in DOMAIN h /\ NoNode \notin U \cup {0} /\ 0 \notin U /\ T[0] = {} /\ S[0] = {}
        /\ \A x \in U \cup {0} : x \in DOMAIN h /\ h[x].mid \in U \cup {0}
    BY <1>2 DEF LooseFacts
  <1>4. \A x \in U : (\A s \in Sides : h[x][s] \in U \cup {0} /\ Son(h, NoNode, x, s) = h[x][s]) /\ S[x] \subseteq U
    BY <1>2 DEF LooseFacts
  <1>5. p # 0 /\ a # p /\ NoNode \notin DOMAIN h /\ a # NoNode
    BY <1>1, <1>3 DEF Wired
  <1>6. IsHeap(g) /\ DOMAIN g = DOMAIN h /\ g[a]["left"] = 0 /\ g[a].mid = h[p].mid /\ g[a]["right"] = 0
    BY <1>1 DEF Lifted
  <1>7. \A x \in U \cup {0} : x \in DOMAIN h \ {a}
    BY <1>1, <1>3
  <1>8. \A x \in U \cup {0} : \A s \in Sides : g[x][s] = IF x = p /\ s = "mid" THEN a ELSE h[x][s]
    BY <1>1, <1>7 DEF Lifted
  <1>9. "mid" \in Sides /\ "mid" \notin Around /\ Around \subseteq Sides
    BY DEF Sides, Around
  <1>10. g[p].mid = a /\ \A x \in U \cup {0} : x # p => g[x].mid = h[x].mid
    <2>1. \A x \in U \cup {0} : g[x]["mid"] = IF x = p THEN a ELSE h[x]["mid"]
      BY <1>8, <1>9
    <2> QED BY <1>1, <2>1
  <1>11. \A x \in U : \A s \in Around : g[x][s] = h[x][s] /\ h[x][s] \in U \cup {0}
    BY <1>4, <1>8, <1>9
  <1>12. \A x \in U : T[x] \subseteq U
    BY <1>1, UnderIs
  <1>13. p \notin T[h[p].mid]
    <2>1. p \notin T[Son(h, NoNode, p, "mid")]
      BY <1>1, <1>9 DEF Bounded
    <2>2. Son(h, NoNode, p, "mid") = h[p]["mid"]
      BY <1>1, <1>4, <1>9
    <2> QED BY <2>1, <2>2
  <1>14. /\ R \in [DOMAIN h -> SUBSET DOMAIN h] /\ R[a] = {a} \cup T[h[p].mid]
         /\ \A x \in DOMAIN h : x # a => R[x] = IF p \in T[x] THEN T[x] \cup {a} ELSE T[x]
         /\ Q \in [DOMAIN h -> SUBSET DOMAIN h] /\ Q[a] = {a} /\ \A x \in DOMAIN h : x # a => Q[x] = S[x]
    <2>1. T \in [DOMAIN h -> SUBSET DOMAIN h] /\ S \in [DOMAIN h -> SUBSET DOMAIN h] /\ a \in DOMAIN h /\ h[p].mid \in DOMAIN h
      BY <1>1, <1>3 DEF Bounded, Levels
    <2>2. R = LiftT(T, h, p, a) /\ Q = LiftS(S, a)
      OBVIOUS
    <2>3. R \in [DOMAIN h -> SUBSET DOMAIN h] /\ R[a] = {a} \cup T[h[p].mid] /\ \A x \in DOMAIN h : x # a => R[x] = IF p \in T[x] THEN T[x] \cup {a} ELSE T[x]
      <3>1. T \in [DOMAIN h -> SUBSET DOMAIN h]
        BY <2>1
      <3>2. a \in DOMAIN h
        BY <2>1
      <3>3. h[p].mid \in DOMAIN h
        BY <2>1
      <3>4. R = LiftT(T, h, p, a)
        BY <2>2
      <3>5. LiftTSet(R, T, h, p, a)
        BY ONLY <3>1, <3>2, <3>3, <3>4, LiftTIs
      <3> QED BY <3>5 DEF LiftTSet
    <2>4. Q \in [DOMAIN h -> SUBSET DOMAIN h] /\ Q[a] = {a} /\ \A x \in DOMAIN h : x # a => Q[x] = S[x]
      BY ONLY <2>1, <2>2, LiftSIs
    <2> QED BY <2>3, <2>4
  <1>15. R[0] = {} /\ Q[0] = {}
    BY <1>1, <1>3, <1>14
  <1>16. \A x \in U \cup {0} : /\ R[x] = IF p \in T[x] THEN T[x] \cup {a} ELSE T[x]
                               /\ Q[x] = S[x] /\ T[x] \subseteq U /\ S[x] \subseteq U
    BY <1>3, <1>4, <1>7, <1>12, <1>14
  <1>17. U \subseteq DOMAIN h \ {0}
    BY <1>1 DEF Wired
  <1>18. \A x \in U \cup {0} : x \in DOMAIN h /\ x # a /\ (x # p => g[x].mid = h[x].mid) /\ h[x].mid \in U \cup {0}
    BY <1>3, <1>7, <1>10
  <1>19. h[p].mid \in U \cup {0}
    BY <1>1, <1>3
  <1> QED BY <1>1, <1>2, <1>3, <1>5, <1>6, <1>10, <1>11, <1>13, <1>14, <1>15, <1>16, <1>17, <1>18, <1>19 DEF LiftFacts

\* The sons of the nodes after that.
LiftSons(g, h, U, p, a) ==
  /\ NoNode \notin (U \cup {a}) \cup {0}
  /\ \A s \in Around : Son(g, NoNode, a, s) = 0 /\ g[a][s] = 0
  /\ Son(g, NoNode, a, "mid") = h[p].mid /\ Son(g, NoNode, p, "mid") = a /\ Mid(g, NoNode, a) = h[p].mid /\ Mid(g, NoNode, p) = a
  /\ \A x \in U \cup {0} : Mid(h, NoNode, x) = h[x].mid /\ (x # p => Mid(g, NoNode, x) = h[x].mid /\ Son(g, NoNode, x, "mid") = h[x].mid)
  /\ \A x \in U : \A s \in Around : Son(g, NoNode, x, s) = h[x][s]
LEMMA LiftSonsAre ==
  ASSUME NEW g, NEW h, NEW U, NEW T, NEW S, NEW p, NEW a, NEW R, NEW Q, LiftFacts(g, h, U, T, S, p, a, R, Q)
  PROVE  LiftSons(g, h, U, p, a)
  <1>1. /\ LooseFacts(h, U, T, S) /\ p \in U /\ a # NoNode /\ g[a]["left"] = 0 /\ g[a].mid = h[p].mid /\ g[a]["right"] = 0 /\ g[p].mid = a
        /\ \A x \in U \cup {0} : x # p => g[x].mid = h[x].mid
        /\ \A x \in U : \A s \in Around : g[x][s] = h[x][s]
    BY DEF LiftFacts
  <1>2. NoNode \notin (U \cup {a}) \cup {0}
    BY <1>1 DEF LooseFacts
  <1>3. \A x \in (U \cup {a}) \cup {0} : Mid(g, NoNode, x) = g[x].mid /\ Mid(h, NoNode, x) = h[x].mid
    BY <1>2 DEF Mid
  <1>4. \A x \in (U \cup {a}) \cup {0} : Son(g, NoNode, x, "mid") = Mid(g, NoNode, x)
    BY DEF Son
  <1>5. \A s \in Around : s # "mid" /\ (s = "left" \/ s = "right")
    BY DEF Around
  <1>6. \A x : \A s \in Around : Son(g, NoNode, x, s) = g[x][s]
    BY <1>5 DEF Son
  <1> QED BY <1>1, <1>2, <1>3, <1>4, <1>5, <1>6 DEF LiftSons

LEMMA LiftWired ==
  ASSUME NEW g, NEW h, NEW U, NEW T, NEW S, NEW p, NEW a, NEW i, NEW c, Lifting(g, h, U, T, S, p, a, i, c)
  PROVE  Wired(g, U \cup {a}, NoNode)
  <1>1. PICK R, Q : R = LiftT(T, h, p, a) /\ Q = LiftS(S, a)
    OBVIOUS
  <1>2. LiftFacts(g, h, U, T, S, p, a, R, Q)
    BY <1>1, LiftFactsAre
  <1>3. LiftSons(g, h, U, p, a)
    BY <1>2, LiftSonsAre
  <1>4. /\ Wired(h, U, NoNode) /\ p \in U /\ p # 0 /\ a \in DOMAIN h /\ a \notin U /\ a # 0 /\ a # p /\ a # NoNode
        /\ IsHeap(g) /\ DOMAIN g = DOMAIN h /\ 0 \in DOMAIN h /\ U \subseteq DOMAIN h \ {0} /\ h[p].mid \in U \cup {0}
        /\ g[a]["left"] = 0 /\ g[a]["right"] = 0
        /\ \A x \in U \cup {0} : x \in DOMAIN h /\ x # a /\ h[x].mid \in U \cup {0}
        /\ \A x \in U : \A s \in Around : g[x][s] = h[x][s] /\ h[x][s] \in U \cup {0}
    BY <1>2 DEF LiftFacts
  <1>5. /\ NoNode \notin (U \cup {a}) \cup {0} /\ \A s \in Around : Son(g, NoNode, a, s) = 0 /\ g[a][s] = 0
        /\ Son(g, NoNode, a, "mid") = h[p].mid /\ Son(g, NoNode, p, "mid") = a /\ Mid(g, NoNode, a) = h[p].mid /\ Mid(g, NoNode, p) = a
        /\ \A x \in U \cup {0} : Mid(h, NoNode, x) = h[x].mid /\ (x # p => Mid(g, NoNode, x) = h[x].mid /\ Son(g, NoNode, x, "mid") = h[x].mid)
        /\ \A x \in U : \A s \in Around : Son(g, NoNode, x, s) = h[x][s]
    BY <1>3 DEF LiftSons
  <1>6. /\ g[a].parent = 0
        /\ \A y \in DOMAIN h \ {a} : g[y].color = h[y].color /\ g[y].parent = h[y].parent
        /\ \A y \in DOMAIN h \ {a} : \A s \in Sides : g[y][s] = IF y = p /\ s = "mid" THEN a ELSE h[y][s]
    BY DEF Lifting, Lifted
  <1>7. g[0]["left"] = 0 /\ g[0]["right"] = 0 /\ g[0].color = BLACK
    <2>1. 0 \in DOMAIN h \ {a} /\ "left" \in Sides /\ "right" \in Sides
      BY <1>4 DEF Sides
    <2>2. h[0]["left"] = 0 /\ h[0]["right"] = 0 /\ h[0].color = BLACK
      BY <1>4 DEF Wired
    <2> QED BY <1>4, <1>6, <2>1, <2>2
  <1>8. Sides = Around \cup {"mid"}
    BY DEF Sides, Around
  <1>9. ASSUME NEW x \in (U \cup {a}) \cup {0}, NEW s \in Sides PROVE Son(g, NoNode, x, s) \in (U \cup {a}) \cup {0}
    <2>1. CASE x = a
      BY <1>4, <1>5, <1>8, <2>1
    <2>2. CASE x \in U
      BY <1>4, <1>5, <1>8, <2>2
    <2>3. CASE x = 0
      <3>1. Son(g, NoNode, x, "mid") \in U \cup {0}
        BY <1>4, <1>5, <2>3
      <3>2. Son(g, NoNode, x, "left") = 0 /\ Son(g, NoNode, x, "right") = 0
        BY <1>7, <2>3 DEF Son
      <3> QED BY <3>1, <3>2 DEF Sides
    <2> QED BY <2>1, <2>2, <2>3
  <1>10. ASSUME NEW x \in U \cup {a}, NEW s \in Around, g[x][s] # 0 PROVE g[g[x][s]].parent = x
    <2>1. x \in U /\ g[x][s] = h[x][s] /\ h[x][s] \in U
      BY <1>4, <1>5, <1>10
    <2>2. h[h[x][s]].parent = x
      BY <1>4, <1>10, <2>1 DEF Wired
    <2> QED BY <1>4, <1>6, <2>1, <2>2
  <1>11. ASSUME NEW x \in U \cup {a}, g[x]["left"] = g[x]["right"] PROVE g[x]["left"] = 0
    <2>1. CASE x = a
      BY <1>4, <2>1
    <2>2. CASE x # a
      <3>1. x \in U /\ g[x]["left"] = h[x]["left"] /\ g[x]["right"] = h[x]["right"]
        <4>1. x \in U
          BY <2>2
        <4>2. "left" \in Around /\ "right" \in Around
          BY DEF Around
        <4> QED BY <1>4, <4>1, <4>2
      <3> QED BY <1>4, <1>11, <3>1 DEF Wired
    <2> QED BY <2>1, <2>2
  <1>12. ASSUME NEW x \in (U \cup {a}) \cup {0}, Mid(g, NoNode, x) # 0 PROVE g[Mid(g, NoNode, x)].parent = 0
    <2>1. ASSUME NEW y \in U \cup {0}, h[y].mid # 0 PROVE g[h[y].mid].parent = 0
      <3>1. h[h[y].mid].parent = 0
        BY <1>4, <1>5, <2>1 DEF Wired
      <3> QED BY <1>4, <1>6, <3>1
    <2>2. CASE x = a
      BY <1>4, <1>5, <1>12, <2>1, <2>2
    <2>3. CASE x = p
      BY <1>5, <1>6, <2>3
    <2>4. CASE x \notin {a, p}
      BY <1>5, <1>12, <2>1, <2>4
    <2> QED BY <2>2, <2>3, <2>4
  <1>13. ASSUME NEW x \in (U \cup {a}) \cup {0}, NEW y \in (U \cup {a}) \cup {0}, Mid(g, NoNode, x) = Mid(g, NoNode, y), Mid(g, NoNode, x) # 0
         PROVE  x = y
    <2>1. \A v, w \in U \cup {0} : h[v].mid = h[w].mid /\ h[v].mid # 0 => v = w
      BY <1>4, <1>5 DEF Wired
    <2>2. ASSUME NEW z \in (U \cup {a}) \cup {0}
          PROVE  \/ z = p /\ Mid(g, NoNode, z) = a
                 \/ z # p /\ Mid(g, NoNode, z) # a /\ \E v \in U \cup {0} : v = (IF z = a THEN p ELSE z) /\ Mid(g, NoNode, z) = h[v].mid
      <3>1. CASE z = a
        BY <1>4, <1>5, <3>1
      <3>2. CASE z = p
        BY <1>5, <3>2
      <3>3. CASE z \notin {a, p}
        BY <1>4, <1>5, <3>3
      <3> QED BY <3>1, <3>2, <3>3
    <2>3. CASE x = p \/ y = p
      BY <1>13, <2>2, <2>3
    <2>4. CASE x # p /\ y # p
      <3>1. PICK v \in U \cup {0} : v = (IF x = a THEN p ELSE x) /\ Mid(g, NoNode, x) = h[v].mid
        BY <2>2, <2>4
      <3>2. PICK w \in U \cup {0} : w = (IF y = a THEN p ELSE y) /\ Mid(g, NoNode, y) = h[w].mid
        BY <2>2, <2>4
      <3>3. v = w
        BY <1>13, <2>1, <3>1, <3>2
      <3> QED BY <2>4, <3>1, <3>2, <3>3
    <2> QED BY <2>3, <2>4
  <1>14. U \cup {a} \subseteq DOMAIN g \ {0} /\ IsFiniteSet(DOMAIN g) /\ NoNode \notin DOMAIN g
    BY <1>4 DEF Wired
  <1> QED BY <1>4, <1>7, <1>9, <1>10, <1>11, <1>12, <1>13, <1>14 DEF Wired

LEMMA LiftShape ==
  ASSUME NEW g, NEW h, NEW U, NEW T, NEW S, NEW p, NEW a, NEW i, NEW c, Lifting(g, h, U, T, S, p, a, i, c),
         NEW R, NEW Q, R = LiftT(T, h, p, a), Q = LiftS(S, a)
  PROVE  Shape(g, U \cup {a}, R, Q, NoNode)
  <1>2. LiftFacts(g, h, U, T, S, p, a, R, Q)
    BY LiftFactsAre
  <1>3. LiftSons(g, h, U, p, a)
    BY <1>2, LiftSonsAre
  <1>4. /\ p \in U /\ p # 0 /\ a \in DOMAIN h /\ a \notin U /\ a # 0 /\ a # p /\ DOMAIN g = DOMAIN h
        /\ h[p].mid \in U \cup {0} /\ p \notin T[h[p].mid] /\ Shape(h, U, T, S, NoNode) /\ LooseFacts(h, U, T, S)
        /\ \A x \in U \cup {0} : x # a /\ h[x].mid \in U \cup {0}
        /\ \A x \in U : \A s \in Around : g[x][s] = h[x][s] /\ h[x][s] \in U \cup {0}
        /\ R \in [DOMAIN h -> SUBSET DOMAIN h] /\ Q \in [DOMAIN h -> SUBSET DOMAIN h]
        /\ R[a] = {a} \cup T[h[p].mid] /\ Q[a] = {a} /\ R[0] = {} /\ Q[0] = {} /\ T[0] = {} /\ S[0] = {}
    BY <1>2 DEF LiftFacts
  <1>16. \A x \in U \cup {0} : /\ R[x] = IF p \in T[x] THEN T[x] \cup {a} ELSE T[x]
                               /\ Q[x] = S[x] /\ T[x] \subseteq U /\ S[x] \subseteq U
    BY <1>2 DEF LiftFacts
  <1>5. /\ \A s \in Around : Son(g, NoNode, a, s) = 0 /\ g[a][s] = 0
        /\ Son(g, NoNode, a, "mid") = h[p].mid /\ Son(g, NoNode, p, "mid") = a /\ Mid(g, NoNode, a) = h[p].mid /\ Mid(g, NoNode, p) = a
        /\ \A x \in U \cup {0} : Mid(h, NoNode, x) = h[x].mid /\ (x # p => Mid(g, NoNode, x) = h[x].mid /\ Son(g, NoNode, x, "mid") = h[x].mid)
        /\ \A x \in U : \A s \in Around : Son(g, NoNode, x, s) = h[x][s]
    BY <1>3 DEF LiftSons
  <1>6. /\ Bounded(h, U, T, NoNode) /\ Levels(h, U, S) /\ Sorted(h, U, S, NoNode) /\ Exact(h, U, T, NoNode)
        /\ \A x \in U : x \in T[x] /\ x \in S[x] /\ \A s \in Sides : Son(h, NoNode, x, s) = h[x][s]
    BY <1>4 DEF Shape, Loose, LooseFacts
  <1>7. Sides = Around \cup {"mid"} /\ "left" \in Around /\ "right" \in Around /\ "mid" \notin Around
    BY DEF Sides, Around
  <1>8. ASSUME NEW x \in U, NEW s \in Sides, ~(x = p /\ s = "mid")
        PROVE  /\ Son(g, NoNode, x, s) = h[x][s] /\ h[x][s] \in U \cup {0} /\ T[h[x][s]] \subseteq T[x] /\ x \notin T[h[x][s]] /\ T[h[x][s]] \subseteq U
               /\ R[Son(g, NoNode, x, s)] = IF p \in T[h[x][s]] THEN T[h[x][s]] \cup {a} ELSE T[h[x][s]]
    <2>1. Son(g, NoNode, x, s) = h[x][s] /\ h[x][s] \in U \cup {0}
      <3>1. CASE s = "mid"
        BY <1>4, <1>5, <1>8, <3>1
      <3>2. CASE s # "mid"
        BY <1>4, <1>5, <1>7, <3>2
      <3> QED BY <3>1, <3>2
    <2>2. T[h[x][s]] \subseteq T[x] /\ x \notin T[h[x][s]]
      BY <1>6 DEF Bounded
    <2> QED BY <1>16, <2>1, <2>2
  <1>9. \A s \in Around : T[h[p][s]] \subseteq U /\ p \notin T[h[p][s]] /\ R[Son(g, NoNode, p, s)] = T[h[p][s]]
    <2> SUFFICES ASSUME NEW s \in Around PROVE T[h[p][s]] \subseteq U /\ p \notin T[h[p][s]] /\ R[Son(g, NoNode, p, s)] = T[h[p][s]]
      OBVIOUS
    <2>1. s \in Sides /\ ~(p = p /\ s = "mid") /\ p \in U
      BY <1>4, <1>7
    <2>2. p \notin T[h[p][s]] /\ T[h[p][s]] \subseteq U
      BY <1>8, <2>1
    <2>3. R[Son(g, NoNode, p, s)] = IF p \in T[h[p][s]] THEN T[h[p][s]] \cup {a} ELSE T[h[p][s]]
      BY <1>8, <2>1
    <2> QED BY <2>2, <2>3
  <1>10. R[p] = T[p] \cup {a} /\ p \in T[p] /\ T[h[p].mid] \subseteq U /\ T[h[p].mid] \subseteq T[p] /\ R[h[p].mid] = T[h[p].mid]
    <2>1. T[h[p]["mid"]] \subseteq T[p]
      BY <1>4, <1>6, <1>7 DEF Bounded
    <2> QED BY <1>4, <1>6, <1>16, <2>1
  <1>11. Bounded(g, U \cup {a}, R, NoNode)
    <2>1. ASSUME NEW x \in U \cup {a}, NEW s \in Sides PROVE R[Son(g, NoNode, x, s)] \subseteq R[x] /\ x \notin R[Son(g, NoNode, x, s)]
      <3>1. CASE x = a /\ s = "mid"
        BY <1>4, <1>5, <1>10, <3>1
      <3>2. CASE x = a /\ s # "mid"
        BY <1>4, <1>5, <1>7, <3>2
      <3>3. CASE x = p /\ s = "mid"
        BY <1>4, <1>5, <1>10, <3>3
      <3>4. CASE x # a /\ ~(x = p /\ s = "mid")
        <4>1. x \in U
          BY <3>4
        <4>2. /\ T[h[x][s]] \subseteq T[x] /\ x \notin T[h[x][s]]
              /\ R[Son(g, NoNode, x, s)] = IF p \in T[h[x][s]] THEN T[h[x][s]] \cup {a} ELSE T[h[x][s]]
          BY <1>8, <3>4, <4>1
        <4>3. R[x] = IF p \in T[x] THEN T[x] \cup {a} ELSE T[x]
          BY <1>16, <4>1
        <4> QED BY <3>4, <4>2, <4>3
      <3> QED BY <3>1, <3>2, <3>3, <3>4
    <2>2. ASSUME NEW x \in U \cup {a} PROVE x \in R[x]
      <3>1. CASE x = a
        BY <1>4, <3>1
      <3>2. CASE x # a
        <4>1. x \in T[x] /\ x \in U
          BY <1>6, <3>2
        <4>2. R[x] = T[x] \/ R[x] = T[x] \cup {a}
          BY <1>16, <4>1
        <4> QED BY <4>1, <4>2
      <3> QED BY <3>1, <3>2
    <2> QED BY <1>4, <2>1, <2>2 DEF Bounded
  <1>12. Exact(g, U \cup {a}, R, NoNode)
    <2>1. ASSUME NEW x \in U, x # p PROVE R[x] = {x} \cup R[g[x]["left"]] \cup R[Mid(g, NoNode, x)] \cup R[g[x]["right"]]
      <3>1. T[x] = {x} \cup T[h[x]["left"]] \cup T[h[x].mid] \cup T[h[x]["right"]]
        BY <1>5, <1>6 DEF Exact
      <3>2. R[x] = IF p \in T[x] THEN T[x] \cup {a} ELSE T[x]
        BY <1>16
      <3>3. /\ Son(g, NoNode, x, "left") = g[x]["left"] /\ Son(g, NoNode, x, "mid") = Mid(g, NoNode, x) /\ Son(g, NoNode, x, "right") = g[x]["right"]
            /\ "left" \in Sides /\ "mid" \in Sides /\ "right" \in Sides
        BY DEF Son, Sides
      <3>4. /\ R[g[x]["left"]] = IF p \in T[h[x]["left"]] THEN T[h[x]["left"]] \cup {a} ELSE T[h[x]["left"]]
            /\ R[g[x]["right"]] = IF p \in T[h[x]["right"]] THEN T[h[x]["right"]] \cup {a} ELSE T[h[x]["right"]]
        <4>1. ASSUME NEW s \in Around PROVE R[Son(g, NoNode, x, s)] = IF p \in T[h[x][s]] THEN T[h[x][s]] \cup {a} ELSE T[h[x][s]]
          <5>1. s \in Sides /\ ~(x = p /\ s = "mid")
            BY <1>7, <2>1
          <5> QED BY <1>8, <5>1
        <4> QED BY <1>7, <3>3, <4>1
      <3>5. R[Mid(g, NoNode, x)] = IF p \in T[h[x].mid] THEN T[h[x].mid] \cup {a} ELSE T[h[x].mid]
        <4>1. R[Son(g, NoNode, x, "mid")] = IF p \in T[h[x]["mid"]] THEN T[h[x]["mid"]] \cup {a} ELSE T[h[x]["mid"]]
          BY <1>8, <2>1, <3>3
        <4> QED BY <3>3, <4>1
      <3>6. CASE p \in T[x]
        <4>1. p \in T[h[x]["left"]] \/ p \in T[h[x].mid] \/ p \in T[h[x]["right"]]
          BY <2>1, <3>1, <3>6
        <4> QED BY <3>1, <3>2, <3>4, <3>5, <3>6, <4>1
      <3>7. CASE p \notin T[x]
        <4>1. p \notin T[h[x]["left"]] /\ p \notin T[h[x].mid] /\ p \notin T[h[x]["right"]]
          BY <3>1, <3>7
        <4>2. R[g[x]["left"]] = T[h[x]["left"]] /\ R[g[x]["right"]] = T[h[x]["right"]] /\ R[Mid(g, NoNode, x)] = T[h[x].mid] /\ R[x] = T[x]
          BY <3>2, <3>4, <3>5, <3>7, <4>1
        <4> QED BY <3>1, <4>2
      <3> QED BY <3>6, <3>7
    <2>2. R[p] = {p} \cup R[g[p]["left"]] \cup R[Mid(g, NoNode, p)] \cup R[g[p]["right"]]
      <3>1. T[p] = {p} \cup T[h[p]["left"]] \cup T[h[p].mid] \cup T[h[p]["right"]]
        BY <1>4, <1>5, <1>6 DEF Exact
      <3>2. R[Mid(g, NoNode, p)] = {a} \cup T[h[p].mid]
        BY <1>4, <1>5
      <3>3. R[g[p]["left"]] = T[h[p]["left"]] /\ R[g[p]["right"]] = T[h[p]["right"]]
        BY <1>4, <1>5, <1>7, <1>9
      <3> QED BY <1>10, <3>1, <3>2, <3>3
    <2>3. R[a] = {a} \cup R[g[a]["left"]] \cup R[Mid(g, NoNode, a)] \cup R[g[a]["right"]]
      <3>1. g[a]["left"] = 0 /\ g[a]["right"] = 0 /\ Mid(g, NoNode, a) = h[p].mid
        BY <1>5, <1>7
      <3> QED BY <1>4, <1>10, <3>1
    <2>4. ASSUME NEW x \in U \cup {a}, NEW s \in Sides, NEW q \in Sides, s # q PROVE R[Son(g, NoNode, x, s)] \cap R[Son(g, NoNode, x, q)] = {}
      <3>1. CASE x = a
        <4>1. s \in Around \/ q \in Around
          BY <1>7, <2>4
        <4> QED BY <1>4, <1>5, <3>1, <4>1
      <3>2. CASE x = p
        <4>1. T[h[p][s]] \cap T[h[p][q]] = {}
          BY <1>4, <1>6, <2>4 DEF Exact
        <4>2. CASE s = "mid"
          <5>1. q \in Around /\ R[Son(g, NoNode, x, s)] = {a} \cup T[h[p].mid] /\ h[p][s] = h[p].mid
            BY <1>4, <1>5, <1>7, <2>4, <3>2, <4>2
          <5>2. R[Son(g, NoNode, x, q)] = T[h[p][q]] /\ a \notin T[h[p][q]]
            BY <1>4, <1>9, <3>2, <5>1
          <5> QED BY <4>1, <5>1, <5>2
        <4>3. CASE q = "mid"
          <5>1. s \in Around /\ R[Son(g, NoNode, x, q)] = {a} \cup T[h[p].mid] /\ h[p][q] = h[p].mid
            BY <1>4, <1>5, <1>7, <2>4, <3>2, <4>3
          <5>2. R[Son(g, NoNode, x, s)] = T[h[p][s]] /\ a \notin T[h[p][s]]
            BY <1>4, <1>9, <3>2, <5>1
          <5> QED BY <4>1, <5>1, <5>2
        <4>4. CASE s # "mid" /\ q # "mid"
          <5>1. s \in Around /\ q \in Around
            BY <1>7, <4>4
          <5> QED BY <1>9, <3>2, <4>1, <5>1
        <4> QED BY <4>2, <4>3, <4>4
      <3>3. CASE x \notin {a, p}
        <4>1. x \in U
          BY <3>3
        <4>2. T[h[x][s]] \cap T[h[x][q]] = {}
          BY <1>6, <2>4, <4>1 DEF Exact
        <4>3. R[Son(g, NoNode, x, s)] = (IF p \in T[h[x][s]] THEN T[h[x][s]] \cup {a} ELSE T[h[x][s]]) /\ T[h[x][s]] \subseteq U
          BY <1>8, <3>3, <4>1
        <4>4. R[Son(g, NoNode, x, q)] = (IF p \in T[h[x][q]] THEN T[h[x][q]] \cup {a} ELSE T[h[x][q]]) /\ T[h[x][q]] \subseteq U
          BY <1>8, <3>3, <4>1
        <4>5. a \notin T[h[x][s]] /\ a \notin T[h[x][q]]
          BY <1>4, <4>3, <4>4
        <4> QED BY <4>2, <4>3, <4>4, <4>5
      <3> QED BY <3>1, <3>2, <3>3
    <2> QED BY <2>1, <2>2, <2>3, <2>4 DEF Exact
  <1>13. Levels(g, U \cup {a}, Q)
    <2>1. ASSUME NEW x \in U PROVE Q[x] = {x} \cup Q[g[x]["left"]] \cup Q[g[x]["right"]]
      <3>1. S[x] = {x} \cup S[h[x]["left"]] \cup S[h[x]["right"]]
        BY <1>6 DEF Levels
      <3>2. g[x]["left"] = h[x]["left"] /\ g[x]["right"] = h[x]["right"] /\ h[x]["left"] \in U \cup {0} /\ h[x]["right"] \in U \cup {0}
        BY <1>4, <1>7
      <3> QED BY <1>16, <3>1, <3>2
    <2>2. Q[a] = {a} \cup Q[g[a]["left"]] \cup Q[g[a]["right"]]
      <3>1. g[a]["left"] = 0 /\ g[a]["right"] = 0
        BY <1>5, <1>7
      <3> QED BY <1>4, <3>1
    <2> QED BY <1>4, <2>1, <2>2 DEF Levels
  <1>14. Sorted(g, U \cup {a}, Q, NoNode)
    <2>1. \A y \in U : g[y].cbyte = h[y].cbyte
      <3>1. \A y \in U : y \in DOMAIN h \ {a}
        BY <1>4, <1>2 DEF LiftFacts
      <3> QED BY <3>1 DEF Lifting, Lifted
    <2>2. ASSUME NEW x \in (U \cup {a}) \ {NoNode}, NEW s \in Around, NEW y \in Q[g[x][s]] \ {NoNode} PROVE Ahead(s, g[y].cbyte, g[x].cbyte)
      <3>1. x # a
        <4> SUFFICES ASSUME x = a PROVE FALSE
          OBVIOUS
        <4>1. g[x][s] = 0
          BY <1>5
        <4> QED BY <1>4, <2>2, <4>1
      <3>2. x \in U \ {NoNode} /\ g[x][s] = h[x][s] /\ h[x][s] \in U \cup {0}
        BY <1>4, <2>2, <3>1
      <3>3. y \in S[h[x][s]] \ {NoNode} /\ y \in U
        <4>1. Q[h[x][s]] = S[h[x][s]] /\ S[h[x][s]] \subseteq U
          BY <1>16, <3>2
        <4>2. y \in Q[h[x][s]] /\ y # NoNode
          BY <2>2, <3>2
        <4> QED BY <4>1, <4>2
      <3>4. Ahead(s, h[y].cbyte, h[x].cbyte)
        BY <1>6, <3>2, <3>3, SortedIs
      <3> QED BY <2>1, <3>2, <3>3, <3>4
    <2> QED BY <2>2, SortedIs
  <1>15. Wired(g, U \cup {a}, NoNode)
    BY LiftWired
  <1> QED BY <1>11, <1>12, <1>13, <1>14, <1>15 DEF Shape, Loose

\* The colors stay as they are: a is black, in a level of its own.
LEMMA LiftEven ==
  ASSUME NEW g, NEW h, NEW U, NEW T, NEW S, NEW p, NEW a, NEW i, NEW c, Lifting(g, h, U, T, S, p, a, i, c), NEW b, Even(h, U, b),
         NEW e, e = [b EXCEPT ![a] = 1]
  PROVE  Even(g, U \cup {a}, e)
  <1>1. PICK R, Q : R = LiftT(T, h, p, a) /\ Q = LiftS(S, a)
    OBVIOUS
  <1>2. LiftFacts(g, h, U, T, S, p, a, R, Q)
    BY <1>1, LiftFactsAre
  <1>3. LiftSons(g, h, U, p, a)
    BY <1>2, LiftSonsAre
  <1>4. /\ p \in U /\ p # 0 /\ a \in DOMAIN h /\ a \notin U /\ a # 0 /\ a # p /\ DOMAIN g = DOMAIN h /\ h[p].mid \in U \cup {0}
        /\ \A x \in U \cup {0} : x \in DOMAIN h /\ x # a /\ h[x].mid \in U \cup {0}
        /\ \A x \in U : \A s \in Around : g[x][s] = h[x][s] /\ h[x][s] \in U \cup {0}
    BY <1>2 DEF LiftFacts
  <1>5. /\ NoNode \notin (U \cup {a}) \cup {0} /\ \A s \in Around : g[a][s] = 0
        /\ Mid(g, NoNode, a) = h[p].mid /\ Mid(g, NoNode, p) = a
        /\ \A x \in U \cup {0} : Mid(h, NoNode, x) = h[x].mid /\ (x # p => Mid(g, NoNode, x) = h[x].mid)
    BY <1>3 DEF LiftSons
  <1>6. g[a].color = BLACK /\ \A y \in DOMAIN h \ {a} : g[y].color = h[y].color
    BY DEF Lifting, Lifted
  <1>7. b \in [DOMAIN h -> Nat] /\ b[0] = 0 /\ \A x \in U \ {NoNode}, s \in Around : b[x] = Seen(b, NoNode, 0, h[x][s]) + Blk(h, x)
    BY DEF Even, Counts
  <1>8. e \in [DOMAIN h -> Nat] /\ e[a] = 1 /\ \A y \in DOMAIN h : y # a => e[y] = b[y]
    BY <1>4, <1>7
  <1>9. \A y \in (U \cup {a}) \cup {0} : Seen(e, NoNode, 0, y) = e[y] /\ Seen(b, NoNode, 0, y) = b[y]
    BY <1>5 DEF Seen
  <1>10. Blk(g, a) = 1 /\ \A y \in DOMAIN h \ {a} : Blk(g, y) = Blk(h, y)
    BY <1>6 DEF Blk
  <1>11. ASSUME NEW x \in (U \cup {a}) \ {NoNode}, NEW s \in Around PROVE e[x] = Seen(e, NoNode, 0, g[x][s]) + Blk(g, x)
    <2>1. CASE x = a
      <3>1. g[x][s] = 0 /\ e[0] = 0 /\ 0 \in U \cup {0}
        BY <1>4, <1>5, <1>7, <1>8, <2>1
      <3>2. Seen(e, NoNode, 0, g[x][s]) = 0
        BY <1>9, <3>1
      <3> QED BY <1>8, <1>10, <2>1, <3>2
    <2>2. CASE x # a
      <3>1. x \in U \ {NoNode} /\ x \in DOMAIN h \ {a} /\ g[x][s] = h[x][s] /\ h[x][s] \in U \cup {0}
        BY <1>4, <1>11, <2>2
      <3>2. h[x][s] \in DOMAIN h /\ h[x][s] # a
        BY <1>4, <3>1
      <3>3. Seen(e, NoNode, 0, g[x][s]) = Seen(b, NoNode, 0, h[x][s])
        BY <1>8, <1>9, <3>1, <3>2
      <3> QED BY <1>7, <1>8, <1>10, <3>1, <3>3
    <2> QED BY <2>1, <2>2
  <1>12. Counts(g, U \cup {a}, e, NoNode, NoNode, 0)
    BY <1>4, <1>5, <1>7, <1>8, <1>11 DEF Counts
  <1>13. Reds(h, U, NoNode, NoNode)
    BY DEF Even
  <1>14. ASSUME NEW x \in (U \cup {a}) \ {NoNode}, NEW s \in Around, g[x].color = RED, g[x][s] # NoNode PROVE g[g[x][s]].color = BLACK
    <2>1. x # a
      BY <1>6, <1>14, BlackIsNotRed
    <2>2. x \in U \ {NoNode} /\ x \in DOMAIN h \ {a} /\ g[x][s] = h[x][s] /\ h[x][s] \in U \cup {0}
      BY <1>4, <1>14, <2>1
    <2>3. h[x][s] \in DOMAIN h \ {a} /\ h[x][s] # NoNode
      BY <1>4, <1>14, <2>2
    <2>4. h[h[x][s]].color = BLACK
      BY <1>6, <1>13, <1>14, <2>2, <2>3 DEF Reds
    <2> QED BY <1>6, <2>2, <2>3, <2>4
  <1>15. ASSUME NEW x \in (U \cup {a}) \cup {0}, Mid(g, NoNode, x) # 0 PROVE g[Mid(g, NoNode, x)].color = BLACK
    <2>1. ASSUME NEW y \in U \cup {0}, h[y].mid # 0 PROVE g[h[y].mid].color = BLACK
      <3>1. h[y].mid \in U /\ h[y].mid \in DOMAIN h \ {a} /\ Mid(h, NoNode, y) \notin {0, NoNode} /\ Mid(h, NoNode, y) = h[y].mid
        BY <1>4, <1>5, <2>1
      <3>2. h[h[y].mid].color = BLACK
        BY <1>13, <3>1 DEF Reds
      <3> QED BY <1>6, <3>1, <3>2
    <2>2. CASE x = a
      BY <1>4, <1>5, <1>15, <2>1, <2>2
    <2>3. CASE x = p
      BY <1>5, <1>6, <2>3
    <2>4. CASE x \notin {a, p}
      BY <1>5, <1>15, <2>1, <2>4
    <2> QED BY <2>2, <2>3, <2>4
  <1>16. Reds(g, U \cup {a}, NoNode, NoNode)
    BY <1>14, <1>15 DEF Reds
  <1> QED BY <1>12, <1>16 DEF Even

\* The new level asks for a byte between those of p and of the level that was under p, and the keys under p have c there.
Between(h, T, S, V, p, i, c) ==
  /\ h[p].index < i /\ p \notin V
  /\ \A r \in S[h[p].mid] \ {NoNode} : i < h[r].index
  /\ \A y \in Keyed(h, T, V, NoNode, p) : Byte(h[y].item, i) = c
  /\ h[p].mid = 0 => Byte(h[p].item, i) = c

\* The nodes with a key then: a has it instead of p.
LiftOne(h, g, T, V, p, a, o, y, z) == z \in Keyed(h, T, V, NoNode, o) /\ z = (IF y = a THEN p ELSE y) /\ g[y].item = h[z].item
LEMMA LiftKeyed ==
  ASSUME NEW g, NEW h, NEW U, NEW T, NEW S, NEW p, NEW a, NEW i, NEW c, Lifting(g, h, U, T, S, p, a, i, c),
         NEW R, NEW Q, R = LiftT(T, h, p, a), Q = LiftS(S, a), NEW V, p \notin V, a \notin V
  PROVE  /\ \A o \in U \cup {0} : o # p \/ h[p].mid # 0 => \A y \in Keyed(g, R, V, NoNode, o) : \E z : LiftOne(h, g, T, V, p, a, o, y, z)
         /\ h[p].mid = 0 => Keyed(g, R, V, NoNode, p) = {a} /\ Keyed(g, R, V, NoNode, a) = {}
         /\ \A y \in Keyed(g, R, V, NoNode, a) : LiftOne(h, g, T, V, p, a, p, y, y)
         /\ \A o \in U \cup {0} : o # p => \A z \in Keyed(h, T, V, NoNode, o) : \E y \in Keyed(g, R, V, NoNode, o) : LiftOne(h, g, T, V, p, a, o, y, z)
  <1>2. LiftFacts(g, h, U, T, S, p, a, R, Q)
    BY LiftFactsAre
  <1>3. LiftSons(g, h, U, p, a)
    BY <1>2, LiftSonsAre
  <1>4. /\ p \in U /\ p # 0 /\ a \in DOMAIN h /\ a \notin U /\ a # 0 /\ a # p /\ DOMAIN g = DOMAIN h
        /\ h[p].mid \in U \cup {0} /\ p \notin T[h[p].mid] /\ R[a] = {a} \cup T[h[p].mid] /\ g[p].mid = a /\ g[a].mid = h[p].mid /\ T[0] = {} /\ R[0] = {}
        /\ \A x \in U \cup {0} : x \in DOMAIN h /\ x # a /\ (x # p => g[x].mid = h[x].mid) /\ h[x].mid \in U \cup {0}
    BY <1>2 DEF LiftFacts
  <1>5. \A x \in U \cup {0} : R[x] = (IF p \in T[x] THEN T[x] \cup {a} ELSE T[x]) /\ T[x] \subseteq U
    BY <1>2 DEF LiftFacts
  <1>6. NoNode \notin (U \cup {a}) \cup {0}
    BY <1>3 DEF LiftSons
  <1>7. g[a].item = h[p].item /\ \A y \in U : y # p => g[y].item = h[y].item
    <2>1. \A y \in U : y \in DOMAIN h \ {a}
      BY <1>4
    <2> QED BY <2>1 DEF Lifting, Lifted
  <1>8. \A o : \A y : y \in Keyed(h, T, V, NoNode, o) <=> y \in T[h[o].mid] /\ y # NoNode /\ y \notin V /\ h[y].mid = 0
    BY DEF Keyed
  <1>9. \A o : \A y : y \in Keyed(g, R, V, NoNode, o) <=> y \in R[g[o].mid] /\ y # NoNode /\ y \notin V /\ g[y].mid = 0
    BY DEF Keyed
  <1>10. ASSUME NEW o \in U \cup {0}, o # p \/ h[p].mid # 0, NEW y \in Keyed(g, R, V, NoNode, o) PROVE \E z : LiftOne(h, g, T, V, p, a, o, y, z)
    <2>1. y \in R[g[o].mid] /\ y # NoNode /\ y \notin V /\ g[y].mid = 0
      BY <1>9, <1>10
    <2>2. y # p
      BY <1>4, <2>1
    <2>3. CASE o = p
      <3>1. y \in {a} \cup T[h[p].mid] /\ y # a
        BY <1>4, <1>10, <2>1, <2>3
      <3>2. y \in U /\ y \in T[h[o].mid]
        BY <1>4, <1>5, <2>3, <3>1
      <3>3. h[y].mid = 0
        BY <1>4, <2>1, <2>2, <3>2
      <3>4. y \in Keyed(h, T, V, NoNode, o)
        BY <1>8, <2>1, <3>2, <3>3
      <3> QED BY <1>7, <2>2, <3>1, <3>2, <3>4 DEF LiftOne
    <2>4. CASE o # p
      <3>1. R[h[o].mid] = (IF p \in T[h[o].mid] THEN T[h[o].mid] \cup {a} ELSE T[h[o].mid]) /\ T[h[o].mid] \subseteq U /\ g[o].mid = h[o].mid
        BY <1>4, <1>5, <2>4
      <3>2. CASE y = a
        <4>1. p \in T[h[o].mid] /\ h[p].mid = 0 /\ p # NoNode
          BY <1>4, <1>6, <2>1, <3>1, <3>2
        <4>2. p \in Keyed(h, T, V, NoNode, o)
          BY <1>8, <4>1
        <4> QED BY <1>7, <3>2, <4>2 DEF LiftOne
      <3>3. CASE y # a
        <4>1. y \in T[h[o].mid] /\ y \in U
          BY <2>1, <3>1, <3>3
        <4>2. y \in Keyed(h, T, V, NoNode, o)
          BY <1>4, <1>8, <2>1, <2>2, <4>1
        <4> QED BY <1>7, <2>2, <3>3, <4>1, <4>2 DEF LiftOne
      <3> QED BY <3>2, <3>3
    <2> QED BY <2>3, <2>4
  <1>11. ASSUME h[p].mid = 0 PROVE Keyed(g, R, V, NoNode, p) = {a} /\ Keyed(g, R, V, NoNode, a) = {}
    <2>1. R[g[p].mid] = {a} /\ R[g[a].mid] = {}
      BY <1>4, <1>11
    <2> QED BY <1>4, <1>6, <1>9, <1>11, <2>1
  <1>12. ASSUME NEW y \in Keyed(g, R, V, NoNode, a) PROVE LiftOne(h, g, T, V, p, a, p, y, y)
    <2>1. y \in R[g[a].mid] /\ y # NoNode /\ y \notin V /\ g[y].mid = 0
      BY <1>9, <1>12
    <2>2. R[h[p].mid] = T[h[p].mid] /\ T[h[p].mid] \subseteq U
      BY <1>4, <1>5
    <2>3. y \in T[h[p].mid] /\ y \in U /\ y # p /\ y # a
      BY <1>4, <2>1, <2>2
    <2>4. y \in Keyed(h, T, V, NoNode, p)
      BY <1>4, <1>8, <2>1, <2>3
    <2> QED BY <1>7, <2>3, <2>4 DEF LiftOne
  <1>13. ASSUME NEW o \in U \cup {0}, o # p, NEW z \in Keyed(h, T, V, NoNode, o) PROVE \E y \in Keyed(g, R, V, NoNode, o) : LiftOne(h, g, T, V, p, a, o, y, z)
    <2>1. R[h[o].mid] = (IF p \in T[h[o].mid] THEN T[h[o].mid] \cup {a} ELSE T[h[o].mid]) /\ T[h[o].mid] \subseteq U /\ g[o].mid = h[o].mid
      BY <1>4, <1>5, <1>13
    <2>2. z \in T[h[o].mid] /\ z # NoNode /\ z \notin V /\ h[z].mid = 0
      BY <1>8, <1>13
    <2>3. CASE z = p
      <3>1. a \in Keyed(g, R, V, NoNode, o)
        BY <1>4, <1>6, <1>9, <2>1, <2>2, <2>3
      <3>2. LiftOne(h, g, T, V, p, a, o, a, z)
        BY <1>7, <1>13, <2>3 DEF LiftOne
      <3> QED BY <3>1, <3>2
    <2>4. CASE z # p
      <3>1. z \in U /\ z # a /\ z \in R[g[o].mid]
        BY <1>4, <2>1, <2>2
      <3>2. z \in Keyed(g, R, V, NoNode, o)
        BY <1>4, <1>9, <2>2, <2>4, <3>1
      <3>3. LiftOne(h, g, T, V, p, a, o, z, z)
        BY <1>7, <1>13, <2>4, <3>1 DEF LiftOne
      <3> QED BY <3>2, <3>3
    <2> QED BY <2>3, <2>4
  <1> QED BY <1>10, <1>11, <1>12, <1>13

LiftKeysFrom(g, h, U, T, S, V, p, a, i, c, R, Q) ==
  /\ Lifting(g, h, U, T, S, p, a, i, c) /\ R = LiftT(T, h, p, a) /\ Q = LiftS(S, a)
  /\ Keys(h, U, T, S, NoNode, V) /\ Between(h, T, S, V, p, i, c) /\ U = T[h[0].mid]
LiftKeysTo(g, h, U, T, V, a, R, Q) ==
  /\ Keys(g, U \cup {a}, R, Q, NoNode, V) /\ KeysOf(g, R, V, NoNode) = KeysOf(h, T, V, NoNode)
  /\ U \cup {a} = R[g[0].mid] /\ a \notin V

LEMMA LiftKeys ==
  ASSUME NEW g, NEW h, NEW U, NEW T, NEW S, NEW p, NEW a, NEW i, NEW c, NEW R, NEW Q, NEW V,
         LiftKeysFrom(g, h, U, T, S, V, p, a, i, c, R, Q)
  PROVE  LiftKeysTo(g, h, U, T, V, a, R, Q)
  <1>1. /\ Lifting(g, h, U, T, S, p, a, i, c) /\ R = LiftT(T, h, p, a) /\ Q = LiftS(S, a)
        /\ Keys(h, U, T, S, NoNode, V) /\ Between(h, T, S, V, p, i, c) /\ U = T[h[0].mid]
    BY DEF LiftKeysFrom
  <1> USE <1>1
  <1>2. LiftFacts(g, h, U, T, S, p, a, R, Q)
    BY LiftFactsAre
  <1>3. LiftSons(g, h, U, p, a)
    BY <1>2, LiftSonsAre
  <1>4. /\ p \in U /\ p # 0 /\ a \in DOMAIN h /\ a \notin U /\ a # 0 /\ a # p /\ DOMAIN g = DOMAIN h /\ LooseFacts(h, U, T, S) /\ IsHeap(h)
        /\ h[p].mid \in U \cup {0} /\ p \notin T[h[p].mid] /\ Q[a] = {a} /\ g[p].mid = a /\ g[a].mid = h[p].mid /\ Q[0] = {} /\ S[0] = {}
        /\ \A x \in U \cup {0} : x \in DOMAIN h /\ x # a /\ (x # p => g[x].mid = h[x].mid) /\ h[x].mid \in U \cup {0}
    BY <1>2 DEF LiftFacts, LooseFacts
  <1>5. \A x \in U \cup {0} : R[x] = (IF p \in T[x] THEN T[x] \cup {a} ELSE T[x]) /\ Q[x] = S[x] /\ S[x] \subseteq U
    BY <1>2 DEF LiftFacts
  <1>6. NoNode \notin (U \cup {a}) \cup {0}
    BY <1>3 DEF LiftSons
  <1>7. /\ g[a].item = h[p].item /\ g[a].index = i /\ g[a].cbyte = c
        /\ \A y \in U : g[y].cbyte = h[y].cbyte /\ g[y].index = h[y].index /\ g[y].item = (IF y = p THEN NoKey ELSE h[y].item)
    <2>1. \A y \in U : y \in DOMAIN h \ {a}
      BY <1>4
    <2> QED BY <2>1 DEF Lifting, Lifted
  <1>8. /\ Aligned(h, U, S, NoNode) /\ Deeper(h, U, S, NoNode) /\ First(h, S, NoNode, V) /\ Items(h, U, NoNode)
        /\ Spelled(h, U, T, NoNode, V) /\ Agreeing(h, U, T, S, NoNode, V) /\ Left(h, S, NoNode, V)
    BY DEF Keys
  <1>9. /\ h[p].index < i /\ p \notin V
        /\ \A r \in S[h[p].mid] \ {NoNode} : i < h[r].index
        /\ \A y \in Keyed(h, T, V, NoNode, p) : Byte(h[y].item, i) = c
        /\ h[p].mid = 0 => Byte(h[p].item, i) = c
    BY DEF Between
  <1>10. V \subseteq U
    <2>1. V = {} \/ \E v : V = {v} /\ v \in U
      BY <1>4, <1>5, <1>8 DEF Left
    <2> QED BY <2>1
  <1>11. a \notin V
    BY <1>4, <1>10
  <1>12. /\ \A o \in U \cup {0} : o # p \/ h[p].mid # 0 => \A y \in Keyed(g, R, V, NoNode, o) : \E z : LiftOne(h, g, T, V, p, a, o, y, z)
         /\ h[p].mid = 0 => Keyed(g, R, V, NoNode, p) = {a} /\ Keyed(g, R, V, NoNode, a) = {}
         /\ \A y \in Keyed(g, R, V, NoNode, a) : LiftOne(h, g, T, V, p, a, p, y, y)
         /\ \A o \in U \cup {0} : o # p => \A z \in Keyed(h, T, V, NoNode, o) : \E y \in Keyed(g, R, V, NoNode, o) : LiftOne(h, g, T, V, p, a, o, y, z)
    BY <1>9, <1>11, LiftKeyed
  \* The levels.
  <1>13. /\ \A o \in U \cup {0} : o # p => Q[g[o].mid] = S[h[o].mid] /\ S[h[o].mid] \subseteq U
         /\ Q[g[p].mid] = {a} /\ Q[g[a].mid] = S[h[p].mid] /\ S[h[p].mid] \subseteq U
    <2>1. ASSUME NEW o \in U \cup {0} PROVE Q[h[o].mid] = S[h[o].mid] /\ S[h[o].mid] \subseteq U
      <3>1. h[o].mid \in U \cup {0}
        BY <1>4
      <3> QED BY <1>5, <3>1
    <2>2. \A o \in U \cup {0} : o # p => g[o].mid = h[o].mid
      BY <1>4
    <2>3. p \in U \cup {0} /\ Q[a] = {a} /\ g[p].mid = a /\ g[a].mid = h[p].mid
      BY <1>4
    <2> QED BY <2>1, <2>2, <2>3
  <1>14. Aligned(g, U \cup {a}, Q, NoNode)
    <2> SUFFICES ASSUME NEW o \in ((U \cup {a}) \cup {0}) \ {NoNode}, NEW y \in Q[g[o].mid] \ {NoNode}, NEW z \in Q[g[o].mid] \ {NoNode} PROVE g[y].index = g[z].index
      BY DEF Aligned
    <2>1. CASE o = p
      BY <1>13, <2>1
    <2>2. CASE o # p
      <3>1. PICK q \in (U \cup {0}) \ {NoNode} : Q[g[o].mid] = S[h[q].mid] /\ S[h[q].mid] \subseteq U
        <4>1. CASE o = a
          BY <1>4, <1>6, <1>13, <4>1
        <4>2. CASE o # a
          BY <1>13, <2>2, <4>2
        <4> QED BY <4>1, <4>2
      <3>2. h[y].index = h[z].index
        BY <1>8, <3>1 DEF Aligned
      <3> QED BY <1>7, <3>1, <3>2
    <2> QED BY <2>1, <2>2
  <1>15. Deeper(g, U \cup {a}, Q, NoNode)
    <2> SUFFICES ASSUME NEW o \in (U \cup {a}) \ {NoNode}, NEW y \in Q[g[o].mid] \ {NoNode} PROVE g[y].index > g[o].index
      BY DEF Deeper
    <2>1. CASE o = p
      <3>1. y = a
        BY <1>13, <2>1
      <3>2. h[p].index \in Int
        BY <1>4, HeapFields
      <3>3. g[a].index \in Int
        <4>1. IsHeap(g) /\ a \in DOMAIN g
          BY <1>2 DEF LiftFacts
        <4> QED BY <4>1, HeapFields
      <3> QED BY <1>4, <1>7, <1>9, <2>1, <3>1, <3>2, <3>3
    <2>2. CASE o = a
      <3>1. y \in S[h[p].mid] \ {NoNode} /\ y \in U
        BY <1>13, <2>2
      <3>2. h[y].index \in Int
        BY <1>4, <3>1, HeapFields
      <3>3. g[a].index \in Int
        <4>1. IsHeap(g) /\ a \in DOMAIN g
          BY <1>2 DEF LiftFacts
        <4> QED BY <4>1, HeapFields
      <3>4. i < h[y].index /\ i \in Int
        BY <1>7, <1>9, <3>1, <3>3
      <3> QED BY <1>7, <2>2, <3>1, <3>2, <3>4
    <2>3. CASE o \notin {a, p}
      <3>1. o \in U \ {NoNode} /\ y \in S[h[o].mid] \ {NoNode} /\ y \in U
        BY <1>13, <2>3
      <3>2. h[y].index > h[o].index
        BY <1>8, <3>1 DEF Deeper
      <3> QED BY <1>7, <3>1, <3>2
    <2> QED BY <2>1, <2>2, <2>3
  <1>16. Q[g[0].mid] = S[h[0].mid] /\ S[h[0].mid] \subseteq U /\ g[0].mid = h[0].mid
    BY <1>4, <1>13
  <1>17. First(g, Q, NoNode, V)
    <2> SUFFICES ASSUME NEW y \in Q[g[0].mid] \ {NoNode} PROVE g[y].index = IF V = {} THEN 0 ELSE Taken
      BY DEF First
    <2>1. y \in S[h[0].mid] \ {NoNode} /\ y \in U
      BY <1>16
    <2>2. h[y].index = IF V = {} THEN 0 ELSE Taken
      BY <1>8, <2>1 DEF First
    <2> QED BY <1>7, <2>1, <2>2
  <1>18. Items(g, U \cup {a}, NoNode)
    <2> SUFFICES ASSUME NEW x \in (U \cup {a}) \ {NoNode} PROVE IF g[x].mid = 0 THEN Text(g[x].item) ELSE g[x].item = NoKey
      BY DEF Items
    <2>1. \A y \in U : IF h[y].mid = 0 THEN Text(h[y].item) ELSE h[y].item = NoKey
      BY <1>6, <1>8 DEF Items
    <2>2. CASE x = a
      BY <1>4, <1>7, <2>1, <2>2
    <2>3. CASE x = p
      BY <1>4, <1>7, <2>3
    <2>4. CASE x \notin {a, p}
      <3>1. x \in U /\ g[x].mid = h[x].mid /\ g[x].item = h[x].item
        BY <1>4, <1>7, <2>4
      <3> QED BY <2>1, <3>1
    <2> QED BY <2>2, <2>3, <2>4
  <1>19. Spelled(g, U \cup {a}, R, NoNode, V)
    <2> SUFFICES ASSUME NEW x \in (U \cup {a}) \ {NoNode}
                 PROVE  /\ \A y \in Keyed(g, R, V, NoNode, x) : Byte(g[y].item, g[x].index) = g[x].cbyte
                        /\ g[x].mid = 0 /\ x \notin V => Byte(g[x].item, g[x].index) = g[x].cbyte
      BY DEF Spelled
    <2>1. ASSUME NEW y \in U
          PROVE  /\ \A z \in Keyed(h, T, V, NoNode, y) : Byte(h[z].item, h[y].index) = h[y].cbyte
                 /\ h[y].mid = 0 /\ y \notin V => Byte(h[y].item, h[y].index) = h[y].cbyte
      BY <1>6, <1>8 DEF Spelled
    <2>2. CASE x = a
      <3>1. ASSUME NEW y \in Keyed(g, R, V, NoNode, x) PROVE Byte(g[y].item, g[x].index) = g[x].cbyte
        <4>1. LiftOne(h, g, T, V, p, a, p, y, y)
          BY <1>12, <2>2, <3>1
        <4>2. Byte(h[y].item, i) = c
          BY <1>9, <4>1 DEF LiftOne
        <4> QED BY <1>7, <2>2, <4>1, <4>2 DEF LiftOne
      <3>2. ASSUME g[x].mid = 0 PROVE Byte(g[x].item, g[x].index) = g[x].cbyte
        BY <1>4, <1>7, <1>9, <2>2, <3>2
      <3> QED BY <3>1, <3>2
    <2>3. CASE x # a
      <3>1. x \in U /\ g[x].index = h[x].index /\ g[x].cbyte = h[x].cbyte
        BY <1>7, <2>3
      <3>2. ASSUME NEW y \in Keyed(g, R, V, NoNode, x) PROVE Byte(g[y].item, g[x].index) = g[x].cbyte
        <4>1. CASE x = p /\ h[p].mid = 0
          <5>1. y = a /\ Byte(h[p].item, h[p].index) = h[p].cbyte
            BY <1>9, <1>12, <2>1, <3>2, <3>1, <4>1
          <5> QED BY <1>7, <3>1, <4>1, <5>1
        <4>2. CASE ~(x = p /\ h[p].mid = 0)
          <5>1. PICK z : LiftOne(h, g, T, V, p, a, x, y, z)
            BY <1>12, <3>1, <3>2, <4>2
          <5> QED BY <2>1, <3>1, <5>1 DEF LiftOne
        <4> QED BY <4>1, <4>2
      <3>3. ASSUME g[x].mid = 0, x \notin V PROVE Byte(g[x].item, g[x].index) = g[x].cbyte
        <4>1. x # p /\ h[x].mid = 0 /\ g[x].item = h[x].item
          BY <1>4, <1>7, <3>1, <3>3
        <4> QED BY <2>1, <3>1, <3>3, <4>1
      <3> QED BY <3>2, <3>3
    <2> QED BY <2>2, <2>3
  <1>20. Agreeing(g, U \cup {a}, R, Q, NoNode, V)
    <2> SUFFICES ASSUME NEW o \in (U \cup {a}) \ {NoNode}, NEW y \in Keyed(g, R, V, NoNode, o), NEW z \in Keyed(g, R, V, NoNode, o),
                        NEW r \in Q[g[o].mid] \ {NoNode}, NEW j \in Int, 0 <= j, j < g[r].index
                 PROVE  Byte(g[y].item, j) = Byte(g[z].item, j)
      BY DEF Agreeing
    <2>1. ASSUME NEW q \in U, NEW y1 \in Keyed(h, T, V, NoNode, q), NEW z1 \in Keyed(h, T, V, NoNode, q), NEW s \in S[h[q].mid], j < h[s].index
          PROVE  Byte(h[y1].item, j) = Byte(h[z1].item, j)
      <3>1. s \in S[h[q].mid] \ {NoNode} /\ q \in U \ {NoNode}
        <4>1. h[q].mid \in U \cup {0}
          BY <1>4
        <4>2. S[h[q].mid] \subseteq U
          BY <1>5, <4>1
        <4> QED BY <1>6, <2>1, <4>2
      <3> QED BY <1>8, <2>1, <3>1 DEF Agreeing
    <2>2. CASE o = a
      <3>1. LiftOne(h, g, T, V, p, a, p, y, y) /\ LiftOne(h, g, T, V, p, a, p, z, z)
        BY <1>12, <2>2
      <3>2. r \in S[h[p].mid] /\ g[r].index = h[r].index
        BY <1>7, <1>13, <2>2
      <3>3. Byte(h[y].item, j) = Byte(h[z].item, j)
        BY <1>4, <2>1, <3>1, <3>2 DEF LiftOne
      <3> QED BY <3>1, <3>3 DEF LiftOne
    <2>3. CASE o = p /\ h[p].mid = 0
      BY <1>12, <2>3
    <2>4. CASE o # a /\ ~(o = p /\ h[p].mid = 0)
      <3>1. PICK y1 : LiftOne(h, g, T, V, p, a, o, y, y1)
        BY <1>12, <2>4
      <3>2. PICK z1 : LiftOne(h, g, T, V, p, a, o, z, z1)
        BY <1>12, <2>4
      <3>3. PICK s \in S[h[o].mid] : j < h[s].index
        <4>1. CASE o = p
          <5>1. r = a /\ h[p].mid \in U /\ h[p].mid \in S[h[p].mid]
            BY <1>4, <1>13, <2>4, <4>1 DEF LooseFacts
          <5>2. i < h[h[p].mid].index
            BY <1>6, <1>9, <5>1
          <5>3. i \in Int /\ h[h[p].mid].index \in Int
            <6>1. IsHeap(g) /\ a \in DOMAIN g
              BY <1>2 DEF LiftFacts
            <6>2. i \in Int
              BY <1>7, <6>1, HeapFields
            <6>3. h[p].mid \in DOMAIN h
              BY <1>4, <5>1
            <6> QED BY <1>4, <6>2, <6>3, HeapFields
          <5>4. j < h[h[p].mid].index
            BY <1>7, <5>1, <5>2, <5>3
          <5> QED BY <4>1, <5>1, <5>4
        <4>2. CASE o # p
          <5>1. r \in S[h[o].mid] /\ r \in U
            BY <1>13, <2>4, <4>2
          <5> QED BY <1>7, <5>1
        <4> QED BY <4>1, <4>2
      <3>4. Byte(h[y1].item, j) = Byte(h[z1].item, j)
        BY <2>1, <2>4, <3>1, <3>2, <3>3 DEF LiftOne
      <3> QED BY <3>1, <3>2, <3>4 DEF LiftOne
    <2> QED BY <2>2, <2>3, <2>4
  <1>21. Left(g, Q, NoNode, V)
    <2>1. CASE V = {}
      BY <2>1 DEF Left
    <2>2. CASE V # {}
      <3>1. PICK v : /\ V = {v} /\ v \in S[h[0].mid] \ {NoNode} /\ h[v].mid = 0 /\ h[v].cbyte # 0
                     /\ \A y \in S[h[0].mid] \ {NoNode} : y = v \/ h[y].cbyte = 0
        BY <1>8, <2>2 DEF Left
      <3>2. v \in U /\ v # p
        BY <1>9, <1>10, <3>1
      <3>3. g[v].mid = 0 /\ g[v].cbyte # 0
        BY <1>4, <1>7, <3>1, <3>2
      <3>4. \A y \in Q[g[0].mid] \ {NoNode} : y = v \/ g[y].cbyte = 0
        BY <1>7, <1>16, <3>1
      <3> QED BY <1>16, <3>1, <3>3, <3>4 DEF Left
    <2> QED BY <2>1, <2>2
  <1>22. KeysOf(g, R, V, NoNode) = KeysOf(h, T, V, NoNode)
    <2>1. 0 \in U \cup {0} /\ 0 # p
      BY <1>4
    <2>2. ASSUME NEW y \in Keyed(g, R, V, NoNode, 0) PROVE \E z \in Keyed(h, T, V, NoNode, 0) : g[y].item = h[z].item
      BY <1>12, <2>1, <2>2 DEF LiftOne
    <2>3. ASSUME NEW z \in Keyed(h, T, V, NoNode, 0) PROVE \E y \in Keyed(g, R, V, NoNode, 0) : g[y].item = h[z].item
      BY <1>12, <2>1, <2>3 DEF LiftOne
    <2>4. \A v : v \in KeysOf(g, R, V, NoNode) <=> \E y \in Keyed(g, R, V, NoNode, 0) : v = g[y].item
      BY DEF KeysOf
    <2>5. \A v : v \in KeysOf(h, T, V, NoNode) <=> \E y \in Keyed(h, T, V, NoNode, 0) : v = h[y].item
      BY DEF KeysOf
    <2>6. \A v : v \in KeysOf(g, R, V, NoNode) <=> v \in KeysOf(h, T, V, NoNode)
      BY <2>2, <2>3, <2>4, <2>5
    <2> QED BY <2>6 DEF KeysOf
  <1>23. U \cup {a} = R[g[0].mid]
    <2>1. U = T[h[0].mid] /\ p \in U /\ 0 \in U \cup {0}
      BY <1>4, <1>8
    <2>2. h[0].mid \in U \cup {0}
      BY <1>4, <2>1
    <2>3. R[h[0].mid] = T[h[0].mid] \cup {a}
      BY <1>5, <2>1, <2>2
    <2> QED BY <1>16, <2>1, <2>3
  <1>24. Keys(g, U \cup {a}, R, Q, NoNode, V)
    BY <1>14, <1>15, <1>17, <1>18, <1>19, <1>20, <1>21 DEF Keys
  <1> QED BY <1>11, <1>22, <1>23, <1>24 DEF LiftKeysTo

\* Before byte i the key is as those under p.
AgreesBelow(h, T, V, p, i, k) ==
  \A j \in Int : 0 <= j /\ j < i => /\ \A y \in Keyed(h, T, V, NoNode, p) : Byte(k, j) = Byte(h[y].item, j)
                                    /\ h[p].mid = 0 => Byte(k, j) = Byte(h[p].item, j)
LEMMA LiftSuits ==
  ASSUME NEW g, NEW h, NEW U, NEW T, NEW S, NEW p, NEW a, NEW i, NEW c, Lifting(g, h, U, T, S, p, a, i, c),
         NEW R, NEW Q, R = LiftT(T, h, p, a), Q = LiftS(S, a), NEW V, Between(h, T, S, V, p, i, c), a \notin V,
         NEW k, Suits(h, U, T, S, V, p, k), AgreesBelow(h, T, V, p, i, k), Byte(k, h[p].index) = h[p].cbyte
  PROVE  Suits(g, U \cup {a}, R, Q, V, a, k)
  <1>2. LiftFacts(g, h, U, T, S, p, a, R, Q)
    BY LiftFactsAre
  <1>4. /\ p \in U /\ p # 0 /\ a \in DOMAIN h /\ a \notin U /\ a # 0 /\ a # p /\ DOMAIN g = DOMAIN h
        /\ h[p].mid \in U \cup {0} /\ p \notin T[h[p].mid] /\ Q[a] = {a} /\ g[p].mid = a /\ g[a].mid = h[p].mid
        /\ \A x \in U \cup {0} : x \in DOMAIN h /\ x # a /\ (x # p => g[x].mid = h[x].mid) /\ h[x].mid \in U \cup {0}
    BY <1>2 DEF LiftFacts
  <1>5. \A x \in U \cup {0} : R[x] = (IF p \in T[x] THEN T[x] \cup {a} ELSE T[x]) /\ Q[x] = S[x] /\ S[x] \subseteq U /\ T[x] \subseteq U
    BY <1>2 DEF LiftFacts
  <1>7. /\ g[a].item = h[p].item /\ g[a].index = i /\ g[a].cbyte = c
        /\ \A y \in U : g[y].cbyte = h[y].cbyte /\ g[y].index = h[y].index
    <2>1. \A y \in U : y \in DOMAIN h \ {a}
      BY <1>4
    <2> QED BY <2>1 DEF Lifting, Lifted
  <1>9. p \notin V
    BY DEF Between
  <1>12. /\ \A o \in U \cup {0} : o # p \/ h[p].mid # 0 => \A y \in Keyed(g, R, V, NoNode, o) : \E z : LiftOne(h, g, T, V, p, a, o, y, z)
         /\ h[p].mid = 0 => Keyed(g, R, V, NoNode, p) = {a} /\ Keyed(g, R, V, NoNode, a) = {}
    BY <1>9, LiftKeyed
  <1>13. ASSUME NEW x \in U \cup {a}, a \in R[g[x].mid] PROVE x = p \/ (x \in U /\ x # p /\ p \in T[h[x].mid] /\ g[x].mid = h[x].mid)
    <2>1. x # a
      <3> SUFFICES ASSUME x = a PROVE FALSE
        OBVIOUS
      <3>1. R[h[p].mid] = T[h[p].mid] /\ T[h[p].mid] \subseteq U
        BY <1>4, <1>5
      <3> QED BY <1>4, <1>13, <3>1
    <2>2. CASE x # p
      <3>1. x \in U /\ g[x].mid = h[x].mid /\ h[x].mid \in U \cup {0}
        BY <1>4, <2>1, <2>2
      <3>2. R[h[x].mid] = (IF p \in T[h[x].mid] THEN T[h[x].mid] \cup {a} ELSE T[h[x].mid]) /\ T[h[x].mid] \subseteq U
        BY <1>5, <3>1
      <3> QED BY <1>4, <1>13, <2>2, <3>1, <3>2
    <2> QED BY <2>2
  <1>14. ASSUME NEW x \in U \cup {a}, a \in R[g[x].mid] PROVE Byte(k, g[x].index) = g[x].cbyte
    <2>1. CASE x = p
      BY <1>4, <1>7, <2>1
    <2>2. CASE x # p
      <3>1. x \in U /\ p \in T[h[x].mid]
        BY <1>13, <1>14, <2>2
      <3> QED BY <1>7, <3>1 DEF Suits
    <2> QED BY <2>1, <2>2
  <1>15. ASSUME NEW o \in U \cup {a}, a \in R[g[o].mid], NEW y \in Keyed(g, R, V, NoNode, o), NEW r \in Q[g[o].mid] \ {NoNode},
                NEW j \in Int, 0 <= j, j < g[r].index
         PROVE  Byte(k, j) = Byte(g[y].item, j)
    <2>1. CASE o = p
      <3>1. r = a /\ j < i
        BY <1>4, <1>7, <1>15, <2>1
      <3>2. CASE h[p].mid = 0
        <4>1. y = a
          BY <1>12, <1>15, <2>1, <3>2
        <4> QED BY <1>7, <1>15, <3>1, <3>2, <4>1 DEF AgreesBelow
      <3>3. CASE h[p].mid # 0
        <4>1. PICK z : LiftOne(h, g, T, V, p, a, p, y, z)
          BY <1>4, <1>12, <1>15, <2>1, <3>3
        <4>2. Byte(k, j) = Byte(h[z].item, j)
          BY <1>15, <3>1, <4>1 DEF LiftOne, AgreesBelow
        <4> QED BY <4>1, <4>2 DEF LiftOne
      <3> QED BY <3>2, <3>3
    <2>2. CASE o # p
      <3>1. o \in U /\ p \in T[h[o].mid] /\ g[o].mid = h[o].mid /\ h[o].mid \in U \cup {0}
        BY <1>4, <1>13, <1>15, <2>2
      <3>2. r \in S[h[o].mid] \ {NoNode} /\ g[r].index = h[r].index
        BY <1>5, <1>7, <1>15, <3>1
      <3>3. PICK z : LiftOne(h, g, T, V, p, a, o, y, z)
        BY <1>12, <1>15, <2>2, <3>1
      <3>4. Byte(k, j) = Byte(h[z].item, j)
        BY <1>15, <3>1, <3>2, <3>3 DEF LiftOne, Suits
      <3> QED BY <3>3, <3>4 DEF LiftOne
    <2> QED BY <2>1, <2>2
  <1> QED BY <1>14, <1>15 DEF Suits

LEMMA LiftTwo ==
  ASSUME NEW g, NEW h, NEW U, NEW T, NEW S, NEW p, NEW a, NEW i, NEW c, Lifting(g, h, U, T, S, p, a, i, c),
         NEW R, NEW Q, R = LiftT(T, h, p, a), Q = LiftS(S, a), Two(h, U, S, NoNode, 0)
  PROVE  Two(g, U \cup {a}, Q, NoNode, p)
  <1>2. LiftFacts(g, h, U, T, S, p, a, R, Q)
    BY LiftFactsAre
  <1>3. NoNode \notin (U \cup {a}) \cup {0}
    <2>1. LiftSons(g, h, U, p, a)
      BY <1>2, LiftSonsAre
    <2> QED BY <2>1 DEF LiftSons
  <1>4. /\ p \in U /\ p # 0 /\ 0 \notin U /\ g[a].mid = h[p].mid
        /\ \A x \in U \cup {0} : (x # p => g[x].mid = h[x].mid) /\ h[x].mid \in U \cup {0}
        /\ \A x \in U \cup {0} : Q[x] = S[x]
    BY <1>2 DEF LiftFacts
  <1>5. ASSUME NEW y \in U, h[y].mid # 0 PROVE \E v, w \in Q[h[y].mid] \ {NoNode} : v # w
    <2>1. \E v, w \in S[h[y].mid] \ {NoNode} : v # w
      BY <1>3, <1>4, <1>5 DEF Two
    <2>2. Q[h[y].mid] = S[h[y].mid]
      BY <1>4, <1>5
    <2> QED BY <2>1, <2>2
  <1> SUFFICES ASSUME NEW x \in (U \cup {a}) \ {NoNode}, g[x].mid # 0, x # p PROVE \E v, w \in Q[g[x].mid] \ {NoNode} : v # w
    BY DEF Two
  <1>6. CASE x = a
    BY <1>4, <1>5, <1>6
  <1>7. CASE x # a
    <2>1. x \in U /\ g[x].mid = h[x].mid
      BY <1>4, <1>7
    <2> QED BY <1>5, <2>1
  <1> QED BY <1>6, <1>7

LEMMA GrowTwo ==
  ASSUME NEW g, NEW h, NEW U, NEW T, NEW S, NEW p, NEW side, NEW new, NEW k, Growing(g, h, U, T, S, p, side, new, k),
         NEW R, NEW Q, R = More(T, p, new), Q = More(S, p, new), NEW lev, Two(h, U, S, NoNode, lev), lev = 0 \/ h[lev].mid = p
  PROVE  Two(g, U \cup {new}, Q, NoNode, 0)
  <1>1. /\ GrowData(g, h, U, p, new, k) /\ new \notin U /\ p \in U /\ NoNode \notin (U \cup {new}) \cup {0}
        /\ \A o \in U \cup {0} : GrowMids(g, h, U, T, S, p, new, R, Q, o)
    BY GrowDataIs
  <1>2. p \in S[p]
    <2>1. GrowFacts(g, h, U, T, S, p, side, new, R, Q)
      BY GrowFactsAre
    <2> QED BY <1>1, <2>1 DEF GrowFacts, LooseFacts
  <1> SUFFICES ASSUME NEW x \in (U \cup {new}) \ {NoNode}, g[x].mid # 0, x # 0 PROVE \E v, w \in Q[g[x].mid] \ {NoNode} : v # w
    BY DEF Two
  <1>3. x # new /\ x \in U
    BY <1>1 DEF GrowData
  <1>4. g[x].mid = h[x].mid /\ Q[g[x].mid] = IF p \in S[h[x].mid] THEN S[h[x].mid] \cup {new} ELSE S[h[x].mid]
    BY <1>1, <1>3 DEF GrowMids
  <1>5. CASE x = lev
    <2>1. h[x].mid = p
      BY <1>5
    <2> QED BY <1>1, <1>2, <1>4, <2>1
  <1>6. CASE x # lev
    <2>1. \E v, w \in S[h[x].mid] \ {NoNode} : v # w
      BY <1>3, <1>4, <1>6 DEF Two
    <2> QED BY <1>4, <2>1
  <1> QED BY <1>5, <1>6

\* A leaf beside the node that was put in.
LEMMA LiftGrowing ==
  ASSUME NEW g, NEW h, NEW U, NEW T, NEW S, NEW p, NEW a, NEW i, NEW c, Lifting(g, h, U, T, S, p, a, i, c),
         NEW R, NEW Q, R = LiftT(T, h, p, a), Q = LiftS(S, a), NEW k, NEW side \in Around, Ahead(side, Byte(k, i), c),
         NEW new, new \in DOMAIN h, new \notin U \cup {a}, new # 0, NEW e, Grown(e, g, a, side, new, k)
  PROVE  Growing(e, g, U \cup {a}, R, Q, a, side, new, k)
  <1>2. LiftFacts(g, h, U, T, S, p, a, R, Q)
    BY LiftFactsAre
  <1>3. LiftSons(g, h, U, p, a)
    BY <1>2, LiftSonsAre
  <1>4. Shape(g, U \cup {a}, R, Q, NoNode)
    BY LiftShape
  <1>5. g[a][side] = 0 /\ g[a].index = i /\ g[a].cbyte = c /\ g[a].parent = 0 /\ DOMAIN g = DOMAIN h
    BY <1>3 DEF LiftSons, Lifting, Lifted
  <1>6. ASSUME NEW x \in U \cup {a}, NEW s \in Around, a \in Q[g[x][s]] PROVE FALSE
    <2>1. /\ p \in U /\ a \notin U /\ 0 \notin U /\ a # 0 /\ Q[0] = {}
          /\ \A y \in U \cup {0} : Q[y] = S[y] /\ S[y] \subseteq U
          /\ \A y \in U : \A q \in Around : g[y][q] = h[y][q] /\ h[y][q] \in U \cup {0}
      BY <1>2 DEF LiftFacts
    <2>2. CASE x = a
      <3>1. g[x][s] = 0
        BY <1>3, <2>2 DEF LiftSons
      <3> QED BY <1>6, <2>1, <3>1
    <2>3. CASE x # a
      <3>1. g[x][s] \in U \cup {0}
        BY <2>1, <2>3
      <3>2. Q[g[x][s]] \subseteq U
        BY <2>1, <3>1
      <3> QED BY <1>6, <2>1, <3>2
    <2> QED BY <2>2, <2>3
  <1>7. Fits(g, U \cup {a}, Q, a, side, Byte(k, g[a].index))
    BY <1>5, <1>6 DEF Fits
  <1> QED BY <1>4, <1>5, <1>7 DEF Growing

(***************************************************************************)
(* The pool gives a node.                                                  *)
(***************************************************************************)
State(h, idle, cost, B, o, bs, us) ==
  [h |-> h, idle |-> idle, block |-> B, off |-> o, cost |-> cost, blocks |-> bs, units |-> us]
\* Of the blocks so many are used up, and of the next so many nodes; none of one after the last.
Room(B, o, bs, us) ==
  /\ B \in Nat /\ o \in Nat /\ bs \in Nat /\ us \in Nat /\ us > 0
  /\ B <= bs /\ o <= us /\ (B = bs => o = 0)

LEMMA Products ==
  ASSUME NEW a \in Nat, NEW b \in Nat, NEW c \in Nat
  PROVE  (a + 1) * c = a * c + c /\ a * c \in Nat /\ (a <= b => a * c <= b * c)
  <1>1. (a + 1) * c = a * c + c /\ a * c \in Nat
    BY SMT
  <1>2. ASSUME a <= b PROVE a * c <= b * c
    <2>1. PICK d \in Nat : b = a + d
      <3>1. b - a \in Nat /\ b = a + (b - a)
        BY <1>2
      <3> QED BY <3>1
    <2>2. b * c = a * c + d * c /\ d * c \in Nat
      BY <2>1, SMT
    <2> QED BY <1>1, <2>2
  <1> QED BY <1>1, <1>2

FreshTo(t, r, h, idle, cost, B1, o1, bs, us, m) ==
  /\ Room(B1, o1, bs, us)
  /\ \/ r = [t |-> State(h, idle, cost, B1, o1, bs, us), unit |-> 0] /\ B1 = bs
     \/ r = [t |-> State(h, idle, cost, B1, o1, bs, us), unit |-> m + 1] /\ B1 * us + o1 = m + 1 /\ m + 1 <= bs * us
LEMMA FreshIs ==
  ASSUME NEW h, NEW idle, NEW cost, NEW B, NEW o, NEW bs, NEW us, Room(B, o, bs, us),
         NEW t, t = State(h, idle, cost, B, o, bs, us), NEW m, m = B * us + o
  PROVE  \E B1, o1 : FreshTo(t, Fresh(t), h, idle, cost, B1, o1, bs, us, m)
  <1>1. /\ B \in Nat /\ o \in Nat /\ bs \in Nat /\ us \in Nat /\ us > 0
        /\ B <= bs /\ o <= us /\ (B = bs => o = 0)
    BY DEF Room
  <1>2. t.block = B /\ t.off = o /\ t.blocks = bs /\ t.units = us
    BY DEF State
  <1>3. m \in Nat /\ (B + 1) * us = B * us + us /\ B * us \in Nat /\ bs * us \in Nat /\ (B + 1 <= bs => (B + 1) * us <= bs * us)
    <2>1. B + 1 \in Nat
      BY <1>1
    <2>2. (B + 1) * us = B * us + us /\ B * us \in Nat
      BY <1>1, Products
    <2>3. bs * us \in Nat
      BY <1>1, Products
    <2>4. B + 1 <= bs => (B + 1) * us <= bs * us
      BY <1>1, <2>1, Products
    <2> QED BY <1>1, <2>2, <2>3, <2>4
  <1>4. CASE B >= bs
    <2>1. Fresh(t) = [t |-> t, unit |-> 0]
      BY <1>2, <1>4 DEF Fresh
    <2>2. B = bs
      BY <1>1, <1>4
    <2> QED BY <2>1, <2>2 DEF FreshTo
  <1>5. CASE ~(B >= bs) /\ o < us
    <2>1. PICK x : x = [t EXCEPT !.off = @ + 1]
      OBVIOUS
    <2>2. Fresh(t) = [t |-> x, unit |-> B * us + o + 1]
      BY <1>2, <1>5, <2>1 DEF Fresh
    <2>3. x = State(h, idle, cost, B, o + 1, bs, us)
      BY <2>1 DEF State
    <2>4. B * us + (o + 1) = m + 1 /\ B * us + o + 1 = m + 1
      BY <1>1, <1>3
    <2>5. m + 1 <= bs * us
      BY <1>1, <1>3, <1>5
    <2>6. Room(B, o + 1, bs, us)
      BY <1>1, <1>5 DEF Room
    <2> QED BY <2>2, <2>3, <2>4, <2>5, <2>6 DEF FreshTo
  <1>6. CASE ~(B >= bs) /\ ~(o < us) /\ B + 1 >= bs
    <2>1. PICK x : x = [t EXCEPT !.block = @ + 1, !.off = 0]
      OBVIOUS
    <2>2. Fresh(t) = [t |-> x, unit |-> 0]
      BY <1>2, <1>6, <2>1 DEF Fresh
    <2>3. x = State(h, idle, cost, B + 1, 0, bs, us)
      BY <2>1 DEF State
    <2>4. B + 1 = bs
      BY <1>1, <1>6
    <2>5. Room(B + 1, 0, bs, us)
      BY <1>1, <2>4 DEF Room
    <2> QED BY <2>2, <2>3, <2>4, <2>5 DEF FreshTo
  <1>7. CASE ~(B >= bs) /\ ~(o < us) /\ ~(B + 1 >= bs)
    <2>1. PICK x : x = [t EXCEPT !.block = @ + 1, !.off = 1]
      OBVIOUS
    <2>2. Fresh(t) = [t |-> x, unit |-> (B + 1) * us + 1]
      BY <1>2, <1>7, <2>1 DEF Fresh
    <2>3. x = State(h, idle, cost, B + 1, 1, bs, us)
      BY <2>1 DEF State
    <2>4. o = us /\ (B + 1) * us + 1 = m + 1
      BY <1>1, <1>3, <1>7
    <2>5. m + 1 <= bs * us
      <3>1. B + 1 + 1 <= bs /\ B + 1 \in Nat /\ B + 1 + 1 \in Nat
        BY <1>1, <1>7
      <3>2. (B + 1 + 1) * us = (B + 1) * us + us
        BY <1>1, <3>1, Products
      <3>3. (B + 1 + 1) * us <= bs * us
        BY <1>1, <3>1, Products
      <3> QED BY <1>1, <1>3, <2>4, <3>2, <3>3
    <2>6. Room(B + 1, 1, bs, us)
      BY <1>1, <1>7 DEF Room
    <2> QED BY <2>2, <2>3, <2>4, <2>5, <2>6 DEF FreshTo
  <1> QED BY <1>4, <1>5, <1>6, <1>7

LEMMA PoolDraw ==
  ASSUME NEW cost, NEW U, NEW m, Pool(<<>>, cost, U, m)
  PROVE  Pool(<<>>, cost + 1, U \cup {m + 1}, m + 1) /\ m + 1 \notin U
  <1>1. /\ m \in Nat /\ IsFiniteSet(U) /\ cost = Cardinality(U)
        /\ U \cup IdleIn(<<>>) = 1 .. m /\ IdleIn(<<>>) = {}
    BY DEF Pool, IdleIn
  <1>2. U = 1 .. m
    <2>1. U \cup IdleIn(<<>>) = 1 .. m
      BY <1>1
    <2>2. IdleIn(<<>>) = {}
      BY <1>1
    <2> QED BY <2>1, <2>2
  <1>5. m + 1 \notin U
    <2>1. m + 1 \notin 1 .. m
      BY <1>1
    <2> QED BY <1>2, <2>1
  <1>3. IsFiniteSet(U \cup {m + 1}) /\ Cardinality(U \cup {m + 1}) = cost + 1
    BY <1>1, <1>5, FS_AddElement
  <1>4. U \cup {m + 1} = 1 .. m + 1
    BY <1>1, <1>2
  <1> QED BY <1>1, <1>2, <1>3, <1>4, <1>5 DEF Pool

LEMMA PoolTake ==
  ASSUME NEW idle, NEW cost, NEW U, NEW m, Pool(idle, cost, U, m), idle # <<>>, NEW n, n = Head(idle), NEW rest, rest = Tail(idle)
  PROVE  Pool(rest, cost + 1, U \cup {n}, m) /\ n \notin U /\ n \in 1 .. m
  <1>1. /\ m \in Nat /\ idle \in Seq(1 .. m) /\ IsFiniteSet(U) /\ cost = Cardinality(U)
        /\ U \cap IdleIn(idle) = {} /\ U \cup IdleIn(idle) = 1 .. m
        /\ \A i, j \in DOMAIN idle : idle[i] = idle[j] => i = j
    BY DEF Pool
  <1>2. n \in 1 .. m /\ rest \in Seq(1 .. m) /\ Len(idle) \in Nat /\ Len(idle) > 0 /\ Len(rest) = Len(idle) - 1
        /\ DOMAIN idle = 1 .. Len(idle) /\ DOMAIN rest = 1 .. Len(rest) /\ n = idle[1]
    BY <1>1
  <1>3. \A i \in 1 .. Len(rest) : rest[i] = idle[i + 1] /\ i + 1 \in 1 .. Len(idle)
    BY <1>1, <1>2
  <1>4. 1 \in DOMAIN idle
    BY <1>2
  <1>5. n \in IdleIn(idle)
    BY <1>2, <1>4 DEF IdleIn
  <1>6. n \notin U
    BY <1>1, <1>5
  <1>7. \A i \in DOMAIN idle : i = 1 \/ \E j \in DOMAIN rest : i = j + 1
    <2> TAKE i \in DOMAIN idle
    <2>1. i \in 1 .. Len(idle) /\ Len(idle) \in Nat /\ Len(rest) = Len(idle) - 1 /\ DOMAIN rest = 1 .. Len(rest)
      BY <1>2
    <2>2. CASE i # 1
      <3>1. i - 1 \in 1 .. Len(rest) /\ i = (i - 1) + 1
        BY <2>1, <2>2
      <3> QED BY <2>1, <3>1
    <2> QED BY <2>2
  <1>8. \A x \in IdleIn(rest) : x \in IdleIn(idle) /\ x # n
    <2> SUFFICES ASSUME NEW j \in DOMAIN rest PROVE rest[j] \in IdleIn(idle) /\ rest[j] # n
      BY DEF IdleIn
    <2>1. rest[j] = idle[j + 1] /\ j + 1 \in DOMAIN idle /\ j + 1 # 1
      BY <1>2, <1>3
    <2> QED BY <1>1, <1>2, <1>4, <2>1 DEF IdleIn
  <1>9. \A x \in IdleIn(idle) : x = n \/ x \in IdleIn(rest)
    <2> SUFFICES ASSUME NEW i \in DOMAIN idle PROVE idle[i] = n \/ idle[i] \in IdleIn(rest)
      BY DEF IdleIn
    <2>1. i = 1 \/ \E j \in DOMAIN rest : i = j + 1
      BY <1>7
    <2>2. CASE i = 1
      BY <1>2, <2>2
    <2>3. CASE i # 1
      <3>1. PICK j \in DOMAIN rest : i = j + 1
        BY <2>1, <2>3
      <3> QED BY <1>2, <1>3, <3>1 DEF IdleIn
    <2> QED BY <2>2, <2>3
  <1>10. \A i, j \in DOMAIN rest : rest[i] = rest[j] => i = j
    <2> SUFFICES ASSUME NEW i \in DOMAIN rest, NEW j \in DOMAIN rest, rest[i] = rest[j] PROVE i = j
      OBVIOUS
    <2>1. rest[i] = idle[i + 1] /\ i + 1 \in DOMAIN idle /\ rest[j] = idle[j + 1] /\ j + 1 \in DOMAIN idle /\ i \in Int /\ j \in Int
      BY <1>2, <1>3
    <2>2. i + 1 = j + 1
      BY <1>1, <2>1
    <2> QED BY <2>1, <2>2
  <1>11. (U \cup {n}) \cap IdleIn(rest) = {} /\ (U \cup {n}) \cup IdleIn(rest) = 1 .. m
    <2>1. U \cap IdleIn(idle) = {} /\ U \cup IdleIn(idle) = 1 .. m
      BY <1>1
    <2>2. IdleIn(idle) = {n} \cup IdleIn(rest) /\ n \notin IdleIn(rest)
      BY <1>5, <1>8, <1>9
    <2> QED BY <2>1, <2>2
  <1>12. IsFiniteSet(U \cup {n}) /\ Cardinality(U \cup {n}) = cost + 1
    BY <1>1, <1>6, FS_AddElement
  <1> QED BY <1>1, <1>2, <1>6, <1>10, <1>11, <1>12 DEF Pool

\* What alloc comes to: there is no node any more, or there is one more in use.
AllocTo(r, h, idle, i1, cost, c1, B1, o1, bs, us, u, U) ==
  /\ Room(B1, o1, bs, us) /\ r = [t |-> State(h, i1, c1, B1, o1, bs, us), unit |-> u]
  /\ u = 0 => idle = <<>> /\ i1 = <<>> /\ B1 = bs /\ c1 = cost
  /\ u # 0 => u \in 0 .. bs * us /\ u \notin U /\ Pool(i1, c1, U \cup {u}, B1 * us + o1)
LEMMA AllocIs ==
  ASSUME NEW h, NEW idle, NEW cost, NEW B, NEW o, NEW bs, NEW us, Room(B, o, bs, us),
         NEW t, t = State(h, idle, cost, B, o, bs, us), NEW m, m = B * us + o, NEW U, Pool(idle, cost, U, m)
  PROVE  \E i1, c1, B1, o1, u : AllocTo(Alloc(t), h, idle, i1, cost, c1, B1, o1, bs, us, u, U)
  <1>1. t.idle = idle /\ t.cost = cost
    BY DEF State
  <1>2. B \in Nat /\ o \in Nat /\ bs \in Nat /\ us \in Nat /\ B <= bs /\ o <= us /\ m \in Nat /\ B * us \in Nat /\ bs * us \in Nat /\ m <= bs * us
    <2>1. B \in Nat /\ o \in Nat /\ bs \in Nat /\ us \in Nat /\ B <= bs /\ o <= us /\ (B = bs => o = 0)
      BY DEF Room
    <2>2. B * us \in Nat /\ bs * us \in Nat /\ B * us <= bs * us /\ (B + 1) * us = B * us + us
      BY <2>1, Products
    <2>3. CASE B = bs
      BY <2>1, <2>2, <2>3
    <2>4. CASE B # bs
      <3>1. B + 1 <= bs /\ B + 1 \in Nat
        BY <2>1, <2>4
      <3>2. (B + 1) * us <= bs * us
        BY <2>1, <3>1, Products
      <3> QED BY <2>1, <2>2, <3>2
    <2> QED BY <2>3, <2>4
  <1>3. CASE idle # <<>>
    <2>1. PICK n, rest : n = Head(idle) /\ rest = Tail(idle)
      OBVIOUS
    <2>2. Pool(rest, cost + 1, U \cup {n}, m) /\ n \notin U /\ n \in 1 .. m
      BY <1>3, <2>1, PoolTake
    <2>3. PICK x : x = [t EXCEPT !.idle = Tail(@), !.cost = @ + 1]
      OBVIOUS
    <2>4. x = State(h, rest, cost + 1, B, o, bs, us)
      BY <2>1, <2>3 DEF State
    <2>5. Alloc(t) = [t |-> x, unit |-> n]
      BY <1>1, <1>3, <2>1, <2>3 DEF Alloc
    <2>6. n # 0 /\ n \in 0 .. bs * us
      BY <1>2, <2>2
    <2>7. AllocTo(Alloc(t), h, idle, rest, cost, cost + 1, B, o, bs, us, n, U)
      BY <2>2, <2>4, <2>5, <2>6 DEF AllocTo
    <2> QED BY <2>7
  <1>4. CASE idle = <<>>
    <2>1. PICK B1, o1 : FreshTo(t, Fresh(t), h, idle, cost, B1, o1, bs, us, m)
      BY FreshIs
    <2>2. PICK f : f = Fresh(t)
      OBVIOUS
    <2>3. Alloc(t) = IF f.unit # 0 THEN [f EXCEPT !.t.cost = @ + 1] ELSE f
      BY <1>1, <1>4, <2>2 DEF Alloc
    <2>4. PICK x : x = State(h, idle, cost, B1, o1, bs, us)
      OBVIOUS
    <2>5. CASE f = [t |-> x, unit |-> 0] /\ B1 = bs
      <3>1. Alloc(t) = [t |-> x, unit |-> 0]
        BY <2>3, <2>5
      <3>2. AllocTo(Alloc(t), h, idle, idle, cost, cost, B1, o1, bs, us, 0, U)
        BY <1>4, <2>1, <2>4, <2>5, <3>1 DEF AllocTo, FreshTo
      <3> QED BY <3>2
    <2>6. CASE f = [t |-> x, unit |-> m + 1] /\ B1 * us + o1 = m + 1 /\ m + 1 <= bs * us
      <3>1. f.unit = m + 1 /\ f.t = x /\ m + 1 # 0 /\ m + 1 \in 0 .. bs * us
        BY <1>2, <2>6
      <3>2. PICK y : y = [x EXCEPT !.cost = @ + 1]
        OBVIOUS
      <3>3. y = State(h, idle, cost + 1, B1, o1, bs, us)
        BY <2>4, <3>2 DEF State
      <3>4. [f EXCEPT !.t.cost = @ + 1] = [t |-> y, unit |-> m + 1]
        BY <2>6, <3>2
      <3>5. Alloc(t) = [t |-> y, unit |-> m + 1]
        BY <2>3, <3>1, <3>4
      <3>6. Pool(<<>>, cost + 1, U \cup {m + 1}, m + 1) /\ m + 1 \notin U
        BY <1>4, PoolDraw
      <3>7. AllocTo(Alloc(t), h, idle, idle, cost, cost + 1, B1, o1, bs, us, m + 1, U)
        BY <1>4, <2>1, <2>6, <3>1, <3>3, <3>5, <3>6 DEF AllocTo, FreshTo
      <3> QED BY <3>7
    <2> QED BY <2>1, <2>2, <2>4, <2>5, <2>6 DEF FreshTo
  <1> QED BY <1>3, <1>4

\* Once there was none there is none.
LEMMA AllocNone ==
  ASSUME NEW h, NEW cost, NEW o, NEW bs, NEW us, Room(bs, o, bs, us), NEW t, t = State(h, <<>>, cost, bs, o, bs, us)
  PROVE  Alloc(t) = [t |-> t, unit |-> 0]
  <1>1. t.idle = <<>> /\ t.block = bs /\ t.blocks = bs /\ bs \in Nat
    BY DEF State, Room
  <1>2. Fresh(t) = [t |-> t, unit |-> 0]
    BY <1>1 DEF Fresh
  <1>3. Fresh(t).unit = 0
    BY <1>2
  <1>4. Alloc(t) = IF Fresh(t).unit # 0 THEN [Fresh(t) EXCEPT !.t.cost = @ + 1] ELSE Fresh(t)
    BY <1>1 DEF Alloc
  <1> QED BY <1>2, <1>3, <1>4

LEMMA ByteIn ==
  ASSUME NEW k \in Seq(Int), NEW i \in Int
  PROVE  Byte(k, i) \in Int
  <1>1. CASE 0 <= i /\ i < Len(k)
    <2>1. i + 1 \in DOMAIN k
      BY <1>1
    <2>2. k[i + 1] \in Int
      BY <2>1
    <2> QED BY <1>1, <2>2 DEF Byte
  <1>2. CASE ~(0 <= i /\ i < Len(k))
    BY <1>2 DEF Byte
  <1> QED BY <1>1, <1>2

(***************************************************************************)
(* What AddSon and AddLevel do to the nodes.                               *)
(***************************************************************************)
Planted(g, h, p, side, new, index, k) ==
  /\ IsHeap(g) /\ DOMAIN g = DOMAIN h
  /\ g[new].index = index /\ g[new].cbyte = Byte(k, index) /\ g[new].item = k /\ g[new].color = RED /\ g[new].parent = p
  /\ \A s \in Sides : g[new][s] = 0
  /\ \A y \in DOMAIN h \ {new} :
       /\ SameData(g, h, y) /\ g[y].color = h[y].color /\ g[y].parent = h[y].parent
       /\ \A s \in Sides : g[y][s] = IF y = p /\ s = side THEN new ELSE h[y][s]
NewLeaf(index, k, p) ==
  [Null EXCEPT !.index = index, !.cbyte = Byte(k, index), !.parent = p, !.color = RED, !.item = k]
LEMMA NewLeafIs ==
  ASSUME NEW index, NEW k, NEW p
  PROVE  NewLeaf(index, k, p) = [cbyte |-> Byte(k, index), index |-> index, color |-> RED, item |-> k,
                                 left |-> 0, mid |-> 0, right |-> 0, parent |-> p]
  <1>1. PICK x, n : x = Byte(k, index) /\ n = NoKey
    OBVIOUS
  <1>2. Null = [cbyte |-> 0, index |-> 0, color |-> BLACK, item |-> n, left |-> 0, mid |-> 0, right |-> 0, parent |-> 0]
    BY <1>1 DEF Null
  <1>3. PICK m : m = Null
    OBVIOUS
  <1>4. m = [cbyte |-> 0, index |-> 0, color |-> BLACK, item |-> n, left |-> 0, mid |-> 0, right |-> 0, parent |-> 0]
    BY <1>2, <1>3
  <1>5. [m EXCEPT !.index = index, !.cbyte = x, !.parent = p, !.color = RED, !.item = k] =
        [cbyte |-> x, index |-> index, color |-> RED, item |-> k, left |-> 0, mid |-> 0, right |-> 0, parent |-> p]
    <2>1. PICK r : r = [m EXCEPT !.index = index, !.cbyte = x, !.parent = p, !.color = RED, !.item = k]
      OBVIOUS
    <2>2. r.index = index /\ r.cbyte = x /\ r.parent = p /\ r.color = RED /\ r.item = k
      BY <1>4, <2>1
    <2>3. r.left = 0 /\ r.mid = 0 /\ r.right = 0
      BY <1>4, <2>1
    <2>4. r = [cbyte |-> r.cbyte, index |-> r.index, color |-> r.color, item |-> r.item,
               left |-> r.left, mid |-> r.mid, right |-> r.right, parent |-> r.parent]
      BY <1>4, <2>1
    <2> QED BY <2>1, <2>2, <2>3, <2>4
  <1> QED BY <1>1, <1>3, <1>5 DEF NewLeaf

LEMMA PlantedIs ==
  ASSUME NEW h, IsHeap(h), NEW p \in DOMAIN h, NEW side \in Sides, NEW u \in DOMAIN h, NEW index \in Int, NEW k \in Seq(Int),
         NEW f, f = SetSon(h, p, side, u), NEW g, g = [f EXCEPT ![u] = NewLeaf(index, k, p)]
  PROVE  Planted(g, h, p, side, u, index, k)
  <1>1. SonSet(f, h, p, side, u)
    BY SetSonIs
  <1>2. IsHeap(f) /\ DOMAIN f = DOMAIN h
    BY <1>1 DEF SonSet
  <1>3. PICK new : new = NewLeaf(index, k, p)
    OBVIOUS
  <1>4. new = [cbyte |-> Byte(k, index), index |-> index, color |-> RED, item |-> k,
               left |-> 0, mid |-> 0, right |-> 0, parent |-> p]
    BY <1>3, NewLeafIs
  <1>5. Byte(k, index) \in Int
    BY ByteIn
  <1>6. DOMAIN g = DOMAIN h /\ g[u] = new /\ \A y \in DOMAIN h : y # u => g[y] = f[y]
    BY <1>2, <1>3
  <1>7. IsHeap(g)
    <2>1. PICK I : /\ I = Seq(Int)
                   /\ IsHeap(f) => f \in HeapOver(DOMAIN f, I) /\ 0 \in DOMAIN f
                   /\ g \in HeapOver(DOMAIN f, I) /\ 0 \in DOMAIN f => IsHeap(g) /\ DOMAIN g = DOMAIN f
      BY HeapIsOver
    <2>2. k \in I
      BY <2>1
    <2>3. f \in HeapOver(DOMAIN f, I) /\ 0 \in DOMAIN f
      BY <1>2, <2>1
    <2>4. PICK N : N = DOMAIN f
      OBVIOUS
    <2>5. 0 \in N /\ p \in N /\ u \in N
      BY <1>2, <2>3, <2>4
    <2>6. new \in [cbyte : Int, index : Int, color : {BLACK, RED}, item : I, left : N, mid : N, right : N, parent : N]
      BY <1>4, <1>5, <2>2, <2>5
    <2>7. PICK X : X = [cbyte : Int, index : Int, color : {BLACK, RED}, item : I, left : N, mid : N, right : N, parent : N]
      OBVIOUS
    <2>8. f \in [N -> X] /\ new \in X
      BY <2>3, <2>4, <2>6, <2>7 DEF HeapOver
    <2>9. g \in [N -> X]
      BY <1>3, <2>8
    <2>10. g \in HeapOver(DOMAIN f, I)
      BY <2>4, <2>7, <2>9 DEF HeapOver
    <2> QED BY <2>1, <2>3, <2>10
  <1>8. /\ g[u].index = index /\ g[u].cbyte = Byte(k, index) /\ g[u].item = k /\ g[u].color = RED /\ g[u].parent = p
        /\ \A s \in Sides : g[u][s] = 0
    BY <1>4, <1>6 DEF Sides
  <1>9. \A y \in DOMAIN h \ {u} :
       /\ SameData(g, h, y) /\ g[y].color = h[y].color /\ g[y].parent = h[y].parent
       /\ \A s \in Sides : g[y][s] = IF y = p /\ s = side THEN u ELSE h[y][s]
    <2> TAKE y \in DOMAIN h \ {u}
    <2>1. g[y] = f[y] /\ y \in DOMAIN h
      BY <1>6
    <2>2. SameData(f, h, y) /\ f[y].color = h[y].color /\ f[y].parent = h[y].parent
      BY <1>1, <2>1 DEF SonSet
    <2>3. \A s \in Sides : f[y][s] = IF y = p /\ s = side THEN u ELSE h[y][s]
      BY <1>1, <2>1 DEF SonSet
    <2>4. SameData(g, h, y)
      BY <2>1, <2>2 DEF SameData
    <2> QED BY <2>1, <2>2, <2>3, <2>4
  <1> QED BY <1>6, <1>7, <1>8, <1>9 DEF Planted

\* A node that is put between p and what is under it.
NewNode(i, c, mid, item) == [Null EXCEPT !.index = i, !.cbyte = c, !.mid = mid, !.item = item]
LEMMA NewNodeIs ==
  ASSUME NEW i, NEW c, NEW mid, NEW item
  PROVE  NewNode(i, c, mid, item) = [cbyte |-> c, index |-> i, color |-> BLACK, item |-> item,
                                     left |-> 0, mid |-> mid, right |-> 0, parent |-> 0]
  <1>1. PICK n : n = NoKey
    OBVIOUS
  <1>2. Null = [cbyte |-> 0, index |-> 0, color |-> BLACK, item |-> n, left |-> 0, mid |-> 0, right |-> 0, parent |-> 0]
    BY <1>1 DEF Null
  <1>3. PICK m : m = Null
    OBVIOUS
  <1>4. m = [cbyte |-> 0, index |-> 0, color |-> BLACK, item |-> n, left |-> 0, mid |-> 0, right |-> 0, parent |-> 0]
    BY <1>2, <1>3
  <1>5. [m EXCEPT !.index = i, !.cbyte = c, !.mid = mid, !.item = item] =
        [cbyte |-> c, index |-> i, color |-> BLACK, item |-> item, left |-> 0, mid |-> mid, right |-> 0, parent |-> 0]
    <2>1. PICK r : r = [m EXCEPT !.index = i, !.cbyte = c, !.mid = mid, !.item = item]
      OBVIOUS
    <2>2. r.index = i /\ r.cbyte = c /\ r.mid = mid /\ r.item = item
      BY <1>4, <2>1
    <2>3. r.left = 0 /\ r.right = 0 /\ r.parent = 0 /\ r.color = BLACK
      BY <1>4, <2>1
    <2>4. r = [cbyte |-> r.cbyte, index |-> r.index, color |-> r.color, item |-> r.item,
               left |-> r.left, mid |-> r.mid, right |-> r.right, parent |-> r.parent]
      BY <1>4, <2>1
    <2> QED BY <2>1, <2>2, <2>3, <2>4
  <1> QED BY <1>3, <1>5 DEF NewNode

LEMMA LiftedIs ==
  ASSUME NEW h, IsHeap(h), NEW p \in DOMAIN h, NEW a \in DOMAIN h, a # p, NEW i \in Int, NEW c \in Int,
         NEW w, w = NewNode(i, c, h[p].mid, h[p].item),
         NEW g, g = [h EXCEPT ![p].mid = a, ![a] = w, ![p].item = NoKey]
  PROVE  Lifted(g, h, p, a, i, c)
  <1>1. w = [cbyte |-> c, index |-> i, color |-> BLACK, item |-> h[p].item,
             left |-> 0, mid |-> h[p].mid, right |-> 0, parent |-> 0]
    BY NewNodeIs
  <1>2. PICK N, I : /\ I = Seq(Int) /\ N = DOMAIN h
                    /\ IsHeap(h) => h \in HeapOver(N, I) /\ 0 \in N
                    /\ g \in HeapOver(N, I) /\ 0 \in N => IsHeap(g) /\ DOMAIN g = N
    BY Zenon, HeapIsOver
  <1>3. NoKey \in I
    <2>1. <<>> \in Seq(Int)
      OBVIOUS
    <2> QED BY Zenon, <1>2, <2>1 DEF NoKey
  <1>4. h \in HeapOver(N, I) /\ 0 \in N
    BY Zenon, <1>2
  <1> HIDE DEF NoKey
  <1>5. PICK X : X = [cbyte : Int, index : Int, color : {BLACK, RED}, item : I, left : N, mid : N, right : N, parent : N]
    OBVIOUS
  <1>6. h \in [N -> X] /\ p \in N /\ a \in N
    BY Zenon, <1>2, <1>4, <1>5 DEF HeapOver
  <1>7. h[p] \in X
    BY <1>6
  <1>8. PICK v : v = [h[p] EXCEPT !.mid = a, !.item = NoKey]
    OBVIOUS
  <1>9. v = [cbyte |-> h[p].cbyte, index |-> h[p].index, color |-> h[p].color, item |-> NoKey,
             left |-> h[p].left, mid |-> a, right |-> h[p].right, parent |-> h[p].parent]
    BY <1>5, <1>7, <1>8
  <1>10. v \in X
    BY <1>3, <1>5, <1>6, <1>7, <1>9
  <1>11. w \in X
    BY <1>1, <1>4, <1>5, <1>7
  <1>12. g = [h EXCEPT ![p] = v, ![a] = w]
    <2>1. PICK f : f = [h EXCEPT ![p].mid = a]
      OBVIOUS
    <2>2. PICK e : e = [f EXCEPT ![a] = w]
      OBVIOUS
    <2>3. g = [e EXCEPT ![p].item = NoKey]
      BY <2>1, <2>2
    <2>4. DOMAIN f = N /\ f[p] = [h[p] EXCEPT !.mid = a] /\ \A y \in N : y # p => f[y] = h[y]
      BY <1>6, <2>1
    <2>5. DOMAIN e = N /\ e[p] = f[p] /\ e[a] = w /\ \A y \in N : y # a => e[y] = f[y]
      BY <1>6, <2>2, <2>4
    <2>6. DOMAIN g = N /\ g[p] = [e[p] EXCEPT !.item = NoKey] /\ \A y \in N : y # p => g[y] = e[y]
      BY <1>6, <2>3, <2>5
    <2>7. v = [[h[p] EXCEPT !.mid = a] EXCEPT !.item = NoKey]
      BY <1>8
    <2>8. g[p] = v
      BY <2>4, <2>5, <2>6, <2>7
    <2>9. g[a] = w /\ \A y \in N : y \notin {a, p} => g[y] = h[y]
      BY <1>6, <2>4, <2>5, <2>6
    <2>10. g = [y \in N |-> g[y]]
      BY Zenon, <2>3, <2>6
    <2>11. PICK q : q = [h EXCEPT ![p] = v, ![a] = w]
      OBVIOUS
    <2>12. q = [y \in N |-> q[y]] /\ q[a] = w /\ q[p] = v /\ \A y \in N : y \notin {a, p} => q[y] = h[y]
      BY <1>6, <2>11
    <2>13. \A y \in N : q[y] = g[y]
      BY <2>8, <2>9, <2>12
    <2>14. q = g
      BY Zenon, <2>10, <2>12, <2>13
    <2> QED BY Zenon, <2>11, <2>14
  <1>13. DOMAIN g = N /\ g[p] = v /\ g[a] = w /\ \A y \in N : y \notin {a, p} => g[y] = h[y]
    BY <1>6, <1>12
  <1>14. IsHeap(g) /\ DOMAIN g = DOMAIN h
    <2>1. g \in [N -> X]
      BY <1>6, <1>10, <1>11, <1>12
    <2>2. g \in HeapOver(N, I)
      BY <1>5, <2>1 DEF HeapOver
    <2> QED BY Zenon, <1>2, <1>4, <2>2
  <1>15. /\ g[a].index = i /\ g[a].cbyte = c /\ g[a].item = h[p].item /\ g[a].color = BLACK /\ g[a].parent = 0
         /\ g[a]["left"] = 0 /\ g[a].mid = h[p].mid /\ g[a]["right"] = 0
    BY <1>1, <1>13
  <1>16. \A y \in DOMAIN h \ {a} :
       /\ g[y].cbyte = h[y].cbyte /\ g[y].index = h[y].index /\ g[y].item = (IF y = p THEN NoKey ELSE h[y].item)
       /\ g[y].color = h[y].color /\ g[y].parent = h[y].parent
       /\ \A s \in Sides : g[y][s] = IF y = p /\ s = "mid" THEN a ELSE h[y][s]
    <2> TAKE y \in DOMAIN h \ {a}
    <2>1. CASE y = p
      <3>1. g[y] = v
        BY <1>13, <2>1
      <3>2. g[y].left = h[y].left /\ g[y].mid = a /\ g[y].right = h[y].right
        BY <1>9, <2>1, <3>1
      <3>3. \A s \in Sides : g[y][s] = IF y = p /\ s = "mid" THEN a ELSE h[y][s]
        BY <2>1, <3>2 DEF Sides
      <3> QED BY <1>9, <2>1, <3>1, <3>3
    <2>2. CASE y # p
      <3>1. g[y] = h[y]
        BY Zenon, <1>2, <1>13, <2>2
      <3> QED BY <2>2, <3>1
    <2> QED BY <2>1, <2>2
  <1> QED BY Zenon, <1>14, <1>15, <1>16 DEF Lifted

LEMMA StateSet ==
  ASSUME NEW h, NEW idle, NEW cost, NEW B, NEW o, NEW bs, NEW us, NEW g, NEW t, t = State(h, idle, cost, B, o, bs, us)
  PROVE  [t EXCEPT !.h = g] = State(g, idle, cost, B, o, bs, us) /\ t.h = h
  BY DEF State

\* AddSon, when there is no node and when there is one.
LEMMA AddSonFails ==
  ASSUME NEW h, NEW idle, NEW cost, NEW B, NEW o, NEW bs, NEW us, NEW t, Alloc(t) = [t |-> State(h, idle, cost, B, o, bs, us), unit |-> 0],
         NEW p, NEW side, NEW index, NEW k
  PROVE  AddSon(t, p, side, index, k) = [ret |-> 1, t |-> State(SetSon(h, p, side, 0), idle, cost, B, o, bs, us), unit |-> 0]
  <1>1. PICK a, x : a = Alloc(t) /\ x = State(h, idle, cost, B, o, bs, us)
    OBVIOUS
  <1>2. a = [t |-> x, unit |-> 0]
    BY <1>1
  <1>3. a.unit = 0 /\ a.t = x
    BY <1>2
  <1>4. AddSon(t, p, side, index, k) = [ret |-> 1, t |-> [a.t EXCEPT !.h[p][side] = 0], unit |-> 0]
    BY <1>1, <1>3 DEF AddSon
  <1>5. x.h = h
    BY <1>1, StateSet
  <1>6. PICK g : g = SetSon(h, p, side, 0)
    OBVIOUS
  <1>7. [x EXCEPT !.h[p][side] = 0] = [x EXCEPT !.h = g]
    BY <1>5, <1>6 DEF SetSon
  <1>8. [x EXCEPT !.h = g] = State(g, idle, cost, B, o, bs, us)
    BY <1>1, StateSet
  <1> QED BY <1>3, <1>4, <1>6, <1>7, <1>8

Plants(g, h, p, side, u, index, k) == g = [SetSon(h, p, side, u) EXCEPT ![u] = NewLeaf(index, k, p)]

LEMMA AddSonWorks ==
  ASSUME NEW h, NEW idle, NEW cost, NEW B, NEW o, NEW bs, NEW us, NEW u, NEW t, Alloc(t) = [t |-> State(h, idle, cost, B, o, bs, us), unit |-> u], u # 0,
         NEW p, NEW side, NEW index, NEW k, NEW g, Plants(g, h, p, side, u, index, k)
  PROVE  AddSon(t, p, side, index, k) = [ret |-> 0, t |-> State(g, idle, cost, B, o, bs, us), unit |-> u]
  <1>1. PICK a, x, new : a = Alloc(t) /\ x = State(h, idle, cost, B, o, bs, us) /\ new = NewLeaf(index, k, p)
    OBVIOUS
  <1>0. PICK f : f = SetSon(h, p, side, u)
    OBVIOUS
  <1>13. g = [f EXCEPT ![u] = new]
    BY <1>0, <1>1 DEF Plants
  <1>2. a = [t |-> x, unit |-> u]
    BY <1>1
  <1>3. a.unit = u /\ a.t = x
    BY <1>2
  <1>4. AddSon(t, p, side, index, k) = [ret |-> 0, t |-> [a.t EXCEPT !.h[p][side] = a.unit, !.h[a.unit] = NewLeaf(index, k, p)], unit |-> a.unit]
    BY <1>1, <1>3 DEF AddSon, NewLeaf
  <1>5. x.h = h
    BY <1>1, StateSet
  <1>6. PICK y : y = [x EXCEPT !.h = f]
    OBVIOUS
  <1>7. [x EXCEPT !.h[p][side] = u] = y
    BY <1>0, <1>5, <1>6 DEF SetSon
  <1>8. y = State(f, idle, cost, B, o, bs, us)
    BY <1>1, <1>6, StateSet
  <1>9. y.h = f
    BY <1>8 DEF State
  <1>10. [y EXCEPT !.h[u] = new] = [y EXCEPT !.h = g]
    BY <1>9, <1>13
  <1>11. [y EXCEPT !.h = g] = State(g, idle, cost, B, o, bs, us)
    BY <1>8 DEF State
  <1>12. [x EXCEPT !.h[p][side] = u, !.h[u] = new] = [y EXCEPT !.h[u] = new]
    BY <1>7
  <1> QED BY <1>1, <1>3, <1>4, <1>10, <1>11, <1>12

\* The same of AddLevel.
LEMMA AddLevelFails ==
  ASSUME NEW h, NEW idle, NEW cost, NEW B, NEW o, NEW bs, NEW us, NEW t, Alloc(t) = [t |-> State(h, idle, cost, B, o, bs, us), unit |-> 0],
         NEW p, NEW below, NEW i, NEW c2, NEW k
  PROVE  AddLevel(t, p, below, i, c2, k) = [ret |-> 1, t |-> State(SetSon(h, p, "mid", 0), idle, cost, B, o, bs, us)]
  <1>1. PICK a, x : a = Alloc(t) /\ x = State(h, idle, cost, B, o, bs, us)
    OBVIOUS
  <1>2. a = [t |-> x, unit |-> 0]
    BY <1>1
  <1>3. a.unit = 0 /\ a.t = x
    BY <1>2
  <1>4. AddLevel(t, p, below, i, c2, k) = [ret |-> 1, t |-> [a.t EXCEPT !.h[p].mid = 0]]
    BY <1>1, <1>3 DEF AddLevel
  <1>5. x.h = h
    BY <1>1, StateSet
  <1>6. PICK g : g = SetSon(h, p, "mid", 0)
    OBVIOUS
  <1>7. [x EXCEPT !.h[p].mid = 0] = [x EXCEPT !.h = g]
    BY <1>5, <1>6 DEF SetSon
  <1>8. [x EXCEPT !.h = g] = State(g, idle, cost, B, o, bs, us)
    BY <1>1, StateSet
  <1> QED BY <1>3, <1>4, <1>6, <1>7, <1>8

\* The node that hangs under p, or p itself if none does.
BelowIs(h, p, below) == IF p = below THEN h[p].mid = 0 ELSE below = h[p].mid /\ h[p].item = NoKey
LiftedNode(h, p, i, c) == NewNode(i, c, h[p].mid, h[p].item)
Lifts(g, h, p, u, i, c) == g = [h EXCEPT ![p].mid = u, ![u] = LiftedNode(h, p, i, c), ![p].item = NoKey]

LEMMA AddLevelWorks ==
  ASSUME NEW h, NEW idle, NEW cost, NEW B, NEW o, NEW bs, NEW us, NEW u, NEW t, Alloc(t) = [t |-> State(h, idle, cost, B, o, bs, us), unit |-> u], u # 0,
         t.h = h, NEW p, p # u, p \in DOMAIN h, NEW below, BelowIs(h, p, below), NEW i, NEW c2, NEW k, NEW g, Lifts(g, h, p, u, i, c2),
         NEW side, side = (IF Byte(k, i) < c2 THEN "left" ELSE "right"),
         NEW s, s = AddSon(State(g, idle, cost, B, o, bs, us), u, side, i, k)
  PROVE  AddLevel(t, p, below, i, c2, k) = [ret |-> s.ret, t |-> s.t]
  <1>0. PICK w : w = LiftedNode(h, p, i, c2)
    OBVIOUS
  <1>16. g = [h EXCEPT ![p].mid = u, ![u] = w, ![p].item = NoKey]
    BY <1>0 DEF Lifts
  <1>1. PICK a, x : a = Alloc(t) /\ x = State(h, idle, cost, B, o, bs, us)
    OBVIOUS
  <1>2. a = [t |-> x, unit |-> u]
    BY <1>1
  <1>3. a.unit = u /\ a.t = x
    BY <1>2
  <1>4. x.h = h
    BY <1>1, StateSet
  <1>5. PICK mid, item : mid = (IF p = below THEN 0 ELSE below) /\ item = (IF p = below THEN h[p].item ELSE NoKey)
    OBVIOUS
  <1>6. mid = h[p].mid /\ item = h[p].item
    BY <1>5 DEF BelowIs
  <1>7. [Null EXCEPT !.index = i, !.cbyte = c2, !.mid = mid, !.item = item] = w
    BY <1>0, <1>6 DEF LiftedNode, NewNode
  <1>8. PICK h1 : h1 = [h EXCEPT ![p].mid = u, ![u] = w, ![p].item = IF p = below THEN NoKey ELSE @]
    OBVIOUS
  <1>9. h1 = g
    <2>1. CASE p = below
      BY <1>8, <1>16, <2>1
    <2>2. CASE p # below
      <3>1. h[p].item = NoKey
        BY <2>2 DEF BelowIs
      <3>2. PICK f : f = [h EXCEPT ![p].mid = u, ![u] = w]
        OBVIOUS
      <3>3. h1 = [f EXCEPT ![p].item = @]
        BY <1>8, <2>2, <3>2
      <3>4. g = [f EXCEPT ![p].item = NoKey]
        BY <1>16, <3>2
      <3>5. p \in DOMAIN h => f[p].item = NoKey
        <4> SUFFICES ASSUME p \in DOMAIN h PROVE f[p].item = NoKey
          OBVIOUS
        <4>1. PICK e : e = [h EXCEPT ![p].mid = u]
          OBVIOUS
        <4>2. e[p] = [h[p] EXCEPT !.mid = u] /\ p \in DOMAIN e
          BY <4>1
        <4>3. f = [e EXCEPT ![u] = w]
          BY <3>2, <4>1
        <4>4. f[p] = e[p]
          BY <4>2, <4>3
        <4>5. e[p].item = h[p].item
          BY <4>2
        <4> QED BY <3>1, <4>4, <4>5
      <3>6. CASE p \in DOMAIN h
        BY <3>3, <3>4, <3>5, <3>6
      <3> QED BY <3>6
    <2> QED BY <2>1, <2>2
  <1>10. [x EXCEPT !.h = g] = State(g, idle, cost, B, o, bs, us)
    BY <1>1 DEF State
  <1>11. [a.t EXCEPT !.h = g] = State(g, idle, cost, B, o, bs, us)
    BY <1>3, <1>10
  <1>12. [a.t.h EXCEPT ![p].mid = a.unit, ![a.unit] = w, ![p].item = IF p = below THEN NoKey ELSE @] = g
    BY <1>3, <1>4, <1>8, <1>9
  <1>13. AddLevel(t, p, below, i, c2, k) =
           LET r == AddSon([a.t EXCEPT !.h = g], a.unit, IF Byte(k, i) < c2 THEN "left" ELSE "right", i, k)
           IN  [ret |-> r.ret, t |-> r.t]
    <2>1. [Null EXCEPT !.index = i, !.cbyte = c2, !.mid = IF p = below THEN 0 ELSE below,
                       !.item = IF p = below THEN t.h[p].item ELSE NoKey] = w
      BY <1>5, <1>7
    <2> QED BY <1>1, <1>3, <1>12, <2>1 DEF AddLevel
  <1> QED BY <1>3, <1>11, <1>13

(***************************************************************************)
(* Where a key that is inserted leaves the tree.                           *)
(***************************************************************************)
\* The node whose item the key is compared with.
LeafOf(h, f) == IF f.node # 0 THEN f.node ELSE Deepest(h, f.last)

LEMMA DeepestIn ==
  ASSUME NEW h, NEW U, NEW T, NEW S, Shape(h, U, T, S, NoNode)
  PROVE  \A n \in U : Deepest(h, n) \in U /\ Deepest(h, n) \in T[n] /\ h[Deepest(h, n)].mid = 0
  <1>1. LooseFacts(h, U, T, S) /\ Wired(h, U, NoNode) /\ Bounded(h, U, T, NoNode) /\ IsHeap(h) /\ Loose(h, U, T, S, NoNode)
    BY LooseFactsAre DEF Shape, Loose, Wired
  <1>2. \A n \in U : \A y \in T[n] : T[y] \subseteq T[n]
    BY UnderIs
  <1> DEFINE W == {n \in U : Deepest(h, n) \in U /\ Deepest(h, n) \in T[n] /\ h[Deepest(h, n)].mid = 0}
  <1>3. ASSUME NEW n \in U, \A s \in Sides : Son(h, NoNode, n, s) \in U => Son(h, NoNode, n, s) \in W
        PROVE  n \in W
    <2>1. n \in DOMAIN h /\ n \in T[n] /\ h[n].mid \in U \cup {0}
      BY <1>1 DEF LooseFacts
    <2>2. Deepest(h, n) = IF h[n].mid = 0 THEN n ELSE Deepest(h, h[n].mid)
      BY <1>1, <2>1, DeepestIs
    <2>3. CASE h[n].mid = 0
      BY <2>1, <2>2, <2>3
    <2>4. CASE h[n].mid # 0
      <3>1. PICK x : x = h[n].mid
        OBVIOUS
      <3>2. x = Son(h, NoNode, n, "mid") /\ "mid" \in Sides /\ x \in U
        <4>1. Son(h, NoNode, n, "mid") = h[n]["mid"] /\ "mid" \in Sides
          BY <1>1 DEF LooseFacts, Sides
        <4> QED BY <2>1, <2>4, <3>1, <4>1
      <3>3. x \in W
        BY <1>3, <3>2
      <3>4. T[x] \subseteq T[n]
        <4>1. T[Son(h, NoNode, n, "mid")] \subseteq T[n]
          BY <1>1, <3>2 DEF Bounded
        <4> QED BY <3>2, <4>1
      <3> QED BY <2>2, <2>4, <3>1, <3>3, <3>4
    <2> QED BY <2>3, <2>4
  <1>4. \A n \in U : (\A s \in Sides : Son(h, NoNode, n, s) \in U => Son(h, NoNode, n, s) \in W) => n \in W
    BY <1>3
  <1>5. U \subseteq W
    <2> HIDE DEF W
    <2> QED BY <1>1, <1>4, NodeInduction
  <1> QED BY <1>5

\* It is under every node the key passes.
IsLeaf(h, U, T, n, leaf) == leaf \in U /\ leaf \in T[n] /\ h[leaf].mid = 0
LEMMA LeafIn ==
  ASSUME NEW h, NEW U, NEW T, NEW S, Shape(h, U, T, S, NoNode), NEW k
  PROVE  \A n \in U : \A last \in DOMAIN h : IsLeaf(h, U, T, n, LeafOf(h, Descend(h, k, n, last)))
  <1>1. LooseFacts(h, U, T, S) /\ Wired(h, U, NoNode) /\ Bounded(h, U, T, NoNode) /\ IsHeap(h) /\ Loose(h, U, T, S, NoNode)
    BY LooseFactsAre DEF Shape, Loose, Wired
  <1> DEFINE W == {n \in U : \A last \in DOMAIN h : IsLeaf(h, U, T, n, LeafOf(h, Descend(h, k, n, last)))}
  <1>2. ASSUME NEW n \in U, \A s \in Sides : Son(h, NoNode, n, s) \in U => Son(h, NoNode, n, s) \in W,
               NEW last \in DOMAIN h
        PROVE  IsLeaf(h, U, T, n, LeafOf(h, Descend(h, k, n, last)))
    <2>1. n \in DOMAIN h /\ n # 0 /\ 0 \in DOMAIN h /\ n \in T[n]
      BY <1>1 DEF LooseFacts
    <2>2. CASE AtItem(h, n, k)
      <3>1. Descend(h, k, n, last) = [node |-> n, last |-> last]
        BY <1>1, <2>1, <2>2, DescendIs
      <3>2. LeafOf(h, Descend(h, k, n, last)) = n
        BY <2>1, <3>1 DEF LeafOf
      <3>3. h[n].mid = 0
        BY <2>2 DEF AtItem
      <3> QED BY <2>1, <3>2, <3>3 DEF IsLeaf
    <2>3. CASE ~AtItem(h, n, k)
      <3>1. PICK x : x = h[n][Way(h, n, k)]
        OBVIOUS
      <3>2. Descend(h, k, n, last) = Descend(h, k, x, n)
        BY <1>1, <2>1, <2>3, <3>1, DescendIs
      <3>3. Way(h, n, k) \in Sides
        BY WayIs
      <3>4. x \in U \cup {0} /\ x = Son(h, NoNode, n, Way(h, n, k))
        BY <1>1, <3>1, <3>3 DEF LooseFacts
      <3>5. CASE x = 0
        <4>1. Descend(h, k, 0, n) = [node |-> 0, last |-> n]
          <5>1. \A z \in DOMAIN h : z = 0 => Descend(h, k, z, n) = [node |-> z, last |-> n]
            <6>1. IsHeap(h) /\ n \in DOMAIN h
              BY <1>1, <2>1
            <6> SUFFICES ASSUME NEW z \in DOMAIN h, z = 0 PROVE Descend(h, k, z, n) = [node |-> z, last |-> n]
              OBVIOUS
            <6>2. Descend(h, k, z, n) =
                    IF z = 0 \/ AtItem(h, z, k) THEN [node |-> z, last |-> n] ELSE Descend(h, k, h[z][Way(h, z, k)], z)
              BY <6>1, DescendIs
            <6> QED BY <6>2
          <5> QED BY <2>1, <5>1
        <4>2. LeafOf(h, Descend(h, k, n, last)) = Deepest(h, n)
          BY <3>2, <3>5, <4>1 DEF LeafOf
        <4> QED BY <4>2, DeepestIn DEF IsLeaf
      <3>6. CASE x # 0
        <4>1. x \in W
          BY <1>2, <3>3, <3>4, <3>6
        <4>2. IsLeaf(h, U, T, x, LeafOf(h, Descend(h, k, x, n)))
          BY <2>1, <4>1
        <4>3. T[x] \subseteq T[n]
          BY <1>1, <3>3, <3>4 DEF Bounded
        <4> QED BY <3>2, <4>2, <4>3 DEF IsLeaf
      <3> QED BY <3>5, <3>6
    <2> QED BY <2>2, <2>3
  <1>3. \A n \in U : (\A s \in Sides : Son(h, NoNode, n, s) \in U => Son(h, NoNode, n, s) \in W) => n \in W
    BY <1>2
  <1>4. U \subseteq W
    <2> HIDE DEF W
    <2> QED BY <1>1, <1>3, NodeInduction
  <1> QED BY <1>4

\* n is on the way of the key, and no level before it asks for a byte after byte i.
Leads(h, U, T, k, n)   == \A x \in U : \A q \in Sides : n \in T[h[x][q]] => Way(h, x, k) = q
Before(h, U, T, S, i, n) == \A o \in U : n \in T[h[o].mid] => \A r \in S[h[o].mid] : h[r].index <= i
OnWay(h, U, T, S, k, i, n) == Leads(h, U, T, k, n) /\ Before(h, U, T, S, i, n)

LEMMA OnWayRoot ==
  ASSUME NEW h, NEW U, NEW T, NEW S, Shape(h, U, T, S, NoNode), NEW n \in U, U = T[n], NEW k, NEW i
  PROVE  OnWay(h, U, T, S, k, i, n)
  <1>1. LooseFacts(h, U, T, S) /\ Bounded(h, U, T, NoNode)
    BY LooseFactsAre DEF Shape, Loose
  <1>2. ASSUME NEW x \in U, NEW q \in Sides, n \in T[h[x][q]] PROVE FALSE
    <2>1. h[x][q] \in U \cup {0} /\ Son(h, NoNode, x, q) = h[x][q] /\ T[0] = {}
      BY <1>1 DEF LooseFacts
    <2>2. h[x][q] \in U
      BY <1>2, <2>1
    <2>3. T[n] \subseteq T[h[x][q]]
      BY <1>2, <2>2, UnderIs
    <2>4. x \notin T[Son(h, NoNode, x, q)]
      BY <1>1 DEF Bounded
    <2> QED BY <2>1, <2>3, <2>4
  <1>3. Leads(h, U, T, k, n)
    BY <1>2 DEF Leads
  <1>4. ASSUME NEW o \in U, n \in T[h[o].mid] PROVE FALSE
    <2>1. "mid" \in Sides
      BY DEF Sides
    <2>2. n \in T[h[o]["mid"]]
      BY <1>4
    <2> QED BY <1>2, <2>1, <2>2
  <1>5. Before(h, U, T, S, i, n)
    BY <1>4 DEF Before
  <1> QED BY <1>3, <1>5 DEF OnWay

LEMMA OnWayStep ==
  ASSUME NEW h, NEW U, NEW T, NEW S, Shape(h, U, T, S, NoNode), Aligned(h, U, S, NoNode), NEW k, NEW i, NEW n \in U, OnWay(h, U, T, S, k, i, n),
         NEW y \in U, y = h[n][Way(h, n, k)], h[y].index <= i
  PROVE  OnWay(h, U, T, S, k, i, y)
  <1>1. LooseFacts(h, U, T, S) /\ Bounded(h, U, T, NoNode) /\ Loose(h, U, T, S, NoNode)
    BY LooseFactsAre DEF Shape, Loose
  <1>2. Way(h, n, k) \in Sides /\ y # 0
    BY <1>1, WayIs DEF LooseFacts
  <1>3. y = Son(h, NoNode, n, Way(h, n, k))
    BY <1>1, <1>2 DEF LooseFacts
  <1>4. ASSUME NEW x \in U, NEW q \in Sides, y \in T[h[x][q]] PROVE (y = h[x][q] /\ x = n /\ q = Way(h, n, k)) \/ (y # h[x][q] /\ n \in T[h[x][q]])
    <2>1. h[x][q] \in U \cup {0} /\ Son(h, NoNode, x, q) = h[x][q] /\ T[0] = {}
      BY <1>1 DEF LooseFacts
    <2>2. PICK z : z = h[x][q]
      OBVIOUS
    <2>3. z \in U
      BY <1>4, <2>1, <2>2
    <2>4. CASE y = z
      <3>1. Son(h, NoNode, n, Way(h, n, k)) = Son(h, NoNode, x, q) /\ Son(h, NoNode, n, Way(h, n, k)) # 0
        BY <1>2, <1>3, <2>1, <2>2, <2>4
      <3>2. n \in U \cup {0} /\ x \in U \cup {0}
        OBVIOUS
      <3>3. n = x /\ Way(h, n, k) = q
        BY <1>1, <1>2, <3>1, <3>2, OneParent
      <3> QED BY <2>2, <2>4, <3>3
    <2>5. CASE y # z
      <3>1. Son(h, NoNode, n, Way(h, n, k)) # 0 /\ Son(h, NoNode, n, Way(h, n, k)) \in T[z] /\ Son(h, NoNode, n, Way(h, n, k)) # z
        BY <1>2, <1>3, <1>4, <2>2, <2>5
      <3>2. n \in T[z]
        BY <1>2, <2>3, <3>1, ParentUnder
      <3> QED BY <2>2, <2>5, <3>2
    <2> QED BY <2>4, <2>5
  <1>5. Leads(h, U, T, k, y)
    <2> SUFFICES ASSUME NEW x \in U, NEW q \in Sides, y \in T[h[x][q]] PROVE Way(h, x, k) = q
      BY DEF Leads
    <2>1. (y = h[x][q] /\ x = n /\ q = Way(h, n, k)) \/ (y # h[x][q] /\ n \in T[h[x][q]])
      BY <1>4
    <2> QED BY <2>1 DEF OnWay, Leads
  <1>6. Before(h, U, T, S, i, y)
    <2> SUFFICES ASSUME NEW o \in U, y \in T[h[o].mid], NEW r \in S[h[o].mid] PROVE h[r].index <= i
      BY DEF Before
    <2>1. "mid" \in Sides /\ y \in T[h[o]["mid"]]
      BY DEF Sides
    <2>2. (y = h[o]["mid"] /\ o = n) \/ n \in T[h[o]["mid"]]
      BY <1>4, <2>1
    <2>3. CASE n \in T[h[o].mid]
      BY <2>3 DEF OnWay, Before
    <2>4. CASE y = h[o].mid
      <3>1. NoNode \notin U \cup {0} /\ y \in S[y] /\ S[y] \subseteq U
        BY <1>1 DEF LooseFacts
      <3>2. y \in S[h[o].mid] \ {NoNode} /\ r \in S[h[o].mid] \ {NoNode} /\ o \in (U \cup {0}) \ {NoNode}
        BY <2>4, <3>1
      <3>3. h[r].index = h[y].index
        BY <3>2 DEF Aligned
      <3> QED BY <3>3
    <2> QED BY <2>2, <2>3, <2>4
  <1> QED BY <1>5, <1>6 DEF OnWay

\* The three ways the walk of Place ends, from a node l that is on the way of the key.
AtEnd(h, U, S, k, x, l, m) ==
  x = 0 /\ Way(h, l, k) \in Around /\ h[l][Way(h, l, k)] = 0 /\ m \in U \cup {0} /\ l \in S[h[m].mid]
AtLevel(h, U, T, k, i, x, l, leaf) ==
  x \in U /\ x = h[l].mid /\ Way(h, l, k) = "mid" /\ h[x].index > i /\ leaf \in T[x]
AtLeaf(h, k, x, l, leaf) == x = l /\ AtItem(h, l, k) /\ leaf = l
Placed(h, U, T, S, k, i, at, leaf, x, l, m) ==
  /\ at = [node |-> x, last |-> l, lev |-> m]
  /\ l \in U /\ OnWay(h, U, T, S, k, i, l) /\ h[l].index <= i /\ leaf \in U /\ leaf \in T[l] /\ h[leaf].mid = 0
  /\ AtEnd(h, U, S, k, x, l, m) \/ AtLevel(h, U, T, k, i, x, l, leaf) \/ AtLeaf(h, k, x, l, leaf)

LEMMA PlaceStops ==
  ASSUME NEW h, IsHeap(h), NEW k, NEW i, NEW n \in DOMAIN h, NEW last \in DOMAIN h, NEW lev \in DOMAIN h, n = 0 \/ h[n].index > i
  PROVE  Place(h, k, i, n, last, lev) = [node |-> n, last |-> last, lev |-> lev]
  <1>1. PICK f : IsPlacing(f, h, k, i) /\ \A x, y, z \in DOMAIN h : Place(h, k, i, x, y, z) = f[[node |-> x, last |-> y, lev |-> z]]
    <2> DEFINE g == CHOOSE f : IsPlacing(f, h, k, i)
    <2>1. IsPlacing(g, h, k, i)
      BY PlacingExists
    <2>2. \A x, y, z : Place(h, k, i, x, y, z) = g[[node |-> x, last |-> y, lev |-> z]]
      BY DEF Place, IsPlacing
    <2> HIDE DEF g
    <2> QED BY <2>1, <2>2
  <1>2. PICK s \in [node : DOMAIN h, last : DOMAIN h, lev : DOMAIN h] : s = [node |-> n, last |-> last, lev |-> lev]
    OBVIOUS
  <1>3. s.node = n /\ s.last = last /\ s.lev = lev /\ [s EXCEPT !.last = s.node] = [node |-> n, last |-> n, lev |-> lev]
    BY <1>2
  <1>4. f[s] = IF s.node = 0 \/ h[s.node].index > i THEN s ELSE IF AtItem(h, s.node, k) THEN [s EXCEPT !.last = s.node]
               ELSE f[[node |-> h[s.node][Way(h, s.node, k)], last |-> s.node, lev |-> LevelAfter(h, s, k)]]
    BY <1>1 DEF IsPlacing
  <1>5. f[s] = s
    BY <1>3, <1>4
  <1>6. Place(h, k, i, n, last, lev) = f[s]
    BY <1>1, <1>2
  <1> QED BY <1>2, <1>5, <1>6

LEMMA PlaceZero ==
  ASSUME NEW h, IsHeap(h), NEW k, NEW i, NEW last \in DOMAIN h, NEW lev \in DOMAIN h
  PROVE  Place(h, k, i, 0, last, lev) = [node |-> 0, last |-> last, lev |-> lev]
  <1>1. 0 \in DOMAIN h
    BY DEF IsHeap
  <1>2. \A z \in DOMAIN h : z = 0 => Place(h, k, i, z, last, lev) = [node |-> z, last |-> last, lev |-> lev]
    <2> SUFFICES ASSUME NEW z \in DOMAIN h, z = 0 PROVE Place(h, k, i, z, last, lev) = [node |-> z, last |-> last, lev |-> lev]
      OBVIOUS
    <2>1. IsHeap(h) /\ z \in DOMAIN h /\ last \in DOMAIN h /\ lev \in DOMAIN h /\ (z = 0 \/ h[z].index > i)
      OBVIOUS
    <2> QED BY <2>1, PlaceStops
  <1> QED BY <1>1, <1>2

LEMMA DescendZero ==
  ASSUME NEW h, IsHeap(h), NEW k, NEW last \in DOMAIN h
  PROVE  Descend(h, k, 0, last) = [node |-> 0, last |-> last]
  <1>1. 0 \in DOMAIN h
    BY DEF IsHeap
  <1>2. \A z \in DOMAIN h : z = 0 => Descend(h, k, z, last) = [node |-> z, last |-> last]
    <2> SUFFICES ASSUME NEW z \in DOMAIN h, z = 0 PROVE Descend(h, k, z, last) = [node |-> z, last |-> last]
      OBVIOUS
    <2>1. Descend(h, k, z, last) =
            IF z = 0 \/ AtItem(h, z, k) THEN [node |-> z, last |-> last] ELSE Descend(h, k, h[z][Way(h, z, k)], z)
      BY DescendIs
    <2> QED BY <2>1
  <1> QED BY <1>1, <1>2

LEMMA PlaceFrom ==
  ASSUME NEW h, NEW U, NEW T, NEW S, Shape(h, U, T, S, NoNode), Aligned(h, U, S, NoNode), NEW k, NEW i \in Int
  PROVE  \A n \in U : \A lev \in U \cup {0} : \A last \in DOMAIN h :
           n \in S[h[lev].mid] /\ OnWay(h, U, T, S, k, i, n) /\ h[n].index <= i
             => \E x, l, m : Placed(h, U, T, S, k, i, Place(h, k, i, n, last, lev), LeafOf(h, Descend(h, k, n, last)), x, l, m)
  <1>1. LooseFacts(h, U, T, S) /\ Wired(h, U, NoNode) /\ Bounded(h, U, T, NoNode) /\ IsHeap(h) /\ Loose(h, U, T, S, NoNode)
    BY LooseFactsAre DEF Shape, Loose, Wired
  <1> DEFINE Ends(n, lev, last) ==
               \E x, l, m : Placed(h, U, T, S, k, i, Place(h, k, i, n, last, lev), LeafOf(h, Descend(h, k, n, last)), x, l, m)
             W == {n \in U : \A lev \in U \cup {0} : \A last \in DOMAIN h :
                     n \in S[h[lev].mid] /\ OnWay(h, U, T, S, k, i, n) /\ h[n].index <= i => Ends(n, lev, last)}
  <1>2. ASSUME NEW n \in U, \A s \in Sides : Son(h, NoNode, n, s) \in U => Son(h, NoNode, n, s) \in W,
               NEW lev \in U \cup {0}, NEW last \in DOMAIN h, n \in S[h[lev].mid], OnWay(h, U, T, S, k, i, n), h[n].index <= i
        PROVE  Ends(n, lev, last)
    <2>1. n \in DOMAIN h /\ lev \in DOMAIN h /\ n # 0 /\ 0 \in DOMAIN h /\ n \in T[n] /\ NoNode \notin U \cup {0}
      BY <1>1 DEF LooseFacts
    <2>2. PICK leaf : leaf = LeafOf(h, Descend(h, k, n, last))
      OBVIOUS
    <2>3. IsLeaf(h, U, T, n, leaf)
      BY <2>2, LeafIn
    <2>4. leaf \in U /\ leaf \in T[n] /\ h[leaf].mid = 0
      BY <2>3 DEF IsLeaf
    <2>5. h[n].index \in Int
      BY <1>1, <2>1, HeapFields
    <2>6. ~(h[n].index > i)
      BY <1>2, <2>5
    <2>7. CASE AtItem(h, n, k)
      <3>1. Descend(h, k, n, last) = [node |-> n, last |-> last]
        BY <1>1, <2>1, <2>7, DescendIs
      <3>2. leaf = n
        BY <2>1, <2>2, <3>1 DEF LeafOf
      <3>3. Place(h, k, i, n, last, lev) = [node |-> n, last |-> n, lev |-> lev]
        BY <1>1, <2>1, <2>6, <2>7, PlaceIs
      <3>4. AtLeaf(h, k, n, n, leaf)
        BY <2>7, <3>2 DEF AtLeaf
      <3>5. Placed(h, U, T, S, k, i, Place(h, k, i, n, last, lev), leaf, n, n, lev)
        BY <1>2, <2>4, <3>3, <3>4 DEF Placed
      <3> QED BY <2>2, <3>5
    <2>8. CASE ~AtItem(h, n, k)
      <3>1. PICK y, w, l : w = Way(h, n, k) /\ y = h[n][w] /\ l = (IF w = "mid" THEN n ELSE lev)
        OBVIOUS
      <3>2. w \in Sides /\ (w # "mid" => w \in Around) /\ (w = "mid" => h[n].mid # 0 /\ y = h[n].mid)
        BY <2>8, <3>1, WayIs
      <3>3. y \in U \cup {0} /\ l \in U \cup {0} /\ (y # 0 => y \in S[h[l].mid])
        BY <1>1, <1>2, <3>1, StepDown
      <3>4. y \in DOMAIN h /\ l \in DOMAIN h /\ y = Son(h, NoNode, n, w)
        BY <1>1, <3>1, <3>2, <3>3 DEF LooseFacts
      <3>5. Place(h, k, i, n, last, lev) = Place(h, k, i, y, n, l)
        BY <1>1, <2>1, <2>6, <2>8, <3>1, PlaceIs
      <3>6. Descend(h, k, n, last) = Descend(h, k, y, n)
        BY <1>1, <2>1, <2>8, <3>1, DescendIs
      <3>7. CASE y = 0
        <4>1. Place(h, k, i, n, last, lev) = [node |-> 0, last |-> n, lev |-> l]
          BY <1>1, <2>1, <3>4, <3>5, <3>7, PlaceZero
        <4>2. w \in Around /\ l = lev
          BY <3>1, <3>2, <3>7
        <4>3. AtEnd(h, U, S, k, 0, n, l)
          BY <1>2, <3>1, <3>7, <4>2 DEF AtEnd
        <4>4. Placed(h, U, T, S, k, i, Place(h, k, i, n, last, lev), leaf, 0, n, l)
          BY <1>2, <2>4, <4>1, <4>3 DEF Placed
        <4> QED BY <2>2, <4>4
      <3>8. CASE y # 0 /\ h[y].index > i
        <4>1. y \in U
          BY <3>3, <3>8
        <4>2. Place(h, k, i, y, n, l) = [node |-> y, last |-> n, lev |-> l]
          <5>1. IsHeap(h) /\ y \in DOMAIN h /\ n \in DOMAIN h /\ l \in DOMAIN h /\ (y = 0 \/ h[y].index > i)
            BY <1>1, <2>1, <3>4, <3>8
          <5> QED BY <5>1, PlaceStops
        <4>3. IsLeaf(h, U, T, y, leaf)
          BY <2>1, <2>2, <3>6, <4>1, LeafIn
        <4>4. w = "mid"
          <5> SUFFICES ASSUME w # "mid" PROVE FALSE
            OBVIOUS
          <5>1. l = lev /\ y \in S[h[lev].mid]
            BY <3>1, <3>3, <3>8
          <5>2. y \in S[h[lev].mid] \ {NoNode} /\ n \in S[h[lev].mid] \ {NoNode} /\ lev \in (U \cup {0}) \ {NoNode}
            BY <1>2, <2>1, <4>1, <5>1
          <5>3. h[y].index = h[n].index
            BY <5>2 DEF Aligned
          <5> QED BY <2>6, <3>8, <5>3
        <4>5. AtLevel(h, U, T, k, i, y, n, leaf)
          BY <3>1, <3>2, <3>8, <4>1, <4>3, <4>4 DEF AtLevel, IsLeaf
        <4>6. Placed(h, U, T, S, k, i, Place(h, k, i, n, last, lev), leaf, y, n, l)
          BY <1>2, <2>4, <3>5, <4>2, <4>5 DEF Placed
        <4> QED BY <2>2, <4>6
      <3>9. CASE y # 0 /\ ~(h[y].index > i)
        <4>1. y \in U /\ h[y].index \in Int
          BY <1>1, <3>3, <3>4, <3>9, HeapFields
        <4>2. h[y].index <= i
          BY <3>9, <4>1
        <4>3. OnWay(h, U, T, S, k, i, y)
          BY <1>2, <3>1, <4>1, <4>2, OnWayStep
        <4>4. y \in W
          BY <1>2, <3>2, <3>4, <4>1
        <4>5. y \in S[h[l].mid]
          BY <3>3, <3>9
        <4>6. \E x, p, m : Placed(h, U, T, S, k, i, Place(h, k, i, y, n, l), LeafOf(h, Descend(h, k, y, n)), x, p, m)
          BY <2>1, <3>3, <4>2, <4>3, <4>4, <4>5
        <4> QED BY <2>2, <3>5, <3>6, <4>6
      <3> QED BY <3>7, <3>8, <3>9
    <2> QED BY <2>7, <2>8
  <1>3. \A n \in U : (\A s \in Sides : Son(h, NoNode, n, s) \in U => Son(h, NoNode, n, s) \in W) => n \in W
    BY <1>2
  <1>4. U \subseteq W
    <2> HIDE DEF W
    <2> QED BY <1>1, <1>3, NodeInduction
  <1> QED BY <1>4

\* Byte i is the first in which the keys differ; -1 if they are one key.
DiffersAt(a, b, i) ==
  /\ i \in Int /\ i >= -1 /\ (i = -1 => a = b) /\ (0 <= i => Byte(a, i) # Byte(b, i))
  /\ \A j \in Int : 0 <= j /\ j < i => Byte(a, j) = Byte(b, j)

LEMMA ByteOf ==
  ASSUME NEW a \in Seq(Int), Text(a)
  PROVE  /\ Len(a) \in Nat
         /\ \A i \in Int : 0 <= i /\ i < Len(a) => Byte(a, i) = a[i + 1] /\ Byte(a, i) # 0
         /\ \A i \in Int : ~(0 <= i /\ i < Len(a)) => Byte(a, i) = 0
  <1>1. Len(a) \in Nat /\ DOMAIN a = 1 .. Len(a)
    OBVIOUS
  <1>2. \A i \in Int : 0 <= i /\ i < Len(a) => Byte(a, i) = a[i + 1] /\ i + 1 \in DOMAIN a
    BY <1>1 DEF Byte
  <1>3. \A i \in Int : ~(0 <= i /\ i < Len(a)) => Byte(a, i) = 0
    BY <1>1 DEF Byte
  <1> QED BY <1>1, <1>2, <1>3 DEF Text

LEMMA FirstDifferentIs ==
  ASSUME NEW a \in Seq(Int), NEW b \in Seq(Int), Text(a), Text(b), NEW i, i = FirstDifferent(a, b)
  PROVE  DiffersAt(a, b, i)
  <1>1. PICK s : s = Shorter(a, b)
    OBVIOUS
  <1>2. Len(a) \in Nat /\ Len(b) \in Nat
    OBVIOUS
  <1>3. s \in Nat /\ s <= Len(a) /\ s <= Len(b) /\ (s = Len(a) \/ s = Len(b))
    BY <1>1, <1>2 DEF Shorter
  <1>4. PICK D : D = {j \in 0 .. s - 1 : Byte(a, j) # Byte(b, j)}
    OBVIOUS
  <1>5. i = IF D # {} THEN CHOOSE x \in D : \A y \in D : x <= y ELSE IF Len(a) = Len(b) THEN -1 ELSE s
    BY <1>1, <1>4 DEF FirstDifferent
  <1>6. CASE D # {}
    <2>1. D \subseteq Nat
      BY <1>3, <1>4
    <2>2. \E x \in D : \A y \in D : x <= y
      BY <1>6, <2>1, LeastNumber
    <2>3. i \in D /\ \A y \in D : i <= y
      BY <1>5, <1>6, <2>2
    <2>4. i \in Int /\ 0 <= i /\ i < s /\ Byte(a, i) # Byte(b, i)
      BY <1>3, <1>4, <2>3
    <2>5. ASSUME NEW j \in Int, 0 <= j, j < i PROVE Byte(a, j) = Byte(b, j)
      <3>1. j \in 0 .. s - 1 /\ ~(i <= j)
        BY <1>3, <2>4, <2>5
      <3> QED BY <1>4, <2>3, <3>1
    <2>6. i >= -1 /\ i # -1
      BY <2>4
    <2> QED BY <2>4, <2>5, <2>6 DEF DiffersAt
  <1>7. CASE D = {}
    <2>1. \A j \in Int : 0 <= j /\ j < s => Byte(a, j) = Byte(b, j)
      <3> SUFFICES ASSUME NEW j \in Int, 0 <= j, j < s PROVE Byte(a, j) = Byte(b, j)
        OBVIOUS
      <3>1. j \in 0 .. s - 1
        BY <1>3
      <3> QED BY <1>4, <1>7, <3>1
    <2>2. CASE Len(a) = Len(b)
      <3>1. s = Len(a) /\ i = -1
        BY <1>3, <1>5, <1>7, <2>2
      <3>2. ASSUME NEW n \in 1 .. Len(a) PROVE a[n] = b[n]
        <4>1. PICK j : j = n - 1
          OBVIOUS
        <4>2. j \in Int /\ 0 <= j /\ j < Len(a) /\ n = j + 1
          BY <1>2, <4>1
        <4>3. Byte(a, j) = a[j + 1] /\ Byte(b, j) = b[j + 1]
          BY <2>2, <4>2 DEF Byte
        <4> QED BY <2>1, <3>1, <4>2, <4>3
      <3>3. a = b
        <4>1. a = [n \in 1 .. Len(a) |-> a[n]] /\ b = [n \in 1 .. Len(b) |-> b[n]]
          OBVIOUS
        <4> QED BY <2>2, <3>2, <4>1
      <3> QED BY <3>1, <3>3 DEF DiffersAt
    <2>3. CASE Len(a) # Len(b)
      <3>1. i = s
        BY <1>5, <1>7, <2>3
      <3>2. i \in Int /\ 0 <= i /\ i >= -1 /\ i # -1
        BY <1>3, <3>1
      <3>3. Byte(a, i) # Byte(b, i)
        <4>1. CASE s = Len(a)
          <5>1. s < Len(b)
            BY <1>2, <1>3, <2>3, <4>1
          <5>2. Byte(b, s) # 0
            BY <1>3, <5>1, ByteOf
          <5>3. Byte(a, s) = 0
            BY <1>2, <1>3, <4>1, ByteOf
          <5> QED BY <3>1, <5>2, <5>3
        <4>2. CASE s = Len(b)
          <5>1. s < Len(a)
            BY <1>2, <1>3, <2>3, <4>2
          <5>2. Byte(a, s) # 0
            BY <1>3, <5>1, ByteOf
          <5>3. Byte(b, s) = 0
            BY <1>2, <1>3, <4>2, ByteOf
          <5> QED BY <3>1, <5>2, <5>3
        <4> QED BY <1>3, <4>1, <4>2
      <3> QED BY <2>1, <3>1, <3>2, <3>3 DEF DiffersAt
    <2> QED BY <2>2, <2>3
  <1> QED BY <1>6, <1>7

(***************************************************************************)
(* A key that is not in the tree comes to a place in it.                   *)
(***************************************************************************)
Inserting(h, U, T, S, V, k, fall, leaf, i, at) ==
  /\ GoodFacts(h, U, T, S, V) /\ h[0].mid # 0 /\ k \in Seq(Int) /\ Text(k)
  /\ fall = Descend(h, k, h[0].mid, h[0].mid) /\ leaf = LeafOf(h, fall)
  /\ i = FirstDifferent(k, h[leaf].item) /\ at = Place(h, k, i, h[0].mid, h[0].mid, 0)
PlaceOf(h, U, T, S, V, k, leaf, i, at, x, l, m) ==
  /\ GoodFacts(h, U, T, S, V) /\ k \in Seq(Int) /\ Text(k)
  /\ Placed(h, U, T, S, k, i, at, leaf, x, l, m) /\ DiffersAt(k, h[leaf].item, i) /\ (leaf \notin V => 0 <= i)
LEMMA InsertPlaced ==
  ASSUME NEW h, NEW U, NEW T, NEW S, NEW V, NEW k, NEW fall, NEW leaf, NEW i, NEW at, Inserting(h, U, T, S, V, k, fall, leaf, i, at)
  PROVE  /\ leaf \in U /\ h[leaf].item # NoKey
         /\ ~(fall.node # 0 /\ h[fall.node].item = k) => \E x, l, m : PlaceOf(h, U, T, S, V, k, leaf, i, at, x, l, m)
  <1>1. /\ Shape(h, U, T, S, NoNode) /\ LooseFacts(h, U, T, S) /\ Keys(h, U, T, S, NoNode, V) /\ U = T[h[0].mid]
        /\ IsHeap(h) /\ 0 \in DOMAIN h /\ h[0].mid \in U /\ h[0].mid \in S[h[0].mid]
    BY DEF Inserting, GoodFacts
  <1>2. PICK root : root = h[0].mid
    OBVIOUS
  <1>3. root \in U /\ root \in S[h[0].mid] /\ root \in DOMAIN h /\ U = T[root] /\ NoNode \notin U \cup {0}
    BY <1>1, <1>2 DEF LooseFacts
  <1>4. fall = Descend(h, k, root, root) /\ leaf = LeafOf(h, fall)
    BY <1>2 DEF Inserting
  <1>5. IsLeaf(h, U, T, root, leaf)
    BY <1>1, <1>3, <1>4, LeafIn
  <1>6. leaf \in U /\ h[leaf].mid = 0 /\ leaf \in DOMAIN h /\ leaf # NoNode
    BY <1>1, <1>3, <1>5 DEF IsLeaf, LooseFacts
  <1>7. Text(h[leaf].item)
    BY <1>1, <1>6 DEF Keys, Items
  <1>8. h[leaf].item \in Seq(Int) /\ h[root].index \in Int
    BY <1>1, <1>3, <1>6, HeapFields
  <1>9. k \in Seq(Int) /\ Text(k) /\ i = FirstDifferent(k, h[leaf].item)
    BY DEF Inserting
  <1>10. DiffersAt(k, h[leaf].item, i)
    BY <1>7, <1>8, <1>9, FirstDifferentIs
  <1>11. i \in Int /\ i >= -1
    BY <1>10 DEF DiffersAt
  <1>12. ASSUME ~(fall.node # 0 /\ h[fall.node].item = k)
         PROVE  \E x, l, m : PlaceOf(h, U, T, S, V, k, leaf, i, at, x, l, m)
    <2>1. leaf \notin V => 0 <= i
      <3> SUFFICES ASSUME leaf \notin V, ~(0 <= i) PROVE FALSE
        OBVIOUS
      <3>1. i = -1
        BY <1>11
      <3>2. h[leaf].item = k
        BY <1>10, <3>1 DEF DiffersAt
      <3>3. HasKey(h, U, V, leaf)
        BY <1>6 DEF HasKey
      <3>4. GoodFacts(h, U, T, S, V)
        BY DEF Inserting
      <3>5. Descend(h, k, h[0].mid, root).node = leaf
        BY <1>3, <3>2, <3>3, <3>4, DescendKey
      <3>6. fall.node = leaf /\ leaf # 0
        BY <1>1, <1>2, <1>4, <1>6, <3>5 DEF LooseFacts
      <3> QED BY <1>12, <3>2, <3>6
    <2>2. h[root].index <= i
      <3>1. h[root].index = IF V = {} THEN 0 ELSE Taken
        BY <1>1, <1>3 DEF Keys, First
      <3>2. CASE V = {}
        BY <1>11, <2>1, <3>1, <3>2
      <3>3. CASE V # {}
        BY <1>11, <3>1, <3>3 DEF Taken
      <3> QED BY <3>2, <3>3
    <2>3. OnWay(h, U, T, S, k, i, root)
      BY <1>1, <1>3, OnWayRoot
    <2>4. Aligned(h, U, S, NoNode)
      BY <1>1 DEF Keys
    <2>5. \E x, l, m : Placed(h, U, T, S, k, i, Place(h, k, i, root, root, 0), LeafOf(h, Descend(h, k, root, root)), x, l, m)
      <3>1. 0 \in U \cup {0}
        OBVIOUS
      <3> QED BY <1>1, <1>3, <1>11, <2>2, <2>3, <2>4, <3>1, PlaceFrom
    <2>6. at = Place(h, k, i, root, root, 0)
      BY <1>2 DEF Inserting
    <2>7. PICK x, l, m : Placed(h, U, T, S, k, i, at, leaf, x, l, m)
      BY <1>4, <2>5, <2>6
    <2>8. GoodFacts(h, U, T, S, V)
      BY DEF Inserting
    <2> QED BY <1>9, <1>10, <2>1, <2>7, <2>8 DEF PlaceOf
  <1> QED BY <1>6, <1>7, <1>12 DEF Text

\* The node that is left of a tree without keys is under no other.
LEMMA LeftIsAbove ==
  ASSUME NEW h, NEW U, NEW T, NEW S, NEW V, GoodFacts(h, U, T, S, V), NEW o \in U, NEW y \in T[h[o].mid]
  PROVE  y \notin V /\ h[y].index > h[o].index
  <1>1. Shape(h, U, T, S, NoNode) /\ Keys(h, U, T, S, NoNode, V) /\ U = T[h[0].mid] /\ LooseFacts(h, U, T, S) /\ IsHeap(h)
    BY DEF GoodFacts
  <1>2. IndexesAre(h, U, T, S, V)
    BY <1>1, IndexAbove
  <1>3. y \in U /\ h[y].index > h[o].index
    BY <1>2 DEF IndexesAre
  <1>4. h[o].index >= Taken
    BY <1>1, <1>2 DEF IndexesAre
  <1>5. h[y].index \in Int /\ h[o].index \in Int
    <2>1. y \in DOMAIN h /\ o \in DOMAIN h
      BY <1>1, <1>3 DEF LooseFacts
    <2> QED BY <1>1, <2>1, HeapFields
  <1>6. y \notin V
    <2> SUFFICES ASSUME y \in V PROVE FALSE
      OBVIOUS
    <2>1. Left(h, S, NoNode, V) /\ First(h, S, NoNode, V)
      BY <1>1 DEF Keys
    <2>2. y \in S[h[0].mid] \ {NoNode}
      BY <2>1 DEF Left
    <2>3. h[y].index = Taken
      BY <2>1, <2>2 DEF First
    <2> QED BY <1>3, <1>4, <1>5, <2>3 DEF Taken
  <1> QED BY <1>3, <1>6

PlaceFacts(h, U, T, S, V, k, leaf, i, l) ==
  /\ GoodFacts(h, U, T, S, V) /\ l \in U /\ leaf \in U /\ leaf \in T[l] /\ h[leaf].mid = 0 /\ OnWay(h, U, T, S, k, i, l)
  /\ h[l].index <= i /\ DiffersAt(k, h[leaf].item, i) /\ (leaf \notin V => 0 <= i) /\ k \in Seq(Int) /\ Text(k)
  /\ Shape(h, U, T, S, NoNode) /\ LooseFacts(h, U, T, S) /\ Keys(h, U, T, S, NoNode, V) /\ U = T[h[0].mid] /\ IsHeap(h) /\ NoNode \notin U
LEMMA PlaceFactsAre ==
  ASSUME NEW h, NEW U, NEW T, NEW S, NEW V, NEW k, NEW leaf, NEW i, NEW at, NEW x, NEW l, NEW m, PlaceOf(h, U, T, S, V, k, leaf, i, at, x, l, m)
  PROVE  PlaceFacts(h, U, T, S, V, k, leaf, i, l)
  <1>1. GoodFacts(h, U, T, S, V) /\ k \in Seq(Int) /\ Text(k) /\ DiffersAt(k, h[leaf].item, i) /\ (leaf \notin V => 0 <= i)
    BY DEF PlaceOf
  <1>2. l \in U /\ leaf \in U /\ leaf \in T[l] /\ h[leaf].mid = 0 /\ OnWay(h, U, T, S, k, i, l) /\ h[l].index <= i
    BY DEF PlaceOf, Placed
  <1>3. Shape(h, U, T, S, NoNode) /\ LooseFacts(h, U, T, S) /\ Keys(h, U, T, S, NoNode, V) /\ U = T[h[0].mid] /\ IsHeap(h)
    BY <1>1 DEF GoodFacts
  <1>4. NoNode \notin U
    BY <1>3 DEF LooseFacts
  <1> QED BY <1>1, <1>2, <1>3, <1>4 DEF PlaceFacts

\* What is under l in the tree of a middle son is under it too.
LEMMA LeafUnder ==
  ASSUME NEW h, NEW U, NEW T, NEW S, NEW V, NEW k, NEW leaf, NEW i, NEW l, PlaceFacts(h, U, T, S, V, k, leaf, i, l), NEW o \in U, l \in T[h[o].mid]
  PROVE  leaf \in Keyed(h, T, V, NoNode, o)
  <1>1. GoodFacts(h, U, T, S, V) /\ leaf \in T[l] /\ h[leaf].mid = 0 /\ Shape(h, U, T, S, NoNode) /\ LooseFacts(h, U, T, S) /\ leaf # NoNode
    BY DEF PlaceFacts
  <1>2. h[o].mid \in U \cup {0} /\ T[0] = {}
    BY <1>1 DEF LooseFacts
  <1>3. h[o].mid \in U
    BY <1>2
  <1>4. leaf \in T[h[o].mid]
    BY <1>1, <1>3, UnderIs
  <1>5. leaf \notin V
    BY <1>1, <1>4, LeftIsAbove
  <1> QED BY <1>1, <1>4, <1>5 DEF Keyed

\* The key belongs there.
LEMMA KeySuits ==
  ASSUME NEW h, NEW U, NEW T, NEW S, NEW V, NEW k, NEW leaf, NEW i, NEW l, PlaceFacts(h, U, T, S, V, k, leaf, i, l)
  PROVE  Suits(h, U, T, S, V, l, k)
  <1>1. OnWay(h, U, T, S, k, i, l) /\ DiffersAt(k, h[leaf].item, i) /\ LooseFacts(h, U, T, S) /\ Keys(h, U, T, S, NoNode, V) /\ IsHeap(h)
    BY DEF PlaceFacts
  <1>2. ASSUME NEW x \in U, l \in T[h[x].mid] PROVE Byte(k, h[x].index) = h[x].cbyte
    <2>1. "mid" \in Sides /\ l \in T[h[x]["mid"]]
      BY <1>2 DEF Sides
    <2>2. Way(h, x, k) = "mid"
      BY <1>1, <2>1 DEF OnWay, Leads
    <2> QED BY <2>2 DEF Way
  <1>3. ASSUME NEW o \in U, l \in T[h[o].mid], NEW y \in Keyed(h, T, V, NoNode, o), NEW r \in S[h[o].mid] \ {NoNode},
               NEW j \in Int, 0 <= j, j < h[r].index
        PROVE  Byte(k, j) = Byte(h[y].item, j)
    <2>1. leaf \in Keyed(h, T, V, NoNode, o)
      BY <1>3, LeafUnder
    <2>2. o \in U \ {NoNode}
      BY DEF PlaceFacts
    <2>3. Byte(h[leaf].item, j) = Byte(h[y].item, j)
      BY <1>1, <1>3, <2>1, <2>2 DEF Keys, Agreeing
    <2>4. h[r].index <= i
      BY <1>1, <1>3 DEF OnWay, Before
    <2>5. h[r].index \in Int
      <3>1. h[o].mid \in U \cup {0} /\ S[0] = {} /\ \A z \in U : S[z] \subseteq U
        BY <1>1 DEF LooseFacts
      <3>2. r \in U
        BY <3>1
      <3>3. r \in DOMAIN h
        BY <1>1, <3>2 DEF LooseFacts
      <3> QED BY <1>1, <3>3, HeapFields
    <2>6. i \in Int /\ j < i
      BY <1>1, <1>3, <2>4, <2>5 DEF DiffersAt
    <2>7. Byte(k, j) = Byte(h[leaf].item, j)
      BY <1>1, <1>3, <2>6 DEF DiffersAt
    <2> QED BY <2>3, <2>7
  <1> QED BY <1>2, <1>3 DEF Suits

\* At the end of a way a leaf is added.
LEMMA EndGrowing ==
  ASSUME NEW h, NEW U, NEW T, NEW S, NEW V, NEW k, NEW leaf, NEW i, NEW l, PlaceFacts(h, U, T, S, V, k, leaf, i, l), NEW x, NEW m, AtEnd(h, U, S, k, x, l, m),
         NEW new, new \in DOMAIN h, new \notin U, new # 0, NEW side, side = Way(h, l, k), NEW g, Planted(g, h, l, side, new, h[l].index, k)
  PROVE  Growing(g, h, U, T, S, l, side, new, k)
  <1>1. /\ OnWay(h, U, T, S, k, i, l) /\ Shape(h, U, T, S, NoNode) /\ LooseFacts(h, U, T, S) /\ Keys(h, U, T, S, NoNode, V) /\ IsHeap(h)
        /\ k \in Seq(Int) /\ l \in U
    BY DEF PlaceFacts
  <1>2. side \in Around /\ h[l][side] = 0 /\ m \in U \cup {0} /\ l \in S[h[m].mid]
    BY DEF AtEnd
  <1>3. Grown(g, h, l, side, new, k)
    BY DEF Planted, Grown
  <1>4. \A y \in U : h[y].index \in Int /\ h[y].cbyte \in Int /\ Byte(k, h[y].index) \in Int
    <2> TAKE y \in U
    <2>1. y \in DOMAIN h
      BY <1>1 DEF LooseFacts
    <2>2. h[y].index \in Int /\ h[y].cbyte \in Int
      BY <1>1, <2>1, HeapFields
    <2> QED BY <1>1, <2>2, ByteIn
  <1>5. ASSUME NEW y \in U, Way(h, y, k) \in Around PROVE Ahead(Way(h, y, k), Byte(k, h[y].index), h[y].cbyte)
    BY <1>4, <1>5 DEF Way, Ahead, Around
  <1>6. Ahead(side, Byte(k, h[l].index), h[l].cbyte)
    BY <1>1, <1>2, <1>5
  <1>7. ASSUME NEW y \in U, NEW s \in Around, l \in S[h[y][s]] PROVE Ahead(s, Byte(k, h[l].index), h[y].cbyte)
    <2>1. s \in Sides /\ h[y][s] \in U \cup {0} /\ S[0] = {} /\ Loose(h, U, T, S, NoNode)
      BY <1>1 DEF LooseFacts, Around, Sides, Shape
    <2>2. h[y][s] \in U /\ l \in S[h[y][s]]
      BY <1>7, <2>1
    <2>3. l \in T[h[y][s]]
      BY <2>1, <2>2, LevelIs
    <2>4. Way(h, y, k) = s
      BY <1>1, <2>1, <2>3 DEF OnWay, Leads
    <2>5. Ahead(s, Byte(k, h[y].index), h[y].cbyte)
      BY <1>5, <2>4
    <2>6. Mid(h, NoNode, m) = h[m].mid /\ h[m].mid \in U
      BY <1>1, <1>2, <2>1 DEF LooseFacts
    <2>7. l \in S[y]
      <3>1. S[y] = {y} \cup S[h[y]["left"]] \cup S[h[y]["right"]]
        BY <2>1 DEF Loose, Levels
      <3> QED BY <1>7, <3>1 DEF Around
    <2>8. y \in S[h[m].mid]
      <3>1. PICK z : z = h[m].mid
        OBVIOUS
      <3>2. z \in U /\ z = Mid(h, NoNode, m)
        BY <2>6, <3>1
      <3>3. y \in S[z]
        BY <1>1, <1>2, <2>7, <3>1, <3>2, ClimbIn
      <3> QED BY <3>1, <3>3
    <2>9. h[y].index = h[l].index
      <3>1. y \in S[h[m].mid] \ {NoNode} /\ l \in S[h[m].mid] \ {NoNode} /\ m \in (U \cup {0}) \ {NoNode}
        BY <1>1, <1>2, <2>8 DEF LooseFacts
      <3> QED BY <1>1, <3>1 DEF Keys, Aligned
    <2> QED BY <2>5, <2>9
  <1>8. Fits(h, U, S, l, side, Byte(k, h[l].index))
    BY <1>6, <1>7 DEF Fits
  <1> QED BY <1>1, <1>2, <1>3, <1>8 DEF Growing

\* Elsewhere a level is put under l.
Splits(h, T, S, V, k, leaf, i, x, l) ==
  /\ Between(h, T, S, V, l, i, Byte(h[leaf].item, i)) /\ AgreesBelow(h, T, V, l, i, k) /\ Byte(k, h[l].index) = h[l].cbyte
  /\ Byte(k, i) # Byte(h[leaf].item, i) /\ BelowIs(h, l, x) /\ i \in Int /\ Byte(h[leaf].item, i) \in Int /\ Byte(k, i) \in Int
LEMMA SplitsAt ==
  ASSUME NEW h, NEW U, NEW T, NEW S, NEW V, NEW k, NEW leaf, NEW i, NEW l, PlaceFacts(h, U, T, S, V, k, leaf, i, l), NEW x,
         AtLevel(h, U, T, k, i, x, l, leaf) \/ AtLeaf(h, k, x, l, leaf)
  PROVE  Splits(h, T, S, V, k, leaf, i, x, l)
  <1>1. /\ GoodFacts(h, U, T, S, V) /\ l \in U /\ leaf \in U /\ leaf \in T[l] /\ h[leaf].mid = 0 /\ h[l].index <= i
        /\ DiffersAt(k, h[leaf].item, i) /\ (leaf \notin V => 0 <= i) /\ k \in Seq(Int)
        /\ Shape(h, U, T, S, NoNode) /\ LooseFacts(h, U, T, S) /\ Keys(h, U, T, S, NoNode, V) /\ IsHeap(h) /\ NoNode \notin U
    BY DEF PlaceFacts
  <1>2. Way(h, l, k) = "mid" /\ h[l].mid \in U \cup {0} /\ l \in DOMAIN h /\ leaf \in DOMAIN h /\ T[0] = {} /\ S[0] = {} /\ 0 \notin U
    BY <1>1 DEF AtLevel, AtLeaf, AtItem, LooseFacts
  <1>3. Byte(k, h[l].index) = h[l].cbyte
    BY <1>2 DEF Way
  <1>4. h[l].index \in Int /\ h[leaf].item \in Seq(Int) /\ i \in Int
    BY <1>1, <1>2, HeapFields DEF DiffersAt
  <1>5. Byte(h[leaf].item, i) \in Int /\ Byte(k, i) \in Int
    BY <1>1, <1>4, ByteIn
  \* The leaf is l, or under its middle son.
  <1>6. (x = l /\ leaf = l /\ h[l].mid = 0) \/ (x \in U /\ x = h[l].mid /\ h[x].index > i /\ leaf \in T[x])
    BY DEF AtLevel, AtLeaf, AtItem
  <1>7. l \notin V /\ leaf \notin V /\ Byte(h[leaf].item, h[l].index) = h[l].cbyte
    <2>1. CASE AtLeaf(h, k, x, l, leaf)
      <3>1. leaf = l /\ AtItem(h, l, k)
        BY <2>1 DEF AtLeaf
      <3>2. HasKey(h, U, V, l)
        BY <1>1, <3>1, ItemHasKey
      <3>3. l \notin V /\ h[l].mid = 0 /\ l \in U \ {NoNode}
        BY <1>1, <3>2 DEF HasKey
      <3>4. Byte(h[l].item, h[l].index) = h[l].cbyte
        BY <1>1, <3>3 DEF Keys, Spelled
      <3> QED BY <3>1, <3>3, <3>4
    <2>2. CASE AtLevel(h, U, T, k, i, x, l, leaf)
      <3>1. leaf \in T[h[l].mid] /\ h[l].mid # 0
        BY <1>2, <2>2 DEF AtLevel
      <3>2. leaf \notin V
        BY <1>1, <3>1, LeftIsAbove
      <3>3. l \notin V
        <4>1. Left(h, S, NoNode, V)
          BY <1>1 DEF Keys
        <4> QED BY <3>1, <4>1 DEF Left
      <3>4. leaf \in Keyed(h, T, V, NoNode, l) /\ l \in U \ {NoNode}
        BY <1>1, <3>1, <3>2 DEF Keyed
      <3>5. Byte(h[leaf].item, h[l].index) = h[l].cbyte
        BY <1>1, <3>4 DEF Keys, Spelled
      <3> QED BY <3>2, <3>3, <3>5
    <2> QED BY <2>1, <2>2
  <1>8. 0 <= i /\ Byte(k, i) # Byte(h[leaf].item, i)
    BY <1>1, <1>7 DEF DiffersAt
  <1>9. h[l].index < i
    <2>1. h[l].index # i
      BY <1>3, <1>7, <1>8
    <2> QED BY <1>1, <1>4, <2>1
  <1>10. \A r \in S[h[l].mid] \ {NoNode} : i < h[r].index
    <2> SUFFICES ASSUME NEW r \in S[h[l].mid] \ {NoNode} PROVE i < h[r].index
      OBVIOUS
    <2>1. x \in U /\ x = h[l].mid /\ h[x].index > i
      BY <1>2, <1>6
    <2>2. x \in S[x] /\ S[x] \subseteq U
      BY <1>1, <2>1 DEF LooseFacts
    <2>3. x \in S[h[l].mid] \ {NoNode} /\ l \in (U \cup {0}) \ {NoNode}
      BY <1>1, <2>1, <2>2
    <2>4. h[r].index = h[x].index
      BY <1>1, <2>3 DEF Keys, Aligned
    <2>5. r \in U
      BY <2>1, <2>2
    <2>6. r \in DOMAIN h
      BY <1>1, <2>5 DEF LooseFacts
    <2>7. h[r].index \in Int
      BY <1>1, <2>6, HeapFields
    <2> QED BY <1>4, <2>1, <2>4, <2>7
  <1>11. ASSUME NEW y \in Keyed(h, T, V, NoNode, l), NEW j \in Int, 0 <= j, j <= i
         PROVE  Byte(h[y].item, j) = Byte(h[leaf].item, j)
    <2>1. y \in T[h[l].mid]
      BY DEF Keyed
    <2>2. x \in U /\ x = h[l].mid /\ h[x].index > i /\ leaf \in T[x]
      BY <1>2, <1>6, <2>1
    <2>3. leaf \in Keyed(h, T, V, NoNode, l) /\ l \in U \ {NoNode}
      BY <1>1, <1>7, <2>2 DEF Keyed
    <2>4. x \in S[x]
      BY <1>1, <2>2 DEF LooseFacts
    <2>5. x \in S[h[l].mid] \ {NoNode}
      BY <1>1, <2>2, <2>4
    <2>6. i < h[x].index
      BY <1>10, <2>5
    <2>7. h[x].index \in Int
      <3>1. x \in DOMAIN h
        BY <1>1, <2>2 DEF LooseFacts
      <3> QED BY <1>1, <3>1, HeapFields
    <2>8. j < h[x].index
      BY <1>4, <1>11, <2>6, <2>7
    <2> QED BY <1>1, <1>11, <2>3, <2>5, <2>8 DEF Keys, Agreeing
  <1>12. h[l].mid = 0 => leaf = l
    BY <1>2, <1>6
  <1>13. Between(h, T, S, V, l, i, Byte(h[leaf].item, i))
    <2>1. \A y \in Keyed(h, T, V, NoNode, l) : Byte(h[y].item, i) = Byte(h[leaf].item, i)
      <3>1. i <= i /\ 0 <= i /\ i \in Int
        BY <1>4, <1>8
      <3> QED BY <1>11, <3>1
    <2> QED BY <1>7, <1>9, <1>10, <1>12, <2>1 DEF Between
  <1>14. AgreesBelow(h, T, V, l, i, k)
    <2> SUFFICES ASSUME NEW j \in Int, 0 <= j, j < i
                 PROVE  /\ \A y \in Keyed(h, T, V, NoNode, l) : Byte(k, j) = Byte(h[y].item, j)
                        /\ h[l].mid = 0 => Byte(k, j) = Byte(h[l].item, j)
      BY DEF AgreesBelow
    <2>1. Byte(k, j) = Byte(h[leaf].item, j)
      BY <1>1 DEF DiffersAt
    <2>2. j <= i
      BY <1>4
    <2>3. \A y \in Keyed(h, T, V, NoNode, l) : Byte(h[y].item, j) = Byte(h[leaf].item, j)
      BY <1>11, <2>2
    <2> QED BY <1>12, <2>1, <2>3
  <1>15. BelowIs(h, l, x)
    <2>1. CASE x = l /\ h[l].mid = 0
      BY <2>1 DEF BelowIs
    <2>2. CASE x \in U /\ x = h[l].mid
      <3>1. l \notin T[h[l].mid] /\ x \in T[x]
        <4>1. Bounded(h, U, T, NoNode) /\ Son(h, NoNode, l, "mid") = h[l]["mid"] /\ "mid" \in Sides /\ x \in T[x]
          BY <1>1, <2>2 DEF Shape, Loose, LooseFacts, Sides
        <4>2. l \notin T[Son(h, NoNode, l, "mid")]
          BY <1>1, <4>1 DEF Bounded
        <4> QED BY <4>1, <4>2
      <3>2. l # x
        BY <2>2, <3>1
      <3>3. h[l].item = NoKey
        <4>1. h[l].mid # 0 /\ l \in U \ {NoNode}
          BY <1>1, <1>2, <2>2
        <4> QED BY <1>1, <4>1 DEF Keys, Items
      <3> QED BY <2>2, <3>2, <3>3 DEF BelowIs
    <2> QED BY <1>6, <2>1, <2>2
  <1> QED BY <1>3, <1>4, <1>5, <1>8, <1>13, <1>14, <1>15 DEF Splits

\* A son that is none already.
LEMMA SetSonSame ==
  ASSUME NEW h, IsHeap(h), NEW p \in DOMAIN h, NEW side \in Sides, h[p][side] = 0
  PROVE  SetSon(h, p, side, 0) = h
  <1>1. PICK r : r = h[p]
    OBVIOUS
  <1>2. r = [cbyte |-> r.cbyte, index |-> r.index, color |-> r.color, item |-> r.item,
             left |-> r.left, mid |-> r.mid, right |-> r.right, parent |-> r.parent]
    BY <1>1, HeapFields
  <1>3. [r EXCEPT ![side] = 0] = r
    <2>1. CASE side = "left"
      <3>1. r.left = 0
        BY <1>1, <2>1
      <3>2. [r EXCEPT !.left = 0] = r
        BY <1>2, <3>1
      <3> QED BY <2>1, <3>2
    <2>2. CASE side = "mid"
      <3>1. r.mid = 0
        BY <1>1, <2>2
      <3>2. [r EXCEPT !.mid = 0] = r
        BY <1>2, <3>1
      <3> QED BY <2>2, <3>2
    <2>3. CASE side = "right"
      <3>1. r.right = 0
        BY <1>1, <2>3
      <3>2. [r EXCEPT !.right = 0] = r
        BY <1>2, <3>1
      <3> QED BY <2>3, <3>2
    <2> QED BY <2>1, <2>2, <2>3 DEF Sides
  <1>4. SetSon(h, p, side, 0) = [h EXCEPT ![p] = [r EXCEPT ![side] = 0]]
    BY <1>1 DEF SetSon
  <1>5. PICK N, I : N = DOMAIN h /\ h \in HeapOver(N, I)
    BY HeapWith
  <1>6. PICK X : h \in [N -> X]
    BY <1>5 DEF HeapOver
  <1>7. [h EXCEPT ![p] = r] = h
    BY <1>1, <1>5, <1>6
  <1> QED BY <1>3, <1>4, <1>7

\* What hung under p is lost; the levels stay.
LEMMA CutMid ==
  ASSUME NEW h, NEW U, NEW T, NEW S, NEW b, Loose(h, U, T, S, NoNode), Even(h, U, b), NEW p \in U, NEW g, g = SetSon(h, p, "mid", 0)
  PROVE  Loose(g, U, T, S, NoNode) /\ Even(g, U, b) /\ DOMAIN g = DOMAIN h
  <1>1. Wired(h, U, NoNode) /\ Bounded(h, U, T, NoNode) /\ Levels(h, U, S) /\ Sorted(h, U, S, NoNode) /\ LooseFacts(h, U, T, S) /\ IsHeap(h)
    BY LooseFactsAre DEF Loose, Wired
  <1>2. p \in DOMAIN h /\ 0 \in DOMAIN h /\ p # 0 /\ "mid" \in Sides /\ NoNode \notin U \cup {0}
    BY <1>1 DEF LooseFacts, Sides
  <1>3. SonSet(g, h, p, "mid", 0)
    BY <1>1, <1>2, SetSonIs
  <1>4. IsHeap(g) /\ DOMAIN g = DOMAIN h
    BY <1>3 DEF SonSet
  <1>5. \A x \in U \cup {0} :
          /\ x \in DOMAIN h /\ SameData(g, h, x) /\ g[x].color = h[x].color /\ g[x].parent = h[x].parent
          /\ g[x]["left"] = h[x]["left"] /\ g[x]["right"] = h[x]["right"]
          /\ Mid(g, NoNode, x) = g[x].mid /\ Mid(h, NoNode, x) = h[x].mid
          /\ g[x].mid = IF x = p THEN 0 ELSE h[x].mid
    <2> TAKE x \in U \cup {0}
    <2>1. x \in DOMAIN h /\ x # NoNode
      BY <1>1, <1>2 DEF LooseFacts
    <2>2. SameData(g, h, x) /\ g[x].color = h[x].color /\ g[x].parent = h[x].parent
      BY <1>3, <2>1 DEF SonSet
    <2>3. \A s \in Sides : g[x][s] = IF x = p /\ s = "mid" THEN 0 ELSE h[x][s]
      BY <1>3, <2>1 DEF SonSet
    <2>4. g[x]["left"] = h[x]["left"] /\ g[x]["right"] = h[x]["right"] /\ g[x]["mid"] = IF x = p THEN 0 ELSE h[x]["mid"]
      BY <2>3 DEF Sides
    <2> QED BY <2>1, <2>2, <2>4 DEF Mid
  <1>6. \A x \in U \cup {0} : \A s \in Sides : Son(g, NoNode, x, s) = Son(h, NoNode, x, s) \/ Son(g, NoNode, x, s) = 0
    BY <1>5 DEF Son, Sides
  <1>7. \A x \in U \cup {0} : \A s \in Around : g[x][s] = h[x][s]
    BY <1>5 DEF Around
  <1>8. Wired(g, U, NoNode)
    <2>1. /\ IsFiniteSet(DOMAIN g) /\ NoNode \notin DOMAIN g /\ U \subseteq DOMAIN g \ {0}
          /\ g[0]["left"] = 0 /\ g[0]["right"] = 0 /\ g[0].color = BLACK
      BY <1>1, <1>4, <1>5 DEF Wired
    <2>2. \A x \in U \cup {0}, s \in Sides : Son(g, NoNode, x, s) \in U \cup {0}
      BY <1>1, <1>6 DEF Wired
    <2>3. \A x \in U, s \in Around : g[x][s] # 0 => g[g[x][s]].parent = x
      <3> SUFFICES ASSUME NEW x \in U, NEW s \in Around, g[x][s] # 0 PROVE g[g[x][s]].parent = x
        OBVIOUS
      <3>1. g[x][s] = h[x][s] /\ h[x][s] # 0
        BY <1>7
      <3>2. h[h[x][s]].parent = x
        BY <1>1, <3>1 DEF Wired
      <3>3. h[x][s] \in U \cup {0}
        BY <1>1, AroundIn
      <3> QED BY <1>5, <3>1, <3>2, <3>3
    <2>4. \A x \in U : g[x]["left"] = g[x]["right"] => g[x]["left"] = 0
      BY <1>1, <1>5 DEF Wired
    <2>5. \A x \in U \cup {0} : Mid(g, NoNode, x) # 0 => g[Mid(g, NoNode, x)].parent = 0
      <3> SUFFICES ASSUME NEW x \in U \cup {0}, Mid(g, NoNode, x) # 0 PROVE g[Mid(g, NoNode, x)].parent = 0
        OBVIOUS
      <3>1. Mid(g, NoNode, x) = Mid(h, NoNode, x) /\ Mid(h, NoNode, x) # 0
        BY <1>5
      <3>2. h[Mid(h, NoNode, x)].parent = 0
        BY <1>1, <3>1 DEF Wired
      <3>3. Mid(h, NoNode, x) \in U \cup {0}
        BY <1>1, <1>5 DEF LooseFacts
      <3> QED BY <1>5, <3>1, <3>2, <3>3
    <2>6. \A x, y \in U \cup {0} : Mid(g, NoNode, x) = Mid(g, NoNode, y) /\ Mid(g, NoNode, x) # 0 => x = y
      <3> SUFFICES ASSUME NEW x \in U \cup {0}, NEW y \in U \cup {0}, Mid(g, NoNode, x) = Mid(g, NoNode, y), Mid(g, NoNode, x) # 0 PROVE x = y
        OBVIOUS
      <3>1. Mid(g, NoNode, x) = Mid(h, NoNode, x) /\ Mid(g, NoNode, y) = Mid(h, NoNode, y)
        BY <1>5
      <3>2. Mid(h, NoNode, x) = Mid(h, NoNode, y) /\ Mid(h, NoNode, x) # 0
        BY <3>1
      <3> QED BY <1>1, <3>2 DEF Wired
    <2> QED BY <1>4, <2>1, <2>2, <2>3, <2>4, <2>5, <2>6 DEF Wired
  <1>9. Bounded(g, U, T, NoNode)
    <2>1. T \in [DOMAIN g -> SUBSET DOMAIN g] /\ T[0] = {}
      BY <1>1, <1>4 DEF Bounded
    <2>2. \A x \in U : x \in T[x] /\ \A s \in Sides : T[Son(g, NoNode, x, s)] \subseteq T[x] /\ x \notin T[Son(g, NoNode, x, s)]
      <3> TAKE x \in U
      <3>1. x \in T[x] /\ \A s \in Sides : T[Son(h, NoNode, x, s)] \subseteq T[x] /\ x \notin T[Son(h, NoNode, x, s)]
        BY <1>1 DEF Bounded
      <3> QED BY <1>6, <2>1, <3>1
    <2> QED BY <2>1, <2>2 DEF Bounded
  <1>10. Levels(g, U, S)
    BY <1>1, <1>4, <1>5 DEF Levels
  <1>11. Sorted(g, U, S, NoNode)
    <2>1. \A x \in U : g[x]["left"] = h[x]["left"] /\ g[x]["right"] = h[x]["right"] /\ g[x].cbyte = h[x].cbyte
      BY <1>5 DEF SameData
    <2>2. \A x \in U : S[h[x]["left"]] \subseteq U /\ S[h[x]["right"]] \subseteq U
      <3> TAKE x \in U
      <3>1. h[x]["left"] \in U \cup {0} /\ h[x]["right"] \in U \cup {0}
        BY <1>1 DEF LooseFacts, Sides
      <3>2. S[0] = {} /\ \A y \in U : S[y] \subseteq U
        BY <1>1 DEF LooseFacts
      <3> QED BY <3>1, <3>2
    <2>3. ASSUME NEW x \in U \ {NoNode}
          PROVE /\ \A y \in S[g[x]["left"]] \ {NoNode} : g[y].cbyte < g[x].cbyte
                /\ \A y \in S[g[x]["right"]] \ {NoNode} : g[y].cbyte > g[x].cbyte
      <3>1. /\ \A y \in S[h[x]["left"]] \ {NoNode} : h[y].cbyte < h[x].cbyte
            /\ \A y \in S[h[x]["right"]] \ {NoNode} : h[y].cbyte > h[x].cbyte
        BY <1>1 DEF Sorted
      <3> QED BY <2>1, <2>2, <3>1
    <2> QED BY <2>3 DEF Sorted
  <1>12. Counts(g, U, b, NoNode, NoNode, 0)
    <2>1. Counts(h, U, b, NoNode, NoNode, 0)
      BY DEF Even
    <2>2. \A x \in U \ {NoNode}, s \in Around : b[x] = Seen(b, NoNode, 0, g[x][s]) + Blk(g, x)
      <3> SUFFICES ASSUME NEW x \in U \ {NoNode}, NEW s \in Around PROVE b[x] = Seen(b, NoNode, 0, g[x][s]) + Blk(g, x)
        OBVIOUS
      <3>1. b[x] = Seen(b, NoNode, 0, h[x][s]) + Blk(h, x)
        BY <2>1 DEF Counts
      <3>2. Blk(g, x) = Blk(h, x) /\ g[x][s] = h[x][s]
        BY <1>5, <1>7 DEF Blk
      <3> QED BY <3>1, <3>2
    <2> QED BY <1>4, <2>1, <2>2 DEF Counts
  <1>13. Reds(g, U, NoNode, NoNode)
    <2>1. Reds(h, U, NoNode, NoNode)
      BY DEF Even
    <2>2. \A x \in U \ {NoNode}, s \in Around : g[x].color = RED /\ g[x][s] # NoNode => g[g[x][s]].color = BLACK
      <3> SUFFICES ASSUME NEW x \in U \ {NoNode}, NEW s \in Around, g[x].color = RED, g[x][s] # NoNode PROVE g[g[x][s]].color = BLACK
        OBVIOUS
      <3>1. h[x].color = RED /\ g[x][s] = h[x][s]
        BY <1>5, <1>7
      <3>2. h[h[x][s]].color = BLACK
        BY <2>1, <3>1 DEF Reds
      <3>3. h[x][s] \in U \cup {0}
        BY <1>1, AroundIn
      <3> QED BY <1>5, <3>1, <3>2, <3>3
    <2>3. \A x \in U \cup {0} : Mid(g, NoNode, x) \notin {0, NoNode} => g[Mid(g, NoNode, x)].color = BLACK
      <3> SUFFICES ASSUME NEW x \in U \cup {0}, Mid(g, NoNode, x) \notin {0, NoNode} PROVE g[Mid(g, NoNode, x)].color = BLACK
        OBVIOUS
      <3>1. Mid(g, NoNode, x) = Mid(h, NoNode, x)
        BY <1>5
      <3>2. h[Mid(h, NoNode, x)].color = BLACK
        BY <2>1, <3>1 DEF Reds
      <3>3. Mid(h, NoNode, x) \in U \cup {0}
        BY <1>1, <1>5 DEF LooseFacts
      <3> QED BY <1>5, <3>1, <3>2, <3>3
    <2> QED BY <2>2, <2>3 DEF Reds
  <1> QED BY <1>4, <1>8, <1>9, <1>10, <1>11, <1>12, <1>13 DEF Loose, Even

(***************************************************************************)
(* insert: the tree stays whole, with the key, or there was no node.       *)
(***************************************************************************)
WholeBy(t, N, bs, us, K, h, U, T, S, b, V, idle, cost, B, o) ==
  /\ t = State(h, idle, cost, B, o, bs, us) /\ DOMAIN h = N /\ Room(B, o, bs, us)
  /\ Good(h, U, T, S, b, V) /\ KeysOf(h, T, V, NoNode) = K /\ Pool(idle, cost, U, B * us + o)
\* The tree t over the nodes N is whole: it has the keys K, and the pool the other nodes.
Whole(t, N, bs, us, K) == \E h, U, T, S, b, V, idle, cost, B, o : WholeBy(t, N, bs, us, K, h, U, T, S, b, V, idle, cost, B, o)

StoppedBy(t, N, bs, us, h, U, T, S, b, cost, o) ==
  /\ t = State(h, <<>>, cost, bs, o, bs, us) /\ DOMAIN h = N /\ Room(bs, o, bs, us)
  /\ Loose(h, U, T, S, NoNode) /\ Even(h, U, b)
\* There is no node any more: part of the tree may be lost, the levels are as they were.
Stopped(t, N, bs, us) == \E h, U, T, S, b, cost, o : StoppedBy(t, N, bs, us, h, U, T, S, b, cost, o)

\* A leaf is added, and its level is balanced.
GrownTo(e, h, W, V, K) == \E R, Q, c : Good(e, W, R, Q, c, V) /\ KeysOf(e, R, V, NoNode) = K /\ DOMAIN e = DOMAIN h

LEMMA GrowAdding ==
  ASSUME NEW g, NEW h, NEW U, NEW T, NEW S, NEW p, NEW side, NEW new, NEW k, Growing(g, h, U, T, S, p, side, new, k),
         NEW R, NEW Q, R = More(T, p, new), Q = More(S, p, new), NEW b, Even(h, U, b), NEW c, c = [b EXCEPT ![new] = 0],
         NEW lev \in U \cup {0}, p \in S[h[lev].mid]
  PROVE  Adding(g, U \cup {new}, R, Q, c, lev, new)
  <1>1. Shape(g, U \cup {new}, R, Q, NoNode)
    BY GrowShape
  <1>2. Counts(g, U \cup {new}, c, NoNode, new, 0) /\ Reds(g, U \cup {new}, NoNode, new)
    BY GrowCounts
  <1>3. GrowFacts(g, h, U, T, S, p, side, new, R, Q)
    BY GrowFactsAre
  <1>4. new \in Q[g[lev].mid]
    <2>1. g[lev].mid = h[lev].mid /\ h[lev].mid \in U \cup {0}
      BY <1>3 DEF GrowFacts
    <2>2. PICK x : x = h[lev].mid
      OBVIOUS
    <2>3. x \in U \cup {0} /\ p \in S[x]
      BY <2>1, <2>2
    <2>4. Q[x] = IF p \in S[x] THEN S[x] \cup {new} ELSE S[x]
      BY <1>3, <2>3 DEF GrowFacts
    <2> QED
      BY <2>1, <2>2, <2>3, <2>4
  <1>5. g[new].color = RED
    BY DEF Growing, Grown
  <1>6. g[0].color = BLACK
    BY <1>1 DEF Shape, Loose, Wired
  <1>7. \A s \in Around : g[new][s] = 0
    BY <1>3 DEF GrowFacts, Around
  <1>8. \A s \in Around : g[g[new][s]].color = BLACK
    BY <1>6, <1>7
  <1> QED
    BY <1>1, <1>2, <1>4, <1>5, <1>8 DEF Adding

LEMMA GrowBalances ==
  ASSUME NEW g, NEW h, NEW U, NEW T, NEW S, NEW p, NEW side, NEW new, NEW k, Growing(g, h, U, T, S, p, side, new, k),
         NEW b, NEW V, Good(h, U, T, S, b, V), Suits(h, U, T, S, V, p, k), Text(k),
         NEW lev \in U \cup {0}, p \in S[h[lev].mid], NEW e, e = AddFixup(g, lev, new), NEW W, W = U \cup {new}
  PROVE  GrownTo(e, h, W, V, KeysOf(h, T, V, NoNode) \cup {k})
  <1>1. PICK R, Q, c : R = More(T, p, new) /\ Q = More(S, p, new) /\ c = [b EXCEPT ![new] = 0]
    OBVIOUS
  <1>2. Even(h, U, b) /\ Keys(h, U, T, S, NoNode, V) /\ Two(h, U, S, NoNode, 0) /\ U = T[h[0].mid]
    BY DEF Good
  <1>3. Adding(g, W, R, Q, c, lev, new)
    BY <1>1, <1>2, GrowAdding
  <1>4. Keys(g, W, R, Q, NoNode, V) /\ KeysOf(g, R, V, NoNode) = KeysOf(h, T, V, NoNode) \cup {k} /\ W = R[g[0].mid]
    <2>1. Growing(g, h, U, T, S, p, side, new, k) /\ R = More(T, p, new) /\ Q = More(S, p, new)
      BY <1>1
    <2>2. Keys(h, U, T, S, NoNode, V) /\ Suits(h, U, T, S, V, p, k) /\ Text(k) /\ U = T[h[0].mid]
      BY <1>2
    <2>3. GrowKeysFrom(g, h, U, T, S, V, p, side, new, k, R, Q)
      BY <2>1, <2>2 DEF GrowKeysFrom
    <2>4. GrowKeysTo(g, h, U, T, V, new, k, R, Q)
      BY <2>3, GrowKeys
    <2> QED
      BY <2>4 DEF GrowKeysTo
  <1>5. Two(g, W, Q, NoNode, 0)
    BY <1>1, <1>2, GrowTwo
  <1>6. PICK A, B, d : Shape(e, W, A, B, NoNode) /\ Even(e, W, d) /\ Alike(g, R, Q, e, A, B, W, NoNode, lev)
    BY <1>3, AddBalances
  <1>7. Shape(g, W, R, Q, NoNode)
    BY <1>3 DEF Adding
  <1>8. NoNode # 0
    BY DEF NoNode
  <1>9. Keys(e, W, A, B, NoNode, V) /\ KeysOf(e, A, V, NoNode) = KeysOf(g, R, V, NoNode)
    BY <1>4, <1>6, <1>7, <1>8, AlikeKeys
  <1>10. Two(e, W, B, NoNode, 0)
    BY <1>5, <1>6, AlikeTwo
  <1>11. W = A[e[0].mid]
    <2>1. NoNode \notin W \cup {0}
      BY <1>7, NoHole
    <2>2. A[e[0].mid] \subseteq W
      BY <1>6, <2>1, MidIn
    <2>3. A[e[0].mid] \ {NoNode} = R[g[0].mid] \ {NoNode}
      BY <1>6, <2>1 DEF Alike
    <2> QED
      BY <1>4, <2>1, <2>2, <2>3
  <1>12. DOMAIN e = DOMAIN h
    BY <1>6 DEF Alike, Growing, Grown
  <1>13. Good(e, W, A, B, d, V)
    BY <1>6, <1>9, <1>10, <1>11 DEF Good
  <1>14. KeysOf(e, A, V, NoNode) = KeysOf(h, T, V, NoNode) \cup {k}
    BY <1>4, <1>9
  <1> QED
    BY <1>12, <1>13, <1>14 DEF GrownTo

\* A node a is put under l, and k belongs beside it.
LevelReady(h, U, T, S, b, V, l, k, i, c, a, g) ==
  /\ Good(h, U, T, S, b, V) /\ Lifting(g, h, U, T, S, l, a, i, c) /\ Between(h, T, S, V, l, i, c)
  /\ AgreesBelow(h, T, V, l, i, k) /\ Suits(h, U, T, S, V, l, k) /\ Byte(k, h[l].index) = h[l].cbyte /\ Text(k)

\* What is there then.
LevelFacts(g, h, W, R, Q, d, V, K, l, k, a) ==
  /\ Shape(g, W, R, Q, NoNode) /\ Even(g, W, d) /\ Keys(g, W, R, Q, NoNode, V) /\ KeysOf(g, R, V, NoNode) = K
  /\ W = R[g[0].mid] /\ Suits(g, W, R, Q, V, a, k) /\ Two(g, W, Q, NoNode, l) /\ g[l].mid = a /\ g[a].color = BLACK
  /\ DOMAIN g = DOMAIN h

LEMMA LevelLifts ==
  ASSUME NEW h, NEW U, NEW T, NEW S, NEW b, NEW V, NEW l, NEW k, NEW i, NEW c, NEW a, NEW g, LevelReady(h, U, T, S, b, V, l, k, i, c, a, g),
         NEW R, NEW Q, R = LiftT(T, h, l, a), Q = LiftS(S, a), NEW W, W = U \cup {a}, NEW d, d = [b EXCEPT ![a] = 1]
  PROVE  LevelFacts(g, h, W, R, Q, d, V, KeysOf(h, T, V, NoNode), l, k, a)
  <1>1. /\ Lifting(g, h, U, T, S, l, a, i, c) /\ Between(h, T, S, V, l, i, c)
        /\ AgreesBelow(h, T, V, l, i, k) /\ Suits(h, U, T, S, V, l, k) /\ Byte(k, h[l].index) = h[l].cbyte /\ Text(k)
    BY DEF LevelReady
  <1>2. Even(h, U, b) /\ Keys(h, U, T, S, NoNode, V) /\ Two(h, U, S, NoNode, 0) /\ U = T[h[0].mid]
    BY DEF LevelReady, Good
  <1>3. R = LiftT(T, h, l, a) /\ Q = LiftS(S, a)
    OBVIOUS
  <1>4. Shape(g, U \cup {a}, R, Q, NoNode)
    BY ONLY <1>1, <1>3, LiftShape
  <1>5. Even(g, U \cup {a}, d)
    BY <1>1, <1>2, LiftEven
  <1>6. LiftKeysFrom(g, h, U, T, S, V, l, a, i, c, R, Q)
    BY <1>1, <1>2, <1>3 DEF LiftKeysFrom
  <1>7. LiftKeysTo(g, h, U, T, V, a, R, Q)
    BY <1>6, LiftKeys
  <1>9. /\ Keys(g, U \cup {a}, R, Q, NoNode, V) /\ KeysOf(g, R, V, NoNode) = KeysOf(h, T, V, NoNode)
        /\ U \cup {a} = R[g[0].mid] /\ a \notin V
    BY <1>7 DEF LiftKeysTo
  <1>10. Suits(g, U \cup {a}, R, Q, V, a, k)
    BY ONLY <1>1, <1>3, <1>9, LiftSuits
  <1>11. Two(g, U \cup {a}, Q, NoNode, l)
    BY ONLY <1>1, <1>2, <1>3, LiftTwo
  <1>12. g[a].color = BLACK /\ DOMAIN g = DOMAIN h
    BY <1>1 DEF Lifting, Lifted
  <1>13. g[l].mid = a
    <2>1. LiftFacts(g, h, U, T, S, l, a, R, Q)
      BY ONLY <1>1, <1>3, LiftFactsAre
    <2> QED
      BY <2>1 DEF LiftFacts
  <1> QED
    BY <1>4, <1>5, <1>9, <1>10, <1>11, <1>12, <1>13 DEF LevelFacts

\* A leaf with the key is added beside it.
LEMMA LevelGrows ==
  ASSUME NEW h, NEW U, NEW T, NEW S, NEW b, NEW V, NEW l, NEW k, NEW i, NEW c, NEW a, NEW g, LevelReady(h, U, T, S, b, V, l, k, i, c, a, g),
         NEW side, side \in Around, Ahead(side, Byte(k, i), c),
         NEW W, W = U \cup {a}, NEW new, new \in DOMAIN h, new \notin W, new # 0, NEW e, Grown(e, g, a, side, new, k)
  PROVE  GrownTo(e, h, W \cup {new}, V, KeysOf(h, T, V, NoNode) \cup {k})
  <1>1. PICK R, Q, d : R = LiftT(T, h, l, a) /\ Q = LiftS(S, a) /\ d = [b EXCEPT ![a] = 1]
    OBVIOUS
  <1>2. LevelFacts(g, h, W, R, Q, d, V, KeysOf(h, T, V, NoNode), l, k, a)
    BY <1>1, LevelLifts
  <1>3. /\ Shape(g, W, R, Q, NoNode) /\ Even(g, W, d) /\ Keys(g, W, R, Q, NoNode, V) /\ KeysOf(g, R, V, NoNode) = KeysOf(h, T, V, NoNode)
        /\ W = R[g[0].mid] /\ Suits(g, W, R, Q, V, a, k) /\ Two(g, W, Q, NoNode, l) /\ g[l].mid = a /\ g[a].color = BLACK
        /\ DOMAIN g = DOMAIN h
    BY <1>2 DEF LevelFacts
  <1>4. Lifting(g, h, U, T, S, l, a, i, c) /\ Text(k)
    BY DEF LevelReady
  <1>5. new \notin U \cup {a}
    OBVIOUS
  <1>6. Growing(e, g, U \cup {a}, R, Q, a, side, new, k)
    BY <1>1, <1>4, <1>5, LiftGrowing
  <1>7. Growing(e, g, W, R, Q, a, side, new, k)
    BY <1>6
  <1>8. PICK A, B : A = More(R, a, new) /\ B = More(Q, a, new)
    OBVIOUS
  <1>9. Shape(e, W \cup {new}, A, B, NoNode)
    BY <1>7, <1>8, GrowShape
  <1>10. PICK f : Even(e, W \cup {new}, f)
    BY <1>3, <1>7, GrowEven
  <1>11. GrowKeysFrom(e, g, W, R, Q, V, a, side, new, k, A, B)
    BY <1>3, <1>4, <1>7, <1>8 DEF GrowKeysFrom
  <1>12. GrowKeysTo(e, g, W, R, V, new, k, A, B)
    BY <1>11, GrowKeys
  <1>13. Two(e, W \cup {new}, B, NoNode, 0)
    BY <1>3, <1>7, <1>8, GrowTwo
  <1>14. DOMAIN e = DOMAIN h
    BY <1>3 DEF Grown
  <1>15. Keys(e, W \cup {new}, A, B, NoNode, V) /\ KeysOf(e, A, V, NoNode) = KeysOf(g, R, V, NoNode) \cup {k} /\ W \cup {new} = A[e[0].mid]
    BY <1>12 DEF GrowKeysTo
  <1>16. Good(e, W \cup {new}, A, B, f, V)
    BY <1>9, <1>10, <1>13, <1>15 DEF Good
  <1> QED
    BY <1>3, <1>14, <1>15, <1>16 DEF GrownTo

LEMMA WholeFrom ==
  ASSUME NEW t, NEW N, NEW bs, NEW us, NEW K, NEW e, NEW h, DOMAIN h = N, NEW W, NEW V, GrownTo(e, h, W, V, K),
         NEW idle, NEW cost, NEW B, NEW o, t = State(e, idle, cost, B, o, bs, us), Room(B, o, bs, us), Pool(idle, cost, W, B * us + o)
  PROVE  Whole(t, N, bs, us, K)
  <1>1. PICK R, Q, c : Good(e, W, R, Q, c, V) /\ KeysOf(e, R, V, NoNode) = K /\ DOMAIN e = DOMAIN h
    BY DEF GrownTo
  <1>2. WholeBy(t, N, bs, us, K, e, W, R, Q, c, V, idle, cost, B, o)
    BY <1>1 DEF WholeBy
  <1> QED
    BY <1>2 DEF Whole

LEMMA StoppedFrom ==
  ASSUME NEW t, NEW N, NEW bs, NEW us, NEW e, DOMAIN e = N, NEW W, NEW R, NEW Q, NEW c, Loose(e, W, R, Q, NoNode), Even(e, W, c),
         NEW cost, NEW o, t = State(e, <<>>, cost, bs, o, bs, us), Room(bs, o, bs, us)
  PROVE  Stopped(t, N, bs, us)
  <1>1. StoppedBy(t, N, bs, us, e, W, R, Q, c, cost, o)
    BY DEF StoppedBy
  <1> QED
    BY <1>1 DEF Stopped

\* What an insert comes to: there is no node, or the key is in the tree.
InsertedTo(ret, t, N, bs, us, K) == (ret = 1 /\ Stopped(t, N, bs, us)) \/ (ret = 0 /\ Whole(t, N, bs, us, K))

LEMMA EndInserts ==
  ASSUME NEW t, NEW N, NEW bs, NEW us, NEW K, NEW h, NEW U, NEW T, NEW S, NEW b, NEW V, NEW idle, NEW cost, NEW B, NEW o,
         WholeBy(t, N, bs, us, K, h, U, T, S, b, V, idle, cost, B, o), N = 0 .. bs * us,
         NEW k, NEW leaf, NEW i, NEW l, PlaceFacts(h, U, T, S, V, k, leaf, i, l), NEW x, NEW m, AtEnd(h, U, S, k, x, l, m),
         NEW add, add = AddSon(t, l, Way(h, l, k), h[l].index, k),
         NEW r, r = (IF add.ret = 0 THEN [add.t EXCEPT !.h = AddFixup(add.t.h, m, add.unit)] ELSE add.t)
  PROVE  InsertedTo(add.ret, r, N, bs, us, K \cup {k})
  <1>1. t = State(h, idle, cost, B, o, bs, us) /\ DOMAIN h = N /\ Room(B, o, bs, us) /\ Good(h, U, T, S, b, V)
        /\ KeysOf(h, T, V, NoNode) = K /\ Pool(idle, cost, U, B * us + o)
    BY DEF WholeBy
  <1>2. PICK side, index : side = Way(h, l, k) /\ index = h[l].index
    OBVIOUS
  <1>3. side \in Around /\ h[l][side] = 0 /\ m \in U \cup {0} /\ l \in S[h[m].mid]
    BY <1>2 DEF AtEnd
  <1>4. side \in Sides
    BY <1>3 DEF Around, Sides
  <1>5. l \in U /\ IsHeap(h) /\ k \in Seq(Int) /\ Text(k) /\ Loose(h, U, T, S, NoNode) /\ U \subseteq DOMAIN h \ {0}
    BY DEF PlaceFacts, Shape, Loose, Wired
  <1>6. l \in DOMAIN h /\ index \in Int
    BY <1>2, <1>5, HeapFields
  <1>7. PICK i1, c1, B1, o1, u : AllocTo(Alloc(t), h, idle, i1, cost, c1, B1, o1, bs, us, u, U)
    BY <1>1, AllocIs
  <1>8. Alloc(t) = [t |-> State(h, i1, c1, B1, o1, bs, us), unit |-> u] /\ Room(B1, o1, bs, us)
    BY <1>7 DEF AllocTo
  <1>9. CASE u = 0
    <2>1. i1 = <<>> /\ B1 = bs
      BY <1>7, <1>9 DEF AllocTo
    <2>2. Alloc(t) = [t |-> State(h, i1, c1, B1, o1, bs, us), unit |-> 0]
      BY <1>8, <1>9
    <2>3. add = [ret |-> 1, t |-> State(SetSon(h, l, side, 0), i1, c1, B1, o1, bs, us), unit |-> 0]
      BY <1>2, <2>2, AddSonFails
    <2>4. SetSon(h, l, side, 0) = h
      BY <1>3, <1>4, <1>5, <1>6, SetSonSame
    <2>5. add.ret = 1 /\ add.t = State(h, <<>>, c1, bs, o1, bs, us)
      BY <2>1, <2>3, <2>4
    <2>6. r = State(h, <<>>, c1, bs, o1, bs, us)
      BY <2>5
    <2>7. Stopped(r, N, bs, us)
      BY <1>1, <1>5, <1>8, <2>1, <2>6, StoppedFrom DEF Good
    <2> QED
      BY <2>5, <2>7 DEF InsertedTo
  <1>10. CASE u # 0
    <2>1. u \in N /\ u \notin U /\ Pool(i1, c1, U \cup {u}, B1 * us + o1)
      BY <1>7, <1>10 DEF AllocTo
    <2>2. u \in DOMAIN h
      BY <1>1, <2>1
    <2>3. PICK f : f = SetSon(h, l, side, u)
      OBVIOUS
    <2>4. PICK g : g = [f EXCEPT ![u] = NewLeaf(index, k, l)] /\ Plants(g, h, l, side, u, index, k)
      BY <2>3 DEF Plants
    <2>5. AddSon(t, l, side, index, k) = [ret |-> 0, t |-> State(g, i1, c1, B1, o1, bs, us), unit |-> u]
      <3>1. Alloc(t) = [t |-> State(h, i1, c1, B1, o1, bs, us), unit |-> u]
        BY <1>8
      <3>2. u # 0
        BY <1>10
      <3> QED
        BY ONLY <2>4, <3>1, <3>2, AddSonWorks
    <2>6. Planted(g, h, l, side, u, index, k)
      BY <1>4, <1>5, <1>6, <2>2, <2>3, <2>4, PlantedIs
    <2>7. Planted(g, h, l, side, u, h[l].index, k)
      BY <1>2, <2>6
    <2>8. Growing(g, h, U, T, S, l, side, u, k)
      BY <1>2, <1>10, <2>1, <2>2, <2>7, EndGrowing
    <2>9. Suits(h, U, T, S, V, l, k)
      BY KeySuits
    <2>10. PICK e : e = AddFixup(g, m, u)
      OBVIOUS
    <2>11. GrownTo(e, h, U \cup {u}, V, KeysOf(h, T, V, NoNode) \cup {k})
      BY <1>1, <1>3, <1>5, <2>8, <2>9, <2>10, GrowBalances
    <2>12. add.ret = 0 /\ add.t = State(g, i1, c1, B1, o1, bs, us) /\ add.unit = u
      BY <1>2, <2>5
    <2>13. State(g, i1, c1, B1, o1, bs, us).h = g
      BY DEF State
    <2>14. r = [add.t EXCEPT !.h = e]
      BY <2>10, <2>12, <2>13
    <2>15. r = State(e, i1, c1, B1, o1, bs, us)
      BY <2>12, <2>14 DEF State
    <2>16. GrownTo(e, h, U \cup {u}, V, K \cup {k})
      BY <1>1, <2>11
    <2>17. Whole(r, N, bs, us, K \cup {k})
      BY <1>1, <1>8, <2>1, <2>15, <2>16, WholeFrom
    <2> QED
      BY <2>12, <2>17 DEF InsertedTo
  <1> QED
    BY <1>9, <1>10

\* The second node of a new level.
LEMMA LevelEnds ==
  ASSUME NEW N, NEW bs, NEW us, N = 0 .. bs * us, NEW h, DOMAIN h = N, NEW U, NEW T, NEW S, NEW b, NEW V, NEW l, NEW k, NEW i, NEW c, NEW a, NEW g,
         LevelReady(h, U, T, S, b, V, l, k, i, c, a, g), i \in Int, c \in Int, k \in Seq(Int), Byte(k, i) # c,
         NEW idle, NEW cost, NEW B, NEW o, NEW t, t = State(g, idle, cost, B, o, bs, us), Room(B, o, bs, us),
         NEW W, W = U \cup {a}, Pool(idle, cost, W, B * us + o),
         NEW side, side = (IF Byte(k, i) < c THEN "left" ELSE "right"), NEW s, s = AddSon(t, a, side, i, k)
  PROVE  InsertedTo(s.ret, s.t, N, bs, us, KeysOf(h, T, V, NoNode) \cup {k})
  <1>1. /\ Good(h, U, T, S, b, V) /\ Lifting(g, h, U, T, S, l, a, i, c)
    BY DEF LevelReady
  <1>2. Lifted(g, h, l, a, i, c) /\ a \in DOMAIN h /\ a # 0
    BY <1>1 DEF Lifting
  <1>3. IsHeap(g) /\ DOMAIN g = DOMAIN h /\ g[a].index = i /\ g[a]["left"] = 0 /\ g[a]["right"] = 0
    BY <1>2 DEF Lifted
  <1>4. Byte(k, i) \in Int
    BY ByteIn
  <1>5. side \in Around /\ side \in Sides /\ g[a][side] = 0 /\ Ahead(side, Byte(k, i), c)
    BY <1>3, <1>4 DEF Around, Sides, Ahead
  <1>6. PICK R, Q, d : R = LiftT(T, h, l, a) /\ Q = LiftS(S, a) /\ d = [b EXCEPT ![a] = 1]
    OBVIOUS
  <1>7. LevelFacts(g, h, W, R, Q, d, V, KeysOf(h, T, V, NoNode), l, k, a)
    BY <1>6, LevelLifts
  <1>8. Loose(g, W, R, Q, NoNode) /\ Even(g, W, d)
    BY <1>7 DEF LevelFacts, Shape
  <1>9. PICK i1, c1, B1, o1, u : AllocTo(Alloc(t), g, idle, i1, cost, c1, B1, o1, bs, us, u, W)
    BY AllocIs
  <1>10. Alloc(t) = [t |-> State(g, i1, c1, B1, o1, bs, us), unit |-> u] /\ Room(B1, o1, bs, us)
    BY <1>9 DEF AllocTo
  <1>11. CASE u = 0
    <2>1. i1 = <<>> /\ B1 = bs
      BY <1>9, <1>11 DEF AllocTo
    <2>2. Alloc(t) = [t |-> State(g, i1, c1, B1, o1, bs, us), unit |-> 0]
      BY <1>10, <1>11
    <2>3. s = [ret |-> 1, t |-> State(SetSon(g, a, side, 0), i1, c1, B1, o1, bs, us), unit |-> 0]
      BY <2>2, AddSonFails
    <2>4. SetSon(g, a, side, 0) = g
      BY <1>2, <1>3, <1>5, SetSonSame
    <2>5. s.ret = 1 /\ s.t = State(g, <<>>, c1, bs, o1, bs, us)
      BY <2>1, <2>3, <2>4
    <2>6. Stopped(s.t, N, bs, us)
      BY <1>3, <1>8, <1>10, <2>1, <2>5, StoppedFrom
    <2> QED
      BY <2>5, <2>6 DEF InsertedTo
  <1>12. CASE u # 0
    <2>1. u \in N /\ u \notin W /\ Pool(i1, c1, W \cup {u}, B1 * us + o1)
      BY <1>9, <1>12 DEF AllocTo
    <2>2. u \in DOMAIN h /\ u \in DOMAIN g /\ a \in DOMAIN g
      BY <1>2, <1>3, <2>1
    <2>3. PICK f : f = SetSon(g, a, side, u)
      OBVIOUS
    <2>4. PICK e : e = [f EXCEPT ![u] = NewLeaf(i, k, a)] /\ Plants(e, g, a, side, u, i, k)
      BY <2>3 DEF Plants
    <2>5. AddSon(t, a, side, i, k) = [ret |-> 0, t |-> State(e, i1, c1, B1, o1, bs, us), unit |-> u]
      <3>1. Alloc(t) = [t |-> State(g, i1, c1, B1, o1, bs, us), unit |-> u]
        BY <1>10
      <3>2. u # 0
        BY <1>12
      <3> QED
        BY ONLY <2>4, <3>1, <3>2, AddSonWorks
    <2>6. Planted(e, g, a, side, u, i, k)
      BY <1>3, <1>5, <2>2, <2>3, <2>4, PlantedIs
    <2>7. Grown(e, g, a, side, u, k)
      BY <1>3, <2>6 DEF Planted, Grown
    <2>8. GrownTo(e, h, W \cup {u}, V, KeysOf(h, T, V, NoNode) \cup {k})
      BY <1>5, <1>12, <2>1, <2>2, <2>7, LevelGrows
    <2>9. s.ret = 0 /\ s.t = State(e, i1, c1, B1, o1, bs, us)
      BY <2>5
    <2>10. Whole(s.t, N, bs, us, KeysOf(h, T, V, NoNode) \cup {k})
      BY <1>10, <2>1, <2>8, <2>9, WholeFrom
    <2> QED
      BY <2>9, <2>10 DEF InsertedTo
  <1> QED
    BY <1>11, <1>12

LEMMA LevelInserts ==
  ASSUME NEW t, NEW N, NEW bs, NEW us, NEW K, NEW h, NEW U, NEW T, NEW S, NEW b, NEW V, NEW idle, NEW cost, NEW B, NEW o,
         WholeBy(t, N, bs, us, K, h, U, T, S, b, V, idle, cost, B, o), N = 0 .. bs * us,
         NEW k, NEW leaf, NEW i, NEW l, PlaceFacts(h, U, T, S, V, k, leaf, i, l), NEW x,
         AtLevel(h, U, T, k, i, x, l, leaf) \/ AtLeaf(h, k, x, l, leaf),
         NEW c, c = Byte(h[leaf].item, i), NEW r, r = AddLevel(t, l, x, i, c, k)
  PROVE  InsertedTo(r.ret, r.t, N, bs, us, K \cup {k})
  <1>1. t = State(h, idle, cost, B, o, bs, us) /\ DOMAIN h = N /\ Room(B, o, bs, us) /\ Good(h, U, T, S, b, V)
        /\ KeysOf(h, T, V, NoNode) = K /\ Pool(idle, cost, U, B * us + o)
    BY DEF WholeBy
  <1>2. /\ l \in U /\ IsHeap(h) /\ k \in Seq(Int) /\ Text(k) /\ Shape(h, U, T, S, NoNode) /\ Loose(h, U, T, S, NoNode) /\ Even(h, U, b)
        /\ U \subseteq DOMAIN h \ {0}
    BY Zenon, <1>1 DEF PlaceFacts, Shape, Loose, Wired, Good
  <1>3. l \in DOMAIN h
    BY <1>2
  <1>4. Splits(h, T, S, V, k, leaf, i, x, l)
    BY SplitsAt
  <1>5. /\ Between(h, T, S, V, l, i, c) /\ AgreesBelow(h, T, V, l, i, k) /\ Byte(k, h[l].index) = h[l].cbyte
        /\ Byte(k, i) # c /\ BelowIs(h, l, x) /\ i \in Int /\ c \in Int
    BY <1>4 DEF Splits
  <1>6. Suits(h, U, T, S, V, l, k)
    BY KeySuits
  <1>7. PICK i1, c1, B1, o1, u : AllocTo(Alloc(t), h, idle, i1, cost, c1, B1, o1, bs, us, u, U)
    BY <1>1, AllocIs
  <1>8. Alloc(t) = [t |-> State(h, i1, c1, B1, o1, bs, us), unit |-> u] /\ Room(B1, o1, bs, us)
    BY <1>7 DEF AllocTo
  <1>9. CASE u = 0
    <2>1. i1 = <<>> /\ B1 = bs
      BY <1>7, <1>9 DEF AllocTo
    <2>2. Alloc(t) = [t |-> State(h, i1, c1, B1, o1, bs, us), unit |-> 0]
      BY <1>8, <1>9
    <2>3. r = [ret |-> 1, t |-> State(SetSon(h, l, "mid", 0), i1, c1, B1, o1, bs, us)]
      BY <2>2, AddLevelFails
    <2>4. PICK g : g = SetSon(h, l, "mid", 0)
      OBVIOUS
    <2>5. Loose(g, U, T, S, NoNode) /\ Even(g, U, b) /\ DOMAIN g = DOMAIN h
      BY <1>2, <2>4, CutMid
    <2>6. r.ret = 1 /\ r.t = State(g, <<>>, c1, bs, o1, bs, us)
      BY <2>1, <2>3, <2>4
    <2>7. Stopped(r.t, N, bs, us)
      BY <1>1, <1>8, <2>1, <2>5, <2>6, StoppedFrom
    <2> QED
      BY <2>6, <2>7 DEF InsertedTo
  <1>10. CASE u # 0
    <2>1. u \in N /\ u \notin U /\ Pool(i1, c1, U \cup {u}, B1 * us + o1)
      BY <1>7, <1>10 DEF AllocTo
    <2>2. u \in DOMAIN h /\ l # u
      BY <1>1, <1>2, <2>1
    <2>3. PICK g : Lifts(g, h, l, u, i, c)
      BY DEF Lifts
    <2>4. Lifted(g, h, l, u, i, c)
      <3>1. PICK w : w = NewNode(i, c, h[l].mid, h[l].item)
        OBVIOUS
      <3>2. g = [h EXCEPT ![l].mid = u, ![u] = w, ![l].item = NoKey]
        BY <2>3, <3>1 DEF Lifts, LiftedNode
      <3> QED
        BY <1>2, <1>3, <1>5, <2>2, <3>1, <3>2, LiftedIs
    <2>5. Lifting(g, h, U, T, S, l, u, i, c)
      BY <1>2, <1>10, <2>1, <2>2, <2>4 DEF Lifting
    <2>6. LevelReady(h, U, T, S, b, V, l, k, i, c, u, g)
      BY <1>1, <1>2, <1>5, <1>6, <2>5 DEF LevelReady
    <2>7. PICK v : v = State(g, i1, c1, B1, o1, bs, us)
      OBVIOUS
    <2>8. PICK side : side = (IF Byte(k, i) < c THEN "left" ELSE "right")
      OBVIOUS
    <2>9. PICK s : s = AddSon(v, u, side, i, k)
      OBVIOUS
    <2>10. r = [ret |-> s.ret, t |-> s.t]
      <3>1. Alloc(t) = [t |-> State(h, i1, c1, B1, o1, bs, us), unit |-> u] /\ u # 0
        BY <1>8, <1>10
      <3>2. t.h = h
        BY <1>1 DEF State
      <3>3. s = AddSon(State(g, i1, c1, B1, o1, bs, us), u, side, i, k)
        BY <2>7, <2>9
      <3>4. AddLevel(t, l, x, i, c, k) = [ret |-> s.ret, t |-> s.t]
        BY <1>3, <1>5, <2>2, <2>3, <2>8, <3>1, <3>2, <3>3, AddLevelWorks
      <3> QED
        BY <3>4
    <2>11. InsertedTo(s.ret, s.t, N, bs, us, KeysOf(h, T, V, NoNode) \cup {k})
      BY <1>1, <1>2, <1>5, <1>8, <2>1, <2>6, <2>7, <2>8, <2>9, LevelEnds
    <2> QED
      BY <1>1, <2>10, <2>11
  <1> QED
    BY <1>9, <1>10

\* A tree of one black node, with a key.
OneNode(e, h, u, k) ==
  /\ IsHeap(h) /\ IsFiniteSet(DOMAIN h) /\ NoNode \notin DOMAIN h /\ u \in DOMAIN h /\ u # 0
  /\ IsHeap(e) /\ DOMAIN e = DOMAIN h
  /\ e[0]["left"] = 0 /\ e[0].mid = u /\ e[0]["right"] = 0 /\ e[0].color = BLACK
  /\ e[u]["left"] = 0 /\ e[u].mid = 0 /\ e[u]["right"] = 0 /\ e[u].color = BLACK /\ e[u].parent = 0
  /\ e[u].index = 0 /\ e[u].cbyte = Byte(k, 0) /\ e[u].item = k

LEMMA OneShape ==
  ASSUME NEW e, NEW h, NEW u, NEW k, OneNode(e, h, u, k), NEW R, R = [x \in DOMAIN h |-> IF x = u THEN {u} ELSE {}]
  PROVE  Shape(e, {u}, R, R, NoNode)
  <1>1. /\ IsHeap(e) /\ DOMAIN e = DOMAIN h /\ IsFiniteSet(DOMAIN e) /\ NoNode \notin DOMAIN e /\ u \in DOMAIN e /\ u # 0 /\ 0 \in DOMAIN e
        /\ e[0]["left"] = 0 /\ e[0].mid = u /\ e[0]["right"] = 0 /\ e[0].color = BLACK
        /\ e[u]["left"] = 0 /\ e[u].mid = 0 /\ e[u]["right"] = 0 /\ e[u].color = BLACK /\ e[u].parent = 0
    BY DEF OneNode, IsHeap
  <1>2. u # NoNode /\ 0 # NoNode
    BY <1>1 DEF NoNode
  <1>3. R \in [DOMAIN e -> SUBSET DOMAIN e] /\ R[0] = {} /\ R[u] = {u}
    BY <1>1
  <1>4. /\ Mid(e, NoNode, u) = 0 /\ Mid(e, NoNode, 0) = u
        /\ \A s \in Sides : Son(e, NoNode, u, s) = 0 /\ Son(e, NoNode, 0, s) = (IF s = "mid" THEN u ELSE 0)
        /\ \A s \in Around : e[u][s] = 0
    BY <1>1, <1>2 DEF Mid, Son, Sides, Around
  <1>5. Wired(e, {u}, NoNode)
    <2>1. {u} \subseteq DOMAIN e \ {0}
      BY <1>1
    <2>2. \A x \in {u} \cup {0}, s \in Sides : Son(e, NoNode, x, s) \in {u} \cup {0}
      BY <1>4
    <2>3. \A x \in {u}, s \in Around : e[x][s] # 0 => e[e[x][s]].parent = x
      BY <1>4
    <2>4. \A x \in {u} \cup {0} : Mid(e, NoNode, x) # 0 => e[Mid(e, NoNode, x)].parent = 0
      BY <1>1, <1>4
    <2>5. \A x, y \in {u} \cup {0} : Mid(e, NoNode, x) = Mid(e, NoNode, y) /\ Mid(e, NoNode, x) # 0 => x = y
      BY <1>1, <1>4
    <2>6. \A x \in {u} : e[x]["left"] = e[x]["right"] => e[x]["left"] = 0
      BY <1>1
    <2> QED
      BY <1>1, <2>1, <2>2, <2>3, <2>4, <2>5, <2>6 DEF Wired
  <1>6. Bounded(e, {u}, R, NoNode)
    BY <1>1, <1>3, <1>4 DEF Bounded
  <1>7. Levels(e, {u}, R)
    BY <1>1, <1>3 DEF Levels
  <1>8. Sorted(e, {u}, R, NoNode)
    BY <1>1, <1>3 DEF Sorted
  <1>9. Exact(e, {u}, R, NoNode)
    BY <1>1, <1>3, <1>4 DEF Exact
  <1> QED
    BY <1>5, <1>6, <1>7, <1>8, <1>9 DEF Shape, Loose

LEMMA OneEven ==
  ASSUME NEW e, NEW h, NEW u, NEW k, OneNode(e, h, u, k), NEW c, c = [x \in DOMAIN h |-> IF x = u THEN 1 ELSE 0]
  PROVE  Even(e, {u}, c)
  <1>1. /\ IsHeap(e) /\ DOMAIN e = DOMAIN h /\ NoNode \notin DOMAIN e /\ u \in DOMAIN e /\ u # 0 /\ 0 \in DOMAIN e
        /\ e[0].mid = u /\ e[0].color = BLACK
        /\ e[u]["left"] = 0 /\ e[u].mid = 0 /\ e[u]["right"] = 0 /\ e[u].color = BLACK
    BY DEF OneNode, IsHeap
  <1>2. u # NoNode /\ 0 # NoNode
    BY <1>1 DEF NoNode
  <1>3. Mid(e, NoNode, u) = 0 /\ Mid(e, NoNode, 0) = u /\ \A s \in Around : e[u][s] = 0
    BY <1>1, <1>2 DEF Mid, Around
  <1>4. Counts(e, {u}, c, NoNode, NoNode, 0)
    <2>1. c \in [DOMAIN e -> Nat] /\ c[0] = 0 /\ c[u] = 1
      BY <1>1
    <2>2. \A s \in Around : c[u] = Seen(c, NoNode, 0, e[u][s]) + Blk(e, u)
      BY <1>1, <1>2, <1>3, <2>1 DEF Seen, Blk
    <2> QED
      BY <1>2, <2>1, <2>2 DEF Counts
  <1>5. Reds(e, {u}, NoNode, NoNode)
    BY <1>1, <1>3 DEF Reds
  <1> QED
    BY <1>4, <1>5 DEF Even

OneKeysTo(e, u, k, R) ==
  Keys(e, {u}, R, R, NoNode, {}) /\ KeysOf(e, R, {}, NoNode) = {k} /\ Two(e, {u}, R, NoNode, 0) /\ {u} = R[e[0].mid]

LEMMA OneKeys ==
  ASSUME NEW e, NEW h, NEW u, NEW k, OneNode(e, h, u, k), Text(k), NEW R, R = [x \in DOMAIN h |-> IF x = u THEN {u} ELSE {}]
  PROVE  OneKeysTo(e, u, k, R)
  <1>1. /\ DOMAIN e = DOMAIN h /\ NoNode \notin DOMAIN e /\ u \in DOMAIN e /\ u # 0 /\ 0 \in DOMAIN e
        /\ e[0].mid = u /\ e[u].mid = 0 /\ e[u].index = 0 /\ e[u].cbyte = Byte(k, 0) /\ e[u].item = k
    BY DEF OneNode, IsHeap
  <1>2. u # NoNode /\ 0 # NoNode
    BY <1>1 DEF NoNode
  <1>3. R[0] = {} /\ R[u] = {u}
    BY <1>1
  <1>4. Keyed(e, R, {}, NoNode, 0) = {u} /\ Keyed(e, R, {}, NoNode, u) = {}
    BY <1>1, <1>2, <1>3 DEF Keyed
  <1>5. Aligned(e, {u}, R, NoNode) /\ Deeper(e, {u}, R, NoNode)
    BY <1>1, <1>3 DEF Aligned, Deeper
  <1>6. First(e, R, NoNode, {}) /\ Items(e, {u}, NoNode)
    BY <1>1, <1>3 DEF First, Items
  <1>7. Spelled(e, {u}, R, NoNode, {})
    BY <1>1, <1>4 DEF Spelled
  <1>8. Agreeing(e, {u}, R, R, NoNode, {})
    BY <1>1, <1>4 DEF Agreeing
  <1>9. Left(e, R, NoNode, {})
    BY DEF Left
  <1>10. Two(e, {u}, R, NoNode, 0)
    BY <1>1 DEF Two
  <1>11. KeysOf(e, R, {}, NoNode) = {k}
    BY <1>1, <1>4 DEF KeysOf
  <1> QED
    BY <1>1, <1>3, <1>5, <1>6, <1>7, <1>8, <1>9, <1>10, <1>11 DEF Keys, OneKeysTo

LEMMA OneGood ==
  ASSUME NEW e, NEW h, NEW u, NEW k, OneNode(e, h, u, k), Text(k)
  PROVE  GrownTo(e, h, {u}, {}, {k})
  <1>1. PICK R, c : R = [x \in DOMAIN h |-> IF x = u THEN {u} ELSE {}] /\ c = [x \in DOMAIN h |-> IF x = u THEN 1 ELSE 0]
    OBVIOUS
  <1>2. Shape(e, {u}, R, R, NoNode)
    BY <1>1, OneShape
  <1>3. Even(e, {u}, c)
    BY <1>1, OneEven
  <1>4. Keys(e, {u}, R, R, NoNode, {}) /\ KeysOf(e, R, {}, NoNode) = {k} /\ Two(e, {u}, R, NoNode, 0) /\ {u} = R[e[0].mid]
    <2>1. OneKeysTo(e, u, k, R)
      BY <1>1, OneKeys
    <2> QED
      BY <2>1 DEF OneKeysTo
  <1>5. Good(e, {u}, R, R, c, {})
    BY <1>2, <1>3, <1>4 DEF Good
  <1>6. DOMAIN e = DOMAIN h
    BY DEF OneNode
  <1> QED
    BY <1>4, <1>5, <1>6 DEF GrownTo

\* A tree without a root has no nodes.
LEMMA NoRoot ==
  ASSUME NEW h, NEW U, NEW T, NEW S, NEW b, NEW V, Good(h, U, T, S, b, V), h[0].mid = 0
  PROVE  U = {} /\ V = {} /\ KeysOf(h, T, V, NoNode) = {}
  <1>1. Shape(h, U, T, S, NoNode) /\ Keys(h, U, T, S, NoNode, V) /\ U = T[h[0].mid]
    BY DEF Good
  <1>2. T[0] = {} /\ S[0] = {}
    BY <1>1 DEF Shape, Loose, Bounded, Levels
  <1>3. Left(h, S, NoNode, V)
    BY <1>1 DEF Keys
  <1>4. V = {}
    BY <1>2, <1>3 DEF Left
  <1>5. Keyed(h, T, V, NoNode, 0) = {}
    BY <1>2 DEF Keyed
  <1> QED
    BY <1>1, <1>2, <1>4, <1>5 DEF KeysOf

\* The first key.
LEMMA PlantedOne ==
  ASSUME NEW h, IsHeap(h), IsFiniteSet(DOMAIN h), NoNode \notin DOMAIN h, h[0]["left"] = 0, h[0]["right"] = 0, h[0].color = BLACK,
         NEW u \in DOMAIN h, u # 0, NEW k, NEW g, Planted(g, h, 0, "mid", u, 0, k), NEW e, e = Color(g, u, BLACK)
  PROVE  OneNode(e, h, u, k)
  <1>1. IsHeap(g) /\ DOMAIN g = DOMAIN h /\ g[u].index = 0 /\ g[u].cbyte = Byte(k, 0) /\ g[u].item = k /\ g[u].parent = 0
    BY DEF Planted
  <1>2. g[u]["left"] = 0 /\ g[u].mid = 0 /\ g[u]["right"] = 0
    BY DEF Planted, Sides
  <1>3. 0 \in DOMAIN h \ {u}
    BY DEF IsHeap
  <1>4. g[0].color = BLACK /\ \A s \in Sides : g[0][s] = IF 0 = 0 /\ s = "mid" THEN u ELSE h[0][s]
    BY <1>3 DEF Planted
  <1>5. g[0]["left"] = 0 /\ g[0].mid = u /\ g[0]["right"] = 0
    BY <1>4 DEF Sides
  <1>6. BLACK \in {BLACK, RED}
    BY BlackIsNotRed
  <1>7. ColorSet(e, g, u, BLACK)
    BY <1>1, <1>6, ColorIs
  <1>8. IsHeap(e) /\ DOMAIN e = DOMAIN g /\ e[0] = g[0] /\ e[u].color = BLACK
    BY <1>1, <1>3, <1>7 DEF ColorSet
  <1>9. SameData(e, g, u) /\ e[u].parent = g[u].parent /\ SameSons(e, g, u)
    BY <1>1, <1>7 DEF ColorSet
  <1>10. e[u]["left"] = 0 /\ e[u].mid = 0 /\ e[u]["right"] = 0
    BY <1>2, <1>9 DEF SameSons, Sides
  <1>11. e[u].index = 0 /\ e[u].cbyte = Byte(k, 0) /\ e[u].item = k /\ e[u].parent = 0
    BY <1>1, <1>9 DEF SameData
  <1> QED
    BY <1>1, <1>4, <1>5, <1>8, <1>10, <1>11 DEF OneNode

LEMMA FirstInserts ==
  ASSUME NEW t, NEW N, NEW bs, NEW us, NEW K, NEW h, NEW U, NEW T, NEW S, NEW b, NEW V, NEW idle, NEW cost, NEW B, NEW o,
         WholeBy(t, N, bs, us, K, h, U, T, S, b, V, idle, cost, B, o), N = 0 .. bs * us, h[0].mid = 0,
         NEW k \in Seq(Int), Text(k), NEW s, s = AddSon(t, 0, "mid", 0, k),
         NEW r, r = (IF s.ret = 0 THEN [s.t EXCEPT !.h[s.unit].color = BLACK] ELSE s.t)
  PROVE  InsertedTo(s.ret, r, N, bs, us, K \cup {k})
  <1>1. t = State(h, idle, cost, B, o, bs, us) /\ DOMAIN h = N /\ Room(B, o, bs, us) /\ Good(h, U, T, S, b, V)
        /\ KeysOf(h, T, V, NoNode) = K /\ Pool(idle, cost, U, B * us + o)
    BY DEF WholeBy
  <1>2. U = {} /\ V = {} /\ K = {}
    BY <1>1, NoRoot
  <1>3. Loose(h, U, T, S, NoNode) /\ Even(h, U, b)
    BY <1>1 DEF Good, Shape
  <1>4. IsHeap(h) /\ IsFiniteSet(DOMAIN h) /\ NoNode \notin DOMAIN h /\ h[0]["left"] = 0 /\ h[0]["right"] = 0 /\ h[0].color = BLACK
    BY <1>3 DEF Loose, Wired
  <1>5. 0 \in DOMAIN h /\ "mid" \in Sides /\ h[0]["mid"] = 0 /\ 0 \in Int
    BY <1>4 DEF IsHeap, Sides
  <1>7. PICK i1, c1, B1, o1, u : AllocTo(Alloc(t), h, idle, i1, cost, c1, B1, o1, bs, us, u, U)
    BY <1>1, AllocIs
  <1>8. Alloc(t) = [t |-> State(h, i1, c1, B1, o1, bs, us), unit |-> u] /\ Room(B1, o1, bs, us)
    BY <1>7 DEF AllocTo
  <1>9. CASE u = 0
    <2>1. i1 = <<>> /\ B1 = bs
      BY <1>7, <1>9 DEF AllocTo
    <2>2. Alloc(t) = [t |-> State(h, i1, c1, B1, o1, bs, us), unit |-> 0]
      BY <1>8, <1>9
    <2>3. s = [ret |-> 1, t |-> State(SetSon(h, 0, "mid", 0), i1, c1, B1, o1, bs, us), unit |-> 0]
      BY <2>2, AddSonFails
    <2>4. SetSon(h, 0, "mid", 0) = h
      BY <1>4, <1>5, SetSonSame
    <2>5. s.ret = 1 /\ s.t = State(h, <<>>, c1, bs, o1, bs, us)
      BY <2>1, <2>3, <2>4
    <2>6. r = State(h, <<>>, c1, bs, o1, bs, us)
      BY <2>5
    <2>7. Stopped(r, N, bs, us)
      BY <1>1, <1>3, <1>8, <2>1, <2>6, StoppedFrom
    <2> QED
      BY <2>5, <2>7 DEF InsertedTo
  <1>10. CASE u # 0
    <2>1. u \in N /\ u \notin U /\ Pool(i1, c1, U \cup {u}, B1 * us + o1)
      BY <1>7, <1>10 DEF AllocTo
    <2>2. u \in DOMAIN h
      BY <1>1, <2>1
    <2>3. PICK f : f = SetSon(h, 0, "mid", u)
      OBVIOUS
    <2>4. PICK g : g = [f EXCEPT ![u] = NewLeaf(0, k, 0)] /\ Plants(g, h, 0, "mid", u, 0, k)
      BY <2>3 DEF Plants
    <2>5. AddSon(t, 0, "mid", 0, k) = [ret |-> 0, t |-> State(g, i1, c1, B1, o1, bs, us), unit |-> u]
      <3>1. Alloc(t) = [t |-> State(h, i1, c1, B1, o1, bs, us), unit |-> u]
        BY <1>8
      <3>2. u # 0
        BY <1>10
      <3> QED
        BY ONLY <2>4, <3>1, <3>2, AddSonWorks
    <2>6. Planted(g, h, 0, "mid", u, 0, k)
      BY <1>4, <1>5, <2>2, <2>3, <2>4, PlantedIs
    <2>7. PICK e : e = Color(g, u, BLACK)
      OBVIOUS
    <2>8. OneNode(e, h, u, k)
      BY <1>4, <1>10, <2>2, <2>6, <2>7, PlantedOne
    <2>9. GrownTo(e, h, {u}, {}, {k})
      BY <2>8, OneGood
    <2>10. s.ret = 0 /\ s.t = State(g, i1, c1, B1, o1, bs, us) /\ s.unit = u
      BY <2>5
    <2>11. r = [s.t EXCEPT !.h[u].color = BLACK]
      BY <2>10
    <2>12. s.t.h = g
      BY <2>10 DEF State
    <2>13. r = [s.t EXCEPT !.h = e]
      BY <2>7, <2>11, <2>12 DEF Color
    <2>14. r = State(e, i1, c1, B1, o1, bs, us)
      <3>1. s.t = State(g, i1, c1, B1, o1, bs, us)
        BY <2>10
      <3>2. [s.t EXCEPT !.h = e] = State(e, i1, c1, B1, o1, bs, us)
        BY ONLY <3>1 DEF State
      <3> QED
        BY <2>13, <3>2
    <2>15. PICK W, VV, KK : W = U \cup {u} /\ VV = {} /\ KK = K \cup {k} /\ GrownTo(e, h, W, VV, KK)
      BY <1>2, <2>9
    <2>16. Pool(i1, c1, W, B1 * us + o1)
      BY <2>1, <2>15
    <2>17. Whole(r, N, bs, us, KK)
      BY <1>1, <1>8, <2>14, <2>15, <2>16, WholeFrom
    <2> QED
      BY <2>10, <2>15, <2>17 DEF InsertedTo
  <1> QED
    BY <1>9, <1>10

\* What insert works on.
InsertTerms(h, k, fall, leaf, i, c, at) ==
  /\ fall = Descend(h, k, h[0].mid, h[0].mid) /\ leaf = LeafOf(h, fall)
  /\ i = FirstDifferent(k, h[leaf].item) /\ c = Byte(h[leaf].item, i) /\ at = Place(h, k, i, h[0].mid, h[0].mid, 0)
FirstTo(t, k, s, r) ==
  s = AddSon(t, 0, "mid", 0, k) /\ r.ret = s.ret /\ r.t = IF s.ret = 0 THEN [s.t EXCEPT !.h[s.unit].color = BLACK] ELSE s.t
EndTo(t, h, k, at, add, r) ==
  /\ add = AddSon(t, at.last, Way(h, at.last, k), h[at.last].index, k) /\ r.ret = add.ret
  /\ r.t = IF add.ret = 0 THEN [add.t EXCEPT !.h = AddFixup(add.t.h, at.lev, add.unit)] ELSE add.t

InsertGoes(t, h, k, fall, leaf, i, c, at, r) ==
  \/ h[0].mid = 0 /\ \E s : FirstTo(t, k, s, r)
  \/ h[0].mid # 0 /\ h[leaf].item = NoKey /\ r.ret = 2 /\ r.t = t
  \/ h[0].mid # 0 /\ h[leaf].item # NoKey /\ fall.node # 0 /\ h[fall.node].item = k /\ r.ret = -1 /\ r.t = t
  \/ /\ h[0].mid # 0 /\ h[leaf].item # NoKey /\ ~(fall.node # 0 /\ h[fall.node].item = k)
     /\ \/ at.node # 0 /\ r = AddLevel(t, at.last, at.node, i, c, k)
        \/ at.node = 0 /\ \E add : EndTo(t, h, k, at, add, r)

LEMMA InsertIs ==
  ASSUME NEW t, NEW h, t.h = h, NEW k, k # NoKey, NEW fall, NEW leaf, NEW i, NEW c, NEW at, InsertTerms(h, k, fall, leaf, i, c, at),
         NEW r, r = insert(t, k)
  PROVE  InsertGoes(t, h, k, fall, leaf, i, c, at, r)
  <1>1. /\ fall = Descend(t.h, k, t.h[0].mid, t.h[0].mid) /\ leaf = (IF fall.node # 0 THEN fall.node ELSE Deepest(t.h, fall.last))
        /\ i = FirstDifferent(k, t.h[leaf].item) /\ c = Byte(t.h[leaf].item, i) /\ at = Place(t.h, k, i, t.h[0].mid, t.h[0].mid, 0)
    BY Zenon DEF InsertTerms, LeafOf
  <1>2. PICK s : s = AddSon(t, 0, "mid", 0, k)
    OBVIOUS
  <1>3. PICK add : add = AddSon(t, at.last, Way(t.h, at.last, k), t.h[at.last].index, k)
    OBVIOUS
  <1>4. r = IF t.h[0].mid = 0
            THEN [ret |-> s.ret, t |-> IF s.ret = 0 THEN [s.t EXCEPT !.h[s.unit].color = BLACK] ELSE s.t]
            ELSE IF t.h[leaf].item = NoKey THEN [ret |-> 2, t |-> t]
            ELSE IF fall.node # 0 /\ t.h[fall.node].item = k THEN [ret |-> -1, t |-> t]
            ELSE IF at.node # 0 THEN AddLevel(t, at.last, at.node, i, c, k)
            ELSE [ret |-> add.ret,
                  t |-> IF add.ret = 0 THEN [add.t EXCEPT !.h = AddFixup(add.t.h, at.lev, add.unit)] ELSE add.t]
    <2> DEFINE f1 == Descend(t.h, k, t.h[0].mid, t.h[0].mid)
    <2> DEFINE l1 == IF f1.node # 0 THEN f1.node ELSE Deepest(t.h, f1.last)
    <2> DEFINE i1 == FirstDifferent(k, t.h[l1].item)
    <2> DEFINE c1 == Byte(t.h[l1].item, i1)
    <2> DEFINE a1 == Place(t.h, k, i1, t.h[0].mid, t.h[0].mid, 0)
    <2> DEFINE d1 == AddSon(t, a1.last, Way(t.h, a1.last, k), t.h[a1.last].index, k)
    <2> DEFINE s1 == AddSon(t, 0, "mid", 0, k)
    <2>1. insert(t, k) =
            IF k = NoKey THEN [ret |-> -1, t |-> t]
            ELSE IF t.h[0].mid = 0
            THEN [ret |-> s1.ret, t |-> IF s1.ret = 0 THEN [s1.t EXCEPT !.h[s1.unit].color = BLACK] ELSE s1.t]
            ELSE IF t.h[l1].item = NoKey THEN [ret |-> 2, t |-> t]
            ELSE IF f1.node # 0 /\ t.h[f1.node].item = k THEN [ret |-> -1, t |-> t]
            ELSE IF a1.node # 0 THEN AddLevel(t, a1.last, a1.node, i1, c1, k)
            ELSE [ret |-> d1.ret,
                  t |-> IF d1.ret = 0 THEN [d1.t EXCEPT !.h = AddFixup(d1.t.h, a1.lev, d1.unit)] ELSE d1.t]
      BY Zenon DEF insert
    <2>2. fall = f1
      BY Zenon, <1>1
    <2>3. leaf = l1
      BY Zenon, <1>1, <2>2
    <2>4. i = i1 /\ c = c1
      BY Zenon, <1>1, <2>3
    <2>5. at = a1
      BY Zenon, <1>1, <2>4
    <2>6. add = d1 /\ s = s1
      BY Zenon, <1>2, <1>3, <2>5
    <2> HIDE DEF f1, l1, i1, c1, a1, d1, s1
    <2> QED
      BY <2>1, <2>2, <2>3, <2>4, <2>5, <2>6
  <1>5. CASE h[0].mid = 0
    <2>1. r = [ret |-> s.ret, t |-> IF s.ret = 0 THEN [s.t EXCEPT !.h[s.unit].color = BLACK] ELSE s.t]
      BY <1>4, <1>5
    <2>2. FirstTo(t, k, s, r)
      BY <1>2, <2>1 DEF FirstTo
    <2> QED
      BY <1>5, <2>2 DEF InsertGoes
  <1>6. CASE h[0].mid # 0 /\ h[leaf].item = NoKey
    <2>1. r = [ret |-> 2, t |-> t]
      BY <1>4, <1>6
    <2> QED
      BY <1>6, <2>1 DEF InsertGoes
  <1>7. CASE h[0].mid # 0 /\ h[leaf].item # NoKey /\ fall.node # 0 /\ h[fall.node].item = k
    <2>1. r = [ret |-> -1, t |-> t]
      BY <1>4, <1>7
    <2> QED
      BY <1>7, <2>1 DEF InsertGoes
  <1>8. CASE h[0].mid # 0 /\ h[leaf].item # NoKey /\ ~(fall.node # 0 /\ h[fall.node].item = k)
    <2>1. CASE at.node # 0
      <3>1. r = AddLevel(t, at.last, at.node, i, c, k)
        BY <1>4, <1>8, <2>1
      <3> QED
        BY <1>8, <2>1, <3>1 DEF InsertGoes
    <2>2. CASE at.node = 0
      <3>1. r = [ret |-> add.ret, t |-> IF add.ret = 0 THEN [add.t EXCEPT !.h = AddFixup(add.t.h, at.lev, add.unit)] ELSE add.t]
        BY <1>4, <1>8, <2>2
      <3>2. EndTo(t, h, k, at, add, r)
        BY <1>3, <3>1 DEF EndTo
      <3> QED
        BY <1>8, <2>2, <3>2 DEF InsertGoes
    <2> QED
      BY <2>1, <2>2
  <1> QED
    BY <1>5, <1>6, <1>7, <1>8

\* insert changes nothing, or the tree stays whole, with the key, or there was no node.
LEMMA InsertSettles ==
  ASSUME NEW t, NEW N, NEW bs, NEW us, NEW K, Whole(t, N, bs, us, K), N = 0 .. bs * us, NEW k \in Seq(Int), Text(k), NEW r, r = insert(t, k)
  PROVE  (r.ret = -1 /\ r.t = t) \/ InsertedTo(r.ret, r.t, N, bs, us, K \cup {k})
  <1>1. PICK h, U, T, S, b, V, idle, cost, B, o : WholeBy(t, N, bs, us, K, h, U, T, S, b, V, idle, cost, B, o)
    BY DEF Whole
  <1>2. t = State(h, idle, cost, B, o, bs, us) /\ Good(h, U, T, S, b, V)
    BY <1>1 DEF WholeBy
  <1>3. t.h = h
    BY <1>2 DEF State
  <1>4. PICK fall, leaf, i, c, at : InsertTerms(h, k, fall, leaf, i, c, at)
    BY DEF InsertTerms
  <1>5. k # NoKey
    BY DEF Text
  <1>6. GoodFacts(h, U, T, S, V)
    BY <1>2, GoodFactsAre
  <1>7. CASE h[0].mid = 0 /\ \E s : FirstTo(t, k, s, r)
    <2>1. PICK s : FirstTo(t, k, s, r)
      BY <1>7
    <2>2. /\ s = AddSon(t, 0, "mid", 0, k) /\ r.ret = s.ret
          /\ r.t = IF s.ret = 0 THEN [s.t EXCEPT !.h[s.unit].color = BLACK] ELSE s.t
      BY <2>1 DEF FirstTo
    <2>3. PICK x : x = IF s.ret = 0 THEN [s.t EXCEPT !.h[s.unit].color = BLACK] ELSE s.t
      OBVIOUS
    <2>4. InsertedTo(s.ret, x, N, bs, us, K \cup {k})
      BY <1>1, <1>7, <2>2, <2>3, FirstInserts
    <2> QED
      BY <2>2, <2>3, <2>4
  <1>8. ASSUME h[0].mid # 0 PROVE Inserting(h, U, T, S, V, k, fall, leaf, i, at)
    BY <1>4, <1>6, <1>8 DEF InsertTerms, Inserting
  <1>9. CASE h[0].mid # 0 /\ h[leaf].item = NoKey
    <2>1. h[leaf].item # NoKey
      BY <1>8, <1>9, InsertPlaced
    <2> QED
      BY <1>9, <2>1
  <1>10. CASE /\ h[0].mid # 0 /\ h[leaf].item # NoKey /\ ~(fall.node # 0 /\ h[fall.node].item = k)
              /\ \/ at.node # 0 /\ r = AddLevel(t, at.last, at.node, i, c, k)
                 \/ at.node = 0 /\ \E add : EndTo(t, h, k, at, add, r)
    <2>1. ~(fall.node # 0 /\ h[fall.node].item = k)
      BY <1>10
    <2>2. Inserting(h, U, T, S, V, k, fall, leaf, i, at)
      BY <1>8, <1>10
    <2>3. PICK x, l, m : PlaceOf(h, U, T, S, V, k, leaf, i, at, x, l, m)
      BY <2>1, <2>2, InsertPlaced
    <2>4. PlaceFacts(h, U, T, S, V, k, leaf, i, l)
      BY <2>3, PlaceFactsAre
    <2>5. /\ at = [node |-> x, last |-> l, lev |-> m] /\ l \in U /\ 0 \notin U
          /\ AtEnd(h, U, S, k, x, l, m) \/ AtLevel(h, U, T, k, i, x, l, leaf) \/ AtLeaf(h, k, x, l, leaf)
      BY <2>3, <2>4 DEF PlaceOf, Placed, PlaceFacts, LooseFacts
    <2>6. at.node = x /\ at.last = l /\ at.lev = m
      BY <2>5
    <2>7. CASE AtEnd(h, U, S, k, x, l, m)
      <3>1. at.node = 0
        BY <2>6, <2>7 DEF AtEnd
      <3>2. PICK add : EndTo(t, h, k, at, add, r)
        BY <1>10, <3>1
      <3>3. /\ add = AddSon(t, l, Way(h, l, k), h[l].index, k) /\ r.ret = add.ret
            /\ r.t = IF add.ret = 0 THEN [add.t EXCEPT !.h = AddFixup(add.t.h, m, add.unit)] ELSE add.t
        BY <2>6, <3>2 DEF EndTo
      <3>4. PICK y : y = IF add.ret = 0 THEN [add.t EXCEPT !.h = AddFixup(add.t.h, m, add.unit)] ELSE add.t
        OBVIOUS
      <3>5. add = AddSon(t, l, Way(h, l, k), h[l].index, k)
        BY <3>3
      <3>6. InsertedTo(add.ret, y, N, bs, us, K \cup {k})
        BY <1>1, <2>4, <2>7, <3>4, <3>5, EndInserts
      <3> QED
        BY <3>3, <3>4, <3>6
    <2>8. CASE AtLevel(h, U, T, k, i, x, l, leaf) \/ AtLeaf(h, k, x, l, leaf)
      <3>1. at.node # 0
        BY <2>5, <2>6, <2>8 DEF AtLevel, AtLeaf
      <3>2. r = AddLevel(t, l, x, i, c, k)
        BY <1>10, <2>6, <3>1
      <3>3. c = Byte(h[leaf].item, i)
        BY <1>4 DEF InsertTerms
      <3>4. InsertedTo(r.ret, r.t, N, bs, us, K \cup {k})
        BY <1>1, <2>4, <2>8, <3>2, <3>3, LevelInserts
      <3> QED
        BY <3>4
    <2> QED
      BY <2>5, <2>7, <2>8
  <1>11. CASE r.ret = -1 /\ r.t = t
    BY <1>11
  <1>12. InsertGoes(t, h, k, fall, leaf, i, c, at, r)
    BY <1>3, <1>4, <1>5, InsertIs
  <1> QED
    BY <1>7, <1>9, <1>10, <1>11, <1>12 DEF InsertGoes

\* Where a key leaves a tree of which part may be lost.
PlacedIn(h, U, k, at) == at.last \in U /\ (at.node = 0 => h[at.last][Way(h, at.last, k)] = 0)

LEMMA PlaceLoose ==
  ASSUME NEW h, NEW U, NEW T, NEW S, Loose(h, U, T, S, NoNode), NEW k, NEW i
  PROVE  \A n \in U : \A last \in U : \A lev \in DOMAIN h : PlacedIn(h, U, k, Place(h, k, i, n, last, lev))
  <1>1. LooseFacts(h, U, T, S)
    BY LooseFactsAre
  <1>2. /\ IsHeap(h) /\ 0 \notin U /\ \A x \in U : x \in DOMAIN h
        /\ \A x \in U : \A s \in Sides : h[x][s] \in U \cup {0} /\ Son(h, NoNode, x, s) = h[x][s]
    BY <1>1 DEF LooseFacts
  <1>3. Wired(h, U, NoNode) /\ Bounded(h, U, T, NoNode)
    BY DEF Loose
  <1> DEFINE W == {n \in U : \A last \in U : \A lev \in DOMAIN h : PlacedIn(h, U, k, Place(h, k, i, n, last, lev))}
  <1>4. ASSUME NEW n \in U, \A s \in Sides : Son(h, NoNode, n, s) \in U => Son(h, NoNode, n, s) \in W PROVE n \in W
    <2> SUFFICES ASSUME NEW last \in U, NEW lev \in DOMAIN h PROVE PlacedIn(h, U, k, Place(h, k, i, n, last, lev))
      OBVIOUS
    <2> HIDE DEF W
    <2>1. n \in DOMAIN h /\ last \in DOMAIN h /\ n # 0
      BY <1>2
    <2>2. PICK y, s : s = Way(h, n, k) /\ y = h[n][s]
      OBVIOUS
    <2>3. s \in Sides
      BY <2>2, WayIs
    <2>4. y \in U \cup {0} /\ (y \in U => y \in W)
      BY <1>2, <1>4, <2>2, <2>3
    <2>5. IsHeap(h)
      BY <1>2
    <2>6. PICK l : l = (IF Way(h, n, k) = "mid" THEN n ELSE lev)
      OBVIOUS
    <2>7. l \in DOMAIN h
      BY <2>1, <2>6
    <2>8. CASE h[n].index > i
      <3>1. Place(h, k, i, n, last, lev) = [node |-> n, last |-> last, lev |-> lev]
        <4>1. n = 0 \/ h[n].index > i
          BY <2>8
        <4> QED
          BY ONLY <2>1, <2>5, <4>1, lev \in DOMAIN h, PlaceStops
      <3> QED
        BY <2>1, <3>1 DEF PlacedIn
    <2>9. CASE ~(h[n].index > i) /\ AtItem(h, n, k)
      <3>1. Place(h, k, i, n, last, lev) = [node |-> n, last |-> n, lev |-> lev]
        BY <2>1, <2>5, <2>9, PlaceIs
      <3> QED
        BY <2>1, <3>1 DEF PlacedIn
    <2>10. CASE ~(h[n].index > i) /\ ~AtItem(h, n, k)
      <3>1. Place(h, k, i, n, last, lev) = Place(h, k, i, y, n, l)
        BY <2>1, <2>2, <2>5, <2>6, <2>10, PlaceIs
      <3>2. CASE y = 0
        <4>1. Place(h, k, i, 0, n, l) = [node |-> 0, last |-> n, lev |-> l]
          BY <1>2, <2>1, <2>7, PlaceZero
        <4>2. h[n][Way(h, n, k)] = 0
          BY <2>2, <3>2
        <4>3. PICK at : at = Place(h, k, i, n, last, lev)
          OBVIOUS
        <4>4. at = [node |-> 0, last |-> n, lev |-> l]
          BY <3>1, <3>2, <4>1, <4>3
        <4>5. at.last = n
          BY <4>4
        <4>6. PlacedIn(h, U, k, at)
          BY <4>2, <4>5 DEF PlacedIn
        <4> QED
          BY <4>3, <4>6
      <3>3. CASE y # 0
        <4>1. y \in W
          BY <2>4, <3>3
        <4>2. PlacedIn(h, U, k, Place(h, k, i, y, n, l))
          BY <2>7, <4>1 DEF W
        <4> QED
          BY <3>1, <4>2
      <3> QED
        BY <3>2, <3>3
    <2> QED
      BY <2>8, <2>9, <2>10
  <1> HIDE DEF W
  <1>5. U \subseteq W
    BY <1>3, <1>4, NodeInduction
  <1> QED
    BY <1>5 DEF W

LEMMA InsertStopped ==
  ASSUME NEW t, NEW N, NEW bs, NEW us, Stopped(t, N, bs, us), NEW k, k # NoKey, NEW r, r = insert(t, k)
  PROVE  r.ret # 0 /\ Stopped(r.t, N, bs, us)
  <1>1. PICK h, U, T, S, b, cost, o : StoppedBy(t, N, bs, us, h, U, T, S, b, cost, o)
    BY DEF Stopped
  <1>2. t = State(h, <<>>, cost, bs, o, bs, us) /\ DOMAIN h = N /\ Room(bs, o, bs, us) /\ Loose(h, U, T, S, NoNode) /\ Even(h, U, b)
    BY <1>1 DEF StoppedBy
  <1>3. t.h = h
    BY <1>2 DEF State
  <1>4. PICK fall, leaf, i, c, at : InsertTerms(h, k, fall, leaf, i, c, at)
    BY DEF InsertTerms
  <1>5. InsertGoes(t, h, k, fall, leaf, i, c, at, r)
    BY <1>3, <1>4, InsertIs
  <1>6. Alloc(t) = [t |-> State(h, <<>>, cost, bs, o, bs, us), unit |-> 0]
    BY <1>2, AllocNone
  <1>7. LooseFacts(h, U, T, S)
    BY <1>2, LooseFactsAre
  <1>8. /\ IsHeap(h) /\ 0 \in DOMAIN h /\ h[0].mid \in U \cup {0} /\ \A x \in U : x \in DOMAIN h
    BY <1>7 DEF LooseFacts
  <1>9. ASSUME NEW p \in DOMAIN h, NEW side \in Sides, h[p][side] = 0, NEW index, NEW s, s = AddSon(t, p, side, index, k)
        PROVE  s.ret = 1 /\ Stopped(s.t, N, bs, us)
    <2>1. s = [ret |-> 1, t |-> State(SetSon(h, p, side, 0), <<>>, cost, bs, o, bs, us), unit |-> 0]
      BY <1>6, <1>9, AddSonFails
    <2>2. SetSon(h, p, side, 0) = h
      BY <1>8, <1>9, SetSonSame
    <2>3. s.ret = 1 /\ s.t = State(h, <<>>, cost, bs, o, bs, us)
      BY <2>1, <2>2
    <2> QED
      BY <1>2, <2>3, StoppedFrom
  <1>10. ASSUME h[0].mid # 0 PROVE PlacedIn(h, U, k, at)
    <2>1. h[0].mid \in U
      BY <1>8, <1>10
    <2>2. at = Place(h, k, i, h[0].mid, h[0].mid, 0)
      BY <1>4 DEF InsertTerms
    <2>3. \A n \in U : \A last \in U : \A lev \in DOMAIN h : PlacedIn(h, U, k, Place(h, k, i, n, last, lev))
      BY <1>2, PlaceLoose
    <2> QED
      BY <1>8, <2>1, <2>2, <2>3
  <1>11. CASE h[0].mid = 0 /\ \E s : FirstTo(t, k, s, r)
    <2>1. PICK s : FirstTo(t, k, s, r)
      BY <1>11
    <2>2. s = AddSon(t, 0, "mid", 0, k) /\ r.ret = s.ret /\ (s.ret # 0 => r.t = s.t)
      BY <2>1 DEF FirstTo
    <2>3. "mid" \in Sides /\ h[0]["mid"] = 0
      BY <1>11 DEF Sides
    <2>4. s.ret = 1 /\ Stopped(s.t, N, bs, us)
      BY <1>8, <1>9, <2>2, <2>3
    <2> QED
      BY <2>2, <2>4
  <1>12. CASE r.ret \in {-1, 2} /\ r.t = t
    BY <1>12
  <1>13. CASE h[0].mid # 0 /\ at.node # 0 /\ r = AddLevel(t, at.last, at.node, i, c, k)
    <2>1. at.last \in U
      BY <1>10, <1>13 DEF PlacedIn
    <2>2. PICK p, g : p = at.last /\ g = SetSon(h, p, "mid", 0)
      OBVIOUS
    <2>3. r = [ret |-> 1, t |-> State(g, <<>>, cost, bs, o, bs, us)]
      <3>1. AddLevel(t, p, at.node, i, c, k) = [ret |-> 1, t |-> State(SetSon(h, p, "mid", 0), <<>>, cost, bs, o, bs, us)]
        BY <1>6, AddLevelFails
      <3> QED
        BY <1>13, <2>2, <3>1
    <2>4. Loose(g, U, T, S, NoNode) /\ Even(g, U, b) /\ DOMAIN g = DOMAIN h
      BY <1>2, <2>1, <2>2, CutMid
    <2>5. r.ret = 1 /\ r.t = State(g, <<>>, cost, bs, o, bs, us)
      BY <2>3
    <2>6. Stopped(r.t, N, bs, us)
      BY <1>2, <2>4, <2>5, StoppedFrom
    <2> QED
      BY <2>5, <2>6
  <1>14. CASE h[0].mid # 0 /\ at.node = 0 /\ \E add : EndTo(t, h, k, at, add, r)
    <2>1. PICK add : EndTo(t, h, k, at, add, r)
      BY <1>14
    <2>2. at.last \in U /\ h[at.last][Way(h, at.last, k)] = 0
      BY <1>10, <1>14 DEF PlacedIn
    <2>3. PICK p, side : p = at.last /\ side = Way(h, p, k)
      OBVIOUS
    <2>4. side \in Sides /\ p \in DOMAIN h /\ h[p][side] = 0
      BY <1>8, <2>2, <2>3, WayIs
    <2>5. add = AddSon(t, p, side, h[p].index, k) /\ r.ret = add.ret /\ (add.ret # 0 => r.t = add.t)
      BY <2>1, <2>3 DEF EndTo
    <2>6. add.ret = 1 /\ Stopped(add.t, N, bs, us)
      BY <1>9, <2>4, <2>5
    <2> QED
      BY <2>5, <2>6
  <1> QED
    BY <1>5, <1>11, <1>12, <1>13, <1>14 DEF InsertGoes

LEMMA PoolWithin ==
  ASSUME NEW idle, NEW cost, NEW U, NEW m, Pool(idle, cost, U, m), NEW M \in Nat, m <= M
  PROVE  idle \in Seq(0 .. M) /\ cost \in Int
  <1>1. m \in Nat /\ idle \in Seq(1 .. m) /\ IsFiniteSet(U) /\ cost = Cardinality(U)
    BY DEF Pool
  <1>2. Cardinality(U) \in Nat
    BY <1>1, FS_CardinalityType
  <1>3. 1 .. m \subseteq 0 .. M
    BY <1>1
  <1>4. idle \in [1 .. Len(idle) -> 1 .. m] /\ Len(idle) \in Nat
    BY <1>1
  <1>5. idle \in [1 .. Len(idle) -> 0 .. M]
    BY <1>3, <1>4
  <1>6. idle \in Seq(0 .. M)
    BY <1>4, <1>5
  <1> QED
    BY <1>1, <1>2, <1>6

LEMMA RoomWithin ==
  ASSUME NEW B, NEW o, NEW bs, NEW us, Room(B, o, bs, us)
  PROVE  B * us + o \in Nat /\ bs * us \in Nat /\ B * us + o <= bs * us
  <1>1. B \in Nat /\ o \in Nat /\ bs \in Nat /\ us \in Nat /\ B <= bs /\ o <= us /\ (B = bs => o = 0)
    BY DEF Room
  <1>2. B * us \in Nat /\ bs * us \in Nat
    BY <1>1, Products
  <1>3. CASE B = bs
    BY <1>1, <1>2, <1>3
  <1>4. CASE B # bs
    <2>1. B + 1 \in Nat /\ B + 1 <= bs
      BY <1>1, <1>4
    <2>2. (B + 1) * us = B * us + us
      BY <1>1, Products
    <2>3. (B + 1) * us <= bs * us
      BY <1>1, <2>1, Products
    <2>4. PICK p, q, r : p = B * us /\ q = bs * us /\ r = (B + 1) * us
      OBVIOUS
    <2>5. p \in Nat /\ q \in Nat /\ r = p + us /\ r <= q
      BY <1>2, <2>2, <2>3, <2>4
    <2>6. p + o <= q /\ p + o \in Nat
      BY <1>1, <2>5
    <2> QED
      BY <1>2, <2>4, <2>6
  <1> QED
    BY <1>3, <1>4

\* remove: the tree stays whole, without the key.
RemovedTo(r, t, N, bs, us, K, k) ==
  \/ r.ret = NoKey /\ r.t = t /\ (k # NoKey => k \notin K)
  \/ r.ret = k /\ k # NoKey /\ Whole(r.t, N, bs, us, K \ {k})

LEMMA RemoveWhole ==
  ASSUME NEW t, NEW bs, NEW us, NEW N, N = 0 .. bs * us, NEW K, Whole(t, N, bs, us, K), NEW k, NEW r, r = remove(t, k)
  PROVE  RemovedTo(r, t, N, bs, us, K, k)
  <1>1. PICK h, U, T, S, b, V, idle, cost, B, o : WholeBy(t, N, bs, us, K, h, U, T, S, b, V, idle, cost, B, o)
    BY DEF Whole
  <1>2. t = State(h, idle, cost, B, o, bs, us) /\ DOMAIN h = N /\ Room(B, o, bs, us)
    BY <1>1 DEF WholeBy
  <1>3. Good(h, U, T, S, b, V) /\ KeysOf(h, T, V, NoNode) = K
    BY <1>1 DEF WholeBy
  <1>4. PICK m, M : m = B * us + o /\ M = bs * us
    OBVIOUS
  <1>5. Pool(idle, cost, U, m)
    BY <1>1, <1>4 DEF WholeBy
  <1>6. m \in Nat /\ M \in Nat /\ m <= M
    BY <1>2, <1>4, RoomWithin
  <1>7. idle \in Seq(N) /\ cost \in Int
    <2>1. idle \in Seq(0 .. M) /\ cost \in Int
      BY <1>5, <1>6, PoolWithin
    <2>2. N = 0 .. M
      BY <1>4
    <2> QED
      BY <2>1, <2>2
  <1>8. GoodFacts(h, U, T, S, V)
    BY <1>3, GoodFactsAre
  <1>9. On(h, N)
    BY <1>2, <1>8 DEF GoodFacts, On
  <1>10. \A g, i, c : Rec(t, g, i, c) = State(g, i, c, B, o, bs, us)
    <2>1. t.block = B /\ t.off = o /\ t.blocks = bs /\ t.units = us
      BY <1>2 DEF State
    <2> QED
      BY <2>1 DEF Rec, State
  <1>11. t.h = h
    BY <1>2 DEF State
  <1>12. IsRec(t, h, idle, cost, N)
    <2>1. t = Rec(t, h, idle, cost)
      BY <1>2, <1>10
    <2> QED
      BY <1>7, <1>9, <1>11, <2>1 DEF IsRec
  <1>13. Removes(r, t, N, K, k, m)
    <2>1. Good(h, U, T, S, b, V)
      BY <1>3
    <2>2. Removes(r, t, N, KeysOf(h, T, V, NoNode), k, m)
      BY <1>5, <1>12, <2>1, RemoveSettles
    <2> QED
      BY <1>3, <2>2
  <1>14. CASE r.ret = NoKey
    BY <1>13, <1>14 DEF Removes, RemovedTo
  <1>15. CASE r.ret # NoKey
    <2>1. r.ret = k /\ k # NoKey
      BY <1>13, <1>15 DEF Removes
    <2>2. PICK L : L = K \ {k}
      OBVIOUS
    <2>3. PICK W : Settled(r.t, t, N, L, W, m)
      BY <1>13, <1>15, <2>2 DEF Removes
    <2>4. PICK g, X, R, Q, c, i, d : /\ r.t = Rec(t, g, i, d) /\ DOMAIN g = N /\ Good(g, X, R, Q, c, W)
                                    /\ KeysOf(g, R, W, NoNode) = L /\ Pool(i, d, X, m)
      BY <2>3 DEF Settled
    <2>5. r.t = State(g, i, d, B, o, bs, us)
      BY <1>10, <2>4
    <2>6. Pool(i, d, X, B * us + o)
      BY <1>4, <2>4
    <2>7. WholeBy(r.t, N, bs, us, L, g, X, R, Q, c, W, i, d, B, o)
      BY <1>2, <2>4, <2>5, <2>6 DEF WholeBy
    <2>8. Whole(r.t, N, bs, us, L)
      BY <2>7 DEF Whole
    <2> QED
      BY <2>1, <2>2, <2>8 DEF RemovedTo
  <1> QED
    BY <1>14, <1>15

(***************************************************************************)
(* What is under a node, its level, and the black nodes on the ways down:  *)
(* functions that are defined by recursion over any heap, and are what the *)
(* shape says on the nodes of the tree.                                    *)
(***************************************************************************)
\* e holds that P comes with, and all that follows from it.
Holding(P, base, step) == base \subseteq P /\ \A e \in P : \A w \in step[e] : w \in P
Least(E, base, step) == {e \in E : \A P \in SUBSET E : Holding(P, base, step) => e \in P}

LEMMA LeastIs ==
  ASSUME NEW E, NEW base \in SUBSET E, NEW step \in [E -> SUBSET E], NEW L, L = Least(E, base, step)
  PROVE  L \subseteq E /\ \A e \in E : e \in L <=> (e \in base \/ \E w \in L : e \in step[w])
  <1>1. L \subseteq E /\ \A e \in L : \A P \in SUBSET E : Holding(P, base, step) => e \in P
    BY DEF Least
  <1>2. \A e \in E : (\A P \in SUBSET E : Holding(P, base, step) => e \in P) => e \in L
    BY DEF Least
  <1>3. \A P \in SUBSET E : Holding(P, base, step) => base \subseteq P /\ \A e \in P : \A w \in step[e] : w \in P
    BY DEF Holding
  <1>4. \A e \in E : e \in base => e \in L
    BY <1>2, <1>3
  <1>5. ASSUME NEW w \in L, NEW e \in step[w] PROVE e \in L
    <2>1. e \in E /\ w \in E
      BY <1>1, <1>5
    <2>2. ASSUME NEW P \in SUBSET E, Holding(P, base, step) PROVE e \in P
      <3>1. w \in P
        BY <1>1, <2>2
      <3> QED
        BY <1>3, <2>2, <3>1
    <2> QED
      BY <1>2, <2>1, <2>2
  <1>6. ASSUME NEW e \in L, e \notin base, \A w \in L : e \notin step[w] PROVE FALSE
    <2>1. PICK P : P = L \ {e}
      OBVIOUS
    <2>2. P \in SUBSET E
      BY <1>1, <2>1
    <2>3. Holding(P, base, step)
      <3>1. \A x \in base : x \in P
        BY <1>4, <1>6, <2>1
      <3>2. \A x \in P : \A w \in step[x] : w \in P
        BY <1>5, <1>6, <2>1
      <3> QED
        BY <3>1, <3>2 DEF Holding
    <2>4. e \in P
      BY <1>1, <1>6, <2>2, <2>3
    <2> QED
      BY <2>1, <2>4
  <1>7. \A e \in E : e \in L => (e \in base \/ \E w \in L : e \in step[w])
    BY <1>6
  <1>8. \A e \in E : (e \in base \/ \E w \in L : e \in step[w]) => e \in L
    BY <1>4, <1>5
  <1> QED
    BY <1>1, <1>7, <1>8

\* There are sets f[x] with a value v where base has it, or some f[y] has a value that leads to it.
Grows(f, D, X, base, step) ==
  /\ f \in [D -> SUBSET X]
  /\ \A x \in D : \A v \in X : v \in f[x] <=> (<<x, v>> \in base \/ \E y \in D : \E w \in f[y] : <<x, v>> \in step[<<y, w>>])

LEMMA GrowsExists ==
  ASSUME NEW D, NEW X, NEW base \in SUBSET (D \X X), NEW step \in [D \X X -> SUBSET (D \X X)]
  PROVE  \E f : Grows(f, D, X, base, step)
  <1>1. PICK E : E = D \X X
    OBVIOUS
  <1>2. PICK L : L = Least(E, base, step)
    OBVIOUS
  <1>3. L \subseteq E /\ \A e \in E : e \in L <=> (e \in base \/ \E w \in L : e \in step[w])
    <2>1. base \in SUBSET E
      BY <1>1
    <2>2. step \in [E -> SUBSET E]
      BY <1>1
    <2> QED
      BY ONLY <1>2, <2>1, <2>2, LeastIs
  <1>4. PICK f : f = [x \in D |-> {v \in X : <<x, v>> \in L}]
    OBVIOUS
  <1>5. f \in [D -> SUBSET X] /\ \A x \in D : \A v \in X : v \in f[x] <=> <<x, v>> \in L
    BY <1>4
  <1>6. ASSUME NEW x \in D, NEW v \in X PROVE v \in f[x] <=> (<<x, v>> \in base \/ \E y \in D : \E w \in f[y] : <<x, v>> \in step[<<y, w>>])
    <2>1. PICK e : e = <<x, v>>
      OBVIOUS
    <2>2. e \in E
      BY <1>1, <2>1
    <2>3. v \in f[x] <=> (e \in base \/ \E w \in L : e \in step[w])
      BY <1>3, <1>5, <2>1, <2>2
    <2>4. (\E u \in L : e \in step[u]) <=> (\E y \in D : \E w \in f[y] : e \in step[<<y, w>>])
      <3>1. ASSUME NEW u \in L, e \in step[u] PROVE \E y \in D : \E w \in f[y] : e \in step[<<y, w>>]
        <4>1. PICK y \in D, w \in X : u = <<y, w>>
          BY <1>1, <1>3
        <4>2. w \in f[y]
          BY <1>5, <4>1
        <4> QED
          BY <3>1, <4>1, <4>2
      <3>2. ASSUME NEW y \in D, NEW w \in f[y], e \in step[<<y, w>>] PROVE \E u \in L : e \in step[u]
        <4>1. w \in X
          BY <1>5
        <4>2. <<y, w>> \in L
          BY <1>5, <4>1
        <4> QED
          BY <3>2, <4>2
      <3> QED
        BY <3>1, <3>2
    <2> QED
      BY <2>1, <2>3, <2>4
  <1>7. Grows(f, D, X, base, step)
    BY <1>5, <1>6 DEF Grows
  <1> QED
    BY <1>7

\* The level of a node, over any heap.
IsLevelOf(f, h) == f = [x \in DOMAIN h |-> IF x = 0 THEN {} ELSE {x} \cup f[h[x].left] \cup f[h[x].right]]
IsUnder(f, h) == f = [x \in DOMAIN h |-> IF x = 0 THEN {} ELSE {x} \cup UNION {f[h[x][s]] : s \in {"left", "mid", "right"}}]
IsBlackWays(f, h) ==
  f = [x \in DOMAIN h |->
        IF x = 0 THEN {0}
        ELSE {b + (IF h[x].color = BLACK THEN 1 ELSE 0) : b \in f[h[x].left] \cup f[h[x].right]}]

\* The values of f are what the sons on the sides in W lead to.
Gathers(f, h, W) ==
  /\ f \in [DOMAIN h -> SUBSET DOMAIN h]
  /\ \A x \in DOMAIN h : \A v \in DOMAIN h : v \in f[x] <=> x # 0 /\ (v = x \/ \E s \in W : v \in f[h[x][s]])

LEMMA GatherExists ==
  ASSUME NEW h, IsHeap(h), NEW W, W \subseteq Sides
  PROVE  \E f : Gathers(f, h, W)
  <1>1. PICK D : D = DOMAIN h
    OBVIOUS
  <1>2. \A x \in D : \A s \in W : h[x][s] \in D
    BY <1>1, HeapSons
  <1>3. PICK base : base = {e \in D \X D : e[1] # 0 /\ e[2] = e[1]}
    OBVIOUS
  <1>4. PICK step : step = [e \in D \X D |-> {d \in D \X D : d[1] # 0 /\ d[2] = e[2] /\ \E s \in W : h[d[1]][s] = e[1]}]
    OBVIOUS
  <1>5. PICK f : Grows(f, D, D, base, step)
    <2>1. base \in SUBSET (D \X D)
      BY <1>3
    <2>2. step \in [D \X D -> SUBSET (D \X D)]
      BY <1>4
    <2> QED
      BY ONLY <2>1, <2>2, GrowsExists
  <1>6. /\ f \in [D -> SUBSET D]
        /\ \A x \in D : \A v \in D : v \in f[x] <=> (<<x, v>> \in base \/ \E y \in D : \E w \in f[y] : <<x, v>> \in step[<<y, w>>])
    BY <1>5 DEF Grows
  <1>7. \A x \in D : \A v \in D : <<x, v>> \in base <=> x # 0 /\ v = x
    BY <1>3
  <1>8. \A x \in D : \A v \in D : \A y \in D : \A w \in D : <<x, v>> \in step[<<y, w>>] <=> x # 0 /\ v = w /\ \E s \in W : h[x][s] = y
    BY <1>4
  <1>9. ASSUME NEW x \in D, NEW v \in D PROVE v \in f[x] <=> x # 0 /\ (v = x \/ \E s \in W : v \in f[h[x][s]])
    <2>1. (\E y \in D : \E w \in f[y] : <<x, v>> \in step[<<y, w>>]) <=> x # 0 /\ \E s \in W : v \in f[h[x][s]]
      <3>1. ASSUME NEW y \in D, NEW w \in f[y], <<x, v>> \in step[<<y, w>>] PROVE x # 0 /\ \E s \in W : v \in f[h[x][s]]
        <4>1. w \in D
          BY <1>6
        <4>2. x # 0 /\ v = w /\ \E s \in W : h[x][s] = y
          BY <1>8, <3>1, <4>1
        <4> QED
          BY <4>2
      <3>2. ASSUME NEW s \in W, v \in f[h[x][s]], x # 0 PROVE \E y \in D : \E w \in f[y] : <<x, v>> \in step[<<y, w>>]
        <4>1. PICK y : y = h[x][s]
          OBVIOUS
        <4>2. y \in D
          BY <1>2, <4>1
        <4>3. <<x, v>> \in step[<<y, v>>]
          BY <1>8, <3>2, <4>1, <4>2
        <4> QED
          BY <3>2, <4>1, <4>2, <4>3
      <3> QED
        BY <3>1, <3>2
    <2>2. v \in f[x] <=> (<<x, v>> \in base \/ \E y \in D : \E w \in f[y] : <<x, v>> \in step[<<y, w>>])
      BY <1>6
    <2>3. <<x, v>> \in base <=> x # 0 /\ v = x
      BY <1>7
    <2> QED
      BY ONLY <2>1, <2>2, <2>3
  <1>10. Gathers(f, h, W)
    BY <1>1, <1>6, <1>9 DEF Gathers
  <1> QED
    BY <1>10

LEMMA LevelOfExists == ASSUME NEW h, IsHeap(h) PROVE \E f : IsLevelOf(f, h)
  <1>1. Around \subseteq Sides
    BY DEF Around, Sides
  <1>2. PICK f : /\ f \in [DOMAIN h -> SUBSET DOMAIN h]
                 /\ \A x \in DOMAIN h : \A v \in DOMAIN h : v \in f[x] <=> x # 0 /\ (v = x \/ \E s \in Around : v \in f[h[x][s]])
    <2>1. \E f : Gathers(f, h, Around)
      BY <1>1, GatherExists
    <2> QED
      BY <2>1 DEF Gathers
  <1>3. ASSUME NEW x \in DOMAIN h PROVE f[x] = IF x = 0 THEN {} ELSE {x} \cup f[h[x].left] \cup f[h[x].right]
    <2>1. PICK l, r : l = h[x]["left"] /\ r = h[x]["right"]
      OBVIOUS
    <2>2. l \in DOMAIN h /\ r \in DOMAIN h
      BY <2>1, HeapSons DEF Sides
    <2>3. f[x] \subseteq DOMAIN h /\ f[l] \subseteq DOMAIN h /\ f[r] \subseteq DOMAIN h
      BY <1>2, <2>2
    <2>4. \A v : (\E s \in Around : v \in f[h[x][s]]) <=> v \in f[l] \/ v \in f[r]
      BY <2>1 DEF Around
    <2>5. \A v \in DOMAIN h : v \in f[x] <=> x # 0 /\ (v = x \/ v \in f[l] \/ v \in f[r])
      BY <1>2, <2>4
    <2>6. f[x] = IF x = 0 THEN {} ELSE {x} \cup f[l] \cup f[r]
      BY <2>3, <2>5
    <2> QED
      BY <2>1, <2>6
  <1>4. f = [x \in DOMAIN h |-> f[x]]
    BY <1>2
  <1>5. f = [x \in DOMAIN h |-> IF x = 0 THEN {} ELSE {x} \cup f[h[x].left] \cup f[h[x].right]]
    BY <1>3, <1>4
  <1>6. IsLevelOf(f, h)
    BY <1>5 DEF IsLevelOf
  <1> QED
    BY <1>6

LEMMA UnderExists == ASSUME NEW h, IsHeap(h) PROVE \E f : IsUnder(f, h)
  <1>1. PICK f : /\ f \in [DOMAIN h -> SUBSET DOMAIN h]
                 /\ \A x \in DOMAIN h : \A v \in DOMAIN h : v \in f[x] <=> x # 0 /\ (v = x \/ \E s \in Sides : v \in f[h[x][s]])
    <2>1. Sides \subseteq Sides
      OBVIOUS
    <2>2. \E f : Gathers(f, h, Sides)
      BY <2>1, GatherExists
    <2> QED
      BY <2>2 DEF Gathers
  <1>2. ASSUME NEW x \in DOMAIN h PROVE f[x] = IF x = 0 THEN {} ELSE {x} \cup UNION {f[h[x][s]] : s \in Sides}
    <2>1. f[x] \subseteq DOMAIN h /\ \A s \in Sides : f[h[x][s]] \subseteq DOMAIN h
      BY <1>1, HeapSons
    <2>2. PICK Y : Y = UNION {f[h[x][s]] : s \in Sides}
      OBVIOUS
    <2>3. \A v : v \in Y <=> \E s \in Sides : v \in f[h[x][s]]
      BY <2>2
    <2>4. \A v \in DOMAIN h : v \in f[x] <=> x # 0 /\ (v = x \/ v \in Y)
      BY <1>1, <2>3
    <2>5. f[x] = IF x = 0 THEN {} ELSE {x} \cup Y
      BY <2>1, <2>3, <2>4
    <2> QED
      BY <2>2, <2>5
  <1>3. f = [x \in DOMAIN h |-> f[x]]
    BY <1>1
  <1>4. f = [x \in DOMAIN h |-> IF x = 0 THEN {} ELSE {x} \cup UNION {f[h[x][s]] : s \in Sides}]
    BY <1>2, <1>3
  <1>5. IsUnder(f, h)
    BY <1>4 DEF IsUnder, Sides
  <1> QED
    BY <1>5

LEMMA BlackWaysExists == ASSUME NEW h, IsHeap(h) PROVE \E f : IsBlackWays(f, h)
  <1>1. PICK D : D = DOMAIN h
    OBVIOUS
  <1>2. \A x \in D : \A s \in Around : h[x][s] \in D
    BY <1>1, HeapSons DEF Around, Sides
  <1>3. PICK base : base = {e \in D \X Nat : e[1] = 0 /\ e[2] = 0}
    OBVIOUS
  <1>4. PICK step : step = [e \in D \X Nat |-> {d \in D \X Nat : d[1] # 0 /\ d[2] = e[2] + Blk(h, d[1]) /\ \E s \in Around : h[d[1]][s] = e[1]}]
    OBVIOUS
  <1>5. PICK f : Grows(f, D, Nat, base, step)
    <2>1. base \in SUBSET (D \X Nat)
      BY <1>3
    <2>2. step \in [D \X Nat -> SUBSET (D \X Nat)]
      BY <1>4
    <2> QED
      BY ONLY <2>1, <2>2, GrowsExists
  <1>6. /\ f \in [D -> SUBSET Nat]
        /\ \A x \in D : \A v \in Nat : v \in f[x] <=> (<<x, v>> \in base \/ \E y \in D : \E w \in f[y] : <<x, v>> \in step[<<y, w>>])
    BY <1>5 DEF Grows
  <1>7. \A x \in D : \A v \in Nat : <<x, v>> \in base <=> x = 0 /\ v = 0
    BY <1>3
  <1>8. \A x \in D : \A v \in Nat : \A y \in D : \A w \in Nat :
          <<x, v>> \in step[<<y, w>>] <=> x # 0 /\ v = w + Blk(h, x) /\ \E s \in Around : h[x][s] = y
    BY <1>4
  <1>9. \A x \in D : Blk(h, x) \in Nat
    BY DEF Blk
  <1>10. ASSUME NEW x \in D PROVE f[x] = IF x = 0 THEN {0} ELSE {b + Blk(h, x) : b \in f[h[x].left] \cup f[h[x].right]}
    <2>1. PICK l, r : l = h[x]["left"] /\ r = h[x]["right"]
      OBVIOUS
    <2>2. l \in D /\ r \in D
      BY <1>2, <2>1 DEF Around
    <2>3. f[x] \subseteq Nat /\ f[l] \subseteq Nat /\ f[r] \subseteq Nat
      BY <1>6, <2>2
    <2>4. \A y : (\E s \in Around : h[x][s] = y) <=> y = l \/ y = r
      BY <2>1 DEF Around
    <2>5. ASSUME NEW v \in Nat PROVE v \in f[x] <=> (x = 0 /\ v = 0) \/ (x # 0 /\ \E w \in f[l] \cup f[r] : v = w + Blk(h, x))
      <3>1. (\E y \in D : \E w \in f[y] : <<x, v>> \in step[<<y, w>>]) <=> x # 0 /\ \E w \in f[l] \cup f[r] : v = w + Blk(h, x)
        <4>1. ASSUME NEW y \in D, NEW w \in f[y], <<x, v>> \in step[<<y, w>>] PROVE x # 0 /\ \E q \in f[l] \cup f[r] : v = q + Blk(h, x)
          <5>1. w \in Nat
            BY <1>6
          <5>2. x # 0 /\ v = w + Blk(h, x) /\ (y = l \/ y = r)
            BY <1>8, <2>4, <4>1, <5>1
          <5> QED
            BY <5>2
        <4>2. ASSUME NEW w \in f[l] \cup f[r], v = w + Blk(h, x), x # 0 PROVE \E y \in D : \E q \in f[y] : <<x, v>> \in step[<<y, q>>]
          <5>1. PICK y : (y = l \/ y = r) /\ w \in f[y]
            OBVIOUS
          <5>2. y \in D /\ w \in Nat
            BY <2>2, <2>3, <5>1
          <5>3. <<x, v>> \in step[<<y, w>>]
            BY <1>8, <2>4, <4>2, <5>1, <5>2
          <5> QED
            BY <5>1, <5>2, <5>3
        <4> QED
          BY <4>1, <4>2
      <3>2. v \in f[x] <=> (<<x, v>> \in base \/ \E y \in D : \E w \in f[y] : <<x, v>> \in step[<<y, w>>])
        BY <1>6
      <3>3. <<x, v>> \in base <=> x = 0 /\ v = 0
        BY <1>7
      <3> QED
        BY ONLY <3>1, <3>2, <3>3
    <2>6. PICK c : c = Blk(h, x) /\ c \in Nat
      BY <1>9
    <2>7. PICK Y : Y = {b + c : b \in f[l] \cup f[r]}
      OBVIOUS
    <2>8. Y \subseteq Nat /\ \A v : v \in Y <=> \E w \in f[l] \cup f[r] : v = w + c
      BY <2>3, <2>6, <2>7
    <2>9. f[x] = IF x = 0 THEN {0} ELSE Y
      BY <2>3, <2>5, <2>6, <2>8
    <2> QED
      BY <2>1, <2>6, <2>7, <2>9
  <1>11. f = [x \in D |-> f[x]]
    BY <1>6
  <1>12. f = [x \in D |-> IF x = 0 THEN {0} ELSE {b + Blk(h, x) : b \in f[h[x].left] \cup f[h[x].right]}]
    BY <1>10, <1>11
  <1>13. IsBlackWays(f, h)
    BY <1>1, <1>12 DEF IsBlackWays, Blk
  <1> QED
    BY <1>13

LEMMA LevelOfIs ==
  ASSUME NEW U, NEW T, NEW S, Loose(heap, U, T, S, NoNode)
  PROVE  \A x \in U \cup {0} : LevelOf(x) = S[x]
  <1>1. PICK h : h = heap
    OBVIOUS
  <1>2. Wired(h, U, NoNode) /\ Bounded(h, U, T, NoNode) /\ Levels(h, U, S)
    BY <1>1 DEF Loose
  <1>3. IsHeap(h) /\ 0 \in DOMAIN h /\ \A x \in U : x \in DOMAIN h /\ x # 0
    BY <1>2, NodeIn DEF Wired
  <1>4. PICK f : IsLevelOf(f, h) /\ \A x : LevelOf(x) = f[x]
    <2> DEFINE g == CHOOSE f : IsLevelOf(f, h)
    <2>1. IsLevelOf(g, h)
      BY <1>3, LevelOfExists
    <2>2. \A x : LevelOf(x) = g[x]
      BY <1>1 DEF LevelOf, IsLevelOf
    <2> HIDE DEF g
    <2> QED
      BY <2>1, <2>2
  <1>5. \A x \in DOMAIN h : f[x] = IF x = 0 THEN {} ELSE {x} \cup f[h[x].left] \cup f[h[x].right]
    BY <1>4 DEF IsLevelOf
  <1>6. f[0] = {} /\ S[0] = {}
    BY <1>2, <1>3, <1>5 DEF Levels
  <1> DEFINE W == {x \in U : f[x] = S[x]}
  <1>7. ASSUME NEW x \in U, \A s \in Sides : Son(h, NoNode, x, s) \in U => Son(h, NoNode, x, s) \in W PROVE x \in W
    <2> HIDE DEF W
    <2>1. PICK l, r : l = h[x]["left"] /\ r = h[x]["right"]
      OBVIOUS
    <2>2. "left" \in Sides /\ "right" \in Sides /\ Son(h, NoNode, x, "left") = l /\ Son(h, NoNode, x, "right") = r
      BY <2>1, SonIs DEF Sides
    <2>3. (l = 0 \/ l \in U) /\ (r = 0 \/ r \in U)
      BY <1>2, <2>2, SonCases
    <2>4. (l \in U => l \in W) /\ (r \in U => r \in W)
      BY <1>7, <2>2
    <2>5. f[l] = S[l] /\ f[r] = S[r]
      BY <1>6, <2>3, <2>4 DEF W
    <2>6. f[x] = {x} \cup f[l] \cup f[r]
      BY <1>3, <1>5, <2>1
    <2>7. S[x] = {x} \cup S[l] \cup S[r]
      BY <1>2, <2>1 DEF Levels
    <2>8. f[x] = S[x]
      BY <2>5, <2>6, <2>7
    <2> QED
      BY <2>8 DEF W
  <1> HIDE DEF W
  <1>8. U \subseteq W
    BY <1>2, <1>7, NodeInduction
  <1> QED
    BY <1>4, <1>6, <1>8 DEF W

LEMMA BlackWaysIs ==
  ASSUME NEW U, NEW T, NEW S, Loose(heap, U, T, S, NoNode), NEW b, Even(heap, U, b)
  PROVE  \A x \in U \cup {0} : BlackWays(x) = {b[x]}
  <1>1. PICK h : h = heap
    OBVIOUS
  <1>2. Wired(h, U, NoNode) /\ Bounded(h, U, T, NoNode)
    BY <1>1 DEF Loose
  <1>3. IsHeap(h) /\ 0 \in DOMAIN h /\ \A x \in U : x \in DOMAIN h /\ x # 0
    BY <1>2, NodeIn DEF Wired
  <1>4. NoNode \notin DOMAIN h /\ NoNode \notin U
    BY <1>2 DEF Wired
  <1>5. b[0] = 0 /\ \A x \in U : \A s \in Around : b[x] = b[h[x][s]] + Blk(h, x)
    <2>1. Counts(h, U, b, NoNode, NoNode, 0)
      BY <1>1 DEF Even
    <2>2. b \in [DOMAIN h -> Nat] /\ b[0] = 0
      BY <2>1 DEF Counts
    <2>3. ASSUME NEW x \in U, NEW s \in Around PROVE b[x] = b[h[x][s]] + Blk(h, x)
      <3>1. b[x] = Seen(b, NoNode, 0, h[x][s]) + Blk(h, x)
        BY <1>4, <2>1 DEF Counts
      <3>2. h[x][s] \in DOMAIN h
        BY <1>3, HeapSons DEF Around, Sides
      <3>3. Seen(b, NoNode, 0, h[x][s]) = b[h[x][s]]
        BY <1>4, <3>2 DEF Seen
      <3> QED
        BY <3>1, <3>3
    <2> QED
      BY <2>2, <2>3
  <1>6. PICK f : IsBlackWays(f, h) /\ \A x : BlackWays(x) = f[x]
    <2> DEFINE g == CHOOSE f : IsBlackWays(f, h)
    <2>1. IsBlackWays(g, h)
      BY <1>3, BlackWaysExists
    <2>2. \A x : BlackWays(x) = g[x]
      BY <1>1 DEF BlackWays, IsBlackWays
    <2> HIDE DEF g
    <2> QED
      BY <2>1, <2>2
  <1>7. \A x \in DOMAIN h : f[x] = IF x = 0 THEN {0} ELSE {c + Blk(h, x) : c \in f[h[x].left] \cup f[h[x].right]}
    BY <1>6 DEF IsBlackWays, Blk
  <1>8. f[0] = {b[0]}
    BY <1>3, <1>5, <1>7
  <1> DEFINE W == {x \in U : f[x] = {b[x]}}
  <1>9. ASSUME NEW x \in U, \A s \in Sides : Son(h, NoNode, x, s) \in U => Son(h, NoNode, x, s) \in W PROVE x \in W
    <2> HIDE DEF W
    <2>1. PICK l, r : l = h[x]["left"] /\ r = h[x]["right"]
      OBVIOUS
    <2>2. "left" \in Sides /\ "right" \in Sides /\ Son(h, NoNode, x, "left") = l /\ Son(h, NoNode, x, "right") = r
      BY <2>1, SonIs DEF Sides
    <2>3. (l = 0 \/ l \in U) /\ (r = 0 \/ r \in U)
      BY <1>2, <2>2, SonCases
    <2>4. (l \in U => l \in W) /\ (r \in U => r \in W)
      BY <1>9, <2>2
    <2>5. f[l] = {b[l]} /\ f[r] = {b[r]}
      BY <1>8, <2>3, <2>4 DEF W
    <2>6. f[x] = {c + Blk(h, x) : c \in f[l] \cup f[r]}
      BY <1>3, <1>7, <2>1
    <2>7. b[x] = b[l] + Blk(h, x) /\ b[x] = b[r] + Blk(h, x)
      BY <1>5, <2>1 DEF Around
    <2>8. \A c : c \in f[x] <=> c = b[x]
      BY <2>5, <2>6, <2>7
    <2>9. f[x] = {b[x]}
      BY <2>8
    <2> QED
      BY <2>9 DEF W
  <1> HIDE DEF W
  <1>10. U \subseteq W
    BY <1>2, <1>9, NodeInduction
  <1> QED
    BY <1>6, <1>8, <1>10 DEF W

\* Where the tree may be lost in part, what is under a node is of the tree.
LEMMA UnderIsSome ==
  ASSUME NEW U, NEW T, NEW S, Loose(heap, U, T, S, NoNode)
  PROVE  (\A x \in U \cup {0} : Under(x) \subseteq U) /\ (Exact(heap, U, T, NoNode) => \A x \in U \cup {0} : Under(x) = T[x])
  <1>1. PICK h : h = heap
    OBVIOUS
  <1>2. Wired(h, U, NoNode) /\ Bounded(h, U, T, NoNode)
    BY <1>1 DEF Loose
  <1>3. IsHeap(h) /\ 0 \in DOMAIN h /\ \A x \in U : x \in DOMAIN h /\ x # 0
    BY <1>2, NodeIn DEF Wired
  <1>4. NoNode \notin DOMAIN h
    BY <1>2 DEF Wired
  <1>5. PICK f : IsUnder(f, h) /\ \A x : Under(x) = f[x]
    <2> DEFINE g == CHOOSE f : IsUnder(f, h)
    <2>1. IsUnder(g, h)
      BY <1>3, UnderExists
    <2>2. \A x : Under(x) = g[x]
      BY <1>1 DEF Under, IsUnder
    <2> HIDE DEF g
    <2> QED
      BY <2>1, <2>2
  <1>6. \A x \in DOMAIN h : f[x] = IF x = 0 THEN {} ELSE {x} \cup f[h[x]["left"]] \cup f[h[x]["mid"]] \cup f[h[x]["right"]]
    <2> TAKE x \in DOMAIN h
    <2>1. f[x] = IF x = 0 THEN {} ELSE {x} \cup UNION {f[h[x][s]] : s \in {"left", "mid", "right"}}
      BY <1>5 DEF IsUnder
    <2>2. UNION {f[h[x][s]] : s \in {"left", "mid", "right"}} = f[h[x]["left"]] \cup f[h[x]["mid"]] \cup f[h[x]["right"]]
      OBVIOUS
    <2> QED
      BY <2>1, <2>2
  <1>7. f[0] = {} /\ T[0] = {}
    BY <1>2, <1>3, <1>6 DEF Bounded
  <1>8. ASSUME NEW x \in U
        PROVE  \E l, m, r : /\ (l = 0 \/ l \in U) /\ (m = 0 \/ m \in U) /\ (r = 0 \/ r \in U)
                            /\ l = Son(h, NoNode, x, "left") /\ m = Son(h, NoNode, x, "mid") /\ r = Son(h, NoNode, x, "right")
                            /\ l = h[x]["left"] /\ m = Mid(h, NoNode, x) /\ r = h[x]["right"]
                            /\ f[x] = {x} \cup f[l] \cup f[m] \cup f[r]
    <2>1. PICK l, m, r : l = h[x]["left"] /\ m = h[x]["mid"] /\ r = h[x]["right"]
      OBVIOUS
    <2>2. x # NoNode
      BY <1>3, <1>4
    <2>3. m = Mid(h, NoNode, x)
      BY <2>1, <2>2 DEF Mid
    <2>4. l = Son(h, NoNode, x, "left") /\ m = Son(h, NoNode, x, "mid") /\ r = Son(h, NoNode, x, "right")
      BY <2>1, <2>3, SonIs
    <2>5. "left" \in Sides /\ "mid" \in Sides /\ "right" \in Sides
      BY DEF Sides
    <2>6. (l = 0 \/ l \in U) /\ (m = 0 \/ m \in U) /\ (r = 0 \/ r \in U)
      BY <1>2, <2>4, <2>5, SonCases
    <2>7. f[x] = {x} \cup f[l] \cup f[m] \cup f[r]
      BY <1>3, <1>6, <2>1
    <2> QED
      BY ONLY <2>1, <2>3, <2>4, <2>6, <2>7
  <1> DEFINE W == {x \in U : f[x] \subseteq U /\ (Exact(h, U, T, NoNode) => f[x] = T[x])}
  <1>9. ASSUME NEW x \in U, \A s \in Sides : Son(h, NoNode, x, s) \in U => Son(h, NoNode, x, s) \in W PROVE x \in W
    <2> HIDE DEF W
    <2>1. PICK l, m, r : /\ (l = 0 \/ l \in U) /\ (m = 0 \/ m \in U) /\ (r = 0 \/ r \in U)
                         /\ l = Son(h, NoNode, x, "left") /\ m = Son(h, NoNode, x, "mid") /\ r = Son(h, NoNode, x, "right")
                         /\ l = h[x]["left"] /\ m = Mid(h, NoNode, x) /\ r = h[x]["right"]
                         /\ f[x] = {x} \cup f[l] \cup f[m] \cup f[r]
      BY <1>8
    <2>2. "left" \in Sides /\ "mid" \in Sides /\ "right" \in Sides
      BY DEF Sides
    <2>3. (l \in U => l \in W) /\ (m \in U => m \in W) /\ (r \in U => r \in W)
      BY <1>9, <2>1, <2>2
    <2>4. f[l] \subseteq U /\ f[m] \subseteq U /\ f[r] \subseteq U
      BY <1>7, <2>1, <2>3 DEF W
    <2>5. f[x] \subseteq U
      BY <2>1, <2>4
    <2>6. ASSUME Exact(h, U, T, NoNode) PROVE f[x] = T[x]
      <3>1. f[l] = T[l] /\ f[m] = T[m] /\ f[r] = T[r]
        BY <1>7, <2>1, <2>3, <2>6 DEF W
      <3>2. T[x] = {x} \cup T[l] \cup T[m] \cup T[r]
        BY <2>1, <2>6 DEF Exact
      <3> QED
        BY <2>1, <3>1, <3>2
    <2> QED
      BY <2>5, <2>6 DEF W
  <1> HIDE DEF W
  <1>10. U \subseteq W
    BY <1>2, <1>9, NodeInduction
  <1> QED
    BY <1>1, <1>5, <1>7, <1>10 DEF W

(***************************************************************************)
(* The invariant: until a node was wanted and there was none the tree is   *)
(* whole, with the keys that are held, and the pool has the other nodes.   *)
(* After that it is only a part of such a tree, with all its levels.       *)
(***************************************************************************)
Nodes == 0 .. nmax_block_num * nblock_unit_num
TreeInv ==
  /\ held \subseteq KeyByte
  /\ ~short => Whole(Tree, Nodes, nmax_block_num, nblock_unit_num, held)
  /\ short => Stopped(Tree, Nodes, nmax_block_num, nblock_unit_num)

LEMMA TreeIs == Tree = State(heap, pidle, ncost_unit, nblock_offset, noffset, nmax_block_num, nblock_unit_num)
  BY DEF Tree, State

LEMMA BecomesIs ==
  ASSUME NEW t, NEW g, NEW i, NEW c, NEW B, NEW o, t = State(g, i, c, B, o, nmax_block_num, nblock_unit_num), Becomes(t)
  PROVE  Tree' = t
  <1>1. heap' = g /\ pidle' = i /\ nblock_offset' = B /\ noffset' = o /\ ncost_unit' = c
    BY DEF Becomes, State
  <1>2. Tree' = State(g, i, c, B, o, nmax_block_num, nblock_unit_num)
    BY <1>1 DEF Tree, State
  <1> QED
    BY <1>2

LEMMA SizesAre == ASSUME TernaryTreeAssumption PROVE nmax_block_num \in Nat /\ nblock_unit_num \in Nat /\ nblock_unit_num > 0 /\ nmax_block_num * nblock_unit_num \in Nat
  <1>1. nmax_block_num \in Nat /\ nblock_unit_num \in Nat /\ nblock_unit_num > 0
    BY DEF TernaryTreeAssumption
  <1> QED
    BY <1>1, Products

LEMMA KeyIs ==
  ASSUME TernaryTreeAssumption, NEW k \in KeyByte
  PROVE  k \in Seq(Int) /\ Text(k) /\ k # NoKey
  BY DEF TernaryTreeAssumption, Text, NoKey

\* The empty tree.
LEMMA EmptyGood ==
  ASSUME NEW M \in Nat, NEW h, h = [n \in 0 .. M |-> Null], NEW T, T = [n \in 0 .. M |-> {}], NEW b, b = [n \in 0 .. M |-> 0]
  PROVE  Good(h, {}, T, T, b, {}) /\ KeysOf(h, T, {}, NoNode) = {}
  <1>1. DOMAIN h = 0 .. M /\ 0 \in DOMAIN h /\ IsFiniteSet(DOMAIN h) /\ NoNode \notin DOMAIN h
    BY FS_Interval DEF NoNode
  <1>2. \A x \in DOMAIN h : h[x] = Null
    BY <1>1
  <1>3. IsHeap(h)
    <2>1. <<>> \in Seq(Int)
      OBVIOUS
    <2>2. Null \in [cbyte : Int, index : Int, color : {BLACK, RED}, item : Seq(Int), left : 0 .. M, mid : 0 .. M, right : 0 .. M, parent : 0 .. M]
      BY <2>1 DEF Null, NoKey
    <2>3. h \in [0 .. M -> [cbyte : Int, index : Int, color : {BLACK, RED}, item : Seq(Int), left : 0 .. M, mid : 0 .. M, right : 0 .. M, parent : 0 .. M]]
      BY <2>2
    <2> QED
      BY <1>1, <2>3 DEF IsHeap, HeapLike
  <1>4. h[0]["left"] = 0 /\ h[0]["right"] = 0 /\ h[0]["mid"] = 0 /\ h[0].mid = 0 /\ h[0].color = BLACK /\ 0 # NoNode
    BY <1>1, <1>2 DEF Null, NoNode
  <1>5. \A s \in Sides : Son(h, NoNode, 0, s) = 0
    BY <1>4 DEF Son, Mid, Sides
  <1>6. Mid(h, NoNode, 0) = 0
    BY <1>4 DEF Mid
  <1>7. Wired(h, {}, NoNode)
    BY <1>1, <1>3, <1>4, <1>5, <1>6 DEF Wired
  <1>8. T \in [DOMAIN h -> SUBSET DOMAIN h] /\ T[0] = {}
    BY <1>1
  <1>9. Bounded(h, {}, T, NoNode) /\ Levels(h, {}, T) /\ Sorted(h, {}, T, NoNode) /\ Exact(h, {}, T, NoNode)
    BY <1>8 DEF Bounded, Levels, Sorted, Exact
  <1>10. Shape(h, {}, T, T, NoNode)
    BY <1>7, <1>9 DEF Shape, Loose
  <1>11. Even(h, {}, b)
    <2>1. b \in [DOMAIN h -> Nat] /\ b[0] = 0
      BY <1>1
    <2>2. Counts(h, {}, b, NoNode, NoNode, 0)
      BY <2>1 DEF Counts
    <2>3. Reds(h, {}, NoNode, NoNode)
      BY <1>6 DEF Reds
    <2> QED
      BY <2>2, <2>3 DEF Even
  <1>12. \A x : x \in {} \cup {0} => T[h[x].mid] = {}
    BY <1>4, <1>8
  <1>13. Keys(h, {}, T, T, NoNode, {})
    <2>1. Aligned(h, {}, T, NoNode)
      BY <1>12 DEF Aligned
    <2>2. First(h, T, NoNode, {}) /\ Left(h, T, NoNode, {})
      BY <1>12 DEF First, Left
    <2>3. Deeper(h, {}, T, NoNode) /\ Items(h, {}, NoNode)
      BY DEF Deeper, Items
    <2>4. Spelled(h, {}, T, NoNode, {}) /\ Agreeing(h, {}, T, T, NoNode, {})
      BY DEF Spelled, Agreeing
    <2> QED
      BY <2>1, <2>2, <2>3, <2>4 DEF Keys
  <1>14. Two(h, {}, T, NoNode, 0)
    BY DEF Two
  <1>15. {} = T[h[0].mid]
    BY <1>12
  <1>16. Good(h, {}, T, T, b, {})
    BY <1>10, <1>11, <1>13, <1>14, <1>15 DEF Good
  <1>17. Keyed(h, T, {}, NoNode, 0) = {}
    BY <1>15 DEF Keyed
  <1>18. KeysOf(h, T, {}, NoNode) = {}
    BY <1>17 DEF KeysOf
  <1> QED
    BY <1>16, <1>18

LEMMA InitWhole ==
  ASSUME TernaryTreeAssumption, TreeInit
  PROVE  TreeInv
  <1>1. nmax_block_num \in Nat /\ nblock_unit_num \in Nat /\ nblock_unit_num > 0 /\ nmax_block_num * nblock_unit_num \in Nat
    BY SizesAre
  <1>2. PICK M : M = nmax_block_num * nblock_unit_num /\ M \in Nat
    BY <1>1
  <1>3. PICK h, T, b : h = [n \in 0 .. M |-> Null] /\ T = [n \in 0 .. M |-> {}] /\ b = [n \in 0 .. M |-> 0]
    OBVIOUS
  <1>4. heap = h /\ pidle = <<>> /\ nblock_offset = 0 /\ noffset = 0 /\ ncost_unit = 0 /\ held = {} /\ short = FALSE
    BY <1>2, <1>3 DEF TreeInit, init
  <1>5. Tree = State(h, <<>>, 0, 0, 0, nmax_block_num, nblock_unit_num)
    BY <1>4, TreeIs
  <1>6. Good(h, {}, T, T, b, {}) /\ KeysOf(h, T, {}, NoNode) = {}
    BY <1>2, <1>3, EmptyGood
  <1>7. Room(0, 0, nmax_block_num, nblock_unit_num)
    BY <1>1 DEF Room
  <1>8. 0 * nblock_unit_num + 0 = 0
    BY <1>1
  <1>9. Pool(<<>>, 0, {}, 0)
    <2>1. <<>> \in Seq(1 .. 0) /\ DOMAIN <<>> = {}
      OBVIOUS
    <2>2. IsFiniteSet({}) /\ Cardinality({}) = 0
      BY FS_EmptySet
    <2>3. IdleIn(<<>>) = {}
      BY <2>1 DEF IdleIn
    <2>4. {} \cup {} = 1 .. 0
      OBVIOUS
    <2> QED
      BY <2>1, <2>2, <2>3, <2>4 DEF Pool
  <1>10. Pool(<<>>, 0, {}, 0 * nblock_unit_num + 0)
    BY <1>8, <1>9
  <1>11. DOMAIN h = Nodes
    BY <1>2, <1>3 DEF Nodes
  <1>12. WholeBy(Tree, Nodes, nmax_block_num, nblock_unit_num, held, h, {}, T, T, b, {}, <<>>, 0, 0, 0)
    BY <1>4, <1>5, <1>6, <1>7, <1>10, <1>11 DEF WholeBy
  <1>13. Whole(Tree, Nodes, nmax_block_num, nblock_unit_num, held)
    BY <1>12 DEF Whole
  <1> QED
    BY <1>4, <1>13 DEF TreeInv

LEMMA WholeBecomes ==
  ASSUME NEW t, NEW N, NEW K, Whole(t, N, nmax_block_num, nblock_unit_num, K), Becomes(t)
  PROVE  Tree' = t
  <1>1. PICK h, U, T, S, b, V, idle, cost, B, o : WholeBy(t, N, nmax_block_num, nblock_unit_num, K, h, U, T, S, b, V, idle, cost, B, o)
    BY DEF Whole
  <1>2. t = State(h, idle, cost, B, o, nmax_block_num, nblock_unit_num)
    BY <1>1 DEF WholeBy
  <1> QED
    BY <1>2, BecomesIs

LEMMA StoppedBecomes ==
  ASSUME NEW t, NEW N, Stopped(t, N, nmax_block_num, nblock_unit_num), Becomes(t)
  PROVE  Tree' = t
  <1>1. PICK h, U, T, S, b, cost, o : StoppedBy(t, N, nmax_block_num, nblock_unit_num, h, U, T, S, b, cost, o)
    BY DEF Stopped
  <1>2. t = State(h, <<>>, cost, nmax_block_num, o, nmax_block_num, nblock_unit_num)
    BY <1>1 DEF StoppedBy
  <1> QED
    BY <1>2, BecomesIs

\* What a step leaves of the invariant, when the tree is the tree t after it.
LEMMA InvAfterWhole ==
  ASSUME NEW t, NEW K, Whole(t, Nodes, nmax_block_num, nblock_unit_num, K), Tree' = t, held' = K, K \subseteq KeyByte, short' = FALSE
  PROVE  TreeInv'
  <1>1. Nodes' = Nodes
    BY DEF Nodes
  <1>2. Whole(t, Nodes, nmax_block_num, nblock_unit_num, K)'
    OBVIOUS
  <1> QED
    BY <1>1 DEF TreeInv

LEMMA InvAfterStopped ==
  ASSUME NEW t, NEW K, Stopped(t, Nodes, nmax_block_num, nblock_unit_num), Tree' = t, held' = K, K \subseteq KeyByte, short' = TRUE
  PROVE  TreeInv'
  <1>1. Nodes' = Nodes
    BY DEF Nodes
  <1>2. Stopped(t, Nodes, nmax_block_num, nblock_unit_num)'
    OBVIOUS
  <1> QED
    BY <1>1 DEF TreeInv

LEMMA InsertKeeps ==
  ASSUME TernaryTreeAssumption, TreeInv, short \in BOOLEAN, NEW k \in KeyByte, InsertKey(k)
  PROVE  TreeInv' /\ short' \in BOOLEAN
  <1>1. PICK r : r = insert(Tree, k) /\ Becomes(r.t) /\ held' = (IF r.ret = 0 THEN held \cup {k} ELSE held) /\ short' = (short \/ r.ret = 1)
    BY DEF InsertKey
  <1>2. k \in Seq(Int) /\ Text(k) /\ k # NoKey
    BY KeyIs
  <1>3. PICK u, K, bs, us, N : u = Tree /\ K = held /\ bs = nmax_block_num /\ us = nblock_unit_num /\ N = 0 .. bs * us
    OBVIOUS
  <1>4. N = Nodes
    BY <1>3 DEF Nodes
  <1>5. r = insert(u, k)
    BY <1>1, <1>3
  <1>6. K \subseteq KeyByte /\ (~short => Whole(u, N, bs, us, K)) /\ (short => Stopped(u, N, bs, us))
    BY <1>3, <1>4 DEF TreeInv
  <1>7. ASSUME NEW L, L \subseteq KeyByte, Whole(r.t, N, bs, us, L), held' = L, ~short, r.ret # 1 PROVE TreeInv' /\ short' \in BOOLEAN
    <2>1. Whole(r.t, Nodes, nmax_block_num, nblock_unit_num, L)
      BY <1>3, <1>4, <1>7
    <2>2. Tree' = r.t
      BY <1>1, <2>1, WholeBecomes
    <2>3. short' = FALSE
      BY <1>1, <1>7
    <2>4. TreeInv'
      BY <1>7, <2>1, <2>2, <2>3, InvAfterWhole
    <2> QED
      BY <2>3, <2>4
  <1>8. ASSUME Stopped(r.t, N, bs, us), held' = K, short \/ r.ret = 1 PROVE TreeInv' /\ short' \in BOOLEAN
    <2>1. Stopped(r.t, Nodes, nmax_block_num, nblock_unit_num)
      BY <1>3, <1>4, <1>8
    <2>2. Tree' = r.t
      BY <1>1, <2>1, StoppedBecomes
    <2>3. short' = TRUE
      BY <1>1, <1>8
    <2>4. TreeInv'
      BY <1>6, <1>8, <2>1, <2>2, <2>3, InvAfterStopped
    <2> QED
      BY <2>3, <2>4
  <1>9. CASE short
    <2>1. Stopped(u, N, bs, us)
      BY <1>6, <1>9
    <2>2. r.ret # 0 /\ Stopped(r.t, N, bs, us)
      BY <1>2, <1>5, <2>1, InsertStopped
    <2>3. held' = K
      BY <1>1, <1>3, <2>2
    <2> QED
      BY <1>8, <1>9, <2>2, <2>3
  <1>10. CASE ~short
    <2>1. Whole(u, N, bs, us, K)
      BY <1>6, <1>10
    <2>2. (r.ret = -1 /\ r.t = u) \/ InsertedTo(r.ret, r.t, N, bs, us, K \cup {k})
      BY <1>2, <1>3, <1>5, <2>1, InsertSettles
    <2>3. CASE r.ret = -1 /\ r.t = u
      <3>1. held' = K /\ r.ret # 1
        BY <1>1, <1>3, <2>3
      <3>2. Whole(r.t, N, bs, us, K)
        BY <2>1, <2>3
      <3> QED
        BY <1>6, <1>7, <1>10, <3>1, <3>2
    <2>4. CASE r.ret = 1 /\ Stopped(r.t, N, bs, us)
      <3>1. held' = K
        BY <1>1, <1>3, <2>4
      <3> QED
        BY <1>8, <2>4, <3>1
    <2>5. CASE r.ret = 0 /\ Whole(r.t, N, bs, us, K \cup {k})
      <3>1. held' = K \cup {k} /\ r.ret # 1
        BY <1>1, <1>3, <2>5
      <3>2. K \cup {k} \subseteq KeyByte
        BY <1>6
      <3> QED
        BY <1>7, <1>10, <2>5, <3>1, <3>2
    <2> QED
      BY <2>2, <2>3, <2>4, <2>5 DEF InsertedTo
  <1> QED
    BY <1>9, <1>10

LEMMA RemoveKeeps ==
  ASSUME TernaryTreeAssumption, TreeInv, short \in BOOLEAN, NEW k \in KeyByte, RemoveKey(k)
  PROVE  TreeInv' /\ short' \in BOOLEAN
  <1>1. PICK r : r = remove(Tree, k) /\ ~short /\ Becomes(r.t) /\ held' = held \ {r.ret} /\ short' = short
    BY DEF RemoveKey
  <1>2. PICK u, K, bs, us, N : u = Tree /\ K = held /\ bs = nmax_block_num /\ us = nblock_unit_num /\ N = 0 .. bs * us
    OBVIOUS
  <1>3. N = Nodes
    BY <1>2 DEF Nodes
  <1>4. K \subseteq KeyByte /\ Whole(u, N, bs, us, K)
    BY <1>1, <1>2, <1>3 DEF TreeInv
  <1>5. NoKey \notin KeyByte
    BY DEF TernaryTreeAssumption, NoKey
  <1>6. r = remove(u, k)
    BY <1>1, <1>2
  <1>7. RemovedTo(r, u, N, bs, us, K, k)
    BY <1>2, <1>4, <1>6, RemoveWhole
  <1>8. ASSUME NEW L, L \subseteq KeyByte, Whole(r.t, N, bs, us, L), held' = L PROVE TreeInv' /\ short' \in BOOLEAN
    <2>1. Whole(r.t, Nodes, nmax_block_num, nblock_unit_num, L)
      BY <1>2, <1>3, <1>8
    <2>2. Tree' = r.t
      BY <1>1, <2>1, WholeBecomes
    <2>3. short' = FALSE
      BY <1>1
    <2>4. TreeInv'
      BY <1>8, <2>1, <2>2, <2>3, InvAfterWhole
    <2> QED
      BY <2>3, <2>4
  <1>9. CASE r.ret = NoKey /\ r.t = u
    <2>1. held' = K
      BY <1>1, <1>2, <1>4, <1>5, <1>9
    <2>2. Whole(r.t, N, bs, us, K)
      BY <1>4, <1>9
    <2> QED
      BY <1>4, <1>8, <2>1, <2>2
  <1>10. CASE r.ret = k /\ Whole(r.t, N, bs, us, K \ {k})
    <2>1. held' = K \ {k} /\ K \ {k} \subseteq KeyByte
      BY <1>1, <1>2, <1>4, <1>10
    <2> QED
      BY <1>8, <1>10, <2>1
  <1> QED
    BY <1>7, <1>9, <1>10 DEF RemovedTo

LEMMA TreeStutters ==
  ASSUME TreeInv, short \in BOOLEAN, UNCHANGED treeVars
  PROVE  TreeInv' /\ short' \in BOOLEAN
  <1>1. PICK u, K : u = Tree /\ K = held
    OBVIOUS
  <1>2. Tree' = u /\ held' = K /\ short' = short
    BY <1>1 DEF treeVars, Tree
  <1>3. K \subseteq KeyByte /\ (~short => Whole(u, Nodes, nmax_block_num, nblock_unit_num, K)) /\ (short => Stopped(u, Nodes, nmax_block_num, nblock_unit_num))
    BY <1>1 DEF TreeInv
  <1>4. CASE short
    <2>1. Stopped(u, Nodes, nmax_block_num, nblock_unit_num) /\ short' = TRUE
      BY <1>2, <1>3, <1>4
    <2>2. TreeInv'
      BY <1>2, <1>3, <2>1, InvAfterStopped
    <2> QED
      BY <1>2, <2>2
  <1>5. CASE ~short
    <2>1. Whole(u, Nodes, nmax_block_num, nblock_unit_num, K) /\ short' = FALSE
      BY <1>2, <1>3, <1>5
    <2>2. TreeInv'
      BY <1>2, <1>3, <2>1, InvAfterWhole
    <2> QED
      BY <1>2, <2>2
  <1> QED
    BY <1>4, <1>5

(***************************************************************************)
(* Whatever is inserted and removed, the invariant holds: the nodes in use *)
(* are one tree over the keys that are held, in balanced levels, and the   *)
(* pool has the others; or there was no node for a key.                    *)
(***************************************************************************)
THEOREM TreeInvHolds == TreeSpec => [](TreeInv /\ short \in BOOLEAN)
  <1>1. TreeInit => TreeInv /\ short \in BOOLEAN
    BY InitWhole, TernaryTreeAssumption DEF TreeInit
  <1>2. (TreeInv /\ short \in BOOLEAN) /\ [TreeNext]_treeVars => (TreeInv /\ short \in BOOLEAN)'
    <2> SUFFICES ASSUME TreeInv, short \in BOOLEAN, [TreeNext]_treeVars PROVE TreeInv' /\ short' \in BOOLEAN
      OBVIOUS
    <2>1. ASSUME NEW k \in KeyByte, InsertKey(k) PROVE TreeInv' /\ short' \in BOOLEAN
      BY <2>1, InsertKeeps, TernaryTreeAssumption
    <2>2. ASSUME NEW k \in KeyByte, RemoveKey(k) PROVE TreeInv' /\ short' \in BOOLEAN
      BY <2>2, RemoveKeeps, TernaryTreeAssumption
    <2>3. CASE UNCHANGED treeVars
      BY <2>3, TreeStutters
    <2> QED
      BY <2>1, <2>2, <2>3 DEF TreeNext
  <1> QED
    BY <1>1, <1>2, PTL DEF TreeSpec

LEMMA IdleOnce ==
  ASSUME NEW X, NEW idle \in Seq(X), \A i, j \in DOMAIN idle : idle[i] = idle[j] => i = j
  PROVE  Cardinality(IdleIn(idle)) = Len(idle)
  <1>1. PICK n : n = Len(idle) /\ n \in Nat /\ DOMAIN idle = 1 .. n
    OBVIOUS
  <1>2. idle \in Injection(1 .. n, IdleIn(idle)) \cap Surjection(1 .. n, IdleIn(idle))
    <2>1. idle = [i \in 1 .. n |-> idle[i]] /\ \A i \in 1 .. n : idle[i] \in IdleIn(idle)
      BY <1>1 DEF IdleIn
    <2>2. idle \in [1 .. n -> IdleIn(idle)]
      BY <2>1
    <2>3. \A y \in IdleIn(idle) : \E i \in 1 .. n : idle[i] = y
      BY <1>1 DEF IdleIn
    <2> QED
      BY <1>1, <2>2, <2>3 DEF Injection, Surjection, IsInjective
  <1>3. ExistsBijection(1 .. n, IdleIn(idle))
    BY <1>2 DEF ExistsBijection, Bijection
  <1> QED
    BY <1>1, <1>3, FS_CountingElements

LEMMA WholeTree ==
  ASSUME TreeInv, ~short
  PROVE  \E U, T, S, b, V : Good(heap, U, T, S, b, V) /\ KeysOf(heap, T, V, NoNode) = held
                            /\ Pool(pidle, ncost_unit, U, nblock_offset * nblock_unit_num + noffset)
  <1>1. PICK h, U, T, S, b, V, idle, cost, B, o :
          WholeBy(Tree, Nodes, nmax_block_num, nblock_unit_num, held, h, U, T, S, b, V, idle, cost, B, o)
    BY DEF TreeInv, Whole
  <1>2. Tree = State(h, idle, cost, B, o, nmax_block_num, nblock_unit_num)
    BY <1>1 DEF WholeBy
  <1>3. heap = h /\ pidle = idle /\ ncost_unit = cost /\ nblock_offset = B /\ noffset = o
    <2>1. Tree.h = heap /\ Tree.idle = pidle /\ Tree.cost = ncost_unit /\ Tree.block = nblock_offset /\ Tree.off = noffset
      BY DEF Tree
    <2>2. Tree.h = h /\ Tree.idle = idle /\ Tree.cost = cost /\ Tree.block = B /\ Tree.off = o
      BY <1>2 DEF State
    <2> QED
      BY <2>1, <2>2
  <1>4. Good(h, U, T, S, b, V) /\ KeysOf(h, T, V, NoNode) = held /\ Pool(idle, cost, U, B * nblock_unit_num + o)
    BY <1>1 DEF WholeBy
  <1> QED
    BY <1>3, <1>4

LEMMA LooseTree ==
  ASSUME TreeInv, short \in BOOLEAN
  PROVE  \E U, T, S, b : Loose(heap, U, T, S, NoNode) /\ Even(heap, U, b) /\ (short => pidle = <<>>)
  <1>1. CASE ~short
    <2>1. PICK U, T, S, b, V : Good(heap, U, T, S, b, V)
      BY <1>1, WholeTree
    <2>2. Loose(heap, U, T, S, NoNode) /\ Even(heap, U, b)
      BY <2>1 DEF Good, Shape
    <2> QED
      BY <1>1, <2>2
  <1>2. CASE short
    <2>1. PICK h, U, T, S, b, cost, o : StoppedBy(Tree, Nodes, nmax_block_num, nblock_unit_num, h, U, T, S, b, cost, o)
      BY <1>2 DEF TreeInv, Stopped
    <2>2. Tree = State(h, <<>>, cost, nmax_block_num, o, nmax_block_num, nblock_unit_num) /\ Loose(h, U, T, S, NoNode) /\ Even(h, U, b)
      BY <2>1 DEF StoppedBy
    <2>3. Tree.h = heap /\ Tree.idle = pidle
      BY DEF Tree
    <2>4. Tree.h = h /\ Tree.idle = <<>>
      BY <2>2 DEF State
    <2> QED
      BY <2>2, <2>3, <2>4
  <1> QED
    BY <1>1, <1>2

LEMMA FoundIfHeld ==
  ASSUME TernaryTreeAssumption, TreeInv
  PROVE  HeldIsFound
  <1> SUFFICES ASSUME ~short, NEW k \in KeyByte PROVE Found(heap, k) <=> k \in held
    BY DEF HeldIsFound
  <1>1. PICK U, T, S, b, V : Good(heap, U, T, S, b, V) /\ KeysOf(heap, T, V, NoNode) = held
    BY WholeTree
  <1>2. k # NoKey
    BY KeyIs
  <1>3. PICK h : h = heap
    OBVIOUS
  <1>4. Good(h, U, T, S, b, V)
    BY <1>1, <1>3
  <1>5. Found(h, k) <=> k \in KeysOf(h, T, V, NoNode)
    BY <1>2, <1>4, FoundIs
  <1> QED
    BY <1>1, <1>3, <1>5

LEMMA LevelBalanced ==
  ASSUME NEW U, NEW T, NEW S, NEW b, Loose(heap, U, T, S, NoNode), Even(heap, U, b), NEW lev \in U \cup {0}, heap[lev].mid # 0
  PROVE  Balanced(lev)
  <1>1. PICK h : h = heap
    OBVIOUS
  <1>2. Wired(h, U, NoNode) /\ Sorted(h, U, S, NoNode) /\ Loose(h, U, T, S, NoNode)
    BY <1>1 DEF Loose
  <1>3. Reds(h, U, NoNode, NoNode)
    BY <1>1 DEF Even
  <1>4. /\ 0 \in DOMAIN h /\ NoNode \notin DOMAIN h /\ \A x \in U : x \in DOMAIN h
        /\ h[0].color = BLACK /\ IsHeap(h)
    BY <1>2, NodeIn DEF Wired
  <1>5. \A x \in U \cup {0} : x # NoNode /\ Mid(h, NoNode, x) = h[x].mid
    BY <1>4 DEF Mid
  <1>6. PICK root : root = h[lev].mid /\ root # 0
    BY <1>1
  <1>7. Mid(h, NoNode, lev) = root
    BY <1>5, <1>6
  <1>8. "mid" \in Sides /\ Son(h, NoNode, lev, "mid") = root
    BY <1>7, SonIs DEF Sides
  <1>9. root \in U
    BY <1>2, <1>6, <1>8, SonCases
  <1>10. h[root].color = BLACK /\ h[root].parent = 0
    <2>1. root \notin {0, NoNode}
      BY <1>5, <1>6, <1>9
    <2> QED
      BY <1>2, <1>3, <1>6, <1>7, <2>1 DEF Reds, Wired
  <1>11. Cardinality(BlackWays(root)) = 1
    <2>1. BlackWays(root) = {b[root]}
      BY <1>9, BlackWaysIs
    <2>2. Cardinality({b[root]}) = 1
      BY FS_Singleton
    <2> QED
      BY <2>1, <2>2
  <1>12. \A x \in U \cup {0} : LevelOf(x) = S[x]
    BY LevelOfIs
  <1>13. S[root] \subseteq U
    BY <1>2, <1>9, LevelIs
  <1>14. ASSUME NEW n \in LevelOf(root), NEW l, NEW r, l = h[n]["left"], r = h[n]["right"]
         PROVE  /\ l # 0 => h[l].parent = n /\ \A x \in LevelOf(l) : h[x].cbyte < h[n].cbyte
                /\ r # 0 => h[r].parent = n /\ \A x \in LevelOf(r) : h[x].cbyte > h[n].cbyte
                /\ h[n].color = RED => h[l].color = BLACK /\ h[r].color = BLACK
    <2>1. n \in U
      BY <1>9, <1>12, <1>13
    <2>2. "left" \in Around /\ "right" \in Around /\ "left" \in Sides /\ "right" \in Sides
      BY DEF Around, Sides
    <2>3. Son(h, NoNode, n, "left") = l /\ Son(h, NoNode, n, "right") = r
      BY <1>14, SonIs
    <2>4. (l = 0 \/ l \in U) /\ (r = 0 \/ r \in U)
      BY <1>2, <2>1, <2>2, <2>3, SonCases
    <2>5. (l # 0 => h[l].parent = n) /\ (r # 0 => h[r].parent = n)
      BY <1>2, <1>14, <2>1, <2>2 DEF Wired
    <2>6. n # NoNode
      BY <1>5, <2>1
    <2>7. (\A y \in S[l] \ {NoNode} : h[y].cbyte < h[n].cbyte) /\ (\A y \in S[r] \ {NoNode} : h[y].cbyte > h[n].cbyte)
      BY <1>2, <1>14, <2>1, <2>6 DEF Sorted
    <2>8. LevelOf(l) = S[l] /\ LevelOf(r) = S[r]
      BY <1>12, <2>4
    <2>9. (l # 0 => NoNode \notin S[l]) /\ (r # 0 => NoNode \notin S[r])
      <3>1. \A x \in U : S[x] \subseteq U
        BY <1>2, LevelIs
      <3>2. NoNode \notin U
        BY <1>5
      <3> QED
        BY <2>4, <3>1, <3>2
    <2>10. ASSUME h[n].color = RED PROVE h[l].color = BLACK /\ h[r].color = BLACK
      <3>1. l # NoNode /\ r # NoNode
        BY <1>5, <2>4
      <3> QED
        BY <1>3, <1>14, <2>1, <2>2, <2>6, <2>10, <3>1 DEF Reds
    <2> QED
      BY <2>5, <2>7, <2>8, <2>9, <2>10
  <1>15. \A n \in LevelOf(root) : LET l == h[n].left r == h[n].right IN
           /\ l # 0 => h[l].parent = n /\ \A x \in LevelOf(l) : h[x].cbyte < h[n].cbyte
           /\ r # 0 => h[r].parent = n /\ \A x \in LevelOf(r) : h[x].cbyte > h[n].cbyte
           /\ h[n].color = RED => h[l].color = BLACK /\ h[r].color = BLACK
    BY <1>14
  <1> QED
    BY <1>1, <1>6, <1>10, <1>11, <1>15 DEF Balanced

LEMMA BalancedIfInv ==
  ASSUME TreeInv, short \in BOOLEAN
  PROVE  LevelsBalanced
  <1>1. PICK U, T, S, b : Loose(heap, U, T, S, NoNode) /\ Even(heap, U, b)
    BY LooseTree
  <1>2. PICK h : h = heap
    OBVIOUS
  <1>3. LooseFacts(h, U, T, S)
    BY <1>1, <1>2, LooseFactsAre
  <1>4. heap[0].mid \in U \cup {0}
    BY <1>2, <1>3 DEF LooseFacts
  <1>5. \A x \in U \cup {0} : Under(x) \subseteq U
    BY <1>1, UnderIsSome
  <1>6. ASSUME NEW n \in Under(heap[0].mid) \cup {0}, heap[n].mid # 0 PROVE Balanced(n)
    <2>1. n \in U \cup {0}
      BY <1>4, <1>5
    <2> QED
      BY <1>1, <1>6, <2>1, LevelBalanced
  <1> QED
    BY <1>6 DEF LevelsBalanced

LEMMA AccountsIfInv ==
  ASSUME TreeInv, short \in BOOLEAN
  PROVE  PoolAccounts
  <1>1. Idle = IdleIn(pidle)
    BY DEF Idle, IdleIn
  <1>2. CASE short
    <2>1. pidle = <<>>
      BY <1>2, LooseTree
    <2>2. Idle = {} /\ Len(pidle) = 0
      BY <2>1 DEF Idle
    <2>3. Cardinality({}) = 0
      BY FS_EmptySet
    <2> QED
      BY <1>2, <2>2, <2>3 DEF PoolAccounts
  <1>3. CASE ~short
    <2>1. PICK U, T, S, b, V : Good(heap, U, T, S, b, V) /\ Pool(pidle, ncost_unit, U, nblock_offset * nblock_unit_num + noffset)
      BY <1>3, WholeTree
    <2>2. PICK m : m = nblock_offset * nblock_unit_num + noffset
      OBVIOUS
    <2>3. /\ pidle \in Seq(1 .. m) /\ ncost_unit = Cardinality(U) /\ U \cap IdleIn(pidle) = {} /\ U \cup IdleIn(pidle) = 1 .. m
          /\ \A i, j \in DOMAIN pidle : pidle[i] = pidle[j] => i = j
      BY <2>1, <2>2 DEF Pool
    <2>4. Cardinality(IdleIn(pidle)) = Len(pidle)
      <3>1. PICK idle : idle = pidle
        OBVIOUS
      <3>2. idle \in Seq(1 .. m) /\ \A i, j \in DOMAIN idle : idle[i] = idle[j] => i = j
        BY <2>3, <3>1
      <3>3. Cardinality(IdleIn(idle)) = Len(idle)
        BY <3>2, IdleOnce
      <3> QED
        BY <3>1, <3>3
    <2>5. Under(heap[0].mid) = U
      <3>1. Loose(heap, U, T, S, NoNode) /\ Exact(heap, U, T, NoNode) /\ U = T[heap[0].mid]
        BY <2>1 DEF Good, Shape
      <3>2. \A x \in U \cup {0} : Under(x) = T[x]
        BY <3>1, UnderIsSome
      <3>3. PICK h : h = heap
        OBVIOUS
      <3>4. LooseFacts(h, U, T, S)
        BY <3>1, <3>3, LooseFactsAre
      <3>5. heap[0].mid \in U \cup {0}
        BY <3>3, <3>4 DEF LooseFacts
      <3> QED
        BY <3>1, <3>2, <3>5
    <2> QED
      BY <1>1, <2>2, <2>3, <2>4, <2>5 DEF PoolAccounts
  <1> QED
    BY <1>2, <1>3

(***************************************************************************)
(* However keys are inserted and removed, a search finds a key exactly if  *)
(* it was inserted and not removed since.                                  *)
(***************************************************************************)
THEOREM HeldIsFoundHolds == TreeSpec => []HeldIsFound
  <1>1. TreeInv => HeldIsFound
    BY FoundIfHeld, TernaryTreeAssumption
  <1> QED
    BY <1>1, TreeInvHolds, PTL

(***************************************************************************)
(* However keys are inserted and removed, and also when there was no node  *)
(* left, every level is a red-black tree.                                  *)
(***************************************************************************)
THEOREM LevelsBalancedHolds == TreeSpec => []LevelsBalanced
  <1>1. TreeInv /\ short \in BOOLEAN => LevelsBalanced
    BY BalancedIfInv
  <1> QED
    BY <1>1, TreeInvHolds, PTL

(***************************************************************************)
(* However keys are inserted and removed, the pool accounts for each node  *)
(* it gave out.                                                            *)
(***************************************************************************)
THEOREM PoolAccountsHolds == TreeSpec => []PoolAccounts
  <1>1. TreeInv /\ short \in BOOLEAN => PoolAccounts
    BY AccountsIfInv
  <1> QED
    BY <1>1, TreeInvHolds, PTL
=============================================================================
