-------------------------- MODULE TernaryTreeNodes ----------------------------
(***************************************************************************)
(* One node more or less in a level of the ternary tree, on the lemmas of  *)
(* TernaryTreeShape: the keys under its nodes, the way a node leaves       *)
(* (Unlink), the search for a key and its removal, and the red leaf that   *)
(* an insertion hangs up.  TernaryTreeProofs goes on from here.            *)
(***************************************************************************)
EXTENDS TernaryTreeShape

-----------------------------------------------------------------------------
(***************************************************************************)
(* What the keys have to do with the tree.  The nodes with a key are those *)
(* without a middle son, but the node V that is left of a tree without     *)
(* keys; d does not count.                                                 *)
(***************************************************************************)
Text(k) == k # NoKey /\ \A i \in DOMAIN k : k[i] # 0

Keyed(h, T, V, d, x) == {y \in T[h[x].mid] \ {d} : y \notin V /\ h[y].mid = 0}

\* The nodes of a level ask for the same byte, one after the byte of the node above.
Aligned(h, U, S, d) == \A o \in (U \cup {0}) \ {d} : \A y, z \in S[h[o].mid] \ {d} : h[y].index = h[z].index
Deeper(h, U, S, d)  == \A o \in U \ {d} : \A y \in S[h[o].mid] \ {d} : h[y].index > h[o].index
First(h, S, d, V)   == \A y \in S[h[0].mid] \ {d} : h[y].index = IF V = {} THEN 0 ELSE Taken
\* A node has a key or a middle son.
Items(h, U, d) == \A x \in U \ {d} : IF h[x].mid = 0 THEN Text(h[x].item) ELSE h[x].item = NoKey
\* The keys under a node have its byte, and agree before the byte the next level asks for.
Spelled(h, U, T, d, V) ==
  \A x \in U \ {d} : /\ \A y \in Keyed(h, T, V, d, x) : Byte(h[y].item, h[x].index) = h[x].cbyte
                     /\ h[x].mid = 0 /\ x \notin V => Byte(h[x].item, h[x].index) = h[x].cbyte
Agreeing(h, U, T, S, d, V) ==
  \A o \in U \ {d} : \A y, z \in Keyed(h, T, V, d, o), r \in S[h[o].mid] \ {d} :
    \A j \in Int : 0 <= j /\ j < h[r].index => Byte(h[y].item, j) = Byte(h[z].item, j)
\* The node that is left is in the first level, next to at most one other.
Left(h, S, d, V) ==
  V = {} \/ \E v : /\ V = {v} /\ v \in S[h[0].mid] \ {d} /\ h[v].mid = 0 /\ h[v].cbyte # 0
                   /\ \A y \in S[h[0].mid] \ {d} : y = v \/ h[y].cbyte = 0
Keys(h, U, T, S, d, V) ==
  /\ Aligned(h, U, S, d) /\ Deeper(h, U, S, d) /\ First(h, S, d, V) /\ Items(h, U, d)
  /\ Spelled(h, U, T, d, V) /\ Agreeing(h, U, T, S, d, V) /\ Left(h, S, d, V)
\* A level has two nodes, but the first may have one, and that of lev.
Two(h, U, S, d, lev) == \A x \in U \ {d} : h[x].mid # 0 /\ x # lev => \E y, z \in S[h[x].mid] \ {d} : y # z

\* The items of the nodes with a key.
KeysOf(h, T, V, d) == {h[y].item : y \in Keyed(h, T, V, d, 0)}

LEMMA AlikeKeyed ==
  ASSUME NEW h, NEW T, NEW S, NEW g, NEW R, NEW Q, NEW U, NEW d, NEW lev, Alike(h, T, S, g, R, Q, U, d, lev),
         Shape(h, U, T, S, d), NEW V, NEW x \in (U \cup {0}) \ {d}
  PROVE  Keyed(g, R, V, d, x) = Keyed(h, T, V, d, x)
  <1>1. R[g[x].mid] \ {d} = T[h[x].mid] \ {d}
    BY DEF Alike
  <1>2. \A y \in U \ {d} : g[y].mid = 0 <=> h[y].mid = 0
    BY DEF Alike
  <1>3. T[h[x].mid] \subseteq U
    <2>1. h[x].mid \in U \cup {0} /\ T[0] = {}
      BY SonIs DEF Shape, Loose, Wired, Bounded, Mid, Sides
    <2> QED BY <2>1, UnderIs
  <1> QED BY <1>1, <1>2, <1>3 DEF Keyed

LEMMA MidIn ==
  ASSUME NEW h, NEW U, NEW T, NEW S, NEW d, Shape(h, U, T, S, d), NEW x \in (U \cup {0}) \ {d}
  PROVE  /\ Mid(h, d, x) = h[x].mid /\ h[x].mid \in U \cup {0} /\ h[x].mid \in DOMAIN h /\ T[h[x].mid] \subseteq U /\ S[h[x].mid] \subseteq U
         /\ S[h[x].mid] \subseteq T[h[x].mid] /\ U \subseteq DOMAIN h /\ 0 \in DOMAIN h /\ 0 \notin U
  <1>1. Wired(h, U, d) /\ Bounded(h, U, T, d) /\ Loose(h, U, T, S, d) /\ Levels(h, U, S)
    BY DEF Shape, Loose
  <1>2. Mid(h, d, x) = h[x].mid
    BY DEF Mid
  <1>3. h[x].mid \in U \cup {0}
    BY <1>1, <1>2, SonIs DEF Wired, Sides
  <1>4. (\A y \in U : y \in DOMAIN h) /\ 0 \in DOMAIN h /\ 0 \notin U
    BY <1>1, NodeIn
  <1>5. T[0] = {} /\ S[0] = {}
    BY <1>1 DEF Bounded, Levels
  <1>6. h[x].mid \in U => T[h[x].mid] \subseteq U
    BY UnderIs
  <1>7. h[x].mid \in U => S[h[x].mid] \subseteq U /\ S[h[x].mid] \subseteq T[h[x].mid]
    BY <1>1, LevelIs
  <1> QED BY <1>2, <1>3, <1>4, <1>5, <1>6, <1>7

\* A change in one level leaves the keys where they are.
LEMMA AlikeKeys ==
  ASSUME NEW h, NEW T, NEW S, NEW g, NEW R, NEW Q, NEW U, NEW d, d # 0, NEW lev, Alike(h, T, S, g, R, Q, U, d, lev),
         Shape(h, U, T, S, d), NEW V, Keys(h, U, T, S, d, V)
  PROVE  Keys(g, U, R, Q, d, V) /\ KeysOf(g, R, V, d) = KeysOf(h, T, V, d)
  <1>1. /\ \A x \in DOMAIN h : g[x].cbyte = h[x].cbyte /\ g[x].index = h[x].index /\ g[x].item = h[x].item
        /\ \A x \in (U \cup {0}) \ {d} : Q[g[x].mid] \ {d} = S[h[x].mid] \ {d} /\ (g[x].mid = 0 <=> h[x].mid = 0)
    BY DEF Alike, SameData
  <1>2. \A x \in (U \cup {0}) \ {d} : Keyed(g, R, V, d, x) = Keyed(h, T, V, d, x)
    BY AlikeKeyed
  <1>3. \A x \in (U \cup {0}) \ {d} : S[h[x].mid] \subseteq U /\ T[h[x].mid] \subseteq U /\ U \subseteq DOMAIN h
    BY MidIn
  <1>4. \A x \in (U \cup {0}) \ {d} : Keyed(h, T, V, d, x) \subseteq DOMAIN h
    BY <1>3 DEF Keyed
  <1>5. \A x \in (U \cup {0}) \ {d} : S[h[x].mid] \subseteq DOMAIN h /\ U \subseteq DOMAIN h
    BY <1>3
  <1>6. Aligned(g, U, Q, d)
    BY <1>1, <1>5 DEF Keys, Aligned
  <1>7. Deeper(g, U, Q, d)
    BY <1>1, <1>5 DEF Keys, Deeper
  <1>8. First(g, Q, d, V)
    BY <1>1, <1>5 DEF Keys, First
  <1>9. Items(g, U, d)
    BY <1>1, <1>5 DEF Keys, Items
  <1>10. Spelled(g, U, R, d, V)
    BY <1>1, <1>2, <1>4, <1>5 DEF Keys, Spelled
  <1>11. Agreeing(g, U, R, Q, d, V)
    BY <1>1, <1>2, <1>4, <1>5 DEF Keys, Agreeing
  <1>12. Left(g, Q, d, V)
    <2>1. CASE V = {}
      BY <2>1 DEF Left
    <2>2. CASE V # {}
      <3>1. PICK v : /\ V = {v} /\ v \in S[h[0].mid] \ {d} /\ h[v].mid = 0 /\ h[v].cbyte # 0
                     /\ \A y \in S[h[0].mid] \ {d} : y = v \/ h[y].cbyte = 0
        BY <2>2 DEF Keys, Left
      <3>2. v \in U \ {d}
        BY <1>3, <3>1
      <3> QED BY <1>1, <1>5, <3>1, <3>2 DEF Left
    <2> QED BY <2>1, <2>2
  <1>13. KeysOf(g, R, V, d) = KeysOf(h, T, V, d)
    BY <1>1, <1>2, <1>4 DEF KeysOf
  <1> QED BY <1>6, <1>7, <1>8, <1>9, <1>10, <1>11, <1>12, <1>13 DEF Keys

LEMMA AlikeTwo ==
  ASSUME NEW h, NEW T, NEW S, NEW g, NEW R, NEW Q, NEW U, NEW d, NEW lev, Alike(h, T, S, g, R, Q, U, d, lev), NEW o, Two(h, U, S, d, o)
  PROVE  Two(g, U, Q, d, o)
  BY DEF Alike, Two

\* The same, when d is gone.
LEMMA KeysWithout ==
  ASSUME NEW g, NEW R, NEW Q, NEW U, NEW d, d # 0, NEW W, W = U \ {d}, Shape(g, W, R, Q, NoNode), NEW V, Keys(g, U, R, Q, d, V), NEW lev, Two(g, U, Q, d, lev)
  PROVE  Keys(g, W, R, Q, NoNode, V) /\ Two(g, W, Q, NoNode, lev) /\ KeysOf(g, R, V, NoNode) = KeysOf(g, R, V, d)
  <1>1. NoNode \notin W \cup {0} /\ d \notin W /\ W \ {NoNode} = W /\ (W \cup {0}) \ {NoNode} = (U \cup {0}) \ {d} /\ W \ {NoNode} = U \ {d}
    BY NoHole
  <1>2. \A x \in (U \cup {0}) \ {d} : Q[g[x].mid] \ {NoNode} = Q[g[x].mid] \ {d} /\ R[g[x].mid] \ {NoNode} = R[g[x].mid] \ {d}
    BY <1>1, MidIn
  <1>3. \A x \in (U \cup {0}) \ {d} : Keyed(g, R, V, NoNode, x) = Keyed(g, R, V, d, x)
    BY <1>2 DEF Keyed
  <1>4. 0 \in (U \cup {0}) \ {d} /\ \A x \in U \ {d} : x \in (U \cup {0}) \ {d}
    OBVIOUS
  <1>5. Aligned(g, W, Q, NoNode) /\ Deeper(g, W, Q, NoNode) /\ First(g, Q, NoNode, V) /\ Items(g, W, NoNode)
    <2>1. Aligned(g, W, Q, NoNode)
      BY <1>1, <1>2 DEF Keys, Aligned
    <2>2. Deeper(g, W, Q, NoNode)
      BY <1>1, <1>2, <1>4 DEF Keys, Deeper
    <2>3. First(g, Q, NoNode, V)
      BY <1>2, <1>4 DEF Keys, First
    <2>4. Items(g, W, NoNode)
      BY <1>1 DEF Keys, Items
    <2> QED BY <2>1, <2>2, <2>3, <2>4
  <1>6. Spelled(g, W, R, NoNode, V)
    BY <1>1, <1>3, <1>4 DEF Keys, Spelled
  <1>7. Agreeing(g, W, R, Q, NoNode, V)
    BY <1>1, <1>2, <1>3, <1>4 DEF Keys, Agreeing
  <1>8. Left(g, Q, NoNode, V)
    BY <1>2, <1>4 DEF Keys, Left
  <1>9. Two(g, W, Q, NoNode, lev)
    BY <1>1, <1>2, <1>4 DEF Two
  <1>10. KeysOf(g, R, V, NoNode) = KeysOf(g, R, V, d)
    BY <1>3, <1>4 DEF KeysOf
  <1> QED BY <1>5, <1>6, <1>7, <1>8, <1>9, <1>10 DEF Keys

-----------------------------------------------------------------------------
\* A node is in a level, or under its root, if one that is under it in its level is.
LEMMA ClimbIn ==
  ASSUME NEW h, NEW U, NEW T, NEW S, NEW d, Shape(h, U, T, S, d), NEW o \in U \cup {0}, NEW z \in U, z = Mid(h, d, o)
  PROVE  \A w \in U : \A y \in S[w] : (y \in S[z] => w \in S[z]) /\ (y \in T[z] => w \in T[z])
  <1> DEFINE W == {w \in U : \A y \in S[w] : (y \in S[z] => w \in S[z]) /\ (y \in T[z] => w \in T[z])}
  <1>1. Wired(h, U, d) /\ Bounded(h, U, T, d) /\ Loose(h, U, T, S, d) /\ Levels(h, U, S)
    BY DEF Shape, Loose
  <1>2. ASSUME NEW w \in U, \A s \in Sides : Son(h, d, w, s) \in U => Son(h, d, w, s) \in W, NEW y \in S[w]
        PROVE  (y \in S[z] => w \in S[z]) /\ (y \in T[z] => w \in T[z])
    <2>1. y = w \/ \E s \in Around : y \in S[h[w][s]]
      BY <1>1 DEF Levels, Around
    <2>2. ASSUME NEW s \in Around, y \in S[h[w][s]] PROVE (y \in S[z] => w \in S[z]) /\ (y \in T[z] => w \in T[z])
      <3>0. s \in Sides /\ s # "mid" /\ s \in Around
        BY <2>2 DEF Sides, Around
      <3>1. PICK c : c = h[w][s] /\ c = Son(h, d, w, s) /\ s \in Sides
        BY <3>0 DEF Son
      <3>2. c \in U \cup {0} /\ S[0] = {} /\ 0 \notin U
        BY <1>1, <3>1, NodeIn DEF Wired, Levels
      <3>3. c \in U /\ c # 0 /\ y \in S[c]
        BY <2>2, <3>1, <3>2
      <3>4. (y \in S[z] => c \in S[z]) /\ (y \in T[z] => c \in T[z])
        BY <1>2, <3>1, <3>3
      <3>5. c # z
        <4> SUFFICES ASSUME c = z PROVE FALSE
          OBVIOUS
        <4>1. Son(h, d, o, "mid") = Son(h, d, w, s) /\ Son(h, d, o, "mid") # 0 /\ "mid" \in Sides /\ s # "mid"
          BY <3>1, <3>3 DEF Son, Sides, Around
        <4> QED BY <1>1, <3>1, <4>1, OneParent
      <3>6. c \in T[z] => w \in T[z]
        BY <3>1, <3>3, <3>5, ParentUnder
      <3>7. c \in S[z] => w \in S[z]
        <4>1. h[c].parent = w
          <5>1. h[w][s] # 0 => h[h[w][s]].parent = w
            BY <1>1, <3>0 DEF Wired
          <5> QED BY <3>1, <3>3, <5>1
        <4> QED BY <1>1, <3>5, <4>1, ParentInLevel
      <3> QED BY <3>4, <3>6, <3>7
    <2> QED BY <2>1, <2>2
  <1>3. \A w \in U : (\A s \in Sides : Son(h, d, w, s) \in U => Son(h, d, w, s) \in W) => w \in W
    BY <1>2
  <1>4. U \subseteq W
    <2> HIDE DEF W
    <2> QED BY <1>1, <1>3, NodeInduction
  <1> QED BY <1>4

\* A node is in one level.
LEMMA OneLevel ==
  ASSUME NEW h, NEW U, NEW T, NEW S, NEW d, Shape(h, U, T, S, d), NEW o \in U \cup {0}, NEW q \in U \cup {0},
         NEW y \in S[Mid(h, d, o)], y \in S[Mid(h, d, q)]
  PROVE  o = q
  <1>1. Wired(h, U, d) /\ Loose(h, U, T, S, d) /\ Levels(h, U, S)
    BY DEF Shape, Loose
  <1>2. Mid(h, d, o) \in U /\ Mid(h, d, q) \in U
    BY <1>1, RootIs
  <1>3. Mid(h, d, o) \in S[Mid(h, d, q)]
    BY <1>2, ClimbIn
  <1>4. h[Mid(h, d, o)].parent = 0
    BY <1>1, <1>2, NodeIn DEF Wired
  <1>5. Mid(h, d, o) = Mid(h, d, q)
    BY <1>1, <1>3, <1>4, RootIs
  <1> QED BY <1>1, <1>2, <1>5, NodeIn DEF Wired

\* The leftmost node of a level has its least byte.
LEMMA TreeMinIn ==
  ASSUME NEW h, NEW U, NEW T, NEW S, Shape(h, U, T, S, NoNode)
  PROVE  \A n \in U : /\ TreeMin(h, n) \in S[n] /\ TreeMin(h, n) \in U /\ h[TreeMin(h, n)]["left"] = 0
                      /\ \A y \in S[n] \ {TreeMin(h, n)} : h[y].cbyte > h[TreeMin(h, n)].cbyte
  <1> DEFINE Least(n, m) == m \in S[n] /\ m \in U /\ h[m]["left"] = 0 /\ \A y \in S[n] \ {m} : h[y].cbyte > h[m].cbyte
             W == {n \in U : Least(n, TreeMin(h, n))}
  <1>1. Wired(h, U, NoNode) /\ Bounded(h, U, T, NoNode) /\ Loose(h, U, T, S, NoNode) /\ Levels(h, U, S) /\ Sorted(h, U, S, NoNode) /\ IsHeap(h)
        /\ NoNode \notin U
    BY DEF Shape, Loose, Wired
  <1>2. (\A x \in U : x \in DOMAIN h /\ S[x] \subseteq U /\ h[x].cbyte \in Int) /\ 0 \notin U
    BY <1>1, NodeIn, LevelIs, HeapFields
  <1>3. ASSUME NEW n \in U, \A s \in Sides : Son(h, NoNode, n, s) \in U => Son(h, NoNode, n, s) \in W
        PROVE  Least(n, TreeMin(h, n))
    <2>1. TreeMin(h, n) = IF h[n]["left"] = 0 THEN n ELSE TreeMin(h, h[n]["left"])
      BY <1>1, <1>2, TreeMinIs
    <2>2. S[n] = {n} \cup S[h[n]["left"]] \cup S[h[n]["right"]] /\ S[0] = {}
      BY <1>1 DEF Levels
    <2>3. \A y \in S[n] : y \in U /\ y \in DOMAIN h /\ h[y].cbyte \in Int
      BY <1>2
    <2>4. /\ \A y \in S[h[n]["left"]] : h[y].cbyte < h[n].cbyte
          /\ \A y \in S[h[n]["right"]] : h[y].cbyte > h[n].cbyte
      <3>1. NoNode \notin S[n]
        BY <1>1, <2>3
      <3> QED BY <1>1, <2>2, <3>1 DEF Sorted
    <2>5. CASE h[n]["left"] = 0
      BY <2>1, <2>2, <2>4, <2>5
    <2>6. CASE h[n]["left"] # 0
      <3>1. PICK l : l = h[n]["left"] /\ l \in U
        BY <1>1, <2>6, AroundIn DEF Around
      <3>2. PICK m : m = TreeMin(h, l) /\ Least(l, m) /\ m = TreeMin(h, n)
        BY <1>3, <2>1, <2>6, <3>1, SonIs DEF Sides
      <3>3. ASSUME NEW y \in S[n], y # m PROVE h[y].cbyte > h[m].cbyte
        <4>1. h[m].cbyte \in Int /\ h[n].cbyte \in Int /\ h[y].cbyte \in Int /\ h[m].cbyte < h[n].cbyte
          BY <2>2, <2>3, <2>4, <3>1, <3>2
        <4> QED BY <2>2, <2>4, <3>1, <3>2, <3>3, <4>1
      <3>4. m \in S[n]
        BY <2>2, <3>1, <3>2
      <3> QED BY <3>2, <3>3, <3>4
    <2> QED BY <2>5, <2>6
  <1>4. \A n \in U : (\A s \in Sides : Son(h, NoNode, n, s) \in U => Son(h, NoNode, n, s) \in W) => n \in W
    BY <1>3
  <1>5. U \subseteq W
    <2> HIDE DEF W
    <2> QED BY <1>1, <1>4, NodeInduction
  <1> QED BY <1>5

-----------------------------------------------------------------------------
(***************************************************************************)
(* The next greater node del of the level goes in the place of p, a node   *)
(* with a key; del still hangs where it hung.                              *)
(***************************************************************************)
Carried(g, h, del, p) ==
  /\ IsHeap(g) /\ DOMAIN g = DOMAIN h
  /\ \A y \in DOMAIN h : /\ g[y].color = h[y].color /\ g[y].parent = h[y].parent /\ \A s \in Around : g[y][s] = h[y][s]
                         /\ g[y].mid = IF y = p THEN h[del].mid ELSE h[y].mid
                         /\ g[y].cbyte = IF y = p THEN h[del].cbyte ELSE h[y].cbyte
                         /\ g[y].item = IF y = p THEN h[del].item ELSE h[y].item
                         /\ y # del => g[y].index = h[y].index
CarryPlace(h, U, T, S, lev, p, del) ==
  /\ Shape(h, U, T, S, NoNode) /\ lev \in U \cup {0} /\ p \in S[h[lev].mid] /\ p \in U /\ h[p].mid = 0
  /\ h[p]["left"] # 0 /\ h[p]["right"] # 0
  /\ del \in S[h[p]["right"]] /\ h[del]["left"] = 0 /\ \A y \in S[h[p]["right"]] \ {del} : h[y].cbyte > h[del].cbyte
\* Of the nodes between, what is under del is gone.
CarryT(T, h, del, p) == [x \in DOMAIN T |-> IF del \in T[x] /\ p \notin T[x] THEN T[x] \ T[h[del].mid] ELSE T[x]]

\* The nodes, and what is under them.
CarryNodes(h, U, T, S, p, del, M) ==
  /\ M = T[h[del].mid] /\ del \in U /\ p \in U /\ p # del /\ 0 \notin U /\ NoNode \notin U /\ del \notin M /\ M \subseteq T[del]
  /\ del \in T[h[p]["right"]] /\ T[del] \subseteq T[h[p]["right"]] /\ p \notin T[h[p]["right"]] /\ del \in T[p]
  /\ del \notin T[h[p]["left"]] /\ M \cap T[h[p]["left"]] = {} /\ M \subseteq T[h[p]["right"]] /\ p \notin T[del]
LEMMA CarryNodesAre ==
  ASSUME NEW h, NEW U, NEW T, NEW S, NEW lev, NEW p, NEW del, CarryPlace(h, U, T, S, lev, p, del)
  PROVE  \E M : CarryNodes(h, U, T, S, p, del, M)
  <1>1. /\ Shape(h, U, T, S, NoNode) /\ Loose(h, U, T, S, NoNode) /\ Wired(h, U, NoNode) /\ Bounded(h, U, T, NoNode) /\ Exact(h, U, T, NoNode)
        /\ p \in U /\ h[p]["left"] # 0 /\ h[p]["right"] # 0 /\ del \in S[h[p]["right"]]
    BY DEF CarryPlace, Shape, Loose
  <1>2. PICK r, l : r = h[p]["right"] /\ l = h[p]["left"] /\ r \in U /\ l \in U
    BY <1>1, AroundIn DEF Around
  <1>3. del \in S[r] /\ S[r] \subseteq U /\ S[r] \subseteq T[r]
    BY <1>1, <1>2, LevelIs
  <1>4. del \in U /\ del \in T[r] /\ T[del] \subseteq T[r]
    BY <1>1, <1>2, <1>3, UnderIs
  <1>5. 0 \notin U /\ NoNode \notin U
    BY <1>1, NoHole, NodeIn
  <1>6. p \notin T[r] /\ T[r] \subseteq T[p] /\ T[r] \cap T[l] = {}
    <2>1. "right" \in Sides /\ "left" \in Sides /\ "left" # "right" /\ Son(h, NoNode, p, "right") = r /\ Son(h, NoNode, p, "left") = l
      BY <1>2, SonIs DEF Sides
    <2> QED BY <1>1, <2>1 DEF Bounded, Exact
  <1>7. h[del].mid = Mid(h, NoNode, del)
    BY <1>4, <1>5 DEF Mid
  <1>8. T[h[del].mid] \subseteq T[del] /\ del \notin T[h[del].mid]
    <2>1. "mid" \in Sides /\ Son(h, NoNode, del, "mid") = h[del].mid
      BY <1>7 DEF Son, Sides
    <2> QED BY <1>1, <1>4, <2>1 DEF Bounded
  <1>9. PICK M : M = T[h[del].mid]
    OBVIOUS
  <1>10. p # del /\ del \notin T[l] /\ M \cap T[l] = {} /\ M \subseteq T[r] /\ p \notin T[del] /\ del \in T[p]
    BY <1>4, <1>6, <1>8, <1>9
  <1> QED BY <1>1, <1>2, <1>4, <1>5, <1>6, <1>8, <1>9, <1>10 DEF CarryNodes

\* The sons then.
LEMMA CarrySons ==
  ASSUME NEW h, NEW U, NEW T, NEW S, NEW lev, NEW p, NEW del, CarryPlace(h, U, T, S, lev, p, del), NEW g, Carried(g, h, del, p)
  PROVE  \A x \in U \cup {0} :
           /\ g[x]["left"] = h[x]["left"] /\ g[x]["right"] = h[x]["right"]
           /\ Mid(g, del, x) = IF x = del THEN 0 ELSE IF x = p THEN h[del].mid ELSE h[x].mid
           /\ Mid(h, NoNode, x) = h[x].mid /\ (x = p => h[x].mid = 0)
           /\ \A s \in Around : Son(g, del, x, s) = h[x][s] /\ Son(h, NoNode, x, s) = h[x][s] /\ g[x][s] = h[x][s]
  <1>1. Shape(h, U, T, S, NoNode) /\ Wired(h, U, NoNode)
    BY DEF CarryPlace, Shape, Loose
  <1>2. h[p].mid = 0
    BY DEF CarryPlace
  <1> SUFFICES ASSUME NEW x \in U \cup {0}
               PROVE  /\ g[x]["left"] = h[x]["left"] /\ g[x]["right"] = h[x]["right"]
                      /\ Mid(g, del, x) = IF x = del THEN 0 ELSE IF x = p THEN h[del].mid ELSE h[x].mid
                      /\ Mid(h, NoNode, x) = h[x].mid /\ (x = p => h[x].mid = 0)
                      /\ \A s \in Around : Son(g, del, x, s) = h[x][s] /\ Son(h, NoNode, x, s) = h[x][s] /\ g[x][s] = h[x][s]
    OBVIOUS
  <1>3. x \in DOMAIN h /\ x # NoNode
    BY <1>1, NodeIn, NoHole
  <1>4. (\A s \in Around : g[x][s] = h[x][s]) /\ g[x].mid = IF x = p THEN h[del].mid ELSE h[x].mid
    BY <1>3 DEF Carried
  <1>5. g[x]["left"] = h[x]["left"] /\ g[x]["right"] = h[x]["right"]
    BY <1>4 DEF Around
  <1>6. Mid(g, del, x) = IF x = del THEN 0 ELSE IF x = p THEN h[del].mid ELSE h[x].mid
    BY <1>4 DEF Mid
  <1>7. Mid(h, NoNode, x) = h[x].mid /\ (x = p => h[x].mid = 0)
    BY <1>2, <1>3 DEF Mid
  <1>8. \A s \in Around : Son(g, del, x, s) = g[x][s] /\ Son(h, NoNode, x, s) = h[x][s]
    BY DEF Son, Around
  <1> QED BY <1>4, <1>5, <1>6, <1>7, <1>8

LEMMA CarryWired ==
  ASSUME NEW h, NEW U, NEW T, NEW S, NEW lev, NEW p, NEW del, CarryPlace(h, U, T, S, lev, p, del), NEW g, Carried(g, h, del, p)
  PROVE  Wired(g, U, del)
  <1>1. Shape(h, U, T, S, NoNode) /\ Wired(h, U, NoNode)
    BY DEF CarryPlace, Shape, Loose
  <1>2. PICK M : CarryNodes(h, U, T, S, p, del, M)
    BY CarryNodesAre
  <1>3. del \in U /\ p \in U /\ p # del
    BY <1>2 DEF CarryNodes
  <1>4. \A x \in U \cup {0} :
           /\ g[x]["left"] = h[x]["left"] /\ g[x]["right"] = h[x]["right"]
           /\ Mid(g, del, x) = IF x = del THEN 0 ELSE IF x = p THEN h[del].mid ELSE h[x].mid
           /\ Mid(h, NoNode, x) = h[x].mid /\ (x = p => h[x].mid = 0)
           /\ \A s \in Around : Son(g, del, x, s) = h[x][s] /\ Son(h, NoNode, x, s) = h[x][s] /\ g[x][s] = h[x][s]
    BY CarrySons
  <1>5. (\A x \in U \cup {0} : x \in DOMAIN h) /\ 0 \notin U /\ DOMAIN g = DOMAIN h /\ IsHeap(g) /\ \A x \in DOMAIN h : g[x].parent = h[x].parent /\ g[x].color = h[x].color
    BY <1>1, NodeIn DEF Carried
  <1>6. \A x \in U \cup {0} : h[x].mid \in U \cup {0}
    <2> TAKE x \in U \cup {0}
    <2>1. "mid" \in Sides /\ Son(h, NoNode, x, "mid") = h[x].mid
      BY <1>4 DEF Son, Sides
    <2> QED BY <1>1, <2>1 DEF Wired
  <1>7. \A x \in U \cup {0} : Mid(g, del, x) \in U \cup {0}
    BY <1>3, <1>4, <1>6
  <1>8. \A x \in U \cup {0}, s \in Sides : Son(g, del, x, s) \in U \cup {0}
    <2> TAKE x \in U \cup {0}, s \in Sides
    <2>1. CASE s = "mid"
      BY <1>7, <2>1 DEF Son
    <2>2. CASE s \in Around
      <3>1. Son(h, NoNode, x, s) \in U \cup {0}
        BY <1>1 DEF Wired
      <3> QED BY <1>4, <2>2, <3>1
    <2> QED BY <2>1, <2>2 DEF Sides, Around
  <1>9. \A x \in U, s \in Around : g[x][s] # 0 => g[g[x][s]].parent = x
    <2> TAKE x \in U, s \in Around
    <2>1. g[x][s] = h[x][s] /\ h[x][s] \in U \cup {0} /\ (h[x][s] # 0 => h[h[x][s]].parent = x)
      <3>1. h[x][s] \in U \cup {0}
        BY <1>1, AroundIn
      <3>2. h[x][s] # 0 => h[h[x][s]].parent = x
        BY <1>1 DEF Wired
      <3> QED BY <1>4, <3>1, <3>2
    <2> QED BY <1>5, <2>1
  <1>10. \A x \in U \cup {0} : Mid(g, del, x) # 0 => g[Mid(g, del, x)].parent = 0
    <2> TAKE x \in U \cup {0}
    <2>1. h[x].mid # 0 => h[h[x].mid].parent = 0
      BY <1>1, <1>4 DEF Wired
    <2>2. h[del].mid # 0 => h[h[del].mid].parent = 0
      BY <1>1, <1>3, <1>4 DEF Wired
    <2> QED BY <1>3, <1>4, <1>5, <1>6, <1>7, <2>1, <2>2
  <1>11. ASSUME NEW x \in U \cup {0}, NEW y \in U \cup {0}, Mid(g, del, x) = Mid(g, del, y), Mid(g, del, x) # 0 PROVE x = y
    <2>1. \A a, b \in U \cup {0} : h[a].mid = h[b].mid /\ h[a].mid # 0 => a = b
      BY <1>1, <1>4 DEF Wired
    <2>2. x # del /\ y # del
      BY <1>4, <1>11
    <2> QED BY <1>3, <1>4, <1>11, <2>1, <2>2
  <1>12. \A x \in U : g[x]["left"] = g[x]["right"] => g[x]["left"] = 0
    BY <1>1, <1>4 DEF Wired
  <1>13. IsFiniteSet(DOMAIN g) /\ NoNode \notin DOMAIN g /\ U \subseteq DOMAIN g \ {0} /\ g[0]["left"] = 0 /\ g[0]["right"] = 0 /\ g[0].color = BLACK
    BY <1>1, <1>4, <1>5 DEF Wired
  <1> QED BY <1>5, <1>8, <1>9, <1>10, <1>11, <1>12, <1>13 DEF Wired

-----------------------------------------------------------------------------
LEMMA CarryUnder ==
  ASSUME NEW h, NEW U, NEW T, NEW S, NEW lev, NEW p, NEW del, CarryPlace(h, U, T, S, lev, p, del), NEW g, Carried(g, h, del, p),
         NEW R, R = CarryT(T, h, del, p)
  PROVE  Bounded(g, U, R, del) /\ Exact(g, U, R, del)
  <1>1. Shape(h, U, T, S, NoNode) /\ Wired(h, U, NoNode) /\ Bounded(h, U, T, NoNode) /\ Exact(h, U, T, NoNode)
    BY DEF CarryPlace, Shape, Loose
  <1>2. PICK M : CarryNodes(h, U, T, S, p, del, M)
    BY CarryNodesAre
  <1>3. /\ M = T[h[del].mid] /\ del \in U /\ p \in U /\ p # del /\ 0 \notin U /\ NoNode \notin U /\ del \notin M /\ M \subseteq T[del]
        /\ del \in T[h[p]["right"]] /\ T[del] \subseteq T[h[p]["right"]] /\ p \notin T[h[p]["right"]] /\ del \in T[p]
        /\ del \notin T[h[p]["left"]] /\ M \cap T[h[p]["left"]] = {} /\ M \subseteq T[h[p]["right"]] /\ p \notin T[del]
    BY <1>2 DEF CarryNodes
  <1>4. \A x \in U \cup {0} :
           /\ g[x]["left"] = h[x]["left"] /\ g[x]["right"] = h[x]["right"]
           /\ Mid(g, del, x) = IF x = del THEN 0 ELSE IF x = p THEN h[del].mid ELSE h[x].mid
           /\ Mid(h, NoNode, x) = h[x].mid /\ (x = p => h[x].mid = 0)
           /\ \A s \in Around : Son(g, del, x, s) = h[x][s] /\ Son(h, NoNode, x, s) = h[x][s] /\ g[x][s] = h[x][s]
    BY CarrySons
  <1>5. (\A x \in U \cup {0} : x \in DOMAIN h) /\ 0 \in DOMAIN h /\ DOMAIN g = DOMAIN h
    BY <1>1, NodeIn DEF Carried
  <1>6. T \in [DOMAIN h -> SUBSET DOMAIN h] /\ T[0] = {}
    BY <1>1 DEF Bounded
  <1>7. R \in [DOMAIN h -> SUBSET DOMAIN h] /\ \A x \in DOMAIN h : R[x] = IF del \in T[x] /\ p \notin T[x] THEN T[x] \ M ELSE T[x]
    BY <1>3, <1>6 DEF CarryT
  <1>8. R[0] = {}
    BY <1>5, <1>6, <1>7
  <1>9. \A x \in U : /\ h[x]["left"] \in U \cup {0} /\ h[x]["right"] \in U \cup {0} /\ h[x].mid \in U \cup {0}
                     /\ x \in T[x] /\ T[x] = {x} \cup T[h[x]["left"]] \cup T[h[x].mid] \cup T[h[x]["right"]]
                     /\ x \notin T[h[x]["left"]] /\ x \notin T[h[x].mid] /\ x \notin T[h[x]["right"]]
                     /\ T[h[x]["left"]] \cap T[h[x].mid] = {} /\ T[h[x]["left"]] \cap T[h[x]["right"]] = {} /\ T[h[x].mid] \cap T[h[x]["right"]] = {}
    <2> TAKE x \in U
    <2>1. /\ Son(h, NoNode, x, "left") = h[x]["left"] /\ Son(h, NoNode, x, "right") = h[x]["right"] /\ Son(h, NoNode, x, "mid") = h[x].mid
          /\ "left" \in Sides /\ "right" \in Sides /\ "mid" \in Sides /\ "left" # "right" /\ "left" # "mid" /\ "right" # "mid"
      BY <1>4 DEF Son, Sides
    <2>2. h[x]["left"] \in U \cup {0} /\ h[x]["right"] \in U \cup {0} /\ h[x].mid \in U \cup {0}
      BY <1>1, <2>1 DEF Wired
    <2>3. x \in T[x] /\ x \notin T[h[x]["left"]] /\ x \notin T[h[x].mid] /\ x \notin T[h[x]["right"]]
      BY <1>1, <2>1 DEF Bounded
    <2>4. T[x] = {x} \cup T[h[x]["left"]] \cup T[h[x].mid] \cup T[h[x]["right"]]
      BY <1>1, <1>4 DEF Exact
    <2>5. T[h[x]["left"]] \cap T[h[x].mid] = {} /\ T[h[x]["left"]] \cap T[h[x]["right"]] = {} /\ T[h[x].mid] \cap T[h[x]["right"]] = {}
      BY <1>1, <2>1 DEF Exact
    <2> QED BY <2>2, <2>3, <2>4, <2>5
  <1>10. \A x \in U : \A y \in T[x] : T[y] \subseteq T[x]
    BY <1>1, UnderIs
  \* What a node loses its sons lose.
  <1>11. ASSUME NEW x \in U, NEW A, NEW B, NEW C, R[x] = {x} \cup R[A] \cup R[B] \cup R[C], x \notin R[A], x \notin R[B], x \notin R[C],
                R[A] \cap R[B] = {}, R[A] \cap R[C] = {}, R[B] \cap R[C] = {},
                A = g[x]["left"], B = Mid(g, del, x), C = g[x]["right"]
         PROVE  /\ x \in R[x] /\ \A s \in Sides : R[Son(g, del, x, s)] \subseteq R[x] /\ x \notin R[Son(g, del, x, s)]
                /\ R[x] = {x} \cup R[g[x]["left"]] \cup R[Mid(g, del, x)] \cup R[g[x]["right"]]
                /\ \A s, q \in Sides : s # q => R[Son(g, del, x, s)] \cap R[Son(g, del, x, q)] = {}
    <2>1. Son(g, del, x, "left") = A /\ Son(g, del, x, "mid") = B /\ Son(g, del, x, "right") = C
      BY <1>11 DEF Son
    <2> QED BY <1>11, <2>1 DEF Sides
  <1>12. ASSUME NEW x \in U
         PROVE  \E A, B, C : /\ R[x] = {x} \cup R[A] \cup R[B] \cup R[C] /\ x \notin R[A] /\ x \notin R[B] /\ x \notin R[C]
                             /\ R[A] \cap R[B] = {} /\ R[A] \cap R[C] = {} /\ R[B] \cap R[C] = {}
                             /\ A = g[x]["left"] /\ B = Mid(g, del, x) /\ C = g[x]["right"]
    <2>1. PICK A, B, C : /\ A = h[x]["left"] /\ B = h[x].mid /\ C = h[x]["right"]
      OBVIOUS
    <2>2. A \in DOMAIN h /\ B \in DOMAIN h /\ C \in DOMAIN h /\ x \in DOMAIN h
      BY <1>5, <1>9, <2>1
    <2>3. /\ T[x] = {x} \cup T[A] \cup T[B] \cup T[C] /\ x \notin T[A] /\ x \notin T[B] /\ x \notin T[C]
          /\ T[A] \cap T[B] = {} /\ T[A] \cap T[C] = {} /\ T[B] \cap T[C] = {}
      BY <1>9, <2>1
    <2>4. \A y \in {A, B, C} : (del \in T[y] => T[del] \subseteq T[y]) /\ (p \in T[y] => T[p] \subseteq T[y])
      BY <1>6, <1>9, <1>10, <2>1
    <2>5. /\ R[x] = (IF del \in T[x] /\ p \notin T[x] THEN T[x] \ M ELSE T[x]) /\ R[A] = (IF del \in T[A] /\ p \notin T[A] THEN T[A] \ M ELSE T[A])
          /\ R[B] = (IF del \in T[B] /\ p \notin T[B] THEN T[B] \ M ELSE T[B]) /\ R[C] = (IF del \in T[C] /\ p \notin T[C] THEN T[C] \ M ELSE T[C])
      BY <1>7, <2>2
    <2>6. CASE x = p
      <3>1. B = 0 /\ R[B] = {} /\ T[B] = {}
        BY <1>4, <1>6, <1>8, <2>1, <2>6
      <3>2. PICK N : N = h[del].mid /\ N \in DOMAIN h /\ N = Mid(g, del, x)
        BY <1>3, <1>4, <1>5, <1>9, <2>6
      <3>3. R[N] = M
        BY <1>3, <1>7, <3>2
      <3>4. R[x] = T[x] /\ R[A] = T[A] /\ R[C] = T[C] \ M /\ M \subseteq T[C] /\ M \cap T[A] = {} /\ p \notin M
        BY <1>3, <2>1, <2>3, <2>5, <2>6
      <3>5. R[x] = {x} \cup R[A] \cup R[N] \cup R[C] /\ x \notin R[A] /\ x \notin R[N] /\ x \notin R[C]
            /\ R[A] \cap R[N] = {} /\ R[A] \cap R[C] = {} /\ R[N] \cap R[C] = {}
        BY <2>3, <2>6, <3>1, <3>3, <3>4
      <3> QED BY <1>4, <2>1, <3>2, <3>5
    <2>7. CASE x = del
      <3>1. PICK N : N = 0 /\ N = Mid(g, del, x) /\ R[N] = {}
        BY <1>4, <1>8, <2>7
      <3>2. R[x] = T[x] \ M /\ T[B] = M /\ R[A] = T[A] /\ R[C] = T[C]
        BY <1>3, <2>1, <2>3, <2>5, <2>7
      <3>3. R[x] = {x} \cup R[A] \cup R[N] \cup R[C] /\ x \notin R[A] /\ x \notin R[N] /\ x \notin R[C]
            /\ R[A] \cap R[N] = {} /\ R[A] \cap R[C] = {} /\ R[N] \cap R[C] = {}
        BY <2>3, <3>1, <3>2
      <3> QED BY <1>4, <2>1, <3>1, <3>3
    <2>8. CASE x \notin {p, del}
      <3>1. B = Mid(g, del, x)
        BY <1>4, <2>1, <2>8
      <3>2. R[x] = {x} \cup R[A] \cup R[B] \cup R[C] /\ x \notin R[A] /\ x \notin R[B] /\ x \notin R[C]
            /\ R[A] \cap R[B] = {} /\ R[A] \cap R[C] = {} /\ R[B] \cap R[C] = {}
        <4>1. CASE del \notin T[x]
          BY <2>3, <2>5, <4>1
        <4>2. CASE del \in T[x] /\ p \in T[x]
          <5>1. \A y \in {A, B, C} : R[y] = T[y]
            BY <1>3, <2>3, <2>4, <2>5, <2>8, <4>2
          <5> QED BY <2>3, <2>5, <4>2, <5>1
        <4>3. CASE del \in T[x] /\ p \notin T[x]
          <5>1. p \notin T[A] /\ p \notin T[B] /\ p \notin T[C] /\ (del \in T[A] \/ del \in T[B] \/ del \in T[C])
            BY <2>3, <2>8, <4>3
          <5>2. \A y \in {A, B, C} : R[y] = T[y] \ M
            BY <1>3, <2>3, <2>4, <2>5, <5>1
          <5>3. x \notin M
            BY <1>3, <2>3, <2>4, <5>1
          <5> QED BY <2>3, <2>5, <4>3, <5>2, <5>3
        <4> QED BY <4>1, <4>2, <4>3
      <3> QED BY <1>4, <2>1, <3>1, <3>2
    <2> QED BY <2>6, <2>7, <2>8
  <1>13. \A x \in U : /\ x \in R[x] /\ \A s \in Sides : R[Son(g, del, x, s)] \subseteq R[x] /\ x \notin R[Son(g, del, x, s)]
                      /\ R[x] = {x} \cup R[g[x]["left"]] \cup R[Mid(g, del, x)] \cup R[g[x]["right"]]
                      /\ \A s, q \in Sides : s # q => R[Son(g, del, x, s)] \cap R[Son(g, del, x, q)] = {}
    <2> TAKE x \in U
    <2>1. PICK A, B, C : /\ R[x] = {x} \cup R[A] \cup R[B] \cup R[C] /\ x \notin R[A] /\ x \notin R[B] /\ x \notin R[C]
                         /\ R[A] \cap R[B] = {} /\ R[A] \cap R[C] = {} /\ R[B] \cap R[C] = {}
                         /\ A = g[x]["left"] /\ B = Mid(g, del, x) /\ C = g[x]["right"]
      BY <1>12
    <2> QED BY <1>11, <2>1
  <1>14. Bounded(g, U, R, del)
    BY <1>5, <1>7, <1>8, <1>13 DEF Bounded
  <1>15. Exact(g, U, R, del)
    BY <1>13 DEF Exact
  <1> QED BY <1>14, <1>15

LEMMA CarrySorted ==
  ASSUME NEW h, NEW U, NEW T, NEW S, NEW lev, NEW p, NEW del, CarryPlace(h, U, T, S, lev, p, del), NEW g, Carried(g, h, del, p)
  PROVE  Levels(g, U, S) /\ Sorted(g, U, S, del)
  <1>1. Shape(h, U, T, S, NoNode) /\ Wired(h, U, NoNode) /\ Levels(h, U, S) /\ Sorted(h, U, S, NoNode) /\ Loose(h, U, T, S, NoNode) /\ IsHeap(h)
    BY DEF CarryPlace, Shape, Loose, Wired
  <1>2. /\ p \in U /\ del \in S[h[p]["right"]] /\ h[p]["right"] # 0 /\ \A y \in S[h[p]["right"]] \ {del} : h[y].cbyte > h[del].cbyte
    BY DEF CarryPlace
  <1>3. \A x \in U \cup {0} : g[x]["left"] = h[x]["left"] /\ g[x]["right"] = h[x]["right"]
    BY CarrySons
  <1>4. (\A x \in U \cup {0} : x \in DOMAIN h) /\ 0 \notin U /\ DOMAIN g = DOMAIN h /\ NoNode \notin U
        /\ \A x \in DOMAIN h : g[x].cbyte = IF x = p THEN h[del].cbyte ELSE h[x].cbyte
    BY <1>1, NodeIn, NoHole DEF Carried
  <1>5. Levels(g, U, S)
    BY <1>1, <1>3, <1>4 DEF Levels
  <1>6. \A x \in U, s \in Around : S[h[x][s]] \subseteq U /\ h[x][s] \in U \cup {0}
    <2> TAKE x \in U, s \in Around
    <2>1. h[x][s] \in U \cup {0} /\ S[0] = {}
      BY <1>1, AroundIn DEF Levels
    <2> QED BY <1>1, <2>1, LevelIs
  <1>7. \A x \in U : h[x].cbyte \in Int
    BY <1>1, <1>4, HeapFields
  <1>8. \A x \in U, s \in Around : \A y \in S[h[x][s]] : Ahead(s, h[y].cbyte, h[x].cbyte)
    <2>1. \A x \in U \ {NoNode}, s \in Around : \A y \in S[h[x][s]] \ {NoNode} : Ahead(s, h[y].cbyte, h[x].cbyte)
      BY <1>1, SortedIs
    <2> QED BY <1>4, <1>6, <2>1
  <1>9. del \in U /\ h[p].cbyte < h[del].cbyte
    <2>1. "right" \in Around /\ "right" # "left"
      BY DEF Around
    <2> QED BY <1>2, <1>6, <1>8, <2>1 DEF Ahead
  <1>10. \A x \in U : p \in S[x] => del \in S[x]
    <2>1. del \in S[p]
      BY <1>1, <1>2 DEF Levels
    <2> QED BY <1>1, <2>1, LevelIs
  <1>11. ASSUME NEW x \in U \ {del}, NEW s \in Around, NEW y \in S[g[x][s]] \ {del} PROVE Ahead(s, g[y].cbyte, g[x].cbyte)
    <2>1. g[x][s] = h[x][s] /\ y \in U /\ y \in S[h[x][s]] /\ x \in U /\ y \in DOMAIN h /\ x \in DOMAIN h /\ y # del /\ x # del
      <3>1. g[x][s] = h[x][s]
        BY CarrySons
      <3> QED BY <1>4, <1>6, <1>11, <3>1
    <2>2. Ahead(s, h[y].cbyte, h[x].cbyte) /\ h[y].cbyte \in Int /\ h[x].cbyte \in Int /\ h[del].cbyte \in Int /\ h[p].cbyte \in Int
      BY <1>2, <1>7, <1>8, <1>9, <2>1
    <2>3. CASE x = p
      <3>1. y # p
        <4>1. h[y].cbyte # h[p].cbyte
          BY <2>2, <2>3, AheadIs
        <4> QED BY <4>1
      <3>2. CASE s = "left"
        BY <1>4, <1>9, <2>1, <2>2, <2>3, <3>1, <3>2 DEF Ahead
      <3>3. CASE s = "right"
        <4>1. h[y].cbyte > h[del].cbyte
          BY <1>2, <2>1, <2>3, <3>3
        <4>2. "right" # "left"
          OBVIOUS
        <4> QED BY <1>4, <2>1, <2>3, <3>1, <3>3, <4>1, <4>2 DEF Ahead
      <3> QED BY <3>2, <3>3 DEF Around
    <2>4. CASE x # p /\ y = p
      <3>1. h[x][s] \in U
        <4>1. S[0] = {}
          BY <1>1 DEF Levels
        <4> QED BY <1>6, <2>1, <4>1
      <3>2. Ahead(s, h[del].cbyte, h[x].cbyte)
        BY <1>8, <1>10, <2>1, <2>4, <3>1
      <3> QED BY <1>4, <2>1, <2>4, <3>2
    <2>5. CASE x # p /\ y # p
      BY <1>4, <2>1, <2>2, <2>5
    <2> QED BY <2>3, <2>4, <2>5
  <1>12. Sorted(g, U, S, del)
    BY <1>11, SortedIs
  <1> QED BY <1>5, <1>12

\* The tree then, without del.
LEMMA CarryShape ==
  ASSUME NEW h, NEW U, NEW T, NEW S, NEW lev, NEW p, NEW del, CarryPlace(h, U, T, S, lev, p, del), NEW g, Carried(g, h, del, p),
         NEW R, R = CarryT(T, h, del, p)
  PROVE  Shape(g, U, R, S, del)
  BY CarryWired, CarryUnder, CarrySorted DEF Shape, Loose

-----------------------------------------------------------------------------
\* What was under the middle son of x is under that of x, and what was under that of del is under that of p.
Under1(x, del, p) == IF x = p THEN del ELSE x
LEMMA CarryMids ==
  ASSUME NEW h, NEW U, NEW T, NEW S, NEW lev, NEW p, NEW del, CarryPlace(h, U, T, S, lev, p, del), NEW g, Carried(g, h, del, p),
         NEW R, R = CarryT(T, h, del, p), NEW x \in (U \cup {0}) \ {del}
  PROVE  /\ Under1(x, del, p) \in (U \cup {0}) \ {NoNode} /\ g[x].mid = h[Under1(x, del, p)].mid /\ R[g[x].mid] = T[g[x].mid]
         /\ (x = p => del \notin T[g[x].mid] /\ p \notin T[g[x].mid]) /\ (x # p /\ del \in T[h[x].mid] => p \in T[h[x].mid])
         /\ (x # p /\ p \in T[h[x].mid] => del \in T[h[x].mid])
         /\ (del \in S[g[x].mid] => x = lev)
  <1>1. Shape(h, U, T, S, NoNode) /\ Loose(h, U, T, S, NoNode) /\ Wired(h, U, NoNode) /\ Levels(h, U, S) /\ Bounded(h, U, T, NoNode)
        /\ lev \in U \cup {0} /\ p \in S[h[lev].mid] /\ del \in S[h[p]["right"]]
    BY DEF CarryPlace, Shape, Loose
  <1>2. PICK M : CarryNodes(h, U, T, S, p, del, M)
    BY CarryNodesAre
  <1>3. M = T[h[del].mid] /\ del \in U /\ p \in U /\ p # del /\ 0 \notin U /\ NoNode \notin U /\ del \notin M /\ M \subseteq T[del] /\ p \notin T[del] /\ del \in T[p]
    BY <1>2 DEF CarryNodes
  <1>4. 0 # NoNode /\ (\A y \in U \cup {0} : y \in DOMAIN h /\ y # NoNode) /\ 0 \in DOMAIN h
    BY <1>1, <1>3, NodeIn DEF NoNode
  <1>5. Under1(x, del, p) \in (U \cup {0}) \ {NoNode}
    BY <1>3, <1>4 DEF Under1
  <1>6. g[x].mid = h[Under1(x, del, p)].mid
    <2>1. g[x].mid = IF x = p THEN h[del].mid ELSE h[x].mid
      BY <1>4 DEF Carried
    <2> QED BY <2>1 DEF Under1
  <1>7. PICK z : z = g[x].mid /\ z \in DOMAIN h /\ z \in U \cup {0} /\ z = Mid(h, NoNode, Under1(x, del, p))
    BY <1>1, <1>5, <1>6, MidIn
  <1>8. T[0] = {} /\ S[0] = {} /\ DOMAIN T = DOMAIN h
    BY <1>1 DEF Bounded, Levels
  <1>9. R[z] = IF del \in T[z] /\ p \notin T[z] THEN T[z] \ M ELSE T[z]
    BY <1>3, <1>7, <1>8 DEF CarryT
  <1>10. del \in S[p]
    BY <1>1, <1>3 DEF Levels
  <1>11. x # p /\ del \in T[z] => p \in T[z]
    <2> SUFFICES ASSUME x # p, del \in T[z] PROVE p \in T[z]
      OBVIOUS
    <2>1. z \in U
      BY <1>7, <1>8
    <2> QED BY <1>1, <1>3, <1>5, <1>7, <1>10, <2>1, ClimbIn
  <1>12. x = p => del \notin T[z] /\ p \notin T[z]
    BY <1>3, <1>6, <1>7 DEF Under1
  <1>13. x # p /\ p \in T[z] => del \in T[z]
    <2> SUFFICES ASSUME x # p, p \in T[z] PROVE del \in T[z]
      OBVIOUS
    <2>1. z \in U
      BY <1>7, <1>8
    <2> QED BY <1>1, <1>3, <2>1, UnderIs
  <1>14. del \in S[z] => x = lev
    <2> SUFFICES ASSUME del \in S[z] PROVE x = lev
      OBVIOUS
    <2>1. Mid(h, NoNode, lev) = h[lev].mid /\ h[lev].mid \in U
      BY <1>1, <1>4, <1>8, MidIn
    <2>2. del \in S[h[lev].mid]
      BY <1>1, <1>10, <2>1, LevelIs
    <2>3. Under1(x, del, p) = lev
      BY <1>1, <1>5, <1>7, <2>1, <2>2, OneLevel
    <2>4. x # p
      <3>1. z \in U => S[z] \subseteq T[z]
        BY <1>1, LevelIs
      <3> QED BY <1>7, <1>8, <1>12, <3>1
    <2> QED BY <2>3, <2>4 DEF Under1
  <1>15. z = h[x].mid \/ x = p
    BY <1>6, <1>7 DEF Under1
  <1> QED BY <1>3, <1>5, <1>6, <1>7, <1>9, <1>11, <1>12, <1>13, <1>14, <1>15

\* A node with a key has one that a node had before.
LEMMA CarryKeyed ==
  ASSUME NEW h, NEW U, NEW T, NEW S, NEW lev, NEW p, NEW del, CarryPlace(h, U, T, S, lev, p, del), NEW g, Carried(g, h, del, p),
         NEW R, R = CarryT(T, h, del, p), NEW V, del \notin V, NEW x \in (U \cup {0}) \ {del}, NEW y \in Keyed(g, R, V, del, x)
  PROVE  \E w \in Keyed(h, T, V, NoNode, Under1(x, del, p)) : /\ g[y].item = h[w].item /\ w = (IF y = p THEN del ELSE y)
  <1>1. Shape(h, U, T, S, NoNode)
    BY DEF CarryPlace
  <1>2. PICK M : CarryNodes(h, U, T, S, p, del, M)
    BY CarryNodesAre
  <1>3. del \in U /\ p \in U /\ p # del /\ 0 \notin U /\ NoNode \notin U
    BY <1>2 DEF CarryNodes
  <1>4. /\ Under1(x, del, p) \in (U \cup {0}) \ {NoNode} /\ g[x].mid = h[Under1(x, del, p)].mid /\ R[g[x].mid] = T[g[x].mid]
        /\ (x = p => del \notin T[g[x].mid] /\ p \notin T[g[x].mid]) /\ (x # p /\ p \in T[h[x].mid] => del \in T[h[x].mid])
    BY CarryMids
  <1>5. y \in T[h[Under1(x, del, p)].mid] /\ y # del /\ y \notin V /\ g[y].mid = 0
    BY <1>4 DEF Keyed
  <1>6. T[h[Under1(x, del, p)].mid] \subseteq U /\ U \subseteq DOMAIN h
    BY <1>1, <1>4, MidIn
  <1>7. g[y].mid = (IF y = p THEN h[del].mid ELSE h[y].mid) /\ g[y].item = (IF y = p THEN h[del].item ELSE h[y].item)
    BY <1>5, <1>6 DEF Carried
  <1>8. CASE y = p
    <2>1. x # p /\ del \in T[h[Under1(x, del, p)].mid]
      BY <1>4, <1>5, <1>8 DEF Under1
    <2>2. del \in Keyed(h, T, V, NoNode, Under1(x, del, p))
      BY <1>3, <1>5, <1>7, <1>8, <2>1 DEF Keyed
    <2> QED BY <1>7, <1>8, <2>2
  <1>9. CASE y # p
    <2>1. y \in Keyed(h, T, V, NoNode, Under1(x, del, p))
      BY <1>3, <1>5, <1>6, <1>7, <1>9 DEF Keyed
    <2> QED BY <1>7, <1>9, <2>1
  <1> QED BY <1>8, <1>9

\* The node that is left of a tree without keys is neither of them.
LEMMA CarryLeft ==
  ASSUME NEW h, NEW U, NEW T, NEW S, NEW lev, NEW p, NEW del, CarryPlace(h, U, T, S, lev, p, del), NEW V, Left(h, S, NoNode, V), p \notin V
  PROVE  /\ del \notin V /\ (V # {} => del \notin S[h[0].mid] /\ p \notin S[h[0].mid]) /\ lev # del
         /\ del \in S[h[lev].mid] /\ p \in S[h[lev].mid]
  <1>1. Shape(h, U, T, S, NoNode) /\ Loose(h, U, T, S, NoNode)
    BY DEF CarryPlace, Shape
  <1>2. PICK M : CarryNodes(h, U, T, S, p, del, M)
    BY CarryNodesAre
  <1>3. del \in U /\ p \in U /\ p # del /\ 0 \notin U /\ NoNode \notin U /\ 0 # NoNode /\ lev \in (U \cup {0}) \ {NoNode}
    BY <1>2 DEF CarryNodes, CarryPlace, NoNode
  <1>4. p \in S[h[lev].mid] /\ del \in S[h[p]["right"]] /\ h[p]["left"] # 0 /\ h[p]["right"] # 0
    BY DEF CarryPlace
  <1>5. Mid(h, NoNode, lev) = h[lev].mid /\ Mid(h, NoNode, 0) = h[0].mid /\ h[lev].mid \in U \cup {0} /\ h[0].mid \in U \cup {0} /\ S[h[lev].mid] \subseteq T[h[lev].mid]
    BY <1>1, <1>3, MidIn
  <1>6. S[0] = {} /\ S[p] = {p} \cup S[h[p]["left"]] \cup S[h[p]["right"]]
    BY <1>1, <1>3 DEF Loose, Levels
  <1>7. h[lev].mid \in U
    BY <1>4, <1>5, <1>6
  <1>8. S[p] \subseteq S[h[lev].mid] /\ p \in S[p]
    BY <1>1, <1>3, <1>4, <1>7, LevelIs
  <1>9. del \in S[h[lev].mid]
    BY <1>4, <1>6, <1>8
  <1>10. lev # del
    <2> SUFFICES ASSUME lev = del PROVE FALSE
      OBVIOUS
    <2>1. p \in T[h[del].mid]
      BY <1>4, <1>5
    <2> QED BY <1>2, <2>1 DEF CarryNodes
  <1>11. lev = 0 => V = {}
    <2> SUFFICES ASSUME lev = 0, V # {} PROVE FALSE
      OBVIOUS
    <2>1. PICK v : /\ V = {v} /\ \A y \in S[h[0].mid] \ {NoNode} : y = v \/ h[y].cbyte = 0
      BY DEF Left
    <2>2. "left" \in Around /\ "right" \in Around
      BY DEF Around
    <2>3. h[p]["left"] \in U /\ h[p]["right"] \in U
      BY <1>1, <1>3, <1>4, <2>2, HangsIs
    <2>4. h[p]["left"] \in S[h[p]["left"]] /\ h[p]["right"] \in S[h[p]["right"]]
      BY <1>1, <2>3, LevelIs
    <2>5. h[h[p]["left"]].cbyte < h[p].cbyte /\ h[h[p]["right"]].cbyte > h[p].cbyte
      BY <1>1, <1>3, <2>3, <2>4 DEF Loose, Sorted
    <2>6. h[p].cbyte = 0
      BY <1>3, <1>4, <2>1
    <2>7. h[p]["left"] = v /\ h[p]["right"] = v
      BY <1>3, <1>6, <1>8, <2>1, <2>3, <2>4, <2>5, <2>6
    <2>8. h[p]["left"] = h[p]["right"] => h[p]["left"] = 0
      BY <1>1, <1>3 DEF Loose, Wired
    <2> QED BY <1>4, <2>7, <2>8
  <1>12. V # {} => del \notin S[h[0].mid] /\ p \notin S[h[0].mid]
    <2>1. 0 \in U \cup {0} /\ lev \in U \cup {0}
      BY <1>3
    <2>2. del \in S[h[0].mid] \/ p \in S[h[0].mid] => lev = 0
      BY <1>1, <1>4, <1>5, <1>9, <2>1, OneLevel
    <2> QED BY <1>11, <2>2
  <1>13. del \notin V
    <2> SUFFICES ASSUME del \in V PROVE FALSE
      OBVIOUS
    <2>1. PICK v : V = {v} /\ v \in S[h[0].mid]
      BY DEF Left
    <2> QED BY <1>12, <2>1
  <1> QED BY <1>4, <1>9, <1>10, <1>12, <1>13

CarryKeysAre(g, h, U, T, S, R, V, lev, p, del) ==
  /\ Keys(g, U, R, S, del, V)
  /\ R[g[0].mid] = T[h[0].mid]
  /\ Two(h, U, S, NoNode, 0) => Two(g, U, S, del, lev)
  /\ U = T[h[0].mid] /\ (\A y \in Keyed(h, T, V, NoNode, 0) : h[y].item = h[p].item => y = p)
       => KeysOf(g, R, V, del) = KeysOf(h, T, V, NoNode) \ {h[p].item}
\* The nodes, and the sets under them, by what they were.
LEMMA CarryData ==
  ASSUME NEW h, NEW U, NEW T, NEW S, NEW lev, NEW p, NEW del, CarryPlace(h, U, T, S, lev, p, del), NEW g, Carried(g, h, del, p),
         NEW V, Keys(h, U, T, S, NoNode, V)
  PROVE  \A x \in U \ {del} : /\ Under1(x, del, p) \in U /\ g[x].mid = h[Under1(x, del, p)].mid /\ g[x].cbyte = h[Under1(x, del, p)].cbyte
                               /\ g[x].item = h[Under1(x, del, p)].item /\ g[x].index = h[Under1(x, del, p)].index /\ g[x].index = h[x].index
                               /\ x \in DOMAIN h /\ Under1(x, del, p) # NoNode
  <1>1. Shape(h, U, T, S, NoNode) /\ lev \in (U \cup {0}) \ {NoNode}
    <2>1. NoNode \notin U
      BY CarryNodesAre DEF CarryNodes
    <2> QED BY <2>1 DEF CarryPlace, NoNode
  <1>2. PICK M : CarryNodes(h, U, T, S, p, del, M)
    BY CarryNodesAre
  <1>3. del \in U /\ p \in U /\ p # del /\ 0 \notin U /\ NoNode \notin U
    BY <1>2 DEF CarryNodes
  <1>4. U \subseteq DOMAIN h
    BY <1>1, MidIn
  <1>5. Aligned(h, U, S, NoNode)
    BY DEF Keys
  <1>6. p \in S[h[lev].mid] /\ del \in S[h[lev].mid]
    <2>1. p \in S[h[lev].mid] /\ del \in S[h[p]["right"]]
      BY DEF CarryPlace
    <2>2. Loose(h, U, T, S, NoNode)
      BY <1>1 DEF Shape
    <2>3. S[0] = {} /\ S[p] = {p} \cup S[h[p]["left"]] \cup S[h[p]["right"]]
      BY <1>3, <2>2 DEF Loose, Levels
    <2>4. h[lev].mid \in U
      BY <1>1, <2>1, <2>3, MidIn
    <2>5. S[p] \subseteq S[h[lev].mid]
      BY <2>1, <2>2, <2>4, LevelIs
    <2> QED BY <2>1, <2>3, <2>5
  <1>7. h[p].index = h[del].index
    <2>1. p \in S[h[lev].mid] \ {NoNode} /\ del \in S[h[lev].mid] \ {NoNode}
      BY <1>3, <1>6
    <2> QED BY <1>1, <1>5, <2>1 DEF Aligned
  <1> SUFFICES ASSUME NEW x \in U \ {del}
               PROVE /\ Under1(x, del, p) \in U /\ g[x].mid = h[Under1(x, del, p)].mid /\ g[x].cbyte = h[Under1(x, del, p)].cbyte
                               /\ g[x].item = h[Under1(x, del, p)].item /\ g[x].index = h[Under1(x, del, p)].index /\ g[x].index = h[x].index
                               /\ x \in DOMAIN h /\ Under1(x, del, p) # NoNode
    OBVIOUS
  <1>8. x \in DOMAIN h
    BY <1>4
  <1>9. /\ g[x].mid = (IF x = p THEN h[del].mid ELSE h[x].mid) /\ g[x].cbyte = (IF x = p THEN h[del].cbyte ELSE h[x].cbyte)
        /\ g[x].item = (IF x = p THEN h[del].item ELSE h[x].item) /\ g[x].index = h[x].index
    BY <1>8 DEF Carried
  <1> QED BY <1>3, <1>7, <1>8, <1>9 DEF Under1

LEMMA CarryKeys ==
  ASSUME NEW h, NEW U, NEW T, NEW S, NEW lev, NEW p, NEW del, CarryPlace(h, U, T, S, lev, p, del), NEW g, Carried(g, h, del, p),
         NEW R, R = CarryT(T, h, del, p), NEW V, Keys(h, U, T, S, NoNode, V), p \notin V
  PROVE  CarryKeysAre(g, h, U, T, S, R, V, lev, p, del)
  <1> DEFINE w(x) == Under1(x, del, p)
  <1>1. Shape(h, U, T, S, NoNode) /\ Loose(h, U, T, S, NoNode)
    BY DEF CarryPlace, Shape
  <1>2. PICK M : CarryNodes(h, U, T, S, p, del, M)
    BY CarryNodesAre
  <1>3. del \in U /\ p \in U /\ p # del /\ 0 \notin U /\ NoNode \notin U /\ 0 # NoNode /\ 0 # del /\ 0 # p
    BY <1>2 DEF CarryNodes, NoNode
  <1>4. /\ Aligned(h, U, S, NoNode) /\ Deeper(h, U, S, NoNode) /\ First(h, S, NoNode, V) /\ Items(h, U, NoNode)
        /\ Spelled(h, U, T, NoNode, V) /\ Agreeing(h, U, T, S, NoNode, V) /\ Left(h, S, NoNode, V)
    BY DEF Keys
  <1>5. /\ del \notin V /\ (V # {} => del \notin S[h[0].mid] /\ p \notin S[h[0].mid]) /\ lev # del
    BY <1>4, CarryLeft
  <1>6. \A x \in (U \cup {0}) \ {del} :
           /\ w(x) \in (U \cup {0}) \ {NoNode} /\ g[x].mid = h[w(x)].mid /\ R[g[x].mid] = T[g[x].mid]
           /\ (del \in S[g[x].mid] => x = lev)
    BY CarryMids
  <1>7. \A x \in U \ {del} : /\ w(x) \in U /\ g[x].mid = h[w(x)].mid /\ g[x].cbyte = h[w(x)].cbyte
                               /\ g[x].item = h[w(x)].item /\ g[x].index = h[w(x)].index /\ g[x].index = h[x].index
                               /\ x \in DOMAIN h /\ w(x) # NoNode
    BY CarryData
  <1>8. \A x \in (U \cup {0}) \ {del} : S[g[x].mid] \subseteq U
    BY <1>1, <1>6, MidIn
  <1>9. w(0) = 0
    BY <1>3 DEF Under1
  <1>10. \A x \in (U \cup {0}) \ {del} : \A y \in Keyed(g, R, V, del, x) :
            \E u \in Keyed(h, T, V, NoNode, w(x)) : g[y].item = h[u].item /\ u = (IF y = p THEN del ELSE y)
    BY <1>5, CarryKeyed
  <1> HIDE DEF w
  <1>11. Aligned(g, U, S, del)
    <2> SUFFICES ASSUME NEW o \in (U \cup {0}) \ {del}, NEW y \in S[g[o].mid] \ {del}, NEW z \in S[g[o].mid] \ {del}
                 PROVE g[y].index = g[z].index
      BY DEF Aligned
    <2>1. g[y].index = h[y].index /\ g[z].index = h[z].index /\ y # NoNode /\ z # NoNode
      BY <1>3, <1>7, <1>8
    <2>2. w(o) \in (U \cup {0}) \ {NoNode} /\ y \in S[h[w(o)].mid] \ {NoNode} /\ z \in S[h[w(o)].mid] \ {NoNode}
      BY <1>6, <2>1
    <2>3. h[y].index = h[z].index
      BY <1>4, <2>2 DEF Aligned
    <2> QED BY <2>1, <2>3
  <1>12. Deeper(g, U, S, del)
    <2> SUFFICES ASSUME NEW o \in U \ {del}, NEW y \in S[g[o].mid] \ {del}
                 PROVE g[y].index > g[o].index
      BY DEF Deeper
    <2>1. g[y].index = h[y].index /\ y # NoNode
      BY <1>3, <1>7, <1>8
    <2>2. w(o) \in U \ {NoNode} /\ y \in S[h[w(o)].mid] \ {NoNode}
      BY <1>7, <2>1
    <2>3. h[y].index > h[w(o)].index
      BY <1>4, <2>2 DEF Deeper
    <2> QED BY <1>7, <2>1, <2>3
  <1>13. First(g, S, del, V)
    <2> SUFFICES ASSUME NEW y \in S[g[0].mid] \ {del} PROVE g[y].index = IF V = {} THEN 0 ELSE Taken
      BY DEF First
    <2>1. g[y].index = h[y].index /\ y # NoNode
      BY <1>3, <1>7, <1>8
    <2>2. y \in S[h[0].mid] \ {NoNode}
      BY <1>3, <1>6, <1>9, <2>1
    <2> QED BY <1>4, <2>1, <2>2 DEF First
  <1>14. Items(g, U, del)
    <2> SUFFICES ASSUME NEW x \in U \ {del} PROVE IF g[x].mid = 0 THEN Text(g[x].item) ELSE g[x].item = NoKey
      BY DEF Items
    <2> QED BY <1>4, <1>7 DEF Items
  <1>15. Spelled(g, U, R, del, V)
    <2> SUFFICES ASSUME NEW x \in U \ {del}
                 PROVE /\ \A y \in Keyed(g, R, V, del, x) : Byte(g[y].item, g[x].index) = g[x].cbyte
                       /\ g[x].mid = 0 /\ x \notin V => Byte(g[x].item, g[x].index) = g[x].cbyte
      BY DEF Spelled
    <2>1. w(x) \in U \ {NoNode} /\ g[x].mid = h[w(x)].mid /\ g[x].item = h[w(x)].item /\ g[x].index = h[w(x)].index /\ g[x].cbyte = h[w(x)].cbyte
      BY <1>7
    <2>2. \A u \in Keyed(h, T, V, NoNode, w(x)) : Byte(h[u].item, h[w(x)].index) = h[w(x)].cbyte
      BY <1>4, <2>1 DEF Spelled
    <2>3. h[w(x)].mid = 0 /\ w(x) \notin V => Byte(h[w(x)].item, h[w(x)].index) = h[w(x)].cbyte
      BY <1>4, <2>1 DEF Spelled
    <2>4. x \notin V => w(x) \notin V
      BY <1>5 DEF w, Under1
    <2>5. \A y \in Keyed(g, R, V, del, x) : \E u \in Keyed(h, T, V, NoNode, w(x)) : g[y].item = h[u].item
      BY <1>10
    <2> QED BY <2>1, <2>2, <2>3, <2>4, <2>5
  <1>16. Agreeing(g, U, R, S, del, V)
    <2> SUFFICES ASSUME NEW o \in U \ {del}, NEW y \in Keyed(g, R, V, del, o), NEW z \in Keyed(g, R, V, del, o), NEW r \in S[g[o].mid] \ {del},
                        NEW j \in Int, 0 <= j, j < g[r].index
                 PROVE Byte(g[y].item, j) = Byte(g[z].item, j)
      BY DEF Agreeing
    <2>1. g[r].index = h[r].index /\ r # NoNode
      BY <1>3, <1>7, <1>8
    <2>2. w(o) \in U \ {NoNode} /\ r \in S[h[w(o)].mid] \ {NoNode}
      BY <1>7, <2>1
    <2>3. PICK u \in Keyed(h, T, V, NoNode, w(o)) : g[y].item = h[u].item
      BY <1>10
    <2>4. PICK v \in Keyed(h, T, V, NoNode, w(o)) : g[z].item = h[v].item
      BY <1>10
    <2>5. 0 <= j /\ j < h[r].index => Byte(h[u].item, j) = Byte(h[v].item, j)
      BY <1>4, <2>2, <2>3, <2>4 DEF Agreeing
    <2> QED BY <2>1, <2>3, <2>4, <2>5
  <1>17. Left(g, S, del, V)
    <2> SUFFICES ASSUME V # {} PROVE Left(g, S, del, V)
      BY DEF Left
    <2>1. PICK v : /\ V = {v} /\ v \in S[h[0].mid] \ {NoNode} /\ h[v].mid = 0 /\ h[v].cbyte # 0
                   /\ \A y \in S[h[0].mid] \ {NoNode} : y = v \/ h[y].cbyte = 0
      BY <1>4 DEF Left
    <2>2. g[0].mid = h[0].mid /\ S[h[0].mid] \subseteq U
      BY <1>3, <1>6, <1>8, <1>9
    <2>3. \A y \in S[h[0].mid] : y \in U \ {del} /\ y # p /\ g[y].mid = h[y].mid /\ g[y].cbyte = h[y].cbyte
      <3> SUFFICES ASSUME NEW y \in S[h[0].mid] PROVE y \in U \ {del} /\ y # p /\ g[y].mid = h[y].mid /\ g[y].cbyte = h[y].cbyte
        OBVIOUS
      <3>1. y \in U \ {del} /\ y # p
        BY <1>5, <2>2
      <3>2. w(y) = y
        BY <3>1 DEF w, Under1
      <3> QED BY <1>7, <3>1, <3>2
    <2>4. \A y \in S[g[0].mid] \ {del} : y = v \/ g[y].cbyte = 0
      BY <1>3, <2>1, <2>2, <2>3
    <2>5. v \in S[g[0].mid] \ {del} /\ g[v].mid = 0 /\ g[v].cbyte # 0
      BY <2>1, <2>2, <2>3
    <2> QED BY <2>1, <2>4, <2>5 DEF Left
  <1>18. Keys(g, U, R, S, del, V)
    BY <1>11, <1>12, <1>13, <1>14, <1>15, <1>16, <1>17 DEF Keys
  <1>19. g[0].mid = h[0].mid /\ R[g[0].mid] = T[h[0].mid]
    BY <1>3, <1>6, <1>9
  <1>20. Two(h, U, S, NoNode, 0) => Two(g, U, S, del, lev)
    <2> SUFFICES ASSUME Two(h, U, S, NoNode, 0), NEW x \in U \ {del}, g[x].mid # 0, x # lev
                 PROVE \E y, z \in S[g[x].mid] \ {del} : y # z
      BY DEF Two
    <2>1. w(x) \in U \ {NoNode} /\ g[x].mid = h[w(x)].mid /\ w(x) # 0
      BY <1>3, <1>7
    <2>2. \E y, z \in S[h[w(x)].mid] \ {NoNode} : y # z
      BY <2>1 DEF Two
    <2>3. del \notin S[g[x].mid]
      BY <1>6
    <2> QED BY <2>1, <2>2, <2>3
  <1>21. U = T[h[0].mid] /\ (\A y \in Keyed(h, T, V, NoNode, 0) : h[y].item = h[p].item => y = p)
           => KeysOf(g, R, V, del) = KeysOf(h, T, V, NoNode) \ {h[p].item}
    <2> SUFFICES ASSUME U = T[h[0].mid], \A y \in Keyed(h, T, V, NoNode, 0) : h[y].item = h[p].item => y = p
                 PROVE KeysOf(g, R, V, del) = KeysOf(h, T, V, NoNode) \ {h[p].item}
      OBVIOUS
    <2>1. p \in Keyed(h, T, V, NoNode, 0)
      BY <1>3 DEF Keyed, CarryPlace
    <2>2. \A y \in Keyed(g, R, V, del, 0) : g[y].item \in KeysOf(h, T, V, NoNode) \ {h[p].item}
      <3> SUFFICES ASSUME NEW y \in Keyed(g, R, V, del, 0) PROVE g[y].item \in KeysOf(h, T, V, NoNode) \ {h[p].item}
        OBVIOUS
      <3>1. 0 \in (U \cup {0}) \ {del}
        BY <1>3
      <3>2. PICK u \in Keyed(h, T, V, NoNode, 0) : g[y].item = h[u].item /\ u = (IF y = p THEN del ELSE y)
        BY <1>9, <1>10, <3>1
      <3>3. u # p
        BY <1>3, <3>2
      <3> QED BY <3>2, <3>3 DEF KeysOf
    <2>3. \A u \in Keyed(h, T, V, NoNode, 0) : h[u].item # h[p].item => h[u].item \in KeysOf(g, R, V, del)
      <3> SUFFICES ASSUME NEW u \in Keyed(h, T, V, NoNode, 0), u # p PROVE h[u].item \in KeysOf(g, R, V, del)
        OBVIOUS
      <3>1. u \in T[h[0].mid] /\ u \in U /\ u \notin V /\ h[u].mid = 0
        BY DEF Keyed
      <3>2. CASE u = del
        <4>1. w(p) = del /\ p \in U \ {del}
          BY <1>3 DEF w, Under1
        <4>2. g[p].mid = 0 /\ g[p].item = h[u].item
          BY <1>7, <3>1, <3>2, <4>1
        <4>3. p \in Keyed(g, R, V, del, 0)
          BY <1>3, <1>19, <4>2 DEF Keyed
        <4> QED BY <4>2, <4>3 DEF KeysOf
      <3>3. CASE u # del
        <4>1. w(u) = u /\ u \in U \ {del}
          BY <3>1, <3>3 DEF w, Under1
        <4>2. g[u].mid = 0 /\ g[u].item = h[u].item
          BY <1>7, <3>1, <4>1
        <4>3. u \in Keyed(g, R, V, del, 0)
          BY <1>19, <3>1, <3>3, <4>2 DEF Keyed
        <4> QED BY <4>2, <4>3 DEF KeysOf
      <3> QED BY <3>2, <3>3
    <2>4. \A v : v \in KeysOf(g, R, V, del) => v \in KeysOf(h, T, V, NoNode) \ {h[p].item}
      BY <2>2 DEF KeysOf
    <2>5. \A v : v \in KeysOf(h, T, V, NoNode) \ {h[p].item} => v \in KeysOf(g, R, V, del)
      <3> SUFFICES ASSUME NEW v, v \in KeysOf(h, T, V, NoNode) \ {h[p].item} PROVE v \in KeysOf(g, R, V, del)
        OBVIOUS
      <3>1. PICK u \in Keyed(h, T, V, NoNode, 0) : v = h[u].item
        BY DEF KeysOf
      <3> QED BY <2>3, <3>1
    <2> QED BY <2>4, <2>5
  <1> QED BY <1>18, <1>19, <1>20, <1>21 DEF CarryKeysAre

(***************************************************************************)
(* A node d with one son is taken out: the son hangs where d hung.         *)
(***************************************************************************)
\* The one place d hangs from: side q of the node o.
HookAt(h, U, S, d, lev, o, q) ==
  /\ o \in (U \cup {0}) \ {d} /\ q \in Sides /\ Son(h, d, o, q) = d
  /\ \A y \in DOMAIN h, s \in Sides : Hook(h, lev, d, y, s) <=> y = o /\ s = q
  /\ IF q = "mid" THEN o = lev /\ h[d].parent = 0 /\ h[lev].mid = d ELSE o \in S[h[lev].mid] /\ h[d].parent = o /\ h[lev].mid # d
  /\ \A x \in U \cup {0}, s \in Sides : Son(h, d, x, s) = d => x = o /\ s = q

LEMMA HookAtIs ==
  ASSUME NEW h, NEW U, NEW T, NEW S, NEW d, Shape(h, U, T, S, d), NEW lev \in (U \cup {0}) \ {d}, d \in S[h[lev].mid]
  PROVE  \E o, q : HookAt(h, U, S, d, lev, o, q)
  <1>1. Loose(h, U, T, S, d) /\ Wired(h, U, d)
    BY DEF Shape, Loose
  <1>2. Mid(h, d, lev) = h[lev].mid /\ h[lev].mid \in U /\ d \in U /\ (h[d].parent = 0 <=> d = h[lev].mid) /\ S[h[lev].mid] \subseteq U
    BY <1>1, LevIs
  <1>3. 0 \notin U /\ "mid" \in Sides /\ "mid" \notin Around /\ d # 0
    BY <1>1, <1>2, NodeIn DEF Sides, Around
  <1>4. ASSUME NEW o \in U \cup {0}, NEW q \in Sides, Son(h, d, o, q) = d
        PROVE  \A x \in U \cup {0}, s \in Sides : Son(h, d, x, s) = d => x = o /\ s = q
    <2>1. ASSUME NEW x \in U \cup {0}, NEW s \in Sides, Son(h, d, x, s) = Son(h, d, o, q), Son(h, d, x, s) # 0 PROVE x = o /\ s = q
      <3>1. Loose(h, U, T, S, d)
        BY <1>1
      <3> QED BY <1>4, <2>1, <3>1, OneParent
    <2> QED BY <1>3, <1>4, <2>1
  <1>5. CASE d = h[lev].mid
    <2>1. Son(h, d, lev, "mid") = d
      BY <1>2, <1>5 DEF Son
    <2>2. \A y \in DOMAIN h, s \in Sides : Hook(h, lev, d, y, s) <=> y = lev /\ s = "mid"
      BY <1>2, <1>5 DEF Hook
    <2>3. \A x \in U \cup {0}, s \in Sides : Son(h, d, x, s) = d => x = lev /\ s = "mid"
      BY <1>3, <1>4, <2>1
    <2>4. HookAt(h, U, S, d, lev, lev, "mid")
      BY <1>2, <1>3, <1>5, <2>1, <2>2, <2>3 DEF HookAt
    <2> QED BY <2>4
  <1>6. CASE d # h[lev].mid
    <2>1. /\ h[d].parent \in S[h[lev].mid] /\ h[d].parent \in U /\ Hangs(h, d) \in Around /\ h[h[d].parent][Hangs(h, d)] = d
          /\ h[d].parent # 0
      BY <1>1, <1>2, <1>6, ParentInLevel
    <2>2. PICK o, q : o = h[d].parent /\ q = Hangs(h, d)
      OBVIOUS
    <2>3. o \in U /\ q \in Around /\ h[o][q] = d /\ o # d
      <3>1. h[o][q] # o
        BY <1>1, <1>3, <2>1, <2>2, HangsIs
      <3> QED BY <2>1, <2>2, <3>1
    <2>4. Son(h, d, o, q) = d /\ q \in Sides /\ q # "mid"
      BY <2>3 DEF Son, Around, Sides
    <2>5. \A y \in DOMAIN h, s \in Sides : Hook(h, lev, d, y, s) <=> y = o /\ s = q
      BY <1>2, <1>6, <2>2 DEF Hook
    <2>6. \A x \in U \cup {0}, s \in Sides : Son(h, d, x, s) = d => x = o /\ s = q
      BY <1>4, <2>3, <2>4
    <2>7. HookAt(h, U, S, d, lev, o, q)
      BY <1>6, <2>1, <2>2, <2>3, <2>4, <2>5, <2>6 DEF HookAt
    <2> QED BY <2>7
  <1> QED BY <1>5, <1>6

Bypassed(g, h, lev, d, only) ==
  /\ IsHeap(g) /\ DOMAIN g = DOMAIN h
  /\ \A y \in DOMAIN h :
       /\ SameData(g, h, y) /\ g[y].color = h[y].color
       /\ g[y].parent = IF y = only THEN h[d].parent ELSE h[y].parent
       /\ \A s \in Sides : g[y][s] = IF Hook(h, lev, d, y, s) THEN only ELSE h[y][s]
       /\ y # only /\ (\A s \in Sides : ~Hook(h, lev, d, y, s)) => g[y] = h[y]

\* d has one son, on side t.
OneSon(h, U, T, S, d, lev, t, only) ==
  /\ Shape(h, U, T, S, d) /\ lev \in (U \cup {0}) \ {d} /\ d \in S[h[lev].mid] /\ t \in Around /\ only = h[d][t] /\ only # 0
  /\ h[d][Other(t)] = 0

LEMMA BypassSons ==
  ASSUME NEW h, NEW U, NEW T, NEW S, NEW d, NEW lev, NEW t, NEW only, OneSon(h, U, T, S, d, lev, t, only),
         NEW g, Bypassed(g, h, lev, d, only), NEW o, NEW q, HookAt(h, U, S, d, lev, o, q)
  PROVE  /\ \A x \in (U \ {d}) \cup {0}, s \in Sides :
              /\ Son(g, NoNode, x, s) = IF x = o /\ s = q THEN only ELSE Son(h, d, x, s)
              /\ Son(h, d, x, s) # only /\ (Son(h, d, x, s) = d <=> x = o /\ s = q)
              /\ Son(h, d, x, s) \in U \cup {0} /\ Son(h, d, x, s) \in DOMAIN h
         /\ \A x \in (U \ {d}) \cup {0} : g[x].mid = Mid(g, NoNode, x) /\ h[x].mid = Mid(h, d, x)
         /\ d \in U /\ only \in U \ {d} /\ d # 0 /\ 0 \notin U /\ NoNode \notin DOMAIN h /\ (\A x \in U \cup {0} : x \in DOMAIN h)
         /\ T[d] = {d} \cup T[only] /\ S[d] = {d} \cup S[only] /\ T[0] = {} /\ S[0] = {} /\ only \in S[h[lev].mid]
  <1>0. /\ Shape(h, U, T, S, d) /\ lev \in (U \cup {0}) \ {d} /\ d \in S[h[lev].mid] /\ t \in Around /\ only = h[d][t] /\ only # 0
        /\ h[d][Other(t)] = 0
    BY DEF OneSon
  <1>1. Loose(h, U, T, S, d) /\ Wired(h, U, d) /\ Bounded(h, U, T, d) /\ Levels(h, U, S) /\ Exact(h, U, T, d)
    BY <1>0 DEF Shape, Loose
  <1>2. Mid(h, d, lev) = h[lev].mid /\ h[lev].mid \in U /\ d \in U /\ S[d] \subseteq S[h[lev].mid] /\ S[h[lev].mid] \subseteq U
    BY <1>0, <1>1, LevIs
  <1>3. (\A x \in U \cup {0} : x \in DOMAIN h) /\ 0 \notin U /\ NoNode \notin DOMAIN h /\ d # 0 /\ 0 # NoNode /\ d # NoNode
    <2>1. (\A x \in U \cup {0} : x \in DOMAIN h) /\ 0 \notin U /\ NoNode \notin DOMAIN h
      BY <1>1, NodeIn DEF Wired
    <2> QED BY <1>2, <2>1
  <1>4. only \in U \ {d}
    <2>1. only # d
      BY <1>0, <1>1, <1>2, HangsIs
    <2> QED BY <1>0, <1>1, <1>2, <2>1, AroundIn
  <1>5. o \in (U \cup {0}) \ {d} /\ q \in Sides /\ Son(h, d, o, q) = d
        /\ \A y \in DOMAIN h, s \in Sides : Hook(h, lev, d, y, s) <=> y = o /\ s = q
    BY DEF HookAt
  <1>6. Son(h, d, d, t) = only /\ t \in Sides
    BY <1>0 DEF Son, Around, Sides
  <1>7. ASSUME NEW x \in (U \ {d}) \cup {0}, NEW s \in Sides
        PROVE  /\ Son(g, NoNode, x, s) = IF x = o /\ s = q THEN only ELSE Son(h, d, x, s)
               /\ Son(h, d, x, s) # only /\ (Son(h, d, x, s) = d <=> x = o /\ s = q)
               /\ Son(h, d, x, s) \in U \cup {0} /\ Son(h, d, x, s) \in DOMAIN h
    <2>1. x \in U \cup {0} /\ x # d /\ x # NoNode /\ x \in DOMAIN h
      BY <1>3
    <2>2. Son(g, NoNode, x, s) = g[x][s] /\ Son(h, d, x, s) = h[x][s]
      BY <2>1 DEF Son, Mid
    <2>3. g[x][s] = IF x = o /\ s = q THEN only ELSE h[x][s]
      BY <1>5, <2>1 DEF Bypassed
    <2>4. Son(h, d, x, s) # only
      <3> SUFFICES ASSUME Son(h, d, x, s) = only PROVE FALSE
        OBVIOUS
      <3>1. Son(h, d, x, s) = Son(h, d, d, t) /\ Son(h, d, x, s) # 0 /\ d \in U \cup {0}
        BY <1>0, <1>2, <1>6
      <3>2. x = d
        BY <1>1, <1>6, <2>1, <3>1, OneParent
      <3> QED BY <2>1, <3>2
    <2>5. Son(h, d, x, s) = d => x = o /\ s = q
      BY <2>1 DEF HookAt
    <2>6. Son(h, d, x, s) \in U \cup {0} /\ Son(h, d, x, s) \in DOMAIN h
      BY <1>1, <1>3, <2>1 DEF Wired
    <2> QED BY <1>5, <2>2, <2>3, <2>4, <2>5, <2>6
  <1>8. \A x \in (U \ {d}) \cup {0} : g[x].mid = Mid(g, NoNode, x) /\ h[x].mid = Mid(h, d, x)
    BY <1>2, <1>3 DEF Mid
  <1>9. T[d] = {d} \cup T[only] /\ S[d] = {d} \cup S[only] /\ T[0] = {} /\ S[0] = {}
    <2>1. Mid(h, d, d) = 0
      BY DEF Mid
    <2>2. (h[d]["left"] = 0 /\ h[d]["right"] = only) \/ (h[d]["right"] = 0 /\ h[d]["left"] = only)
      <3>1. CASE t = "left"
        <4>1. Other(t) = "right"
          BY <3>1 DEF Other
        <4> QED BY <1>0, <3>1, <4>1
      <3>2. CASE t = "right"
        <4>1. Other(t) = "left"
          BY <3>2 DEF Other
        <4> QED BY <1>0, <3>2, <4>1
      <3> QED BY <1>0, <3>1, <3>2 DEF Around
    <2> QED BY <1>1, <1>2, <2>1, <2>2 DEF Bounded, Levels, Exact
  <1>10. only \in S[h[lev].mid]
    <2>1. only \in S[only]
      BY <1>1, <1>4, LevelIs
    <2> QED BY <1>2, <1>9, <2>1
  <1> QED BY <1>2, <1>3, <1>4, <1>7, <1>8, <1>9, <1>10

LEMMA BypassWired ==
  ASSUME NEW h, NEW U, NEW T, NEW S, NEW d, NEW lev, NEW t, NEW only, OneSon(h, U, T, S, d, lev, t, only),
         NEW g, Bypassed(g, h, lev, d, only), NEW o, NEW q, HookAt(h, U, S, d, lev, o, q)
  PROVE  Wired(g, U \ {d}, NoNode)
  <1>0. /\ Shape(h, U, T, S, d) /\ lev \in (U \cup {0}) \ {d} /\ d \in S[h[lev].mid] /\ t \in Around /\ only = h[d][t] /\ only # 0
    BY DEF OneSon
  <1>1. Loose(h, U, T, S, d) /\ Wired(h, U, d)
    BY <1>0 DEF Shape, Loose
  <1>2. \A x \in (U \ {d}) \cup {0}, s \in Sides :
              /\ Son(g, NoNode, x, s) = IF x = o /\ s = q THEN only ELSE Son(h, d, x, s)
              /\ Son(h, d, x, s) # only /\ (Son(h, d, x, s) = d <=> x = o /\ s = q)
              /\ Son(h, d, x, s) \in U \cup {0} /\ Son(h, d, x, s) \in DOMAIN h
    BY BypassSons
  <1>3. d \in U /\ only \in U \ {d} /\ d # 0 /\ 0 \notin U /\ NoNode \notin DOMAIN h /\ (\A x \in U \cup {0} : x \in DOMAIN h)
    BY BypassSons
  <1>4. /\ IsHeap(g) /\ DOMAIN g = DOMAIN h
        /\ \A y \in DOMAIN h : g[y].color = h[y].color /\ g[y].parent = IF y = only THEN h[d].parent ELSE h[y].parent
    BY DEF Bypassed
  <1>5. /\ o \in (U \cup {0}) \ {d} /\ q \in Sides /\ Son(h, d, o, q) = d
        /\ IF q = "mid" THEN o = lev /\ h[d].parent = 0 ELSE h[d].parent = o
    BY DEF HookAt
  <1>6. "left" \in Sides /\ "right" \in Sides /\ "mid" \in Sides /\ "mid" \notin Around /\ Around \subseteq Sides
        /\ "left" \in Around /\ "right" \in Around /\ "left" # "right"
    BY DEF Sides, Around
  <1>7. \A x, s : Son(g, NoNode, x, "mid") = Mid(g, NoNode, x) /\ Son(h, d, x, "mid") = Mid(h, d, x)
                 /\ (s \in Around => Son(g, NoNode, x, s) = g[x][s] /\ Son(h, d, x, s) = h[x][s])
    BY <1>6 DEF Son
  <1>8. only # 0
    BY <1>0
  <1>9. IsHeap(g) /\ IsFiniteSet(DOMAIN g) /\ NoNode \notin DOMAIN g /\ U \ {d} \subseteq DOMAIN g \ {0}
          /\ g[0]["left"] = 0 /\ g[0]["right"] = 0 /\ g[0].color = BLACK
    <2>1. h[0]["left"] = 0 /\ h[0]["right"] = 0 /\ h[0].color = BLACK /\ IsFiniteSet(DOMAIN h) /\ U \subseteq DOMAIN h
      BY <1>1 DEF Wired
    <2>2. Son(h, d, 0, "left") = 0 /\ Son(h, d, 0, "right") = 0 /\ 0 \in (U \ {d}) \cup {0} /\ 0 \in DOMAIN h
      BY <1>3, <1>6, <1>7, <2>1
    <2>3. ~(0 = o /\ "left" = q) /\ ~(0 = o /\ "right" = q)
      BY <1>2, <1>3, <1>6, <2>2
    <2>4. g[0]["left"] = 0 /\ g[0]["right"] = 0
      BY <1>2, <1>6, <1>7, <2>2, <2>3
    <2> QED BY <1>3, <1>4, <2>1, <2>2, <2>4
  <1>10. \A x \in (U \ {d}) \cup {0}, s \in Sides : Son(g, NoNode, x, s) \in (U \ {d}) \cup {0}
    BY <1>2, <1>3
  <1>11. \A x \in U \ {d}, s \in Around : g[x][s] # 0 => g[g[x][s]].parent = x
    <2> TAKE x \in U \ {d}, s \in Around
    <2>1. x \in (U \ {d}) \cup {0} /\ s \in Sides /\ s # "mid" /\ Son(g, NoNode, x, s) = g[x][s] /\ Son(h, d, x, s) = h[x][s]
      BY <1>6, <1>7
    <2>2. CASE x = o /\ s = q
      BY <1>2, <1>3, <1>4, <1>5, <2>1, <2>2
    <2>3. CASE ~(x = o /\ s = q)
      <3>1. g[x][s] = h[x][s] /\ h[x][s] \in DOMAIN h /\ h[x][s] # only
        BY <1>2, <2>1, <2>3
      <3>2. h[x][s] # 0 => h[h[x][s]].parent = x
        BY <1>1 DEF Wired
      <3> QED BY <1>4, <3>1, <3>2
    <2> QED BY <2>2, <2>3
  <1>12. \A x \in U \ {d} : g[x]["left"] = g[x]["right"] => g[x]["left"] = 0
    <2> TAKE x \in U \ {d}
    <2>1. h[x]["left"] = h[x]["right"] => h[x]["left"] = 0
      BY <1>1 DEF Wired
    <2>2. \A s \in Around : g[x][s] = (IF x = o /\ s = q THEN only ELSE h[x][s]) /\ h[x][s] # only
      BY <1>2, <1>6, <1>7
    <2> QED BY <1>6, <2>1, <2>2
  <1>13. \A x \in (U \ {d}) \cup {0} : Mid(g, NoNode, x) # 0 => g[Mid(g, NoNode, x)].parent = 0
    <2> TAKE x \in (U \ {d}) \cup {0}
    <2>1. CASE x = o /\ q = "mid"
      BY <1>2, <1>3, <1>4, <1>5, <1>6, <1>7, <2>1
    <2>2. CASE ~(x = o /\ q = "mid")
      <3>1. Mid(g, NoNode, x) = Mid(h, d, x) /\ Mid(h, d, x) \in DOMAIN h /\ Mid(h, d, x) # only
        BY <1>2, <1>6, <1>7, <2>2
      <3>2. Mid(h, d, x) # 0 => h[Mid(h, d, x)].parent = 0
        BY <1>1 DEF Wired
      <3> QED BY <1>4, <3>1, <3>2
    <2> QED BY <2>1, <2>2
  <1>14. \A x, y \in (U \ {d}) \cup {0} : Mid(g, NoNode, x) = Mid(g, NoNode, y) /\ Mid(g, NoNode, x) # 0 => x = y
    <2> TAKE x, y \in (U \ {d}) \cup {0}
    <2> SUFFICES ASSUME Mid(g, NoNode, x) = Mid(g, NoNode, y), Mid(g, NoNode, x) # 0 PROVE x = y
      OBVIOUS
    <2>1. \A z \in (U \ {d}) \cup {0} : Mid(g, NoNode, z) = (IF z = o /\ q = "mid" THEN only ELSE Mid(h, d, z)) /\ Mid(h, d, z) # only
      BY <1>2, <1>6, <1>7
    <2>2. Mid(h, d, x) = Mid(h, d, y) /\ Mid(h, d, x) # 0 => x = y
      BY <1>1 DEF Wired
    <2> QED BY <2>1, <2>2
  <1> QED BY <1>9, <1>10, <1>11, <1>12, <1>13, <1>14 DEF Wired

LEMMA BypassShape ==
  ASSUME NEW h, NEW U, NEW T, NEW S, NEW d, NEW lev, NEW t, NEW only, OneSon(h, U, T, S, d, lev, t, only),
         NEW g, Bypassed(g, h, lev, d, only), NEW R, NEW Q, R = Less(T, d), Q = Less(S, d)
  PROVE  Shape(g, U \ {d}, R, Q, NoNode) /\ Alike(h, T, S, g, R, Q, U, d, lev)
  <1>0. /\ Shape(h, U, T, S, d) /\ lev \in (U \cup {0}) \ {d} /\ d \in S[h[lev].mid] /\ t \in Around /\ only = h[d][t] /\ only # 0
    BY DEF OneSon
  <1>1. Loose(h, U, T, S, d) /\ Wired(h, U, d) /\ Bounded(h, U, T, d) /\ Levels(h, U, S) /\ Sorted(h, U, S, d) /\ Exact(h, U, T, d)
    BY <1>0 DEF Shape, Loose
  <1>2. PICK o, q : HookAt(h, U, S, d, lev, o, q)
    BY <1>0, HookAtIs
  <1>3. \A x \in (U \ {d}) \cup {0}, s \in Sides :
              /\ Son(g, NoNode, x, s) = IF x = o /\ s = q THEN only ELSE Son(h, d, x, s)
              /\ Son(h, d, x, s) # only /\ (Son(h, d, x, s) = d <=> x = o /\ s = q)
              /\ Son(h, d, x, s) \in U \cup {0} /\ Son(h, d, x, s) \in DOMAIN h
    BY <1>2, BypassSons
  <1>4. \A x \in (U \ {d}) \cup {0} : g[x].mid = Mid(g, NoNode, x) /\ h[x].mid = Mid(h, d, x)
    BY <1>2, BypassSons
  <1>5. /\ d \in U /\ only \in U \ {d} /\ d # 0 /\ 0 \notin U /\ NoNode \notin DOMAIN h /\ (\A x \in U \cup {0} : x \in DOMAIN h)
        /\ T[d] = {d} \cup T[only] /\ S[d] = {d} \cup S[only] /\ T[0] = {} /\ S[0] = {} /\ only \in S[h[lev].mid]
    BY <1>2, BypassSons
  <1>6. Wired(g, U \ {d}, NoNode)
    BY <1>2, BypassWired
  <1>7. DOMAIN g = DOMAIN h /\ \A y \in DOMAIN h : SameData(g, h, y) /\ g[y].color = h[y].color
    BY DEF Bypassed
  <1>8. "left" \in Sides /\ "right" \in Sides /\ "mid" \in Sides /\ "mid" \notin Around /\ Around \subseteq Sides
        /\ "left" \in Around /\ "right" \in Around
    BY DEF Sides, Around
  <1>9. \A x, s : Son(g, NoNode, x, "mid") = Mid(g, NoNode, x) /\ Son(h, d, x, "mid") = Mid(h, d, x)
                 /\ (s \in Around => Son(g, NoNode, x, s) = g[x][s] /\ Son(h, d, x, s) = h[x][s])
    BY <1>8 DEF Son
  <1>11. R \in [DOMAIN h -> SUBSET DOMAIN h] /\ \A x \in DOMAIN h : R[x] = T[x] \ {d}
    BY <1>1, LessIs DEF Bounded
  <1>12. Q \in [DOMAIN h -> SUBSET DOMAIN h] /\ \A x \in DOMAIN h : Q[x] = S[x] \ {d}
    BY <1>1, LessIs DEF Levels
  <1>13. d \notin T[only] /\ d \notin S[only]
    <2>1. Son(h, d, d, t) = only /\ t \in Sides
      BY <1>0, <1>8, <1>9
    <2>2. d \notin T[only]
      BY <1>1, <1>5, <2>1 DEF Bounded
    <2>3. S[only] \subseteq T[only]
      BY <1>1, <1>5, LevelIs
    <2> QED BY <2>2, <2>3
  <1>14. \A x \in (U \ {d}) \cup {0}, s \in Sides : R[Son(g, NoNode, x, s)] = T[Son(h, d, x, s)] \ {d} /\ Q[Son(g, NoNode, x, s)] = S[Son(h, d, x, s)] \ {d}
    <2> TAKE x \in (U \ {d}) \cup {0}, s \in Sides
    <2>1. CASE x = o /\ s = q
      <3>1. Son(g, NoNode, x, s) = only /\ Son(h, d, x, s) = d
        BY <1>3, <2>1
      <3> QED BY <1>5, <1>11, <1>12, <1>13, <3>1
    <2>2. CASE ~(x = o /\ s = q)
      <3>1. Son(g, NoNode, x, s) = Son(h, d, x, s) /\ Son(h, d, x, s) \in DOMAIN h
        BY <1>3, <2>2
      <3> QED BY <1>11, <1>12, <3>1
    <2> QED BY <2>1, <2>2
  <1>15. Bounded(g, U \ {d}, R, NoNode)
    <2>1. \A x \in U \ {d} : x \in R[x] /\ \A s \in Sides : R[Son(g, NoNode, x, s)] \subseteq R[x] /\ x \notin R[Son(g, NoNode, x, s)]
      <3> TAKE x \in U \ {d}
      <3>1. x \in T[x] /\ \A s \in Sides : T[Son(h, d, x, s)] \subseteq T[x] /\ x \notin T[Son(h, d, x, s)]
        BY <1>1 DEF Bounded
      <3>2. R[x] = T[x] \ {d}
        BY <1>5, <1>11
      <3> QED BY <1>14, <3>1, <3>2
    <2> QED BY <1>5, <1>1, <1>7, <1>11, <2>1 DEF Bounded, Wired, IsHeap
  <1>16. Exact(g, U \ {d}, R, NoNode)
    <2> SUFFICES ASSUME NEW x \in U \ {d}
                 PROVE  /\ R[x] = {x} \cup R[g[x]["left"]] \cup R[Mid(g, NoNode, x)] \cup R[g[x]["right"]]
                        /\ \A s, p \in Sides : s # p => R[Son(g, NoNode, x, s)] \cap R[Son(g, NoNode, x, p)] = {}
      BY DEF Exact
    <2>1. Son(g, NoNode, x, "left") = g[x]["left"] /\ Son(g, NoNode, x, "right") = g[x]["right"] /\ Son(g, NoNode, x, "mid") = Mid(g, NoNode, x)
      BY DEF Son
    <2>2. Son(h, d, x, "left") = h[x]["left"] /\ Son(h, d, x, "right") = h[x]["right"] /\ Son(h, d, x, "mid") = Mid(h, d, x)
      BY DEF Son
    <2>3. /\ R[g[x]["left"]] = T[h[x]["left"]] \ {d} /\ R[g[x]["right"]] = T[h[x]["right"]] \ {d}
          /\ R[Mid(g, NoNode, x)] = T[Mid(h, d, x)] \ {d}
      <3>1. \A s \in Sides : R[Son(g, NoNode, x, s)] = T[Son(h, d, x, s)] \ {d}
        BY <1>14
      <3> QED BY <1>8, <2>1, <2>2, <3>1
    <2>4. R[x] = T[x] \ {d} /\ x # d
      BY <1>5, <1>11
    <2>5. T[x] = {x} \cup T[h[x]["left"]] \cup T[Mid(h, d, x)] \cup T[h[x]["right"]]
      BY <1>1 DEF Exact
    <2>6. \A s, p \in Sides : s # p => T[Son(h, d, x, s)] \cap T[Son(h, d, x, p)] = {}
      BY <1>1 DEF Exact
    <2>7. \A s, p \in Sides : s # p => R[Son(g, NoNode, x, s)] \cap R[Son(g, NoNode, x, p)] = {}
      <3> TAKE s, p \in Sides
      <3>1. R[Son(g, NoNode, x, s)] = T[Son(h, d, x, s)] \ {d} /\ R[Son(g, NoNode, x, p)] = T[Son(h, d, x, p)] \ {d}
        BY <1>14
      <3> QED BY <2>6, <3>1
    <2> QED BY <2>3, <2>4, <2>5, <2>7
  <1>17. \A x \in U \ {d}, s \in Around : Q[g[x][s]] = S[h[x][s]] \ {d}
    <2> TAKE x \in U \ {d}, s \in Around
    <2>1. Son(g, NoNode, x, s) = g[x][s] /\ Son(h, d, x, s) = h[x][s] /\ s \in Sides
      BY <1>8, <1>9
    <2>2. Q[Son(g, NoNode, x, s)] = S[Son(h, d, x, s)] \ {d}
      BY <1>14, <2>1
    <2> QED BY <2>1, <2>2
  <1>18. Levels(g, U \ {d}, Q)
    <2>1. \A x \in U \ {d} : Q[x] = {x} \cup Q[g[x]["left"]] \cup Q[g[x]["right"]]
      <3> TAKE x \in U \ {d}
      <3>1. S[x] = {x} \cup S[h[x]["left"]] \cup S[h[x]["right"]] /\ Q[x] = S[x] \ {d} /\ x # d
        BY <1>1, <1>5, <1>12 DEF Levels
      <3>2. Q[g[x]["left"]] = S[h[x]["left"]] \ {d} /\ Q[g[x]["right"]] = S[h[x]["right"]] \ {d}
        BY <1>17 DEF Around
      <3> QED BY <3>1, <3>2
    <2> QED BY <1>1, <1>5, <1>7, <1>12, <2>1 DEF Levels, Wired, IsHeap
  <1>19. Sorted(g, U \ {d}, Q, NoNode)
    <2>1. \A x \in U \ {d}, s \in Around : \A y \in S[h[x][s]] \ {d} : Ahead(s, h[y].cbyte, h[x].cbyte)
      BY <1>1, SortedIs
    <2>2. \A x \in DOMAIN h : g[x].cbyte = h[x].cbyte
      BY <1>7 DEF SameData
    <2>3. \A x \in (U \ {d}) \ {NoNode}, s \in Around : \A y \in Q[g[x][s]] \ {NoNode} : Ahead(s, g[y].cbyte, g[x].cbyte)
      <3> TAKE x \in U \ {d}, s \in Around
      <3>1. Q[g[x][s]] = S[h[x][s]] \ {d} /\ h[x][s] \in DOMAIN h /\ x \in DOMAIN h
        BY <1>1, <1>5, <1>17, AroundIn
      <3>2. S[h[x][s]] \subseteq DOMAIN h
        BY <1>1, <3>1 DEF Levels
      <3> QED BY <2>1, <2>2, <3>1, <3>2
    <2> QED BY <2>3, SortedIs
  <1>20. Shape(g, U \ {d}, R, Q, NoNode)
    BY <1>6, <1>15, <1>16, <1>18, <1>19 DEF Shape, Loose
  <1>21. Alike(h, T, S, g, R, Q, U, d, lev)
    <2>1. \A x \in (U \cup {0}) \ {d} : /\ R[g[x].mid] \ {d} = T[h[x].mid] \ {d} /\ Q[g[x].mid] \ {d} = S[h[x].mid] \ {d}
                                        /\ g[x].mid = 0 <=> h[x].mid = 0
      <3> TAKE x \in (U \cup {0}) \ {d}
      <3>1. x \in (U \ {d}) \cup {0}
        OBVIOUS
      <3>2. g[x].mid = Son(g, NoNode, x, "mid") /\ h[x].mid = Son(h, d, x, "mid")
        BY <1>4, <1>9, <3>1
      <3>3. R[g[x].mid] = T[h[x].mid] \ {d} /\ Q[g[x].mid] = S[h[x].mid] \ {d}
        BY <1>8, <1>14, <3>1, <3>2
      <3>4. g[x].mid = 0 <=> h[x].mid = 0
        BY <1>0, <1>3, <1>5, <1>8, <3>1, <3>2
      <3> QED BY <3>3, <3>4
    <2>2. \A x \in DOMAIN h \ {d} : x \notin S[h[lev].mid] => g[x].color = h[x].color /\ (x # lev => g[x] = h[x])
      <3> TAKE x \in DOMAIN h \ {d}
      <3> SUFFICES ASSUME x \notin S[h[lev].mid], x # lev PROVE g[x] = h[x]
        BY <1>7
      <3>1. x # only
        BY <1>5
      <3>2. x # o
        BY <1>2 DEF HookAt
      <3>3. \A s \in Sides : ~Hook(h, lev, d, x, s)
        BY <1>2, <3>2 DEF HookAt
      <3> QED BY <3>1, <3>3 DEF Bypassed
    <2> QED BY <1>7, <2>1, <2>2 DEF Alike
  <1> QED BY <1>20, <1>21

(***************************************************************************)
(* A node d without two sons is taken out of its level.                    *)
(***************************************************************************)
\* d is in a tree that is even.
Leaving(h, U, T, S, b, d, lev) ==
  /\ Shape(h, U, T, S, d) /\ Counts(h, U, b, NoNode, NoNode, 0) /\ Reds(h, U, d, NoNode)
  /\ lev \in (U \cup {0}) \ {d} /\ d \in S[h[lev].mid]

\* What the counts say then.
LEMMA LeavingFacts ==
  ASSUME NEW h, NEW U, NEW T, NEW S, NEW b, NEW d, NEW lev, Leaving(h, U, T, S, b, d, lev)
  PROVE  /\ Loose(h, U, T, S, d) /\ Wired(h, U, d) /\ d \in U /\ 0 \notin U /\ NoNode \notin U /\ NoNode \notin DOMAIN h /\ (\A x \in U \cup {0} : x \in DOMAIN h)
         /\ IsHeap(h) /\ h[0].color = BLACK /\ d \notin {0, NoNode}
         /\ b \in [DOMAIN h -> Nat] /\ b[0] = 0
         /\ \A x \in U, s \in Around : /\ b[x] = b[h[x][s]] + Blk(h, x) /\ b[x] \in Nat /\ b[h[x][s]] \in Nat /\ Blk(h, x) \in Nat
                                       /\ h[x][s] \in DOMAIN h /\ h[x][s] # NoNode
                                       /\ (h[x].color = RED => h[h[x][s]].color = BLACK) /\ (h[x].color = RED \/ h[x].color = BLACK)
  <1>1. Shape(h, U, T, S, d) /\ Counts(h, U, b, NoNode, NoNode, 0) /\ Reds(h, U, d, NoNode) /\ lev \in (U \cup {0}) \ {d} /\ d \in S[h[lev].mid]
    BY DEF Leaving
  <1>2. Loose(h, U, T, S, d) /\ Wired(h, U, d)
    BY <1>1 DEF Shape, Loose
  <1>3. 0 \notin U /\ NoNode \notin U /\ NoNode \notin DOMAIN h /\ (\A x \in U \cup {0} : x \in DOMAIN h) /\ IsHeap(h) /\ h[0].color = BLACK
    BY <1>2, NodeIn DEF Wired
  <1>4. d \in U
    BY <1>1, <1>2, LevIs
  <1>5. b \in [DOMAIN h -> Nat] /\ b[0] = 0 /\ \A x \in U \ {NoNode}, s \in Around : b[x] = Seen(b, NoNode, 0, h[x][s]) + Blk(h, x)
    BY <1>1 DEF Counts
  <1>6. ASSUME NEW x \in U, NEW s \in Around
        PROVE /\ b[x] = b[h[x][s]] + Blk(h, x) /\ b[x] \in Nat /\ b[h[x][s]] \in Nat /\ Blk(h, x) \in Nat
              /\ h[x][s] \in DOMAIN h /\ h[x][s] # NoNode
              /\ (h[x].color = RED => h[h[x][s]].color = BLACK) /\ (h[x].color = RED \/ h[x].color = BLACK)
    <2>1. h[x][s] \in DOMAIN h
      BY <1>2, AroundIn
    <2>2. h[x][s] # NoNode /\ x # NoNode
      BY <1>3, <2>1
    <2>3. Seen(b, NoNode, 0, h[x][s]) = b[h[x][s]]
      BY <2>2 DEF Seen
    <2>4. b[x] = b[h[x][s]] + Blk(h, x)
      BY <1>5, <2>2, <2>3
    <2>5. h[x].color = RED => h[h[x][s]].color = BLACK
      BY <1>1, <2>2 DEF Reds
    <2>6. h[x].color \in {BLACK, RED}
      BY <1>3, HeapFields
    <2> QED BY <1>3, <1>5, <2>1, <2>2, <2>4, <2>5, <2>6 DEF Blk
  <1> QED BY <1>2, <1>3, <1>4, <1>5, <1>6

\* With one son, that is red and d is not.
LEMMA BypassCounts ==
  ASSUME NEW h, NEW U, NEW T, NEW S, NEW b, NEW d, NEW lev, Leaving(h, U, T, S, b, d, lev), NEW t, NEW only, OneSon(h, U, T, S, d, lev, t, only),
         NEW g, Bypassed(g, h, lev, d, only), NEW R, NEW Q, R = Less(T, d), Q = Less(S, d)
  PROVE  h[d].color = BLACK /\ g[only].color = RED /\ Deleting(g, U \ {d}, R, Q, b, NoNode, lev, only)
  <1>0. /\ Loose(h, U, T, S, d) /\ Wired(h, U, d) /\ d \in U /\ 0 \notin U /\ NoNode \notin U /\ NoNode \notin DOMAIN h /\ (\A x \in U \cup {0} : x \in DOMAIN h)
        /\ h[0].color = BLACK /\ d \notin {0, NoNode} /\ b \in [DOMAIN h -> Nat] /\ b[0] = 0
    BY LeavingFacts
  <1>1. \A x \in U, s \in Around : /\ b[x] = b[h[x][s]] + Blk(h, x) /\ b[x] \in Nat /\ b[h[x][s]] \in Nat /\ Blk(h, x) \in Nat
                                       /\ h[x][s] \in DOMAIN h /\ h[x][s] # NoNode
                                       /\ (h[x].color = RED => h[h[x][s]].color = BLACK) /\ (h[x].color = RED \/ h[x].color = BLACK)
    BY LeavingFacts
  <1>2. /\ lev \in (U \cup {0}) \ {d} /\ d \in S[h[lev].mid] /\ t \in Around /\ only = h[d][t] /\ only # 0 /\ h[d][Other(t)] = 0 /\ Shape(h, U, T, S, d)
    BY DEF OneSon
  <1>3. PICK o, q : HookAt(h, U, S, d, lev, o, q)
    BY <1>2, HookAtIs
  <1>4. /\ \A x \in (U \ {d}) \cup {0}, s \in Sides :
              /\ Son(g, NoNode, x, s) = IF x = o /\ s = q THEN only ELSE Son(h, d, x, s)
              /\ Son(h, d, x, s) # only /\ (Son(h, d, x, s) = d <=> x = o /\ s = q)
              /\ Son(h, d, x, s) \in U \cup {0} /\ Son(h, d, x, s) \in DOMAIN h
    BY <1>3, BypassSons
  <1>5. only \in U \ {d} /\ only \in S[h[lev].mid]
    BY <1>3, BypassSons
  <1>6. Other(t) \in Around /\ "left" \in Around
    BY <1>2, OtherIs DEF Around
  <1>7. b[only] = 0 /\ b[d] = Blk(h, d)
    <2>1. b[d] = b[only] + Blk(h, d) /\ b[d] = b[0] + Blk(h, d) /\ b[only] \in Nat /\ Blk(h, d) \in Nat
      BY <1>0, <1>1, <1>2, <1>6
    <2> QED BY <1>0, <2>1
  <1>8. h[only].color = RED
    <2>1. b[only] = b[h[only]["left"]] + Blk(h, only) /\ b[h[only]["left"]] \in Nat /\ (h[only].color = RED \/ h[only].color = BLACK)
      BY <1>1, <1>5, <1>6
    <2> QED BY <1>7, <2>1 DEF Blk
  <1>9. h[d].color = BLACK
    BY <1>0, <1>1, <1>2, <1>8, BlackIsNotRed
  <1>10. b[d] = 1
    BY <1>7, <1>9 DEF Blk
  <1>11. IsHeap(g) /\ DOMAIN g = DOMAIN h /\ \A y \in DOMAIN h : g[y].color = h[y].color
    BY DEF Bypassed
  <1>12. \A x, s : Son(g, NoNode, x, "mid") = Mid(g, NoNode, x) /\ Son(h, d, x, "mid") = Mid(h, d, x)
                 /\ (s \in Around => s \in Sides /\ Son(g, NoNode, x, s) = g[x][s] /\ Son(h, d, x, s) = h[x][s])
    BY DEF Son, Around, Sides
  <1>13. Counts(g, U \ {d}, b, NoNode, only, 1)
    <2>1. ASSUME NEW x \in (U \ {d}) \ {NoNode}, NEW s \in Around PROVE b[x] = Seen(b, only, 1, g[x][s]) + Blk(g, x)
      <3>1. b[x] = b[h[x][s]] + Blk(h, x) /\ Blk(g, x) = Blk(h, x)
        BY <1>0, <1>1, <1>11 DEF Blk
      <3>2. CASE x = o /\ s = q
        <4>1. g[x][s] = only /\ h[x][s] = d
          BY <1>4, <1>12, <3>2
        <4>2. Seen(b, only, 1, only) = 1
          BY <1>7 DEF Seen
        <4> QED BY <1>10, <3>1, <4>1, <4>2
      <3>3. CASE ~(x = o /\ s = q)
        <4>1. g[x][s] = h[x][s] /\ g[x][s] # only
          BY <1>4, <1>12, <3>3
        <4> QED BY <3>1, <4>1 DEF Seen
      <3> QED BY <3>2, <3>3
    <2> QED BY <1>0, <1>11, <2>1 DEF Counts
  <1>14. Reds(g, U \ {d}, NoNode, only)
    <2>1. ASSUME NEW x \in (U \ {d}) \ {only}, NEW s \in Around, g[x].color = RED, g[x][s] # only PROVE g[g[x][s]].color = BLACK
      <3>1. g[x][s] = h[x][s]
        BY <1>4, <1>12, <2>1
      <3>2. h[h[x][s]].color = BLACK /\ h[x][s] \in DOMAIN h
        BY <1>0, <1>1, <1>11, <2>1
      <3> QED BY <1>11, <3>1, <3>2
    <2>2. ASSUME NEW x \in (U \ {d}) \cup {0}, Mid(g, NoNode, x) \notin {0, only} PROVE g[Mid(g, NoNode, x)].color = BLACK
      <3>1. "mid" \in Sides
        BY DEF Sides
      <3>2. Mid(g, NoNode, x) = Mid(h, d, x) /\ Mid(h, d, x) \in DOMAIN h
        BY <1>4, <1>12, <2>2, <3>1
      <3>3. x \in U \cup {0} /\ Mid(h, d, x) \notin {0, NoNode}
        BY <1>0, <2>2, <3>2
      <3>4. h[Mid(h, d, x)].color = BLACK
        BY <3>3 DEF Leaving, Reds
      <3> QED BY <1>11, <3>2, <3>4
    <2> QED BY <2>1, <2>2 DEF Reds
  <1>15. Shape(g, U \ {d}, R, Q, NoNode) /\ Alike(h, T, S, g, R, Q, U, d, lev)
    BY BypassShape
  <1>16. only \in Q[g[lev].mid]
    <2>1. Q[g[lev].mid] \ {d} = S[h[lev].mid] \ {d}
      BY <1>2, <1>15 DEF Alike
    <2> QED BY <1>5, <2>1
  <1>17. lev \in ((U \ {d}) \cup {0}) \ {NoNode} /\ NoNode # only
    BY <1>0, <1>2, <1>5
  <1>18. Deleting(g, U \ {d}, R, Q, b, NoNode, lev, only)
    BY <1>13, <1>14, <1>15, <1>16, <1>17 DEF Deleting
  <1> QED BY <1>0, <1>5, <1>8, <1>9, <1>11, <1>18

LEMMA RecAgain ==
  ASSUME NEW t, NEW h, NEW idle, NEW cost
  PROVE  /\ Rec(t, h, idle, cost).h = h /\ Rec(t, h, idle, cost).idle = idle /\ Rec(t, h, idle, cost).cost = cost
         /\ \A g, i, c : Rec(Rec(t, h, idle, cost), g, i, c) = Rec(t, g, i, c)
         /\ \A g : [Rec(t, h, idle, cost) EXCEPT !.h = g] = Rec(t, g, idle, cost)
         /\ \A n : Free(Rec(t, h, idle, cost), n) = Rec(t, h, <<n>> \o idle, cost - 1)
         /\ \A N : On(h, N) /\ idle \in Seq(N) /\ cost \in Int => IsRec(Rec(t, h, idle, cost), h, idle, cost, N)
  <1>1. /\ Rec(t, h, idle, cost).h = h /\ Rec(t, h, idle, cost).idle = idle /\ Rec(t, h, idle, cost).cost = cost
    BY DEF Rec
  <1>2. \A g, i, c : Rec(Rec(t, h, idle, cost), g, i, c) = Rec(t, g, i, c)
    BY DEF Rec
  <1>3. \A g : [Rec(t, h, idle, cost) EXCEPT !.h = g] = Rec(t, g, idle, cost)
    BY DEF Rec
  <1>4. \A n : Free(Rec(t, h, idle, cost), n) = Rec(t, h, <<n>> \o idle, cost - 1)
    <2> TAKE n
    <2>1. PICK r : r = Rec(t, h, idle, cost)
      OBVIOUS
    <2>2. r = [h |-> h, idle |-> idle, cost |-> cost, block |-> t.block, off |-> t.off, blocks |-> t.blocks, units |-> t.units]
      BY <2>1 DEF Rec
    <2>3. Free(r, n) = [r EXCEPT !.idle = <<n>> \o r.idle, !.cost = r.cost - 1]
      BY DEF Free
    <2>4. r.idle = idle /\ r.cost = cost
      BY <2>2
    <2>5. Free(r, n) = Rec(t, h, <<n>> \o idle, cost - 1)
      BY <2>2, <2>3, <2>4 DEF Rec
    <2> QED BY <2>1, <2>5
  <1>5. \A N : On(h, N) /\ idle \in Seq(N) /\ cost \in Int => IsRec(Rec(t, h, idle, cost), h, idle, cost, N)
    BY <1>1, <1>2 DEF IsRec
  <1> QED BY <1>1, <1>2, <1>3, <1>4, <1>5

\* The tree without d, which was given back.
OneLess(h, U, T, S, d, lev, t, idle, cost, r) ==
  \E g, R, Q, c : /\ Shape(g, U \ {d}, R, Q, NoNode) /\ Even(g, U \ {d}, c) /\ Alike(h, T, S, g, R, Q, U, d, lev)
                  /\ r = Rec(t, g, <<d>> \o idle, cost - 1)

LEMMA OutBypass ==
  ASSUME NEW h, NEW U, NEW T, NEW S, NEW b, NEW d, NEW lev, Leaving(h, U, T, S, b, d, lev), NEW s, NEW only, OneSon(h, U, T, S, d, lev, s, only),
         NEW g, Bypassed(g, h, lev, d, only), NEW N, N = DOMAIN h, NEW idle \in Seq(N), NEW cost \in Int, NEW t, NEW out, out = Rec(t, g, idle, cost)
  PROVE  /\ out.h[d].color = BLACK
         /\ OneLess(h, U, T, S, d, lev, t, idle, cost, GiveBack(DelFixup(out, lev, only), lev, d, FALSE))
  <1>1. PICK R, Q : R = Less(T, d) /\ Q = Less(S, d)
    OBVIOUS
  <1>2. Shape(g, U \ {d}, R, Q, NoNode) /\ Alike(h, T, S, g, R, Q, U, d, lev)
    BY <1>1, BypassShape
  <1>3. h[d].color = BLACK /\ g[only].color = RED /\ Deleting(g, U \ {d}, R, Q, b, NoNode, lev, only)
    BY <1>1, BypassCounts
  <1>4. DOMAIN g = N /\ IsHeap(g) /\ On(g, N) /\ \A y \in N : g[y].color = h[y].color
    BY DEF Bypassed, On
  <1>5. out.h = g /\ Rec(out, g, idle, cost) = out /\ N = DOMAIN out.h
    BY <1>4, RecAgain
  <1>6. 0 \notin U /\ d \in U /\ (\A x \in U \cup {0} : x \in DOMAIN h) /\ lev \in U \cup {0} /\ NoNode \notin U
    BY LeavingFacts DEF Leaving
  <1>7. PICK f : (\A x : DelFixup(out, lev, x) = f[[t |-> out, at |-> x]]) /\ DelOne(f, out, lev)
    <2>1. IsHeap(out.h) /\ lev \in DOMAIN out.h
      BY <1>4, <1>5, <1>6
    <2> QED BY <2>1, DelFixupIs
  <1>8. PICK W : W = U \ {d}
    OBVIOUS
  <1>9. DelGood(g, W, R, Q, lev, out, idle, cost, f[[t |-> Rec(out, g, idle, cost), at |-> only]])
    <2>1. Deleting(g, W, R, Q, b, NoNode, lev, only) /\ g[only].color # BLACK
      BY <1>3, <1>8, BlackIsNotRed
    <2> QED BY <1>4, <1>5, <1>7, <2>1, DelStops
  <1>10. PICK e, A, B, c : /\ Shape(e, W, A, B, NoNode) /\ Even(e, W, c) /\ Alike(g, R, Q, e, A, B, W, NoNode, lev)
                           /\ DelFixup(out, lev, only) = Rec(out, e, idle, cost)
    BY <1>5, <1>7, <1>9 DEF DelGood
  <1>11. Shape(g, W, R, Q, NoNode)
    BY <1>2, <1>8
  <1>12. Alike(g, R, Q, e, A, B, U, d, lev)
    BY <1>6, <1>8, <1>10, <1>11, AlikeCut
  <1>13. Alike(h, T, S, e, A, B, U, d, lev)
    <2>1. lev \in (U \cup {0}) \ {d}
      BY DEF Leaving
    <2> QED BY <1>2, <1>12, <2>1, AlikeThen
  <1>14. GiveBack(DelFixup(out, lev, only), lev, d, FALSE) = Rec(t, e, <<d>> \o idle, cost - 1)
    <2>1. Rec(out, e, idle, cost) = Rec(t, e, idle, cost)
      BY RecAgain
    <2>2. Free(Rec(t, e, idle, cost), d) = Rec(t, e, <<d>> \o idle, cost - 1)
      BY RecAgain
    <2> QED BY <1>10, <2>1, <2>2 DEF GiveBack
  <1>15. out.h[d].color = BLACK
    BY <1>3, <1>4, <1>5, <1>6
  <1> QED BY <1>8, <1>10, <1>13, <1>14, <1>15 DEF OneLess

\* A leaf that is not the root of its level.
LeafOut(h, d, lev) == h[d]["left"] = 0 /\ h[d]["right"] = 0 /\ d # h[lev].mid

LEMMA LeafHangs ==
  ASSUME NEW h, NEW U, NEW T, NEW S, NEW b, NEW d, NEW lev, Leaving(h, U, T, S, b, d, lev), LeafOut(h, d, lev), NEW p, p = h[d].parent, NEW s, s = Hangs(h, d)
  PROVE  LeafAt(h, U, T, S, d, p, s) /\ p \in S[h[lev].mid] /\ p # 0 /\ p # d /\ h[p][s] = d /\ p \in U /\ s \in Around
  <1>1. /\ Loose(h, U, T, S, d) /\ d \in U /\ lev \in (U \cup {0}) \ {d} /\ d \in S[h[lev].mid] /\ Shape(h, U, T, S, d) /\ d # 0
    BY LeavingFacts DEF Leaving
  <1>2. h[lev].mid \in U /\ S[h[lev].mid] \subseteq U
    BY <1>1, LevIs
  <1>3. p \in S[h[lev].mid] /\ p \in U /\ s \in Around /\ h[p][s] = d /\ p # 0
    BY <1>1, <1>2, ParentInLevel DEF LeafOut
  <1>4. h[p][s] # p
    BY <1>1, <1>3, HangsIs
  <1> QED BY <1>1, <1>3, <1>4 DEF LeafAt, LeafOut

\* It is red: it is unhung.
LEMMA OutRed ==
  ASSUME NEW h, NEW U, NEW T, NEW S, NEW b, NEW d, NEW lev, Leaving(h, U, T, S, b, d, lev), LeafOut(h, d, lev), h[d].color = RED,
         NEW idle, NEW cost, NEW t, NEW out, out = Rec(t, h, idle, cost)
  PROVE  OneLess(h, U, T, S, d, lev, t, idle, cost, GiveBack(out, lev, d, TRUE))
  <1>1. PICK p, s : p = h[d].parent /\ s = Hangs(h, d)
    OBVIOUS
  <1>2. LeafAt(h, U, T, S, d, p, s) /\ p \in S[h[lev].mid] /\ p # 0 /\ p # d /\ h[p][s] = d /\ p \in U /\ s \in Around
    BY <1>1, LeafHangs
  <1>3. PICK g : g = SetSon(h, p, s, 0)
    OBVIOUS
  <1>4. PICK R, Q : R = Less(T, d) /\ Q = Less(S, d)
    OBVIOUS
  <1>5. Shape(g, U \ {d}, R, Q, NoNode) /\ SonSet(g, h, p, s, 0) /\ \A l \in (U \cup {0}) \ {d} : p \in S[h[l].mid] => Alike(h, T, S, g, R, Q, U, d, l)
    BY <1>2, <1>3, <1>4, CutLeaf
  <1>6. lev \in (U \cup {0}) \ {d} /\ Shape(h, U, T, S, d) /\ Counts(h, U, b, NoNode, NoNode, 0) /\ Reds(h, U, d, NoNode)
    BY DEF Leaving
  <1>7. d \in U /\ d \notin {0, NoNode} /\ 0 \notin U /\ NoNode \notin U /\ b[0] = 0 /\ b \in [DOMAIN h -> Nat] /\ d \in DOMAIN h
    BY LeavingFacts
  <1>8. b[d] = 0
    <2>1. "left" \in Around
      BY DEF Around
    <2>2. b[d] = b[h[d]["left"]] + Blk(h, d)
      BY <1>7, <2>1, LeavingFacts
    <2>3. Blk(h, d) = 0
      BY BlackIsNotRed DEF Blk
    <2> QED BY <1>7, <2>2, <2>3 DEF LeafOut
  <1>9. Counts(h, U, b, d, NoNode, 0)
    BY <1>6, <1>7, <1>8 DEF Counts
  <1>10. Even(g, U \ {d}, b)
    <2>1. NoNode \notin {0, d}
      BY <1>7 DEF NoNode
    <2> QED BY <1>2, <1>5, <1>6, <1>7, <1>9, <2>1, CutCounts DEF Even
  <1>11. Replace(h, lev, d, 0) = g
    <2>1. s = (IF h[p].left = d THEN "left" ELSE "right")
      BY <1>1 DEF Hangs
    <2> QED BY <1>1, <1>2, <1>3, <2>1 DEF Replace, SetSon
  <1>12. GiveBack(out, lev, d, TRUE) = Rec(t, g, <<d>> \o idle, cost - 1)
    <2>1. out.h = h /\ [out EXCEPT !.h = g] = Rec(t, g, idle, cost)
      BY RecAgain
    <2>2. Free(Rec(t, g, idle, cost), d) = Rec(t, g, <<d>> \o idle, cost - 1)
      BY RecAgain
    <2> QED BY <1>11, <2>1, <2>2 DEF GiveBack
  <1> QED BY <1>2, <1>5, <1>6, <1>10, <1>12 DEF OneLess

\* It is black, and marked: the level is balanced, and it is gone.
LEMMA OutBlack ==
  ASSUME NEW h, NEW U, NEW T, NEW S, NEW b, NEW d, NEW lev, Leaving(h, U, T, S, b, d, lev), LeafOut(h, d, lev), h[d].color = BLACK,
         h[d].index = Taken, Unmarked(h, S, lev, d),
         NEW N, N = DOMAIN h, NEW idle \in Seq(N), NEW cost \in Int, NEW t, NEW out, out = Rec(t, h, idle, cost)
  PROVE  OneLess(h, U, T, S, d, lev, t, idle, cost, GiveBack(DelFixup(out, lev, d), lev, d, TRUE))
  <1>1. /\ Loose(h, U, T, S, d) /\ d \in U /\ lev \in (U \cup {0}) \ {d} /\ d \in S[h[lev].mid] /\ Shape(h, U, T, S, d) /\ d \notin {0, NoNode}
        /\ b \in [DOMAIN h -> Nat] /\ b[0] = 0 /\ IsHeap(h) /\ 0 \notin U /\ NoNode \notin U /\ Wired(h, U, d) /\ (\A x \in U \cup {0} : x \in DOMAIN h)
        /\ Reds(h, U, d, NoNode)
    BY LeavingFacts DEF Leaving
  <1>2. \A x \in U, s \in Around : b[x] = b[h[x][s]] + Blk(h, x) /\ h[x][s] \in DOMAIN h /\ h[x][s] # NoNode
    BY LeavingFacts
  <1>3. b[d] = 1
    <2>1. "left" \in Around
      BY DEF Around
    <2>2. Blk(h, d) = 1
      BY DEF Blk
    <2> QED BY <1>1, <1>2, <2>1, <2>2 DEF LeafOut
  <1>4. PICK a : a = [b EXCEPT ![d] = 0]
    OBVIOUS
  <1>5. a \in [DOMAIN h -> Nat] /\ a[0] = 0 /\ a[d] = 0 /\ \A x \in DOMAIN h : x # d => a[x] = b[x]
    BY <1>1, <1>4
  <1>6. Counts(h, U, a, d, d, 1)
    <2>1. ASSUME NEW x \in U \ {d}, NEW s \in Around PROVE a[x] = Seen(a, d, 1, h[x][s]) + Blk(h, x)
      <3>1. a[x] = b[x] /\ b[x] = b[h[x][s]] + Blk(h, x) /\ h[x][s] \in DOMAIN h
        BY <1>1, <1>2, <1>5
      <3>2. Seen(a, d, 1, h[x][s]) = b[h[x][s]]
        BY <1>3, <1>5, <3>1 DEF Seen
      <3> QED BY <3>1, <3>2
    <2> QED BY <1>5, <2>1 DEF Counts
  <1>7. Reds(h, U, d, d)
    <2>1. \A x \in U \ {d}, s \in Around : h[x].color = RED /\ h[x][s] # d => h[h[x][s]].color = BLACK
      BY <1>2, LeavingFacts
    <2>2. \A x \in U \cup {0} : Mid(h, d, x) \notin {0, d} => h[Mid(h, d, x)].color = BLACK
      <3> TAKE x \in U \cup {0}
      <3>1. Mid(h, d, x) # NoNode
        <4>1. Mid(h, d, x) \in U \cup {0}
          BY <1>1, SonIs DEF Wired, Sides
        <4> QED BY <1>1, <4>1 DEF NoNode
      <3> QED BY <1>1, <3>1 DEF Reds
    <2> QED BY <2>1, <2>2 DEF Reds
  <1>8. DelBegins(h, U, T, S, a, d, lev, d)
    <2>1. h[d]["left"] = 0 /\ h[d]["right"] = 0 /\ d # h[lev].mid
      BY DEF LeafOut
    <2>2. Deleting(h, U, T, S, a, d, lev, d)
      BY <1>1, <1>6, <1>7, <2>1 DEF Deleting
    <2> QED BY <2>1, <2>2 DEF DelBegins
  <1>9. out.h = h /\ IsRec(out, h, idle, cost, N)
    <2>1. On(h, N)
      BY <1>1 DEF On
    <2> QED BY <2>1, RecAgain
  <1>10. DelResult(h, U, T, S, d, lev, out, idle, cost, DelFixup(out, lev, d))
    BY <1>8, <1>9, DelBalances
  <1>11. PICK g, R, Q, c : /\ Shape(g, U \ {d}, R, Q, NoNode) /\ Even(g, U \ {d}, c) /\ Alike(h, T, S, g, R, Q, U, d, lev)
                           /\ g[d].color = BLACK /\ DelFixup(out, lev, d) = Rec(out, g, <<d>> \o idle, cost - 1)
    BY <1>1, <1>10 DEF DelResult
  <1>12. GiveBack(DelFixup(out, lev, d), lev, d, TRUE) = Rec(t, g, <<d>> \o idle, cost - 1)
    <2>1. Rec(out, g, <<d>> \o idle, cost - 1) = Rec(t, g, <<d>> \o idle, cost - 1) /\ Rec(t, g, <<d>> \o idle, cost - 1).h = g
      BY RecAgain
    <2> QED BY <1>11, <2>1, BlackIsNotRed DEF GiveBack
  <1> QED BY <1>11, <1>12 DEF OneLess

(***************************************************************************)
(* A level of one node r is taken out: what hangs under r hangs under lev. *)
(***************************************************************************)
Collapsed(e, g, lev, r) ==
  /\ IsHeap(e) /\ DOMAIN e = DOMAIN g
  /\ \A y \in DOMAIN g : /\ e[y].color = g[y].color /\ e[y].parent = g[y].parent /\ e[y].index = g[y].index /\ e[y].cbyte = g[y].cbyte
                         /\ \A s \in Around : e[y][s] = g[y][s]
                         /\ e[y].mid = IF y = lev THEN g[r].mid ELSE g[y].mid
                         /\ e[y].item = IF y = lev THEN g[r].item ELSE g[y].item
LoneNode(g, U, T, S, lev, r) ==
  /\ Shape(g, U, T, S, NoNode) /\ lev \in U /\ r = g[lev].mid /\ r # 0 /\ g[r]["left"] = 0 /\ g[r]["right"] = 0

LEMMA CollapseSons ==
  ASSUME NEW g, NEW U, NEW T, NEW S, NEW lev, NEW r, LoneNode(g, U, T, S, lev, r), NEW e, Collapsed(e, g, lev, r)
  PROVE  /\ \A x \in (U \ {r}) \cup {0}, s \in Sides :
              /\ Son(e, NoNode, x, s) = IF x = lev /\ s = "mid" THEN g[r].mid ELSE Son(g, NoNode, x, s)
              /\ (Son(g, NoNode, x, s) = r <=> x = lev /\ s = "mid")
              /\ (Son(g, NoNode, x, s) = g[r].mid => g[r].mid = 0)
              /\ Son(g, NoNode, x, s) \in U \cup {0} /\ Son(g, NoNode, x, s) \in DOMAIN g
         /\ \A x \in U \cup {0} : e[x].mid = Mid(e, NoNode, x) /\ g[x].mid = Mid(g, NoNode, x)
         /\ r \in U /\ 0 \notin U /\ NoNode \notin DOMAIN g /\ (\A x \in U \cup {0} : x \in DOMAIN g) /\ lev # r
         /\ T[r] = {r} \cup T[g[r].mid] /\ S[r] = {r} /\ T[0] = {} /\ S[0] = {} /\ g[r].mid \in U \cup {0} /\ r \notin T[g[r].mid] /\ g[r].mid # r
  <1>0. Shape(g, U, T, S, NoNode) /\ lev \in U /\ r = g[lev].mid /\ r # 0 /\ g[r]["left"] = 0 /\ g[r]["right"] = 0
    BY DEF LoneNode
  <1>1. Loose(g, U, T, S, NoNode) /\ Wired(g, U, NoNode) /\ Bounded(g, U, T, NoNode) /\ Levels(g, U, S) /\ Exact(g, U, T, NoNode)
    BY <1>0 DEF Shape, Loose
  <1>2. (\A x \in U \cup {0} : x \in DOMAIN g) /\ 0 \notin U /\ NoNode \notin DOMAIN g
    BY <1>1, NodeIn DEF Wired
  <1>3. \A x \in U \cup {0} : e[x].mid = Mid(e, NoNode, x) /\ g[x].mid = Mid(g, NoNode, x) /\ x # NoNode
    BY <1>2 DEF Mid
  <1>4. "mid" \in Sides /\ Sides = Around \cup {"mid"} /\ "mid" \notin Around
    BY DEF Sides, Around
  <1>5. \A x \in U \cup {0}, s \in Sides : Son(e, NoNode, x, s) = e[x][s] /\ Son(g, NoNode, x, s) = g[x][s]
    BY <1>3 DEF Son
  <1>6. r \in U /\ g[r].mid \in U \cup {0}
    <2>1. \A x \in U \cup {0} : g[x].mid \in U \cup {0}
      BY <1>1, <1>4, <1>5 DEF Wired
    <2> QED BY <1>0, <2>1
  <1>7. T[r] = {r} \cup T[g[r].mid] /\ S[r] = {r} /\ T[0] = {} /\ S[0] = {}
    BY <1>0, <1>1, <1>3, <1>6 DEF Exact, Levels, Bounded
  <1>8. r \notin T[g[r].mid] /\ g[r].mid # r
    <2>1. r \notin T[Son(g, NoNode, r, "mid")] /\ r \in T[r]
      BY <1>1, <1>4, <1>6 DEF Bounded
    <2> QED BY <1>4, <1>5, <1>6, <2>1
  <1>9. lev # r
    BY <1>0, <1>8
  <1>10. ASSUME NEW x \in (U \ {r}) \cup {0}, NEW s \in Sides
         PROVE /\ Son(e, NoNode, x, s) = IF x = lev /\ s = "mid" THEN g[r].mid ELSE Son(g, NoNode, x, s)
               /\ (Son(g, NoNode, x, s) = r <=> x = lev /\ s = "mid")
               /\ (Son(g, NoNode, x, s) = g[r].mid => g[r].mid = 0)
               /\ Son(g, NoNode, x, s) \in U \cup {0} /\ Son(g, NoNode, x, s) \in DOMAIN g
    <2>1. x \in U \cup {0} /\ x \in DOMAIN g /\ x # r
      BY <1>0, <1>2, <1>6
    <2>2. Son(e, NoNode, x, s) = IF x = lev /\ s = "mid" THEN g[r].mid ELSE Son(g, NoNode, x, s)
      BY <1>4, <1>5, <2>1 DEF Collapsed
    <2>3. ASSUME NEW y \in U \cup {0}, Son(g, NoNode, x, s) = Son(g, NoNode, y, "mid"), Son(g, NoNode, x, s) # 0 PROVE x = y /\ s = "mid"
      BY <1>1, <1>4, <2>1, <2>3, OneParent
    <2>4. Son(g, NoNode, lev, "mid") = r /\ Son(g, NoNode, r, "mid") = g[r].mid
      BY <1>0, <1>4, <1>5, <1>6
    <2>5. Son(g, NoNode, x, s) = r => x = lev /\ s = "mid"
      BY <1>0, <2>3, <2>4
    <2>6. Son(g, NoNode, x, s) = g[r].mid => g[r].mid = 0
      BY <1>6, <2>1, <2>3, <2>4
    <2>7. Son(g, NoNode, x, s) \in U \cup {0}
      BY <1>1, <2>1 DEF Wired
    <2> QED BY <1>2, <2>2, <2>4, <2>5, <2>6, <2>7
  <1> QED BY <1>2, <1>3, <1>6, <1>7, <1>8, <1>9, <1>10

LEMMA CollapseWired ==
  ASSUME NEW g, NEW U, NEW T, NEW S, NEW lev, NEW r, LoneNode(g, U, T, S, lev, r), NEW e, Collapsed(e, g, lev, r)
  PROVE  Wired(e, U \ {r}, NoNode)
  <1>1. Shape(g, U, T, S, NoNode) /\ Loose(g, U, T, S, NoNode) /\ Wired(g, U, NoNode) /\ lev \in U /\ r = g[lev].mid /\ r # 0
    BY DEF LoneNode, Shape, Loose
  <1>2. \A x \in (U \ {r}) \cup {0}, s \in Sides :
              /\ Son(e, NoNode, x, s) = IF x = lev /\ s = "mid" THEN g[r].mid ELSE Son(g, NoNode, x, s)
              /\ (Son(g, NoNode, x, s) = r <=> x = lev /\ s = "mid")
              /\ (Son(g, NoNode, x, s) = g[r].mid => g[r].mid = 0)
              /\ Son(g, NoNode, x, s) \in U \cup {0} /\ Son(g, NoNode, x, s) \in DOMAIN g
    BY CollapseSons
  <1>3. /\ r \in U /\ 0 \notin U /\ NoNode \notin DOMAIN g /\ (\A x \in U \cup {0} : x \in DOMAIN g) /\ lev # r
        /\ g[r].mid \in U \cup {0} /\ g[r].mid # r
        /\ \A x \in U \cup {0} : e[x].mid = Mid(e, NoNode, x) /\ g[x].mid = Mid(g, NoNode, x)
    BY CollapseSons
  <1>4. IsHeap(e) /\ DOMAIN e = DOMAIN g /\ \A y \in DOMAIN g : e[y].color = g[y].color /\ e[y].parent = g[y].parent /\ \A s \in Around : e[y][s] = g[y][s]
    BY DEF Collapsed
  <1>5. "mid" \in Sides /\ Sides = Around \cup {"mid"} /\ "left" \in Around /\ "right" \in Around
    BY DEF Sides, Around
  <1>6. \A x, s : Son(e, NoNode, x, "mid") = Mid(e, NoNode, x) /\ Son(g, NoNode, x, "mid") = Mid(g, NoNode, x)
    BY DEF Son
  <1>7. IsFiniteSet(DOMAIN e) /\ U \ {r} \subseteq DOMAIN e \ {0} /\ e[0]["left"] = 0 /\ e[0]["right"] = 0 /\ e[0].color = BLACK /\ NoNode \notin DOMAIN e
    BY <1>1, <1>3, <1>4, <1>5 DEF Wired
  <1>8. \A x \in (U \ {r}) \cup {0}, s \in Sides : Son(e, NoNode, x, s) \in (U \ {r}) \cup {0}
    BY <1>2, <1>3
  <1>9. \A x \in U \ {r}, s \in Around : e[x][s] # 0 => e[e[x][s]].parent = x
    <2> TAKE x \in U \ {r}, s \in Around
    <2>1. e[x][s] = g[x][s] /\ g[x][s] \in DOMAIN g
      BY <1>1, <1>3, <1>4, AroundIn
    <2>2. g[x][s] # 0 => g[g[x][s]].parent = x
      BY <1>1 DEF Wired
    <2> QED BY <1>4, <2>1, <2>2
  <1>10. \A x \in U \ {r} : e[x]["left"] = e[x]["right"] => e[x]["left"] = 0
    BY <1>1, <1>3, <1>4, <1>5 DEF Wired
  <1>11. \A x \in (U \ {r}) \cup {0} : Mid(e, NoNode, x) # 0 => e[Mid(e, NoNode, x)].parent = 0
    <2> TAKE x \in (U \ {r}) \cup {0}
    <2>1. Mid(e, NoNode, x) = IF x = lev THEN Mid(g, NoNode, r) ELSE Mid(g, NoNode, x)
      BY <1>2, <1>3, <1>5, <1>6
    <2>2. \A y \in U \cup {0} : Mid(g, NoNode, y) # 0 => g[Mid(g, NoNode, y)].parent = 0
      BY <1>1 DEF Wired
    <2>3. Mid(g, NoNode, x) \in DOMAIN g /\ Mid(g, NoNode, r) \in DOMAIN g
      BY <1>2, <1>3, <1>5, <1>6
    <2> QED BY <1>3, <1>4, <2>1, <2>2, <2>3
  <1>12. \A x, y \in (U \ {r}) \cup {0} : Mid(e, NoNode, x) = Mid(e, NoNode, y) /\ Mid(e, NoNode, x) # 0 => x = y
    <2> TAKE x, y \in (U \ {r}) \cup {0}
    <2>1. \A z \in (U \ {r}) \cup {0} : /\ Mid(e, NoNode, z) = (IF z = lev THEN g[r].mid ELSE Mid(g, NoNode, z))
                                        /\ (Mid(g, NoNode, z) = g[r].mid => g[r].mid = 0)
      BY <1>2, <1>5, <1>6
    <2>2. Mid(g, NoNode, x) = Mid(g, NoNode, y) /\ Mid(g, NoNode, x) # 0 => x = y
      BY <1>1 DEF Wired
    <2> QED BY <2>1, <2>2
  <1> QED BY <1>4, <1>7, <1>8, <1>9, <1>10, <1>11, <1>12 DEF Wired

LEMMA CollapseShape ==
  ASSUME NEW g, NEW U, NEW T, NEW S, NEW lev, NEW r, LoneNode(g, U, T, S, lev, r), NEW e, Collapsed(e, g, lev, r),
         NEW R, NEW Q, R = Less(T, r), Q = Less(S, r)
  PROVE  Shape(e, U \ {r}, R, Q, NoNode)
  <1>1. /\ Shape(g, U, T, S, NoNode) /\ Loose(g, U, T, S, NoNode) /\ Wired(g, U, NoNode) /\ lev \in U /\ r = g[lev].mid /\ r # 0
        /\ Bounded(g, U, T, NoNode) /\ Levels(g, U, S) /\ Sorted(g, U, S, NoNode) /\ Exact(g, U, T, NoNode)
    BY DEF LoneNode, Shape, Loose
  <1>2. \A x \in (U \ {r}) \cup {0}, s \in Sides :
              /\ Son(e, NoNode, x, s) = IF x = lev /\ s = "mid" THEN g[r].mid ELSE Son(g, NoNode, x, s)
              /\ (Son(g, NoNode, x, s) = r <=> x = lev /\ s = "mid")
              /\ Son(g, NoNode, x, s) \in U \cup {0} /\ Son(g, NoNode, x, s) \in DOMAIN g
    BY CollapseSons
  <1>3. /\ r \in U /\ 0 \notin U /\ NoNode \notin DOMAIN g /\ (\A x \in U \cup {0} : x \in DOMAIN g) /\ lev # r
        /\ g[r].mid \in U \cup {0} /\ g[r].mid # r /\ T[r] = {r} \cup T[g[r].mid] /\ S[r] = {r} /\ T[0] = {} /\ S[0] = {} /\ r \notin T[g[r].mid]
    BY CollapseSons
  <1>4. IsHeap(e) /\ DOMAIN e = DOMAIN g /\ \A y \in DOMAIN g : e[y].cbyte = g[y].cbyte /\ \A s \in Around : e[y][s] = g[y][s]
    BY DEF Collapsed
  <1>5. "mid" \in Sides /\ Sides = Around \cup {"mid"} /\ "left" \in Around /\ "right" \in Around /\ "left" \in Sides /\ "right" \in Sides
    BY DEF Sides, Around
  <1>6. Wired(e, U \ {r}, NoNode)
    BY CollapseWired
  <1>7. R \in [DOMAIN g -> SUBSET DOMAIN g] /\ \A x \in DOMAIN g : R[x] = T[x] \ {r}
    BY <1>1, LessIs DEF Bounded
  <1>8. Q \in [DOMAIN g -> SUBSET DOMAIN g] /\ \A x \in DOMAIN g : Q[x] = S[x] \ {r}
    BY <1>1, LessIs DEF Levels
  <1>9. \A x \in (U \ {r}) \cup {0}, s \in Sides : R[Son(e, NoNode, x, s)] = T[Son(g, NoNode, x, s)] \ {r}
    <2> TAKE x \in (U \ {r}) \cup {0}, s \in Sides
    <2>1. CASE x = lev /\ s = "mid"
      <3>1. Son(e, NoNode, x, s) = g[r].mid /\ Son(g, NoNode, x, s) = r
        BY <1>2, <2>1
      <3>2. R[g[r].mid] = T[g[r].mid] \ {r}
        BY <1>3, <1>7
      <3> QED BY <1>3, <3>1, <3>2
    <2>2. CASE ~(x = lev /\ s = "mid")
      <3>1. Son(e, NoNode, x, s) = Son(g, NoNode, x, s) /\ Son(g, NoNode, x, s) \in DOMAIN g
        BY <1>2, <2>2
      <3> QED BY <1>7, <3>1
    <2> QED BY <2>1, <2>2
  <1>15. Bounded(e, U \ {r}, R, NoNode)
    <2>1. \A x \in U \ {r} : x \in R[x] /\ \A s \in Sides : R[Son(e, NoNode, x, s)] \subseteq R[x] /\ x \notin R[Son(e, NoNode, x, s)]
      <3> TAKE x \in U \ {r}
      <3>1. x \in T[x] /\ \A s \in Sides : T[Son(g, NoNode, x, s)] \subseteq T[x] /\ x \notin T[Son(g, NoNode, x, s)]
        BY <1>1 DEF Bounded
      <3>2. R[x] = T[x] \ {r}
        BY <1>3, <1>7
      <3> QED BY <1>9, <3>1, <3>2
    <2> QED BY <1>3, <1>4, <1>7, <2>1 DEF Bounded
  <1>16. Exact(e, U \ {r}, R, NoNode)
    <2> SUFFICES ASSUME NEW x \in U \ {r}
                 PROVE  /\ R[x] = {x} \cup R[e[x]["left"]] \cup R[Mid(e, NoNode, x)] \cup R[e[x]["right"]]
                        /\ \A s, p \in Sides : s # p => R[Son(e, NoNode, x, s)] \cap R[Son(e, NoNode, x, p)] = {}
      BY DEF Exact
    <2>1. Son(e, NoNode, x, "left") = e[x]["left"] /\ Son(e, NoNode, x, "right") = e[x]["right"] /\ Son(e, NoNode, x, "mid") = Mid(e, NoNode, x)
      BY DEF Son
    <2>2. Son(g, NoNode, x, "left") = g[x]["left"] /\ Son(g, NoNode, x, "right") = g[x]["right"] /\ Son(g, NoNode, x, "mid") = Mid(g, NoNode, x)
      BY DEF Son
    <2>3. /\ R[e[x]["left"]] = T[g[x]["left"]] \ {r} /\ R[e[x]["right"]] = T[g[x]["right"]] \ {r}
          /\ R[Mid(e, NoNode, x)] = T[Mid(g, NoNode, x)] \ {r}
      <3>1. \A s \in Sides : R[Son(e, NoNode, x, s)] = T[Son(g, NoNode, x, s)] \ {r}
        BY <1>9
      <3> QED BY <1>5, <2>1, <2>2, <3>1
    <2>4. R[x] = T[x] \ {r} /\ x # r
      BY <1>3, <1>7
    <2>5. T[x] = {x} \cup T[g[x]["left"]] \cup T[Mid(g, NoNode, x)] \cup T[g[x]["right"]]
      BY <1>1 DEF Exact
    <2>6. \A s, p \in Sides : s # p => T[Son(g, NoNode, x, s)] \cap T[Son(g, NoNode, x, p)] = {}
      BY <1>1 DEF Exact
    <2>7. \A s, p \in Sides : s # p => R[Son(e, NoNode, x, s)] \cap R[Son(e, NoNode, x, p)] = {}
      <3> TAKE s, p \in Sides
      <3>1. R[Son(e, NoNode, x, s)] = T[Son(g, NoNode, x, s)] \ {r} /\ R[Son(e, NoNode, x, p)] = T[Son(g, NoNode, x, p)] \ {r}
        BY <1>9
      <3> QED BY <2>6, <3>1
    <2> QED BY <2>3, <2>4, <2>5, <2>7
  <1>17. \A x \in U \ {r}, s \in Around : Q[e[x][s]] = S[g[x][s]] \ {r} /\ g[x][s] \in DOMAIN g
    <2> TAKE x \in U \ {r}, s \in Around
    <2>1. e[x][s] = g[x][s] /\ g[x][s] \in DOMAIN g
      BY <1>1, <1>3, <1>4, AroundIn
    <2> QED BY <1>8, <2>1
  <1>18. Levels(e, U \ {r}, Q)
    <2>1. \A x \in U \ {r} : Q[x] = {x} \cup Q[e[x]["left"]] \cup Q[e[x]["right"]]
      <3> TAKE x \in U \ {r}
      <3>1. S[x] = {x} \cup S[g[x]["left"]] \cup S[g[x]["right"]] /\ Q[x] = S[x] \ {r} /\ x # r
        BY <1>1, <1>3, <1>8 DEF Levels
      <3>2. Q[e[x]["left"]] = S[g[x]["left"]] \ {r} /\ Q[e[x]["right"]] = S[g[x]["right"]] \ {r}
        BY <1>5, <1>17
      <3> QED BY <3>1, <3>2
    <2>2. Q[0] = {}
      BY <1>3, <1>8
    <2> QED BY <1>4, <1>8, <2>1, <2>2 DEF Levels
  <1>19. Sorted(e, U \ {r}, Q, NoNode)
    <2>1. \A x \in U \ {NoNode}, s \in Around : \A y \in S[g[x][s]] \ {NoNode} : Ahead(s, g[y].cbyte, g[x].cbyte)
      BY <1>1, SortedIs
    <2>2. \A x \in (U \ {r}) \ {NoNode}, s \in Around : \A y \in Q[e[x][s]] \ {NoNode} : Ahead(s, e[y].cbyte, e[x].cbyte)
      <3> TAKE x \in (U \ {r}) \ {NoNode}, s \in Around
      <3>1. Q[e[x][s]] = S[g[x][s]] \ {r} /\ g[x][s] \in DOMAIN g /\ x \in DOMAIN g
        BY <1>3, <1>17
      <3>2. S[g[x][s]] \subseteq DOMAIN g
        BY <1>1, <3>1 DEF Levels
      <3> QED BY <1>4, <2>1, <3>1, <3>2
    <2> QED BY <2>2, SortedIs
  <1> QED BY <1>6, <1>15, <1>16, <1>18, <1>19 DEF Shape, Loose

LEMMA CollapseEven ==
  ASSUME NEW g, NEW U, NEW T, NEW S, NEW lev, NEW r, LoneNode(g, U, T, S, lev, r), NEW e, Collapsed(e, g, lev, r), NEW b, Even(g, U, b)
  PROVE  Even(e, U \ {r}, b)
  <1>1. Wired(g, U, NoNode) /\ lev \in U
    BY DEF LoneNode, Shape, Loose
  <1>2. \A x \in (U \ {r}) \cup {0}, s \in Sides :
              /\ Son(e, NoNode, x, s) = IF x = lev /\ s = "mid" THEN g[r].mid ELSE Son(g, NoNode, x, s)
              /\ Son(g, NoNode, x, s) \in DOMAIN g
    BY CollapseSons
  <1>3. /\ r \in U /\ 0 \notin U /\ NoNode \notin DOMAIN g /\ (\A x \in U \cup {0} : x \in DOMAIN g) /\ g[r].mid \in U \cup {0} /\ g[r].mid = Mid(g, NoNode, r)
    BY CollapseSons
  <1>4. DOMAIN e = DOMAIN g /\ \A y \in DOMAIN g : e[y].color = g[y].color /\ \A s \in Around : e[y][s] = g[y][s]
    BY DEF Collapsed
  <1>5. Counts(g, U, b, NoNode, NoNode, 0) /\ Reds(g, U, NoNode, NoNode)
    BY DEF Even
  <1>6. Counts(e, U \ {r}, b, NoNode, NoNode, 0)
    <2>1. b \in [DOMAIN e -> Nat] /\ b[0] = 0 /\ NoNode \notin U
      BY <1>3, <1>4, <1>5 DEF Counts
    <2>2. ASSUME NEW x \in (U \ {r}) \ {NoNode}, NEW s \in Around PROVE b[x] = Seen(b, NoNode, 0, e[x][s]) + Blk(e, x)
      <3>1. b[x] = Seen(b, NoNode, 0, g[x][s]) + Blk(g, x)
        BY <1>5 DEF Counts
      <3>2. e[x][s] = g[x][s] /\ Blk(e, x) = Blk(g, x)
        BY <1>3, <1>4 DEF Blk
      <3> QED BY <3>1, <3>2
    <2> QED BY <2>1, <2>2 DEF Counts
  <1>7. Reds(e, U \ {r}, NoNode, NoNode)
    <2>1. ASSUME NEW x \in (U \ {r}) \ {NoNode}, NEW s \in Around, e[x].color = RED, e[x][s] # NoNode PROVE e[e[x][s]].color = BLACK
      <3>1. e[x][s] = g[x][s] /\ g[x].color = RED /\ g[x][s] \in DOMAIN g
        BY <1>1, <1>3, <1>4, <2>1, AroundIn
      <3>2. g[g[x][s]].color = BLACK
        BY <1>5, <2>1, <3>1 DEF Reds
      <3> QED BY <1>4, <3>1, <3>2
    <2>2. ASSUME NEW x \in (U \ {r}) \cup {0}, Mid(e, NoNode, x) \notin {0, NoNode} PROVE e[Mid(e, NoNode, x)].color = BLACK
      <3>1. Son(e, NoNode, x, "mid") = Mid(e, NoNode, x) /\ Son(g, NoNode, x, "mid") = Mid(g, NoNode, x) /\ "mid" \in Sides
        BY DEF Son, Sides
      <3>2. PICK y \in U \cup {0} : Mid(e, NoNode, x) = Mid(g, NoNode, y)
        BY <1>2, <1>3, <3>1
      <3>3. Mid(e, NoNode, x) \in DOMAIN g
        BY <1>2, <1>3, <3>1
      <3>4. g[Mid(g, NoNode, y)].color = BLACK
        BY <1>5, <2>2, <3>2 DEF Reds
      <3> QED BY <1>4, <3>2, <3>3, <3>4
    <2> QED BY <2>1, <2>2 DEF Reds
  <1> QED BY <1>6, <1>7 DEF Even

Under2(x, lev, r) == IF x = lev THEN r ELSE x
\* What hangs under a node is what hung under another.
MidsAre(e, g, U, T, S, R, Q, lev, r, x) ==
  /\ Under2(x, lev, r) \in U \cup {0} /\ e[x].mid = g[Under2(x, lev, r)].mid
  /\ R[e[x].mid] = T[g[Under2(x, lev, r)].mid] \ {r} /\ Q[e[x].mid] = S[g[Under2(x, lev, r)].mid]
  /\ T[g[Under2(x, lev, r)].mid] \subseteq T[g[x].mid] /\ r \notin S[g[Under2(x, lev, r)].mid]
  /\ (lev \in T[g[x].mid] <=> r \in T[g[x].mid] /\ x # lev) /\ T[g[x].mid] \subseteq U /\ Q[e[x].mid] \subseteq U \ {r}
  /\ (x # 0 => Under2(x, lev, r) \in U) /\ Under2(x, lev, r) # lev
LEMMA CollapseMids ==
  ASSUME NEW g, NEW U, NEW T, NEW S, NEW lev, NEW r, LoneNode(g, U, T, S, lev, r), NEW e, Collapsed(e, g, lev, r),
         NEW R, NEW Q, R = Less(T, r), Q = Less(S, r), NEW x \in (U \ {r}) \cup {0}
  PROVE  MidsAre(e, g, U, T, S, R, Q, lev, r, x)
  <1> DEFINE w == Under2(x, lev, r)
  <1>1. Shape(g, U, T, S, NoNode) /\ Loose(g, U, T, S, NoNode) /\ lev \in U /\ r = g[lev].mid /\ r # 0
    BY DEF LoneNode, Shape
  <1>2. /\ r \in U /\ 0 \notin U /\ NoNode \notin DOMAIN g /\ (\A y \in U \cup {0} : y \in DOMAIN g) /\ lev # r
        /\ g[r].mid \in U \cup {0} /\ g[r].mid # r /\ T[r] = {r} \cup T[g[r].mid] /\ S[r] = {r} /\ T[0] = {} /\ S[0] = {} /\ r \notin T[g[r].mid]
    BY CollapseSons
  <1>3. \A y \in U \cup {0} : g[y].mid = Mid(g, NoNode, y) /\ y # NoNode
    BY <1>2 DEF Mid
  <1>4. w \in U \cup {0} /\ w # lev /\ (x # 0 => w \in U)
    BY <1>1, <1>2 DEF Under2
  <1>5. e[x].mid = g[w].mid
    BY <1>2 DEF Collapsed, Under2
  <1>6. /\ T[g[w].mid] \subseteq U /\ S[g[w].mid] \subseteq U /\ S[g[w].mid] \subseteq T[g[w].mid] /\ g[w].mid \in DOMAIN g /\ g[w].mid \in U \cup {0}
        /\ T[g[x].mid] \subseteq U /\ g[x].mid \in U \cup {0}
    <2>1. w \in (U \cup {0}) \ {NoNode} /\ x \in (U \cup {0}) \ {NoNode}
      BY <1>3, <1>4
    <2>2. Shape(g, U, T, S, NoNode)
      BY <1>1
    <2> HIDE DEF w
    <2>3. /\ g[w].mid \in U \cup {0} /\ g[w].mid \in DOMAIN g /\ T[g[w].mid] \subseteq U /\ S[g[w].mid] \subseteq U
          /\ S[g[w].mid] \subseteq T[g[w].mid]
      BY <2>1, <2>2, MidIn
    <2>4. T[g[x].mid] \subseteq U /\ g[x].mid \in U \cup {0}
      BY <2>1, <2>2, MidIn
    <2> QED BY <2>3, <2>4
  <1>7. R[g[w].mid] = T[g[w].mid] \ {r} /\ Q[g[w].mid] = S[g[w].mid] \ {r}
    <2>1. \A y \in DOMAIN g : R[y] = T[y] \ {r}
      BY <1>1, LessIs DEF Loose, Bounded
    <2>2. \A y \in DOMAIN g : Q[y] = S[y] \ {r}
      BY <1>1, LessIs DEF Loose, Levels
    <2> QED BY <1>6, <2>1, <2>2
  <1>8. r \notin S[g[w].mid]
    <2> SUFFICES ASSUME r \in S[g[w].mid] PROVE FALSE
      OBVIOUS
    <2>1. r \in S[Mid(g, NoNode, w)] /\ r \in S[Mid(g, NoNode, lev)]
      BY <1>1, <1>2, <1>3, <1>4
    <2>2. lev \in U \cup {0}
      BY <1>1
    <2>3. w = lev
      BY <1>1, <1>4, <2>1, <2>2, OneLevel
    <2> QED BY <1>4, <2>3
  <1>9. T[g[w].mid] \subseteq T[g[x].mid]
    <2>1. x = lev => T[g[w].mid] \subseteq T[g[x].mid]
      BY <1>1, <1>2 DEF Under2
    <2> QED BY <2>1 DEF Under2
  <1>10. lev \in T[g[x].mid] <=> r \in T[g[x].mid] /\ x # lev
    <2>1. lev \in T[g[x].mid] => x # lev
      <3>1. "mid" \in Sides /\ Son(g, NoNode, lev, "mid") = g[lev].mid
        BY <1>1, <1>3 DEF Son, Sides
      <3>2. lev \notin T[Son(g, NoNode, lev, "mid")]
        BY <1>1, <3>1 DEF Loose, Bounded
      <3> QED BY <3>1, <3>2
    <2>2. lev \in T[g[x].mid] => r \in T[g[x].mid]
      <3> SUFFICES ASSUME lev \in T[g[x].mid] PROVE r \in T[g[x].mid]
        OBVIOUS
      <3>1. g[x].mid \in U
        BY <1>2, <1>6
      <3>2. T[lev] \subseteq T[g[x].mid]
        BY <1>1, <3>1, UnderIs
      <3>3. r \in T[lev]
        <4>1. T[lev] = {lev} \cup T[g[lev]["left"]] \cup T[Mid(g, NoNode, lev)] \cup T[g[lev]["right"]]
          BY <1>1 DEF Shape, Exact
        <4>2. Mid(g, NoNode, lev) = r
          BY <1>1, <1>3
        <4> QED BY <1>2, <4>1, <4>2
      <3> QED BY <3>2, <3>3
    <2>3. r \in T[g[x].mid] /\ x # lev => lev \in T[g[x].mid]
      <3> SUFFICES ASSUME r \in T[g[x].mid], x # lev PROVE lev \in T[g[x].mid]
        OBVIOUS
      <3>1. g[x].mid \in U
        BY <1>2, <1>6
      <3>2. Son(g, NoNode, lev, "mid") = r /\ Son(g, NoNode, x, "mid") = g[x].mid /\ "mid" \in Sides
        BY <1>1, <1>3 DEF Son, Sides
      <3>3. r # g[x].mid
        <4> SUFFICES ASSUME r = g[x].mid PROVE FALSE
          OBVIOUS
        <4>1. Mid(g, NoNode, x) = Mid(g, NoNode, lev) /\ Mid(g, NoNode, x) # 0 /\ x \in U \cup {0} /\ lev \in U \cup {0}
          BY <1>1, <1>3
        <4>2. Wired(g, U, NoNode)
          BY <1>1 DEF Loose
        <4> QED BY <3>1, <4>1, <4>2 DEF Wired
      <3>4. r # 0
        BY <1>1
      <3> QED BY <1>1, <3>1, <3>2, <3>3, <3>4, ParentUnder
    <2> QED BY <2>1, <2>2, <2>3
  <1>11. Q[e[x].mid] \subseteq U \ {r}
    BY <1>5, <1>6, <1>7
  <1> QED BY <1>4, <1>5, <1>6, <1>7, <1>8, <1>9, <1>10, <1>11 DEF MidsAre

\* A node with a key has one that a node had before.
LEMMA CollapseKeyed ==
  ASSUME NEW g, NEW U, NEW T, NEW S, NEW lev, NEW r, LoneNode(g, U, T, S, lev, r), NEW e, Collapsed(e, g, lev, r),
         NEW R, NEW Q, R = Less(T, r), Q = Less(S, r), NEW V, r \notin V, NEW x \in (U \ {r}) \cup {0}, NEW y \in Keyed(e, R, V, NoNode, x)
  PROVE  \E u \in Keyed(g, T, V, NoNode, Under2(x, lev, r)) : e[y].item = g[u].item /\ u = Under2(y, lev, r) /\ u \in Keyed(g, T, V, NoNode, x)
  <1>1. /\ Under2(x, lev, r) \in U \cup {0} /\ e[x].mid = g[Under2(x, lev, r)].mid
        /\ R[e[x].mid] = T[g[Under2(x, lev, r)].mid] \ {r}
        /\ T[g[Under2(x, lev, r)].mid] \subseteq T[g[x].mid]
        /\ (lev \in T[g[x].mid] <=> r \in T[g[x].mid] /\ x # lev) /\ T[g[x].mid] \subseteq U
    <2>1. LoneNode(g, U, T, S, lev, r) /\ Collapsed(e, g, lev, r) /\ R = Less(T, r) /\ Q = Less(S, r) /\ x \in (U \ {r}) \cup {0}
      OBVIOUS
    <2>2. MidsAre(e, g, U, T, S, R, Q, lev, r, x)
      BY <2>1, CollapseMids
    <2> QED BY <2>2 DEF MidsAre
  <1>2. /\ r \in U /\ 0 \notin U /\ NoNode \notin DOMAIN g /\ (\A z \in U \cup {0} : z \in DOMAIN g)
    BY CollapseSons
  <1>3. y \in T[g[Under2(x, lev, r)].mid] /\ y # r /\ y \notin V /\ e[y].mid = 0 /\ y \in DOMAIN g
    BY <1>1, <1>2 DEF Keyed
  <1>4. e[y].mid = (IF y = lev THEN g[r].mid ELSE g[y].mid) /\ e[y].item = (IF y = lev THEN g[r].item ELSE g[y].item)
    BY <1>3 DEF Collapsed
  <1>5. Under2(y, lev, r) \in T[g[Under2(x, lev, r)].mid] /\ Under2(y, lev, r) \in U
    <2>1. CASE y = lev
      <3>1. x # lev /\ r \in T[g[x].mid]
        BY <1>1, <1>3, <2>1
      <3> QED BY <1>1, <2>1, <3>1 DEF Under2
    <2>2. CASE y # lev
      BY <1>1, <1>3, <2>2 DEF Under2
    <2> QED BY <2>1, <2>2
  <1>6. g[Under2(y, lev, r)].mid = 0 /\ e[y].item = g[Under2(y, lev, r)].item /\ Under2(y, lev, r) \notin V /\ Under2(y, lev, r) # NoNode
    BY <1>2, <1>3, <1>4, <1>5 DEF Under2
  <1> QED BY <1>1, <1>5, <1>6 DEF Keyed

CollapseKeysAre(e, g, U, T, W, R, Q, V, r) ==
  /\ Keys(e, W, R, Q, NoNode, V) /\ Two(e, W, Q, NoNode, 0)
  /\ R[e[0].mid] = T[g[0].mid] \ {r} /\ KeysOf(e, R, V, NoNode) = KeysOf(g, T, V, NoNode)
\* A level of one node is taken out: the keys stay.
LEMMA CollapseKeys ==
  ASSUME NEW g, NEW U, NEW T, NEW S, NEW lev, NEW r, LoneNode(g, U, T, S, lev, r), NEW e, Collapsed(e, g, lev, r),
         NEW R, NEW Q, R = Less(T, r), Q = Less(S, r), NEW V, Keys(g, U, T, S, NoNode, V), Two(g, U, S, NoNode, lev), NEW W, W = U \ {r}
  PROVE  CollapseKeysAre(e, g, U, T, W, R, Q, V, r)
  <1> DEFINE w(x) == Under2(x, lev, r)
  <1>1. Shape(g, U, T, S, NoNode) /\ Loose(g, U, T, S, NoNode) /\ lev \in U /\ r = g[lev].mid /\ r # 0
    BY DEF LoneNode, Shape
  <1>2. /\ r \in U /\ 0 \notin U /\ NoNode \notin DOMAIN g /\ (\A z \in U \cup {0} : z \in DOMAIN g) /\ lev # r
        /\ T[r] = {r} \cup T[g[r].mid] /\ S[r] = {r}
    BY CollapseSons
  <1>3. NoNode \notin U /\ NoNode # 0
    BY <1>2
  <1>4. /\ Aligned(g, U, S, NoNode) /\ Deeper(g, U, S, NoNode) /\ First(g, S, NoNode, V) /\ Items(g, U, NoNode)
        /\ Spelled(g, U, T, NoNode, V) /\ Agreeing(g, U, T, S, NoNode, V) /\ Left(g, S, NoNode, V)
    BY DEF Keys
  <1>5. \A x \in W \cup {0} : MidsAre(e, g, U, T, S, R, Q, lev, r, x)
    BY CollapseMids
  <1>6. \A x \in W \cup {0} :
           /\ w(x) \in U \cup {0} /\ e[x].mid = g[w(x)].mid /\ R[e[x].mid] = T[g[w(x)].mid] \ {r} /\ Q[e[x].mid] = S[g[w(x)].mid]
           /\ r \notin S[g[w(x)].mid] /\ (lev \in T[g[x].mid] <=> r \in T[g[x].mid] /\ x # lev) /\ Q[e[x].mid] \subseteq W
           /\ (x # 0 => w(x) \in U) /\ w(x) # lev
    BY <1>5 DEF MidsAre
  <1>7. w(0) = 0 /\ w(lev) = r /\ \A x : x # lev => w(x) = x
    BY <1>1, <1>2 DEF Under2
  <1>8. \A x \in W \cup {0} : /\ e[x].mid = g[w(x)].mid /\ e[x].item = g[w(x)].item /\ e[x].index = g[x].index /\ e[x].cbyte = g[x].cbyte
    BY <1>2 DEF Collapsed, Under2
  <1>9. lev \in W /\ 0 \notin W /\ r \notin W
    BY <1>1, <1>2
  <1>10. r \notin V /\ lev \notin V /\ g[lev].mid # 0
    <2>1. r \notin S[g[0].mid]
      BY <1>6, <1>7
    <2> QED BY <1>1, <1>4, <2>1 DEF Left
  <1>11. \A x \in W \cup {0} : \A y \in Keyed(e, R, V, NoNode, x) :
            \E u \in Keyed(g, T, V, NoNode, w(x)) : e[y].item = g[u].item /\ u \in Keyed(g, T, V, NoNode, x)
    BY <1>10, CollapseKeyed
  <1> HIDE DEF w
  <1>12. Aligned(e, W, Q, NoNode)
    <2> SUFFICES ASSUME NEW o \in W \cup {0}, NEW y \in Q[e[o].mid], NEW z \in Q[e[o].mid]
                 PROVE e[y].index = e[z].index
      BY DEF Aligned
    <2>1. e[y].index = g[y].index /\ e[z].index = g[z].index /\ y # NoNode /\ z # NoNode
      BY <1>3, <1>6, <1>8
    <2>2. w(o) \in (U \cup {0}) \ {NoNode} /\ y \in S[g[w(o)].mid] \ {NoNode} /\ z \in S[g[w(o)].mid] \ {NoNode}
      BY <1>3, <1>6, <2>1
    <2>3. g[y].index = g[z].index
      BY <1>4, <2>2 DEF Aligned
    <2> QED BY <2>1, <2>3
  <1>13. \A o \in W : \A y \in S[g[w(o)].mid] : g[y].index > g[o].index
    <2> SUFFICES ASSUME NEW o \in W, NEW y \in S[g[w(o)].mid]
                 PROVE g[y].index > g[o].index
      OBVIOUS
    <2>1. y \in U \ {NoNode} /\ w(o) \in U \ {NoNode}
      BY <1>3, <1>6, <1>9
    <2>2. g[y].index > g[w(o)].index
      BY <1>4, <2>1 DEF Deeper
    <2>3. CASE o # lev
      BY <1>7, <2>2, <2>3
    <2>4. CASE o = lev
      <3>1. w(o) = r /\ r \in S[g[lev].mid] \ {NoNode} /\ lev \in U \ {NoNode}
        BY <1>1, <1>2, <1>3, <1>7, <2>4
      <3>2. g[r].index > g[lev].index
        BY <1>4, <3>1 DEF Deeper
      <3>3. g[r].index \in Int /\ g[lev].index \in Int /\ g[y].index \in Int
        <4>1. IsHeap(g) /\ r \in DOMAIN g /\ lev \in DOMAIN g /\ y \in DOMAIN g
          BY <1>1, <1>2, <2>1 DEF Loose, Wired
        <4> QED BY <4>1, HeapFields
      <3> QED BY <2>2, <2>4, <3>1, <3>2, <3>3
    <2> QED BY <2>3, <2>4
  <1>14. Deeper(e, W, Q, NoNode)
    <2> SUFFICES ASSUME NEW o \in W, NEW y \in Q[e[o].mid]
                 PROVE e[y].index > e[o].index
      BY DEF Deeper
    <2>1. e[y].index = g[y].index /\ e[o].index = g[o].index /\ y \in S[g[w(o)].mid]
      BY <1>6, <1>8
    <2> QED BY <1>13, <2>1
  <1>15. First(e, Q, NoNode, V)
    <2> SUFFICES ASSUME NEW y \in Q[e[0].mid] PROVE e[y].index = IF V = {} THEN 0 ELSE Taken
      BY DEF First
    <2>1. e[y].index = g[y].index /\ y # NoNode /\ y \in S[g[0].mid] \ {NoNode}
      BY <1>3, <1>6, <1>7, <1>8
    <2> QED BY <1>4, <2>1 DEF First
  <1>16. Items(e, W, NoNode)
    <2> SUFFICES ASSUME NEW x \in W PROVE IF e[x].mid = 0 THEN Text(e[x].item) ELSE e[x].item = NoKey
      BY DEF Items
    <2>1. w(x) \in U \ {NoNode} /\ e[x].mid = g[w(x)].mid /\ e[x].item = g[w(x)].item
      BY <1>3, <1>6, <1>8, <1>9
    <2> QED BY <1>4, <2>1 DEF Items
  <1>17. Spelled(e, W, R, NoNode, V)
    <2> SUFFICES ASSUME NEW x \in W
                 PROVE /\ \A y \in Keyed(e, R, V, NoNode, x) : Byte(e[y].item, e[x].index) = e[x].cbyte
                       /\ e[x].mid = 0 /\ x \notin V => Byte(e[x].item, e[x].index) = e[x].cbyte
      BY DEF Spelled
    <2>1. x \in U \ {NoNode} /\ e[x].index = g[x].index /\ e[x].cbyte = g[x].cbyte /\ e[x].mid = g[w(x)].mid /\ e[x].item = g[w(x)].item
      BY <1>3, <1>8
    <2>2. \A u \in Keyed(g, T, V, NoNode, x) : Byte(g[u].item, g[x].index) = g[x].cbyte
      BY <1>4, <2>1 DEF Spelled
    <2>3. \A y \in Keyed(e, R, V, NoNode, x) : \E u \in Keyed(g, T, V, NoNode, x) : e[y].item = g[u].item
      BY <1>11
    <2>4. e[x].mid = 0 /\ x \notin V => Byte(e[x].item, e[x].index) = e[x].cbyte
      <3>1. CASE x # lev
        BY <1>4, <1>7, <2>1, <3>1 DEF Spelled
      <3>2. CASE x = lev
        <4>1. g[r].mid = 0 => r \in Keyed(g, T, V, NoNode, lev)
          BY <1>1, <1>2, <1>3, <1>10 DEF Keyed
        <4> QED BY <1>7, <2>1, <2>2, <3>2, <4>1
      <3> QED BY <3>1, <3>2
    <2> QED BY <2>1, <2>2, <2>3, <2>4
  <1>18. Agreeing(e, W, R, Q, NoNode, V)
    <2> SUFFICES ASSUME NEW o \in W, NEW y \in Keyed(e, R, V, NoNode, o), NEW z \in Keyed(e, R, V, NoNode, o), NEW s \in Q[e[o].mid],
                        NEW j \in Int, 0 <= j, j < e[s].index
                 PROVE Byte(e[y].item, j) = Byte(e[z].item, j)
      BY DEF Agreeing
    <2>1. e[s].index = g[s].index /\ s # NoNode
      BY <1>3, <1>6, <1>8
    <2>2. w(o) \in U \ {NoNode} /\ s \in S[g[w(o)].mid] \ {NoNode}
      BY <1>3, <1>6, <1>9, <2>1
    <2>3. PICK u \in Keyed(g, T, V, NoNode, w(o)) : e[y].item = g[u].item
      BY <1>11
    <2>4. PICK v \in Keyed(g, T, V, NoNode, w(o)) : e[z].item = g[v].item
      BY <1>11
    <2>5. 0 <= j /\ j < g[s].index => Byte(g[u].item, j) = Byte(g[v].item, j)
      BY <1>4, <2>2, <2>3, <2>4 DEF Agreeing
    <2> QED BY <2>1, <2>3, <2>4, <2>5
  <1>19. Left(e, Q, NoNode, V)
    <2> SUFFICES ASSUME V # {} PROVE Left(e, Q, NoNode, V)
      BY DEF Left
    <2>1. PICK v : /\ V = {v} /\ v \in S[g[0].mid] \ {NoNode} /\ g[v].mid = 0 /\ g[v].cbyte # 0
                   /\ \A y \in S[g[0].mid] \ {NoNode} : y = v \/ g[y].cbyte = 0
      BY <1>4 DEF Left
    <2>2. Q[e[0].mid] = S[g[0].mid] /\ Q[e[0].mid] \subseteq W
      BY <1>6, <1>7
    <2>3. \A y \in Q[e[0].mid] : e[y].cbyte = g[y].cbyte /\ y # NoNode
      BY <1>3, <1>8, <2>2
    <2>4. v # lev /\ w(v) = v /\ v \in W
      BY <1>7, <1>10, <2>1, <2>2
    <2>5. \A y \in Q[e[0].mid] \ {NoNode} : y = v \/ e[y].cbyte = 0
      BY <2>1, <2>2, <2>3
    <2>6. v \in Q[e[0].mid] \ {NoNode} /\ e[v].mid = 0 /\ e[v].cbyte # 0
      BY <1>8, <2>1, <2>2, <2>3, <2>4
    <2> QED BY <2>1, <2>5, <2>6 DEF Left
  <1>20. Keys(e, W, R, Q, NoNode, V)
    BY <1>12, <1>14, <1>15, <1>16, <1>17, <1>18, <1>19 DEF Keys
  <1>21. R[e[0].mid] = T[g[0].mid] \ {r}
    BY <1>6, <1>7
  <1>22. Two(e, W, Q, NoNode, 0)
    <2> SUFFICES ASSUME NEW x \in W, e[x].mid # 0 PROVE \E y, z \in Q[e[x].mid] \ {NoNode} : y # z
      BY DEF Two
    <2>1. w(x) \in U \ {NoNode} /\ g[w(x)].mid # 0 /\ w(x) # lev /\ Q[e[x].mid] = S[g[w(x)].mid]
      BY <1>3, <1>6, <1>9
    <2>2. \E y, z \in S[g[w(x)].mid] \ {NoNode} : y # z
      BY <2>1 DEF Two
    <2> QED BY <2>1, <2>2
  <1>23. KeysOf(e, R, V, NoNode) = KeysOf(g, T, V, NoNode)
    <2>1. \A y \in Keyed(e, R, V, NoNode, 0) : e[y].item \in KeysOf(g, T, V, NoNode)
      <3> SUFFICES ASSUME NEW y \in Keyed(e, R, V, NoNode, 0) PROVE e[y].item \in KeysOf(g, T, V, NoNode)
        OBVIOUS
      <3>1. \E u \in Keyed(g, T, V, NoNode, 0) : e[y].item = g[u].item
        BY <1>11
      <3> QED BY <3>1 DEF KeysOf
    <2>2. \A u \in Keyed(g, T, V, NoNode, 0) : g[u].item \in KeysOf(e, R, V, NoNode)
      <3> SUFFICES ASSUME NEW u \in Keyed(g, T, V, NoNode, 0) PROVE g[u].item \in KeysOf(e, R, V, NoNode)
        OBVIOUS
      <3>1. u \in T[g[0].mid] /\ u # NoNode /\ u \notin V /\ g[u].mid = 0 /\ u # lev
        BY <1>10 DEF Keyed
      <3>2. CASE u = r
        <4>1. lev \in T[g[0].mid] \ {r}
          BY <1>1, <1>2, <1>6, <3>1, <3>2
        <4>2. e[lev].mid = 0 /\ e[lev].item = g[u].item
          BY <1>7, <1>8, <1>9, <3>1, <3>2
        <4>3. lev \in Keyed(e, R, V, NoNode, 0)
          BY <1>3, <1>9, <1>10, <1>21, <4>1, <4>2 DEF Keyed
        <4> QED BY <4>2, <4>3 DEF KeysOf
      <3>3. CASE u # r
        <4>1. u \in W /\ w(u) = u
          <5>1. T[g[0].mid] \subseteq U
            BY <1>5 DEF MidsAre
          <5> QED BY <1>7, <3>1, <3>3, <5>1
        <4>2. e[u].mid = 0 /\ e[u].item = g[u].item
          BY <1>8, <3>1, <4>1
        <4>3. u \in Keyed(e, R, V, NoNode, 0)
          BY <1>21, <3>1, <3>3, <4>2 DEF Keyed
        <4> QED BY <4>2, <4>3 DEF KeysOf
      <3> QED BY <3>2, <3>3
    <2>3. \A v : v \in KeysOf(e, R, V, NoNode) => v \in KeysOf(g, T, V, NoNode)
      BY <2>1 DEF KeysOf
    <2>4. \A v : v \in KeysOf(g, T, V, NoNode) => v \in KeysOf(e, R, V, NoNode)
      <3> SUFFICES ASSUME NEW v, v \in KeysOf(g, T, V, NoNode) PROVE v \in KeysOf(e, R, V, NoNode)
        OBVIOUS
      <3>1. PICK u \in Keyed(g, T, V, NoNode, 0) : v = g[u].item
        BY DEF KeysOf
      <3> QED BY <2>2, <3>1
    <2> QED BY <2>3, <2>4
  <1> QED BY <1>20, <1>21, <1>22, <1>23 DEF CollapseKeysAre

(***************************************************************************)
(* The pool: of the first m nodes, those that are not in use were given    *)
(* back once, and the others are counted.                                  *)
(***************************************************************************)
IdleIn(idle) == {idle[i] : i \in DOMAIN idle}
Pool(idle, cost, U, m) ==
  /\ m \in Nat /\ idle \in Seq(1 .. m) /\ IsFiniteSet(U) /\ cost = Cardinality(U)
  /\ U \cap IdleIn(idle) = {} /\ U \cup IdleIn(idle) = 1 .. m
  /\ \A i, j \in DOMAIN idle : idle[i] = idle[j] => i = j

LEMMA Consed ==
  ASSUME NEW X, NEW idle \in Seq(X), NEW n \in X
  PROVE  /\ <<n>> \o idle \in Seq(X) /\ DOMAIN (<<n>> \o idle) = 1 .. Len(idle) + 1 /\ DOMAIN idle = 1 .. Len(idle) /\ Len(idle) \in Nat
         /\ (<<n>> \o idle)[1] = n /\ \A i \in 1 .. Len(idle) : (<<n>> \o idle)[i + 1] = idle[i]
  <1>1. <<n>> \in Seq(X) /\ Len(<<n>>) = 1
    OBVIOUS
  <1>2. <<n>> \o idle \in Seq(X) /\ Len(<<n>> \o idle) = 1 + Len(idle) /\ Len(idle) \in Nat
    BY <1>1
  <1>3. DOMAIN idle = 1 .. Len(idle) /\ DOMAIN (<<n>> \o idle) = 1 .. Len(<<n>> \o idle)
    BY <1>2
  <1>4. \A i \in 1 .. Len(idle) + 1 : (<<n>> \o idle)[i] = IF i <= 1 THEN <<n>>[i] ELSE idle[i - 1]
    BY <1>1, <1>2
  <1>5. \A i \in 1 .. Len(idle) : (<<n>> \o idle)[i + 1] = idle[i]
    <2> TAKE i \in 1 .. Len(idle)
    <2>1. i + 1 \in 1 .. Len(idle) + 1 /\ ~(i + 1 <= 1) /\ (i + 1) - 1 = i
      BY <1>2
    <2>2. (<<n>> \o idle)[i + 1] = idle[(i + 1) - 1]
      BY <1>4, <2>1
    <2>3. (i + 1) - 1 = i
      BY <1>2
    <2> QED BY <2>2, <2>3
  <1>6. (<<n>> \o idle)[1] = n
    BY <1>2, <1>4
  <1> QED BY <1>2, <1>3, <1>5, <1>6

LEMMA PoolGive ==
  ASSUME NEW idle, NEW cost, NEW U, NEW m, Pool(idle, cost, U, m), NEW n \in U
  PROVE  Pool(<<n>> \o idle, cost - 1, U \ {n}, m)
  <1>1. /\ m \in Nat /\ idle \in Seq(1 .. m) /\ IsFiniteSet(U) /\ cost = Cardinality(U)
        /\ U \cap IdleIn(idle) = {} /\ U \cup IdleIn(idle) = 1 .. m
        /\ \A i, j \in DOMAIN idle : idle[i] = idle[j] => i = j
    BY DEF Pool
  <1>2. n \in 1 .. m
    BY <1>1
  <1>3. PICK new : new = <<n>> \o idle
    OBVIOUS
  <1>4. /\ new \in Seq(1 .. m) /\ DOMAIN new = 1 .. Len(idle) + 1 /\ DOMAIN idle = 1 .. Len(idle) /\ Len(idle) \in Nat
        /\ new[1] = n /\ \A i \in 1 .. Len(idle) : new[i + 1] = idle[i]
    BY <1>1, <1>2, <1>3, Consed
  <1>5. \A i \in DOMAIN new : i = 1 \/ \E j \in DOMAIN idle : i = j + 1 /\ new[i] = idle[j]
    <2> TAKE i \in DOMAIN new
    <2>1. i = 1 \/ i - 1 \in 1 .. Len(idle)
      BY <1>4
    <2>2. PICK j : j = i - 1
      OBVIOUS
    <2>3. i = j + 1
      BY <1>4, <2>2
    <2> QED BY <1>4, <2>1, <2>2, <2>3
  <1>6. IdleIn(new) = {n} \cup IdleIn(idle)
    <2>1. \A x \in IdleIn(new) : x \in {n} \cup IdleIn(idle)
      BY <1>4, <1>5 DEF IdleIn
    <2>2. n \in IdleIn(new)
      <3>1. 1 \in DOMAIN new
        BY <1>4
      <3> QED BY <1>4, <3>1 DEF IdleIn
    <2>3. \A x \in IdleIn(idle) : x \in IdleIn(new)
      <3> SUFFICES ASSUME NEW i \in DOMAIN idle PROVE idle[i] \in IdleIn(new)
        BY DEF IdleIn
      <3>1. i + 1 \in DOMAIN new /\ new[i + 1] = idle[i]
        BY <1>4
      <3> QED BY <3>1 DEF IdleIn
    <2> QED BY <2>1, <2>2, <2>3
  <1>7. \A i, j \in DOMAIN new : new[i] = new[j] => i = j
    <2> SUFFICES ASSUME NEW i \in DOMAIN new, NEW j \in DOMAIN new, new[i] = new[j] PROVE i = j
      OBVIOUS
    <2>1. \A k \in DOMAIN idle : idle[k] # n
      BY <1>1 DEF IdleIn
    <2>2. i \in Int /\ j \in Int
      BY <1>4
    <2>3. CASE i = 1 \/ j = 1
      BY <1>4, <1>5, <2>1, <2>3
    <2>4. CASE i # 1 /\ j # 1
      <3>1. PICK k \in DOMAIN idle : i = k + 1 /\ new[i] = idle[k]
        BY <1>5, <2>4
      <3>2. PICK l \in DOMAIN idle : j = l + 1 /\ new[j] = idle[l]
        BY <1>5, <2>4
      <3>3. k = l
        BY <1>1, <3>1, <3>2
      <3> QED BY <3>1, <3>2, <3>3
    <2> QED BY <2>3, <2>4
  <1>8. IsFiniteSet(U \ {n}) /\ Cardinality(U \ {n}) = Cardinality(U) - 1
    BY <1>1, FS_RemoveElement
  <1>9. (U \ {n}) \cap IdleIn(new) = {} /\ (U \ {n}) \cup IdleIn(new) = 1 .. m
    BY <1>1, <1>6
  <1>10. Pool(new, cost - 1, U \ {n}, m)
    BY <1>1, <1>4, <1>7, <1>8, <1>9 DEF Pool
  <1> QED BY <1>3, <1>10

\* A tree that is whole.
Good(h, U, T, S, b, V) ==
  /\ Shape(h, U, T, S, NoNode) /\ Even(h, U, b) /\ Keys(h, U, T, S, NoNode, V) /\ Two(h, U, S, NoNode, 0) /\ U = T[h[0].mid]
\* A tree over the nodes N, with the keys K, whose pool has given out the first m nodes.
Settled(r, t, N, K, V, m) ==
  \E g, W, R, Q, c, idle, cost : /\ r = Rec(t, g, idle, cost) /\ DOMAIN g = N /\ Good(g, W, R, Q, c, V)
                                 /\ KeysOf(g, R, V, NoNode) = K /\ Pool(idle, cost, W, m)

\* A node takes the middle son and the item of another.
LEMMA CollapsedIs ==
  ASSUME NEW g, IsHeap(g), NEW lev \in DOMAIN g, NEW r \in DOMAIN g, NEW e, e = [g EXCEPT ![lev].item = g[r].item, ![lev].mid = g[r].mid]
  PROVE  Collapsed(e, g, lev, r)
  <1>1. PICK N, I : N = DOMAIN g /\ g \in HeapOver(N, I) /\ 0 \in N /\ (e \in HeapOver(N, I) => IsHeap(e) /\ DOMAIN e = N)
    <2>1. PICK N : N = DOMAIN g
      OBVIOUS
    <2>2. PICK I : /\ I = Seq(Int) /\ (IsHeap(g) => g \in HeapOver(DOMAIN g, I) /\ 0 \in DOMAIN g)
      BY HeapIsOver
    <2>3. e \in HeapOver(N, I) /\ 0 \in N => IsHeap(e) /\ DOMAIN e = N
      BY <2>2, HeapIsOver
    <2> QED BY <2>1, <2>2, <2>3
  <1>2. IsHeap(e) /\ DOMAIN e = DOMAIN g
    <2>1. e \in HeapOver(N, I)
      BY <1>1 DEF HeapOver
    <2> QED BY <1>1, <2>1
  <1>3. ASSUME NEW y \in DOMAIN g, y # lev PROVE e[y] = g[y]
    BY <1>1, <1>3 DEF HeapOver
  <1>4. PICK f : f = [g EXCEPT ![lev].item = g[r].item]
    OBVIOUS
  <1>5. f[lev] = [g[lev] EXCEPT !.item = g[r].item] /\ lev \in DOMAIN f
    BY <1>1, <1>4 DEF HeapOver
  <1>6. e = [f EXCEPT ![lev].mid = g[r].mid]
    BY <1>4
  <1>7. e[lev] = [f[lev] EXCEPT !.mid = g[r].mid]
    BY <1>5, <1>6
  <1>8. PICK z : z = g[lev] /\ z = [cbyte |-> z.cbyte, index |-> z.index, color |-> z.color, item |-> z.item,
                    left |-> z.left, mid |-> z.mid, right |-> z.right, parent |-> z.parent]
    BY HeapFields
  <1>9. /\ e[lev].color = g[lev].color /\ e[lev].parent = g[lev].parent /\ e[lev].index = g[lev].index /\ e[lev].cbyte = g[lev].cbyte
        /\ e[lev]["left"] = g[lev]["left"] /\ e[lev]["right"] = g[lev]["right"] /\ e[lev].mid = g[r].mid /\ e[lev].item = g[r].item
    BY <1>5, <1>7, <1>8
  <1> QED BY <1>2, <1>3, <1>9 DEF Collapsed, Around

LEMMA CollapseStays ==
  ASSUME NEW t, NEW g, NEW idle, NEW cost, NEW u, u = Rec(t, g, idle, cost), NEW lev, NEW r, r = g[lev].mid,
         lev = 0 \/ g[r]["left"] # 0 \/ g[r]["right"] # 0
  PROVE  Collapse(u, lev) = u
  <1>1. u.h = g
    BY RecAgain
  <1> QED BY <1>1 DEF Collapse

LEMMA CollapseIs ==
  ASSUME NEW t, NEW g, NEW idle, NEW cost, NEW u, u = Rec(t, g, idle, cost), IsHeap(g), NEW lev \in DOMAIN g, NEW r, r = g[lev].mid
  PROVE  lev # 0 /\ g[r]["left"] = 0 /\ g[r]["right"] = 0 => \E e : Collapsed(e, g, lev, r) /\ Collapse(u, lev) = Rec(t, e, <<r>> \o idle, cost - 1)
  <1>1. u.h = g
    BY RecAgain
  <1>3. ASSUME lev # 0, g[r]["left"] = 0, g[r]["right"] = 0
        PROVE  \E e : Collapsed(e, g, lev, r) /\ Collapse(u, lev) = Rec(t, e, <<r>> \o idle, cost - 1)
    <2>1. PICK e : e = [g EXCEPT ![lev].item = g[r].item, ![lev].mid = g[r].mid]
      OBVIOUS
    <2>2. r \in DOMAIN g
      BY HeapFields
    <2>3. Collapsed(e, g, lev, r)
      BY <2>1, <2>2, CollapsedIs
    <2>4. Collapse(u, lev) = Free([u EXCEPT !.h[lev].item = g[r].item, !.h[lev].mid = g[r].mid], r)
      BY <1>1, <1>3 DEF Collapse
    <2>5. [u EXCEPT !.h[lev].item = g[r].item, !.h[lev].mid = g[r].mid] = [u EXCEPT !.h = e]
      BY <1>1, <2>1 DEF Rec
    <2>6. [u EXCEPT !.h = e] = Rec(t, e, idle, cost)
      BY RecAgain
    <2>7. Free(Rec(t, e, idle, cost), r) = Rec(t, e, <<r>> \o idle, cost - 1)
      BY RecAgain
    <2> QED BY <2>3, <2>4, <2>5, <2>6, <2>7
  <1> QED BY <1>3

\* d leaves the level of lev; the other nodes are a tree with its keys.
Parting(h, U, T, S, d, lev, V) ==
  /\ Shape(h, U, T, S, d) /\ d \in U /\ lev \in (U \cup {0}) \ {d}
  /\ Keys(h, U, T, S, d, V) /\ Two(h, U, S, d, lev) /\ T[h[0].mid] \ {d} = U \ {d}
  /\ lev # 0 => S[h[lev].mid] \ {d} # {}
\* The tree without d; the level may be one of one node.
Parted(g, h, W, R, Q, c, lev, T, V, d) ==
  /\ Shape(g, W, R, Q, NoNode) /\ Even(g, W, c) /\ Keys(g, W, R, Q, NoNode, V) /\ Two(g, W, Q, NoNode, lev) /\ W = R[g[0].mid]
  /\ DOMAIN g = DOMAIN h /\ KeysOf(g, R, V, NoNode) = KeysOf(h, T, V, d) /\ lev \in W \cup {0} /\ (lev # 0 => g[lev].mid # 0)
LEMMA PartedIs ==
  ASSUME NEW h, NEW U, NEW T, NEW S, NEW d, NEW lev, NEW V, Parting(h, U, T, S, d, lev, V),
         NEW g, NEW R, NEW Q, NEW c, Shape(g, U \ {d}, R, Q, NoNode), Even(g, U \ {d}, c), Alike(h, T, S, g, R, Q, U, d, lev)
  PROVE  Parted(g, h, U \ {d}, R, Q, c, lev, T, V, d)
  <1>1. /\ Shape(h, U, T, S, d) /\ d \in U /\ lev \in (U \cup {0}) \ {d}
        /\ Keys(h, U, T, S, d, V) /\ Two(h, U, S, d, lev) /\ T[h[0].mid] \ {d} = U \ {d}
        /\ lev # 0 => S[h[lev].mid] \ {d} # {}
    BY DEF Parting
  <1>2. d # 0 /\ 0 \notin U
    BY <1>1 DEF Shape, Loose, Wired
  <1>3. Keys(g, U, R, Q, d, V) /\ KeysOf(g, R, V, d) = KeysOf(h, T, V, d)
    BY <1>1, <1>2, AlikeKeys
  <1>4. Two(g, U, Q, d, lev)
    BY <1>1, AlikeTwo
  <1>5. PICK W : W = U \ {d}
    OBVIOUS
  <1>6. Keys(g, W, R, Q, NoNode, V) /\ Two(g, W, Q, NoNode, lev) /\ KeysOf(g, R, V, NoNode) = KeysOf(g, R, V, d)
    BY <1>2, <1>3, <1>4, <1>5, KeysWithout
  <1>7. /\ \A x \in (U \cup {0}) \ {d} : R[g[x].mid] \ {d} = T[h[x].mid] \ {d} /\ Q[g[x].mid] \ {d} = S[h[x].mid] \ {d}
        /\ DOMAIN g = DOMAIN h
    BY DEF Alike
  <1>8. NoNode \notin W \cup {0} /\ Shape(g, W, R, Q, NoNode) /\ Even(g, W, c)
    BY <1>5, NoHole
  <1>9. R[g[0].mid] = W
    <2>1. 0 \in (W \cup {0}) \ {NoNode}
      BY <1>8
    <2>2. R[g[0].mid] \subseteq W
      BY <1>8, <2>1, MidIn
    <2>3. 0 \in (U \cup {0}) \ {d}
      BY <1>2
    <2>4. R[g[0].mid] \ {d} = U \ {d}
      BY <1>1, <1>7, <2>3
    <2> QED BY <1>5, <2>2, <2>4
  <1>10. lev \in W \cup {0} /\ (lev # 0 => g[lev].mid # 0)
    <2>1. Q[0] = {}
      BY <1>8 DEF Shape, Loose, Levels
    <2>2. lev # 0 => Q[g[lev].mid] # {}
      BY <1>1, <1>7
    <2> QED BY <1>1, <1>5, <2>1, <2>2
  <1>11. Parted(g, h, W, R, Q, c, lev, T, V, d)
    BY <1>3, <1>6, <1>7, <1>8, <1>9, <1>10 DEF Parted
  <1> QED BY <1>5, <1>11

\* With two nodes it stays.
LEMMA PartedGood ==
  ASSUME NEW g, NEW h, NEW W, NEW R, NEW Q, NEW c, NEW lev, NEW T, NEW V, NEW d, Parted(g, h, W, R, Q, c, lev, T, V, d),
         lev = 0 \/ g[g[lev].mid]["left"] # 0 \/ g[g[lev].mid]["right"] # 0
  PROVE  Good(g, W, R, Q, c, V)
  <1>1. /\ Shape(g, W, R, Q, NoNode) /\ Even(g, W, c) /\ Keys(g, W, R, Q, NoNode, V) /\ Two(g, W, Q, NoNode, lev) /\ W = R[g[0].mid]
        /\ lev \in W \cup {0} /\ (lev # 0 => g[lev].mid # 0)
    BY DEF Parted
  <1>2. Two(g, W, Q, NoNode, 0)
    <2> SUFFICES ASSUME lev # 0 PROVE Two(g, W, Q, NoNode, 0)
      BY <1>1
    <2>1. PICK z : z = g[lev].mid /\ z \in W /\ NoNode \notin W \cup {0}
      BY <1>1, NoHole
    <2>2. PICK s \in Around : g[z][s] # 0
      BY <2>1 DEF Around
    <2>3. Loose(g, W, R, Q, NoNode)
      BY <1>1 DEF Shape
    <2>4. g[z][s] \in W /\ g[z][s] # z
      BY <2>1, <2>2, <2>3, HangsIs
    <2>5. z \in Q[z] /\ g[z][s] \in Q[z]
      <3>1. Q[z] = {z} \cup Q[g[z]["left"]] \cup Q[g[z]["right"]]
        BY <2>1, <2>3 DEF Loose, Levels
      <3>2. g[z][s] \in Q[g[z][s]]
        BY <2>3, <2>4, LevelIs
      <3> QED BY <3>1, <3>2 DEF Around
    <2>6. \E y, w \in Q[g[lev].mid] \ {NoNode} : y # w
      BY <2>1, <2>4, <2>5
    <2> QED BY <1>1, <2>6 DEF Two
  <1> QED BY <1>1, <1>2 DEF Good

\* Of a level of one node, nothing stays.
LEMMA PartedLone ==
  ASSUME NEW g, NEW h, NEW W, NEW R, NEW Q, NEW c, NEW lev, NEW T, NEW V, NEW d, Parted(g, h, W, R, Q, c, lev, T, V, d),
         lev # 0, NEW r, r = g[lev].mid, g[r]["left"] = 0, g[r]["right"] = 0, NEW e, Collapsed(e, g, lev, r)
  PROVE  \E A, B : Good(e, W \ {r}, A, B, c, V) /\ DOMAIN e = DOMAIN h /\ KeysOf(e, A, V, NoNode) = KeysOf(h, T, V, d) /\ r \in W
  <1>1. /\ Shape(g, W, R, Q, NoNode) /\ Even(g, W, c) /\ Keys(g, W, R, Q, NoNode, V) /\ Two(g, W, Q, NoNode, lev) /\ W = R[g[0].mid]
        /\ lev \in W \cup {0} /\ g[lev].mid # 0 /\ DOMAIN g = DOMAIN h /\ KeysOf(g, R, V, NoNode) = KeysOf(h, T, V, d)
    BY DEF Parted
  <1>2. LoneNode(g, W, R, Q, lev, r)
    BY <1>1 DEF LoneNode
  <1>3. PICK A, B : A = Less(R, r) /\ B = Less(Q, r)
    OBVIOUS
  <1>4. PICK X : X = W \ {r}
    OBVIOUS
  <1>5. Shape(e, X, A, B, NoNode)
    BY <1>2, <1>3, <1>4, CollapseShape
  <1>6. Even(e, X, c)
    BY <1>1, <1>2, <1>4, CollapseEven
  <1>7. CollapseKeysAre(e, g, W, R, X, A, B, V, r)
    BY <1>1, <1>2, <1>3, <1>4, CollapseKeys
  <1>8. /\ Keys(e, X, A, B, NoNode, V) /\ Two(e, X, B, NoNode, 0)
        /\ A[e[0].mid] = R[g[0].mid] \ {r} /\ KeysOf(e, A, V, NoNode) = KeysOf(g, R, V, NoNode)
    BY <1>7 DEF CollapseKeysAre
  <1>9. Good(e, X, A, B, c, V)
    BY <1>1, <1>4, <1>5, <1>6, <1>8 DEF Good
  <1>10. DOMAIN e = DOMAIN h /\ r \in W
    <2>1. r \in W
      BY <1>2, CollapseSons
    <2> QED BY <1>1, <2>1 DEF Collapsed
  <1> QED BY <1>1, <1>4, <1>8, <1>9, <1>10

\* So the tree is whole again.
LEMMA Finish ==
  ASSUME NEW h, NEW U, NEW T, NEW S, NEW d, NEW lev, NEW V, Parting(h, U, T, S, d, lev, V),
         NEW t, NEW idle, NEW cost, NEW m, Pool(idle, cost, U, m), NEW u, OneLess(h, U, T, S, d, lev, t, idle, cost, u)
  PROVE  Settled(Collapse(u, lev), t, DOMAIN h, KeysOf(h, T, V, d), V, m)
  <1>1. PICK g, R, Q, c : /\ Shape(g, U \ {d}, R, Q, NoNode) /\ Even(g, U \ {d}, c) /\ Alike(h, T, S, g, R, Q, U, d, lev)
                          /\ u = Rec(t, g, <<d>> \o idle, cost - 1)
    BY DEF OneLess
  <1>2. PICK W, i1, c1 : W = U \ {d} /\ i1 = <<d>> \o idle /\ c1 = cost - 1
    OBVIOUS
  <1>3. Parted(g, h, W, R, Q, c, lev, T, V, d)
    BY <1>1, <1>2, PartedIs
  <1>4. d \in U
    BY DEF Parting
  <1>5. Pool(i1, c1, W, m)
    BY <1>2, <1>4, PoolGive
  <1>6. u = Rec(t, g, i1, c1)
    BY <1>1, <1>2
  <1>7. IsHeap(g) /\ lev \in DOMAIN g /\ DOMAIN g = DOMAIN h /\ KeysOf(g, R, V, NoNode) = KeysOf(h, T, V, d)
    <2>1. Shape(g, W, R, Q, NoNode) /\ lev \in W \cup {0} /\ DOMAIN g = DOMAIN h /\ KeysOf(g, R, V, NoNode) = KeysOf(h, T, V, d)
      BY <1>3 DEF Parted
    <2>2. Wired(g, W, NoNode)
      BY <2>1 DEF Shape, Loose
    <2>3. lev \in DOMAIN g
      BY <2>1, <2>2, NodeIn
    <2> QED BY <2>1, <2>2, <2>3 DEF Wired
  <1>8. PICK r : r = g[lev].mid
    OBVIOUS
  <1>9. CASE lev = 0 \/ g[r]["left"] # 0 \/ g[r]["right"] # 0
    <2>1. Collapse(u, lev) = Rec(t, g, i1, c1)
      <3>1. Collapse(u, lev) = u
        BY <1>6, <1>8, <1>9, CollapseStays
      <3> QED BY <1>6, <1>9, <3>1
    <2>2. Good(g, W, R, Q, c, V)
      BY <1>3, <1>8, <1>9, PartedGood
    <2> QED BY <1>5, <1>7, <2>1, <2>2 DEF Settled
  <1>10. CASE ~(lev = 0 \/ g[r]["left"] # 0 \/ g[r]["right"] # 0)
    <2>1. PICK e : Collapsed(e, g, lev, r) /\ Collapse(u, lev) = Rec(t, e, <<r>> \o i1, c1 - 1)
      BY <1>6, <1>7, <1>8, <1>10, CollapseIs
    <2>2. PICK A, B : Good(e, W \ {r}, A, B, c, V) /\ DOMAIN e = DOMAIN h /\ KeysOf(e, A, V, NoNode) = KeysOf(h, T, V, d) /\ r \in W
      BY <1>3, <1>8, <1>10, <2>1, PartedLone
    <2>3. Pool(<<r>> \o i1, c1 - 1, W \ {r}, m)
      BY <1>5, <2>2, PoolGive
    <2> QED BY <2>1, <2>2, <2>3 DEF Settled
  <1> QED BY <1>9, <1>10

(***************************************************************************)
(* The heap that Unlink balances, field by field.                          *)
(***************************************************************************)
\* g is h but for the index of d.
Marked(g, h, d) ==
  /\ IsHeap(g) /\ DOMAIN g = DOMAIN h
  /\ \A y \in DOMAIN h : /\ g[y].color = h[y].color /\ g[y].parent = h[y].parent /\ g[y].cbyte = h[y].cbyte /\ g[y].item = h[y].item
                         /\ (\A s \in Sides : g[y][s] = h[y][s]) /\ (y # d => g[y].index = h[y].index)
\* p has the byte, the item and the middle son of d.
Moved(g, h, d, p) ==
  /\ IsHeap(g) /\ DOMAIN g = DOMAIN h
  /\ \A y \in DOMAIN h : /\ g[y].color = h[y].color /\ g[y].parent = h[y].parent /\ g[y].index = h[y].index
                         /\ \A s \in Around : g[y][s] = h[y][s]
                         /\ g[y].mid = IF y = p THEN h[d].mid ELSE h[y].mid
                         /\ g[y].cbyte = IF y = p THEN h[d].cbyte ELSE h[y].cbyte
                         /\ g[y].item = IF y = p THEN h[d].item ELSE h[y].item

LEMMA HeapWith ==
  ASSUME NEW h, IsHeap(h), NEW g
  PROVE  \E N, I : /\ N = DOMAIN h /\ h \in HeapOver(N, I) /\ 0 \in N /\ (g \in HeapOver(N, I) => IsHeap(g) /\ DOMAIN g = N)
  <2>1. PICK N : N = DOMAIN h
    OBVIOUS
  <2>2. PICK I : /\ I = Seq(Int) /\ (IsHeap(h) => h \in HeapOver(DOMAIN h, I) /\ 0 \in DOMAIN h)
    BY HeapIsOver
  <2>3. g \in HeapOver(N, I) /\ 0 \in N => IsHeap(g) /\ DOMAIN g = N
    BY <2>2, HeapIsOver
  <2> QED BY <2>1, <2>2, <2>3

LEMMA MarkedIs ==
  ASSUME NEW h, IsHeap(h), NEW d \in DOMAIN h, NEW g, g = [h EXCEPT ![d].index = Taken]
  PROVE  Marked(g, h, d) /\ g[d].index = Taken
  <1>1. PICK N, I : N = DOMAIN h /\ h \in HeapOver(N, I) /\ 0 \in N /\ (g \in HeapOver(N, I) => IsHeap(g) /\ DOMAIN g = N)
    BY HeapWith
  <1>2. Taken \in Int
    BY DEF Taken
  <1>3. IsHeap(g) /\ DOMAIN g = DOMAIN h
    <2>1. g \in HeapOver(N, I)
      BY <1>1, <1>2 DEF HeapOver
    <2> QED BY <1>1, <2>1
  <1>4. \A y \in DOMAIN h : y # d => g[y] = h[y]
    BY <1>1 DEF HeapOver
  <1>5. g[d] = [h[d] EXCEPT !.index = Taken]
    BY <1>1 DEF HeapOver
  <1>6. PICK z : z = h[d] /\ z = [cbyte |-> z.cbyte, index |-> z.index, color |-> z.color, item |-> z.item,
                    left |-> z.left, mid |-> z.mid, right |-> z.right, parent |-> z.parent]
    BY HeapFields
  <1>7. /\ g[d].color = z.color /\ g[d].parent = z.parent /\ g[d].cbyte = z.cbyte /\ g[d].item = z.item
        /\ g[d]["left"] = z["left"] /\ g[d]["mid"] = z["mid"] /\ g[d]["right"] = z["right"] /\ g[d].index = Taken
    BY <1>5, <1>6
  <1> QED BY <1>3, <1>4, <1>6, <1>7 DEF Marked, Sides

LEMMA MovedIs ==
  ASSUME NEW h, IsHeap(h), NEW d \in DOMAIN h, NEW p \in DOMAIN h, p # d, NEW g, g = InPlaceOf(h, d, p)
  PROVE  Moved(g, h, d, p)
  <1>1. PICK N, I : N = DOMAIN h /\ h \in HeapOver(N, I) /\ 0 \in N /\ (g \in HeapOver(N, I) => IsHeap(g) /\ DOMAIN g = N)
    BY HeapWith
  <1>2. g = [h EXCEPT ![p].cbyte = h[d].cbyte, ![p].mid = h[d].mid, ![p].item = h[d].item]
    BY DEF InPlaceOf
  <1>3. PICK f : f = [h EXCEPT ![p].cbyte = h[d].cbyte]
    OBVIOUS
  <1>4. PICK e : e = [f EXCEPT ![p].mid = h[d].mid]
    OBVIOUS
  <1>5. g = [e EXCEPT ![p].item = h[d].item]
    BY <1>2, <1>3, <1>4
  <1>6. DOMAIN f = N /\ f[p] = [h[p] EXCEPT !.cbyte = h[d].cbyte] /\ \A y \in N : y # p => f[y] = h[y]
    BY <1>1, <1>3 DEF HeapOver
  <1>7. DOMAIN e = N /\ e[p] = [f[p] EXCEPT !.mid = h[d].mid] /\ \A y \in N : y # p => e[y] = h[y]
    BY <1>1, <1>4, <1>6
  <1>8. DOMAIN g = N /\ g[p] = [e[p] EXCEPT !.item = h[d].item] /\ \A y \in N : y # p => g[y] = h[y]
    BY <1>1, <1>5, <1>7
  <1>9. PICK z : z = h[p] /\ z = [cbyte |-> z.cbyte, index |-> z.index, color |-> z.color, item |-> z.item,
                    left |-> z.left, mid |-> z.mid, right |-> z.right, parent |-> z.parent]
    BY HeapFields
  <1>10. g[p] = [cbyte |-> h[d].cbyte, index |-> z.index, color |-> z.color, item |-> h[d].item,
                    left |-> z.left, mid |-> h[d].mid, right |-> z.right, parent |-> z.parent]
    <2>1. f[p] = [cbyte |-> h[d].cbyte, index |-> z.index, color |-> z.color, item |-> z.item,
                  left |-> z.left, mid |-> z.mid, right |-> z.right, parent |-> z.parent]
      BY <1>6, <1>9
    <2>2. e[p] = [cbyte |-> h[d].cbyte, index |-> z.index, color |-> z.color, item |-> z.item,
                  left |-> z.left, mid |-> h[d].mid, right |-> z.right, parent |-> z.parent]
      BY <1>7, <2>1
    <2> QED BY <1>8, <2>2
  <1>11. IsHeap(g)
    <2>1. /\ h[d].cbyte \in Int /\ h[d].item \in I /\ h[d].mid \in N /\ z.index \in Int /\ z.color \in {BLACK, RED} /\ z.left \in N
          /\ z.right \in N /\ z.parent \in N
      BY <1>1, <1>9 DEF HeapOver
    <2>2. g[p] \in [cbyte : Int, index : Int, color : {BLACK, RED}, item : I, left : N, mid : N, right : N, parent : N]
      BY <1>10, <2>1
    <2>3. \A y \in N : g[y] \in [cbyte : Int, index : Int, color : {BLACK, RED}, item : I, left : N, mid : N, right : N, parent : N]
      BY <1>1, <1>8, <2>2 DEF HeapOver
    <2>4. g = [y \in N |-> g[y]]
      BY <1>5, <1>8
    <2> QED BY <1>1, <2>3, <2>4 DEF HeapOver
  <1>12. /\ g[p].color = h[p].color /\ g[p].parent = h[p].parent /\ g[p].index = h[p].index /\ g[p]["left"] = h[p]["left"] /\ g[p]["right"] = h[p]["right"]
         /\ g[p].mid = h[d].mid /\ g[p].cbyte = h[d].cbyte /\ g[p].item = h[d].item
    BY <1>9, <1>10
  <1> QED BY <1>1, <1>8, <1>11, <1>12 DEF Moved, Around

\* The son of d hangs where d hung.
LEMMA BypassIs ==
  ASSUME NEW h, IsHeap(h), NEW lev \in DOMAIN h, NEW d \in DOMAIN h, NEW only \in DOMAIN h \ {0}, only # d,
         NEW g, g = TakeOut(h, lev, d, only), (IF h[d].parent = 0 THEN lev ELSE h[d].parent) # only
  PROVE  Bypassed(g, h, lev, d, only)
  <1>1. h[d].parent \in DOMAIN h
    BY HeapFields
  <1>2. PICK f : f = SetUp(h, only, h[d].parent)
    OBVIOUS
  <1>3. ParentSet(f, h, only, h[d].parent)
    BY <1>1, <1>2, SetUpIs
  <1>4. g = Replace(f, lev, d, only)
    BY <1>2 DEF TakeOut, SetParent, SetUp
  <1>5. IsHeap(f) /\ DOMAIN f = DOMAIN h
    BY <1>3 DEF ParentSet
  <1>6. Replaced(g, f, lev, d, only)
    BY <1>4, <1>5, ReplaceIs
  <1>7. /\ IsHeap(g) /\ DOMAIN g = DOMAIN f
        /\ \A y \in DOMAIN f :
             /\ SameData(g, f, y) /\ g[y].color = f[y].color /\ g[y].parent = f[y].parent
             /\ \A s \in Sides : g[y][s] = IF Hook(f, lev, d, y, s) THEN only ELSE f[y][s]
             /\ y # (IF f[d].parent = 0 THEN lev ELSE f[d].parent) => g[y] = f[y]
    BY <1>6 DEF Replaced
  <1>8. \A y \in DOMAIN h : /\ SameData(f, h, y) /\ f[y].color = h[y].color /\ (\A s \in Sides : f[y][s] = h[y][s])
                            /\ f[y].parent = (IF y = only THEN h[d].parent ELSE h[y].parent) /\ (y # only => f[y] = h[y])
    BY <1>3 DEF ParentSet, SameSons
  <1>9. f[d].parent = h[d].parent /\ Hangs(f, d) = Hangs(h, d)
    <2>1. f[d] = h[d]
      BY <1>8
    <2>2. f[h[d].parent]["left"] = h[h[d].parent]["left"]
      BY <1>1, <1>8 DEF Sides
    <2> QED BY <2>1, <2>2 DEF Hangs
  <1>10. \A y, s : Hook(f, lev, d, y, s) <=> Hook(h, lev, d, y, s)
    BY <1>9 DEF Hook
  <1>11. ASSUME NEW y \in DOMAIN h
         PROVE  /\ SameData(g, h, y) /\ g[y].color = h[y].color
                /\ g[y].parent = (IF y = only THEN h[d].parent ELSE h[y].parent)
                /\ \A s \in Sides : g[y][s] = IF Hook(h, lev, d, y, s) THEN only ELSE h[y][s]
    BY <1>5, <1>7, <1>8, <1>10 DEF SameData
  <1>12. ASSUME NEW y \in DOMAIN h, y # only, \A s \in Sides : ~Hook(h, lev, d, y, s) PROVE g[y] = h[y]
    <2>1. y # (IF h[d].parent = 0 THEN lev ELSE h[d].parent)
      <3>1. Hangs(h, d) \in Sides /\ "mid" \in Sides
        BY DEF Hangs, Sides
      <3> QED BY <1>12, <3>1 DEF Hook
    <2> QED BY <1>5, <1>7, <1>8, <1>9, <1>12, <2>1
  <1> QED BY <1>5, <1>7, <1>11, <1>12 DEF Bypassed

LEMMA MovedCarried ==
  ASSUME NEW g, NEW h, NEW d, NEW p, Moved(g, h, d, p)
  PROVE  Carried(g, h, d, p)
  BY DEF Moved, Carried

LEMMA MarkedCarried ==
  ASSUME NEW g, NEW f, NEW h, NEW d \in DOMAIN h, NEW p, Marked(f, h, d), f[d].index = Taken, Moved(g, f, d, p)
  PROVE  Carried(g, h, d, p) /\ g[d].index = Taken
  <1>1. /\ IsHeap(g) /\ DOMAIN g = DOMAIN h
        /\ \A y \in DOMAIN h : /\ g[y].color = f[y].color /\ g[y].parent = f[y].parent /\ g[y].index = f[y].index
                               /\ \A s \in Around : g[y][s] = f[y][s]
                               /\ g[y].mid = (IF y = p THEN f[d].mid ELSE f[y].mid)
                               /\ g[y].cbyte = (IF y = p THEN f[d].cbyte ELSE f[y].cbyte)
                               /\ g[y].item = (IF y = p THEN f[d].item ELSE f[y].item)
    BY DEF Marked, Moved
  <1>2. \A y \in DOMAIN h : /\ f[y].color = h[y].color /\ f[y].parent = h[y].parent /\ f[y].cbyte = h[y].cbyte /\ f[y].item = h[y].item
                            /\ f[y]["left"] = h[y]["left"] /\ f[y]["mid"] = h[y]["mid"] /\ f[y]["right"] = h[y]["right"]
                            /\ (y # d => f[y].index = h[y].index)
    BY DEF Marked, Sides
  <1>3. \A y \in DOMAIN h : \A s \in Around : f[y][s] = h[y][s]
    BY <1>2 DEF Around
  <1>4. \A y \in DOMAIN h : /\ g[y].color = h[y].color /\ g[y].parent = h[y].parent /\ (y # d => g[y].index = h[y].index)
                            /\ (\A s \in Around : g[y][s] = h[y][s])
                            /\ g[y].mid = (IF y = p THEN h[d].mid ELSE h[y].mid)
                            /\ g[y].cbyte = (IF y = p THEN h[d].cbyte ELSE h[y].cbyte)
                            /\ g[y].item = (IF y = p THEN h[d].item ELSE h[y].item)
    <2> TAKE y \in DOMAIN h
    <2>1. /\ g[y].color = h[y].color /\ g[y].parent = h[y].parent /\ (y # d => g[y].index = h[y].index)
          /\ (\A s \in Around : g[y][s] = h[y][s])
      BY <1>1, <1>2, <1>3
    <2>5. f[d].mid = h[d].mid /\ f[d].cbyte = h[d].cbyte /\ f[d].item = h[d].item
      BY <1>2
    <2>6. f[y].mid = h[y].mid /\ f[y].cbyte = h[y].cbyte /\ f[y].item = h[y].item
      BY <1>2
    <2>2. g[y].mid = (IF y = p THEN h[d].mid ELSE h[y].mid)
      BY <1>1, <2>5, <2>6
    <2>3. g[y].cbyte = (IF y = p THEN h[d].cbyte ELSE h[y].cbyte)
      BY <1>1, <2>5, <2>6
    <2>4. g[y].item = (IF y = p THEN h[d].item ELSE h[y].item)
      BY <1>1, <2>5, <2>6
    <2> QED BY <2>1, <2>2, <2>3, <2>4
  <1>5. g[d].index = Taken
    BY <1>1
  <1>6. Carried(g, h, d, p)
    BY <1>1, <1>4 DEF Carried
  <1> QED BY <1>5, <1>6

\* To take the son out first, or to carry first, is the same.
LEMMA BypassCarried ==
  ASSUME NEW h, IsHeap(h), NEW lev \in DOMAIN h, NEW d \in DOMAIN h, NEW only \in DOMAIN h \ {0}, NEW p \in DOMAIN h,
         h[d].parent # 0, NEW f, Bypassed(f, h, lev, d, only), NEW g, Moved(g, f, d, p), NEW k, Moved(k, h, d, p)
  PROVE  Bypassed(g, k, lev, d, only)
  <1>1. /\ IsHeap(g) /\ DOMAIN g = DOMAIN h /\ DOMAIN f = DOMAIN h /\ IsHeap(k) /\ DOMAIN k = DOMAIN h
    BY DEF Bypassed, Moved
  <1>2. \A y \in DOMAIN h : /\ f[y].cbyte = h[y].cbyte /\ f[y].index = h[y].index /\ f[y].item = h[y].item /\ f[y].color = h[y].color
                            /\ f[y].parent = (IF y = only THEN h[d].parent ELSE h[y].parent)
                            /\ \A s \in Sides : f[y][s] = (IF Hook(h, lev, d, y, s) THEN only ELSE h[y][s])
                            /\ y # only /\ (\A s \in Sides : ~Hook(h, lev, d, y, s)) => f[y] = h[y]
    BY DEF Bypassed, SameData
  <1>3. \A y \in DOMAIN h : f[y].mid = h[y].mid
    <2> TAKE y \in DOMAIN h
    <2>1. ~Hook(h, lev, d, y, "mid")
      BY DEF Hook, Hangs
    <2>2. "mid" \in Sides
      BY DEF Sides
    <2> QED BY <1>2, <2>1, <2>2
  <1>4. \A y \in DOMAIN h : /\ g[y].color = f[y].color /\ g[y].parent = f[y].parent /\ g[y].index = f[y].index
                            /\ (\A s \in Around : g[y][s] = f[y][s])
                            /\ g[y].mid = (IF y = p THEN f[d].mid ELSE f[y].mid)
                            /\ g[y].cbyte = (IF y = p THEN f[d].cbyte ELSE f[y].cbyte)
                            /\ g[y].item = (IF y = p THEN f[d].item ELSE f[y].item)
    BY <1>1 DEF Moved
  <1>5. \A y \in DOMAIN h : /\ k[y].color = h[y].color /\ k[y].parent = h[y].parent /\ k[y].index = h[y].index
                            /\ (\A s \in Around : k[y][s] = h[y][s])
                            /\ k[y].mid = (IF y = p THEN h[d].mid ELSE h[y].mid)
                            /\ k[y].cbyte = (IF y = p THEN h[d].cbyte ELSE h[y].cbyte)
                            /\ k[y].item = (IF y = p THEN h[d].item ELSE h[y].item)
    BY <1>1 DEF Moved
  <1>6. h[d].parent \in DOMAIN h /\ k[d].parent = h[d].parent
    BY <1>5, HeapFields
  <1>7. Hangs(k, d) = Hangs(h, d)
    <2>1. k[h[d].parent]["left"] = h[h[d].parent]["left"]
      BY <1>5, <1>6 DEF Around
    <2> QED BY <1>6, <2>1 DEF Hangs
  <1>8. \A y, s : Hook(k, lev, d, y, s) <=> Hook(h, lev, d, y, s)
    BY <1>6, <1>7 DEF Hook
  <1>9. ASSUME NEW y \in DOMAIN h
        PROVE  /\ g[y].cbyte = k[y].cbyte /\ g[y].index = k[y].index /\ g[y].item = k[y].item /\ g[y].color = k[y].color
               /\ g[y].parent = (IF y = only THEN k[d].parent ELSE k[y].parent) /\ g[y].mid = k[y].mid
    BY <1>2, <1>3, <1>4, <1>5, <1>6
  <1>10. ASSUME NEW y \in DOMAIN h, NEW s \in Sides PROVE g[y][s] = IF Hook(k, lev, d, y, s) THEN only ELSE k[y][s]
    <2>1. CASE s = "mid"
      <3>1. ~Hook(k, lev, d, y, "mid")
        BY <1>8 DEF Hook, Hangs
      <3> QED BY <1>9, <2>1, <3>1
    <2>2. CASE s # "mid"
      <3>1. s \in Around
        BY <2>2 DEF Around, Sides
      <3>2. g[y][s] = f[y][s] /\ k[y][s] = h[y][s]
        BY <1>4, <1>5, <3>1
      <3> QED BY <1>2, <1>8, <3>2
    <2> QED BY <2>1, <2>2
  <1>11. ASSUME NEW y \in DOMAIN h, y # only, \A s \in Sides : ~Hook(k, lev, d, y, s) PROVE g[y] = k[y]
    <2>1. g[y].cbyte = k[y].cbyte /\ g[y].index = k[y].index /\ g[y].item = k[y].item /\ g[y].color = k[y].color
          /\ g[y].parent = k[y].parent
      BY <1>9, <1>11
    <2>2. g[y].left = k[y].left /\ g[y].mid = k[y].mid /\ g[y].right = k[y].right
      <3>1. "left" \in Sides /\ "mid" \in Sides /\ "right" \in Sides
        BY DEF Sides
      <3>2. g[y]["left"] = k[y]["left"] /\ g[y]["mid"] = k[y]["mid"] /\ g[y]["right"] = k[y]["right"]
        BY <1>10, <1>11, <3>1
      <3> QED BY <3>2
    <2>3. g[y] = [cbyte |-> g[y].cbyte, index |-> g[y].index, color |-> g[y].color, item |-> g[y].item,
                    left |-> g[y].left, mid |-> g[y].mid, right |-> g[y].right, parent |-> g[y].parent]
      BY <1>1, HeapFields
    <2>4. k[y] = [cbyte |-> k[y].cbyte, index |-> k[y].index, color |-> k[y].color, item |-> k[y].item,
                    left |-> k[y].left, mid |-> k[y].mid, right |-> k[y].right, parent |-> k[y].parent]
      BY <1>1, HeapFields
    <2> QED BY <2>1, <2>2, <2>3, <2>4
  <1> QED BY <1>1, <1>9, <1>10, <1>11 DEF Bypassed, SameData

\* Carrying changes no color.
LEMMA CarryEven ==
  ASSUME NEW h, NEW U, NEW T, NEW S, NEW lev, NEW p, NEW del, CarryPlace(h, U, T, S, lev, p, del), NEW g, Carried(g, h, del, p),
         NEW b, Even(h, U, b)
  PROVE  Counts(g, U, b, NoNode, NoNode, 0) /\ Reds(g, U, del, NoNode)
  <1>1. /\ Shape(h, U, T, S, NoNode) /\ Wired(h, U, NoNode) /\ p \in U
    BY DEF CarryPlace, Shape, Loose
  <1>2. /\ \A y \in DOMAIN h : g[y].color = h[y].color /\ \A s \in Around : g[y][s] = h[y][s]
        /\ DOMAIN g = DOMAIN h
    BY DEF Carried
  <1>3. (\A x \in U \cup {0} : x \in DOMAIN h) /\ 0 \notin U /\ NoNode \notin U \cup {0} /\ NoNode \notin DOMAIN h
    BY <1>1, NodeIn, NoHole
  <1>4. Counts(h, U, b, NoNode, NoNode, 0) /\ Reds(h, U, NoNode, NoNode)
    BY DEF Even
  <1>5. Counts(g, U, b, NoNode, NoNode, 0)
    <2>1. \A x \in U \ {NoNode}, s \in Around : b[x] = Seen(b, NoNode, 0, h[x][s]) + Blk(h, x)
      BY <1>4 DEF Counts
    <2>2. \A x \in U \ {NoNode} : Blk(g, x) = Blk(h, x)
      BY <1>2, <1>3 DEF Blk
    <2>3. \A x \in U \ {NoNode}, s \in Around : g[x][s] = h[x][s]
      BY <1>2, <1>3
    <2>4. \A x \in U \ {NoNode}, s \in Around : b[x] = Seen(b, NoNode, 0, g[x][s]) + Blk(g, x)
      BY <2>1, <2>2, <2>3
    <2> QED BY <1>2, <1>4, <2>4 DEF Counts
  <1>6. Reds(g, U, del, NoNode)
    <2>1. ASSUME NEW x \in U \ {NoNode}, NEW s \in Around, g[x].color = RED, g[x][s] # NoNode PROVE g[g[x][s]].color = BLACK
      <3>1. g[x][s] = h[x][s] /\ h[x].color = RED /\ h[x][s] \in DOMAIN h
        BY <1>1, <1>2, <1>3, <2>1, AroundIn
      <3>2. h[h[x][s]].color = BLACK
        BY <1>4, <2>1, <3>1 DEF Reds
      <3> QED BY <1>2, <3>1, <3>2
    <2>2. ASSUME NEW x \in U \cup {0}, Mid(g, del, x) \notin {0, NoNode} PROVE g[Mid(g, del, x)].color = BLACK
      <3>1. /\ Mid(g, del, x) = (IF x = del THEN 0 ELSE IF x = p THEN h[del].mid ELSE h[x].mid)
            /\ Mid(h, NoNode, x) = h[x].mid
        BY CarrySons
      <3>2. del \in U
        <4>1. PICK M : CarryNodes(h, U, T, S, p, del, M)
          BY CarryNodesAre
        <4> QED BY <4>1 DEF CarryNodes
      <3>3. PICK y \in U \cup {0} : Mid(g, del, x) = Mid(h, NoNode, y)
        <4>1. Mid(h, NoNode, del) = h[del].mid
          BY <3>2, CarrySons
        <4> QED BY <2>2, <3>1, <3>2, <4>1
      <3>4. h[Mid(h, NoNode, y)].color = BLACK
        BY <1>4, <2>2, <3>3 DEF Reds
      <3>5. Mid(h, NoNode, y) \in DOMAIN h
        <4>1. Mid(h, NoNode, y) \in U \cup {0}
          BY <1>1, NoHole
        <4> QED BY <1>3, <4>1
      <3> QED BY <1>2, <3>3, <3>4, <3>5
    <2> QED BY <2>1, <2>2 DEF Reds
  <1> QED BY <1>5, <1>6

\* What is under a node asks for a later byte than the node; no node asks for one before the first, but a tree without keys.
IndexesAre(h, U, T, S, V) ==
  /\ \A x \in U : \A y \in T[h[x].mid] : y \in U /\ h[y].index > h[x].index
  /\ \A y \in T[h[0].mid] : /\ h[y].index >= Taken /\ (V = {} => h[y].index >= 0)
                            /\ (y \notin S[h[0].mid] => h[y].index >= 0)
LEMMA IndexAbove ==
  ASSUME NEW h, NEW U, NEW T, NEW S, NEW V, Shape(h, U, T, S, NoNode), Keys(h, U, T, S, NoNode, V)
  PROVE  IndexesAre(h, U, T, S, V)
  <1>1. /\ Wired(h, U, NoNode) /\ Bounded(h, U, T, NoNode) /\ Loose(h, U, T, S, NoNode) /\ Exact(h, U, T, NoNode) /\ T[0] = {} /\ S[0] = {}
    BY DEF Shape, Loose, Bounded, Levels
  <1>2. /\ NoNode \notin U \cup {0} /\ (\A x \in U \cup {0} : Mid(h, NoNode, x) = h[x].mid /\ h[x].mid \in U \cup {0})
        /\ (\A x \in U \cup {0} : x \in DOMAIN h) /\ 0 \notin U
    BY <1>1, NoHole, NodeIn
  <1>3. Deeper(h, U, S, NoNode) /\ First(h, S, NoNode, V)
    BY DEF Keys
  <1>4. \A x \in U \cup {0} : h[x].index \in Int
    BY <1>1, <1>2, HeapFields DEF Wired
  <1>5. \A x \in U : T[x] \subseteq U /\ \A y \in T[x] : T[y] \subseteq T[x]
    BY UnderIs
  <1>6. \A z \in U : \A y \in T[z] : \E w \in S[z] : y = w \/ y \in T[h[w].mid]
    <2> SUFFICES ASSUME NEW z \in U, NEW y \in T[z] PROVE \E w \in S[z] : y = w \/ y \in T[h[w].mid]
      OBVIOUS
    <2>1. PICK w \in S[z] : y = w \/ y \in T[Mid(h, NoNode, w)]
      BY Spread
    <2>2. w \in U
      BY <1>1, LevelIs
    <2> QED BY <1>2, <2>1, <2>2
  <1>7. \A z \in U : S[z] \subseteq T[z] /\ S[z] \subseteq U
    BY <1>1, LevelIs
  <1> DEFINE W == {x \in U : \A w \in T[x] : \A y \in T[h[w].mid] : h[y].index > h[w].index}
  <1>8. U \subseteq W
    <2>1. ASSUME NEW x \in U, \A s \in Sides : Son(h, NoNode, x, s) \in U => Son(h, NoNode, x, s) \in W PROVE x \in W
      <3> SUFFICES ASSUME NEW w \in T[x], NEW y \in T[h[w].mid] PROVE h[y].index > h[w].index
        OBVIOUS
      <3>1. PICK l, m, r : l = h[x]["left"] /\ m = h[x].mid /\ r = h[x]["right"]
        OBVIOUS
      <3>2. Son(h, NoNode, x, "left") = l /\ Son(h, NoNode, x, "mid") = m /\ Son(h, NoNode, x, "right") = r /\ Mid(h, NoNode, x) = m
        BY <1>2, <3>1 DEF Son
      <3>3. l \in U \cup {0} /\ m \in U \cup {0} /\ r \in U \cup {0}
        BY <1>1, <3>2 DEF Wired, Sides
      <3>4. T[x] = {x} \cup T[l] \cup T[m] \cup T[r]
        BY <1>1, <3>1, <3>2 DEF Exact
      <3>5. (l \in U => l \in W) /\ (m \in U => m \in W) /\ (r \in U => r \in W)
        BY <2>1, <3>2 DEF Sides
      <3>6. CASE w # x
        <4>1. PICK s \in {l, m, r} : w \in T[s]
          BY <3>4, <3>6
        <4>2. s \in U
          BY <1>1, <3>3, <4>1
        <4> QED BY <3>5, <4>1, <4>2
      <3>7. CASE w = x
        <4>1. m \in U /\ y \in T[m]
          BY <1>1, <3>1, <3>3, <3>7
        <4>2. PICK v \in S[m] : y = v \/ y \in T[h[v].mid]
          BY <1>6, <4>1
        <4>3. v \in U /\ v \in T[m] /\ x \in U \ {NoNode} /\ v \in S[h[x].mid] \ {NoNode}
          BY <1>2, <1>7, <3>1, <4>1, <4>2
        <4>4. h[v].index > h[x].index
          BY <1>3, <4>3 DEF Deeper
        <4>5. y \in T[h[v].mid] => h[y].index > h[v].index /\ y \in U
          <5>1. y \in T[h[v].mid] => h[y].index > h[v].index
            BY <3>5, <4>1, <4>3
          <5>2. T[m] \subseteq U
            BY <1>5, <4>1
          <5> QED BY <4>1, <5>1, <5>2
        <4>6. h[v].index \in Int /\ h[x].index \in Int /\ (y \in U => h[y].index \in Int)
          BY <1>4, <4>3
        <4> QED BY <3>7, <4>2, <4>4, <4>5, <4>6
      <3> QED BY <3>6, <3>7
    <2> HIDE DEF W
    <2> QED BY <1>1, <2>1, NodeInduction
  <1>9. \A x \in U : \A y \in T[h[x].mid] : y \in U /\ h[y].index > h[x].index
    <2> SUFFICES ASSUME NEW x \in U, NEW y \in T[h[x].mid] PROVE y \in U /\ h[y].index > h[x].index
      OBVIOUS
    <2>1. x \in W /\ x \in T[x]
      BY <1>1, <1>8 DEF Bounded
    <2>2. h[x].mid \in U
      BY <1>1, <1>2
    <2> QED BY <1>5, <2>1, <2>2
  <1> HIDE DEF W
  <1>10. ASSUME NEW y \in T[h[0].mid]
         PROVE /\ h[y].index >= Taken /\ (V = {} => h[y].index >= 0) /\ (y \notin S[h[0].mid] => h[y].index >= 0)
    <2>1. h[0].mid \in U
      BY <1>1, <1>2, <1>10
    <2>2. PICK w \in S[h[0].mid] : y = w \/ y \in T[h[w].mid]
      BY <1>6, <1>10, <2>1
    <2>3. w \in U /\ w \in S[h[0].mid] \ {NoNode}
      BY <1>2, <1>7, <2>1, <2>2
    <2>4. h[w].index = IF V = {} THEN 0 ELSE Taken
      BY <1>3, <2>3 DEF First
    <2>5. y \in T[h[w].mid] => h[y].index > h[w].index /\ y \in U
      BY <1>9, <2>3
    <2>6. h[w].index \in Int /\ (y \in U => h[y].index \in Int)
      BY <1>4, <2>3
    <2>7. CASE y = w
      BY <2>2, <2>4, <2>6, <2>7 DEF Taken
    <2>8. CASE y \in T[h[w].mid]
      BY <2>4, <2>5, <2>6, <2>8 DEF Taken
    <2> QED BY <2>2, <2>7, <2>8
  <1> QED BY <1>9, <1>10 DEF IndexesAre

\* So of a level, no other node looks like a leaf that is taken out.
LEMMA UnmarkedIs ==
  ASSUME NEW h, NEW U, NEW T, NEW S, NEW V, Shape(h, U, T, S, NoNode), Keys(h, U, T, S, NoNode, V), U = T[h[0].mid], NEW lev \in U \cup {0},
         lev # 0 \/ V = {}
  PROVE  \A y \in S[h[lev].mid] : h[y].index # Taken
  <1>1. IndexesAre(h, U, T, S, V)
    BY IndexAbove
  <1>2. S[h[lev].mid] \subseteq T[h[lev].mid] /\ lev \in DOMAIN h /\ S[h[lev].mid] \subseteq U /\ U \subseteq DOMAIN h /\ IsHeap(h)
    <2>1. lev \in (U \cup {0}) \ {NoNode}
      BY NoHole
    <2> QED BY <2>1, MidIn DEF Shape, Loose, Wired
  <1> SUFFICES ASSUME NEW y \in S[h[lev].mid] PROVE h[y].index # Taken
    OBVIOUS
  <1>3. h[y].index \in Int /\ h[lev].index \in Int /\ y \in T[h[lev].mid] /\ y \in U
    BY <1>2, HeapFields
  <1>4. CASE lev # 0
    <2>1. h[y].index > h[lev].index /\ h[lev].index >= Taken
      BY <1>1, <1>3, <1>4 DEF IndexesAre
    <2> QED BY <1>3, <2>1 DEF Taken
  <1>5. CASE V = {}
    <2>1. h[y].index >= 0
      BY <1>1, <1>3, <1>5 DEF IndexesAre
    <2> QED BY <1>3, <2>1 DEF Taken
  <1> QED BY <1>4, <1>5

\* p is the one node with its key, in the level of lev.
Picked(h, U, T, S, b, V, lev, p) ==
  /\ Good(h, U, T, S, b, V) /\ lev \in U \cup {0} /\ p \in S[h[lev].mid] /\ h[p].mid = 0 /\ p \notin V
  /\ \A y \in Keyed(h, T, V, NoNode, 0) : h[y].item = h[p].item => y = p
LEMMA PickedFacts ==
  ASSUME NEW h, NEW U, NEW T, NEW S, NEW b, NEW V, NEW lev, NEW p, Picked(h, U, T, S, b, V, lev, p)
  PROVE  /\ Shape(h, U, T, S, NoNode) /\ Loose(h, U, T, S, NoNode) /\ Wired(h, U, NoNode) /\ Even(h, U, b) /\ Keys(h, U, T, S, NoNode, V)
         /\ Two(h, U, S, NoNode, 0) /\ U = T[h[0].mid] /\ lev \in U \cup {0} /\ p \in S[h[lev].mid] /\ h[p].mid = 0 /\ p \notin V
         /\ p \in U /\ p # 0 /\ lev # p /\ NoNode \notin U \cup {0} /\ 0 \notin U /\ NoNode \notin DOMAIN h /\ (\A x \in U \cup {0} : x \in DOMAIN h)
         /\ (\A x \in U \cup {0} : Mid(h, NoNode, x) = h[x].mid /\ h[x].mid \in U \cup {0}) /\ S[h[lev].mid] \subseteq U
  <1>1. /\ Good(h, U, T, S, b, V) /\ lev \in U \cup {0} /\ p \in S[h[lev].mid] /\ h[p].mid = 0 /\ p \notin V
    BY DEF Picked
  <1>2. Shape(h, U, T, S, NoNode) /\ Even(h, U, b) /\ Keys(h, U, T, S, NoNode, V) /\ Two(h, U, S, NoNode, 0) /\ U = T[h[0].mid]
    BY <1>1 DEF Good
  <1>3. Loose(h, U, T, S, NoNode) /\ Wired(h, U, NoNode) /\ S[0] = {}
    BY <1>2 DEF Shape, Loose, Levels
  <1>4. /\ NoNode \notin U \cup {0} /\ 0 \notin U /\ NoNode \notin DOMAIN h /\ (\A x \in U \cup {0} : x \in DOMAIN h)
        /\ (\A x \in U \cup {0} : Mid(h, NoNode, x) = h[x].mid /\ h[x].mid \in U \cup {0})
    BY <1>2, <1>3, NodeIn, NoHole
  <1>5. S[h[lev].mid] \subseteq U
    <2>1. h[lev].mid \in U
      BY <1>1, <1>3, <1>4
    <2> QED BY <1>3, <2>1, LevelIs
  <1>6. lev # p
    BY <1>1, <1>3
  <1>7. p \in U /\ p # 0
    BY <1>1, <1>4, <1>5
  <1> QED BY <1>1, <1>2, <1>3, <1>4, <1>5, <1>6, <1>7

LEMMA AloneShape ==
  ASSUME NEW h, NEW U, NEW T, NEW S, NEW b, NEW V, NEW lev, NEW p, Picked(h, U, T, S, b, V, lev, p), NEW g, Marked(g, h, p)
  PROVE  Shape(g, U, T, S, p)
  <1>1. /\ Shape(h, U, T, S, NoNode) /\ Loose(h, U, T, S, NoNode) /\ Wired(h, U, NoNode)
        /\ p \in U /\ p # 0 /\ 0 \notin U /\ (\A x \in U \cup {0} : x \in DOMAIN h) /\ h[p].mid = 0
        /\ (\A x \in U \cup {0} : Mid(h, NoNode, x) = h[x].mid /\ h[x].mid \in U \cup {0}) /\ NoNode \notin U \cup {0}
    BY PickedFacts
  <1>2. /\ IsHeap(g) /\ DOMAIN g = DOMAIN h
        /\ \A y \in DOMAIN h : /\ g[y].color = h[y].color /\ g[y].parent = h[y].parent /\ g[y].cbyte = h[y].cbyte /\ g[y].item = h[y].item
                               /\ g[y]["left"] = h[y]["left"] /\ g[y]["mid"] = h[y]["mid"] /\ g[y]["right"] = h[y]["right"]
    BY DEF Marked, Sides
  <1>3. \A x \in U \cup {0} : Mid(g, p, x) = Mid(h, NoNode, x)
    <2> TAKE x \in U \cup {0}
    <2>1. Mid(h, NoNode, x) = h[x].mid /\ g[x].mid = h[x].mid
      BY <1>1, <1>2
    <2> QED BY <1>1, <2>1 DEF Mid
  <1>4. \A x \in U \cup {0}, s \in Sides : Son(g, p, x, s) = Son(h, NoNode, x, s)
    BY <1>1, <1>2, <1>3 DEF Son, Sides
  <1>5. \A x \in U \cup {0}, s \in Around : g[x][s] = h[x][s] /\ Son(h, NoNode, x, s) = h[x][s] /\ h[x][s] \in U \cup {0}
    <2>1. \A x \in U \cup {0}, s \in Around : g[x][s] = h[x][s]
      BY <1>1, <1>2 DEF Around
    <2>2. \A x \in U \cup {0}, s \in Around : Son(h, NoNode, x, s) = h[x][s] /\ s \in Sides
      BY DEF Son, Around, Sides
    <2> QED BY <1>1, <2>1, <2>2 DEF Wired
  <1>6. Wired(g, U, p)
    <2>1. /\ IsFiniteSet(DOMAIN g) /\ NoNode \notin DOMAIN g /\ U \subseteq DOMAIN g \ {0}
          /\ g[0]["left"] = 0 /\ g[0]["right"] = 0 /\ g[0].color = BLACK
      BY <1>1, <1>2 DEF Wired
    <2>2. \A x \in U \cup {0}, s \in Sides : Son(g, p, x, s) \in U \cup {0}
      BY <1>1, <1>4 DEF Wired
    <2>3. \A x \in U, s \in Around : g[x][s] # 0 => g[g[x][s]].parent = x
      <3>1. \A x \in U, s \in Around : h[x][s] # 0 => h[h[x][s]].parent = x
        BY <1>1 DEF Wired
      <3> QED BY <1>1, <1>2, <1>5, <3>1
    <2>4. \A x \in U : g[x]["left"] = g[x]["right"] => g[x]["left"] = 0
      <3>1. \A x \in U : h[x]["left"] = h[x]["right"] => h[x]["left"] = 0
        BY <1>1 DEF Wired
      <3> QED BY <1>1, <1>2, <3>1
    <2>5. \A x \in U \cup {0} : Mid(g, p, x) # 0 => g[Mid(g, p, x)].parent = 0
      <3>1. \A x \in U \cup {0} : Mid(h, NoNode, x) # 0 => h[Mid(h, NoNode, x)].parent = 0
        BY <1>1 DEF Wired
      <3>2. \A x \in U \cup {0} : Mid(h, NoNode, x) \in DOMAIN h
        BY <1>1
      <3> QED BY <1>2, <1>3, <3>1, <3>2
    <2>6. \A x, y \in U \cup {0} : Mid(g, p, x) = Mid(g, p, y) /\ Mid(g, p, x) # 0 => x = y
      BY <1>1, <1>3 DEF Wired
    <2> QED BY <1>2, <2>1, <2>2, <2>3, <2>4, <2>5, <2>6 DEF Wired
  <1>7. Bounded(g, U, T, p)
    <2>1. Bounded(h, U, T, NoNode)
      BY <1>1 DEF Loose
    <2> QED BY <1>2, <1>4, <2>1 DEF Bounded
  <1>8. Levels(g, U, S)
    <2>1. Levels(h, U, S)
      BY <1>1 DEF Loose
    <2> QED BY <1>1, <1>2, <2>1 DEF Levels
  <1>9. Sorted(g, U, S, p)
    <2>1. Sorted(h, U, S, NoNode) /\ Levels(h, U, S)
      BY <1>1 DEF Loose
    <2>2. \A x \in U : S[h[x]["left"]] \subseteq DOMAIN h /\ S[h[x]["right"]] \subseteq DOMAIN h /\ NoNode \notin DOMAIN h
      <3>1. \A x \in U : h[x]["left"] \in DOMAIN h /\ h[x]["right"] \in DOMAIN h
        BY <1>1, <1>5 DEF Around
      <3> QED BY <1>1, <2>1, <3>1 DEF Levels, Wired
    <2>3. ASSUME NEW x \in U \ {p}, NEW y \in S[g[x]["left"]] \ {p} PROVE g[y].cbyte < g[x].cbyte
      <3>1. g[x]["left"] = h[x]["left"] /\ g[x].cbyte = h[x].cbyte /\ x \in U \ {NoNode}
        BY <1>1, <1>2
      <3>2. y \in DOMAIN h /\ y \in S[h[x]["left"]] \ {NoNode}
        BY <2>2, <2>3, <3>1
      <3>3. h[y].cbyte < h[x].cbyte
        BY <2>1, <3>1, <3>2 DEF Sorted
      <3> QED BY <1>2, <3>1, <3>2, <3>3
    <2>4. ASSUME NEW x \in U \ {p}, NEW y \in S[g[x]["right"]] \ {p} PROVE g[y].cbyte > g[x].cbyte
      <3>1. g[x]["right"] = h[x]["right"] /\ g[x].cbyte = h[x].cbyte /\ x \in U \ {NoNode}
        BY <1>1, <1>2
      <3>2. y \in DOMAIN h /\ y \in S[h[x]["right"]] \ {NoNode}
        BY <2>2, <2>4, <3>1
      <3>3. h[y].cbyte > h[x].cbyte
        BY <2>1, <3>1, <3>2 DEF Sorted
      <3> QED BY <1>2, <3>1, <3>2, <3>3
    <2> QED BY <2>3, <2>4 DEF Sorted
  <1>10. Exact(g, U, T, p)
    <2>1. Exact(h, U, T, NoNode)
      BY <1>1 DEF Shape
    <2>2. \A x \in U : T[x] = {x} \cup T[g[x]["left"]] \cup T[Mid(g, p, x)] \cup T[g[x]["right"]]
      BY <1>1, <1>2, <1>3, <2>1 DEF Exact
    <2>3. \A x \in U : \A s, q \in Sides : s # q => T[Son(g, p, x, s)] \cap T[Son(g, p, x, q)] = {}
      BY <1>4, <2>1 DEF Exact
    <2> QED BY <2>2, <2>3 DEF Exact
  <1> QED BY <1>6, <1>7, <1>8, <1>9, <1>10 DEF Shape, Loose

LEMMA AloneKeys ==
  ASSUME NEW h, NEW U, NEW T, NEW S, NEW b, NEW V, NEW lev, NEW p, Picked(h, U, T, S, b, V, lev, p), NEW g, Marked(g, h, p)
  PROVE  Keys(g, U, T, S, p, V) /\ KeysOf(g, T, V, p) = KeysOf(h, T, V, NoNode) \ {h[p].item}
  <1>1. /\ Shape(h, U, T, S, NoNode) /\ Keys(h, U, T, S, NoNode, V) /\ U = T[h[0].mid] /\ h[p].mid = 0 /\ p \notin V
        /\ p \in U /\ p # 0 /\ NoNode \notin U \cup {0} /\ 0 \notin U /\ (\A x \in U \cup {0} : x \in DOMAIN h)
    BY PickedFacts
  <1>2. /\ DOMAIN g = DOMAIN h
        /\ \A y \in DOMAIN h : g[y].cbyte = h[y].cbyte /\ g[y].item = h[y].item /\ g[y].mid = h[y].mid /\ (y # p => g[y].index = h[y].index)
    <2>1. \A y \in DOMAIN h : g[y]["mid"] = h[y]["mid"]
      BY DEF Marked, Sides
    <2> QED BY <2>1 DEF Marked
  <1>3. /\ Aligned(h, U, S, NoNode) /\ Deeper(h, U, S, NoNode) /\ First(h, S, NoNode, V) /\ Items(h, U, NoNode)
        /\ Spelled(h, U, T, NoNode, V) /\ Agreeing(h, U, T, S, NoNode, V) /\ Left(h, S, NoNode, V)
    BY <1>1 DEF Keys
  <1>4. \A x \in U \cup {0} : T[h[x].mid] \subseteq U /\ S[h[x].mid] \subseteq U /\ x \in (U \cup {0}) \ {NoNode}
    <2>1. \A x \in U \cup {0} : x \in (U \cup {0}) \ {NoNode}
      BY <1>1
    <2> QED BY <1>1, <2>1, MidIn
  <1>5. \A x \in U \cup {0} : g[x].mid = h[x].mid /\ g[x].cbyte = h[x].cbyte /\ g[x].item = h[x].item /\ (x # p => g[x].index = h[x].index)
    BY <1>1, <1>2
  <1>6. \A x \in U \cup {0} : Keyed(g, T, V, p, x) = Keyed(h, T, V, NoNode, x) \ {p} /\ Keyed(h, T, V, NoNode, x) \subseteq U
    <2> TAKE x \in U \cup {0}
    <2>1. T[g[x].mid] = T[h[x].mid] /\ T[h[x].mid] \subseteq U
      BY <1>4, <1>5
    <2>2. \A y \in T[h[x].mid] : g[y].mid = h[y].mid /\ y # NoNode
      BY <1>1, <1>5, <2>1
    <2> QED BY <2>1, <2>2 DEF Keyed
  <1>7. Aligned(g, U, S, p)
    <2> SUFFICES ASSUME NEW o \in (U \cup {0}) \ {p}, NEW y \in S[g[o].mid] \ {p}, NEW z \in S[g[o].mid] \ {p} PROVE g[y].index = g[z].index
      BY DEF Aligned
    <2>1. y \in S[h[o].mid] \ {NoNode} /\ z \in S[h[o].mid] \ {NoNode} /\ y \in U /\ z \in U /\ o \in (U \cup {0}) \ {NoNode}
      BY <1>1, <1>4, <1>5
    <2>2. h[y].index = h[z].index
      BY <1>3, <2>1 DEF Aligned
    <2> QED BY <1>5, <2>1, <2>2
  <1>8. Deeper(g, U, S, p)
    <2> SUFFICES ASSUME NEW o \in U \ {p}, NEW y \in S[g[o].mid] \ {p} PROVE g[y].index > g[o].index
      BY DEF Deeper
    <2>1. y \in S[h[o].mid] \ {NoNode} /\ y \in U /\ o \in U \ {NoNode}
      BY <1>1, <1>4, <1>5
    <2>2. h[y].index > h[o].index
      BY <1>3, <2>1 DEF Deeper
    <2> QED BY <1>5, <2>1, <2>2
  <1>9. First(g, S, p, V)
    <2> SUFFICES ASSUME NEW y \in S[g[0].mid] \ {p} PROVE g[y].index = IF V = {} THEN 0 ELSE Taken
      BY DEF First
    <2>1. y \in S[h[0].mid] \ {NoNode} /\ y \in U
      BY <1>1, <1>4, <1>5
    <2> QED BY <1>3, <1>5, <2>1 DEF First
  <1>10. Items(g, U, p)
    <2> SUFFICES ASSUME NEW x \in U \ {p} PROVE IF g[x].mid = 0 THEN Text(g[x].item) ELSE g[x].item = NoKey
      BY DEF Items
    <2>1. x \in U \ {NoNode}
      BY <1>1
    <2> QED BY <1>3, <1>5, <2>1 DEF Items
  <1>11. Spelled(g, U, T, p, V)
    <2> SUFFICES ASSUME NEW x \in U \ {p}
                 PROVE /\ \A y \in Keyed(g, T, V, p, x) : Byte(g[y].item, g[x].index) = g[x].cbyte
                       /\ g[x].mid = 0 /\ x \notin V => Byte(g[x].item, g[x].index) = g[x].cbyte
      BY DEF Spelled
    <2>1. x \in U \ {NoNode} /\ g[x].mid = h[x].mid /\ g[x].cbyte = h[x].cbyte /\ g[x].item = h[x].item /\ g[x].index = h[x].index
      BY <1>1, <1>5
    <2>2. /\ \A y \in Keyed(h, T, V, NoNode, x) : Byte(h[y].item, h[x].index) = h[x].cbyte
          /\ h[x].mid = 0 /\ x \notin V => Byte(h[x].item, h[x].index) = h[x].cbyte
      BY <1>3, <2>1 DEF Spelled
    <2>3. \A y \in Keyed(g, T, V, p, x) : y \in Keyed(h, T, V, NoNode, x) /\ g[y].item = h[y].item
      BY <1>5, <1>6
    <2> QED BY <2>1, <2>2, <2>3
  <1>12. Agreeing(g, U, T, S, p, V)
    <2> SUFFICES ASSUME NEW o \in U \ {p}, NEW y \in Keyed(g, T, V, p, o), NEW z \in Keyed(g, T, V, p, o), NEW r \in S[g[o].mid] \ {p},
                        NEW j \in Int, 0 <= j, j < g[r].index
                 PROVE Byte(g[y].item, j) = Byte(g[z].item, j)
      BY DEF Agreeing
    <2>1. y \in Keyed(h, T, V, NoNode, o) /\ g[y].item = h[y].item /\ z \in Keyed(h, T, V, NoNode, o) /\ g[z].item = h[z].item
      BY <1>5, <1>6
    <2>2. r \in S[h[o].mid] \ {NoNode} /\ r \in U /\ o \in U \ {NoNode}
      BY <1>1, <1>4, <1>5
    <2>3. j < h[r].index
      BY <1>5, <2>2
    <2>4. Byte(h[y].item, j) = Byte(h[z].item, j)
      BY <1>3, <2>1, <2>2, <2>3 DEF Agreeing
    <2> QED BY <2>1, <2>4
  <1>13. Left(g, S, p, V)
    <2> SUFFICES ASSUME V # {} PROVE Left(g, S, p, V)
      BY DEF Left
    <2>1. PICK v : /\ V = {v} /\ v \in S[h[0].mid] \ {NoNode} /\ h[v].mid = 0 /\ h[v].cbyte # 0
                   /\ \A y \in S[h[0].mid] \ {NoNode} : y = v \/ h[y].cbyte = 0
      BY <1>3 DEF Left
    <2>2. g[0].mid = h[0].mid /\ S[h[0].mid] \subseteq U
      BY <1>4, <1>5
    <2>3. \A y \in S[h[0].mid] : g[y].mid = h[y].mid /\ g[y].cbyte = h[y].cbyte /\ y # NoNode
      BY <1>1, <1>5, <2>2
    <2>4. \A y \in S[g[0].mid] \ {p} : y = v \/ g[y].cbyte = 0
      BY <2>1, <2>2, <2>3
    <2>5. v \in S[g[0].mid] \ {p} /\ g[v].mid = 0 /\ g[v].cbyte # 0
      BY <1>1, <2>1, <2>2, <2>3
    <2> QED BY <2>1, <2>4, <2>5 DEF Left
  <1>14. Keys(g, U, T, S, p, V)
    BY <1>7, <1>8, <1>9, <1>10, <1>11, <1>12, <1>13 DEF Keys
  <1>15. KeysOf(g, T, V, p) = KeysOf(h, T, V, NoNode) \ {h[p].item}
    <2>1. \A y \in Keyed(h, T, V, NoNode, 0) : h[y].item = h[p].item => y = p
      BY DEF Picked
    <2>2. \A y \in Keyed(h, T, V, NoNode, 0) : g[y].item = h[y].item
      BY <1>5, <1>6
    <2>3. Keyed(g, T, V, p, 0) = Keyed(h, T, V, NoNode, 0) \ {p}
      BY <1>6
    <2> QED BY <2>1, <2>2, <2>3 DEF KeysOf
  <1> QED BY <1>14, <1>15

LEMMA AloneTwo ==
  ASSUME NEW h, NEW U, NEW T, NEW S, NEW b, NEW V, NEW lev, NEW p, Picked(h, U, T, S, b, V, lev, p), NEW g, Marked(g, h, p)
  PROVE  Two(g, U, S, p, lev) /\ g[lev].mid = h[lev].mid /\ (lev # 0 => S[g[lev].mid] \ {p} # {}) /\ g[0].mid = h[0].mid
  <1>1. /\ Shape(h, U, T, S, NoNode) /\ Two(h, U, S, NoNode, 0) /\ lev \in U \cup {0} /\ p \in S[h[lev].mid]
        /\ p \in U /\ p # 0 /\ NoNode \notin U \cup {0} /\ 0 \notin U /\ (\A x \in U \cup {0} : x \in DOMAIN h)
        /\ (\A x \in U \cup {0} : Mid(h, NoNode, x) = h[x].mid) /\ S[0] = {}
    BY PickedFacts DEF Loose, Levels
  <1>2. \A x \in U \cup {0} : g[x].mid = h[x].mid
    <2>1. \A y \in DOMAIN h : g[y]["mid"] = h[y]["mid"]
      BY DEF Marked, Sides
    <2> QED BY <1>1, <2>1
  <1>3. Two(g, U, S, p, lev)
    <2> SUFFICES ASSUME NEW x \in U \ {p}, g[x].mid # 0, x # lev PROVE \E y, z \in S[g[x].mid] \ {p} : y # z
      BY DEF Two
    <2>1. \E y, z \in S[h[x].mid] \ {NoNode} : y # z
      BY <1>1, <1>2 DEF Two
    <2>2. p \notin S[h[x].mid]
      <3> SUFFICES ASSUME p \in S[h[x].mid] PROVE FALSE
        OBVIOUS
      <3>1. p \in S[Mid(h, NoNode, x)] /\ p \in S[Mid(h, NoNode, lev)] /\ x \in U \cup {0}
        BY <1>1
      <3>2. x = lev
        BY <1>1, <3>1, OneLevel
      <3> QED BY <3>2
    <2> QED BY <1>2, <2>1, <2>2
  <1>4. lev # 0 => S[g[lev].mid] \ {p} # {}
    <2> SUFFICES ASSUME lev # 0 PROVE S[g[lev].mid] \ {p} # {}
      OBVIOUS
    <2>1. lev \in U \ {NoNode} /\ h[lev].mid # 0
      BY <1>1
    <2>2. \E y, z \in S[h[lev].mid] \ {NoNode} : y # z
      BY <1>1, <2>1 DEF Two
    <2> QED BY <1>1, <1>2, <2>2
  <1> QED BY <1>1, <1>2, <1>3, <1>4

LEMMA AloneLeaving ==
  ASSUME NEW h, NEW U, NEW T, NEW S, NEW b, NEW V, NEW lev, NEW p, Picked(h, U, T, S, b, V, lev, p), NEW g, Marked(g, h, p)
  PROVE  Leaving(g, U, T, S, b, p, lev) /\ Parting(g, U, T, S, p, lev, V)
  <1>1. /\ Shape(h, U, T, S, NoNode) /\ Wired(h, U, NoNode) /\ lev \in U \cup {0} /\ p \in S[h[lev].mid] /\ Even(h, U, b) /\ lev # p
        /\ p \in U /\ p # 0 /\ NoNode \notin U \cup {0} /\ 0 \notin U /\ (\A x \in U \cup {0} : x \in DOMAIN h)
        /\ (\A x \in U \cup {0} : Mid(h, NoNode, x) = h[x].mid /\ h[x].mid \in U \cup {0}) /\ h[p].mid = 0 /\ U = T[h[0].mid]
    BY PickedFacts
  <1>2. Shape(g, U, T, S, p)
    BY AloneShape
  <1>3. /\ Two(g, U, S, p, lev) /\ g[lev].mid = h[lev].mid /\ (lev # 0 => S[g[lev].mid] \ {p} # {}) /\ g[0].mid = h[0].mid
    BY AloneTwo
  <1>4. Keys(g, U, T, S, p, V)
    BY AloneKeys
  <1>5. /\ DOMAIN g = DOMAIN h /\ \A y \in DOMAIN h : g[y].color = h[y].color /\ \A s \in Sides : g[y][s] = h[y][s]
    BY DEF Marked
  <1>6. Counts(h, U, b, NoNode, NoNode, 0) /\ Reds(h, U, NoNode, NoNode)
    BY <1>1 DEF Even
  <1>7. \A x \in U, s \in Around : g[x][s] = h[x][s]
    BY <1>1, <1>5 DEF Around, Sides
  <1>8. Counts(g, U, b, NoNode, NoNode, 0)
    <2>1. \A x \in U \ {NoNode}, s \in Around : b[x] = Seen(b, NoNode, 0, h[x][s]) + Blk(h, x)
      BY <1>6 DEF Counts
    <2>2. \A x \in U \ {NoNode} : Blk(g, x) = Blk(h, x)
      BY <1>1, <1>5 DEF Blk
    <2>4. \A x \in U \ {NoNode}, s \in Around : b[x] = Seen(b, NoNode, 0, g[x][s]) + Blk(g, x)
      BY <1>7, <2>1, <2>2
    <2> QED BY <1>5, <1>6, <2>4 DEF Counts
  <1>9. Reds(g, U, p, NoNode)
    <2>1. ASSUME NEW x \in U \ {NoNode}, NEW s \in Around, g[x].color = RED, g[x][s] # NoNode PROVE g[g[x][s]].color = BLACK
      <3>1. g[x][s] = h[x][s] /\ h[x].color = RED /\ h[x][s] \in DOMAIN h
        BY <1>1, <1>5, <1>7, <2>1, AroundIn
      <3>2. h[h[x][s]].color = BLACK
        BY <1>6, <2>1, <3>1 DEF Reds
      <3> QED BY <1>5, <3>1, <3>2
    <2>2. ASSUME NEW x \in U \cup {0}, Mid(g, p, x) \notin {0, NoNode} PROVE g[Mid(g, p, x)].color = BLACK
      <3>1. Mid(g, p, x) = Mid(h, NoNode, x)
        <4>1. g[x]["mid"] = h[x]["mid"] /\ x # p
          BY <1>1, <1>5, <2>2 DEF Mid, Sides
        <4>2. Mid(g, p, x) = g[x].mid
          BY <4>1 DEF Mid
        <4> QED BY <1>1, <4>1, <4>2
      <3>2. h[Mid(h, NoNode, x)].color = BLACK
        BY <1>6, <2>2, <3>1 DEF Reds
      <3>3. Mid(h, NoNode, x) \in DOMAIN h
        BY <1>1
      <3> QED BY <1>5, <3>1, <3>2, <3>3
    <2> QED BY <2>1, <2>2 DEF Reds
  <1>10. Leaving(g, U, T, S, b, p, lev)
    BY <1>1, <1>2, <1>3, <1>8, <1>9 DEF Leaving
  <1>11. Parting(g, U, T, S, p, lev, V)
    BY <1>1, <1>2, <1>3, <1>4 DEF Parting
  <1> QED BY <1>10, <1>11

LEMMA UnlinkIs ==
  ASSUME NEW t, NEW p, NEW lev,
         NEW del, del = (IF t.h[p].left # 0 /\ t.h[p].right # 0 THEN TreeMin(t.h, t.h[p].right) ELSE p),
         NEW only, only = (IF t.h[del].left # 0 THEN t.h[del].left ELSE t.h[del].right),
         NEW out, out = [t EXCEPT !.h = InPlaceOf(TakeOut(t.h, lev, del, only), del, p)]
  PROVE  Unlink(t, p, lev) =
           Collapse(GiveBack(IF out.h[del].color = BLACK THEN DelFixup(out, lev, IF only # 0 THEN only ELSE del) ELSE out, lev, del, only = 0), lev)
  BY DEF Unlink

\* Whatever son d has, it is taken out.
LEMMA OutAny ==
  ASSUME NEW g, NEW U, NEW T, NEW S, NEW b, NEW d, NEW lev, Leaving(g, U, T, S, b, d, lev),
         NEW N, N = DOMAIN g, NEW idle \in Seq(N), NEW cost \in Int, NEW t, NEW k, NEW out, out = Rec(t, k, idle, cost),
         NEW only, only = (IF g[d]["left"] # 0 THEN g[d]["left"] ELSE g[d]["right"]),
         g[d]["left"] = 0 \/ g[d]["right"] = 0,
         only # 0 => Bypassed(k, g, lev, d, only),
         only = 0 => k = g /\ d # g[lev].mid /\ (g[d].color = BLACK => g[d].index = Taken /\ Unmarked(g, S, lev, d))
  PROVE  OneLess(g, U, T, S, d, lev, t, idle, cost,
                 GiveBack(IF k[d].color = BLACK THEN DelFixup(out, lev, IF only # 0 THEN only ELSE d) ELSE out, lev, d, only = 0))
  <1>1. CASE only # 0
    <2>1. PICK s \in Around : only = g[d][s] /\ g[d][Other(s)] = 0
      <3>1. CASE g[d]["left"] # 0
        <4>1. "left" \in Around /\ only = g[d]["left"] /\ g[d][Other("left")] = 0
          BY <3>1 DEF Around, Other
        <4> QED BY <4>1
      <3>2. CASE g[d]["left"] = 0
        <4>1. "right" \in Around /\ only = g[d]["right"] /\ g[d][Other("right")] = 0
          BY <3>2 DEF Around, Other
        <4> QED BY <4>1
      <3> QED BY <3>1, <3>2
    <2>2. OneSon(g, U, T, S, d, lev, s, only)
      BY <1>1, <2>1 DEF OneSon, Leaving
    <2>3. Bypassed(k, g, lev, d, only)
      BY <1>1
    <2>4. OneLess(g, U, T, S, d, lev, t, idle, cost, GiveBack(DelFixup(out, lev, only), lev, d, FALSE))
      BY <2>2, <2>3, OutBypass
    <2>5. k[d].color = BLACK
      <3>1. PICK R, Q : R = Less(T, d) /\ Q = Less(S, d)
        OBVIOUS
      <3>2. g[d].color = BLACK /\ k[only].color = RED /\ Deleting(k, U \ {d}, R, Q, b, NoNode, lev, only)
        BY <2>2, <2>3, <3>1, BypassCounts
      <3>3. d \in DOMAIN g
        BY LeavingFacts
      <3> QED BY <2>3, <3>2, <3>3 DEF Bypassed
    <2>6. GiveBack(IF k[d].color = BLACK THEN DelFixup(out, lev, IF only # 0 THEN only ELSE d) ELSE out, lev, d, only = 0)
            = GiveBack(DelFixup(out, lev, only), lev, d, FALSE)
      BY <1>1, <2>5
    <2> QED BY <2>4, <2>6
  <1>2. CASE only = 0
    <2>1. k = g /\ LeafOut(g, d, lev)
      BY <1>2 DEF LeafOut
    <2>2. CASE g[d].color = BLACK
      <3>1. g[d].index = Taken /\ Unmarked(g, S, lev, d)
        BY <1>2, <2>2
      <3>2. out = Rec(t, g, idle, cost)
        BY <2>1
      <3>3. OneLess(g, U, T, S, d, lev, t, idle, cost, GiveBack(DelFixup(out, lev, d), lev, d, TRUE))
        BY <2>1, <2>2, <3>1, <3>2, OutBlack
      <3>4. GiveBack(IF k[d].color = BLACK THEN DelFixup(out, lev, IF only # 0 THEN only ELSE d) ELSE out, lev, d, only = 0)
            = GiveBack(DelFixup(out, lev, d), lev, d, TRUE)
        BY <1>2, <2>1, <2>2
      <3> QED BY <3>3, <3>4
    <2>3. CASE g[d].color # BLACK
      <3>1. g[d].color = RED
        <4>1. d \in U /\ \A x \in U, s \in Around : x \in DOMAIN g /\ (g[x].color = RED \/ g[x].color = BLACK)
          BY LeavingFacts
        <4>2. "left" \in Around
          BY DEF Around
        <4> QED BY <2>3, <4>1, <4>2
      <3>2. out = Rec(t, g, idle, cost)
        BY <2>1
      <3>3. OneLess(g, U, T, S, d, lev, t, idle, cost, GiveBack(out, lev, d, TRUE))
        BY <2>1, <3>1, <3>2, OutRed
      <3>4. GiveBack(IF k[d].color = BLACK THEN DelFixup(out, lev, IF only # 0 THEN only ELSE d) ELSE out, lev, d, only = 0)
            = GiveBack(out, lev, d, TRUE)
        BY <1>2, <2>1, <2>3
      <3> QED BY <3>3, <3>4
    <2> QED BY <2>2, <2>3
  <1> QED BY <1>1, <1>2

\* Where one node of a tree without keys is left, another leaf is red.
LEMMA LeftLeaf ==
  ASSUME NEW h, NEW U, NEW T, NEW S, NEW b, NEW V, NEW p, Picked(h, U, T, S, b, V, 0, p), V # {},
         h[p]["left"] = 0, h[p]["right"] = 0, p # h[0].mid
  PROVE  h[p].color = RED
  <1>1. /\ Shape(h, U, T, S, NoNode) /\ Loose(h, U, T, S, NoNode) /\ Even(h, U, b) /\ Keys(h, U, T, S, NoNode, V)
        /\ p \in S[h[0].mid] /\ p \notin V /\ S[h[0].mid] \subseteq U /\ Wired(h, U, NoNode)
        /\ p \in U /\ p # 0 /\ NoNode \notin U \cup {0} /\ 0 \notin U /\ NoNode \notin DOMAIN h /\ (\A x \in U \cup {0} : x \in DOMAIN h)
        /\ h[0].mid \in U \cup {0}
    BY PickedFacts
  <1>2. PICK v : /\ V = {v} /\ v \in S[h[0].mid] /\ h[v].cbyte # 0 /\ \A y \in S[h[0].mid] \ {NoNode} : y = v \/ h[y].cbyte = 0
    BY <1>1 DEF Keys, Left
  <1>3. PICK z : z = h[0].mid /\ z \in U
    <2>1. S[0] = {}
      BY <1>1 DEF Loose, Levels
    <2> QED BY <1>1, <2>1
  <1>4. PICK q, s : q = h[p].parent /\ s = Hangs(h, p)
    OBVIOUS
  <1>5. q \in S[z] /\ q \in U /\ s \in Around /\ h[q][s] = p
    BY <1>1, <1>3, <1>4, ParentInLevel
  <1>6. \A y \in S[z] : y = v \/ h[y].cbyte = 0
    BY <1>1, <1>2, <1>3
  <1>7. h[p].cbyte = 0 /\ p # v
    BY <1>1, <1>2, <1>3, <1>6
  <1>8. \A x \in U, r \in Around : \A y \in S[h[x][r]] : Ahead(r, h[y].cbyte, h[x].cbyte)
    <2>1. Sorted(h, U, S, NoNode) /\ Levels(h, U, S)
      BY <1>1 DEF Loose
    <2>2. \A x \in U \ {NoNode}, r \in Around : \A y \in S[h[x][r]] \ {NoNode} : Ahead(r, h[y].cbyte, h[x].cbyte)
      BY <2>1, SortedIs
    <2>3. \A x \in U, r \in Around : S[h[x][r]] \subseteq DOMAIN h
      <3>1. \A x \in U, r \in Around : h[x][r] \in DOMAIN h
        BY <1>1, AroundIn
      <3> QED BY <2>1, <3>1 DEF Levels
    <2> QED BY <1>1, <2>2, <2>3
  <1>9. p \in S[p] /\ \A y \in U : y \in S[y]
    BY <1>1, LevelIs
  <1>10. h[p].cbyte \in Int /\ h[q].cbyte \in Int /\ Ahead(s, h[p].cbyte, h[q].cbyte)
    <2>1. p \in DOMAIN h /\ q \in DOMAIN h /\ IsHeap(h)
      BY <1>1, <1>5 DEF Wired
    <2> QED BY <1>5, <1>8, <1>9, <2>1, HeapFields
  <1>11. q = v
    <2> SUFFICES ASSUME q # v PROVE FALSE
      OBVIOUS
    <2>1. h[q].cbyte = 0
      BY <1>5, <1>6
    <2>2. ~Ahead(s, 0, 0)
      BY <1>5 DEF Ahead
    <2> QED BY <1>7, <1>10, <2>1, <2>2
  <1>12. h[q][Other(s)] = 0
    <2> SUFFICES ASSUME h[q][Other(s)] # 0 PROVE FALSE
      OBVIOUS
    <2>1. PICK r, o : r = Other(s) /\ o = h[q][r] /\ r \in Around
      BY <1>5, OtherIs
    <2>2. o \in U /\ o # q
      BY <1>1, <1>5, <2>1, HangsIs
    <2>3. o \in S[z]
      <3>1. S[q] = {q} \cup S[h[q]["left"]] \cup S[h[q]["right"]]
        BY <1>1, <1>5 DEF Loose, Levels
      <3>2. o \in S[q]
        BY <1>9, <2>1, <2>2, <3>1 DEF Around
      <3>3. S[q] \subseteq S[z]
        BY <1>1, <1>3, <1>5, LevelIs
      <3> QED BY <3>2, <3>3
    <2>4. h[o].cbyte = 0
      BY <1>6, <1>11, <2>2, <2>3
    <2>5. Ahead(r, h[o].cbyte, h[q].cbyte)
      BY <1>5, <1>8, <1>9, <2>1, <2>2
    <2>6. Ahead(s, 0, h[q].cbyte) /\ Ahead(Other(s), 0, h[q].cbyte)
      BY <1>7, <1>10, <2>1, <2>4, <2>5
    <2> QED BY <1>5, <1>10, <2>6, AheadIs
  <1>13. Counts(h, U, b, NoNode, NoNode, 0)
    BY <1>1 DEF Even
  <1>14. b \in [DOMAIN h -> Nat] /\ b[0] = 0 /\ \A x \in U, r \in Around : b[x] = b[h[x][r]] + Blk(h, x)
    <2>1. b \in [DOMAIN h -> Nat] /\ b[0] = 0 /\ \A x \in U \ {NoNode}, r \in Around : b[x] = Seen(b, NoNode, 0, h[x][r]) + Blk(h, x)
      BY <1>13 DEF Counts
    <2>2. \A x \in U, r \in Around : h[x][r] # NoNode
      BY <1>1, AroundIn
    <2> QED BY <1>1, <2>1, <2>2 DEF Seen
  <1>15. b[q] = b[p] + Blk(h, q) /\ b[q] = 0 + Blk(h, q) /\ b[p] = 0 + Blk(h, p)
    <2>1. Other(s) \in Around /\ "left" \in Around
      BY <1>5, OtherIs DEF Around
    <2> QED BY <1>1, <1>5, <1>12, <1>14, <2>1
  <1>16. b[p] \in Nat /\ Blk(h, q) \in Nat /\ Blk(h, p) \in Nat
    BY <1>1, <1>14 DEF Blk
  <1>17. Blk(h, p) = 0
    BY <1>15, <1>16
  <1>18. h[p].color \in {BLACK, RED}
    BY <1>1, HeapFields DEF Wired
  <1> QED BY <1>17, <1>18 DEF Blk

\* The next greater node is carried to p, and leaves.
LEMMA CarryReady ==
  ASSUME NEW h, NEW U, NEW T, NEW S, NEW b, NEW V, NEW lev, NEW p, Picked(h, U, T, S, b, V, lev, p),
         NEW del, CarryPlace(h, U, T, S, lev, p, del), NEW g, Carried(g, h, del, p), NEW R, R = CarryT(T, h, del, p)
  PROVE  /\ Leaving(g, U, R, S, b, del, lev) /\ Parting(g, U, R, S, del, lev, V)
         /\ KeysOf(g, R, V, del) = KeysOf(h, T, V, NoNode) \ {h[p].item} /\ g[lev].mid = h[lev].mid /\ (lev # 0 \/ V = {})
  <1>1. /\ Shape(h, U, T, S, NoNode) /\ Loose(h, U, T, S, NoNode) /\ Even(h, U, b) /\ Keys(h, U, T, S, NoNode, V) /\ lev \in U \cup {0} /\ p \in S[h[lev].mid]
        /\ Two(h, U, S, NoNode, 0) /\ U = T[h[0].mid] /\ p \notin V /\ p \in U /\ lev # p /\ 0 \notin U /\ (\A x \in U \cup {0} : x \in DOMAIN h)
    BY PickedFacts
  <1>2. Shape(g, U, R, S, del)
    BY CarryShape
  <1>3. Counts(g, U, b, NoNode, NoNode, 0) /\ Reds(g, U, del, NoNode)
    BY <1>1, CarryEven
  <1>4. CarryKeysAre(g, h, U, T, S, R, V, lev, p, del)
    BY <1>1, CarryKeys
  <1>5. Left(h, S, NoNode, V)
    BY <1>1 DEF Keys
  <1>6. del \notin V /\ (V # {} => del \notin S[h[0].mid] /\ p \notin S[h[0].mid]) /\ lev # del /\ del \in S[h[lev].mid] /\ p \in S[h[lev].mid]
    BY <1>1, <1>5, CarryLeft
  <1>7. g[lev].mid = h[lev].mid
    <2>1. lev \in DOMAIN h
      BY <1>1
    <2> QED BY <1>1, <2>1 DEF Carried
  <1>8. Leaving(g, U, R, S, b, del, lev)
    BY <1>1, <1>2, <1>3, <1>6, <1>7 DEF Leaving
  <1>9. /\ Keys(g, U, R, S, del, V) /\ R[g[0].mid] = U /\ Two(g, U, S, del, lev)
        /\ KeysOf(g, R, V, del) = KeysOf(h, T, V, NoNode) \ {h[p].item}
    <2>1. \A y \in Keyed(h, T, V, NoNode, 0) : h[y].item = h[p].item => y = p
      BY DEF Picked
    <2> QED BY <1>1, <1>4, <2>1 DEF CarryKeysAre
  <1>10. del \in U /\ p # del
    <2>1. PICK M : CarryNodes(h, U, T, S, p, del, M)
      BY CarryNodesAre
    <2> QED BY <2>1 DEF CarryNodes
  <1>11. Parting(g, U, R, S, del, lev, V)
    BY <1>1, <1>2, <1>6, <1>7, <1>9, <1>10 DEF Parting
  <1> QED BY <1>6, <1>7, <1>8, <1>9, <1>11

LEMMA CarryPlaceIs ==
  ASSUME NEW h, NEW U, NEW T, NEW S, NEW b, NEW V, NEW lev, NEW p, Picked(h, U, T, S, b, V, lev, p), h[p]["left"] # 0, h[p]["right"] # 0,
         NEW del, del = TreeMin(h, h[p]["right"])
  PROVE  CarryPlace(h, U, T, S, lev, p, del) /\ del \in U /\ del \in DOMAIN h /\ p \in DOMAIN h /\ p # del
  <1>1. /\ Shape(h, U, T, S, NoNode) /\ Loose(h, U, T, S, NoNode) /\ Wired(h, U, NoNode) /\ lev \in U \cup {0} /\ p \in S[h[lev].mid]
        /\ h[p].mid = 0 /\ p \in U /\ (\A x \in U \cup {0} : x \in DOMAIN h)
    BY PickedFacts
  <1>2. PICK r : r = h[p]["right"] /\ r \in U
    <2>1. "right" \in Around
      BY DEF Around
    <2> QED BY <1>1, <2>1, HangsIs
  <1>3. del \in S[r] /\ del \in U /\ h[del]["left"] = 0 /\ \A y \in S[r] \ {del} : h[y].cbyte > h[del].cbyte
    BY <1>1, <1>2, TreeMinIn
  <1>4. CarryPlace(h, U, T, S, lev, p, del)
    BY <1>1, <1>2, <1>3 DEF CarryPlace
  <1>5. p # del
    <2>1. PICK M : CarryNodes(h, U, T, S, p, del, M)
      BY <1>4, CarryNodesAre
    <2> QED BY <2>1 DEF CarryNodes
  <1> QED BY <1>1, <1>3, <1>4, <1>5

\* A node of a level that is not its root, and its son.
LEMMA BypassPlace ==
  ASSUME NEW h, NEW U, NEW T, NEW S, NEW d, Shape(h, U, T, S, d), NEW lev \in (U \cup {0}) \ {d}, NEW x \in S[h[lev].mid], NEW s \in Around, h[x][s] # 0
  PROVE  /\ h[x][s] \in DOMAIN h \ {0} /\ h[x][s] # x /\ (IF h[x].parent = 0 THEN lev ELSE h[x].parent) # h[x][s] /\ x \in DOMAIN h /\ lev \in DOMAIN h
         /\ (x # h[lev].mid => h[x].parent # 0)
  <1>1. Loose(h, U, T, S, d) /\ Wired(h, U, d) /\ Bounded(h, U, T, d) /\ S[0] = {}
    BY DEF Shape, Loose, Levels
  <1>2. PICK z : z = h[lev].mid /\ z = Mid(h, d, lev) /\ z = Son(h, d, lev, "mid")
    BY DEF Mid, Son
  <1>3. z \in U
    <2>1. z \in U \cup {0}
      BY <1>1, <1>2 DEF Wired, Sides
    <2> QED BY <1>1, <1>2, <2>1
  <1>4. x \in U /\ (\A y \in U \cup {0} : y \in DOMAIN h /\ (y \in U => y # 0)) /\ 0 \notin U
    <2>1. x \in U
      BY <1>1, <1>2, <1>3, LevelIs
    <2> QED BY <1>1, <2>1, NodeIn
  <1>5. PICK o : o = h[x][s] /\ o \in U /\ h[o].parent = x /\ o # x
    BY <1>1, <1>4, HangsIs
  <1>6. T[o] \subseteq T[x] /\ x \notin T[o] /\ x \in T[x]
    <2>1. Son(h, d, x, s) = o /\ s \in Sides
      BY <1>5 DEF Son, Around, Sides
    <2> QED BY <1>1, <1>4, <2>1 DEF Bounded
  <1>7. x # z => h[x].parent \in U /\ h[x].parent # o /\ h[x].parent # 0
    <2> SUFFICES ASSUME x # z PROVE h[x].parent \in U /\ h[x].parent # o /\ h[x].parent # 0
      OBVIOUS
    <2>1. PICK q, r : q = h[x].parent /\ r = Hangs(h, x)
      OBVIOUS
    <2>2. q \in U /\ r \in Around /\ h[q][r] = x /\ q # 0
      BY <1>1, <1>2, <1>3, <2>1, ParentInLevel
    <2>3. Son(h, d, q, r) = x /\ r \in Sides
      BY <2>2 DEF Son, Around, Sides
    <2>4. T[x] \subseteq T[q]
      BY <1>1, <2>2, <2>3 DEF Bounded
    <2> QED BY <1>6, <2>1, <2>2, <2>4
  <1>8. x = z => h[x].parent = 0 /\ lev # o
    <2> SUFFICES ASSUME x = z PROVE h[x].parent = 0 /\ lev # o
      OBVIOUS
    <2>1. h[x].parent = 0
      <3>1. \A y \in U \cup {0} : Mid(h, d, y) # 0 => h[Mid(h, d, y)].parent = 0
        BY <1>1 DEF Wired
      <3>2. lev \in U \cup {0} /\ Mid(h, d, lev) = x /\ x # 0
        BY <1>2, <1>4
      <3> QED BY <3>1, <3>2
    <2>2. lev # o
      <3> SUFFICES ASSUME lev = o PROVE FALSE
        OBVIOUS
      <3>1. T[x] \subseteq T[o]
        BY <1>1, <1>2, <1>5 DEF Bounded, Sides
      <3> QED BY <1>6, <3>1
    <2> QED BY <2>1, <2>2
  <1> QED BY <1>2, <1>4, <1>5, <1>7, <1>8

LEMMA RecSet ==
  ASSUME NEW t, NEW h, NEW idle, NEW cost, NEW N, IsRec(t, h, idle, cost, N), NEW k
  PROVE  [t EXCEPT !.h = k] = Rec(t, k, idle, cost) /\ Rec(t, k, idle, cost).h = k /\ t.h = h
  <1>1. PICK v : v = [block |-> t.block, off |-> t.off, blocks |-> t.blocks, units |-> t.units]
    OBVIOUS
  <1>2. PICK u : u = t
    OBVIOUS
  <1>3. u = Rec(v, h, idle, cost) /\ Rec(t, k, idle, cost) = Rec(v, k, idle, cost) /\ t.h = h
    BY <1>1, <1>2 DEF Rec, IsRec
  <1>4. [u EXCEPT !.h = k] = Rec(v, k, idle, cost) /\ Rec(v, k, idle, cost).h = k
    <2> HIDE DEF IsRec
    <2> QED BY <1>3 DEF Rec
  <1> QED BY <1>2, <1>3, <1>4

\* What Unlink works on: the node that goes, its only son, and the heap it balances.
Going(h, p, lev, del, only, k) ==
  /\ del = IF h[p]["left"] # 0 /\ h[p]["right"] # 0 THEN TreeMin(h, h[p]["right"]) ELSE p
  /\ only = IF h[del]["left"] # 0 THEN h[del]["left"] ELSE h[del]["right"]
  /\ k = InPlaceOf(TakeOut(h, lev, del, only), del, p)

LEMMA UnlinkAs ==
  ASSUME NEW t, NEW h, NEW idle, NEW cost, NEW N, IsRec(t, h, idle, cost, N), NEW p, NEW lev, NEW del, NEW only, NEW k, Going(h, p, lev, del, only, k), NEW out, out = Rec(t, k, idle, cost)
  PROVE  Unlink(t, p, lev) =
           Collapse(GiveBack(IF k[del].color = BLACK THEN DelFixup(out, lev, IF only # 0 THEN only ELSE del) ELSE out, lev, del, only = 0), lev)
  <1>1. out = [t EXCEPT !.h = k] /\ out.h = k /\ t.h = h
    <2>1. IsRec(t, h, idle, cost, N)
      OBVIOUS
    <2>2. [t EXCEPT !.h = k] = Rec(t, k, idle, cost) /\ Rec(t, k, idle, cost).h = k /\ t.h = h
      BY ONLY <2>1, RecSet
    <2>3. out = Rec(t, k, idle, cost)
      OBVIOUS
    <2> QED BY ONLY <2>2, <2>3
  <1>2. del = (IF t.h[p].left # 0 /\ t.h[p].right # 0 THEN TreeMin(t.h, t.h[p].right) ELSE p)
    BY Zenon, <1>1 DEF Going
  <1>3. only = (IF t.h[del].left # 0 THEN t.h[del].left ELSE t.h[del].right)
    BY Zenon, <1>1 DEF Going
  <1>4. out = [t EXCEPT !.h = InPlaceOf(TakeOut(t.h, lev, del, only), del, p)]
    BY Zenon, <1>1 DEF Going
  <1>5. Unlink(t, p, lev) =
           Collapse(GiveBack(IF out.h[del].color = BLACK THEN DelFixup(out, lev, IF only # 0 THEN only ELSE del) ELSE out, lev, del, only = 0), lev)
    BY ONLY <1>2, <1>3, <1>4 DEF Unlink
  <1> QED BY <1>1, <1>5

\* With two sons: the next greater node goes in the place of p.
LEMMA UnlinkTwo ==
  ASSUME NEW t, NEW h, NEW idle, NEW cost, NEW N, IsRec(t, h, idle, cost, N), NEW U, NEW T, NEW S, NEW b, NEW V, NEW lev, NEW p,
         Picked(h, U, T, S, b, V, lev, p), NEW m, Pool(idle, cost, U, m), h[p]["left"] # 0, h[p]["right"] # 0
  PROVE  Settled(Unlink(t, p, lev), t, N, KeysOf(h, T, V, NoNode) \ {h[p].item}, V, m)
  <1>1. PICK del : del = TreeMin(h, h[p]["right"])
    OBVIOUS
  <1>2. CarryPlace(h, U, T, S, lev, p, del) /\ del \in U /\ del \in DOMAIN h /\ p \in DOMAIN h /\ p # del
    BY <1>1, CarryPlaceIs
  <1>3. /\ Shape(h, U, T, S, NoNode) /\ Wired(h, U, NoNode) /\ lev \in U \cup {0} /\ NoNode \notin U \cup {0} /\ Keys(h, U, T, S, NoNode, V)
        /\ U = T[h[0].mid] /\ Loose(h, U, T, S, NoNode) /\ p \in U /\ S[h[lev].mid] \subseteq U /\ 0 \notin U
        /\ (\A x \in U \cup {0} : Mid(h, NoNode, x) = h[x].mid /\ h[x].mid \in U \cup {0})
    BY PickedFacts
  <1>4. IsHeap(h) /\ DOMAIN h = N /\ idle \in Seq(N) /\ cost \in Int
    BY DEF IsRec, On
  <1>5. h[del]["left"] = 0 /\ del \in S[h[p]["right"]]
    BY <1>2 DEF CarryPlace
  <1>6. PICK only : only = (IF h[del]["left"] # 0 THEN h[del]["left"] ELSE h[del]["right"])
    OBVIOUS
  <1>7. PICK f, k, out : f = TakeOut(h, lev, del, only) /\ k = InPlaceOf(f, del, p) /\ out = Rec(t, k, idle, cost)
    OBVIOUS
  <1>8. Unlink(t, p, lev) =
          Collapse(GiveBack(IF k[del].color = BLACK THEN DelFixup(out, lev, IF only # 0 THEN only ELSE del) ELSE out, lev, del, only = 0), lev)
    <2>1. Going(h, p, lev, del, only, k)
      BY <1>1, <1>6, <1>7 DEF Going
    <2>2. out = Rec(t, k, idle, cost) /\ IsRec(t, h, idle, cost, N)
      BY <1>7
    <2> QED BY ONLY <2>1, <2>2, UnlinkAs
  <1>9. del \in S[h[lev].mid] /\ p \in S[h[lev].mid] /\ (V # {} => p \notin S[h[0].mid])
    <2>1. Left(h, S, NoNode, V) /\ p \notin V
      BY <1>3, PickedFacts DEF Keys
    <2> QED BY <1>2, <2>1, CarryLeft
  <1>10. del # h[lev].mid
    <2> SUFFICES ASSUME del = h[lev].mid PROVE FALSE
      OBVIOUS
    <2>1. PICK M : CarryNodes(h, U, T, S, p, del, M)
      BY <1>2, CarryNodesAre
    <2>2. p \notin T[del]
      BY <2>1 DEF CarryNodes
    <2>3. S[del] \subseteq T[del]
      BY <1>2, <1>3, LevelIs
    <2> QED BY <1>9, <2>2, <2>3
  <1>11. PICK R : R = CarryT(T, h, del, p)
    OBVIOUS
  <1>12. \E g : /\ Carried(g, h, del, p) /\ g[del]["left"] = 0 /\ g[del]["right"] = h[del]["right"]
                /\ only # 0 => Bypassed(k, g, lev, del, only)
                /\ only = 0 => k = g /\ g[del].index = Taken
    <2>1. \A g : Carried(g, h, del, p) => g[del]["left"] = h[del]["left"] /\ g[del]["right"] = h[del]["right"]
      BY <1>2 DEF Carried, Around
    <2>2. CASE only = 0
      <3>1. f = [h EXCEPT ![del].index = Taken]
        BY <1>7, <2>2 DEF TakeOut
      <3>2. Marked(f, h, del) /\ f[del].index = Taken
        BY <1>2, <1>4, <3>1, MarkedIs
      <3>3. Moved(k, f, del, p)
        <4>1. IsHeap(f) /\ DOMAIN f = DOMAIN h
          BY <3>2 DEF Marked
        <4> QED BY <1>2, <1>7, <4>1, MovedIs
      <3>4. Carried(k, h, del, p) /\ k[del].index = Taken
        BY <1>2, <3>2, <3>3, MarkedCarried
      <3> QED BY <1>5, <2>1, <2>2, <3>4
    <2>3. CASE only # 0
      <3>1. only = h[del]["right"] /\ "right" \in Around /\ h[del]["right"] # 0
        BY <1>5, <1>6, <2>3 DEF Around
      <3>2. lev \in (U \cup {0}) \ {NoNode}
        BY <1>3
      <3>3. /\ only \in DOMAIN h \ {0} /\ only # del /\ (IF h[del].parent = 0 THEN lev ELSE h[del].parent) # only /\ lev \in DOMAIN h
            /\ h[del].parent # 0
        BY <1>3, <1>9, <1>10, <3>1, <3>2, BypassPlace
      <3>4. Bypassed(f, h, lev, del, only)
        BY <1>2, <1>4, <1>7, <3>3, BypassIs
      <3>5. IsHeap(f) /\ DOMAIN f = DOMAIN h
        BY <3>4 DEF Bypassed
      <3>6. Moved(k, f, del, p)
        BY <1>2, <1>7, <3>5, MovedIs
      <3>7. PICK g : g = InPlaceOf(h, del, p)
        OBVIOUS
      <3>8. Moved(g, h, del, p)
        BY <1>2, <1>4, <3>7, MovedIs
      <3>9. Carried(g, h, del, p)
        BY <3>8, MovedCarried
      <3>10. Bypassed(k, g, lev, del, only)
        BY <1>2, <1>4, <3>3, <3>4, <3>6, <3>8, BypassCarried
      <3> QED BY <1>5, <2>1, <2>3, <3>9, <3>10
    <2> QED BY <2>2, <2>3
  <1>13. PICK g : /\ Carried(g, h, del, p) /\ g[del]["left"] = 0 /\ g[del]["right"] = h[del]["right"]
                  /\ only # 0 => Bypassed(k, g, lev, del, only)
                  /\ only = 0 => k = g /\ g[del].index = Taken
    BY <1>12
  <1>14. /\ Leaving(g, U, R, S, b, del, lev) /\ Parting(g, U, R, S, del, lev, V)
         /\ KeysOf(g, R, V, del) = KeysOf(h, T, V, NoNode) \ {h[p].item} /\ g[lev].mid = h[lev].mid /\ (lev # 0 \/ V = {})
    BY <1>2, <1>11, <1>13, CarryReady
  <1>15. DOMAIN g = N
    BY <1>4, <1>13 DEF Carried
  <1>16. Unmarked(g, S, lev, del)
    <2>1. \A y \in S[h[lev].mid] : h[y].index # Taken
      <3>1. /\ Shape(h, U, T, S, NoNode) /\ Keys(h, U, T, S, NoNode, V) /\ U = T[h[0].mid] /\ lev \in U \cup {0}
            /\ (lev # 0 \/ V = {})
        BY <1>3, <1>14
      <3> QED BY ONLY <3>1, UnmarkedIs
    <2>2. \A y \in DOMAIN h : y # del => g[y].index = h[y].index
      BY <1>13 DEF Carried
    <2>3. \A y \in S[h[lev].mid] : y \in DOMAIN h
      BY <1>3 DEF Wired
    <2> QED BY <1>14, <2>1, <2>2, <2>3 DEF Unmarked
  <1>17. only = IF g[del]["left"] # 0 THEN g[del]["left"] ELSE g[del]["right"]
    BY <1>5, <1>6, <1>13
  <1>18. OneLess(g, U, R, S, del, lev, t, idle, cost,
                 GiveBack(IF k[del].color = BLACK THEN DelFixup(out, lev, IF only # 0 THEN only ELSE del) ELSE out, lev, del, only = 0))
    <2>1. only # 0 => Bypassed(k, g, lev, del, only)
      BY <1>13
    <2>2. only = 0 => k = g /\ del # g[lev].mid /\ (g[del].color = BLACK => g[del].index = Taken /\ Unmarked(g, S, lev, del))
      BY <1>10, <1>13, <1>14, <1>16
    <2>3. out = Rec(t, k, idle, cost) /\ N = DOMAIN g
      BY <1>7, <1>15
    <2> QED BY <1>4, <1>13, <1>14, <1>17, <2>1, <2>2, <2>3, OutAny
  <1>19. Settled(Unlink(t, p, lev), t, DOMAIN g, KeysOf(g, R, V, del), V, m)
    BY <1>8, <1>14, <1>18, Finish
  <1> QED BY <1>14, <1>15, <1>19

\* With at most one son, and not the only node of its level: p goes.
LEMMA UnlinkOne ==
  ASSUME NEW t, NEW h, NEW idle, NEW cost, NEW N, IsRec(t, h, idle, cost, N), NEW U, NEW T, NEW S, NEW b, NEW V, NEW lev, NEW p,
         Picked(h, U, T, S, b, V, lev, p), NEW m, Pool(idle, cost, U, m), h[p]["left"] = 0 \/ h[p]["right"] = 0,
         h[p]["left"] # 0 \/ h[p]["right"] # 0 \/ p # h[lev].mid
  PROVE  Settled(Unlink(t, p, lev), t, N, KeysOf(h, T, V, NoNode) \ {h[p].item}, V, m)
  <1>1. PICK only : only = (IF h[p]["left"] # 0 THEN h[p]["left"] ELSE h[p]["right"])
    OBVIOUS
  <1>2. PICK k, out : k = TakeOut(h, lev, p, only) /\ out = Rec(t, k, idle, cost)
    OBVIOUS
  <1>3. Going(h, p, lev, p, only, k)
    BY <1>1, <1>2 DEF Going, InPlaceOf
  <1>4. Unlink(t, p, lev) =
          Collapse(GiveBack(IF k[p].color = BLACK THEN DelFixup(out, lev, IF only # 0 THEN only ELSE p) ELSE out, lev, p, only = 0), lev)
    <2>1. out = Rec(t, k, idle, cost) /\ IsRec(t, h, idle, cost, N)
      BY <1>2
    <2> QED BY ONLY <1>3, <2>1, UnlinkAs
  <1>5. /\ Shape(h, U, T, S, NoNode) /\ Wired(h, U, NoNode) /\ lev \in U \cup {0} /\ NoNode \notin U \cup {0} /\ Keys(h, U, T, S, NoNode, V)
        /\ U = T[h[0].mid] /\ p \in U /\ p \in S[h[lev].mid] /\ S[h[lev].mid] \subseteq U /\ (\A x \in U \cup {0} : x \in DOMAIN h)
        /\ h[p].mid = 0 /\ lev # p
    BY PickedFacts
  <1>6. IsHeap(h) /\ DOMAIN h = N /\ idle \in Seq(N) /\ cost \in Int
    BY DEF IsRec, On
  <1>7. only # 0 \/ p # h[lev].mid
    BY <1>1
  <1>8. \E g : /\ Marked(g, h, p)
               /\ only # 0 => Bypassed(k, g, lev, p, only)
               /\ only = 0 => k = g /\ g[p].index = Taken
    <2>1. CASE only = 0
      <3>1. k = [h EXCEPT ![p].index = Taken]
        BY <1>2, <2>1 DEF TakeOut
      <3>2. Marked(k, h, p) /\ k[p].index = Taken
        BY <1>5, <1>6, <3>1, MarkedIs
      <3> QED BY <2>1, <3>2
    <2>2. CASE only # 0
      <3>1. PICK s \in Around : only = h[p][s] /\ h[p][s] # 0
        BY <1>1, <2>2 DEF Around
      <3>2. lev \in (U \cup {0}) \ {NoNode}
        BY <1>5
      <3>3. /\ only \in DOMAIN h \ {0} /\ only # p /\ (IF h[p].parent = 0 THEN lev ELSE h[p].parent) # only /\ lev \in DOMAIN h
        BY <1>5, <3>1, <3>2, BypassPlace
      <3>4. Bypassed(k, h, lev, p, only)
        BY <1>5, <1>6, <1>2, <3>3, BypassIs
      <3>5. Marked(h, h, p)
        BY <1>6 DEF Marked
      <3> QED BY <2>2, <3>4, <3>5
    <2> QED BY <2>1, <2>2
  <1>9. PICK g : /\ Marked(g, h, p)
                 /\ only # 0 => Bypassed(k, g, lev, p, only)
                 /\ only = 0 => k = g /\ g[p].index = Taken
    BY <1>8
  <1>10. /\ Leaving(g, U, T, S, b, p, lev) /\ Parting(g, U, T, S, p, lev, V)
         /\ KeysOf(g, T, V, p) = KeysOf(h, T, V, NoNode) \ {h[p].item} /\ g[lev].mid = h[lev].mid
    BY <1>9, AloneLeaving, AloneKeys, AloneTwo
  <1>11. DOMAIN g = N /\ g[p]["left"] = h[p]["left"] /\ g[p]["right"] = h[p]["right"] /\ g[p].color = h[p].color
    BY <1>5, <1>6, <1>9 DEF Marked, Sides
  <1>12. lev # 0 \/ V = {} => Unmarked(g, S, lev, p)
    <2> SUFFICES ASSUME lev # 0 \/ V = {} PROVE Unmarked(g, S, lev, p)
      OBVIOUS
    <2>1. \A y \in S[h[lev].mid] : h[y].index # Taken
      <3>1. /\ Shape(h, U, T, S, NoNode) /\ Keys(h, U, T, S, NoNode, V) /\ U = T[h[0].mid] /\ lev \in U \cup {0}
            /\ (lev # 0 \/ V = {})
        BY <1>5
      <3> QED BY ONLY <3>1, UnmarkedIs
    <2>2. \A y \in DOMAIN h : y # p => g[y].index = h[y].index
      BY <1>9 DEF Marked
    <2>3. \A y \in S[h[lev].mid] : y \in DOMAIN h
      BY <1>5
    <2> QED BY <1>10, <2>1, <2>2, <2>3 DEF Unmarked
  <1>13. only = IF g[p]["left"] # 0 THEN g[p]["left"] ELSE g[p]["right"]
    BY <1>1, <1>11
  <1>14. only = 0 /\ lev = 0 /\ V # {} => g[p].color # BLACK
    <2> SUFFICES ASSUME only = 0, lev = 0, V # {} PROVE g[p].color # BLACK
      OBVIOUS
    <2>1. h[p]["left"] = 0 /\ h[p]["right"] = 0 /\ p # h[0].mid
      BY <1>1, <1>7
    <2>2. Picked(h, U, T, S, b, V, 0, p)
      OBVIOUS
    <2>3. h[p].color = RED
      BY <2>1, <2>2, LeftLeaf
    <2> QED BY <1>11, <2>3, BlackIsNotRed
  <1>15. OneLess(g, U, T, S, p, lev, t, idle, cost,
                 GiveBack(IF k[p].color = BLACK THEN DelFixup(out, lev, IF only # 0 THEN only ELSE p) ELSE out, lev, p, only = 0))
    <2>1. only # 0 => Bypassed(k, g, lev, p, only)
      BY <1>9
    <2>2. only = 0 => k = g /\ p # g[lev].mid /\ (g[p].color = BLACK => g[p].index = Taken /\ Unmarked(g, S, lev, p))
      BY <1>7, <1>9, <1>10, <1>12, <1>14
    <2>3. out = Rec(t, k, idle, cost) /\ N = DOMAIN g
      BY <1>2, <1>11
    <2>4. g[p]["left"] = 0 \/ g[p]["right"] = 0
      BY <1>11
    <2> QED BY <1>6, <1>10, <1>13, <2>1, <2>2, <2>3, <2>4, OutAny
  <1>16. Settled(Unlink(t, p, lev), t, DOMAIN g, KeysOf(g, T, V, p), V, m)
    BY <1>4, <1>10, <1>15, Finish
  <1> QED BY <1>10, <1>11, <1>16

LoneLeaf(h, U, T, S, V, lev, p) ==
  lev = 0 /\ V = {} /\ U = {p} /\ T[p] = {p} /\ S[p] = {p} /\ h[p].cbyte # 0 /\ h[p].color = BLACK
AtRoot(h, lev, p) == h[p]["left"] = 0 /\ h[p]["right"] = 0 /\ p = h[lev].mid

\* A level of one node that is a leaf without a middle son is the first, and all there is.
LEMMA LastFacts ==
  ASSUME NEW h, NEW U, NEW T, NEW S, NEW b, NEW V, NEW lev, NEW p, Picked(h, U, T, S, b, V, lev, p),
         AtRoot(h, lev, p)
  PROVE  LoneLeaf(h, U, T, S, V, lev, p)
  <1>0. h[p]["left"] = 0 /\ h[p]["right"] = 0 /\ p = h[lev].mid
    BY DEF AtRoot
  <1>1. /\ Shape(h, U, T, S, NoNode) /\ Loose(h, U, T, S, NoNode) /\ Wired(h, U, NoNode) /\ Even(h, U, b) /\ Keys(h, U, T, S, NoNode, V)
        /\ Two(h, U, S, NoNode, 0) /\ U = T[h[0].mid] /\ lev \in U \cup {0} /\ p \in S[h[lev].mid] /\ h[p].mid = 0 /\ p \notin V
        /\ p \in U /\ p # 0 /\ NoNode \notin U \cup {0} /\ 0 \notin U
        /\ (\A x \in U \cup {0} : Mid(h, NoNode, x) = h[x].mid /\ h[x].mid \in U \cup {0})
    BY PickedFacts
  <1>2. S[p] = {p} /\ S[0] = {} /\ T[0] = {}
    <2>1. S[p] = {p} \cup S[h[p]["left"]] \cup S[h[p]["right"]] /\ S[0] = {} /\ T[0] = {}
      BY <1>1 DEF Loose, Levels, Bounded
    <2> QED BY <1>0, <2>1
  <1>3. T[p] = {p}
    <2>1. T[p] = {p} \cup T[h[p]["left"]] \cup T[Mid(h, NoNode, p)] \cup T[h[p]["right"]]
      BY <1>1 DEF Shape, Exact
    <2>2. Mid(h, NoNode, p) = 0
      BY <1>1
    <2> QED BY <1>0, <1>2, <2>1, <2>2
  <1>4. lev = 0
    <2> SUFFICES ASSUME lev # 0 PROVE FALSE
      OBVIOUS
    <2>1. lev \in U \ {NoNode} /\ h[lev].mid # 0
      BY <1>1, <1>0
    <2>2. \E y, z \in S[h[lev].mid] \ {NoNode} : y # z
      BY <1>1, <2>1 DEF Two
    <2> QED BY <1>0, <1>2, <2>2
  <1>5. U = {p}
    BY <1>0, <1>1, <1>3, <1>4
  <1>6. V = {}
    <2>1. V = {} \/ \E v : V = {v} /\ v \in S[h[0].mid] \ {NoNode}
      BY <1>1 DEF Keys, Left
    <2> QED BY <1>0, <1>1, <1>2, <1>4, <2>1
  <1>7. h[p].cbyte # 0
    <2>1. h[p].index = 0
      BY <1>0, <1>1, <1>2, <1>4, <1>6 DEF Keys, First
    <2>2. Text(h[p].item)
      BY <1>1 DEF Keys, Items
    <2>3. Byte(h[p].item, h[p].index) = h[p].cbyte
      BY <1>1 DEF Keys, Spelled
    <2>4. PICK k : k = h[p].item
      OBVIOUS
    <2>5. k \in Seq(Int)
      BY <1>1, <2>4, HeapFields DEF Wired
    <2>6. k # <<>> /\ \A i \in DOMAIN k : k[i] # 0
      BY <2>2, <2>4 DEF Text, NoKey
    <2>7. Len(k) > 0 /\ 1 \in DOMAIN k
      BY <2>5, <2>6
    <2>8. Byte(k, 0) = k[1]
      BY <2>7 DEF Byte
    <2> QED BY <2>1, <2>3, <2>4, <2>6, <2>7, <2>8
  <1>8. h[p].color = BLACK
    <2>1. Mid(h, NoNode, 0) = p
      BY <1>0, <1>1, <1>4
    <2>2. Mid(h, NoNode, 0) \notin {0, NoNode}
      BY <1>1, <2>1
    <2>3. \A x \in U \cup {0} : Mid(h, NoNode, x) \notin {0, NoNode} => h[Mid(h, NoNode, x)].color = BLACK
      BY <1>1 DEF Even, Reds
    <2> QED BY <2>1, <2>2, <2>3
  <1> QED BY <1>2, <1>3, <1>4, <1>5, <1>6, <1>7, <1>8 DEF LoneLeaf

\* One node without sons is a tree.
LEMMA LastShape ==
  ASSUME NEW g, NEW U, NEW T, NEW S, NEW p, Shape(g, U, T, S, p), U = {p}, g[p]["left"] = 0, g[p].mid = 0, g[p]["right"] = 0
  PROVE  Shape(g, U, T, S, NoNode)
  <1>1. Wired(g, U, p) /\ Bounded(g, U, T, p) /\ Levels(g, U, S) /\ Exact(g, U, T, p) /\ p # 0 /\ NoNode \notin U \cup {0}
        /\ S[0] = {}
    BY DEF Shape, Loose, Wired, Levels, NoNode, IsHeap
  <1>2. \A x \in U \cup {0} : Mid(g, p, x) = Mid(g, NoNode, x)
    BY <1>1 DEF Mid
  <1>3. \A x \in U \cup {0}, s \in Sides : Son(g, p, x, s) = Son(g, NoNode, x, s)
    BY <1>2 DEF Son
  <1>4. Wired(g, U, NoNode)
    BY <1>1, <1>2, <1>3 DEF Wired
  <1>5. Bounded(g, U, T, NoNode)
    BY <1>1, <1>3 DEF Bounded
  <1>6. Sorted(g, U, S, NoNode)
    BY <1>1 DEF Sorted
  <1>7. Exact(g, U, T, NoNode)
    BY <1>1, <1>2, <1>3 DEF Exact
  <1> QED BY <1>1, <1>4, <1>5, <1>6, <1>7 DEF Shape, Loose

\* Without its byte it is the node that is left.
LEMMA LastGood ==
  ASSUME NEW h, NEW U, NEW T, NEW S, NEW b, NEW V, NEW lev, NEW p, Picked(h, U, T, S, b, V, lev, p),
         AtRoot(h, lev, p), NEW g, Marked(g, h, p), g[p].index = Taken
  PROVE  Good(g, U, T, S, b, {p}) /\ KeysOf(g, T, {p}, NoNode) = {} /\ KeysOf(h, T, V, NoNode) \ {h[p].item} = {}
  <1>1. /\ Shape(h, U, T, S, NoNode) /\ Wired(h, U, NoNode) /\ Even(h, U, b) /\ Keys(h, U, T, S, NoNode, V)
        /\ U = T[h[0].mid] /\ h[p].mid = 0 /\ p \notin V /\ p # 0 /\ NoNode \notin U \cup {0} /\ NoNode \notin DOMAIN h
        /\ (\A x \in U \cup {0} : x \in DOMAIN h) /\ (\A x \in U \cup {0} : Mid(h, NoNode, x) = h[x].mid)
    BY PickedFacts
  <1>2. lev = 0 /\ V = {} /\ U = {p} /\ T[p] = {p} /\ S[p] = {p} /\ h[p].cbyte # 0 /\ h[p].color = BLACK /\ h[0].mid = p
    <2>1. lev = 0 /\ V = {} /\ U = {p} /\ T[p] = {p} /\ S[p] = {p} /\ h[p].cbyte # 0 /\ h[p].color = BLACK
      BY LastFacts DEF LoneLeaf
    <2> QED BY <2>1 DEF AtRoot
  <1>3. /\ IsHeap(g) /\ DOMAIN g = DOMAIN h
        /\ \A y \in U \cup {0} : /\ g[y].color = h[y].color /\ g[y].cbyte = h[y].cbyte /\ g[y].item = h[y].item
                                 /\ g[y]["left"] = h[y]["left"] /\ g[y]["mid"] = h[y]["mid"] /\ g[y]["right"] = h[y]["right"]
    BY <1>1 DEF Marked, Sides
  <1>4. g[0].mid = p /\ g[p].mid = 0 /\ g[p]["left"] = 0 /\ g[p]["right"] = 0 /\ g[p].color = BLACK /\ p # NoNode /\ NoNode # 0
    BY <1>1, <1>2, <1>3 DEF AtRoot
  <1>5. Shape(g, U, T, S, NoNode)
    <2>1. Shape(g, U, T, S, p)
      BY AloneShape
    <2> QED BY <1>2, <1>4, <2>1, LastShape
  <1>6. Even(g, U, b)
    <2>1. Counts(g, U, b, NoNode, NoNode, 0)
      <3>1. Counts(h, U, b, NoNode, NoNode, 0)
        BY <1>1 DEF Even
      <3>2. \A x \in U, s \in Around : g[x][s] = h[x][s] /\ Blk(g, x) = Blk(h, x)
        BY <1>3 DEF Around, Blk
      <3> QED BY <1>3, <3>1, <3>2 DEF Counts
    <2>2. Reds(g, U, NoNode, NoNode)
      <3>1. \A x \in U, s \in Around : g[x].color # RED
        BY <1>2, <1>4, BlackIsNotRed
      <3>2. Mid(g, NoNode, 0) = p /\ Mid(g, NoNode, p) = 0
        BY <1>4 DEF Mid
      <3> QED BY <1>2, <1>4, <3>1, <3>2 DEF Reds
    <2> QED BY <2>1, <2>2 DEF Even
  <1>7. T[0] = {} /\ S[0] = {}
    BY <1>1 DEF Shape, Loose, Bounded, Levels
  <1>8. \A x \in U \cup {0} : Keyed(g, T, {p}, NoNode, x) = {}
    BY <1>2, <1>4, <1>7 DEF Keyed
  <1>9. \A x \in U \cup {0} : \A y \in S[g[x].mid] : x = 0 /\ y = p
    <2> TAKE x \in U \cup {0}
    <2>1. CASE x = 0
      BY <1>2, <1>4, <2>1
    <2>2. CASE x # 0
      <3>1. S[g[x].mid] = {}
        BY <1>2, <1>4, <1>7, <2>2
      <3> QED BY <3>1
    <2> QED BY <2>1, <2>2
  <1>10. Keys(g, U, T, S, NoNode, {p})
    <2>1. Aligned(g, U, S, NoNode)
      BY <1>9 DEF Aligned
    <2>2. Deeper(g, U, S, NoNode)
      BY <1>1, <1>2, <1>9 DEF Deeper
    <2>3. First(g, S, NoNode, {p})
      BY <1>9 DEF First
    <2>4. Items(g, U, NoNode)
      <3>1. Text(h[p].item)
        BY <1>1, <1>2 DEF Keys, Items
      <3> QED BY <1>2, <1>3, <1>4, <3>1 DEF Items
    <2>5. Spelled(g, U, T, NoNode, {p})
      BY <1>2, <1>8 DEF Spelled
    <2>6. Agreeing(g, U, T, S, NoNode, {p})
      BY <1>8 DEF Agreeing
    <2>7. Left(g, S, NoNode, {p})
      <3>1. p \in S[g[0].mid] \ {NoNode} /\ g[p].cbyte # 0
        BY <1>2, <1>3, <1>4
      <3> QED BY <1>4, <1>9, <3>1 DEF Left
    <2> QED BY <2>1, <2>2, <2>3, <2>4, <2>5, <2>6, <2>7 DEF Keys
  <1>11. Two(g, U, S, NoNode, 0)
    BY <1>2, <1>4 DEF Two
  <1>12. KeysOf(h, T, V, NoNode) \ {h[p].item} = {}
    <2>1. Keyed(h, T, V, NoNode, 0) \subseteq {p}
      BY <1>2 DEF Keyed
    <2> QED BY <2>1 DEF KeysOf
  <1>13. KeysOf(g, T, {p}, NoNode) = {}
    BY <1>8 DEF KeysOf
  <1> QED BY <1>1, <1>2, <1>4, <1>5, <1>6, <1>10, <1>11, <1>12, <1>13 DEF Good

\* del_fixup has nothing to do at a root.
LEMMA FixAtRoot ==
  ASSUME NEW t0, NEW h, NEW idle, NEW cost, NEW N, IsRec(t0, h, idle, cost, N), NEW lev \in N, NEW n \in N, n = h[lev].mid
  PROVE  DelFixup(t0, lev, n) = Rec(t0, Color(h, n, BLACK), idle, cost)
  <1>1. IsHeap(h) /\ DOMAIN h = N /\ idle \in Seq(N) /\ cost \in Int /\ t0.h = h /\ t0 = Rec(t0, h, idle, cost) /\ On(h, N)
    BY DEF IsRec, On
  <1>2. OfTree(t0, t0)
    <2>1. On(h, DOMAIN t0.h) /\ idle \in Seq(DOMAIN t0.h)
      BY <1>1
    <2>2. t0 = [h |-> h, idle |-> idle, cost |-> cost, block |-> t0.block, off |-> t0.off, blocks |-> t0.blocks, units |-> t0.units]
      BY ONLY <1>1 DEF Rec
    <2> QED BY ONLY <1>1, <2>1, <2>2 DEF OfTree
  <1>3. PICK f : (\A x : DelFixup(t0, lev, x) = f[[t |-> t0, at |-> x]]) /\ DelOne(f, t0, lev)
    BY <1>1, DelFixupIs
  <1>4. DelEnds(t0, lev, n)
    BY <1>1 DEF DelEnds
  <1>5. f[[t |-> t0, at |-> n]] = [t0 EXCEPT !.h = Color(t0.h, n, BLACK)]
    <2>1. f[[t |-> t0, at |-> n]] = IF DelEnds(t0, lev, n) THEN [t0 EXCEPT !.h = Color(t0.h, n, BLACK)] ELSE f[DelRound(t0, lev, n)]
      BY <1>1, <1>2, <1>3 DEF DelOne
    <2> QED BY <1>4, <2>1
  <1>6. PICK k : k = Color(h, n, BLACK)
    OBVIOUS
  <1>7. [t0 EXCEPT !.h = k] = Rec(t0, k, idle, cost)
    <2>1. IsRec(t0, h, idle, cost, N)
      OBVIOUS
    <2> QED BY ONLY <2>1, RecSet
  <1> QED BY <1>1, <1>3, <1>5, <1>6, <1>7

\* The last key: its node stays.
LEMMA UnlinkLast ==
  ASSUME NEW t, NEW h, NEW idle, NEW cost, NEW N, IsRec(t, h, idle, cost, N), NEW U, NEW T, NEW S, NEW b, NEW V, NEW lev, NEW p,
         Picked(h, U, T, S, b, V, lev, p), NEW m, Pool(idle, cost, U, m), AtRoot(h, lev, p)
  PROVE  Settled(Unlink(t, p, lev), t, N, KeysOf(h, T, V, NoNode) \ {h[p].item}, {p}, m)
  <1>1. PICK k, out : k = [h EXCEPT ![p].index = Taken] /\ out = Rec(t, k, idle, cost)
    OBVIOUS
  <1>2. lev = 0 /\ h[p].color = BLACK
    <2>1. lev = 0 /\ V = {} /\ U = {p} /\ T[p] = {p} /\ S[p] = {p} /\ h[p].cbyte # 0 /\ h[p].color = BLACK
      BY LastFacts DEF LoneLeaf
    <2> QED BY <2>1
  <1>3. p \in DOMAIN h /\ 0 \in DOMAIN h /\ p # 0 /\ IsHeap(h) /\ DOMAIN h = N /\ On(h, N) /\ idle \in Seq(N) /\ cost \in Int
    BY PickedFacts DEF IsRec, On, IsHeap
  <1>4. Marked(k, h, p) /\ k[p].index = Taken
    BY <1>1, <1>3, MarkedIs
  <1>5. IsHeap(k) /\ DOMAIN k = N /\ k[p].color = BLACK /\ k[0].mid = p /\ k[p]["left"] = 0 /\ k[p]["right"] = 0
    BY <1>2, <1>3, <1>4 DEF Marked, Sides, AtRoot
  <1>6. Going(h, p, lev, p, 0, k)
    BY <1>1 DEF Going, TakeOut, InPlaceOf, AtRoot
  <1>7. Unlink(t, p, lev) =
          Collapse(GiveBack(IF k[p].color = BLACK THEN DelFixup(out, lev, IF 0 # 0 THEN 0 ELSE p) ELSE out, lev, p, 0 = 0), lev)
    <2>1. out = Rec(t, k, idle, cost) /\ IsRec(t, h, idle, cost, N)
      BY <1>1
    <2> QED BY ONLY <1>6, <2>1, UnlinkAs
  <1>8. PICK e : e = Color(k, p, BLACK)
    OBVIOUS
  <1>9. ColorSet(e, k, p, BLACK)
    BY <1>3, <1>5, <1>8, ColorIs, BlackIsNotRed
  <1>10. Marked(e, h, p) /\ e[p].index = Taken /\ e[p].color = BLACK
    <2>1. /\ IsHeap(e) /\ DOMAIN e = N
          /\ \A y \in N : /\ e[y].cbyte = k[y].cbyte /\ e[y].index = k[y].index /\ e[y].item = k[y].item
                           /\ e[y].parent = k[y].parent /\ e[y].color = k[y].color /\ \A s \in Sides : e[y][s] = k[y][s]
      BY <1>5, <1>9 DEF ColorSet, SameData, SameSons
    <2>2. \A y \in N : /\ k[y].color = h[y].color /\ k[y].parent = h[y].parent /\ k[y].cbyte = h[y].cbyte /\ k[y].item = h[y].item
                       /\ (\A s \in Sides : k[y][s] = h[y][s]) /\ (y # p => k[y].index = h[y].index)
      BY <1>3, <1>4 DEF Marked
    <2>3. Marked(e, h, p)
      BY <1>3, <2>1, <2>2 DEF Marked
    <2> QED BY <1>3, <1>4, <1>5, <2>1, <2>3
  <1>11. DelFixup(out, lev, p) = Rec(t, e, idle, cost)
    <2>1. IsRec(out, k, idle, cost, N)
      <3>1. Rec(t, k, idle, cost) = Rec(out, k, idle, cost) /\ out.h = k
        BY ONLY <1>1 DEF Rec
      <3> QED BY <1>1, <1>3, <1>5, <3>1 DEF IsRec, On
    <2>2. lev \in N /\ p \in N /\ p = k[lev].mid
      BY <1>2, <1>3, <1>5
    <2>3. DelFixup(out, lev, p) = Rec(out, Color(k, p, BLACK), idle, cost)
      BY ONLY <2>1, <2>2, FixAtRoot
    <2>4. Rec(out, e, idle, cost) = Rec(t, e, idle, cost)
      BY ONLY <1>1 DEF Rec
    <2> QED BY <1>8, <2>3, <2>4
  <1>12. PICK w : w = Rec(t, e, idle, cost)
    OBVIOUS
  <1>13. GiveBack(w, lev, p, TRUE) = w
    <2>1. w.h = e
      BY ONLY <1>12 DEF Rec
    <2> QED BY <1>10, <2>1, BlackIsNotRed DEF GiveBack
  <1>14. Unlink(t, p, lev) = Collapse(w, lev)
    BY <1>5, <1>7, <1>11, <1>12, <1>13
  <1>15. Collapse(w, lev) = w
    BY <1>2 DEF Collapse
  <1>16. Good(e, U, T, S, b, {p}) /\ KeysOf(e, T, {p}, NoNode) = KeysOf(h, T, V, NoNode) \ {h[p].item}
    BY <1>10, LastGood
  <1>17. DOMAIN e = N
    BY <1>3, <1>10 DEF Marked
  <1> QED BY <1>12, <1>14, <1>15, <1>16, <1>17 DEF Settled

\* remove: the tree stays whole, without the key.
LEMMA UnlinkSettles ==
  ASSUME NEW t, NEW h, NEW idle, NEW cost, NEW N, IsRec(t, h, idle, cost, N), NEW U, NEW T, NEW S, NEW b, NEW V, NEW lev, NEW p,
         Picked(h, U, T, S, b, V, lev, p), NEW m, Pool(idle, cost, U, m)
  PROVE  \E W : Settled(Unlink(t, p, lev), t, N, KeysOf(h, T, V, NoNode) \ {h[p].item}, W, m)
  <1>1. CASE h[p]["left"] # 0 /\ h[p]["right"] # 0
    BY <1>1, UnlinkTwo
  <1>2. CASE (h[p]["left"] = 0 \/ h[p]["right"] = 0) /\ (h[p]["left"] # 0 \/ h[p]["right"] # 0 \/ p # h[lev].mid)
    BY <1>2, UnlinkOne
  <1>3. CASE h[p]["left"] = 0 /\ h[p]["right"] = 0 /\ p = h[lev].mid
    BY <1>3, UnlinkLast DEF AtRoot
  <1> QED BY <1>1, <1>2, <1>3

(***************************************************************************)
(* The walks in a tree that is whole, or at least in good shape.           *)
(***************************************************************************)
LooseFacts(h, U, T, S) ==
  /\ IsHeap(h) /\ 0 \in DOMAIN h /\ NoNode \notin U \cup {0} /\ 0 \notin U /\ T[0] = {} /\ S[0] = {}
  /\ \A x \in U \cup {0} : x \in DOMAIN h /\ Mid(h, NoNode, x) = h[x].mid /\ h[x].mid \in U \cup {0}
  /\ \A x \in U : /\ \A s \in Sides : h[x][s] \in U \cup {0} /\ Son(h, NoNode, x, s) = h[x][s]
                  /\ x \in T[x] /\ x \in S[x] /\ S[x] \subseteq U
LEMMA LooseFactsAre ==
  ASSUME NEW h, NEW U, NEW T, NEW S, Loose(h, U, T, S, NoNode)
  PROVE  LooseFacts(h, U, T, S)
  <1>1. Wired(h, U, NoNode) /\ Bounded(h, U, T, NoNode) /\ Levels(h, U, S)
    BY DEF Loose
  <1>2. IsHeap(h) /\ 0 \in DOMAIN h /\ NoNode \notin DOMAIN h /\ U \subseteq DOMAIN h \ {0}
    BY <1>1 DEF Wired, IsHeap
  <1>3. NoNode \notin U \cup {0} /\ 0 \notin U /\ T[0] = {} /\ S[0] = {}
    BY <1>1, <1>2 DEF Bounded, Levels
  <1>4. \A x \in U \cup {0} : x \in DOMAIN h /\ Mid(h, NoNode, x) = h[x].mid
    BY <1>2, <1>3 DEF Mid
  <1>5. \A x \in U \cup {0} : Son(h, NoNode, x, "mid") = h[x].mid /\ "mid" \in Sides
    BY <1>4 DEF Son, Sides
  <1>6. \A x \in U \cup {0} : h[x].mid \in U \cup {0}
    BY <1>1, <1>5 DEF Wired
  <1>7. \A x \in U : \A s \in Sides : Son(h, NoNode, x, s) = h[x][s]
    <2>1. \A x \in U : \A s \in Around : Son(h, NoNode, x, s) = h[x][s]
      BY DEF Son, Around
    <2>2. \A x \in U : Son(h, NoNode, x, "mid") = h[x]["mid"]
      BY <1>4, <1>5
    <2> QED BY <2>1, <2>2 DEF Sides, Around
  <1>8. \A x \in U : \A s \in Sides : h[x][s] \in U \cup {0}
    BY <1>1, <1>7 DEF Wired
  <1>9. \A x \in U : x \in T[x] /\ x \in S[x] /\ S[x] \subseteq U
    BY <1>1, LevelIs DEF Bounded
  <1> QED BY <1>2, <1>3, <1>4, <1>6, <1>7, <1>8, <1>9 DEF LooseFacts

LEMMA WayIs ==
  ASSUME NEW h, NEW x, NEW k
  PROVE  /\ Way(h, x, k) \in Sides /\ (Way(h, x, k) # "mid" => Way(h, x, k) \in Around)
         /\ (AtItem(h, x, k) <=> Way(h, x, k) = "mid" /\ h[x].mid = 0)
         /\ (Way(h, x, k) = "mid" => h[x][Way(h, x, k)] = h[x].mid)
  BY DEF Way, AtItem, Sides, Around

\* One step down.
LEMMA StepDown ==
  ASSUME NEW h, NEW U, NEW T, NEW S, Loose(h, U, T, S, NoNode), NEW lev \in U \cup {0}, NEW n \in S[h[lev].mid], NEW k,
         NEW x, x = h[n][Way(h, n, k)], NEW l, l = (IF Way(h, n, k) = "mid" THEN n ELSE lev)
  PROVE  n \in U /\ x \in U \cup {0} /\ l \in U \cup {0} /\ (x # 0 => x \in S[h[l].mid])
  <1>1. LooseFacts(h, U, T, S)
    BY LooseFactsAre
  <1>2. n \in U
    BY <1>1 DEF LooseFacts
  <1>3. x \in U \cup {0} /\ l \in U \cup {0}
    BY <1>1, <1>2, WayIs DEF LooseFacts
  <1>4. CASE Way(h, n, k) = "mid"
    <2>1. x = h[n].mid /\ l = n
      BY <1>4
    <2> QED BY <1>1, <1>2, <1>3, <2>1 DEF LooseFacts
  <1>5. CASE Way(h, n, k) # "mid"
    <2>1. PICK s \in Around : x = h[n][s] /\ l = lev
      BY <1>5, WayIs
    <2>2. h[lev].mid \in U
      BY <1>1 DEF LooseFacts
    <2>3. x # 0 => x \in S[h[lev].mid]
      BY <2>1, <2>2, SonInLevel
    <2> QED BY <1>2, <1>3, <2>1, <2>3
  <1> QED BY <1>4, <1>5

\* Where the search for a key ends, and the level.
Located(h, U, S, k, r) ==
  /\ r.node \in U \cup {0} /\ r.lev \in U \cup {0}
  /\ r.node # 0 => AtItem(h, r.node, k) /\ r.node \in S[h[r.lev].mid]
LEMMA LocateFrom ==
  ASSUME NEW h, NEW U, NEW T, NEW S, Loose(h, U, T, S, NoNode), NEW k
  PROVE  \A n \in U : \A lev \in U \cup {0}, last \in DOMAIN h :
           n \in S[h[lev].mid] => /\ Located(h, U, S, k, Locate(h, k, n, lev))
                                  /\ Descend(h, k, n, last).node = Locate(h, k, n, lev).node
                                  /\ Descend(h, k, n, last).last \in DOMAIN h
                                  /\ Descend(h, k, n, last).node = 0 => Descend(h, k, n, last).last \in U
  <1>1. LooseFacts(h, U, T, S) /\ Wired(h, U, NoNode) /\ Bounded(h, U, T, NoNode) /\ IsHeap(h)
    BY LooseFactsAre DEF Loose, Wired
  <1> DEFINE Ends(n, lev, last) ==
               /\ Located(h, U, S, k, Locate(h, k, n, lev))
               /\ Descend(h, k, n, last).node = Locate(h, k, n, lev).node
               /\ Descend(h, k, n, last).last \in DOMAIN h
               /\ Descend(h, k, n, last).node = 0 => Descend(h, k, n, last).last \in U
             W == {n \in U : \A lev \in U \cup {0}, last \in DOMAIN h : n \in S[h[lev].mid] => Ends(n, lev, last)}
  <1>2. ASSUME NEW n \in U, \A s \in Sides : Son(h, NoNode, n, s) \in U => Son(h, NoNode, n, s) \in W,
               NEW lev \in U \cup {0}, NEW last \in DOMAIN h, n \in S[h[lev].mid]
        PROVE  Ends(n, lev, last)
    <2>1. n \in DOMAIN h /\ lev \in DOMAIN h /\ n # 0 /\ 0 \in DOMAIN h
      BY <1>1 DEF LooseFacts
    <2>2. CASE AtItem(h, n, k)
      <3>1. Locate(h, k, n, lev) = [node |-> n, lev |-> lev]
        BY <1>1, <2>1, <2>2, LocateIs
      <3>2. Descend(h, k, n, last) = [node |-> n, last |-> last]
        BY <1>1, <2>1, <2>2, DescendIs
      <3> QED BY <1>2, <2>1, <2>2, <3>1, <3>2 DEF Located
    <2>3. CASE ~AtItem(h, n, k)
      <3>1. PICK x, l : x = h[n][Way(h, n, k)] /\ l = (IF Way(h, n, k) = "mid" THEN n ELSE lev)
        OBVIOUS
      <3>2. Locate(h, k, n, lev) = Locate(h, k, x, l)
        BY <1>1, <2>1, <2>3, <3>1, LocateIs
      <3>3. Descend(h, k, n, last) = Descend(h, k, x, n)
        BY <1>1, <2>1, <2>3, <3>1, DescendIs
      <3>4. x \in U \cup {0} /\ l \in U \cup {0} /\ (x # 0 => x \in S[h[l].mid])
        BY <1>2, <3>1, StepDown
      <3>5. CASE x = 0
        <4>1. Locate(h, k, 0, l) = [node |-> 0, lev |-> l] /\ Descend(h, k, 0, n) = [node |-> 0, last |-> n]
          <5>1. l \in DOMAIN h
            BY <1>1, <3>4 DEF LooseFacts
          <5>2. \A z \in DOMAIN h : z = 0 => Locate(h, k, z, l) = [node |-> z, lev |-> l]
            BY <1>1, <5>1, LocateIs
          <5>3. \A z \in DOMAIN h : z = 0 => Descend(h, k, z, n) = [node |-> z, last |-> n]
            BY <1>1, <2>1, DescendIs
          <5> QED BY <2>1, <5>2, <5>3
        <4> QED BY <2>1, <3>2, <3>3, <3>4, <3>5, <4>1 DEF Located
      <3>6. CASE x # 0
        <4>1. x = Son(h, NoNode, n, Way(h, n, k)) /\ Way(h, n, k) \in Sides
          BY <1>1, <3>1, WayIs DEF LooseFacts
        <4>2. x \in W
          BY <1>2, <3>4, <3>6, <4>1
        <4>3. Ends(x, l, n)
          BY <2>1, <3>4, <3>6, <4>2
        <4> QED BY <3>2, <3>3, <4>3
      <3> QED BY <3>4, <3>5, <3>6
    <2> QED BY <2>2, <2>3
  <1>3. \A n \in U : (\A s \in Sides : Son(h, NoNode, n, s) \in U => Son(h, NoNode, n, s) \in W) => n \in W
    BY <1>2
  <1>4. U \subseteq W
    <2> HIDE DEF W
    <2> QED BY <1>1, <1>3, NodeInduction
  <1> QED BY <1>4

\* The way of a key at a node is the side its item is on.
LEMMA WayOn ==
  ASSUME NEW h, NEW U, NEW T, NEW S, Loose(h, U, T, S, NoNode), NEW n \in U, NEW w \in S[n], NEW k, Byte(k, h[n].index) = h[w].cbyte
  PROVE  (w = n /\ Way(h, n, k) = "mid") \/ \E s \in Around : w \in S[h[n][s]] /\ Way(h, n, k) = s
  <1>1. LooseFacts(h, U, T, S) /\ Levels(h, U, S) /\ Sorted(h, U, S, NoNode)
    BY LooseFactsAre DEF Loose
  <1>2. S[n] = {n} \cup S[h[n]["left"]] \cup S[h[n]["right"]] /\ n \in U \ {NoNode} /\ w \in U /\ w # NoNode
    BY <1>1 DEF Levels, LooseFacts
  <1>3. h[n].cbyte \in Int /\ h[w].cbyte \in Int
    BY <1>1, <1>2, HeapFields DEF LooseFacts
  <1>4. CASE w = n
    BY <1>3, <1>4 DEF Way
  <1>5. CASE w \in S[h[n]["left"]]
    <2>1. h[w].cbyte < h[n].cbyte
      BY <1>1, <1>2, <1>5 DEF Sorted
    <2>2. Way(h, n, k) = "left"
      BY <2>1 DEF Way
    <2> QED BY <1>5, <2>2 DEF Around
  <1>6. CASE w \in S[h[n]["right"]]
    <2>1. h[w].cbyte > h[n].cbyte
      BY <1>1, <1>2, <1>6 DEF Sorted
    <2>2. Way(h, n, k) = "right"
      BY <1>3, <2>1 DEF Way
    <2> QED BY <1>6, <2>2 DEF Around
  <1> QED BY <1>2, <1>4, <1>5, <1>6

\* A node of the tree with a key.
HasKey(h, U, V, y) == y \in U /\ y \notin V /\ h[y].mid = 0

\* The way of the key of y, at a node over y, goes to y.
LEMMA WayTo ==
  ASSUME NEW h, NEW U, NEW T, NEW S, NEW V, Shape(h, U, T, S, NoNode), Keys(h, U, T, S, NoNode, V), NEW y, HasKey(h, U, V, y),
         NEW lev \in U \cup {0}, NEW n \in S[h[lev].mid], y \in T[n], NEW k, k = h[y].item,
         NEW x, x = h[n][Way(h, n, k)]
  PROVE  (AtItem(h, n, k) /\ y = n) \/ (~AtItem(h, n, k) /\ x \in U /\ y \in T[x])
  <1>1. Loose(h, U, T, S, NoNode) /\ LooseFacts(h, U, T, S) /\ h[y].mid = 0 /\ y \in U /\ y \notin V
    BY LooseFactsAre DEF Shape, HasKey
  <1>2. n \in U /\ h[lev].mid \in U /\ S[n] \subseteq U /\ NoNode \notin U
    BY <1>1 DEF LooseFacts
  <1>3. PICK w \in S[n] : y = w \/ y \in T[h[w].mid]
    <2>1. PICK w \in S[n] : y = w \/ y \in T[Mid(h, NoNode, w)]
      BY <1>2, Spread
    <2>2. w \in U
      BY <1>2
    <2>3. Mid(h, NoNode, w) = h[w].mid
      BY <1>1, <2>2 DEF LooseFacts
    <2> QED BY <2>1, <2>3
  <1>4. w \in U
    BY <1>2
  <1>5. h[w].index = h[n].index
    <2>1. S[n] \subseteq S[h[lev].mid]
      BY <1>1, <1>2, LevelIs
    <2>2. w \in S[h[lev].mid] \ {NoNode} /\ n \in S[h[lev].mid] \ {NoNode} /\ lev \in (U \cup {0}) \ {NoNode}
      BY <1>1, <1>2, <1>4, <2>1 DEF LooseFacts
    <2> QED BY <2>2 DEF Keys, Aligned
  <1>6. Byte(k, h[w].index) = h[w].cbyte
    <2>1. Spelled(h, U, T, NoNode, V) /\ w \in U \ {NoNode}
      BY <1>2, <1>4 DEF Keys
    <2>2. CASE y = w
      BY <1>1, <2>1, <2>2 DEF Spelled
    <2>3. CASE y \in T[h[w].mid]
      <3>1. y \in Keyed(h, T, V, NoNode, w)
        BY <1>1, <1>2, <2>3 DEF Keyed
      <3> QED BY <2>1, <3>1 DEF Spelled
    <2> QED BY <1>3, <2>2, <2>3
  <1>7. Byte(k, h[n].index) = h[w].cbyte
    BY <1>5, <1>6
  <1>8. CASE w = n /\ Way(h, n, k) = "mid"
    <2>1. h[n].mid \in U \cup {0} /\ T[0] = {} /\ h[n]["mid"] = h[n].mid
      BY <1>1, <1>2 DEF LooseFacts
    <2>2. CASE h[n].mid = 0
      BY <1>3, <1>8, <2>1, <2>2 DEF AtItem
    <2>3. CASE h[n].mid # 0
      BY <1>1, <1>3, <1>8, <2>1, <2>3 DEF AtItem
    <2> QED BY <2>2, <2>3
  <1>9. ASSUME NEW s \in Around, w \in S[h[n][s]], Way(h, n, k) = s PROVE ~AtItem(h, n, k) /\ x \in U /\ y \in T[x]
    <2>1. x = h[n][s] /\ s \in Sides /\ s # "mid"
      BY <1>9 DEF Around, Sides
    <2>2. x \in U /\ w \in S[x]
      BY <1>1, <1>2, <1>9, <2>1 DEF LooseFacts
    <2>3. w \in T[x]
      BY <1>1, <2>2, LevelIs
    <2>4. T[w] \subseteq T[x]
      BY <2>2, <2>3, UnderIs
    <2>5. T[h[w].mid] \subseteq T[w] /\ w \in T[w]
      <3>1. Son(h, NoNode, w, "mid") = h[w].mid /\ "mid" \in Sides
        BY <1>1, <1>4 DEF Son, Sides, LooseFacts
      <3> QED BY <1>1, <1>4, <3>1 DEF Loose, Bounded
    <2> QED BY <1>3, <1>9, <2>1, <2>2, <2>4, <2>5 DEF AtItem
  <1> QED BY <1>2, <1>7, <1>8, <1>9, <1>1, WayOn

\* So the search for it ends at y.
LEMMA DescendTo ==
  ASSUME NEW h, NEW U, NEW T, NEW S, NEW V, Shape(h, U, T, S, NoNode), Keys(h, U, T, S, NoNode, V), NEW y, HasKey(h, U, V, y),
         NEW k, k = h[y].item
  PROVE  \A n \in U : \A lev \in U \cup {0}, last \in DOMAIN h :
           n \in S[h[lev].mid] /\ y \in T[n] => Descend(h, k, n, last).node = y
  <1>1. /\ Loose(h, U, T, S, NoNode) /\ LooseFacts(h, U, T, S) /\ Wired(h, U, NoNode) /\ Bounded(h, U, T, NoNode) /\ IsHeap(h)
    BY LooseFactsAre DEF Shape, Loose, Wired
  <1> DEFINE W == {n \in U : \A lev \in U \cup {0}, last \in DOMAIN h : n \in S[h[lev].mid] /\ y \in T[n] => Descend(h, k, n, last).node = y}
  <1>2. ASSUME NEW n \in U, \A s \in Sides : Son(h, NoNode, n, s) \in U => Son(h, NoNode, n, s) \in W,
               NEW lev \in U \cup {0}, NEW last \in DOMAIN h, n \in S[h[lev].mid], y \in T[n]
        PROVE  Descend(h, k, n, last).node = y
    <2>1. n \in DOMAIN h /\ n # 0
      BY <1>1 DEF LooseFacts
    <2>2. PICK x, l : x = h[n][Way(h, n, k)] /\ l = (IF Way(h, n, k) = "mid" THEN n ELSE lev)
      OBVIOUS
    <2>3. (AtItem(h, n, k) /\ y = n) \/ (~AtItem(h, n, k) /\ x \in U /\ y \in T[x])
      BY <1>2, <2>2, WayTo
    <2>4. CASE AtItem(h, n, k)
      <3>1. Descend(h, k, n, last) = [node |-> n, last |-> last]
        BY <1>1, <2>1, <2>4, DescendIs
      <3> QED BY <2>3, <2>4, <3>1
    <2>5. CASE ~AtItem(h, n, k)
      <3>1. Descend(h, k, n, last) = Descend(h, k, x, n)
        BY <1>1, <2>1, <2>2, <2>5, DescendIs
      <3>2. x = Son(h, NoNode, n, Way(h, n, k)) /\ Way(h, n, k) \in Sides
        BY <1>1, <2>2, WayIs DEF LooseFacts
      <3>3. x \in W /\ x \in U /\ y \in T[x]
        BY <1>2, <2>3, <2>5, <3>2
      <3>4. l \in U \cup {0} /\ x \in S[h[l].mid]
        <4>1. x # 0
          BY <1>1, <3>3 DEF LooseFacts
        <4>2. l \in U \cup {0} /\ (x # 0 => x \in S[h[l].mid])
          BY <1>1, <1>2, <2>2, StepDown
        <4> QED BY <4>1, <4>2
      <3> QED BY <2>1, <3>1, <3>3, <3>4
    <2> QED BY <2>4, <2>5
  <1>3. \A n \in U : (\A s \in Sides : Son(h, NoNode, n, s) \in U => Son(h, NoNode, n, s) \in W) => n \in W
    BY <1>2
  <1>4. U \subseteq W
    <2> HIDE DEF W
    <2> QED BY <1>1, <1>3, NodeInduction
  <1> QED BY <1>4

GoodFacts(h, U, T, S, V) ==
  /\ Shape(h, U, T, S, NoNode) /\ Loose(h, U, T, S, NoNode) /\ LooseFacts(h, U, T, S) /\ Keys(h, U, T, S, NoNode, V) /\ U = T[h[0].mid]
  /\ IsHeap(h) /\ 0 \in DOMAIN h /\ 0 \in U \cup {0}
  /\ \A y : HasKey(h, U, V, y) <=> y \in Keyed(h, T, V, NoNode, 0)
  /\ h[0].mid \in U \cup {0} /\ (h[0].mid # 0 => h[0].mid \in S[h[0].mid]) /\ (h[0].mid = 0 => U = {})
LEMMA GoodFactsAre ==
  ASSUME NEW h, NEW U, NEW T, NEW S, NEW b, NEW V, Good(h, U, T, S, b, V)
  PROVE  GoodFacts(h, U, T, S, V)
  <1>1. Shape(h, U, T, S, NoNode) /\ Loose(h, U, T, S, NoNode) /\ Keys(h, U, T, S, NoNode, V) /\ U = T[h[0].mid]
    BY DEF Good, Shape
  <1>2. LooseFacts(h, U, T, S)
    BY <1>1, LooseFactsAre
  <1>3. IsHeap(h) /\ 0 \in DOMAIN h /\ h[0].mid \in U \cup {0} /\ T[0] = {} /\ NoNode \notin U
    BY <1>2 DEF LooseFacts
  <1>4. h[0].mid # 0 => h[0].mid \in S[h[0].mid]
    BY <1>2, <1>3 DEF LooseFacts
  <1>5. \A y : HasKey(h, U, V, y) <=> y \in Keyed(h, T, V, NoNode, 0)
    BY <1>1, <1>3 DEF HasKey, Keyed
  <1> QED BY <1>1, <1>2, <1>3, <1>4, <1>5 DEF GoodFacts

\* A node whose byte the key has is not the one that is left of a tree without keys.
LEMMA ItemHasKey ==
  ASSUME NEW h, NEW U, NEW T, NEW S, NEW V, GoodFacts(h, U, T, S, V), NEW x \in U, NEW k, AtItem(h, x, k)
  PROVE  HasKey(h, U, V, x)
  <1>1. h[x].mid = 0 /\ Byte(k, h[x].index) = h[x].cbyte
    <2>1. x \in DOMAIN h
      BY DEF GoodFacts, LooseFacts
    <2>2. Way(h, x, k) = "mid" /\ h[x].mid = 0
      BY DEF AtItem
    <2> QED BY <2>2 DEF Way
  <1>2. x \notin V
    <2> SUFFICES ASSUME x \in V PROVE FALSE
      OBVIOUS
    <2>1. Left(h, S, NoNode, V) /\ First(h, S, NoNode, V)
      BY DEF GoodFacts, Keys
    <2>2. V = {x} /\ x \in S[h[0].mid] \ {NoNode} /\ h[x].cbyte # 0
      BY <2>1 DEF Left
    <2>3. h[x].index = Taken
      BY <2>1, <2>2 DEF First
    <2> QED BY <1>1, <2>2, <2>3 DEF Byte, Taken
  <1> QED BY <1>1, <1>2 DEF HasKey

\* A search from the root ends at the node of the key, or the key is not there.
LEMMA DescendKey ==
  ASSUME NEW h, NEW U, NEW T, NEW S, NEW V, GoodFacts(h, U, T, S, V), NEW last \in DOMAIN h, NEW k
  PROVE  /\ Descend(h, k, h[0].mid, last).node = 0 \/ HasKey(h, U, V, Descend(h, k, h[0].mid, last).node)
         /\ Descend(h, k, h[0].mid, last).node = Locate(h, k, h[0].mid, 0).node
         /\ \A y : HasKey(h, U, V, y) /\ h[y].item = k => Descend(h, k, h[0].mid, last).node = y
         /\ Locate(h, k, h[0].mid, 0).node # 0 => Located(h, U, S, k, Locate(h, k, h[0].mid, 0))
  <1>1. /\ Shape(h, U, T, S, NoNode) /\ Loose(h, U, T, S, NoNode) /\ LooseFacts(h, U, T, S) /\ Keys(h, U, T, S, NoNode, V) /\ U = T[h[0].mid]
        /\ IsHeap(h) /\ 0 \in DOMAIN h /\ 0 \in U \cup {0}
        /\ h[0].mid \in U \cup {0} /\ (h[0].mid # 0 => h[0].mid \in S[h[0].mid]) /\ (h[0].mid = 0 => U = {})
    BY DEF GoodFacts
  <1>2. PICK r : r = h[0].mid
    OBVIOUS
  <1>3. CASE r = 0
    <2>1. Descend(h, k, r, last) = [node |-> r, last |-> last]
      <3>1. \A z \in DOMAIN h : z = 0 => Descend(h, k, z, last) = [node |-> z, last |-> last]
        <4>1. IsHeap(h)
          BY <1>1
        <4> SUFFICES ASSUME NEW z \in DOMAIN h, z = 0 PROVE Descend(h, k, z, last) = [node |-> z, last |-> last]
          OBVIOUS
        <4>2. Descend(h, k, z, last) =
                IF z = 0 \/ AtItem(h, z, k) THEN [node |-> z, last |-> last] ELSE Descend(h, k, h[z][Way(h, z, k)], z)
          BY <4>1, DescendIs
        <4> QED BY <4>2
      <3> QED BY <1>1, <1>3, <3>1
    <2>2. Locate(h, k, r, 0) = [node |-> r, lev |-> 0]
      <3>1. Locate(h, k, 0, 0) = [node |-> 0, lev |-> 0]
        <4>1. \A z \in DOMAIN h : z = 0 => Locate(h, k, z, 0) = [node |-> z, lev |-> 0]
          <5>1. IsHeap(h) /\ 0 \in DOMAIN h
            BY <1>1
          <5> QED BY <5>1, LocateIs
        <4>2. 0 \in DOMAIN h
          BY <1>1
        <4> QED BY <4>1, <4>2
      <3> QED BY <1>3, <3>1
    <2> QED BY <1>1, <1>2, <1>3, <2>1, <2>2 DEF HasKey
  <1>4. CASE r # 0
    <2>1. r \in U /\ r \in S[h[0].mid]
      BY <1>1, <1>2, <1>4
    <2>2. /\ Located(h, U, S, k, Locate(h, k, r, 0))
          /\ Descend(h, k, r, last).node = Locate(h, k, r, 0).node
      BY <1>1, <2>1, LocateFrom
    <2>3. \A y : HasKey(h, U, V, y) /\ h[y].item = k => Descend(h, k, r, last).node = y
      <3> SUFFICES ASSUME NEW y, HasKey(h, U, V, y), h[y].item = k PROVE Descend(h, k, r, last).node = y
        OBVIOUS
      <3>1. y \in T[r]
        BY <1>1, <1>2 DEF HasKey
      <3> QED BY <1>1, <2>1, <3>1, DescendTo
    <2>4. PICK x : x = Locate(h, k, r, 0).node
      OBVIOUS
    <2>5. x # 0 => HasKey(h, U, V, x)
      <3>1. x # 0 => x \in U /\ AtItem(h, x, k)
        BY <2>2, <2>4 DEF Located
      <3> QED BY <3>1, ItemHasKey
    <2> QED BY <1>2, <2>2, <2>3, <2>4, <2>5
  <1> QED BY <1>3, <1>4

(***************************************************************************)
(* search finds the keys of the tree, and no others.                       *)
(***************************************************************************)
THEOREM FoundIs ==
  ASSUME NEW h, NEW U, NEW T, NEW S, NEW b, NEW V, Good(h, U, T, S, b, V), NEW k, k # NoKey
  PROVE  Found(h, k) <=> k \in KeysOf(h, T, V, NoNode)
  <1>1. GoodFacts(h, U, T, S, V)
    BY GoodFactsAre
  <1>2. 0 \in DOMAIN h
    BY <1>1 DEF GoodFacts
  <1>3. PICK x : x = Descend(h, k, h[0].mid, 0).node
    OBVIOUS
  <1>4. /\ x = 0 \/ HasKey(h, U, V, x)
        /\ \A y : HasKey(h, U, V, y) /\ h[y].item = k => x = y
    BY <1>1, <1>2, <1>3, DescendKey
  <1>5. Found(h, k) <=> x # 0 /\ h[x].item = k
    BY <1>3 DEF Found
  <1>6. \A y : HasKey(h, U, V, y) <=> y \in Keyed(h, T, V, NoNode, 0)
    BY <1>1 DEF GoodFacts
  <1>7. \A y : HasKey(h, U, V, y) => y # 0
    BY <1>1 DEF GoodFacts, LooseFacts, HasKey
  <1> QED BY <1>4, <1>5, <1>6, <1>7 DEF KeysOf

\* What remove comes to, by what it returns.
Removes(r, t, N, K, k, m) ==
  /\ r.ret \in {k, NoKey}
  /\ r.ret = NoKey => r.t = t /\ (k # NoKey => k \notin K)
  /\ r.ret # NoKey => \E W : Settled(r.t, t, N, K \ {k}, W, m)

(***************************************************************************)
(* remove: the tree stays whole, without the key if it was there, and the  *)
(* pool accounts for its nodes.                                            *)
(***************************************************************************)
THEOREM RemoveSettles ==
  ASSUME NEW t, NEW h, NEW idle, NEW cost, NEW N, IsRec(t, h, idle, cost, N), NEW U, NEW T, NEW S, NEW b, NEW V, Good(h, U, T, S, b, V),
         NEW m, Pool(idle, cost, U, m), NEW k, NEW r, r = remove(t, k)
  PROVE  Removes(r, t, N, KeysOf(h, T, V, NoNode), k, m)
  <1>1. t.h = h
    BY DEF IsRec
  <1>2. GoodFacts(h, U, T, S, V)
    BY GoodFactsAre
  <1>3. 0 \in DOMAIN h
    BY <1>2 DEF GoodFacts
  <1>4. PICK at : at = Locate(h, k, h[0].mid, 0)
    OBVIOUS
  <1>5. PICK x : x = at.node
    OBVIOUS
  <1>6. /\ x = 0 \/ HasKey(h, U, V, x)
        /\ \A y : HasKey(h, U, V, y) /\ h[y].item = k => x = y
        /\ x # 0 => Located(h, U, S, k, at)
    <2>1. /\ Descend(h, k, h[0].mid, 0).node = 0 \/ HasKey(h, U, V, Descend(h, k, h[0].mid, 0).node)
          /\ Descend(h, k, h[0].mid, 0).node = Locate(h, k, h[0].mid, 0).node
          /\ \A y : HasKey(h, U, V, y) /\ h[y].item = k => Descend(h, k, h[0].mid, 0).node = y
          /\ Locate(h, k, h[0].mid, 0).node # 0 => Located(h, U, S, k, Locate(h, k, h[0].mid, 0))
      BY <1>2, <1>3, DescendKey
    <2> QED BY <1>4, <1>5, <2>1
  <1>7. r = IF k = NoKey \/ x = 0 THEN [ret |-> NoKey, t |-> t]
            ELSE IF h[x].item # k THEN [ret |-> NoKey, t |-> t]
            ELSE [ret |-> k, t |-> Unlink(t, x, at.lev)]
    BY <1>1, <1>4, <1>5 DEF remove
  <1>8. \A y : HasKey(h, U, V, y) <=> y \in Keyed(h, T, V, NoNode, 0)
    BY <1>2 DEF GoodFacts
  <1>9. \A y : HasKey(h, U, V, y) => y # 0
    BY <1>2 DEF GoodFacts, LooseFacts, HasKey
  <1>10. CASE k = NoKey
    BY <1>7, <1>10 DEF Removes
  <1>11. CASE k # NoKey /\ (x = 0 \/ h[x].item # k)
    <2>1. k \notin KeysOf(h, T, V, NoNode)
      BY <1>6, <1>8, <1>9, <1>11 DEF KeysOf
    <2> QED BY <1>7, <1>11, <2>1 DEF Removes
  <1>12. CASE k # NoKey /\ x # 0 /\ h[x].item = k
    <2>1. r.ret = k /\ r.t = Unlink(t, x, at.lev)
      BY <1>7, <1>12
    <2>2. Picked(h, U, T, S, b, V, at.lev, x)
      <3>1. at.lev \in U \cup {0} /\ x \in S[h[at.lev].mid]
        BY <1>5, <1>6, <1>12 DEF Located
      <3>2. h[x].mid = 0 /\ x \notin V
        BY <1>6, <1>12 DEF HasKey
      <3>3. \A y \in Keyed(h, T, V, NoNode, 0) : h[y].item = h[x].item => y = x
        BY <1>6, <1>8, <1>12
      <3> QED BY <3>1, <3>2, <3>3 DEF Picked
    <2>3. \E W : Settled(Unlink(t, x, at.lev), t, N, KeysOf(h, T, V, NoNode) \ {h[x].item}, W, m)
      BY <2>2, UnlinkSettles
    <2> QED BY <1>12, <2>1, <2>3 DEF Removes
  <1> QED BY <1>10, <1>11, <1>12 DEF Removes

(***************************************************************************)
(* A red leaf is added beside p.                                           *)
(***************************************************************************)
Grown(g, h, p, side, new, k) ==
  /\ IsHeap(g) /\ DOMAIN g = DOMAIN h
  /\ g[new].index = h[p].index /\ g[new].cbyte = Byte(k, h[p].index) /\ g[new].item = k /\ g[new].color = RED /\ g[new].parent = p
  /\ \A s \in Sides : g[new][s] = 0
  /\ \A y \in DOMAIN h \ {new} :
       /\ SameData(g, h, y) /\ g[y].color = h[y].color /\ g[y].parent = h[y].parent
       /\ \A s \in Sides : g[y][s] = IF y = p /\ s = side THEN new ELSE h[y][s]
\* The byte of the leaf is between those of the nodes around.
Fits(h, U, S, p, side, c) ==
  /\ Ahead(side, c, h[p].cbyte)
  /\ \A x \in U : \A s \in Around : p \in S[h[x][s]] => Ahead(s, c, h[x].cbyte)
Growing(g, h, U, T, S, p, side, new, k) ==
  /\ Shape(h, U, T, S, NoNode) /\ p \in U /\ side \in Around /\ h[p][side] = 0 /\ new \in DOMAIN h /\ new \notin U /\ new # 0
  /\ Grown(g, h, p, side, new, k) /\ Fits(h, U, S, p, side, Byte(k, h[p].index))
\* What is under the nodes then.
More(T, p, new) == [x \in DOMAIN T |-> IF x = new THEN {new} ELSE IF p \in T[x] THEN T[x] \cup {new} ELSE T[x]]
LEMMA MoreIs ==
  ASSUME NEW D, NEW T \in [D -> SUBSET D], NEW p, NEW new \in D, NEW R, R = More(T, p, new)
  PROVE  R \in [D -> SUBSET D] /\ R[new] = {new} /\ \A x \in D : x # new => R[x] = IF p \in T[x] THEN T[x] \cup {new} ELSE T[x]
  BY DEF More

GrowFacts(g, h, U, T, S, p, side, new, R, Q) ==
  /\ Shape(h, U, T, S, NoNode) /\ Loose(h, U, T, S, NoNode) /\ Wired(h, U, NoNode) /\ LooseFacts(h, U, T, S)
  /\ p \in U /\ p # 0 /\ side \in Around /\ h[p][side] = 0 /\ new \in DOMAIN h /\ new \notin U /\ new # 0 /\ new # p /\ new # NoNode
  /\ IsHeap(g) /\ DOMAIN g = DOMAIN h /\ 0 \in DOMAIN h
  /\ \A x \in U \cup {0} : x \in DOMAIN h /\ x # new /\ g[x].mid = h[x].mid /\ h[x].mid \in U \cup {0} /\ h[x].mid # new
  /\ g[new]["left"] = 0 /\ g[new].mid = 0 /\ g[new]["right"] = 0
  /\ \A x \in U : \A s \in Sides : g[x][s] = (IF x = p /\ s = side THEN new ELSE h[x][s]) /\ h[x][s] \in U \cup {0} /\ h[x][s] # new
  /\ R \in [DOMAIN h -> SUBSET DOMAIN h] /\ Q \in [DOMAIN h -> SUBSET DOMAIN h] /\ R[new] = {new} /\ Q[new] = {new} /\ R[0] = {} /\ Q[0] = {}
  /\ \A x \in U \cup {0} : /\ R[x] = IF p \in T[x] THEN T[x] \cup {new} ELSE T[x]
                           /\ Q[x] = IF p \in S[x] THEN S[x] \cup {new} ELSE S[x]
                           /\ T[x] \subseteq U /\ S[x] \subseteq U /\ new \notin T[x] /\ new \notin S[x]
LEMMA GrowFactsAre ==
  ASSUME NEW g, NEW h, NEW U, NEW T, NEW S, NEW p, NEW side, NEW new, NEW k, Growing(g, h, U, T, S, p, side, new, k),
         NEW R, NEW Q, R = More(T, p, new), Q = More(S, p, new)
  PROVE  GrowFacts(g, h, U, T, S, p, side, new, R, Q)
  <1>1. /\ Shape(h, U, T, S, NoNode) /\ Loose(h, U, T, S, NoNode) /\ Wired(h, U, NoNode) /\ Bounded(h, U, T, NoNode) /\ Levels(h, U, S)
        /\ p \in U /\ side \in Around /\ h[p][side] = 0 /\ new \in DOMAIN h /\ new \notin U /\ new # 0 /\ Grown(g, h, p, side, new, k)
    BY DEF Growing, Shape, Loose
  <1>2. LooseFacts(h, U, T, S)
    BY <1>1, LooseFactsAre
  <1>3. /\ 0 \in DOMAIN h /\ NoNode \notin U \cup {0} /\ 0 \notin U /\ T[0] = {} /\ S[0] = {}
        /\ \A x \in U \cup {0} : x \in DOMAIN h /\ h[x].mid \in U \cup {0}
        /\ \A x \in U : (\A s \in Sides : h[x][s] \in U \cup {0}) /\ S[x] \subseteq U
    BY <1>2 DEF LooseFacts
  <1>4. p # 0 /\ new # p /\ NoNode \notin DOMAIN h /\ new # NoNode
    BY <1>1, <1>3 DEF Wired
  <1>5. IsHeap(g) /\ DOMAIN g = DOMAIN h /\ g[new]["left"] = 0 /\ g[new].mid = 0 /\ g[new]["right"] = 0
    <2>1. IsHeap(g) /\ DOMAIN g = DOMAIN h /\ \A s \in Sides : g[new][s] = 0
      BY <1>1 DEF Grown
    <2> QED BY <2>1 DEF Sides
  <1>6. \A x \in U \cup {0} : \A s \in Sides : g[x][s] = IF x = p /\ s = side THEN new ELSE h[x][s]
    <2>1. \A x \in U \cup {0} : x \in DOMAIN h \ {new}
      BY <1>1, <1>3
    <2> QED BY <1>1, <2>1 DEF Grown
  <1>7. \A x \in U \cup {0} : x \in DOMAIN h /\ x # new /\ g[x].mid = h[x].mid /\ h[x].mid \in U \cup {0} /\ h[x].mid # new
    <2>1. "mid" # side /\ "mid" \in Sides
      BY <1>1 DEF Around, Sides
    <2>2. \A x \in U \cup {0} : g[x]["mid"] = h[x]["mid"]
      BY <1>6, <2>1
    <2> QED BY <1>1, <1>3, <2>2
  <1>8. \A x \in U : \A s \in Sides : g[x][s] = (IF x = p /\ s = side THEN new ELSE h[x][s]) /\ h[x][s] \in U \cup {0} /\ h[x][s] # new
    BY <1>1, <1>3, <1>6
  <1>9. \A x \in U : T[x] \subseteq U
    BY <1>1, UnderIs
  <1>10. /\ R \in [DOMAIN h -> SUBSET DOMAIN h] /\ R[new] = {new}
         /\ \A x \in DOMAIN h : x # new => R[x] = IF p \in T[x] THEN T[x] \cup {new} ELSE T[x]
    <2>1. T \in [DOMAIN h -> SUBSET DOMAIN h] /\ new \in DOMAIN h
      BY <1>1 DEF Bounded
    <2> QED BY <2>1, MoreIs
  <1>11. /\ Q \in [DOMAIN h -> SUBSET DOMAIN h] /\ Q[new] = {new}
         /\ \A x \in DOMAIN h : x # new => Q[x] = IF p \in S[x] THEN S[x] \cup {new} ELSE S[x]
    <2>1. S \in [DOMAIN h -> SUBSET DOMAIN h] /\ new \in DOMAIN h /\ Q = More(S, p, new)
      BY <1>1 DEF Levels
    <2> QED BY ONLY <2>1, MoreIs
  <1>12. \A x \in U \cup {0} : T[x] \subseteq U /\ S[x] \subseteq U /\ new \notin T[x] /\ new \notin S[x]
    BY <1>1, <1>3, <1>9
  <1>13. R[0] = {} /\ Q[0] = {}
    BY <1>1, <1>3, <1>10, <1>11
  <1>14. \A x \in U \cup {0} : /\ R[x] = IF p \in T[x] THEN T[x] \cup {new} ELSE T[x]
                               /\ Q[x] = IF p \in S[x] THEN S[x] \cup {new} ELSE S[x]
    BY <1>7, <1>10, <1>11
  <1> QED BY <1>1, <1>2, <1>3, <1>4, <1>5, <1>7, <1>8, <1>10, <1>11, <1>12, <1>13, <1>14 DEF GrowFacts

LEMMA GrowWired ==
  ASSUME NEW g, NEW h, NEW U, NEW T, NEW S, NEW p, NEW side, NEW new, NEW k, Growing(g, h, U, T, S, p, side, new, k)
  PROVE  Wired(g, U \cup {new}, NoNode)
  <1>1. PICK R, Q : R = More(T, p, new) /\ Q = More(S, p, new)
    OBVIOUS
  <1>2. GrowFacts(g, h, U, T, S, p, side, new, R, Q)
    BY <1>1, GrowFactsAre
  <1>3. /\ Wired(h, U, NoNode) /\ p \in U /\ p # 0 /\ side \in Around /\ h[p][side] = 0 /\ new \in DOMAIN h /\ new \notin U /\ new # 0
        /\ new # p /\ new # NoNode /\ IsHeap(g) /\ DOMAIN g = DOMAIN h
        /\ \A x \in U \cup {0} : x \in DOMAIN h /\ x # new /\ g[x].mid = h[x].mid /\ h[x].mid \in U \cup {0} /\ h[x].mid # new
        /\ g[new]["left"] = 0 /\ g[new].mid = 0 /\ g[new]["right"] = 0
        /\ \A x \in U : \A s \in Sides : g[x][s] = (IF x = p /\ s = side THEN new ELSE h[x][s]) /\ h[x][s] \in U \cup {0} /\ h[x][s] # new
    BY <1>2 DEF GrowFacts
  <1>4. /\ g[new].parent = p /\ g[new].color = RED
        /\ \A y \in U \cup {0} : g[y].color = h[y].color /\ g[y].parent = h[y].parent
    BY <1>3 DEF Growing, Grown
  <1>5. 0 \in DOMAIN h /\ h[0]["left"] = 0 /\ h[0]["right"] = 0 /\ h[0].color = BLACK /\ 0 \notin U /\ NoNode \notin U \cup {0} /\ IsFiniteSet(DOMAIN h)
        /\ U \subseteq DOMAIN h \ {0} /\ NoNode \notin DOMAIN h
    BY <1>2, <1>3 DEF Wired, GrowFacts, LooseFacts
  <1>6. g[0]["left"] = 0 /\ g[0]["right"] = 0 /\ g[0].color = BLACK
    <2>1. 0 \in DOMAIN h \ {new}
      BY <1>3, <1>5
    <2>2. \A s \in Sides : g[0][s] = IF 0 = p /\ s = side THEN new ELSE h[0][s]
      BY <2>1 DEF Growing, Grown
    <2> QED BY <1>3, <1>4, <1>5, <2>2 DEF Sides
  <1>7. \A x \in U \cup {new, 0} : Mid(g, NoNode, x) = g[x].mid /\ (x # new => Mid(g, NoNode, x) = h[x].mid) /\ (x = new => Mid(g, NoNode, x) = 0)
    BY <1>3, <1>5 DEF Mid
  <1>8. ASSUME NEW x \in (U \cup {new}) \cup {0}, NEW s \in Sides PROVE Son(g, NoNode, x, s) \in (U \cup {new}) \cup {0}
    <2>1. CASE s = "mid"
      BY <1>3, <1>7, <2>1 DEF Son
    <2>2. CASE s # "mid" /\ x \in U
      BY <1>3, <2>2 DEF Son
    <2>3. CASE s # "mid" /\ x = new
      BY <1>3, <2>3 DEF Son, Sides
    <2>4. CASE s # "mid" /\ x = 0
      BY <1>6, <2>4 DEF Son, Sides
    <2> QED BY <2>1, <2>2, <2>3, <2>4
  <1>9. ASSUME NEW x \in U \cup {new}, NEW s \in Around, g[x][s] # 0 PROVE g[g[x][s]].parent = x
    <2>1. s \in Sides /\ (s = "left" \/ s = "right")
      BY DEF Around, Sides
    <2>2. x \in U
      BY <1>3, <1>9, <2>1
    <2>3. CASE x = p /\ s = side
      BY <1>3, <1>4, <2>1, <2>2, <2>3
    <2>4. CASE ~(x = p /\ s = side)
      <3>1. g[x][s] = h[x][s] /\ h[x][s] \in U
        BY <1>3, <1>9, <2>1, <2>2, <2>4
      <3>2. h[h[x][s]].parent = x
        BY <1>3, <1>9, <2>2, <3>1 DEF Wired
      <3> QED BY <1>4, <3>1, <3>2
    <2> QED BY <2>3, <2>4
  <1>10. ASSUME NEW x \in U \cup {new}, g[x]["left"] = g[x]["right"] PROVE g[x]["left"] = 0
    <2>1. CASE x = new
      BY <1>3, <2>1
    <2>2. CASE x # new
      <3>1. x \in U /\ "left" \in Sides /\ "right" \in Sides /\ "left" # "right"
        BY <2>2 DEF Sides
      <3>2. h[x]["left"] = h[x]["right"] => h[x]["left"] = 0
        BY <1>3, <3>1 DEF Wired
      <3>3. /\ g[x]["left"] = (IF x = p /\ "left" = side THEN new ELSE h[x]["left"]) /\ h[x]["left"] # new
            /\ g[x]["right"] = (IF x = p /\ "right" = side THEN new ELSE h[x]["right"]) /\ h[x]["right"] # new
        BY <1>3, <3>1
      <3> QED BY <1>10, <3>1, <3>2, <3>3
    <2> QED BY <2>1, <2>2
  <1>11. ASSUME NEW x \in (U \cup {new}) \cup {0}, Mid(g, NoNode, x) # 0 PROVE g[Mid(g, NoNode, x)].parent = 0
    <2>1. x # new /\ Mid(g, NoNode, x) = h[x].mid /\ x \in U \cup {0}
      BY <1>7, <1>11
    <2>2. Mid(h, NoNode, x) = h[x].mid
      BY <1>5, <2>1 DEF Mid
    <2>3. h[h[x].mid].parent = 0
      BY <1>3, <1>11, <2>1, <2>2 DEF Wired
    <2> QED BY <1>3, <1>4, <2>1, <2>3
  <1>12. ASSUME NEW x \in (U \cup {new}) \cup {0}, NEW y \in (U \cup {new}) \cup {0}, Mid(g, NoNode, x) = Mid(g, NoNode, y), Mid(g, NoNode, x) # 0
         PROVE  x = y
    <2>1. x # new /\ Mid(g, NoNode, x) = h[x].mid /\ x \in U \cup {0}
      BY <1>7, <1>12
    <2>2. y # new /\ Mid(g, NoNode, y) = h[y].mid /\ y \in U \cup {0}
      BY <1>7, <1>12
    <2>3. Mid(h, NoNode, x) = h[x].mid /\ Mid(h, NoNode, y) = h[y].mid
      BY <1>5, <2>1, <2>2 DEF Mid
    <2>4. Mid(h, NoNode, x) = Mid(h, NoNode, y) /\ Mid(h, NoNode, x) # 0
      BY <1>12, <2>1, <2>2, <2>3
    <2> QED BY <1>3, <2>1, <2>2, <2>4 DEF Wired
  <1>13. U \cup {new} \subseteq DOMAIN g \ {0} /\ IsFiniteSet(DOMAIN g) /\ NoNode \notin DOMAIN g
    BY <1>3, <1>5
  <1> QED BY <1>3, <1>6, <1>8, <1>9, <1>10, <1>11, <1>12, <1>13 DEF Wired

GrowAt(g, h, U, T, S, p, side, new, R, Q, x, s) ==
  /\ Son(g, NoNode, x, s) = IF x = p /\ s = side THEN new ELSE h[x][s]
  /\ T[h[x][s]] \subseteq U /\ new \notin T[h[x][s]] /\ T[h[x][s]] \subseteq T[x] /\ x \notin T[h[x][s]]
  /\ R[Son(g, NoNode, x, s)] = IF (x = p /\ s = side) \/ p \in T[h[x][s]] THEN T[h[x][s]] \cup {new} ELSE T[h[x][s]]
  /\ Q[Son(g, NoNode, x, s)] = IF (x = p /\ s = side) \/ p \in S[h[x][s]] THEN S[h[x][s]] \cup {new} ELSE S[h[x][s]]
  /\ S[h[x][s]] \subseteq U /\ new \notin S[h[x][s]]
\* The sons of a node, and what is under them, after the leaf was added.
LEMMA GrowUnder ==
  ASSUME NEW g, NEW h, NEW U, NEW T, NEW S, NEW p, NEW side, NEW new, NEW k, Growing(g, h, U, T, S, p, side, new, k),
         NEW R, NEW Q, R = More(T, p, new), Q = More(S, p, new), NEW x \in U, NEW s \in Sides
  PROVE  GrowAt(g, h, U, T, S, p, side, new, R, Q, x, s)
  <1>1. GrowFacts(g, h, U, T, S, p, side, new, R, Q)
    BY GrowFactsAre
  <1>2. /\ Shape(h, U, T, S, NoNode) /\ LooseFacts(h, U, T, S) /\ p \in U /\ side \in Around /\ h[p][side] = 0 /\ new \notin U /\ new # 0
        /\ R[new] = {new} /\ Q[new] = {new} /\ g[x].mid = h[x].mid
        /\ g[x][s] = (IF x = p /\ s = side THEN new ELSE h[x][s]) /\ h[x][s] \in U \cup {0} /\ h[x][s] # new
    BY <1>1 DEF GrowFacts
  <1>0. \A z \in U \cup {0} : /\ R[z] = IF p \in T[z] THEN T[z] \cup {new} ELSE T[z]
                              /\ Q[z] = IF p \in S[z] THEN S[z] \cup {new} ELSE S[z]
                              /\ T[z] \subseteq U /\ S[z] \subseteq U /\ new \notin T[z] /\ new \notin S[z]
    BY <1>1 DEF GrowFacts
  <1>3. Son(g, NoNode, x, s) = g[x][s] /\ Son(h, NoNode, x, s) = h[x][s] /\ T[0] = {} /\ S[0] = {} /\ x # NoNode
    BY <1>2 DEF Son, Mid, LooseFacts
  <1>4. T[h[x][s]] \subseteq T[x] /\ x \notin T[h[x][s]]
    <2>1. T[Son(h, NoNode, x, s)] \subseteq T[x] /\ x \notin T[Son(h, NoNode, x, s)]
      BY <1>2 DEF Shape, Loose, Bounded
    <2> QED BY <1>3, <2>1
  <1>5. T[h[x][s]] \subseteq U /\ S[h[x][s]] \subseteq U /\ new \notin T[h[x][s]] /\ new \notin S[h[x][s]]
    BY <1>0, <1>2
  <1>6. CASE x = p /\ s = side
    <2>1. h[x][s] = 0 /\ Son(g, NoNode, x, s) = new
      BY <1>2, <1>3, <1>6
    <2>2. R[Son(g, NoNode, x, s)] = {new} /\ Q[Son(g, NoNode, x, s)] = {new} /\ T[h[x][s]] = {} /\ S[h[x][s]] = {}
      BY <1>0, <1>2, <1>3, <2>1
    <2> QED BY <1>4, <1>5, <1>6, <2>1, <2>2 DEF GrowAt
  <1>7. CASE ~(x = p /\ s = side)
    <2>1. Son(g, NoNode, x, s) = h[x][s] /\ h[x][s] \in U \cup {0}
      BY <1>2, <1>3, <1>7
    <2>2. R[h[x][s]] = (IF p \in T[h[x][s]] THEN T[h[x][s]] \cup {new} ELSE T[h[x][s]])
      BY <1>0, <1>2, <2>1
    <2>3. Q[h[x][s]] = (IF p \in S[h[x][s]] THEN S[h[x][s]] \cup {new} ELSE S[h[x][s]])
      BY <1>0, <1>2, <2>1
    <2> QED BY <1>4, <1>5, <1>7, <2>1, <2>2, <2>3 DEF GrowAt
  <1> QED BY <1>6, <1>7

LEMMA GrowShape ==
  ASSUME NEW g, NEW h, NEW U, NEW T, NEW S, NEW p, NEW side, NEW new, NEW k, Growing(g, h, U, T, S, p, side, new, k),
         NEW R, NEW Q, R = More(T, p, new), Q = More(S, p, new)
  PROVE  Shape(g, U \cup {new}, R, Q, NoNode)
  <1>1. GrowFacts(g, h, U, T, S, p, side, new, R, Q)
    BY GrowFactsAre
  <1>2. /\ Shape(h, U, T, S, NoNode) /\ LooseFacts(h, U, T, S) /\ p \in U /\ side \in Around /\ h[p][side] = 0 /\ new \notin U /\ new # 0
        /\ new # NoNode /\ new # p /\ DOMAIN g = DOMAIN h /\ g[new]["left"] = 0 /\ g[new].mid = 0 /\ g[new]["right"] = 0
        /\ R \in [DOMAIN h -> SUBSET DOMAIN h] /\ Q \in [DOMAIN h -> SUBSET DOMAIN h] /\ R[new] = {new} /\ Q[new] = {new} /\ R[0] = {} /\ Q[0] = {}
    BY <1>1 DEF GrowFacts
  <1>14. \A z \in U \cup {0} : /\ R[z] = IF p \in T[z] THEN T[z] \cup {new} ELSE T[z]
                               /\ Q[z] = IF p \in S[z] THEN S[z] \cup {new} ELSE S[z]
                               /\ T[z] \subseteq U /\ S[z] \subseteq U /\ new \notin T[z] /\ new \notin S[z]
    BY <1>1 DEF GrowFacts
  <1>15. \A x \in U, s \in Sides : GrowAt(g, h, U, T, S, p, side, new, R, Q, x, s)
    BY GrowUnder
  <1>3. \A s \in Sides : Son(g, NoNode, new, s) = 0
    BY <1>2 DEF Son, Mid, Sides
  <1>4. /\ Bounded(h, U, T, NoNode) /\ Levels(h, U, S) /\ Sorted(h, U, S, NoNode) /\ Exact(h, U, T, NoNode)
        /\ \A x \in U : /\ x \in T[x] /\ x \in S[x] /\ x # NoNode /\ x # new /\ S[x] \subseteq U
                        /\ h[x].mid = Mid(h, NoNode, x)
    BY <1>2 DEF Shape, Loose, LooseFacts
  <1>5. \A x \in U, s \in Sides : Son(h, NoNode, x, s) = h[x][s] /\ h[x][s] \in U \cup {0}
    BY <1>2 DEF LooseFacts
  <1>6. Bounded(g, U \cup {new}, R, NoNode)
    <2>1. ASSUME NEW x \in U \cup {new}, NEW s \in Sides PROVE R[Son(g, NoNode, x, s)] \subseteq R[x] /\ x \notin R[Son(g, NoNode, x, s)]
      <3>1. CASE x = new
        BY <1>2, <1>3, <3>1
      <3>2. CASE x # new
        <4>1. x \in U
          BY <3>2
        <4>2. /\ T[h[x][s]] \subseteq T[x] /\ x \notin T[h[x][s]]
              /\ R[Son(g, NoNode, x, s)] = IF (x = p /\ s = side) \/ p \in T[h[x][s]] THEN T[h[x][s]] \cup {new} ELSE T[h[x][s]]
          BY <1>15, <4>1 DEF GrowAt
        <4>3. R[x] = IF p \in T[x] THEN T[x] \cup {new} ELSE T[x]
          BY <1>14, <4>1
        <4>4. x = p => p \in T[x]
          BY <1>4, <4>1
        <4> QED BY <1>2, <3>2, <4>2, <4>3, <4>4
      <3> QED BY <3>1, <3>2
    <2>2. \A x \in U \cup {new} : x \in R[x]
      <3>1. ASSUME NEW x \in U PROVE x \in R[x]
        <4>1. R[x] = T[x] \/ R[x] = T[x] \cup {new}
          BY <1>14
        <4>2. x \in T[x]
          BY <1>4
        <4> QED BY <4>1, <4>2
      <3>2. new \in R[new]
        BY <1>2
      <3> QED BY <3>1, <3>2
    <2> QED BY <1>2, <2>1, <2>2 DEF Bounded
  <1>7. ASSUME NEW x \in U
        PROVE  /\ R[Son(g, NoNode, x, "left")] = IF (x = p /\ "left" = side) \/ p \in T[h[x]["left"]] THEN T[h[x]["left"]] \cup {new} ELSE T[h[x]["left"]]
               /\ R[Son(g, NoNode, x, "mid")] = IF p \in T[h[x].mid] THEN T[h[x].mid] \cup {new} ELSE T[h[x].mid]
               /\ R[Son(g, NoNode, x, "right")] = IF (x = p /\ "right" = side) \/ p \in T[h[x]["right"]] THEN T[h[x]["right"]] \cup {new} ELSE T[h[x]["right"]]
               /\ Q[Son(g, NoNode, x, "left")] = IF (x = p /\ "left" = side) \/ p \in S[h[x]["left"]] THEN S[h[x]["left"]] \cup {new} ELSE S[h[x]["left"]]
               /\ Q[Son(g, NoNode, x, "right")] = IF (x = p /\ "right" = side) \/ p \in S[h[x]["right"]] THEN S[h[x]["right"]] \cup {new} ELSE S[h[x]["right"]]
    <2>1. ASSUME NEW s \in Sides
          PROVE  /\ R[Son(g, NoNode, x, s)] = IF (x = p /\ s = side) \/ p \in T[h[x][s]] THEN T[h[x][s]] \cup {new} ELSE T[h[x][s]]
                 /\ Q[Son(g, NoNode, x, s)] = IF (x = p /\ s = side) \/ p \in S[h[x][s]] THEN S[h[x][s]] \cup {new} ELSE S[h[x][s]]
      BY <1>15 DEF GrowAt
    <2>2. "left" \in Sides /\ "mid" \in Sides /\ "right" \in Sides /\ "mid" # side
      BY <1>2 DEF Sides, Around
    <2>3. h[x]["mid"] = h[x].mid
      OBVIOUS
    <2> QED BY <2>1, <2>2, <2>3
  <1>8. side = "left" \/ side = "right"
    BY <1>2 DEF Around
  <1>9. ASSUME NEW x \in U PROVE Son(g, NoNode, x, "left") = g[x]["left"] /\ Son(g, NoNode, x, "mid") = Mid(g, NoNode, x) /\ Son(g, NoNode, x, "right") = g[x]["right"]
    BY DEF Son
  <1>16. ASSUME NEW x \in U PROVE x \notin T[h[x]["left"]] /\ x \notin T[h[x].mid] /\ x \notin T[h[x]["right"]]
    <2>1. ASSUME NEW s \in Sides PROVE x \notin T[h[x][s]]
      BY <1>15 DEF GrowAt
    <2>2. "left" \in Sides /\ "mid" \in Sides /\ "right" \in Sides
      BY DEF Sides
    <2> QED BY <2>1, <2>2
  <1>17. ASSUME NEW x \in U PROVE x \notin S[h[x]["left"]] /\ x \notin S[h[x]["right"]]
    <2>1. \A y \in U : S[y] \subseteq T[y]
      <3>1. Loose(h, U, T, S, NoNode)
        BY <1>2 DEF Shape
      <3> QED BY <3>1, LevelIs
    <2>2. \A s \in Sides : h[x][s] \in U \cup {0}
      BY <1>5
    <2>3. "left" \in Sides /\ "right" \in Sides
      BY DEF Sides
    <2>4. S[0] = {}
      BY <1>2 DEF LooseFacts
    <2>5. h[x]["left"] \in U \cup {0} /\ h[x]["right"] \in U \cup {0}
      BY <2>2, <2>3
    <2> QED BY <1>16, <2>1, <2>4, <2>5
  <1>10. Exact(g, U \cup {new}, R, NoNode)
    <2>1. ASSUME NEW x \in U PROVE R[x] = {x} \cup R[g[x]["left"]] \cup R[Mid(g, NoNode, x)] \cup R[g[x]["right"]]
      <3>1. T[x] = {x} \cup T[h[x]["left"]] \cup T[h[x].mid] \cup T[h[x]["right"]]
        BY <1>4 DEF Exact
      <3>2. R[x] = IF p \in T[x] THEN T[x] \cup {new} ELSE T[x]
        BY <1>14
      <3>6. /\ R[g[x]["left"]] = IF (x = p /\ "left" = side) \/ p \in T[h[x]["left"]] THEN T[h[x]["left"]] \cup {new} ELSE T[h[x]["left"]]
            /\ R[Mid(g, NoNode, x)] = IF p \in T[h[x].mid] THEN T[h[x].mid] \cup {new} ELSE T[h[x].mid]
            /\ R[g[x]["right"]] = IF (x = p /\ "right" = side) \/ p \in T[h[x]["right"]] THEN T[h[x]["right"]] \cup {new} ELSE T[h[x]["right"]]
        BY <1>7, <1>9
      <3>3. x = p \/ (p \in T[x] <=> p \in T[h[x]["left"]] \/ p \in T[h[x].mid] \/ p \in T[h[x]["right"]])
        BY <3>1
      <3>4. CASE x = p
        <4>1. R[x] = T[x] \cup {new}
          BY <1>4, <3>2, <3>4
        <4>2. p \notin T[h[x]["left"]] /\ p \notin T[h[x].mid] /\ p \notin T[h[x]["right"]]
          BY <1>16, <3>4
        <4>3. R[g[x]["left"]] = IF side = "left" THEN T[h[x]["left"]] \cup {new} ELSE T[h[x]["left"]]
          BY <3>6, <3>4, <4>2
        <4>4. R[g[x]["right"]] = IF side = "right" THEN T[h[x]["right"]] \cup {new} ELSE T[h[x]["right"]]
          BY <3>6, <3>4, <4>2
        <4>5. R[Mid(g, NoNode, x)] = T[h[x].mid]
          BY <3>6, <4>2
        <4>6. CASE side = "left"
          BY <3>1, <4>1, <4>3, <4>4, <4>5, <4>6
        <4>7. CASE side = "right"
          BY <3>1, <4>1, <4>3, <4>4, <4>5, <4>7
        <4> QED BY <1>8, <4>6, <4>7
      <3>5. CASE x # p
        <4>1. R[g[x]["left"]] = IF p \in T[h[x]["left"]] THEN T[h[x]["left"]] \cup {new} ELSE T[h[x]["left"]]
          BY <3>6, <3>5
        <4>2. R[g[x]["right"]] = IF p \in T[h[x]["right"]] THEN T[h[x]["right"]] \cup {new} ELSE T[h[x]["right"]]
          BY <3>6, <3>5
        <4>3. CASE p \in T[x]
          BY <3>1, <3>2, <3>3, <3>5, <3>6, <4>1, <4>2, <4>3
        <4>4. CASE p \notin T[x]
          <5>1. p \notin T[h[x]["left"]] /\ p \notin T[h[x].mid] /\ p \notin T[h[x]["right"]]
            BY <3>3, <3>5, <4>4
          <5>2. R[g[x]["left"]] = T[h[x]["left"]] /\ R[g[x]["right"]] = T[h[x]["right"]] /\ R[Mid(g, NoNode, x)] = T[h[x].mid] /\ R[x] = T[x]
            BY <3>2, <3>6, <4>1, <4>2, <4>4, <5>1
          <5> QED BY <3>1, <5>2
        <4> QED BY <4>3, <4>4
      <3> QED BY <3>4, <3>5
    <2>2. R[new] = {new} \cup R[g[new]["left"]] \cup R[Mid(g, NoNode, new)] \cup R[g[new]["right"]]
      BY <1>2 DEF Mid
    <2>3. ASSUME NEW x \in U \cup {new}, NEW s \in Sides, NEW q \in Sides, s # q PROVE R[Son(g, NoNode, x, s)] \cap R[Son(g, NoNode, x, q)] = {}
      <3>1. CASE x = new
        BY <1>2, <1>3, <3>1
      <3>2. CASE x # new
        <4>1. x \in U
          BY <3>2
        <4>2. /\ R[Son(g, NoNode, x, s)] = (IF (x = p /\ s = side) \/ p \in T[h[x][s]] THEN T[h[x][s]] \cup {new} ELSE T[h[x][s]])
              /\ new \notin T[h[x][s]] /\ x \notin T[h[x][s]]
          BY <1>15, <4>1 DEF GrowAt
        <4>3. /\ R[Son(g, NoNode, x, q)] = (IF (x = p /\ q = side) \/ p \in T[h[x][q]] THEN T[h[x][q]] \cup {new} ELSE T[h[x][q]])
              /\ new \notin T[h[x][q]] /\ x \notin T[h[x][q]]
          BY <1>15, <4>1 DEF GrowAt
        <4>4. T[h[x][s]] \cap T[h[x][q]] = {}
          BY <1>4, <1>5, <2>3, <4>1 DEF Exact
        <4> QED BY <2>3, <4>2, <4>3, <4>4
      <3> QED BY <3>1, <3>2
    <2> QED BY <2>1, <2>2, <2>3 DEF Exact
  <1>11. Levels(g, U \cup {new}, Q)
    <2>1. ASSUME NEW x \in U PROVE Q[x] = {x} \cup Q[g[x]["left"]] \cup Q[g[x]["right"]]
      <3>1. S[x] = {x} \cup S[h[x]["left"]] \cup S[h[x]["right"]]
        BY <1>4 DEF Levels
      <3>2. Q[x] = IF p \in S[x] THEN S[x] \cup {new} ELSE S[x]
        BY <1>14
      <3>6. /\ Q[g[x]["left"]] = IF (x = p /\ "left" = side) \/ p \in S[h[x]["left"]] THEN S[h[x]["left"]] \cup {new} ELSE S[h[x]["left"]]
            /\ Q[g[x]["right"]] = IF (x = p /\ "right" = side) \/ p \in S[h[x]["right"]] THEN S[h[x]["right"]] \cup {new} ELSE S[h[x]["right"]]
        BY <1>7, <1>9
      <3>3. x = p \/ (p \in S[x] <=> p \in S[h[x]["left"]] \/ p \in S[h[x]["right"]])
        BY <3>1
      <3>4. CASE x = p
        <4>1. Q[x] = S[x] \cup {new}
          BY <1>4, <3>2, <3>4
        <4>2. p \notin S[h[x]["left"]] /\ p \notin S[h[x]["right"]]
          BY <1>17, <3>4
        <4>3. Q[g[x]["left"]] = IF side = "left" THEN S[h[x]["left"]] \cup {new} ELSE S[h[x]["left"]]
          BY <3>6, <3>4, <4>2
        <4>4. Q[g[x]["right"]] = IF side = "right" THEN S[h[x]["right"]] \cup {new} ELSE S[h[x]["right"]]
          BY <3>6, <3>4, <4>2
        <4>6. CASE side = "left"
          BY <3>1, <4>1, <4>3, <4>4, <4>6
        <4>7. CASE side = "right"
          BY <3>1, <4>1, <4>3, <4>4, <4>7
        <4> QED BY <1>8, <4>6, <4>7
      <3>5. CASE x # p
        <4>1. Q[g[x]["left"]] = IF p \in S[h[x]["left"]] THEN S[h[x]["left"]] \cup {new} ELSE S[h[x]["left"]]
          BY <3>6, <3>5
        <4>2. Q[g[x]["right"]] = IF p \in S[h[x]["right"]] THEN S[h[x]["right"]] \cup {new} ELSE S[h[x]["right"]]
          BY <3>6, <3>5
        <4>3. CASE p \in S[x]
          BY <3>1, <3>2, <3>3, <3>5, <4>1, <4>2, <4>3
        <4>4. CASE p \notin S[x]
          <5>1. p \notin S[h[x]["left"]] /\ p \notin S[h[x]["right"]]
            BY <3>3, <3>5, <4>4
          <5>2. Q[g[x]["left"]] = S[h[x]["left"]] /\ Q[g[x]["right"]] = S[h[x]["right"]] /\ Q[x] = S[x]
            BY <3>2, <4>1, <4>2, <4>4, <5>1
          <5> QED BY <3>1, <5>2
        <4> QED BY <4>3, <4>4
      <3> QED BY <3>4, <3>5
    <2>2. Q[new] = {new} \cup Q[g[new]["left"]] \cup Q[g[new]["right"]]
      BY <1>2
    <2> QED BY <1>2, <2>1, <2>2 DEF Levels
  <1>12. Sorted(g, U \cup {new}, Q, NoNode)
    <2>1. g[new].cbyte = Byte(k, h[p].index) /\ \A y \in U : g[y].cbyte = h[y].cbyte
      <3>1. \A y \in U : y \in DOMAIN h \ {new}
        BY <1>2 DEF LooseFacts
      <3> QED BY <3>1 DEF Growing, Grown, SameData
    <2>2. Fits(h, U, S, p, side, Byte(k, h[p].index))
      BY DEF Growing
    <2>3. ASSUME NEW x \in (U \cup {new}) \ {NoNode}, NEW s \in Around, NEW y \in Q[g[x][s]] \ {NoNode} PROVE Ahead(s, g[y].cbyte, g[x].cbyte)
      <3>1. s \in Sides /\ s # "mid" /\ Son(g, NoNode, x, s) = g[x][s]
        BY DEF Around, Sides, Son
      <3>2. x \in U
        <4> SUFFICES ASSUME x = new PROVE FALSE
          OBVIOUS
        <4>1. g[x][s] = 0
          BY <1>3, <3>1
        <4> QED BY <1>2, <2>3, <4>1
      <3>3. /\ Q[g[x][s]] = (IF (x = p /\ s = side) \/ p \in S[h[x][s]] THEN S[h[x][s]] \cup {new} ELSE S[h[x][s]])
            /\ S[h[x][s]] \subseteq U
        <4>1. /\ Q[Son(g, NoNode, x, s)] = (IF (x = p /\ s = side) \/ p \in S[h[x][s]] THEN S[h[x][s]] \cup {new} ELSE S[h[x][s]])
              /\ S[h[x][s]] \subseteq U
          BY <1>15, <3>1, <3>2 DEF GrowAt
        <4> QED BY <3>1, <4>1
      <3>4. CASE y = new
        <4>1. (x = p /\ s = side) \/ p \in S[h[x][s]]
          BY <1>2, <2>3, <3>3, <3>4
        <4>2. Ahead(s, Byte(k, h[p].index), h[x].cbyte)
          BY <2>2, <3>2, <4>1 DEF Fits
        <4> QED BY <2>1, <3>2, <3>4, <4>2
      <3>5. CASE y # new
        <4>1. y \in S[h[x][s]] \ {NoNode} /\ y \in U
          BY <2>3, <3>3, <3>5
        <4>2. x \in U \ {NoNode}
          BY <1>4, <3>2
        <4>3. Ahead(s, h[y].cbyte, h[x].cbyte)
          BY <1>4, <4>1, <4>2, SortedIs
        <4> QED BY <2>1, <3>2, <4>1, <4>3
      <3> QED BY <3>4, <3>5
    <2> QED BY <2>3, SortedIs
  <1>13. Wired(g, U \cup {new}, NoNode)
    BY GrowWired
  <1> QED BY <1>6, <1>10, <1>11, <1>12, <1>13 DEF Shape, Loose

\* The colors after a red leaf was added.
LEMMA GrowCounts ==
  ASSUME NEW g, NEW h, NEW U, NEW T, NEW S, NEW p, NEW side, NEW new, NEW k, Growing(g, h, U, T, S, p, side, new, k),
         NEW b, Even(h, U, b), NEW c, c = [b EXCEPT ![new] = 0]
  PROVE  Counts(g, U \cup {new}, c, NoNode, new, 0) /\ Reds(g, U \cup {new}, NoNode, new)
  <1>1. PICK R, Q : R = More(T, p, new) /\ Q = More(S, p, new)
    OBVIOUS
  <1>2. GrowFacts(g, h, U, T, S, p, side, new, R, Q)
    BY <1>1, GrowFactsAre
  <1>3. /\ Wired(h, U, NoNode) /\ p \in U /\ side \in Around /\ h[p][side] = 0 /\ new \in DOMAIN h /\ new \notin U /\ new # 0
        /\ new # p /\ new # NoNode /\ IsHeap(g) /\ DOMAIN g = DOMAIN h /\ 0 \in DOMAIN h
        /\ g[new]["left"] = 0 /\ g[new].mid = 0 /\ g[new]["right"] = 0
    BY <1>2 DEF GrowFacts
  <1>4. /\ g[new].color = RED
        /\ \A y \in DOMAIN h \ {new} : g[y].color = h[y].color
    BY DEF Growing, Grown
  <1>5. \A x \in U, s \in Around : g[x][s] = (IF x = p /\ s = side THEN new ELSE h[x][s]) /\ h[x][s] \in U \cup {0}
    BY <1>2 DEF GrowFacts, Around, Sides
  <1>6. \A x \in U \cup {0} : x \in DOMAIN h /\ x # new /\ g[x].mid = h[x].mid /\ h[x].mid \in U \cup {0}
    BY <1>2 DEF GrowFacts
  <1>7. b \in [DOMAIN h -> Nat] /\ b[0] = 0 /\ \A x \in U \ {NoNode}, s \in Around : b[x] = Seen(b, NoNode, 0, h[x][s]) + Blk(h, x)
    BY DEF Even, Counts
  <1>8. NoNode \notin U \cup {0}
    BY <1>2 DEF GrowFacts, LooseFacts
  <1>9. c \in [DOMAIN h -> Nat] /\ c[new] = 0 /\ \A y \in DOMAIN h : y # new => c[y] = b[y]
    BY <1>3, <1>7
  <1>10. \A y : Seen(c, new, 0, y) = IF y = new THEN c[y] + 0 ELSE c[y]
    BY DEF Seen
  <1>11. \A y \in DOMAIN h : Seen(c, new, 0, y) = c[y]
    <2> SUFFICES ASSUME NEW y \in DOMAIN h PROVE Seen(c, new, 0, y) = c[y]
      OBVIOUS
    <2>1. c[y] \in Nat
      BY <1>9
    <2>2. c[y] + 0 = c[y]
      BY <2>1
    <2> QED BY <2>2 DEF Seen
  <1>12. \A y \in U \cup {0} : Seen(b, NoNode, 0, y) = b[y]
    BY <1>8 DEF Seen
  <1>13. \A y \in DOMAIN h \ {new} : Blk(g, y) = Blk(h, y)
    BY <1>4 DEF Blk
  <1>14. Blk(g, new) = 0
    BY <1>4, BlackIsNotRed DEF Blk
  <1>15. ASSUME NEW x \in (U \cup {new}) \ {NoNode}, NEW s \in Around PROVE c[x] = Seen(c, new, 0, g[x][s]) + Blk(g, x)
    <2>1. CASE x = new
      <3>1. g[x][s] = 0
        BY <1>3, <2>1 DEF Around
      <3>2. c[0] = 0 /\ Seen(c, new, 0, 0) = c[0]
        BY <1>3, <1>7, <1>9, <1>11
      <3> QED BY <1>9, <1>14, <2>1, <3>1, <3>2
    <2>2. CASE x # new
      <3>1. x \in U /\ x # NoNode /\ x \in DOMAIN h
        BY <1>6, <1>15, <2>2
      <3>2. b[x] = b[h[x][s]] + Blk(h, x)
        BY <1>5, <1>7, <1>12, <3>1
      <3>3. c[x] = b[x] /\ Blk(g, x) = Blk(h, x)
        BY <1>9, <1>13, <2>2, <3>1
      <3>4. CASE x = p /\ s = side
        <4>1. g[x][s] = new /\ h[x][s] = 0
          BY <1>3, <1>5, <3>1, <3>4
        <4>2. Seen(c, new, 0, g[x][s]) = b[h[x][s]]
          BY <1>3, <1>7, <1>9, <1>11, <4>1
        <4> QED BY <3>2, <3>3, <4>2
      <3>5. CASE ~(x = p /\ s = side)
        <4>1. g[x][s] = h[x][s] /\ h[x][s] \in DOMAIN h /\ h[x][s] # new
          BY <1>3, <1>5, <1>6, <3>1, <3>5
        <4>2. Seen(c, new, 0, g[x][s]) = b[h[x][s]]
          BY <1>9, <1>11, <4>1
        <4> QED BY <3>2, <3>3, <4>2
      <3> QED BY <3>4, <3>5
    <2> QED BY <2>1, <2>2
  <1>16. c[0] = 0 /\ NoNode \notin U \cup {new}
    BY <1>3, <1>7, <1>8, <1>9
  <1>17. Counts(g, U \cup {new}, c, NoNode, new, 0)
    BY <1>3, <1>9, <1>15, <1>16 DEF Counts
  <1>18. Reds(h, U, NoNode, NoNode)
    BY DEF Even
  <1>19. ASSUME NEW x \in (U \cup {new}) \ {new}, NEW s \in Around, g[x].color = RED, g[x][s] # new PROVE g[g[x][s]].color = BLACK
    <2>1. x \in U /\ x # NoNode /\ x \in DOMAIN h \ {new}
      BY <1>6, <1>8, <1>19
    <2>2. g[x][s] = h[x][s] /\ h[x][s] \in DOMAIN h \ {new} /\ h[x][s] # NoNode
      BY <1>5, <1>6, <1>8, <1>19, <2>1
    <2>3. h[x].color = RED
      BY <1>4, <1>19, <2>1
    <2>4. h[h[x][s]].color = BLACK
      BY <1>18, <2>1, <2>2, <2>3 DEF Reds
    <2> QED BY <1>4, <2>2, <2>4
  <1>20. ASSUME NEW x \in (U \cup {new}) \cup {0}, Mid(g, NoNode, x) \notin {0, new} PROVE g[Mid(g, NoNode, x)].color = BLACK
    <2>1. x # NoNode /\ Mid(g, NoNode, x) = g[x].mid
      BY <1>8, <1>3 DEF Mid
    <2>2. x # new /\ x \in U \cup {0}
      BY <1>3, <1>20, <2>1
    <2>3. g[x].mid = h[x].mid /\ h[x].mid \in U /\ Mid(h, NoNode, x) = h[x].mid
      BY <1>6, <1>20, <2>1, <2>2 DEF Mid
    <2>4. h[x].mid \in DOMAIN h \ {new} /\ Mid(h, NoNode, x) \notin {0, NoNode}
      BY <1>6, <1>8, <1>20, <2>1, <2>3
    <2>5. h[h[x].mid].color = BLACK
      BY <1>18, <2>2, <2>3, <2>4 DEF Reds
    <2> QED BY <1>4, <2>1, <2>3, <2>4, <2>5
  <1>21. Reds(g, U \cup {new}, NoNode, new)
    BY <1>19, <1>20 DEF Reds
  <1> QED BY <1>17, <1>21

\* Beside a black node that is all.
LEMMA GrowEven ==
  ASSUME NEW g, NEW h, NEW U, NEW T, NEW S, NEW p, NEW side, NEW new, NEW k, Growing(g, h, U, T, S, p, side, new, k),
         NEW b, Even(h, U, b), h[p].color = BLACK
  PROVE  \E c : Even(g, U \cup {new}, c)
  <1>1. PICK c : c = [b EXCEPT ![new] = 0]
    OBVIOUS
  <1>2. Counts(g, U \cup {new}, c, NoNode, new, 0) /\ Reds(g, U \cup {new}, NoNode, new)
    BY <1>1, GrowCounts
  <1>3. PICK R, Q : R = More(T, p, new) /\ Q = More(S, p, new)
    OBVIOUS
  <1>4. GrowFacts(g, h, U, T, S, p, side, new, R, Q)
    BY <1>3, GrowFactsAre
  <1>5. Shape(g, U \cup {new}, R, Q, NoNode) /\ new # NoNode /\ new # 0 /\ p \in U
    BY <1>3, <1>4, GrowShape DEF GrowFacts
  <1>6. Loose(g, U \cup {new}, R, Q, NoNode) /\ Wired(g, U \cup {new}, NoNode)
    BY <1>5 DEF Shape, Loose
  <1>7. NoNode \notin U \cup {new}
    BY <1>5, <1>6 DEF Wired
  <1>8. g[new].parent = p /\ g[p].color = BLACK /\ new \in U \cup {new}
    <2>1. p \in DOMAIN h \ {new}
      BY <1>4 DEF GrowFacts
    <2> QED BY <2>1 DEF Growing, Grown
  <1>9. c \in [DOMAIN g -> Nat] /\ \A y \in DOMAIN g : Seen(c, new, 0, y) = c[y]
    <2>1. c \in [DOMAIN g -> Nat]
      BY <1>2 DEF Counts
    <2> QED BY <2>1 DEF Seen
  <1>10. \A x \in U \cup {new}, s \in Around : g[x][s] \in (U \cup {new}) \cup {0} /\ g[x][s] \in DOMAIN g
    BY <1>6, AroundIn
  <1>11. \A y \in (U \cup {new}) \cup {0} : Seen(c, NoNode, 0, y) = c[y]
    <2>1. 0 # NoNode
      BY DEF NoNode
    <2> QED BY <1>7, <2>1 DEF Seen
  <1>12. ASSUME NEW x \in (U \cup {new}) \ {NoNode}, NEW s \in Around PROVE c[x] = Seen(c, NoNode, 0, g[x][s]) + Blk(g, x)
    <2>1. c[x] = Seen(c, new, 0, g[x][s]) + Blk(g, x)
      BY <1>2 DEF Counts
    <2> QED BY <1>9, <1>10, <1>11, <2>1
  <1>13. Counts(g, U \cup {new}, c, NoNode, NoNode, 0)
    BY <1>2, <1>7, <1>12 DEF Counts
  <1>14. \A x \in (U \cup {new}), s \in Around : g[x][s] = new => x = p
    <2> SUFFICES ASSUME NEW x \in U \cup {new}, NEW s \in Around, g[x][s] = new PROVE x = p
      OBVIOUS
    <2>1. g[g[x][s]].parent = x
      BY <1>5, <1>6 DEF Wired
    <2> QED BY <1>8, <2>1
  <1>15. ASSUME NEW x \in (U \cup {new}) \ {NoNode}, NEW s \in Around, g[x].color = RED, g[x][s] # NoNode PROVE g[g[x][s]].color = BLACK
    <2>1. CASE x = new
      <3>1. g[x][s] = 0 /\ g[0].color = BLACK
        <4>1. g[new]["left"] = 0 /\ g[new]["right"] = 0 /\ g[0].color = BLACK
          BY <1>4, <1>6 DEF GrowFacts, Wired
        <4> QED BY <2>1, <4>1 DEF Around
      <3> QED BY <3>1
    <2>2. CASE x # new
      <3>1. x # p
        BY <1>8, <1>15, BlackIsNotRed
      <3>2. g[x][s] # new
        BY <1>14, <3>1
      <3> QED BY <1>2, <1>15, <2>2, <3>2 DEF Reds
    <2> QED BY <2>1, <2>2
  <1>16. ASSUME NEW x \in (U \cup {new}) \cup {0}, Mid(g, NoNode, x) # 0 PROVE g[Mid(g, NoNode, x)].color = BLACK
    <2>1. Mid(g, NoNode, x) # new
      <3>1. p # 0
        BY <1>4 DEF GrowFacts
      <3>2. g[Mid(g, NoNode, x)].parent = 0
        BY <1>6, <1>16 DEF Wired
      <3> QED BY <1>8, <3>1, <3>2
    <2> QED BY <1>2, <1>16, <2>1 DEF Reds
  <1>17. Reds(g, U \cup {new}, NoNode, NoNode)
    BY <1>15, <1>16 DEF Reds
  <1> QED BY <1>13, <1>17 DEF Even

\* The key is one that belongs under p.
Suits(h, U, T, S, V, p, k) ==
  /\ \A x \in U : p \in T[h[x].mid] => Byte(k, h[x].index) = h[x].cbyte
  /\ \A o \in U : p \in T[h[o].mid] =>
       \A y \in Keyed(h, T, V, NoNode, o), r \in S[h[o].mid] \ {NoNode} :
         \A j \in Int : 0 <= j /\ j < h[r].index => Byte(k, j) = Byte(h[y].item, j)

GrowMids(g, h, U, T, S, p, new, R, Q, o) ==
  /\ g[o].mid = h[o].mid /\ T[h[o].mid] \subseteq U /\ S[h[o].mid] \subseteq U /\ h[o].mid \in U \cup {0}
  /\ R[g[o].mid] = IF p \in T[h[o].mid] THEN T[h[o].mid] \cup {new} ELSE T[h[o].mid]
  /\ Q[g[o].mid] = IF p \in S[h[o].mid] THEN S[h[o].mid] \cup {new} ELSE S[h[o].mid]
GrowData(g, h, U, p, new, k) ==
  /\ g[new].index = h[p].index /\ g[new].cbyte = Byte(k, h[p].index) /\ g[new].item = k /\ g[new].mid = 0 /\ g[0].mid = h[0].mid
  /\ \A y \in U : SameData(g, h, y) /\ g[y].mid = h[y].mid
LEMMA GrowDataIs ==
  ASSUME NEW g, NEW h, NEW U, NEW T, NEW S, NEW p, NEW side, NEW new, NEW k, Growing(g, h, U, T, S, p, side, new, k),
         NEW R, NEW Q, R = More(T, p, new), Q = More(S, p, new)
  PROVE  /\ GrowData(g, h, U, p, new, k) /\ new \notin U /\ new # 0 /\ p \in U /\ NoNode \notin (U \cup {new}) \cup {0} /\ R[0] = {} /\ Q[0] = {}
         /\ \A o \in U \cup {0} : GrowMids(g, h, U, T, S, p, new, R, Q, o)
  <1>1. GrowFacts(g, h, U, T, S, p, side, new, R, Q)
    BY GrowFactsAre
  <1>2. /\ new \notin U /\ new # 0 /\ p \in U /\ new # NoNode /\ g[new].mid = 0 /\ R[0] = {} /\ Q[0] = {} /\ LooseFacts(h, U, T, S)
    BY <1>1 DEF GrowFacts
  <1>3. \A x \in U \cup {0} : x \in DOMAIN h \ {new} /\ g[x].mid = h[x].mid /\ h[x].mid \in U \cup {0}
    BY <1>1 DEF GrowFacts
  <1>4. \A x \in U \cup {0} : /\ R[x] = IF p \in T[x] THEN T[x] \cup {new} ELSE T[x]
                              /\ Q[x] = IF p \in S[x] THEN S[x] \cup {new} ELSE S[x]
                              /\ T[x] \subseteq U /\ S[x] \subseteq U
    BY <1>1 DEF GrowFacts
  <1>5. NoNode \notin (U \cup {new}) \cup {0}
    BY <1>2 DEF LooseFacts
  <1>6. GrowData(g, h, U, p, new, k)
    <2>1. /\ g[new].index = h[p].index /\ g[new].cbyte = Byte(k, h[p].index) /\ g[new].item = k
          /\ \A y \in DOMAIN h \ {new} : SameData(g, h, y)
      BY DEF Growing, Grown
    <2> QED BY <1>2, <1>3, <2>1 DEF GrowData
  <1>7. \A o \in U \cup {0} : GrowMids(g, h, U, T, S, p, new, R, Q, o)
    BY <1>3, <1>4 DEF GrowMids
  <1> QED BY <1>2, <1>5, <1>6, <1>7

LEMMA GrowKeyed ==
  ASSUME NEW g, NEW h, NEW U, NEW T, NEW S, NEW p, NEW side, NEW new, NEW k, Growing(g, h, U, T, S, p, side, new, k),
         NEW R, NEW Q, R = More(T, p, new), Q = More(S, p, new), NEW V, new \notin V, NEW o \in U \cup {0}
  PROVE  Keyed(g, R, V, NoNode, o) = IF p \in T[h[o].mid] THEN Keyed(h, T, V, NoNode, o) \cup {new} ELSE Keyed(h, T, V, NoNode, o)
  <1>1. /\ GrowData(g, h, U, p, new, k) /\ new \notin U /\ NoNode \notin (U \cup {new}) \cup {0} /\ GrowMids(g, h, U, T, S, p, new, R, Q, o)
    BY GrowDataIs
  <1>2. R[g[o].mid] = (IF p \in T[h[o].mid] THEN T[h[o].mid] \cup {new} ELSE T[h[o].mid]) /\ T[h[o].mid] \subseteq U
    BY <1>1 DEF GrowMids
  <1>3. g[new].mid = 0 /\ new # NoNode /\ \A y \in U : g[y].mid = h[y].mid /\ y # NoNode
    BY <1>1 DEF GrowData
  <1> QED BY <1>1, <1>2, <1>3 DEF Keyed

GrowKeysFrom(g, h, U, T, S, V, p, side, new, k, R, Q) ==
  /\ Growing(g, h, U, T, S, p, side, new, k) /\ R = More(T, p, new) /\ Q = More(S, p, new)
  /\ Keys(h, U, T, S, NoNode, V) /\ Suits(h, U, T, S, V, p, k) /\ Text(k) /\ U = T[h[0].mid]
GrowKeysTo(g, h, U, T, V, new, k, R, Q) ==
  /\ Keys(g, U \cup {new}, R, Q, NoNode, V) /\ KeysOf(g, R, V, NoNode) = KeysOf(h, T, V, NoNode) \cup {k}
  /\ U \cup {new} = R[g[0].mid]

LEMMA GrowKeys ==
  ASSUME NEW g, NEW h, NEW U, NEW T, NEW S, NEW p, NEW side, NEW new, NEW k, NEW R, NEW Q, NEW V,
         GrowKeysFrom(g, h, U, T, S, V, p, side, new, k, R, Q)
  PROVE  GrowKeysTo(g, h, U, T, V, new, k, R, Q)
  <1>0. /\ Growing(g, h, U, T, S, p, side, new, k) /\ R = More(T, p, new) /\ Q = More(S, p, new)
        /\ Keys(h, U, T, S, NoNode, V) /\ Suits(h, U, T, S, V, p, k) /\ Text(k) /\ U = T[h[0].mid]
    BY DEF GrowKeysFrom
  <1> USE <1>0
  <1>1. /\ GrowData(g, h, U, p, new, k) /\ new \notin U /\ new # 0 /\ p \in U /\ NoNode \notin (U \cup {new}) \cup {0} /\ R[0] = {} /\ Q[0] = {}
        /\ \A o \in U \cup {0} : GrowMids(g, h, U, T, S, p, new, R, Q, o)
    BY GrowDataIs
  <1>2. /\ g[new].index = h[p].index /\ g[new].cbyte = Byte(k, h[p].index) /\ g[new].item = k /\ g[new].mid = 0 /\ g[0].mid = h[0].mid
        /\ \A y \in U : g[y].cbyte = h[y].cbyte /\ g[y].index = h[y].index /\ g[y].item = h[y].item /\ g[y].mid = h[y].mid
    BY <1>1 DEF GrowData, SameData
  <1>3. \A o \in U \cup {0} : /\ g[o].mid = h[o].mid /\ T[h[o].mid] \subseteq U /\ S[h[o].mid] \subseteq U
                              /\ Q[g[o].mid] = IF p \in S[h[o].mid] THEN S[h[o].mid] \cup {new} ELSE S[h[o].mid]
    BY <1>1 DEF GrowMids
  <1>4. Q[g[new].mid] = {} /\ R[g[new].mid] = {}
    BY <1>1, <1>2
  <1>5. \A o \in U \cup {0} : \A y \in Q[g[o].mid] : \E z \in S[h[o].mid] \ {NoNode} : g[y].index = h[z].index /\ (y # new => z = y) /\ (y = new => z = p)
    <2> TAKE o \in U \cup {0}
    <2> TAKE y \in Q[g[o].mid]
    <2>1. CASE y = new
      <3>1. p \in S[h[o].mid]
        BY <1>1, <1>3, <2>1
      <3> QED BY <1>1, <1>2, <2>1, <3>1
    <2>2. CASE y # new
      <3>2. (Q[g[o].mid] = S[h[o].mid] \/ Q[g[o].mid] = S[h[o].mid] \cup {new}) /\ S[h[o].mid] \subseteq U
        BY <1>3
      <3>1. y \in S[h[o].mid] /\ y \in U
        BY <3>2, <2>2
      <3> QED BY <1>1, <1>2, <2>2, <3>1
    <2> QED BY <2>1, <2>2
  <1>6. /\ Aligned(h, U, S, NoNode) /\ Deeper(h, U, S, NoNode) /\ First(h, S, NoNode, V) /\ Items(h, U, NoNode)
        /\ Spelled(h, U, T, NoNode, V) /\ Agreeing(h, U, T, S, NoNode, V) /\ Left(h, S, NoNode, V)
    BY DEF Keys
  <1>7. new \notin V
    <2>1. V = {} \/ \E v : V = {v} /\ v \in U
      BY <1>3, <1>6 DEF Left
    <2> QED BY <1>1, <2>1
  <1>8. \A o \in U \cup {0} : Keyed(g, R, V, NoNode, o) = IF p \in T[h[o].mid] THEN Keyed(h, T, V, NoNode, o) \cup {new} ELSE Keyed(h, T, V, NoNode, o)
    BY <1>7, GrowKeyed
  <1>9. Keyed(g, R, V, NoNode, new) = {}
    BY <1>4 DEF Keyed
  <1>10. \A o \in U \cup {0} : Keyed(h, T, V, NoNode, o) \subseteq U \ {NoNode}
    BY <1>3 DEF Keyed
  <1>11. Aligned(g, U \cup {new}, Q, NoNode)
    <2> SUFFICES ASSUME NEW o \in ((U \cup {new}) \cup {0}) \ {NoNode}, NEW y \in Q[g[o].mid] \ {NoNode}, NEW z \in Q[g[o].mid] \ {NoNode} PROVE g[y].index = g[z].index
      BY DEF Aligned
    <2>1. o \in U \cup {0} /\ o \in (U \cup {0}) \ {NoNode}
      BY <1>1, <1>4
    <2>2. PICK y1 \in S[h[o].mid] \ {NoNode} : g[y].index = h[y1].index
      BY <1>5, <2>1
    <2>3. PICK z1 \in S[h[o].mid] \ {NoNode} : g[z].index = h[z1].index
      BY <1>5, <2>1
    <2> QED BY <1>6, <2>1, <2>2, <2>3 DEF Aligned
  <1>12. Deeper(g, U \cup {new}, Q, NoNode)
    <2> SUFFICES ASSUME NEW o \in (U \cup {new}) \ {NoNode}, NEW y \in Q[g[o].mid] \ {NoNode} PROVE g[y].index > g[o].index
      BY DEF Deeper
    <2>1. o \in U \cup {0} /\ o \in U \ {NoNode}
      BY <1>1, <1>4
    <2>2. PICK y1 \in S[h[o].mid] \ {NoNode} : g[y].index = h[y1].index
      BY <1>5, <2>1
    <2>3. h[y1].index > h[o].index
      BY <1>6, <2>1, <2>2 DEF Deeper
    <2> QED BY <1>2, <2>1, <2>2, <2>3
  <1>13. First(g, Q, NoNode, V)
    <2> SUFFICES ASSUME NEW y \in Q[g[0].mid] \ {NoNode} PROVE g[y].index = IF V = {} THEN 0 ELSE Taken
      BY DEF First
    <2>2. PICK y1 \in S[h[0].mid] \ {NoNode} : g[y].index = h[y1].index
      BY <1>5
    <2> QED BY <1>6, <2>2 DEF First
  <1>14. Items(g, U \cup {new}, NoNode)
    <2> SUFFICES ASSUME NEW x \in (U \cup {new}) \ {NoNode} PROVE IF g[x].mid = 0 THEN Text(g[x].item) ELSE g[x].item = NoKey
      BY DEF Items
    <2>1. CASE x = new
      BY <1>2, <2>1
    <2>2. CASE x # new
      <3>1. IF h[x].mid = 0 THEN Text(h[x].item) ELSE h[x].item = NoKey
        BY <1>6, <2>2 DEF Items
      <3> QED BY <1>2, <2>2, <3>1
    <2> QED BY <2>1, <2>2
  <1>15. Spelled(g, U \cup {new}, R, NoNode, V)
    <2> SUFFICES ASSUME NEW x \in (U \cup {new}) \ {NoNode}
                 PROVE  /\ \A y \in Keyed(g, R, V, NoNode, x) : Byte(g[y].item, g[x].index) = g[x].cbyte
                        /\ g[x].mid = 0 /\ x \notin V => Byte(g[x].item, g[x].index) = g[x].cbyte
      BY DEF Spelled
    <2>1. CASE x = new
      BY <1>2, <1>9, <2>1
    <2>2. CASE x # new
      <3>1. x \in U /\ x \in U \cup {0} /\ x \in U \ {NoNode}
        BY <2>2
      <3>2. /\ \A y \in Keyed(h, T, V, NoNode, x) : Byte(h[y].item, h[x].index) = h[x].cbyte
            /\ h[x].mid = 0 /\ x \notin V => Byte(h[x].item, h[x].index) = h[x].cbyte
        BY <1>6, <3>1 DEF Spelled
      <3>3. ASSUME NEW y \in Keyed(g, R, V, NoNode, x) PROVE Byte(g[y].item, g[x].index) = g[x].cbyte
        <4>1. CASE y \in Keyed(h, T, V, NoNode, x)
          BY <1>2, <1>10, <3>1, <3>2, <4>1
        <4>2. CASE y \notin Keyed(h, T, V, NoNode, x)
          <5>1. y = new /\ p \in T[h[x].mid]
            BY <1>8, <3>1, <3>3, <4>2
          <5> QED BY <1>2, <3>1, <5>1 DEF Suits
        <4> QED BY <4>1, <4>2
      <3> QED BY <1>2, <3>1, <3>2, <3>3
    <2> QED BY <2>1, <2>2
  <1>16. Agreeing(g, U \cup {new}, R, Q, NoNode, V)
    <2> SUFFICES ASSUME NEW o \in (U \cup {new}) \ {NoNode}, NEW y \in Keyed(g, R, V, NoNode, o), NEW z \in Keyed(g, R, V, NoNode, o),
                        NEW r \in Q[g[o].mid] \ {NoNode}, NEW j \in Int, 0 <= j, j < g[r].index
                 PROVE  Byte(g[y].item, j) = Byte(g[z].item, j)
      BY DEF Agreeing
    <2>1. o \in U \cup {0} /\ o \in U \ {NoNode}
      BY <1>1, <1>9
    <2>2. PICK s \in S[h[o].mid] \ {NoNode} : g[r].index = h[s].index
      BY <1>5, <2>1
    <2>3. ASSUME NEW a \in Keyed(h, T, V, NoNode, o), NEW c \in Keyed(h, T, V, NoNode, o) PROVE Byte(g[a].item, j) = Byte(g[c].item, j)
      <3>1. Byte(h[a].item, j) = Byte(h[c].item, j)
        BY <1>6, <2>1, <2>2 DEF Agreeing
      <3> QED BY <1>2, <1>10, <2>1, <3>1
    <2>4. ASSUME NEW a \in Keyed(h, T, V, NoNode, o), p \in T[h[o].mid] PROVE Byte(g[a].item, j) = Byte(g[new].item, j)
      <3>1. Byte(k, j) = Byte(h[a].item, j)
        BY <2>1, <2>2, <2>4 DEF Suits
      <3> QED BY <1>2, <1>10, <2>1, <3>1
    <2>5. \A a \in Keyed(g, R, V, NoNode, o) : a \in Keyed(h, T, V, NoNode, o) \/ (a = new /\ p \in T[h[o].mid])
      BY <1>8, <2>1
    <2> QED BY <2>3, <2>4, <2>5
  <1>17. Left(g, Q, NoNode, V)
    <2>1. CASE V = {}
      BY <2>1 DEF Left
    <2>2. CASE V # {}
      <3>1. PICK v : /\ V = {v} /\ v \in S[h[0].mid] \ {NoNode} /\ h[v].mid = 0 /\ h[v].cbyte # 0
                     /\ \A y \in S[h[0].mid] \ {NoNode} : y = v \/ h[y].cbyte = 0
        BY <1>6, <2>2 DEF Left
      <3>2. v \in U /\ g[v].mid = 0 /\ g[v].cbyte # 0 /\ v \in Q[g[0].mid] \ {NoNode}
        BY <1>2, <1>3, <3>1
      <3>3. ASSUME NEW y \in Q[g[0].mid] \ {NoNode}, y # v PROVE g[y].cbyte = 0
        <4>1. PICK z \in S[h[0].mid] \ {NoNode} : g[y].index = h[z].index /\ (y # new => z = y) /\ (y = new => z = p)
          BY <1>5, <3>3
        <4>2. CASE y = new
          <5>1. h[p].index = Taken
            BY <1>6, <2>2, <4>1, <4>2 DEF First
          <5> QED BY <1>2, <4>2, <5>1 DEF Byte, Taken
        <4>3. CASE y # new
          <5>2. y = z /\ 0 \in U \cup {0}
            BY <4>1, <4>3
          <5>3. y \in S[h[0].mid] \ {NoNode} /\ S[h[0].mid] \subseteq U
            BY <1>3, <4>1, <5>2
          <5>1. h[y].cbyte = 0 /\ y \in U
            BY <3>1, <3>3, <5>3
          <5> QED BY <1>2, <5>1
        <4> QED BY <4>2, <4>3
      <3> QED BY <3>1, <3>2, <3>3 DEF Left
    <2> QED BY <2>1, <2>2
  <1>18. KeysOf(g, R, V, NoNode) = KeysOf(h, T, V, NoNode) \cup {k}
    <2>1. Keyed(g, R, V, NoNode, 0) = Keyed(h, T, V, NoNode, 0) \cup {new} /\ Keyed(h, T, V, NoNode, 0) \subseteq U
      BY <1>1, <1>8, <1>10
    <2>2. KeysOf(g, R, V, NoNode) = {g[y].item : y \in Keyed(h, T, V, NoNode, 0) \cup {new}}
      BY <2>1 DEF KeysOf
    <2>3. KeysOf(h, T, V, NoNode) = {h[y].item : y \in Keyed(h, T, V, NoNode, 0)}
      BY DEF KeysOf
    <2> QED BY <1>2, <2>1, <2>2, <2>3
  <1>19. U \cup {new} = R[g[0].mid]
    <2>1. R[g[0].mid] = IF p \in T[h[0].mid] THEN T[h[0].mid] \cup {new} ELSE T[h[0].mid]
      BY <1>1 DEF GrowMids
    <2> QED BY <1>1, <2>1
  <1>20. Keys(g, U \cup {new}, R, Q, NoNode, V)
    BY <1>11, <1>12, <1>13, <1>14, <1>15, <1>16, <1>17 DEF Keys
  <1> QED BY <1>18, <1>19, <1>20 DEF GrowKeysTo
=============================================================================
