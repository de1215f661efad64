--------------------------- MODULE SkipListProofs ---------------------------
(***************************************************************************)
(* Proofs about SkipList, for all sets of keys and all heights.            *)
(***************************************************************************)
EXTENDS SkipList, TLAPS

Place == Node \cup {Tail}

\* What holds of search() while it is on its way: it stands before the key, and
\* the layers above are done.
PathInv ==
  op # "none" =>
    /\ layer >= 0 => cur \in On(layer) /\ Precedes(cur, key)
    /\ \A l \in Layer : l > layer => PathDone(l)
    /\ match_at > 0 => match_at > layer

AtRest == op = "none" => layer = MAXHEIGHT /\ cur = Head /\ match_at = 0

IInv == TypeOK /\ WellFormed /\ PathInv /\ AtRest

-----------------------------------------------------------------------------
(* The order                                                               *)

\* Precedes is a strict total order on nodes and the tail.
LEMMA Order ==
  ASSUME NEW a \in Place, NEW b \in Place, NEW c \in Place
  PROVE  /\ ~ Precedes(a, a)
         /\ Precedes(a, b) /\ Precedes(b, c) => Precedes(a, c)
         /\ Precedes(a, b) \/ a = b \/ Precedes(b, a)
         /\ ~ Precedes(a, Head)
         /\ ~ Precedes(Tail, a)
         /\ a # Head => Precedes(Head, a)
  BY KeyAssumption, SentinelAssumption DEF Precedes, Place, Node

\* The comparisons of search() are those of the order.
LEMMA Comparisons ==
  ASSUME NEW n \in Key \cup {Tail}, NEW k \in Key
  PROVE  /\ Before(n, k) <=> Precedes(n, k)
         /\ Matches(n, k) <=> n = k
  BY KeyAssumption, SentinelAssumption DEF Before, Matches, Precedes

-----------------------------------------------------------------------------
(* One layer                                                               *)

\* LayerSorted as a predicate of the pNext pointers f of one layer.
Nodes(f) == {n \in Node : f[n] # NULL}
Sorted(f) ==
  /\ Head \in Nodes(f)
  /\ \A n \in Nodes(f) :
       /\ f[n] \in Nodes(f) \cup {Tail}
       /\ Precedes(n, f[n])
       /\ \A m \in Nodes(f) : ~ (Precedes(n, m) /\ Precedes(m, f[n]))

LEMMA LayerIsSorted ==
  ASSUME NEW l \in Layer
  PROVE  On(l) = Nodes(next[l]) /\ (LayerSorted(l) <=> Sorted(next[l]))
  BY DEF On, Nodes, LayerSorted, Sorted

\* Where the path stands, the key follows directly if it is on the layer.
LEMMA Successor ==
  ASSUME NEW f \in [Node -> Key \cup {Tail, NULL}], Sorted(f),
         NEW p \in Nodes(f), NEW k \in Key,
         Precedes(p, k), ~ Precedes(f[p], k)
  PROVE  /\ k \in Nodes(f) <=> f[p] = k
         /\ k \notin Nodes(f) => Precedes(k, f[p])
  <1>1. k \in Place /\ p \in Place /\ f[p] \in Place /\ f[p] # NULL
    BY DEF Sorted, Nodes, Place, Node
  <1>2. CASE k \in Nodes(f)
    <2>1. ~ Precedes(k, f[p])
      BY <1>2 DEF Sorted
    <2> QED
      BY <1>1, <1>2, <2>1, Order
  <1>3. CASE k \notin Nodes(f)
    <2>1. f[p] # k
      BY <1>3, SentinelAssumption DEF Sorted
    <2> QED
      BY <1>1, <1>3, <2>1, Order
  <1> QED
    BY <1>2, <1>3

\* Linking a key between its predecessor and its successor keeps a layer sorted.
LEMMA InsertSorted ==
  ASSUME NEW f \in [Node -> Key \cup {Tail, NULL}], Sorted(f),
         NEW p \in Nodes(f), NEW k \in Key, k \notin Nodes(f),
         Precedes(p, k), ~ Precedes(f[p], k),
         NEW g, g = [f EXCEPT ![k] = f[p], ![p] = k]
  PROVE  /\ g \in [Node -> Key \cup {Tail, NULL}]
         /\ Nodes(g) = Nodes(f) \cup {k}
         /\ Sorted(g)
  <1>1. k \in Node /\ p \in Node /\ k # p /\ k # NULL /\ Tail # NULL
    BY SentinelAssumption DEF Nodes, Node
  <1>2. f[p] # NULL /\ f[p] \in Key \cup {Tail}
    BY DEF Nodes
  <1>3. /\ g \in [Node -> Key \cup {Tail, NULL}]
        /\ g[k] = f[p] /\ g[p] = k
        /\ \A n \in Node : n # k /\ n # p => g[n] = f[n]
    BY <1>1
  <1>4. Nodes(g) = Nodes(f) \cup {k}
    BY <1>1, <1>2, <1>3 DEF Nodes
  <1>5. Precedes(k, f[p])
    BY Successor
  <1>6. \A n \in Nodes(f) : n \in Place /\ f[n] \in Place
    BY DEF Nodes, Place, Node
  <1>7. k \in Place /\ p \in Place
    BY <1>1 DEF Place
  <1>8. ASSUME NEW n \in Nodes(g)
        PROVE  /\ g[n] \in Nodes(g) \cup {Tail}
               /\ Precedes(n, g[n])
               /\ \A m \in Nodes(g) : ~ (Precedes(n, m) /\ Precedes(m, g[n]))
    <2>1. CASE n = k
      <3>1. f[p] \in Nodes(f) \cup {Tail} /\ \A m \in Nodes(f) : ~ (Precedes(p, m) /\ Precedes(m, f[p]))
        BY DEF Sorted
      <3>2. ASSUME NEW m \in Nodes(g), Precedes(k, m), Precedes(m, f[p])
            PROVE  FALSE
        <4>1. m # k
          BY <3>2, <1>7, Order
        <4>2. m \in Nodes(f) /\ m \in Place
          BY <4>1, <1>4, <1>6
        <4>3. Precedes(p, m)
          BY <4>2, <1>7, <3>2, Order
        <4> QED
          BY <3>1, <3>2, <4>2, <4>3
      <3> QED
        BY <2>1, <1>3, <1>4, <1>5, <3>1, <3>2
    <2>2. CASE n = p
      <3>1. ASSUME NEW m \in Nodes(g), Precedes(p, m), Precedes(m, k)
            PROVE  FALSE
        <4>1. m # k
          BY <3>1, <1>7, Order
        <4>2. m \in Nodes(f) /\ m \in Place
          BY <4>1, <1>4, <1>6
        <4>3. Precedes(m, f[p])
          BY <4>2, <1>5, <1>6, <1>7, <3>1, Order
        <4> QED
          BY <3>1, <4>2, <4>3 DEF Sorted
      <3> QED
        BY <2>2, <1>3, <1>4, <3>1
    <2>3. CASE n # k /\ n # p
      <3>1. n \in Nodes(f) /\ g[n] = f[n]
        BY <2>3, <1>3, <1>4 DEF Nodes
      <3>2. /\ f[n] \in Nodes(f) \cup {Tail}
            /\ Precedes(n, f[n])
            /\ \A m \in Nodes(f) : ~ (Precedes(n, m) /\ Precedes(m, f[n]))
        BY <3>1 DEF Sorted
      <3>3. ~ (Precedes(n, k) /\ Precedes(k, f[n]))
        <4>1. SUFFICES ASSUME Precedes(n, k), Precedes(k, f[n]) PROVE FALSE
          OBVIOUS
        <4>2. Precedes(p, f[n])
          BY <4>1, <3>1, <1>6, <1>7, Order
        <4>3. ~ Precedes(n, p)
          BY <3>2, <4>2
        <4>4. Precedes(p, n)
          BY <4>3, <2>3, <3>1, <1>6, <1>7, Order
        <4>5. Precedes(n, f[p])
          BY <4>1, <1>5, <3>1, <1>6, <1>7, Order
        <4> QED
          BY <4>4, <4>5, <3>1 DEF Sorted
      <3> QED
        BY <3>1, <3>2, <3>3, <1>4
    <2> QED
      BY <2>1, <2>2, <2>3
  <1> QED
    BY <1>3, <1>4, <1>8 DEF Sorted

\* Unlinking a key behind its predecessor keeps a layer sorted.
LEMMA RemoveSorted ==
  ASSUME NEW f \in [Node -> Key \cup {Tail, NULL}], Sorted(f),
         NEW p \in Nodes(f), NEW k \in Key, k \in Nodes(f), f[p] = k,
         NEW g \in [Node -> Key \cup {Tail, NULL}],
         \A n \in Node : g[n] = IF n = p THEN f[k] ELSE IF n = k THEN NULL ELSE f[n]
  PROVE  Nodes(g) = Nodes(f) \ {k} /\ Sorted(g)
  <1>0. \A n \in Nodes(f) : n \in Place /\ n \in Node /\ f[n] \in Place /\ f[n] # NULL
    BY DEF Nodes, Place, Node
  <1>1. Precedes(p, k) /\ k # p /\ k # Head
    BY <1>0, Order, SentinelAssumption DEF Sorted
  <1>3. /\ g[k] = NULL /\ g[p] = f[k]
        /\ \A n \in Node : n # k /\ n # p => g[n] = f[n]
    BY <1>0, <1>1
  <1>4. Nodes(g) = Nodes(f) \ {k}
    BY <1>0, <1>1, <1>3 DEF Nodes
  <1>5. Head \in Nodes(g)
    BY <1>1, <1>4 DEF Sorted
  <1>6. /\ f[k] \in Nodes(f) \cup {Tail} /\ Precedes(k, f[k])
        /\ \A m \in Nodes(f) : ~ (Precedes(k, m) /\ Precedes(m, f[k]))
        /\ \A m \in Nodes(f) : ~ (Precedes(p, m) /\ Precedes(m, k))
    BY DEF Sorted
  <1>7. ASSUME NEW n \in Nodes(g)
        PROVE  /\ g[n] \in Nodes(g) \cup {Tail}
               /\ Precedes(n, g[n])
               /\ \A m \in Nodes(g) : ~ (Precedes(n, m) /\ Precedes(m, g[n]))
    <2>1. CASE n = p
      <3>1. f[k] # k
        BY <1>0, <1>6, Order
      <3>2. Precedes(p, f[k])
        BY <1>0, <1>1, <1>6, Order
      <3>3. ASSUME NEW m \in Nodes(g), Precedes(p, m), Precedes(m, f[k])
            PROVE  FALSE
        <4>1. m \in Nodes(f) /\ m # k
          BY <1>4
        <4>2. Precedes(m, k) \/ Precedes(k, m)
          BY <4>1, <1>0, Order
        <4> QED
          BY <4>1, <4>2, <1>6, <3>3
      <3> QED
        BY <2>1, <1>3, <1>4, <1>6, <3>1, <3>2, <3>3
    <2>2. CASE n # p
      <3>1. n \in Nodes(f) /\ n # k /\ g[n] = f[n]
        BY <2>2, <1>3, <1>4, <1>0
      <3>2. /\ f[n] \in Nodes(f) \cup {Tail}
            /\ Precedes(n, f[n])
            /\ \A m \in Nodes(f) : ~ (Precedes(n, m) /\ Precedes(m, f[n]))
        BY <3>1 DEF Sorted
      <3>3. f[n] # k
        <4>1. SUFFICES ASSUME f[n] = k PROVE FALSE
          OBVIOUS
        <4>2. ~ Precedes(n, p) /\ ~ Precedes(p, n)
          BY <4>1, <3>1, <3>2, <1>1, <1>6
        <4> QED
          BY <4>2, <2>2, <3>1, <1>0, Order
      <3> QED
        BY <3>1, <3>2, <3>3, <1>4
    <2> QED
      BY <2>1, <2>2
  <1> QED
    BY <1>3, <1>4, <1>5, <1>7 DEF Sorted
-----------------------------------------------------------------------------
(* The invariant                                                           *)

\* What the invariant says of one layer.
LEMMA LayerFacts ==
  ASSUME IInv, NEW l \in Layer
  PROVE  /\ next[l] \in [Node -> Key \cup {Tail, NULL}]
         /\ On(l) = Nodes(next[l])
         /\ Sorted(next[l])
         /\ \A n \in On(l) : n \in Node /\ next[l][n] \in Key \cup {Tail}
  <1>1. next[l] \in [Node -> Key \cup {Tail, NULL}]
    BY DEF IInv, TypeOK
  <1>2. On(l) = Nodes(next[l]) /\ Sorted(next[l])
    BY LayerIsSorted DEF IInv, WellFormed
  <1> QED
    BY <1>1, <1>2 DEF Nodes

\* On a layer that is done, the key is on it if and only if it follows the path.
LEMMA DoneLayer ==
  ASSUME IInv, NEW l \in Layer, PathDone(l), op # "none"
  PROVE  /\ key \in Key
         /\ aIdx[l] \in On(l)
         /\ Matches(next[l][aIdx[l]], key) <=> key \in On(l)
         /\ key \in On(l) <=> next[l][aIdx[l]] = key
  <1>1. key \in Key
    BY DEF IInv, TypeOK
  <1>2. aIdx[l] \in On(l) /\ Precedes(aIdx[l], key) /\ ~ Precedes(next[l][aIdx[l]], key)
    BY DEF PathDone
  <1>3. key \in On(l) <=> next[l][aIdx[l]] = key
    BY <1>1, <1>2, LayerFacts, Successor
  <1>4. next[l][aIdx[l]] \in Key \cup {Tail}
    BY <1>2, LayerFacts
  <1> QED
    BY <1>1, <1>2, <1>3, <1>4, Comparisons

\* The invariant implies that the result of search() is exact.
LEMMA Exact == IInv => SearchExact
  <1> SUFFICES ASSUME IInv, op # "none", layer = -1
               PROVE  (Found <=> key \in On(0)) /\ \A l \in Layer : PathDone(l)
    BY DEF SearchExact
  <1>1. \A l \in Layer : PathDone(l)
    BY DEF IInv, PathInv, Layer
  <1>2. 0 \in Layer /\ 1 \in Layer
    BY HeightAssumption DEF Layer
  <1>3. Matches(next[0][aIdx[0]], key) <=> key \in On(0)
    BY <1>1, <1>2, DoneLayer
  <1>4. match_at > 0 => key \in On(0)
    <2>1. match_at > 0 => key \in On(1)
      BY <1>1, <1>2 DEF PathDone, IInv, TypeOK, Layer
    <2>2. On(1) \subseteq On(0)
      BY <1>2 DEF IInv, WellFormed, TowersComplete
    <2> QED
      BY <2>1, <2>2
  <1> QED
    BY <1>1, <1>3, <1>4 DEF Found, pData

LEMMA InitInv == Init => IInv
  <1> SUFFICES ASSUME Init PROVE IInv
    OBVIOUS
  <1> USE DEF Init
  <1>1. TypeOK
    BY HeightAssumption DEF TypeOK, Layer, Node, Ops, NoPath
  <1>2. \A l \in Layer : On(l) = {Head}
    BY SentinelAssumption DEF On, Node
  <1>3. Precedes(Head, Tail) /\ ~ Precedes(Head, Head)
    BY SentinelAssumption DEF Precedes
  <1>4. \A l \in Layer : LayerSorted(l)
    BY <1>2, <1>3 DEF LayerSorted, Node
  <1>5. TowersComplete
    <2>1. \A l \in Layer : l > 0 => l - 1 \in Layer
      BY HeightAssumption DEF Layer
    <2>2. 0 \in Layer
      BY HeightAssumption DEF Layer
    <2>3. \A k \in Key : value[k] = NULL /\ k # Head
      BY SentinelAssumption DEF Node
    <2> QED
      BY <1>2, <2>1, <2>2, <2>3 DEF TowersComplete
  <1> QED
    BY <1>1, <1>4, <1>5 DEF IInv, WellFormed, PathInv, AtRest

\* Steps that leave the list and the path alone.
LEMMA SameList ==
  ASSUME IInv, next' = next, \A k \in Key : value'[k] # NULL <=> value[k] # NULL
  PROVE  WellFormed'
  <1>1. \A l \in Layer : On(l)' = On(l)
    BY DEF On
  <1>2. \A l \in Layer : LayerSorted(l)'
    BY <1>1 DEF IInv, WellFormed, LayerSorted
  <1>3. TowersComplete'
    <2>1. \A l \in Layer : l > 0 => l - 1 \in Layer
      BY HeightAssumption DEF Layer
    <2>2. 0 \in Layer
      BY HeightAssumption DEF Layer
    <2> QED
      BY <1>1, <2>1, <2>2 DEF IInv, WellFormed, TowersComplete
  <1> QED
    BY <1>2, <1>3 DEF WellFormed

LEMMA CallInv ==
  ASSUME IInv, NEW o \in Ops, NEW k \in Key, NEW v \in Value \cup {NULL},
         o \in {"Put", "PutIfAbsent"} => v \in Value, Call(o, k, v)
  PROVE  IInv'
  <1> USE DEF Call, list, path
  <1>1. TypeOK'
    BY DEF IInv, TypeOK, Ops
  <1>2. WellFormed'
    BY SameList
  <1>3. Head \in On(MAXHEIGHT) /\ Precedes(Head, k)
    BY HeightAssumption, SentinelAssumption DEF IInv, WellFormed, LayerSorted, Layer, Precedes
  <1>4. PathInv' /\ AtRest'
    BY <1>3, HeightAssumption DEF IInv, PathInv, AtRest, On, Precedes, Ops, Layer
  <1> QED
    BY <1>1, <1>2, <1>4 DEF IInv

LEMMA MoveForwardInv == IInv /\ MoveForward => IInv'
  <1> SUFFICES ASSUME IInv, MoveForward PROVE IInv'
    OBVIOUS
  <1> USE DEF MoveForward, Searching, list, call
  <1>1. layer \in Layer /\ key \in Key /\ op # "none"
    BY DEF IInv, TypeOK, Layer
  <1>2. cur \in On(layer)
    BY <1>1 DEF IInv, PathInv
  <1>3. next[layer][cur] \in Key \cup {Tail} /\ next[layer][cur] \in On(layer) \cup {Tail}
    BY <1>1, <1>2, LayerFacts DEF Sorted
  <1>4. next[layer][cur] \in On(layer) /\ Precedes(next[layer][cur], key)
    BY <1>1, <1>3, Comparisons DEF Before
  <1>5. TypeOK'
    BY <1>3, <1>4 DEF IInv, TypeOK, On
  <1>6. WellFormed'
    BY SameList
  <1>7. PathInv' /\ AtRest'
    <2>1. \A l \in Layer : PathDone(l)' <=> PathDone(l)
      BY DEF PathDone, On
    <2>2. On(layer)' = On(layer)
      BY DEF On
    <2> QED
      BY <1>1, <1>4, <2>1, <2>2 DEF IInv, PathInv, AtRest
  <1> QED
    BY <1>5, <1>6, <1>7 DEF IInv

LEMMA MoveDownInv == IInv /\ MoveDown => IInv'
  <1> SUFFICES ASSUME IInv, MoveDown PROVE IInv'
    OBVIOUS
  <1> USE DEF MoveDown, Searching, list, call
  <1>1. /\ layer \in Layer /\ layer \in Int /\ layer >= 0 /\ key \in Key /\ op # "none"
        /\ match_at \in Layer /\ match_at \in Int /\ match_at >= 0
        /\ \A l \in Layer : l \in Int
        /\ 0 \in Layer
    BY HeightAssumption DEF IInv, TypeOK, Layer
  <1>2. cur \in On(layer) /\ Precedes(cur, key)
    BY <1>1 DEF IInv, PathInv
  <1>3. next[layer][cur] \in Key \cup {Tail}
    BY <1>1, <1>2, LayerFacts
  <1>4. ~ Precedes(next[layer][cur], key)
    BY <1>1, <1>3, Comparisons
  <1>5. Matches(next[layer][cur], key) <=> key \in On(layer)
    BY <1>1, <1>2, <1>3, <1>4, LayerFacts, Successor, Comparisons
  <1>6. match_at' \in Layer
    BY <1>1 DEF MatchAfter
  <1>7. TypeOK'
    BY <1>1, <1>2, <1>6, HeightAssumption DEF IInv, TypeOK, On, Layer
  <1>8. WellFormed'
    BY SameList
  <1>9. \A l \in Layer : l > layer => PathDone(l)
    BY <1>1 DEF IInv, PathInv
  <1>10. match_at > 0 => key \in On(layer) /\ match_at > layer
    <2> SUFFICES ASSUME match_at > 0 PROVE key \in On(layer) /\ match_at > layer
      OBVIOUS
    <2>1. match_at > layer
      BY <1>1 DEF IInv, PathInv
    <2>2. layer + 1 \in Layer /\ layer + 1 > layer /\ layer + 1 <= match_at
      BY <1>1, <2>1, HeightAssumption DEF Layer
    <2>3. key \in On(layer + 1)
      BY <1>1, <1>9, <2>2 DEF PathDone
    <2>4. On(layer + 1) \subseteq On(layer)
      BY <1>1, <2>2 DEF IInv, WellFormed, TowersComplete
    <2> QED
      BY <2>1, <2>3, <2>4
  <1>11. /\ match_at > 0 => match_at' = match_at
         /\ match_at = 0 /\ layer > 0 /\ key \in On(layer) => match_at' = layer
         /\ match_at = 0 /\ ~ (layer > 0 /\ key \in On(layer)) => match_at' = 0
    BY <1>1, <1>5 DEF MatchAfter
  <1>12. \A l \in Layer : On(l)' = On(l)
    BY DEF On
  <1>13. ASSUME NEW l \in Layer, l > layer'
         PROVE  PathDone(l)'
    <2>1. CASE l = layer
      <3>1. aIdx'[l] = cur
        BY <2>1 DEF IInv, TypeOK
      <3>2. l > 0 => (l <= match_at' <=> key \in On(l))
        BY <1>1, <1>10, <1>11, <2>1
      <3> QED
        BY <1>1, <1>2, <1>4, <1>12, <2>1, <3>1, <3>2 DEF PathDone
    <2>2. CASE l # layer
      <3>1. l > layer
        BY <1>1, <1>13, <2>2
      <3>2. PathDone(l) /\ aIdx'[l] = aIdx[l]
        BY <1>9, <2>2, <3>1 DEF IInv, TypeOK
      <3>3. l <= match_at' <=> l <= match_at
        BY <1>1, <1>11, <3>1
      <3> QED
        BY <1>12, <3>2, <3>3 DEF PathDone
    <2> QED
      BY <2>1, <2>2
  <1>14. match_at' > 0 => match_at' > layer'
    BY <1>1, <1>10, <1>11
  <1>15. (layer >= 0 => cur \in On(layer) /\ Precedes(cur, key))'
    <2> SUFFICES ASSUME layer - 1 >= 0 PROVE cur \in On(layer - 1)
      BY <1>2 DEF On
    <2>1. On(layer) \subseteq On(layer - 1)
      BY <1>1 DEF IInv, WellFormed, TowersComplete
    <2> QED
      BY <1>2, <2>1
  <1>16. PathInv' /\ AtRest'
    BY <1>1, <1>13, <1>14, <1>15 DEF PathInv, AtRest
  <1> QED
    BY <1>7, <1>8, <1>16 DEF IInv

-----------------------------------------------------------------------------
(* The ends of the operations                                              *)

\* What holds when search() has returned.
LEMMA SearchedFacts ==
  ASSUME IInv, op # "none", layer = -1
  PROVE  /\ key \in Key /\ key # Head /\ key # NULL
         /\ 0 \in Layer /\ pData \in Node
         /\ Found <=> key \in On(0)
         /\ Found <=> next[0][pData] = key
         /\ \A l \in Layer :
              /\ aIdx[l] \in Nodes(next[l])
              /\ Precedes(aIdx[l], key) /\ ~ Precedes(next[l][aIdx[l]], key)
              /\ key \in On(l) <=> next[l][aIdx[l]] = key
              /\ l > 0 => (l <= match_at <=> key \in On(l))
  <1>1. key \in Key /\ key # Head /\ key # NULL /\ 0 \in Layer
    BY SentinelAssumption, HeightAssumption DEF IInv, TypeOK, Layer
  <1>2. (Found <=> key \in On(0)) /\ \A l \in Layer : PathDone(l)
    BY Exact DEF SearchExact
  <1>3. \A l \in Layer : aIdx[l] \in On(l) /\ (key \in On(l) <=> next[l][aIdx[l]] = key)
    BY <1>2, DoneLayer
  <1> QED
    BY <1>1, <1>2, <1>3, LayerFacts DEF PathDone, pData, On

\* The operation is over and so is its path.
LEMMA ReturnInv ==
  ASSUME NEW r, Return(r)
  PROVE  PathInv' /\ AtRest'
  BY DEF Return, PathInv, AtRest

LEMMA ReturnType ==
  ASSUME IInv, NEW r \in Value \cup {NULL}, Return(r),
         next' \in [Layer -> [Node -> Key \cup {Tail, NULL}]],
         value' \in [Node -> Value \cup {NULL}],
         it' \in Key \cup {Tail, NULL}
  PROVE  TypeOK'
  BY HeightAssumption DEF IInv, TypeOK, Return, NoPath, Layer, Node, Ops

LEMMA PutNewInv ==
  ASSUME IInv, op \in {"Put", "PutIfAbsent"}, layer = -1, NEW h \in Layer, put_new(h)
  PROVE  IInv'
  <1> USE DEF put_new
  <1>1. /\ key \in Key /\ key # Head /\ 0 \in Layer /\ key \notin On(0)
        /\ \A l \in Layer :
             /\ aIdx[l] \in Nodes(next[l])
             /\ Precedes(aIdx[l], key) /\ ~ Precedes(next[l][aIdx[l]], key)
    BY SearchedFacts
  <1>2. \A l \in Layer : key \notin On(l)
    BY SearchedFacts DEF Found, IInv, TypeOK, Layer
  <1>3. ASSUME NEW l \in Layer
        PROVE  /\ next'[l] \in [Node -> Key \cup {Tail, NULL}]
               /\ Sorted(next'[l])
               /\ Nodes(next'[l]) = IF l <= h THEN On(l) \cup {key} ELSE On(l)
    <2>1. /\ next[l] \in [Node -> Key \cup {Tail, NULL}] /\ Sorted(next[l])
          /\ On(l) = Nodes(next[l])
      BY LayerFacts
    <2>2. CASE l <= h
      <3>1. next'[l] = [next[l] EXCEPT ![key] = next[l][aIdx[l]], ![aIdx[l]] = key]
        BY <2>2 DEF Linked
      <3>2. key \notin Nodes(next[l])
        BY <1>2, <2>1
      <3> DEFINE f == next[l]
                 p == aIdx[l]
                 g == next'[l]
      <3>3. /\ f \in [Node -> Key \cup {Tail, NULL}] /\ Sorted(f) /\ p \in Nodes(f)
            /\ key \in Key /\ key \notin Nodes(f) /\ Precedes(p, key) /\ ~ Precedes(f[p], key)
            /\ g = [f EXCEPT ![key] = f[p], ![p] = key]
        BY <1>1, <2>1, <3>1, <3>2
      <3> HIDE DEF f, p, g
      <3>4. /\ g \in [Node -> Key \cup {Tail, NULL}]
            /\ Nodes(g) = Nodes(f) \cup {key} /\ Sorted(g)
        BY ONLY <3>3, InsertSorted
      <3> QED
        BY <2>1, <2>2, <3>4 DEF f, g
    <2>3. CASE ~ (l <= h)
      <3>1. next'[l] = next[l]
        BY <2>3 DEF Linked
      <3> QED
        BY <2>1, <2>3, <3>1
    <2> QED
      BY <2>2, <2>3
  <1>4. \A l \in Layer : On(l)' = IF l <= h THEN On(l) \cup {key} ELSE On(l)
    BY <1>3 DEF On, Nodes
  <1>5. \A l \in Layer : LayerSorted(l)'
    BY <1>3 DEF LayerSorted, Sorted, On, Nodes
  <1>6. val \in Value /\ val # NULL /\ value' = [value EXCEPT ![key] = val]
        /\ value \in [Node -> Value \cup {NULL}] /\ key \in Node
    BY <1>1, SentinelAssumption DEF IInv, TypeOK, Node
  <1>7. TowersComplete'
    <2>1. ASSUME NEW l \in Layer, l > 0 PROVE On(l)' \subseteq On(l - 1)'
      <3>1. l - 1 \in Layer /\ (l <= h => l - 1 <= h)
        BY <2>1, HeightAssumption DEF Layer
      <3>2. On(l) \subseteq On(l - 1)
        BY <2>1 DEF IInv, WellFormed, TowersComplete
      <3> QED
        BY <1>4, <3>1, <3>2
    <2>2. ASSUME NEW k \in Key PROVE value'[k] # NULL <=> k \in On(0)'
      <3>1. On(0)' = On(0) \cup {key}
        BY <1>1, <1>4 DEF Layer
      <3>2. value[k] # NULL <=> k \in On(0)
        BY DEF IInv, WellFormed, TowersComplete
      <3> QED
        BY <1>6, <3>1, <3>2 DEF Node
    <2> QED
      BY <2>1, <2>2 DEF TowersComplete
  <1>8. next' \in [Layer -> [Node -> Key \cup {Tail, NULL}]]
    <2>1. next' = [l \in Layer |-> next'[l]]
      BY DEF Linked
    <2> QED
      BY <1>3, <2>1
  <1>9. TypeOK'
    BY <1>6, <1>8, ReturnType DEF IInv, TypeOK
  <1> QED
    BY <1>5, <1>7, <1>9, ReturnInv DEF IInv, WellFormed

LEMMA DeleteInv == IInv /\ Delete => IInv'
  <1> SUFFICES ASSUME IInv, Delete PROVE IInv'
    OBVIOUS
  <1> USE DEF Delete, Searched
  <1>1. op # "none" /\ layer = -1 /\ Found
    OBVIOUS
  <1>2. /\ key \in Key /\ key # Head /\ key # NULL /\ 0 \in Layer
        /\ key \in On(0) /\ next[0][pData] = key
        /\ \A l \in Layer :
             /\ aIdx[l] \in Nodes(next[l])
             /\ key \in On(l) <=> next[l][aIdx[l]] = key
             /\ l > 0 => (l <= match_at <=> key \in On(l))
    BY <1>1, SearchedFacts
  <1>3. ASSUME NEW l \in Layer
        PROVE  /\ next'[l] \in [Node -> Key \cup {Tail, NULL}]
               /\ Sorted(next'[l])
               /\ Nodes(next'[l]) = On(l) \ {key}
    <2>1. /\ next[l] \in [Node -> Key \cup {Tail, NULL}] /\ Sorted(next[l])
          /\ On(l) = Nodes(next[l])
      BY LayerFacts
    <2>2. l <= match_at <=> key \in On(l)
      <3>1. match_at >= 0 /\ match_at \in Int /\ l \in Int /\ l >= 0
        BY DEF IInv, TypeOK, Layer
      <3> QED
        BY <1>2, <3>1
    <2>3. CASE key \in On(l)
      <3>1. next'[l] = [next[l] EXCEPT ![key] = NULL, ![aIdx[l]] = next[l][key]]
        BY <1>2, <2>2, <2>3 DEF Unlinked
      <3> DEFINE f == next[l]
                 p == aIdx[l]
                 g == next'[l]
      <3>2. /\ f \in [Node -> Key \cup {Tail, NULL}] /\ Sorted(f) /\ p \in Nodes(f)
            /\ key \in Key /\ key \in Nodes(f) /\ f[p] = key
        BY <1>2, <2>1, <2>3
      <3>3. /\ key \in Node /\ p \in Node /\ f[key] \in Key \cup {Tail, NULL}
            /\ g = [f EXCEPT ![key] = NULL, ![p] = f[key]]
        BY <3>1, <3>2 DEF Nodes
      <3> HIDE DEF f, p, g
      <3>4. g \in [Node -> Key \cup {Tail, NULL}]
        BY <3>2, <3>3
      <3>5. \A n \in Node :
              g[n] = IF n = p THEN f[key] ELSE IF n = key THEN NULL ELSE f[n]
        BY <3>2, <3>3
      <3>6. Nodes(g) = Nodes(f) \ {key} /\ Sorted(g)
        BY ONLY <3>2, <3>4, <3>5, RemoveSorted
      <3> QED
        BY <2>1, <3>4, <3>6 DEF f, g
    <2>4. CASE key \notin On(l)
      <3>1. next'[l] = next[l]
        BY <2>2, <2>4 DEF Unlinked
      <3> QED
        BY <2>1, <2>4, <3>1
    <2> QED
      BY <2>3, <2>4
  <1>4. \A l \in Layer : On(l)' = On(l) \ {key}
    BY <1>3 DEF On, Nodes
  <1>5. \A l \in Layer : LayerSorted(l)'
    BY <1>3 DEF LayerSorted, Sorted, On, Nodes
  <1>6. value' = [value EXCEPT ![key] = NULL] /\ value \in [Node -> Value \cup {NULL}]
        /\ key \in Node
    BY <1>2 DEF IInv, TypeOK, Node
  <1>7. TowersComplete'
    <2>1. ASSUME NEW l \in Layer, l > 0 PROVE On(l)' \subseteq On(l - 1)'
      <3>1. l - 1 \in Layer
        BY <2>1, HeightAssumption DEF Layer
      <3>2. On(l) \subseteq On(l - 1)
        BY <2>1 DEF IInv, WellFormed, TowersComplete
      <3> QED
        BY <1>4, <3>1, <3>2
    <2>2. ASSUME NEW k \in Key PROVE value'[k] # NULL <=> k \in On(0)'
      <3>1. On(0)' = On(0) \ {key}
        BY <1>2, <1>4
      <3>2. value[k] # NULL <=> k \in On(0)
        BY DEF IInv, WellFormed, TowersComplete
      <3> QED
        BY <1>6, <3>1, <3>2 DEF Node
    <2> QED
      BY <2>1, <2>2 DEF TowersComplete
  <1>8. next' \in [Layer -> [Node -> Key \cup {Tail, NULL}]]
    <2>1. next' = [l \in Layer |-> next'[l]]
      BY DEF Unlinked
    <2> QED
      BY <1>3, <2>1
  <1>9. value[key] \in Value \cup {NULL} /\ Return(value[key])
    BY <1>2, <1>6
  <1>10. it' \in Key \cup {Tail, NULL} /\ value' \in [Node -> Value \cup {NULL}]
    BY <1>6 DEF IInv, TypeOK
  <1>11. TypeOK'
    BY <1>8, <1>9, <1>10, ReturnType
  <1> QED
    BY <1>5, <1>7, <1>9, <1>11, ReturnInv DEF IInv, WellFormed

LEMMA PutReplaceInv == IInv /\ PutReplace => IInv'
  <1> SUFFICES ASSUME IInv, PutReplace PROVE IInv'
    OBVIOUS
  <1> USE DEF PutReplace, Searched
  <1>1. op # "none" /\ layer = -1 /\ Found
    OBVIOUS
  <1>2. /\ key \in Key /\ 0 \in Layer /\ pData \in Nodes(next[0]) /\ pData \in Node
        /\ next[0][pData] = key
    BY <1>1, SearchedFacts DEF pData
  <1>3. /\ val \in Value /\ val # NULL /\ value \in [Node -> Value \cup {NULL}]
        /\ value' = [value EXCEPT ![pData] = val] /\ key \in Node
    BY <1>2, SentinelAssumption DEF IInv, TypeOK, Node
  <1>4. value[key] \in Value \cup {NULL} /\ Return(value[key])
    BY <1>2, <1>3
  <1>5. TypeOK'
    BY <1>2, <1>3, <1>4, ReturnType DEF IInv, TypeOK
  <1>6. \A k \in Key : value'[k] # NULL <=> value[k] # NULL
    <2>1. \A k \in Key : value[k] # NULL <=> k \in Nodes(next[0])
      BY <1>2, LayerFacts DEF IInv, WellFormed, TowersComplete
    <2> QED
      BY <1>2, <1>3, <2>1 DEF Node
  <1>7. WellFormed'
    BY <1>6, SameList
  <1> QED
    BY <1>4, <1>5, <1>7, ReturnInv DEF IInv

\* The operations that change nothing but the result and the iterator.
LEMMA LookInv ==
  ASSUME IInv,
         PutIfAbsentFinds \/ Get \/ DeleteAbsent \/ cfind \/ cbegin \/ Increment \/ Dereference
  PROVE  IInv'
  <1> USE DEF list, call, path, Searched
  <1>1. next' = next /\ value' = value
    BY DEF PutIfAbsentFinds, Get, DeleteAbsent, cfind, cbegin, Increment, Dereference
  <1>2. WellFormed'
    BY <1>1, SameList
  <1>3. /\ next \in [Layer -> [Node -> Key \cup {Tail, NULL}]]
        /\ value \in [Node -> Value \cup {NULL}]
        /\ 0 \in Layer /\ Head \in Node /\ NULL \notin Key
        /\ it \in Key \cup {Tail, NULL} /\ result \in Value \cup {NULL}
    BY HeightAssumption, SentinelAssumption DEF IInv, TypeOK, Layer, Node
  <1>4. CASE PutIfAbsentFinds \/ Get \/ DeleteAbsent \/ cfind
    <2>1. op # "none" /\ layer = -1
      BY <1>4 DEF PutIfAbsentFinds, Get, DeleteAbsent, cfind
    <2>2. pData \in Node /\ (Found => next[0][pData] \in Node)
      BY <2>1, SearchedFacts DEF Node
    <2>3. PICK r \in Value \cup {NULL} : Return(r)
      BY <1>3, <1>4, <2>2 DEF PutIfAbsentFinds, Get, DeleteAbsent, cfind
    <2>4. it' \in Key \cup {Tail, NULL}
      BY <1>3, <1>4, <2>2 DEF PutIfAbsentFinds, Get, DeleteAbsent, cfind
    <2> QED
      BY <1>1, <1>2, <1>3, <2>3, <2>4, ReturnInv, ReturnType DEF IInv
  <1>5. CASE cbegin \/ Increment \/ Dereference
    <2>1. it' \in Key \cup {Tail, NULL} /\ result' \in Value \cup {NULL}
      BY <1>3, <1>5 DEF cbegin, Increment, Dereference, Node
    <2>2. UNCHANGED <<next, value, op, key, val, layer, cur, aIdx, match_at>>
      BY <1>5 DEF cbegin, Increment, Dereference
    <2>3. TypeOK'
      BY <2>1, <2>2 DEF IInv, TypeOK
    <2>4. PathInv' /\ AtRest'
      BY <2>2, <1>5 DEF IInv, PathInv, AtRest, cbegin, Increment, Dereference
    <2> QED
      BY <1>2, <2>3, <2>4 DEF IInv
  <1> QED
    BY <1>4, <1>5

-----------------------------------------------------------------------------
(* The theorems                                                            *)

\* IInv is inductive: every step of the skip list preserves it.
THEOREM Inductive == Spec => []IInv
  <1>1. Init => IInv
    BY InitInv
  <1>2. IInv /\ [Next]_vars => IInv'
    <2> SUFFICES ASSUME IInv, [Next]_vars PROVE IInv'
      OBVIOUS
    <2>1. CASE UNCHANGED vars
      <3>1. UNCHANGED <<next, value, op, key, val, layer, cur, aIdx, match_at, it, result>>
        BY <2>1 DEF vars, list, call, path
      <3>2. TypeOK' /\ AtRest'
        BY <3>1 DEF IInv, TypeOK, AtRest
      <3>3. WellFormed'
        BY <3>1, SameList
      <3>4. PathInv'
        BY <3>1 DEF IInv, PathInv, PathDone, On
      <3> QED
        BY <3>2, <3>3, <3>4 DEF IInv
    <2>2. CASE \E k \in Key :
                 \/ \E o \in {"Put", "PutIfAbsent"}, v \in Value : Call(o, k, v)
                 \/ \E o \in {"Get", "Delete", "cfind"} : Call(o, k, NULL)
      BY <2>2, CallInv DEF Ops
    <2>3. CASE MoveForward
      BY <2>3, MoveForwardInv
    <2>4. CASE MoveDown
      BY <2>4, MoveDownInv
    <2>5. CASE \E h \in Layer : PutNew(h) \/ PutIfAbsent(h)
      BY <2>5, PutNewInv DEF PutNew, PutIfAbsent, Searched
    <2>6. CASE PutReplace
      BY <2>6, PutReplaceInv
    <2>7. CASE Delete
      BY <2>7, DeleteInv
    <2>8. CASE PutIfAbsentFinds \/ Get \/ DeleteAbsent \/ cfind \/ cbegin \/ Increment \/ Dereference
      BY <2>8, LookInv
    <2> QED
      BY <2>1, <2>2, <2>3, <2>4, <2>5, <2>6, <2>7, <2>8 DEF Next, Step
  <1> QED
    BY <1>1, <1>2, PTL DEF Spec

\* The variables of the skip list always have their types.
THEOREM TypeCorrect == Spec => []TypeOK
  <1>1. IInv => TypeOK
    BY DEF IInv
  <1> QED
    BY <1>1, Inductive, PTL

\* All layers stay sorted and all towers complete, whatever flip() returns.
THEOREM StaysWellFormed == Spec => []WellFormed
  <1>1. IInv => WellFormed
    BY DEF IInv
  <1> QED
    BY <1>1, Inductive, PTL

\* search() finds a key exactly if it is there, and its path is right on all
\* layers.
THEOREM SearchCorrect == Spec => []SearchExact
  BY Inductive, Exact, PTL

-----------------------------------------------------------------------------
(* The skip list and the map                                               *)

\* The element that First chooses is unique.
LEMMA FirstIs ==
  ASSUME NEW S \in SUBSET Key
  PROVE  /\ S = {} => M!First(S) = Tail
         /\ \A k \in S : (\A j \in S : k <= j) => M!First(S) = k
  <1>1. \A k, j \in Key : k <= j /\ j <= k => k = j
    BY KeyAssumption
  <1>2. ASSUME NEW k \in S, \A j \in S : k <= j
        PROVE  M!First(S) = k
    <2>1. PICK f \in S : f = (CHOOSE m \in S : \A j \in S : m <= j) /\ \A j \in S : f <= j
      BY <1>2
    <2> QED
      BY <1>1, <1>2, <2>1 DEF M!First
  <1> QED
    BY <1>2 DEF M!First

Map == [k \in Key |-> value[k]]

\* The successor of a data node is the first of the keys behind it.
LEMMA NextIsFirst ==
  ASSUME IInv, NEW n \in On(0), NEW S \in SUBSET Key,
         \A j \in Key : j \in S <=> value[j] # NULL /\ Precedes(n, j)
  PROVE  next[0][n] = M!First(S)
  <1>1. 0 \in Layer
    BY HeightAssumption DEF Layer
  <1>2. /\ n \in Node /\ next[0][n] \in (On(0) \cap Key) \cup {Tail} /\ Precedes(n, next[0][n])
        /\ \A m \in On(0) : ~ (Precedes(n, m) /\ Precedes(m, next[0][n]))
    BY <1>1, LayerFacts, SentinelAssumption DEF Sorted
  <1>3. \A j \in Key : j \in S <=> j \in On(0) /\ Precedes(n, j)
    BY DEF IInv, WellFormed, TowersComplete
  <1>4. CASE next[0][n] = Tail
    <2>1. \A j \in Key : Precedes(j, Tail)
      BY SentinelAssumption DEF Precedes
    <2>2. S = {}
      BY <1>2, <1>3, <1>4, <2>1
    <2> QED
      BY <1>4, <2>2, FirstIs
  <1>5. CASE next[0][n] # Tail
    <2>1. next[0][n] \in S /\ next[0][n] \in Key
      BY <1>2, <1>3, <1>5
    <2>2. \A j \in S : ~ Precedes(j, next[0][n])
      BY <1>2, <1>3
    <2>3. \A j, k \in Key : ~ Precedes(j, k) => k <= j
      BY KeyAssumption, SentinelAssumption DEF Precedes
    <2> QED
      BY <2>1, <2>2, <2>3, FirstIs
  <1> QED
    BY <1>4, <1>5

\* What the abstract map has for the key of the call.
LEMMA MapAtKey ==
  ASSUME IInv, op # "none", layer = -1
  PROVE  /\ Found => next[0][pData] = key /\ Map[key] = value[key]
         /\ ~ Found => Map[key] = NULL
         /\ Found <=> Map[key] # NULL
         /\ key \in Key
  BY SearchedFacts DEF Map, IInv, WellFormed, TowersComplete

LEMMA PutNewMaps ==
  ASSUME IInv, NEW h \in Layer, PutNew(h) \/ PutIfAbsent(h)
  PROVE  M!MapPut(key, val) \/ M!MapPutIfAbsent(key, val)
  <1>1. op \in {"Put", "PutIfAbsent"} /\ layer = -1 /\ put_new(h)
    BY DEF PutNew, PutIfAbsent, Searched
  <1>2. Map[key] = NULL /\ key \in Key
    BY <1>1, MapAtKey DEF put_new
  <1>3. Map' = [Map EXCEPT ![key] = val]
    BY <1>1, <1>2 DEF put_new, Map, IInv, TypeOK, Node
  <1>4. result' = NULL /\ it' = it
    BY <1>1 DEF put_new, Return
  <1> QED
    BY <1>2, <1>3, <1>4 DEF M!MapPut, Map

LEMMA DeleteMaps ==
  ASSUME IInv, Delete \/ DeleteAbsent
  PROVE  M!MapDelete(key) \/ M!MapGet(key)
  <1>1. op # "none" /\ layer = -1
    BY DEF Delete, DeleteAbsent, Searched
  <1>2. CASE Delete
    <2>1. next[0][pData] = key /\ Map[key] = value[key] /\ key \in Key
      BY <1>1, <1>2, MapAtKey DEF Delete
    <2>2. Map' = [Map EXCEPT ![key] = NULL]
      BY <1>2, <2>1 DEF Delete, Map, IInv, TypeOK, Node
    <2>3. result' = Map[key] /\ it' = IF it = key THEN NULL ELSE it
      BY <1>2, <2>1 DEF Delete, Return
    <2> QED
      BY <2>2, <2>3 DEF M!MapDelete, Map
  <1>3. CASE DeleteAbsent
    <2>1. Map[key] = NULL /\ key \in Key
      BY <1>1, <1>3, MapAtKey DEF DeleteAbsent
    <2>2. result' = NULL /\ it' = it /\ value' = value
      BY <1>3 DEF DeleteAbsent, Return, list
    <2> QED
      BY <2>1, <2>2 DEF M!MapGet, Map
  <1> QED
    BY <1>2, <1>3

LEMMA GetMaps ==
  ASSUME IInv, Get \/ PutIfAbsentFinds
  PROVE  M!MapGet(key)
  <1>1. op # "none" /\ layer = -1
    BY DEF Get, PutIfAbsentFinds, Searched
  <1>2. result' = Map[key] /\ it' = it /\ value' = value
    BY <1>1, MapAtKey DEF Get, PutIfAbsentFinds, Return, list
  <1> QED
    BY <1>2 DEF M!MapGet, Map

LEMMA FindMaps ==
  ASSUME IInv, cfind
  PROVE  M!MapFind(key)
  <1>1. op # "none" /\ layer = -1 /\ value' = value /\ result' = result
    BY DEF cfind, Searched, Return, list
  <1>2. /\ key \in Key /\ 0 \in Layer /\ pData \in On(0)
        /\ Precedes(pData, key) /\ ~ Precedes(next[0][pData], key)
    BY <1>1, SearchedFacts, LayerFacts DEF pData
  <1>3. \A j \in Key : j \in On(0) => (Precedes(pData, j) <=> key <= j)
    <2> SUFFICES ASSUME NEW j \in Key, j \in On(0) PROVE Precedes(pData, j) <=> key <= j
      OBVIOUS
    <2>1. /\ pData \in Place /\ key \in Place /\ j \in Place /\ next[0][pData] \in Place
          /\ ~ (Precedes(pData, j) /\ Precedes(j, next[0][pData]))
      BY <1>2, LayerFacts DEF Place, Node, Sorted
    <2>2. Precedes(pData, j) => ~ Precedes(j, key)
      BY <1>2, <2>1, Order
    <2>3. key <= j => Precedes(pData, j)
      <3>1. key <= j => key = j \/ Precedes(key, j)
        BY <1>2, KeyAssumption, SentinelAssumption DEF Precedes
      <3> QED
        BY <1>2, <2>1, <3>1, Order
    <2>4. ~ Precedes(j, key) => key <= j
      BY <1>2, KeyAssumption, SentinelAssumption DEF Precedes
    <2> QED
      BY <2>2, <2>3, <2>4
  <1>4. \A j \in Key : j \in On(0) <=> value[j] # NULL
    BY DEF IInv, WellFormed, TowersComplete
  <1>5. next[0][pData] = M!First({j \in M!Present(Map) : key <= j})
    <2> DEFINE S == {j \in M!Present(Map) : key <= j}
    <2>1. S \in SUBSET Key /\ \A j \in Key : j \in S <=> value[j] # NULL /\ Precedes(pData, j)
      BY <1>3, <1>4 DEF M!Present, Map
    <2> QED
      BY <1>2, <2>1, NextIsFirst
  <1> QED
    BY <1>1, <1>5 DEF M!MapFind, cfind, Map

\* The iterator stands on a key that is there.
ItInv == it \in Key => value[it] # NULL

LEMMA ItInvStep == IInv /\ ItInv /\ [Next]_vars => ItInv'
  <1> SUFFICES ASSUME IInv, ItInv, [Next]_vars PROVE ItInv'
    OBVIOUS
  <1>1. /\ value \in [Node -> Value \cup {NULL}] /\ NULL \notin Value
        /\ 0 \in Layer /\ Head \in Node
    BY HeightAssumption, SentinelAssumption DEF IInv, TypeOK, Layer, Node
  <1>2. \A k \in Key : value[k] # NULL <=> k \in On(0)
    BY DEF IInv, WellFormed, TowersComplete
  <1>3. \A n \in On(0) : next[0][n] \in Key => value[next[0][n]] # NULL
    BY <1>1, <1>2, LayerFacts, SentinelAssumption DEF Sorted
  <1>4. CASE \E h \in Layer : PutNew(h) \/ PutIfAbsent(h)
    <2>1. val \in Value /\ it' = it /\ value' = [value EXCEPT ![key] = val]
      BY <1>4 DEF PutNew, PutIfAbsent, put_new, Searched, IInv, TypeOK
    <2> QED
      BY <1>1, <2>1 DEF ItInv, Node
  <1>5. CASE PutReplace
    <2>1. val \in Value /\ it' = it /\ value' = [value EXCEPT ![pData] = val]
      BY <1>5 DEF PutReplace, Searched, IInv, TypeOK
    <2> QED
      BY <1>1, <2>1 DEF ItInv, Node
  <1>6. CASE Delete
    BY <1>1, <1>6, SentinelAssumption DEF Delete, ItInv, Node
  <1>7. CASE cfind
    <2>1. pData \in On(0)
      BY <1>7, <1>1, SearchedFacts, LayerFacts DEF cfind, Searched, pData
    <2> QED
      BY <1>3, <1>7, <2>1 DEF cfind, ItInv, list
  <1>8. CASE cbegin
    <2>1. Head \in On(0)
      BY <1>1 DEF IInv, WellFormed, LayerSorted
    <2> QED
      BY <1>3, <1>8, <2>1 DEF cbegin, ItInv, list
  <1>9. CASE Increment
    <2>1. it \in On(0)
      BY <1>2, <1>9 DEF Increment, ItInv
    <2> QED
      BY <1>3, <1>9, <2>1 DEF Increment, ItInv, list
  <1>10. CASE value' = value /\ it' = it
    BY <1>10 DEF ItInv
  <1> QED
    BY <1>4, <1>5, <1>6, <1>7, <1>8, <1>9, <1>10
    DEF Next, Step, Call, MoveForward, MoveDown, PutIfAbsentFinds, Get, DeleteAbsent,
        Dereference, vars, list

LEMMA IteratorMaps ==
  ASSUME IInv, ItInv, cbegin \/ Increment \/ Dereference
  PROVE  M!MapBegin \/ M!MapAdvance \/ M!MapRead
  <1>1. \A k \in Key : value[k] # NULL <=> k \in On(0)
    BY DEF IInv, WellFormed, TowersComplete
  <1>2. CASE cbegin
    <2>1. Head \in On(0)
      BY HeightAssumption DEF IInv, WellFormed, LayerSorted, Layer
    <2>2. next[0][Head] = M!First(M!Present(Map))
      <3>1. \A j \in Key : Precedes(Head, j)
        BY SentinelAssumption DEF Precedes
      <3>2. /\ M!Present(Map) \in SUBSET Key
            /\ \A j \in Key : j \in M!Present(Map) <=> value[j] # NULL /\ Precedes(Head, j)
        BY <3>1 DEF M!Present, Map
      <3> QED
        BY <2>1, <3>2, NextIsFirst
    <2> QED
      BY <1>2, <2>2 DEF cbegin, list, M!MapBegin, Map
  <1>3. CASE Increment
    <2>1. it \in Key /\ it \in On(0)
      BY <1>1, <1>3 DEF Increment, ItInv
    <2>2. next[0][it] = M!First({j \in M!Present(Map) : it < j})
      <3> DEFINE S == {j \in M!Present(Map) : it < j}
      <3>1. \A j \in Key : Precedes(it, j) <=> it < j
        BY <2>1, SentinelAssumption DEF Precedes
      <3>2. S \in SUBSET Key /\ \A j \in Key : j \in S <=> value[j] # NULL /\ Precedes(it, j)
        BY <3>1 DEF M!Present, Map
      <3> QED
        BY <2>1, <3>2, NextIsFirst
    <2> QED
      BY <1>3, <2>1, <2>2 DEF Increment, list, M!MapAdvance, Map
  <1>4. CASE Dereference
    BY <1>4 DEF Dereference, list, M!MapRead
  <1> QED
    BY <1>2, <1>3, <1>4

\* The skip list implements the map, except for Put() of a key that is there.
THEOREM ImplementsMapExceptReplace == Spec => MapExceptReplace
  <1>1. Init => M!MapInit /\ IInv /\ ItInv
    <2>1. Init => M!MapInit
      BY SentinelAssumption DEF Init, M!MapInit, Node
    <2>2. Init => ItInv
      BY SentinelAssumption DEF Init, ItInv
    <2> QED
      BY <2>1, <2>2, InitInv
  <1>2. IInv /\ ItInv /\ [Next]_vars
          => [M!MapNext \/ PutReplace]_<<value, it, result>>
    <2> SUFFICES ASSUME IInv, ItInv, Next,
                        ~ UNCHANGED <<value, it, result>>
                 PROVE  M!MapNext \/ PutReplace
      BY DEF vars, list
    <2>1. op # "none" => key \in Key
      BY DEF IInv, TypeOK
    <2>2. CASE \E h \in Layer : PutNew(h) \/ PutIfAbsent(h)
      <3>1. key \in Key /\ val \in Value
        BY <2>2 DEF PutNew, PutIfAbsent, Searched, IInv, TypeOK
      <3>2. M!MapPut(key, val) \/ M!MapPutIfAbsent(key, val)
        BY <2>2, PutNewMaps
      <3> QED
        BY <3>1, <3>2 DEF M!MapNext, M!MapPut, M!MapPutIfAbsent
    <2>3. CASE Get \/ PutIfAbsentFinds
      BY <2>1, <2>3, GetMaps DEF M!MapNext, Get, PutIfAbsentFinds, Searched
    <2>4. CASE Delete \/ DeleteAbsent
      <3>1. key \in Key
        BY <2>1, <2>4 DEF Delete, DeleteAbsent, Searched
      <3>2. M!MapDelete(key) \/ M!MapGet(key)
        BY <2>4, DeleteMaps
      <3> QED
        BY <3>1, <3>2 DEF M!MapNext, M!MapDelete, M!MapGet
    <2>5. CASE cfind
      BY <2>1, <2>5, FindMaps DEF M!MapNext, cfind, Searched
    <2>6. CASE cbegin \/ Increment \/ Dereference
      BY <2>6, IteratorMaps DEF M!MapNext
    <2> QED
      BY <2>2, <2>3, <2>4, <2>5, <2>6 DEF Next, Step, Call, MoveForward, MoveDown, list
  <1>3. IInv /\ ItInv /\ [Next]_vars => ItInv'
    BY ItInvStep
  <1> QED
    BY <1>1, <1>2, <1>3, Inductive, PTL DEF Spec, MapExceptReplace
=============================================================================
