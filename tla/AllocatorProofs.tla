-------------------------- MODULE AllocatorProofs ---------------------------
EXTENDS Allocator, WellFoundedInduction, TLAPS

USE WordsAssumption, SizesAssumption

-----------------------------------------------------------------------------
(* Numbers and recursive functions                                         *)

LEMMA LeastNatural ==
  ASSUME NEW T \in SUBSET Nat, T # {}
  PROVE  \E n \in T : \A m \in T : n <= m
<1>1. PICK n \in T : \A m \in T : ~ (<<m, n>> \in OpToRel(<, Nat))
  BY WFMin, NatLessThanWellFounded, Zenon
<1>2. \A m \in T : ~ (m < n)
  BY <1>1, Zenon DEF OpToRel
<1> QED
  BY <1>2

LEMMA GreatestPlace ==
  ASSUME NEW T \in SUBSET Nat, T # {}, NEW top \in Nat, \A n \in T : n <= top
  PROVE  \E n \in T : \A m \in T : m <= n
<1> DEFINE D == {d \in Nat : \E n \in T : d = top - n}
<1>1. D \in SUBSET Nat /\ D # {}
  <2>1. PICK n \in T : TRUE
    OBVIOUS
  <2>2. top - n \in D
    BY <2>1
  <2> QED
    BY <2>2
<1>2. PICK d \in D : \A e \in D : d <= e
  <2> HIDE DEF D
  <2> QED
    BY <1>1, LeastNatural
<1>3. PICK n \in T : d = top - n
  OBVIOUS
<1>4. ASSUME NEW m \in T PROVE m <= n
  <2>1. top - m \in D
    OBVIOUS
  <2>2. d <= top - m
    BY <1>2, <2>1
  <2> QED
    BY <1>3, <2>2
<1> QED
  BY <1>4

(* A function can be iterated from any of its arguments.                   *)
Iterates(f, W, S, g, x) ==
  f \in [0..W -> S] /\ f[0] = x /\ \A k \in 1..W : f[k] = g[f[k - 1]]

LEMMA Iteration ==
  ASSUME NEW W \in Nat, NEW S, NEW g, \A a \in S : g[a] \in S, NEW x \in S
  PROVE  \E f : Iterates(f, W, S, g, x)
<1> DEFINE Iter(n, f) == f \in [0..n -> S] /\ f[0] = x /\ \A k \in 1..n : f[k] = g[f[k - 1]]
           Bad == {n \in Nat : ~ \E f : Iter(n, f)}
<1>1. CASE Bad = {}
  <2>1. W \notin Bad
    BY <1>1
  <2>2. PICK f : Iter(W, f)
    BY <2>1
  <2> QED
    BY <2>2 DEF Iterates
<1>2. CASE Bad # {}
  <2>1. Bad \in SUBSET Nat
    OBVIOUS
  <2>2. PICK m \in Bad : \A n \in Bad : m <= n
    <3> HIDE DEF Bad
    <3> QED
      BY <1>2, <2>1, LeastNatural
  <2>3. m \in Nat /\ ~ \E f : Iter(m, f)
    OBVIOUS
  <2>4. m # 0
    <3>1. Iter(0, [k \in 0..0 |-> x])
      OBVIOUS
    <3> QED
      BY <2>3, <3>1
  <2>5. m - 1 \in Nat /\ m - 1 \notin Bad
    <3>1. m - 1 \in Nat /\ ~ (m <= m - 1)
      BY <2>3, <2>4
    <3> HIDE DEF Bad
    <3> QED
      BY <2>2, <3>1
  <2>6. PICK f : Iter(m - 1, f)
    BY <2>5
  <2> DEFINE h == [k \in 0..m |-> IF k = m THEN g[f[m - 1]] ELSE f[k]]
  <2>7. f[m - 1] \in S
    BY <2>5, <2>6
  <2>8. \A k \in 0..m : h[k] = IF k = m THEN g[f[m - 1]] ELSE f[k]
    OBVIOUS
  <2>9. h \in [0..m -> S]
    <3>1. \A k \in 0..m : k # m => f[k] \in S
      BY <2>3, <2>6
    <3> QED
      BY <2>7, <3>1
  <2> HIDE DEF h
  <2>10. h[0] = x
    BY <2>3, <2>4, <2>6, <2>8
  <2>11. ASSUME NEW k \in 1..m PROVE h[k] = g[h[k - 1]]
    <3>1. k \in 0..m /\ k - 1 \in 0..m /\ k - 1 # m
      BY <2>3
    <3>2. h[k - 1] = f[k - 1]
      BY <2>8, <3>1
    <3>3. CASE k = m
      BY <2>8, <3>1, <3>2, <3>3
    <3>4. CASE k # m
      <4>1. k \in 1..(m - 1)
        BY <2>3, <3>4
      <4>2. f[k] = g[f[k - 1]]
        BY <2>6, <4>1
      <4> QED
        BY <2>8, <3>1, <3>2, <3>4, <4>2
    <3> QED
      BY <3>3, <3>4
  <2>12. Iter(m, h)
    BY <2>9, <2>10, <2>11
  <2> QED
    BY <2>3, <2>12
<1> QED
  BY <1>1, <1>2

-----------------------------------------------------------------------------
(* Words and chunks                                                        *)

LEMMA HeadWord ==
  ASSUME NEW u \in BOOLEAN, NEW l \in Nat
  PROVE  /\ Head(u, l) \in Word /\ IsHead(Head(u, l)) /\ ~ IsSlot(Head(u, l))
         /\ Head(u, l).used = u /\ Head(u, l).len = l
BY DEF Head, Word, IsHead, IsSlot

LEMMA SlotWord ==
  ASSUME NEW a \in Place
  PROVE  /\ Slot(a) \in Word /\ ~ IsHead(Slot(a)) /\ IsSlot(Slot(a))
         /\ Slot(a).node = a /\ Slot(a) # Zero
BY DEF Slot, Word, IsHead, IsSlot, Zero, Head

LEMMA DataWord ==
  ASSUME NEW h \in Handle \cup {NULL}
  PROVE  Data(h) \in Word /\ ~ IsHead(Data(h)) /\ ~ IsSlot(Data(h))
BY DEF Data, Word, IsHead, IsSlot

LEMMA ZeroWord == Zero \in Word
BY HeadWord DEF Zero

LEMMA WordKinds ==
  ASSUME NEW w \in Word
  PROVE  /\ IsHead(w) => w.used \in BOOLEAN /\ w.len \in Nat
         /\ IsSlot(w) => w.node \in Place /\ w = Slot(w.node)
BY DEF Word, IsHead, IsSlot, Slot

Chunk == [word : [Place -> Word], last : Nat, first : 0..Words, ok : BOOLEAN]

LEMMA NodeFacts ==
  ASSUME NEW s \in Chunk, NEW a, IsNode(s, a)
  PROVE  /\ a \in Place /\ a \in Nat /\ a < Words
         /\ Used(s, a) \in BOOLEAN /\ Length(s, a) \in Nat
         /\ NextOf(s, a) \in Nat /\ NextOf(s, a) = a + 1 + Length(s, a)
<1>1. a \in Place /\ s.word[a] \in Word /\ IsHead(s.word[a])
  BY DEF Chunk, IsNode
<1>2. Used(s, a) \in BOOLEAN /\ Length(s, a) \in Nat
  BY <1>1, WordKinds DEF Used, Length
<1> QED
  BY <1>1, <1>2 DEF NextOf, Place

(* Two chunks have the same head at a place.                               *)
SameHead(s, t, a) ==
  (IsNode(t, a) <=> IsNode(s, a)) /\ Used(t, a) = Used(s, a) /\ Length(t, a) = Length(s, a)
  /\ NextOf(t, a) = NextOf(s, a)

LEMMA SameWord ==
  ASSUME NEW s, NEW t, NEW a, t.word[a] = s.word[a]
  PROVE  SameHead(s, t, a)
BY DEF SameHead, IsNode, Used, Length, NextOf

(* Chunk t is s with word w at place a.                                    *)
PutTo(s, t, a, w) ==
  /\ t \in Chunk
  /\ t.last = s.last /\ t.first = s.first /\ t.ok = s.ok
  /\ t.word[a] = w /\ \A b \in Place : b # a => t.word[b] = s.word[b]

LEMMA PutEffect ==
  ASSUME NEW s \in Chunk, NEW a \in Place, NEW w \in Word
  PROVE  PutTo(s, Put(s, a, w), a, w)
BY DEF Put, Chunk, PutTo

LEMMA HeadPut ==
  ASSUME NEW s, NEW t, NEW a \in Place, NEW u \in BOOLEAN, NEW l \in Nat,
         PutTo(s, t, a, Head(u, l))
  PROVE  IsNode(t, a) /\ (Used(t, a) <=> u) /\ Length(t, a) = l /\ NextOf(t, a) = a + 1 + l
<1>1. t.word[a] = Head(u, l)
  BY DEF PutTo
<1>2. IsHead(t.word[a]) /\ t.word[a].used = u /\ t.word[a].len = l
  BY <1>1, HeadWord
<1> QED
  BY <1>2 DEF IsNode, Used, Length, NextOf

(* Chunk t is s with the head of a free node, or of a used one, put to a.   *)
FreePut(s, t, a, l) ==
  /\ PutTo(s, t, a, Head(FALSE, l))
  /\ IsNode(t, a) /\ ~ Used(t, a) /\ Length(t, a) = l /\ NextOf(t, a) = a + 1 + l

UsedPut(s, t, a, l) ==
  /\ PutTo(s, t, a, Head(TRUE, l))
  /\ IsNode(t, a) /\ Used(t, a) /\ Length(t, a) = l /\ NextOf(t, a) = a + 1 + l

LEMMA PutFree ==
  ASSUME NEW s \in Chunk, NEW a \in Place, NEW l \in Nat
  PROVE  FreePut(s, Put(s, a, Head(FALSE, l)), a, l)
<1> DEFINE t == Put(s, a, Head(FALSE, l))
<1>1. Head(FALSE, l) \in Word
  BY HeadWord
<1>2. PutTo(s, t, a, Head(FALSE, l))
  BY <1>1, PutEffect
<1> QED
  BY <1>2, HeadPut DEF FreePut

LEMMA PutUsed ==
  ASSUME NEW s \in Chunk, NEW a \in Place, NEW l \in Nat
  PROVE  UsedPut(s, Put(s, a, Head(TRUE, l)), a, l)
<1> DEFINE t == Put(s, a, Head(TRUE, l))
<1>1. Head(TRUE, l) \in Word
  BY HeadWord
<1>2. PutTo(s, t, a, Head(TRUE, l))
  BY <1>1, PutEffect
<1> QED
  BY <1>2, HeadPut DEF UsedPut

LEMMA PutChunk ==
  ASSUME NEW s \in Chunk, NEW a, NEW w \in Word
  PROVE  Put(s, a, w) \in Chunk /\ Put(s, a, w).first = s.first
BY DEF Put, Chunk, Broken

LEMMA BrokenChunk ==
  ASSUME NEW s \in Chunk
  PROVE  Broken(s) \in Chunk /\ Broken(s).first = s.first
BY DEF Chunk, Broken

-----------------------------------------------------------------------------
(* The way from node to node                                               *)

LEMMA PathStep ==
  ASSUME NEW s \in Chunk
  PROVE  /\ Path(s) \in [0..Words -> Nat] /\ Path(s)[0] = 0
         /\ \A k \in 1..Words :
              Path(s)[k] = IF IsNode(s, Path(s)[k - 1]) THEN NextOf(s, Path(s)[k - 1])
                           ELSE Path(s)[k - 1]
<1> DEFINE g == [a \in Nat |-> IF IsNode(s, a) THEN NextOf(s, a) ELSE a]
           Rec(f) == f = [k \in 0..Words |->
                            IF k = 0 THEN 0
                            ELSE LET a == f[k - 1] IN IF IsNode(s, a) THEN NextOf(s, a) ELSE a]
<1>1. g \in [Nat -> Nat] /\ \A a \in Nat : g[a] = IF IsNode(s, a) THEN NextOf(s, a) ELSE a
  BY NodeFacts
<1>2. Words \in Nat /\ 0 \in Nat
  OBVIOUS
<1>3. PICK f : Iterates(f, Words, Nat, g, 0)
  <2>1. \A a \in Nat : g[a] \in Nat
    BY <1>1
  <2> HIDE DEF g
  <2> QED
    BY <1>2, <2>1, Iteration, Zenon
<1>11. f \in [0..Words -> Nat] /\ f[0] = 0 /\ \A k \in 1..Words : f[k] = g[f[k - 1]]
  BY <1>3 DEF Iterates
<1>4. Rec(f)
  <2>1. ASSUME NEW k \in 0..Words
        PROVE  f[k] = IF k = 0 THEN 0
                      ELSE LET a == f[k - 1] IN IF IsNode(s, a) THEN NextOf(s, a) ELSE a
    <3>1. CASE k = 0
      BY <1>11, <3>1
    <3>2. CASE k # 0
      <4>1. k \in 1..Words /\ k - 1 \in 0..Words
        BY <1>2, <3>2
      <4>2. f[k] = g[f[k - 1]] /\ f[k - 1] \in Nat
        BY <1>11, <4>1
      <4> HIDE DEF g
      <4> QED
        BY <1>1, <3>2, <4>2
    <3> QED
      BY <3>1, <3>2
  <2> QED
    BY <1>11, <2>1
<1>5. Rec(CHOOSE h : Rec(h))
  BY <1>4
<1> DEFINE path == CHOOSE h : Rec(h)
<1>6. path = [k \in 0..Words |->
                IF k = 0 THEN 0
                ELSE LET a == path[k - 1] IN IF IsNode(s, a) THEN NextOf(s, a) ELSE a]
  BY <1>5
<1>7. Path(s) = path
  BY DEF Path
<1> HIDE DEF path
<1>8. path[0] = 0 /\ \A k \in 1..Words : path[k] = IF IsNode(s, path[k - 1]) THEN NextOf(s, path[k - 1]) ELSE path[k - 1]
  <2>1. \A k \in 1..Words : k \in 0..Words /\ k # 0
    BY <1>2
  <2>2. 0 \in 0..Words
    BY <1>2
  <2> QED
    BY <1>6, <2>1, <2>2
<1>9. \A k \in 0..Words : path[k] \in Nat
  <2> DEFINE Bad == {k \in 0..Words : path[k] \notin Nat}
  <2>1. CASE Bad = {}
    BY <2>1
  <2>2. CASE Bad # {}
    <3>1. Bad \in SUBSET Nat
      BY <1>2
    <3>2. PICK m \in Bad : \A n \in Bad : m <= n
      <4> HIDE DEF Bad
      <4> QED
        BY <2>2, <3>1, LeastNatural
    <3>3. m \in 0..Words /\ m # 0 /\ path[m] \notin Nat
      BY <1>8
    <3>4. m - 1 \in 0..Words /\ ~ (m <= m - 1) /\ m \in 1..Words
      BY <1>2, <3>3
    <3>5. m - 1 \notin Bad
      <4> HIDE DEF Bad
      <4> QED
        BY <3>2, <3>4
    <3>6. path[m - 1] \in Nat
      BY <3>4, <3>5
    <3> QED
      BY <1>8, <3>3, <3>4, <3>6, NodeFacts
  <2> QED
    BY <2>1, <2>2
<1>10. path \in [0..Words -> Nat]
  BY <1>6, <1>9
<1> QED
  BY <1>7, <1>8, <1>10

(* N is the set of nodes of s, from the first one to last_node.            *)
Chain(s, N) ==
  /\ N \subseteq Place /\ 0 \in N /\ s.last \in N
  /\ \A a \in N : IsNode(s, a) /\ a <= s.last
  /\ \A a \in N : a # s.last => NextOf(s, a) \in N
  /\ \A a, b \in N : a < b => NextOf(s, a) <= b

(* Each node but the first has one before it.                              *)
LEMMA Predecessor ==
  ASSUME NEW s \in Chunk, NEW N, Chain(s, N), NEW a \in N, a # 0
  PROVE  \E b \in N : b < a /\ b # s.last /\ NextOf(s, b) = a
<1> DEFINE T == {b \in N : b < a}
<1>1. N \subseteq Nat /\ a \in Nat /\ 0 \in T
  BY DEF Chain, Place
<1>2. T \in SUBSET Nat /\ T # {} /\ \A b \in T : b <= a
  <2>1. \A b \in N : b \in Nat /\ (b < a => b <= a)
    BY <1>1
  <2> QED
    BY <1>1, <2>1
<1>3. PICK b \in T : \A c \in T : c <= b
  <2> HIDE DEF T
  <2> QED
    BY <1>1, <1>2, GreatestPlace
<1>4. b \in N /\ b < a /\ b \in Nat /\ a <= s.last /\ s.last \in Nat
  BY <1>1 DEF Chain, Chunk
<1>5. b # s.last
  BY <1>1, <1>4
<1>6. NextOf(s, b) \in N /\ NextOf(s, b) <= a /\ NextOf(s, b) \in Nat /\ NextOf(s, b) > b
  <2>1. NextOf(s, b) \in N /\ NextOf(s, b) <= a /\ IsNode(s, b)
    BY <1>4, <1>5 DEF Chain
  <2> QED
    BY <1>4, <2>1, NodeFacts
<1>7. NextOf(s, b) \notin T
  <2> HIDE DEF T
  <2> QED
    BY <1>3, <1>4, <1>6
<1>8. NextOf(s, b) = a
  BY <1>1, <1>6, <1>7
<1> QED
  BY <1>4, <1>5, <1>8

(* Each node is on the way, and so is all that is met before it.           *)
LEMMA OnPath ==
  ASSUME NEW s \in Chunk, NEW N, Chain(s, N), NEW a \in N
  PROVE  \E k \in 0..Words :
            Path(s)[k] = a /\ k <= a /\ \A j \in 0..(k - 1) : Path(s)[j] \in N /\ Path(s)[j] < a
<1> DEFINE path == Path(s)
           Met(b, k) == path[k] = b /\ k <= b /\ \A j \in 0..(k - 1) : path[j] \in N /\ path[j] < b
           Bad == {b \in N : ~ \E k \in 0..Words : Met(b, k)}
<1>1. N \subseteq Nat /\ Words \in Nat /\ \A b \in N : b < Words
  BY DEF Chain, Place
<1>2. CASE Bad = {}
  BY <1>2
<1>3. CASE Bad # {}
  <2>1. Bad \in SUBSET Nat
    BY <1>1
  <2>2. PICK b \in Bad : \A c \in Bad : b <= c
    <3> HIDE DEF Bad
    <3> QED
      BY <1>3, <2>1, LeastNatural
  <2>3. b \in N /\ b \in Nat /\ b < Words /\ ~ \E k \in 0..Words : Met(b, k)
    BY <1>1
  <2>4. CASE b = 0
    <3>1. Met(0, 0) /\ 0 \in 0..Words
      BY <1>1, PathStep
    <3> QED
      BY <2>3, <2>4, <3>1
  <2>5. CASE b # 0
    <3>1. PICK c \in N : c < b /\ NextOf(s, c) = b
      BY <2>3, <2>5, Predecessor
    <3>2. c \in Nat /\ c \notin Bad
      <4>1. ~ (b <= c) /\ c \in Nat
        BY <1>1, <2>3, <3>1
      <4> HIDE DEF Bad
      <4> QED
        BY <2>2, <4>1
    <3>3. PICK k \in 0..Words : Met(c, k)
      BY <3>2
    <3>4. k \in Nat /\ k + 1 <= b /\ k + 1 \in 1..Words /\ (k + 1) - 1 = k
      BY <1>1, <2>3, <3>1, <3>2, <3>3
    <3>5. path[k + 1] = b
      <4>1. path[k + 1] = IF IsNode(s, path[k]) THEN NextOf(s, path[k]) ELSE path[k]
        BY <3>4, PathStep
      <4>2. IsNode(s, c)
        BY DEF Chain
      <4> QED
        BY <3>1, <3>3, <4>1, <4>2
    <3>6. \A j \in 0..k : path[j] \in N /\ path[j] < b
      <4>1. ASSUME NEW j \in 0..k PROVE path[j] \in N /\ path[j] < b
        <5>1. j = k \/ j \in 0..(k - 1)
          BY <3>4
        <5>2. CASE j = k
          BY <3>1, <3>3, <5>2
        <5>3. CASE j \in 0..(k - 1)
          <6>1. path[j] \in N /\ path[j] < c
            BY <3>3, <5>3
          <6>2. path[j] \in Nat
            BY <1>1, <6>1
          <6> HIDE DEF path
          <6> QED
            BY <2>3, <3>1, <3>2, <6>1, <6>2
        <5> QED
          BY <5>1, <5>2, <5>3
      <4> QED
        BY <4>1
    <3>7. Met(b, k + 1) /\ k + 1 \in 0..Words
      BY <3>4, <3>5, <3>6
    <3> QED
      BY <2>3, <3>7
  <2> QED
    BY <2>4, <2>5
<1> QED
  BY <1>2, <1>3

(* What Seek() finds.                                                      *)
LEMMA SeekInChain ==
  ASSUME NEW s \in Chunk, NEW N, Chain(s, N), NEW goal, goal \cap N # {}
  PROVE  Seek(s, goal) \in goal \cap N
<1> DEFINE path == Path(s)
           M == {k \in 0..Words : path[k] \in goal}
<1>1. PICK a \in N : a \in goal
  OBVIOUS
<1>2. PICK k \in 0..Words : path[k] = a /\ \A j \in 0..(k - 1) : path[j] \in N
  BY OnPath
<1>3. M \in SUBSET Nat /\ M # {}
  BY <1>1, <1>2
<1>4. PICK m \in M : \A n \in M : m <= n
  <2> HIDE DEF M
  <2> QED
    BY <1>3, LeastNatural
<1> DEFINE First(n) == n \in 0..Words /\ path[n] \in goal /\ \A j \in 0..(n - 1) : ~ (path[j] \in goal)
<1>5. First(m)
  <2>1. m \in 0..Words /\ path[m] \in goal
    OBVIOUS
  <2>2. ASSUME NEW j \in 0..(m - 1) PROVE path[j] \notin goal
    <3>1. j \in 0..Words /\ ~ (m <= j)
      BY <2>1
    <3>2. j \notin M
      <4> HIDE DEF M
      <4> QED
        BY <1>4, <3>1
    <3> QED
      BY <3>1, <3>2
  <2> QED
    BY <2>1, <2>2
<1> DEFINE e == CHOOSE n \in 0..Words : path[n] \in goal /\ \A j \in 0..(n - 1) : ~ (path[j] \in goal)
<1>6. First(e)
  <2>1. \E n \in 0..Words : path[n] \in goal /\ \A j \in 0..(n - 1) : ~ (path[j] \in goal)
    BY <1>5
  <2> QED
    BY <2>1
<1>7. Seek(s, goal) = path[e]
  <2>1. ~ \A n \in 0..Words : ~ (path[n] \in goal)
    BY <1>1, <1>2
  <2> QED
    BY <2>1 DEF Seek
<1> HIDE DEF e
<1>8. e <= k
  <2>1. ~ (k \in 0..(e - 1))
    BY <1>1, <1>2, <1>6
  <2> QED
    BY <1>6, <2>1
<1>9. path[e] \in N
  <2>1. e = k \/ e \in 0..(k - 1)
    BY <1>6, <1>8
  <2> QED
    BY <1>1, <1>2, <2>1
<1> QED
  BY <1>6, <1>7, <1>9

LEMMA NodesAreChain ==
  ASSUME heap \in Chunk, NEW N, Chain(heap, N)
  PROVE  Nodes = N
<1> DEFINE path == Path(heap)
           Early(k) == \A j \in 0..(k - 1) : path[j] # heap.last
<1>1. Nodes = {path[k] : k \in {i \in 0..Words : Early(i)}}
  BY DEF Nodes
<1>2. PICK l \in 0..Words : path[l] = heap.last /\ \A j \in 0..(l - 1) : path[j] \in N
  BY OnPath DEF Chain
<1>3. ASSUME NEW k \in 0..Words, Early(k) PROVE path[k] \in N
  <2>1. ~ (l \in 0..(k - 1))
    BY <1>2, <1>3
  <2>2. k = l \/ k \in 0..(l - 1)
    BY <2>1
  <2> QED
    BY <1>2, <2>2 DEF Chain
<1>4. ASSUME NEW a \in N PROVE \E k \in 0..Words : Early(k) /\ path[k] = a
  <2>1. PICK k \in 0..Words : path[k] = a /\ \A j \in 0..(k - 1) : path[j] \in N /\ path[j] < a
    BY OnPath
  <2>2. a <= heap.last /\ heap.last \in Nat /\ N \subseteq Nat
    BY DEF Chain, Chunk, Place
  <2>3. ASSUME NEW j \in 0..(k - 1) PROVE path[j] # heap.last
    <3>1. path[j] \in Nat /\ path[j] < a /\ a \in Nat
      BY <2>1, <2>2
    <3> QED
      BY <2>2, <3>1
  <2> QED
    BY <2>1, <2>3
<1> HIDE DEF path, Early
<1> QED
  BY <1>1, <1>3, <1>4

-----------------------------------------------------------------------------
(* Chunks that are tiled by nodes                                          *)

(* The nodes N cover the chunk up to the table and one word beyond.        *)
Tiled(s, N) ==
  /\ s \in Chunk /\ Chain(s, N)
  /\ NextOf(s, s.last) = s.first + 1 /\ Length(s, s.last) >= 1

LEMMA TiledFacts ==
  ASSUME NEW s, NEW N, Tiled(s, N), NEW a \in N
  PROVE  /\ s \in Chunk /\ s.last \in N /\ s.last \in Nat /\ s.first \in Nat /\ s.last < s.first
         /\ s.first <= Words /\ Words \in Nat
         /\ IsNode(s, a) /\ a \in Place /\ a \in Nat /\ a < Words /\ a <= s.last
         /\ Used(s, a) \in BOOLEAN /\ Length(s, a) \in Nat
         /\ NextOf(s, a) \in Nat /\ NextOf(s, a) = a + 1 + Length(s, a)
         /\ a # s.last => NextOf(s, a) \in N /\ NextOf(s, a) <= s.last
         /\ NextOf(s, s.last) = s.last + 1 + Length(s, s.last)
         /\ s.last + Length(s, s.last) = s.first
<1>1. s \in Chunk /\ s.last \in N /\ IsNode(s, s.last) /\ IsNode(s, a) /\ a <= s.last
  BY DEF Tiled, Chain
<1>2. s.last \in Nat /\ s.first \in Nat /\ s.first <= Words /\ Words \in Nat
  BY <1>1 DEF Chunk
<1>3. /\ a \in Place /\ a \in Nat /\ a < Words /\ Used(s, a) \in BOOLEAN /\ Length(s, a) \in Nat
      /\ NextOf(s, a) \in Nat /\ NextOf(s, a) = a + 1 + Length(s, a)
      /\ Length(s, s.last) \in Nat /\ NextOf(s, s.last) = s.last + 1 + Length(s, s.last)
  BY <1>1, NodeFacts
<1>4. s.last + Length(s, s.last) = s.first /\ s.last < s.first
  BY <1>2, <1>3 DEF Tiled
<1>5. a # s.last => NextOf(s, a) \in N /\ NextOf(s, a) <= s.last
  BY <1>1 DEF Tiled, Chain
<1> QED
  BY <1>1, <1>2, <1>3, <1>4, <1>5

(* The places of different nodes are different, heads included.            *)
Area(s, a) == a..(a + Length(s, a))

LEMMA AreasDisjoint ==
  ASSUME NEW s, NEW N, Tiled(s, N), NEW a \in N, NEW b \in N, a # b
  PROVE  Area(s, a) \cap Area(s, b) = {}
<1>1. /\ a \in Nat /\ Length(s, a) \in Nat /\ NextOf(s, a) = a + 1 + Length(s, a)
      /\ b \in Nat /\ Length(s, b) \in Nat /\ NextOf(s, b) = b + 1 + Length(s, b)
  BY TiledFacts
<1>2. (a < b => NextOf(s, a) <= b) /\ (b < a => NextOf(s, b) <= a)
  BY DEF Tiled, Chain
<1> QED
  BY <1>1, <1>2 DEF Area

(* Places where a call may write that is concerned with a node only: heads  *)
(* of free nodes and this node's own places, all below the table.          *)
Touched(s, N, node) ==
  {c \in Place : c < s.first /\ ((c \in N /\ ~ Used(s, c)) \/ c \in Area(s, node))}

(* From chunk s with nodes N to t with nodes M, all used nodes but node are *)
(* kept as they are, and so is the table.                                  *)
Frame(s, N, t, M, node) ==
  /\ t.first = s.first /\ t.ok = s.ok
  /\ \A c \in Place \ Touched(s, N, node) : t.word[c] = s.word[c]
  /\ \A b \in N \ {node} : Used(s, b) => b \in M
  /\ \A b \in M \ {node} : Used(t, b) => b \in N /\ Used(s, b)

LEMMA FrameKeeps ==
  ASSUME NEW s, NEW N, NEW t, NEW M, NEW node \in N, Tiled(s, N), Frame(s, N, t, M, node)
  PROVE  /\ \A b \in N : b # node /\ Used(s, b) =>
              /\ b \in M /\ SameHead(s, t, b)
              /\ \A c \in Area(s, b) : c \in Place => t.word[c] = s.word[c]
         /\ \A c \in Slots(s) : t.word[c] = s.word[c]
         /\ Slots(t) = Slots(s)
<1>1. ASSUME NEW b \in N, b # node, Used(s, b), NEW c \in Area(s, b), c \in Place
      PROVE  t.word[c] = s.word[c]
  <2>1. c \notin Area(s, node)
    BY <1>1, AreasDisjoint
  <2>2. ASSUME c \in N, ~ Used(s, c) PROVE FALSE
    <3>1. c # b
      BY <1>1, <2>2
    <3>2. c \in Area(s, c)
      BY <2>2, TiledFacts DEF Area
    <3> QED
      BY <1>1, <2>2, <3>1, <3>2, AreasDisjoint
  <2> QED
    BY <1>1, <2>1, <2>2 DEF Frame, Touched
<1>2. ASSUME NEW b \in N, b # node, Used(s, b) PROVE b \in M /\ SameHead(s, t, b)
  <2>1. b \in Area(s, b) /\ b \in Place
    BY TiledFacts DEF Area
  <2>2. t.word[b] = s.word[b]
    BY <1>1, <1>2, <2>1
  <2> QED
    BY <1>2, <2>2, SameWord DEF Frame
<1>3. ASSUME NEW c \in Slots(s) PROVE t.word[c] = s.word[c]
  <2>1. c \in Place /\ ~ (c < s.first)
    BY TiledFacts DEF Slots, Place
  <2> QED
    BY <2>1 DEF Frame, Touched
<1>4. Slots(t) = Slots(s)
  BY DEF Frame, Slots
<1> QED
  BY <1>1, <1>2, <1>3, <1>4

-----------------------------------------------------------------------------
(* Splitting and joining nodes                                             *)

(* A chain depends on the heads of its nodes and on last_node only.        *)
LEMMA ChainKept ==
  ASSUME NEW s \in Chunk, NEW t \in Chunk, NEW N, Chain(s, N), t.last = s.last,
         \A a \in N : IsNode(t, a) /\ NextOf(t, a) = NextOf(s, a)
  PROVE  Chain(t, N)
BY DEF Chain

(* A node is cut in two.                                                   *)
LEMMA ChainSplit ==
  ASSUME NEW s \in Chunk, NEW t \in Chunk, NEW N, Chain(s, N),
         NEW node \in N, NEW tail \in Place, node < tail, tail < NextOf(s, node),
         IsNode(t, node), NextOf(t, node) = tail,
         IsNode(t, tail), NextOf(t, tail) = NextOf(s, node),
         \A a \in N : a # node => IsNode(t, a) /\ NextOf(t, a) = NextOf(s, a),
         t.last = IF node = s.last THEN tail ELSE s.last
  PROVE  Chain(t, N \cup {tail})
<1> DEFINE M == N \cup {tail}
<1>1. /\ N \subseteq Nat /\ s.last \in N /\ 0 \in N /\ N \subseteq Place /\ tail \in Nat
      /\ \A a \in N : a <= s.last /\ NextOf(s, a) \in Nat /\ a < NextOf(s, a) /\ IsNode(s, a)
  <2>1. \A a \in N : IsNode(s, a)
    BY DEF Chain
  <2>2. \A a \in N : NextOf(s, a) \in Nat /\ a < NextOf(s, a)
    BY <2>1, NodeFacts
  <2> QED
    BY <2>1, <2>2 DEF Chain, Place
<1>2. \A a \in N : (a # s.last => NextOf(s, a) \in N) /\ \A b \in N : a < b => NextOf(s, a) <= b
  BY DEF Chain
<1>3. \A a \in N : (a < tail => a <= node) /\ (a # node /\ a < node => NextOf(s, a) <= node)
  BY <1>1, <1>2
<1>4. t.last \in M /\ M \subseteq Place /\ 0 \in M
  BY <1>1
<1>5. \A a \in M : IsNode(t, a) /\ a <= t.last
  <2>1. CASE node = s.last
    BY <1>1, <2>1
  <2>2. CASE node # s.last
    <3>1. NextOf(s, node) \in N /\ NextOf(s, node) \in Nat /\ s.last \in Nat /\ tail \in Nat
      BY <1>1, <1>2, <2>2
    <3>2. tail <= s.last
      <4>1. NextOf(s, node) <= s.last
        BY <1>1, <3>1
      <4> QED
        BY <3>1, <4>1
    <3>4. t.last = s.last
      BY <2>2
    <3>3. \A a \in M : IsNode(t, a)
      OBVIOUS
    <3> QED
      BY <1>1, <3>2, <3>3, <3>4
  <2> QED
    BY <2>1, <2>2
<1>6. \A a \in M : a # t.last => NextOf(t, a) \in M
  BY <1>1, <1>2
<1>7. ASSUME NEW a \in M, NEW b \in M, a < b PROVE NextOf(t, a) <= b
  <2>1. CASE a = tail
    <3>1. b \in N /\ node < b
      BY <1>1, <1>7, <2>1
    <3> QED
      BY <1>1, <1>2, <2>1, <3>1
  <2>2. CASE a = node
    BY <1>1, <1>2, <1>7, <2>2
  <2>3. CASE a # tail /\ a # node /\ b # tail
    BY <1>1, <1>2, <1>7, <2>3
  <2>4. CASE a # tail /\ a # node /\ b = tail
    <3>1. NextOf(s, a) <= node
      BY <1>1, <1>3, <1>7, <2>4
    <3> QED
      BY <1>1, <2>4, <3>1
  <2> QED
    BY <2>1, <2>2, <2>3, <2>4
<1> QED
  BY <1>4, <1>5, <1>6, <1>7 DEF Chain

(* A node takes the one behind it.                                         *)
LEMMA ChainJoin ==
  ASSUME NEW s \in Chunk, NEW t \in Chunk, NEW N, Chain(s, N),
         NEW node \in N, node # s.last, NEW next, next = NextOf(s, node),
         IsNode(t, node), NextOf(t, node) = NextOf(s, next),
         \A a \in N : a # node /\ a # next => IsNode(t, a) /\ NextOf(t, a) = NextOf(s, a),
         t.last = IF next = s.last THEN node ELSE s.last
  PROVE  Chain(t, N \ {next})
<1> DEFINE M == N \ {next}
<1>1. /\ N \subseteq Nat /\ s.last \in N /\ 0 \in N /\ N \subseteq Place
      /\ \A a \in N : a <= s.last /\ NextOf(s, a) \in Nat /\ a < NextOf(s, a) /\ IsNode(s, a)
  <2>1. \A a \in N : IsNode(s, a)
    BY DEF Chain
  <2>2. \A a \in N : NextOf(s, a) \in Nat /\ a < NextOf(s, a)
    BY <2>1, NodeFacts
  <2> QED
    BY <2>1, <2>2 DEF Chain, Place
<1>2. \A a \in N : (a # s.last => NextOf(s, a) \in N) /\ \A b \in N : a < b => NextOf(s, a) <= b
  BY DEF Chain
<1>3. next \in N /\ next > node /\ next \in Nat
  BY <1>1, <1>2
<1>4. t.last \in M /\ M \subseteq Place /\ 0 \in M /\ node \in M
  <2>1. next # 0 /\ next # node /\ node \in Nat
    BY <1>1, <1>3
  <2>2. t.last \in M
    BY <1>1, <2>1
  <2> QED
    BY <1>1, <2>1, <2>2
<1>5. \A a \in M : IsNode(t, a) /\ a <= t.last
  <2>1. \A a \in M : IsNode(t, a)
    OBVIOUS
  <2>2. CASE next = s.last
    <3>1. ASSUME NEW a \in M PROVE a <= node
      <4>1. a \in N /\ a \in Nat /\ a # next /\ a <= s.last /\ node \in Nat
        BY <1>1
      <4>2. node < a => NextOf(s, node) <= a
        BY <1>2, <4>1
      <4> QED
        BY <1>3, <2>2, <4>1, <4>2
    <3> QED
      BY <2>1, <2>2, <3>1
  <2>3. CASE next # s.last
    BY <1>1, <2>1, <2>3
  <2> QED
    BY <2>2, <2>3
<1>6. ASSUME NEW a \in M, a # t.last PROVE NextOf(t, a) \in M
  <2>1. CASE a = node
    <3>1. next # s.last
      BY <1>6, <2>1
    <3>2. NextOf(s, next) \in N /\ NextOf(s, next) # next
      BY <1>1, <1>2, <1>3, <3>1
    <3> QED
      BY <2>1, <3>2
  <2>2. CASE a # node
    <3>1. NextOf(t, a) = NextOf(s, a) /\ a \in N /\ a # s.last /\ a \in Nat /\ node \in Nat
      BY <1>1, <1>6, <2>2
    <3>2. NextOf(s, a) \in N
      BY <1>2, <3>1
    <3>3. NextOf(s, a) # next
      <4>1. a < node => NextOf(s, a) <= node
        BY <1>2, <3>1
      <4>2. node < a => next <= a
        BY <1>2, <3>1
      <4>3. a < NextOf(s, a)
        BY <1>1, <3>1
      <4> QED
        BY <1>1, <1>3, <2>2, <3>1, <4>1, <4>2, <4>3
    <3> QED
      BY <3>1, <3>2, <3>3
  <2> QED
    BY <2>1, <2>2
<1>7. ASSUME NEW a \in M, NEW b \in M, a < b PROVE NextOf(t, a) <= b
  <2>1. CASE a = node
    <3>1. next <= b /\ next # b /\ b \in Nat
      BY <1>1, <1>2, <1>7, <2>1
    <3> QED
      BY <1>2, <1>3, <2>1, <3>1
  <2>2. CASE a # node
    BY <1>2, <1>7, <2>2
  <2> QED
    BY <2>1, <2>2
<1> QED
  BY <1>4, <1>5, <1>6, <1>7 DEF Chain

(* No free node has a free one behind it, but for the first node and, where *)
(* stated, one other.                                                      *)
Joined(s, N) == \A a \in N : a # s.last /\ a # 0 /\ ~ Used(s, a) => Used(s, NextOf(s, a))
JoinedBut(s, N, z) ==
  \A a \in N : a # s.last /\ a # 0 /\ a # z /\ ~ Used(s, a) => Used(s, NextOf(s, a))

(* What JoinNext() does with a free node: t is s with the node joined.     *)
NodeJoined(s, N, t, M, node) ==
  /\ Tiled(t, M) /\ Joined(t, M) /\ node \in M /\ ~ Used(t, node) /\ M \subseteq N
  /\ t.first = s.first /\ t.ok = s.ok /\ \A b \in N : Used(s, b) => b \in M
  /\ \A c \in Place : c # node => t.word[c] = s.word[c]
  /\ t.last = s.last \/ (t.last = node /\ ~ Used(s, s.last))

LEMMA JoinNextEffect ==
  ASSUME NEW s, NEW N, Tiled(s, N), NEW node \in N, ~ Used(s, node), JoinedBut(s, N, node)
  PROVE  \E M : NodeJoined(s, N, JoinNext(s, node), M, node)
<1> DEFINE next == NextOf(s, node)
           t == JoinNext(s, node)
<1>1. CASE node = s.last \/ Used(s, next)
  <2>1. t = s
    <3>1. node # s.last => IsNode(s, next)
      BY TiledFacts DEF Tiled, Chain
    <3> QED
      BY <1>1, <3>1 DEF JoinNext
  <2>2. Joined(s, N)
    BY <1>1 DEF Joined, JoinedBut
  <2>3. NodeJoined(s, N, s, N, node)
    BY <2>2 DEF NodeJoined
  <2> QED
    BY <2>1, <2>3
<1>2. CASE node # s.last /\ ~ Used(s, next)
  <2>1. /\ s \in Chunk /\ s.last \in Nat /\ node \in Nat /\ node \in Place /\ node \in N
        /\ next \in N /\ next \in Nat /\ Length(s, node) \in Nat /\ Length(s, next) \in Nat
        /\ next = node + 1 + Length(s, node) /\ NextOf(s, next) = next + 1 + Length(s, next)
        /\ IsNode(s, next) /\ Chain(s, N)
    BY <1>2, TiledFacts DEF Tiled
  <2> DEFINE s1 == IF next = s.last THEN [s EXCEPT !.last = node] ELSE s
             l == Length(s, node) + Length(s, next) + 1
             M == N \ {next}
  <2>2. /\ s1 \in Chunk /\ s1.word = s.word /\ s1.first = s.first /\ s1.ok = s.ok
        /\ s1.last = IF next = s.last THEN node ELSE s.last
    <3> HIDE DEF next
    <3>1. CASE next = s.last
      <4>1. s1 = [s EXCEPT !.last = node]
        BY <3>1
      <4> HIDE DEF s1
      <4> QED
        BY <2>1, <3>1, <4>1 DEF Chunk
    <3>2. CASE next # s.last
      BY <2>1, <3>2
    <3> QED
      BY <3>1, <3>2
  <2>3. t = Put(s1, node, Head(FALSE, l))
    BY <1>2, <2>1 DEF JoinNext
  <2>4. l \in Nat /\ node + 1 + l = NextOf(s, next) /\ FALSE \in BOOLEAN
    BY <2>1
  <2> HIDE DEF s1, l, t
  <2>5. /\ t \in Chunk
        /\ t.last = s1.last /\ t.first = s1.first /\ t.ok = s1.ok
        /\ \A b \in Place : b # node => t.word[b] = s1.word[b]
        /\ IsNode(t, node) /\ ~ Used(t, node) /\ Length(t, node) = l
        /\ NextOf(t, node) = node + 1 + l
    <3>1. FreePut(s1, Put(s1, node, Head(FALSE, l)), node, l)
      BY <2>1, <2>2, <2>4, PutFree
    <3>2. FreePut(s1, t, node, l)
      BY <2>3, <3>1
    <3> HIDE DEF next
    <3> QED
      BY <3>2 DEF FreePut, PutTo
  <2>6. \A c \in Place : c # node => t.word[c] = s.word[c] /\ SameHead(s, t, c)
    BY <2>2, <2>5, SameWord
  <2>7. \A a \in N : a \in Place /\ IsNode(s, a)
    BY <2>1 DEF Chain
  <2>8. Chain(t, M)
    <3>1. \A a \in N : a # node /\ a # next => IsNode(t, a) /\ NextOf(t, a) = NextOf(s, a)
      BY <2>6, <2>7 DEF SameHead
    <3>2. t.last = IF next = s.last THEN node ELSE s.last
      BY <2>2, <2>5
    <3>3. /\ s \in Chunk /\ t \in Chunk /\ Chain(s, N) /\ node \in N /\ node # s.last
          /\ IsNode(t, node) /\ NextOf(t, node) = NextOf(s, next)
      BY <1>2, <2>1, <2>4, <2>5
    <3>4. next = NextOf(s, node)
      OBVIOUS
    <3> HIDE DEF next
    <3> QED
      BY ONLY <3>1, <3>2, <3>3, <3>4, ChainJoin DEF M
  <2>9. NextOf(t, t.last) = t.first + 1 /\ Length(t, t.last) >= 1
    <3>1. NextOf(s, s.last) = s.first + 1 /\ Length(s, s.last) >= 1 /\ s.last \in N
      BY <2>1 DEF Tiled, Chain
    <3>2. CASE next = s.last
      <4>1. t.last = node /\ t.first = s.first /\ l >= 1
        BY <2>1, <2>2, <2>5, <3>2 DEF l
      <4> QED
        BY <2>4, <2>5, <3>1, <3>2, <4>1
    <3>3. CASE next # s.last
      <4>1. t.last = s.last /\ t.first = s.first /\ SameHead(s, t, s.last)
        BY <1>2, <2>2, <2>5, <2>6, <2>7, <3>1, <3>3
      <4> QED
        BY <3>1, <4>1 DEF SameHead
    <3> QED
      BY <3>2, <3>3
  <2>10. Tiled(t, M)
    BY <2>1, <2>2, <2>5, <2>8, <2>9 DEF Tiled
  <2>11. ASSUME NEW a \in M, a # t.last, a # 0, ~ Used(t, a) PROVE Used(t, NextOf(t, a))
    <3>1. a \in N /\ a # next /\ a # s.last
      BY <2>2, <2>5, <2>11
    <3>2. CASE a = node
      <4>1. next # s.last
        BY <2>2, <2>5, <2>11, <3>2
      <4>2. Used(s, NextOf(s, next)) /\ NextOf(s, next) \in N
        BY <1>2, <2>1, <4>1 DEF JoinedBut, Chain
      <4>3. NextOf(s, next) # node /\ NextOf(t, a) = NextOf(s, next)
        BY <2>1, <2>4, <2>5, <3>2
      <4> QED
        BY <2>6, <2>7, <4>2, <4>3 DEF SameHead
    <3>3. CASE a # node
      <4>1. SameHead(s, t, a)
        BY <2>6, <2>7, <3>1, <3>3
      <4>2. Used(s, NextOf(s, a)) /\ NextOf(s, a) \in N /\ NextOf(t, a) = NextOf(s, a)
        BY <2>1, <2>11, <3>1, <3>3, <4>1 DEF SameHead, JoinedBut, Chain
      <4>3. NextOf(s, a) # node
        BY <4>2
      <4> QED
        BY <2>6, <2>7, <4>2, <4>3 DEF SameHead
    <3> QED
      BY <3>2, <3>3
  <2>12. Joined(t, M)
    BY <2>11 DEF Joined
  <2>13. \A b \in N : Used(s, b) => b \in M
    BY <1>2
  <2>14. node \in M /\ M \subseteq N
    BY <2>1
  <2>15. t.last = s.last \/ (t.last = node /\ ~ Used(s, s.last))
    BY <1>2, <2>2, <2>5
  <2> HIDE DEF M
  <2> QED
    BY <2>2, <2>5, <2>6, <2>10, <2>12, <2>13, <2>14, <2>15 DEF NodeJoined, t
<1> QED
  BY <1>1, <1>2

-----------------------------------------------------------------------------
(* alloc_node()                                                            *)

(* From s to t, the node is cut: it is used and has n words, and the rest   *)
(* of m words is a free node.                                              *)
Cut(s, t, node, n, tail, m) ==
  /\ t \in Chunk /\ t.first = s.first /\ t.ok = s.ok /\ tail = node + n + 1
  /\ IsNode(t, node) /\ Used(t, node) /\ Length(t, node) = n /\ NextOf(t, node) = tail
  /\ IsNode(t, tail) /\ ~ Used(t, tail) /\ Length(t, tail) = m /\ NextOf(t, tail) = tail + 1 + m
  /\ \A c \in Place : c # node /\ c # tail => t.word[c] = s.word[c]

(* The head of the rest is written first.                                  *)
RestPut(s, u, node, n, tail, m) ==
  /\ u \in Chunk /\ u.first = s.first /\ u.ok = s.ok /\ tail = node + n + 1
  /\ IsNode(u, tail) /\ ~ Used(u, tail) /\ Length(u, tail) = m /\ NextOf(u, tail) = tail + 1 + m
  /\ \A c \in Place : c # tail => u.word[c] = s.word[c]

CutTo(s, u, t, node, n, tail, m) == Cut(s, t, node, n, tail, m) /\ t.last = u.last

LEMMA CutPut ==
  ASSUME NEW s, NEW u, NEW node \in Place, NEW n \in Nat, NEW tail, NEW m,
         RestPut(s, u, node, n, tail, m)
  PROVE  CutTo(s, u, Put(u, node, Head(TRUE, n)), node, n, tail, m)
<1> DEFINE t == Put(u, node, Head(TRUE, n))
<1>1. u \in Chunk
  BY DEF RestPut
<1>2. UsedPut(u, t, node, n)
  BY <1>1, PutUsed
<1> HIDE DEF t
<1>3. node # tail /\ NextOf(t, node) = tail /\ tail \in Place /\ tail = node + n + 1
  BY <1>2 DEF Place, UsedPut, RestPut, IsNode
<1>4. SameHead(u, t, tail)
  <2>1. t.word[tail] = u.word[tail]
    BY <1>2, <1>3 DEF UsedPut, PutTo
  <2> QED
    BY <2>1, SameWord
<1>5. \A c \in Place : c # node /\ c # tail => t.word[c] = s.word[c]
  BY <1>2 DEF RestPut, UsedPut, PutTo
<1>6. t \in Chunk /\ t.first = s.first /\ t.ok = s.ok /\ t.last = u.last
  BY <1>2 DEF RestPut, UsedPut, PutTo
<1>7. IsNode(t, node) /\ Used(t, node) /\ Length(t, node) = n
  BY <1>2 DEF UsedPut
<1>8. IsNode(t, tail) /\ ~ Used(t, tail) /\ Length(t, tail) = m /\ NextOf(t, tail) = tail + 1 + m
  BY <1>4 DEF RestPut, SameHead
<1> QED
  BY <1>3, <1>5, <1>6, <1>7, <1>8 DEF Cut, CutTo, RestPut, t

(* The new nodes M are old ones, all the used ones among them, and tail.     *)
Recut(s, N, M, tail) == M \subseteq N \cup {tail} /\ \A b \in N : Used(s, b) => b \in M

CutFramed(s, N, t, M, node, n, tail) ==
  /\ tail \in Place /\ tail > node /\ tail < NextOf(s, node) /\ tail \notin N
  /\ Frame(s, N, t, M, node)
  /\ \A i \in 1..n : t.word[node + i] = s.word[node + i]

LEMMA CutFrame ==
  ASSUME NEW s, NEW N, Tiled(s, N), NEW node \in N, NEW n \in Nat, n < Length(s, node),
         node = s.last => n + 1 < Length(s, node),
         NEW t, NEW tail, NEW m, Cut(s, t, node, n, tail, m),
         NEW M, Recut(s, N, M, tail)
  PROVE  CutFramed(s, N, t, M, node, n, tail)
<1>1. /\ node \in Place /\ node \in Nat /\ Length(s, node) \in Nat
      /\ s.first \in Nat /\ s.first <= Words /\ s.last \in Nat /\ s.last < s.first
      /\ NextOf(s, node) = node + 1 + Length(s, node)
      /\ node # s.last => NextOf(s, node) <= s.last
      /\ node = s.last => node + Length(s, node) = s.first
  BY TiledFacts
<1>2. /\ tail \in Nat /\ tail < s.first /\ tail > node /\ tail < NextOf(s, node)
      /\ node < s.first /\ tail = node + n + 1
  BY <1>1 DEF Cut
<1>3. tail \in Place /\ tail \in Area(s, node) /\ node \in Area(s, node)
  BY <1>1, <1>2 DEF Place, Area
<1>4. tail \notin N
  BY <1>1, <1>2 DEF Tiled, Chain
<1>5. node \in Touched(s, N, node) /\ tail \in Touched(s, N, node)
  BY <1>1, <1>2, <1>3 DEF Touched
<1>6. \A c \in Place \ Touched(s, N, node) : t.word[c] = s.word[c]
  BY <1>5 DEF Cut
<1>7. ASSUME NEW b \in M \ {node}, Used(t, b) PROVE b \in N /\ Used(s, b)
  <2>1. b # tail /\ b \in N /\ b # node
    BY <1>7 DEF Cut, Recut
  <2>2. b \in Place
    BY <2>1, TiledFacts
  <2>3. t.word[b] = s.word[b]
    BY <2>1, <2>2 DEF Cut
  <2> QED
    BY <1>7, <2>1, <2>3, SameWord DEF SameHead
<1>8. Frame(s, N, t, M, node)
  BY <1>6, <1>7 DEF Frame, Cut, Recut
<1>9. ASSUME NEW i \in 1..n PROVE t.word[node + i] = s.word[node + i]
  <2>1. node + i \in Place /\ node + i # node /\ node + i # tail
    BY <1>1, <1>2 DEF Place
  <2> QED
    BY <2>1 DEF Cut
<1> QED
  BY <1>2, <1>3, <1>4, <1>8, <1>9 DEF CutFramed

(* What alloc_node() does, where it copes.                                 *)
NodeAllocated(s, N, t, M, node, n) ==
  /\ Tiled(t, M) /\ Joined(t, M) /\ node \in M /\ Used(t, node) /\ Length(t, node) = n
  /\ Frame(s, N, t, M, node)
  /\ \A i \in 1..n : t.word[node + i] = s.word[node + i]
  /\ node = s.last \/ ~ Used(s, s.last) => ~ Used(t, t.last)

(* The node is cut at its own end, the last node or one before a used node. *)
LEMMA CutEffect ==
  ASSUME NEW s, NEW N, Tiled(s, N), Joined(s, N), NEW node \in N, NEW n \in Nat,
         n < Length(s, node), node = s.last => n + 1 < Length(s, node),
         node # s.last => Used(s, NextOf(s, node)),
         NEW t, NEW tail,
         Cut(s, t, node, n, tail, Length(s, node) - n - 1),
         t.last = IF node = s.last THEN tail ELSE s.last
  PROVE  NodeAllocated(s, N, t, N \cup {tail}, node, n)
<1> DEFINE M == N \cup {tail}
           m == Length(s, node) - n - 1
<1>1. /\ s \in Chunk /\ node \in Place /\ node \in Nat /\ Length(s, node) \in Nat
      /\ s.last \in N /\ NextOf(s, node) = node + 1 + Length(s, node)
      /\ NextOf(s, s.last) = s.first + 1
      /\ node # s.last => NextOf(s, node) \in N
      /\ s.last \in Place
  BY TiledFacts DEF Tiled
<1>2. /\ tail \in Place /\ tail > node /\ tail < NextOf(s, node) /\ tail \notin N
      /\ Frame(s, N, t, M, node)
      /\ \A i \in 1..n : t.word[node + i] = s.word[node + i]
  <2>1. Recut(s, N, M, tail)
    BY DEF Recut
  <2>2. Cut(s, t, node, n, tail, m)
    OBVIOUS
  <2> HIDE DEF M, m
  <2>3. CutFramed(s, N, t, M, node, n, tail)
    BY <2>1, <2>2, CutFrame
  <2> QED
    BY <2>3 DEF CutFramed
<1>3. \A c \in N : c # node => c \in Place /\ t.word[c] = s.word[c] /\ SameHead(s, t, c) /\ IsNode(s, c)
  <2>1. \A c \in N : c \in Place /\ IsNode(s, c)
    BY TiledFacts
  <2> QED
    BY <1>2, <2>1, SameWord DEF Cut
<1>4. NextOf(t, tail) = NextOf(s, node)
  BY <1>1 DEF Cut
<1>5. Chain(t, M)
  <2>1. Chain(s, N)
    BY DEF Tiled
  <2>2. t \in Chunk /\ IsNode(t, node) /\ NextOf(t, node) = tail /\ IsNode(t, tail)
    BY DEF Cut
  <2>3. \A c \in N : c # node => IsNode(t, c) /\ NextOf(t, c) = NextOf(s, c)
    BY <1>3 DEF SameHead
  <2> QED
    BY <1>1, <1>2, <1>4, <2>1, <2>2, <2>3, ChainSplit
<1>6. NextOf(t, t.last) = t.first + 1 /\ Length(t, t.last) >= 1
  <2>1. CASE node = s.last
    BY <1>1, <1>4, <2>1 DEF Cut
  <2>2. CASE node # s.last
    BY <1>1, <1>3, <2>2 DEF Cut, SameHead, Tiled
  <2> QED
    BY <2>1, <2>2
<1>7. Tiled(t, M)
  BY <1>5, <1>6 DEF Tiled, Cut
<1>8. ASSUME NEW a \in M, a # t.last, a # 0, ~ Used(t, a) PROVE Used(t, NextOf(t, a))
  <2>1. CASE a = tail
    <3>1. node # s.last /\ NextOf(t, a) = NextOf(s, node) /\ NextOf(s, node) # node
      BY <1>1, <1>4, <1>8, <2>1
    <3> QED
      BY <1>1, <1>3, <3>1 DEF SameHead
  <2>2. CASE a # tail
    <3>1. a \in N /\ a # node
      BY <1>8, <2>2 DEF Cut
    <3>2. ~ Used(s, a) /\ NextOf(t, a) = NextOf(s, a) /\ a # s.last
      <4>1. SameHead(s, t, a)
        BY <1>3, <3>1
      <4>2. node = s.last \/ t.last = s.last
        OBVIOUS
      <4> QED
        BY <1>8, <3>1, <4>1, <4>2 DEF SameHead
    <3>3. Used(s, NextOf(s, a)) /\ NextOf(s, a) \in N
      BY <1>8, <3>1, <3>2 DEF Joined, Tiled, Chain
    <3> QED
      BY <1>3, <3>2, <3>3 DEF SameHead, Cut
  <2> QED
    BY <2>1, <2>2
<1>9. node = s.last \/ ~ Used(s, s.last) => ~ Used(t, t.last)
  <2>1. CASE node = s.last
    BY <2>1 DEF Cut
  <2>2. CASE node # s.last
    BY <1>1, <1>3, <2>2 DEF SameHead
  <2> QED
    BY <2>1, <2>2
<1> QED
  BY <1>2, <1>7, <1>8, <1>9 DEF NodeAllocated, Joined, Cut

(* The rest is joined with a free node behind it, which is not the last.    *)
LEMMA CutJoinEffect ==
  ASSUME NEW s, NEW N, Tiled(s, N), Joined(s, N), NEW node \in N, NEW n \in Nat,
         n < Length(s, node), node # s.last,
         ~ Used(s, NextOf(s, node)), NextOf(s, node) # s.last, NEW tail,
         NEW u, Cut(s, u, node, n, tail, Length(s, node) - n - 1), u.last = s.last,
         NEW t, Cut(s, t, node, n, tail, Length(s, node) - n + Length(s, NextOf(s, node))),
         t.last = s.last
  PROVE  NodeAllocated(s, N, t, (N \cup {tail}) \ {NextOf(s, node)}, node, n)
<1> DEFINE after == NextOf(s, node)
           K == N \cup {tail}
           M == K \ {after}
           m == Length(s, node) - n - 1
           l == Length(s, node) - n + Length(s, after)
<1>1. /\ s \in Chunk /\ node \in Place /\ node \in Nat /\ Length(s, node) \in Nat
      /\ s.last \in N /\ s.last \in Place /\ after = node + 1 + Length(s, node)
      /\ after \in N /\ after \in Nat /\ Length(s, after) \in Nat
      /\ NextOf(s, after) = after + 1 + Length(s, after)
      /\ NextOf(s, s.last) = s.first + 1
      /\ NextOf(s, after) \in N /\ NextOf(s, after) \in Nat
  BY TiledFacts DEF Tiled
<1>2. tail = node + n + 1
  BY DEF Cut
<1>3. /\ tail \in Place /\ tail > node /\ tail < after /\ tail \notin N
      /\ Frame(s, N, t, M, node)
      /\ \A i \in 1..n : t.word[node + i] = s.word[node + i]
  <2>1. Recut(s, N, M, tail)
    BY DEF Recut, Tiled, Joined
  <2>2. Cut(s, t, node, n, tail, l)
    OBVIOUS
  <2>3. CutFramed(s, N, t, M, node, n, tail)
    <3>1. node = s.last => n + 1 < Length(s, node)
      OBVIOUS
    <3> HIDE DEF M, l, K, m, after
    <3> QED
      BY ONLY Tiled(s, N), node \in N, n \in Nat, n < Length(s, node), <3>1, <2>1, <2>2, CutFrame
  <2> QED
    BY <2>3 DEF CutFramed
<1>4. ASSUME NEW c \in N, c # node
      PROVE  /\ c \in Place /\ t.word[c] = s.word[c] /\ SameHead(s, t, c)
             /\ SameHead(s, u, c) /\ IsNode(s, c)
  <2>1. c \in Place /\ IsNode(s, c) /\ c # tail
    BY <1>3, <1>4, TiledFacts
  <2>2. t.word[c] = s.word[c] /\ u.word[c] = s.word[c]
    BY <1>4, <2>1 DEF Cut
  <2> QED
    BY <2>1, <2>2, SameWord
<1>5. NextOf(u, tail) = after /\ NextOf(t, tail) = NextOf(s, after)
  BY <1>1, <1>2 DEF Cut
<1>6. Chain(u, K)
  <2>1. Chain(s, N)
    BY DEF Tiled
  <2>2. u \in Chunk /\ IsNode(u, node) /\ NextOf(u, node) = tail /\ IsNode(u, tail)
    BY DEF Cut
  <2>3. \A c \in N : c # node => IsNode(u, c) /\ NextOf(u, c) = NextOf(s, c)
    BY <1>4 DEF SameHead
  <2>4. tail \in Place /\ tail \notin N /\ tail > node /\ tail < NextOf(s, node)
    BY <1>3
  <2>5. NextOf(u, tail) = NextOf(s, node) /\ u.last = s.last
    BY <1>5
  <2> QED
    BY ONLY <2>1, <2>2, <2>3, <2>4, <2>5, <1>1, s \in Chunk, node \in N, node # s.last, ChainSplit
<1>7. Chain(t, M)
  <2>1. u \in Chunk /\ t \in Chunk /\ tail \in K /\ tail # u.last /\ after # u.last
    BY <1>1, <1>3 DEF Cut
  <2>2. IsNode(t, tail) /\ NextOf(t, tail) = NextOf(u, after)
    BY <1>1, <1>4, <1>5 DEF Cut, SameHead
  <2>3. \A c \in K : c # tail /\ c # after => IsNode(t, c) /\ NextOf(t, c) = NextOf(u, c)
    BY <1>4 DEF Cut, SameHead
  <2> HIDE DEF K
  <2> QED
    BY <1>5, <1>6, <2>1, <2>2, <2>3, ChainJoin
<1>8. NextOf(t, t.last) = t.first + 1 /\ Length(t, t.last) >= 1
  BY <1>1, <1>4 DEF Cut, SameHead, Tiled
<1>9. Tiled(t, M)
  BY <1>7, <1>8 DEF Tiled, Cut
<1>10. ASSUME NEW a \in M, a # t.last, a # 0, ~ Used(t, a) PROVE Used(t, NextOf(t, a))
  <2>1. CASE a = tail
    <3>1. Used(s, NextOf(s, after)) /\ NextOf(s, after) # node
      BY <1>1 DEF Joined
    <3> QED
      BY <1>1, <1>4, <1>5, <2>1, <3>1 DEF SameHead
  <2>2. CASE a # tail
    <3>1. a \in N /\ a # node /\ a # after
      BY <1>10, <2>2 DEF Cut
    <3>2. ~ Used(s, a) /\ NextOf(t, a) = NextOf(s, a) /\ a # s.last
      BY <1>4, <1>10, <3>1 DEF SameHead
    <3>3. Used(s, NextOf(s, a)) /\ NextOf(s, a) \in N
      BY <1>10, <3>1, <3>2 DEF Joined, Tiled, Chain
    <3> QED
      BY <1>4, <3>2, <3>3 DEF SameHead, Cut
  <2> QED
    BY <2>1, <2>2
<1>11. ~ Used(s, s.last) => ~ Used(t, t.last)
  BY <1>1, <1>4 DEF SameHead
<1>12. node \in M
  BY <1>1
<1> HIDE DEF M
<1> QED
  BY <1>3, <1>9, <1>10, <1>11, <1>12 DEF NodeAllocated, Joined, Cut, M

(* A used node takes all of its words.                                     *)
LEMMA WholeEffect ==
  ASSUME NEW s, NEW N, Tiled(s, N), Joined(s, N), NEW node \in N, node # s.last,
         NEW t, UsedPut(s, t, node, Length(s, node))
  PROVE  NodeAllocated(s, N, t, N, node, Length(s, node))
<1>1. /\ s \in Chunk /\ node \in Place /\ node \in Nat /\ Length(s, node) \in Nat
      /\ node < s.first /\ s.last \in N /\ s.last \in Place /\ s.first \in Nat
      /\ s.first <= Words
      /\ node \in Area(s, node) /\ node + Length(s, node) < s.first
      /\ NextOf(s, node) = node + 1 + Length(s, node)
  <2>1. /\ node \in Nat /\ Length(s, node) \in Nat /\ node <= s.last /\ s.last < s.first
        /\ s.last \in Nat /\ s.first \in Nat /\ NextOf(s, node) = node + 1 + Length(s, node)
        /\ NextOf(s, node) <= s.last
    BY TiledFacts
  <2>2. s.last \in N /\ s.last \in Place /\ node \in Place /\ s \in Chunk /\ s.first <= Words
    BY TiledFacts
  <2>3. node < s.first /\ node \in Area(s, node) /\ node + Length(s, node) < s.first
    BY <2>1 DEF Area
  <2> QED
    BY <2>1, <2>2, <2>3
<1>2. \A c \in N : c # node => c \in Place /\ t.word[c] = s.word[c] /\ SameHead(s, t, c)
  <2>1. \A c \in N : c \in Place
    BY TiledFacts
  <2> QED
    BY <2>1, SameWord DEF UsedPut, PutTo
<1>3. IsNode(t, node) /\ Used(t, node) /\ NextOf(t, node) = NextOf(s, node)
  BY <1>1 DEF UsedPut
<1>4. \A c \in N : IsNode(t, c) /\ NextOf(t, c) = NextOf(s, c)
  <2>1. \A c \in N : IsNode(s, c)
    BY TiledFacts
  <2> QED
    BY <1>2, <1>3, <2>1 DEF SameHead
<1>5. t \in Chunk /\ t.last = s.last /\ t.first = s.first /\ t.ok = s.ok
  BY DEF UsedPut, PutTo
<1>6. Tiled(t, N)
  <2>1. Chain(t, N)
    BY <1>1, <1>4, <1>5, ChainKept DEF Tiled
  <2>2. NextOf(t, t.last) = t.first + 1 /\ Length(t, t.last) >= 1
    BY <1>1, <1>2, <1>5 DEF SameHead, Tiled
  <2> QED
    BY <1>5, <2>1, <2>2 DEF Tiled
<1>7. ASSUME NEW a \in N, a # t.last, a # 0, ~ Used(t, a) PROVE Used(t, NextOf(t, a))
  <2>1. a # node /\ ~ Used(s, a) /\ NextOf(t, a) = NextOf(s, a)
    BY <1>2, <1>3, <1>7 DEF SameHead
  <2>2. Used(s, NextOf(s, a)) /\ NextOf(s, a) \in N
    BY <1>5, <1>7, <2>1 DEF Joined, Tiled, Chain
  <2> QED
    BY <1>2, <1>3, <2>1, <2>2 DEF SameHead
<1>8. Frame(s, N, t, N, node)
  <2>1. \A c \in Place \ Touched(s, N, node) : t.word[c] = s.word[c]
    BY <1>1 DEF UsedPut, PutTo, Touched
  <2>2. \A b \in N \ {node} : Used(t, b) => Used(s, b)
    BY <1>2 DEF SameHead
  <2> QED
    BY <1>5, <2>1, <2>2 DEF Frame
<1>9. ASSUME NEW i \in 1..Length(s, node) PROVE t.word[node + i] = s.word[node + i]
  <2>1. node + i \in Place /\ node + i # node
    BY <1>1 DEF Place
  <2> QED
    BY <2>1 DEF UsedPut, PutTo
<1>10. ~ Used(s, s.last) => ~ Used(t, t.last)
  BY <1>1, <1>2, <1>5 DEF SameHead
<1> QED
  BY <1>6, <1>7, <1>8, <1>9, <1>10 DEF NodeAllocated, Joined, UsedPut

LEMMA AllocNode ==
  ASSUME NEW s, NEW N, Tiled(s, N), Joined(s, N), NEW node \in N, NEW n \in Nat,
         n <= Length(s, node), ~ Overtakes(s, node, n)
  PROVE  \E M : NodeAllocated(s, N, alloc_node(s, node, n), M, node, n)
<1> DEFINE tail == node + n + 1
           rest == Length(s, node) - n
           after == tail + rest
           s1 == Put(s, tail, Head(FALSE, rest - 1))
           s2 == IF node = s.last THEN [s1 EXCEPT !.last = tail]
                 ELSE IF ~ IsNode(s1, after) THEN Broken(s1)
                 ELSE IF Used(s1, after) THEN s1
                 ELSE Put(s1, tail, Head(FALSE, rest + Length(s1, after)))
           t == alloc_node(s, node, n)
<1>1. /\ s \in Chunk /\ node \in Place /\ node \in Nat /\ Length(s, node) \in Nat
      /\ IsNode(s, node) /\ NextOf(s, node) = node + 1 + Length(s, node)
      /\ node # s.last => NextOf(s, node) \in N /\ NextOf(s, node) <= s.last
      /\ node = s.last => node + Length(s, node) = s.first
      /\ s.last \in Nat /\ s.last < s.first /\ s.first \in Nat /\ s.first <= Words
  BY TiledFacts
<1>2. t = Put(IF rest > 0 THEN s2 ELSE s, node, Head(TRUE, n))
  BY <1>1 DEF alloc_node
<1>3. after = NextOf(s, node) /\ rest \in Nat
  BY <1>1
<1>4. CASE rest = 0
  <2>1. node # s.last /\ n = Length(s, node)
    BY <1>1, <1>4 DEF Overtakes
  <2>2. t = Put(s, node, Head(TRUE, n))
    <3> HIDE DEF t, s2, rest
    <3> QED
      BY <1>2, <1>4
  <2>3. UsedPut(s, Put(s, node, Head(TRUE, n)), node, n)
    BY <1>1, PutUsed
  <2> HIDE DEF t
  <2>4. UsedPut(s, t, node, Length(s, node))
    BY <2>1, <2>2, <2>3
  <2>5. NodeAllocated(s, N, t, N, node, Length(s, node))
    BY <2>1, <2>4, WholeEffect
  <2>6. NodeAllocated(s, N, t, N, node, n)
    BY <2>1, <2>5
  <2> QED
    BY <2>6 DEF t
<1>5. CASE rest > 0
  <2>1. /\ n < Length(s, node) /\ (node = s.last => n + 1 < Length(s, node))
        /\ (node # s.last => after # s.last)
    BY <1>1, <1>3, <1>5 DEF Overtakes
  <2>2. tail \in Nat /\ tail \in Place /\ rest - 1 \in Nat
    BY <1>1, <1>3, <1>5, <2>1 DEF Place
  <2>3. t = Put(s2, node, Head(TRUE, n))
    BY <1>2, <1>5
  <2>4. FreePut(s, s1, tail, rest - 1)
    BY <1>1, <2>2, PutFree
  <2>5. RestPut(s, s1, node, n, tail, rest - 1) /\ s1.last = s.last
    <3> HIDE DEF s1
    <3> QED
      BY <2>4 DEF FreePut, RestPut, PutTo
  <2>6. rest - 1 = Length(s, node) - n - 1 /\ tail = node + n + 1
    BY <1>1
  <2> DEFINE m == rest - 1
             u == Put(s1, node, Head(TRUE, n))
  <2>7. Cut(s, u, node, n, tail, m) /\ u.last = s.last
    <3>1. RestPut(s, s1, node, n, tail, m) /\ s1.last = s.last
      BY <2>5
    <3> HIDE DEF s1, tail, m
    <3>2. CutTo(s, s1, Put(s1, node, Head(TRUE, n)), node, n, tail, m)
      BY <1>1, <3>1, CutPut
    <3> QED
      BY <3>1, <3>2 DEF CutTo
  <2>8. CASE node = s.last
    <3> DEFINE v == [s1 EXCEPT !.last = tail]
    <3>1. s2 = v
      BY <2>8
    <3>2. RestPut(s, v, node, n, tail, m) /\ v.last = tail
      <4>1. v \in Chunk /\ v.first = s1.first /\ v.ok = s1.ok /\ v.word = s1.word /\ v.last = tail
        <5> HIDE DEF s1, tail
        <5> QED
          BY <2>2, <2>5 DEF RestPut, Chunk
      <4> HIDE DEF v, s1, tail, m
      <4> QED
        BY <2>5, <4>1 DEF RestPut, IsNode, Used, Length, NextOf, m
    <3> HIDE DEF v, s2, tail, m, t
    <3>3. Cut(s, t, node, n, tail, m) /\ t.last = tail
      <4>1. CutTo(s, v, Put(v, node, Head(TRUE, n)), node, n, tail, m)
        BY <1>1, <3>2, CutPut
      <4> QED
        BY <2>3, <3>1, <3>2, <4>1 DEF CutTo
    <3>4. NodeAllocated(s, N, t, N \cup {tail}, node, n)
      BY <2>1, <2>6, <2>8, <3>3, CutEffect DEF m
    <3> QED
      BY <3>4 DEF t
  <2>9. CASE node # s.last
    <3>1. after \in N /\ IsNode(s, after) /\ Length(s, after) \in Nat /\ after \in Place /\ after # tail
      BY <1>1, <1>3, <1>5, <2>9, TiledFacts
    <3>2. SameHead(s, s1, after)
      <4>1. s1.word[after] = s.word[after]
        BY <2>5, <3>1 DEF RestPut
      <4> QED
        BY <4>1, SameWord
    <3>3. CASE Used(s, after)
      <4>1. t = u
        BY <2>3, <2>9, <3>1, <3>2, <3>3 DEF SameHead
      <4>2. NodeAllocated(s, N, u, N \cup {tail}, node, n)
        <5> HIDE DEF u, tail
        <5> QED
          BY <1>3, <2>1, <2>6, <2>7, <2>9, <3>3, CutEffect DEF m
      <4> QED
        BY <4>1, <4>2
    <3>4. CASE ~ Used(s, after)
      <4> DEFINE l == rest + Length(s, after)
                 v == Put(s1, tail, Head(FALSE, l))
      <4>1. s2 = v
        BY <2>9, <3>1, <3>2, <3>4 DEF SameHead
      <4>2. RestPut(s, v, node, n, tail, l) /\ v.last = s.last
        <5>1. l \in Nat /\ s1 \in Chunk
          <6> HIDE DEF s1, after, rest
          <6> QED
            BY <1>3, <2>5, <3>1 DEF RestPut
        <5>2. FreePut(s1, v, tail, l)
          <6> HIDE DEF s1, l, tail
          <6> QED
            BY <2>2, <5>1, PutFree
        <5> HIDE DEF v, s1, l, tail, m
        <5> QED
          BY <2>5, <5>2 DEF RestPut, FreePut, PutTo
      <4> HIDE DEF v, s2, tail, t, l
      <4>3. Cut(s, t, node, n, tail, l) /\ t.last = s.last
        <5>1. CutTo(s, v, Put(v, node, Head(TRUE, n)), node, n, tail, l)
          BY <1>1, <4>2, CutPut
        <5> QED
          BY <2>3, <4>1, <4>2, <5>1 DEF CutTo
      <4>4. Cut(s, t, node, n, tail, Length(s, node) - n + Length(s, NextOf(s, node)))
        BY <1>3, <4>3 DEF l
      <4>5. Cut(s, u, node, n, tail, Length(s, node) - n - 1) /\ u.last = s.last
        BY <2>6, <2>7
      <4>6. ~ Used(s, NextOf(s, node)) /\ NextOf(s, node) # s.last
        BY <1>3, <2>1, <2>9, <3>4
      <4> HIDE DEF u
      <4>7. NodeAllocated(s, N, t, (N \cup {tail}) \ {NextOf(s, node)}, node, n)
        BY <2>1, <2>9, <4>3, <4>4, <4>5, <4>6, CutJoinEffect
      <4> QED
        BY <4>7 DEF t
    <3> QED
      BY <3>3, <3>4
  <2> QED
    BY <2>8, <2>9
<1> QED
  BY <1>3, <1>4, <1>5

-----------------------------------------------------------------------------
(* free_node()                                                             *)

(* Heads may change their flags.                                           *)
LEMMA TiledKept ==
  ASSUME NEW s, NEW N, Tiled(s, N), NEW t \in Chunk,
         t.last = s.last, t.first = s.first,
         \A a \in N : IsNode(t, a) /\ Length(t, a) = Length(s, a)
  PROVE  Tiled(t, N)
<1>1. \A a \in N : NextOf(t, a) = NextOf(s, a)
  BY DEF NextOf
<1>2. Chain(t, N)
  BY <1>1, ChainKept DEF Tiled
<1>3. s.last \in N
  BY DEF Tiled, Chain
<1> QED
  BY <1>1, <1>2, <1>3 DEF Tiled

(* Every node has one before it only.                                      *)
LEMMA OnePredecessor ==
  ASSUME NEW s, NEW N, Tiled(s, N), NEW a \in N, NEW b \in N, a # b
  PROVE  NextOf(s, a) # NextOf(s, b)
<1>1. /\ a \in Nat /\ b \in Nat
      /\ NextOf(s, a) \in Nat /\ NextOf(s, a) > a /\ NextOf(s, b) \in Nat /\ NextOf(s, b) > b
  <2>1. /\ a \in Nat /\ Length(s, a) \in Nat /\ NextOf(s, a) = a + 1 + Length(s, a)
    BY TiledFacts
  <2>2. /\ b \in Nat /\ Length(s, b) \in Nat /\ NextOf(s, b) = b + 1 + Length(s, b)
    BY TiledFacts
  <2> QED
    BY <2>1, <2>2
<1>2. (a < b => NextOf(s, a) <= b) /\ (b < a => NextOf(s, b) <= a)
  BY DEF Tiled, Chain
<1> QED
  BY <1>1, <1>2

NodeFreed(s, N, t, M, node) ==
  /\ Tiled(t, M) /\ Joined(t, M) /\ Frame(s, N, t, M, node)
  /\ node \in M => ~ Used(t, node)
  /\ t.last = s.last \/ (~ Used(s, s.last) /\ ~ Used(t, t.last))

(* The second half of it, from node z, which is the one that is freed or a  *)
(* free one before it.                                                     *)
LEMMA FreedAndJoined ==
  ASSUME NEW s, NEW N, Tiled(s, N), NEW node \in N, node # s.last,
         NEW r, NEW K, Tiled(r, K), NEW z \in K, ~ Used(r, z), JoinedBut(r, K, z),
         K \subseteq N, z = node \/ ~ Used(s, z), z = node \/ node \notin K, z # s.last,
         r.first = s.first, r.last = s.last, r.ok = s.ok,
         \A b \in N : b # node /\ Used(s, b) => b \in K,
         \A c \in Place : c # node /\ c # z => r.word[c] = s.word[c]
  PROVE  \E M : NodeFreed(s, N, JoinNext(r, z), M, node)
<1>1. PICK M : NodeJoined(r, K, JoinNext(r, z), M, z)
  BY JoinNextEffect
<1> DEFINE t == JoinNext(r, z)
<1> HIDE DEF t
<1>2. /\ Tiled(t, M) /\ Joined(t, M) /\ z \in M /\ ~ Used(t, z) /\ M \subseteq K
      /\ t.first = r.first /\ t.ok = r.ok /\ \A b \in K : Used(r, b) => b \in M
      /\ \A c \in Place : c # z => t.word[c] = r.word[c]
      /\ t.last = r.last \/ (t.last = z /\ ~ Used(r, r.last))
  BY <1>1 DEF NodeJoined, t
<1>3. \A c \in N : c \in Place /\ c < s.first /\ c \in Area(s, c)
  BY TiledFacts DEF Area
<1>4. node \in Touched(s, N, node) /\ z \in Touched(s, N, node)
  BY <1>3 DEF Touched
<1>5. \A c \in Place : c # node /\ c # z => t.word[c] = s.word[c] /\ r.word[c] = s.word[c]
  BY <1>2
<1>6. \A b \in N \ {node} : Used(s, b) => b \in M
  <2>1. ASSUME NEW b \in N, b # node, Used(s, b) PROVE b \in M
    <3>1. b \in K /\ b \in Place /\ b # z
      BY <1>3, <2>1
    <3>2. Used(r, b)
      BY <1>5, <2>1, <3>1, SameWord DEF SameHead
    <3> QED
      BY <1>2, <3>1, <3>2
  <2> QED
    BY <2>1
<1>7. ASSUME NEW b \in M, b # node, Used(t, b) PROVE b \in N /\ Used(s, b)
  <2>1. b \in N /\ b # z /\ b \in Place
    BY <1>2, <1>3, <1>7
  <2> QED
    BY <1>5, <1>7, <2>1, SameWord DEF SameHead
<1>8. Frame(s, N, t, M, node)
  BY <1>2, <1>4, <1>5, <1>6, <1>7 DEF Frame
<1>9. node \in M => ~ Used(t, node)
  BY <1>2
<1>10. t.last = s.last \/ (~ Used(s, s.last) /\ ~ Used(t, t.last))
  <2>1. s.last \in Place
    BY <1>3 DEF Tiled, Chain
  <2>2. Used(r, r.last) = Used(s, s.last)
    BY <1>5, <2>1, SameWord DEF SameHead
  <2> QED
    BY <1>2, <2>2
<1> QED
  BY <1>2, <1>8, <1>9, <1>10 DEF NodeFreed, t

LEMMA FreeNode ==
  ASSUME NEW s, NEW N, Tiled(s, N), Joined(s, N), NEW node \in N, Used(s, node), node # s.last
  PROVE  \E M : NodeFreed(s, N, free_node(s, node), M, node)
<1> DEFINE s1 == Put(s, node, Head(FALSE, Length(s, node)))
           goal == {b \in Place : IsNode(s1, b) /\ NextOf(s1, b) = node}
           prev == Seek(s1, goal)
           l == Length(s1, prev) + Length(s1, node) + 1
           s2 == Put(s1, prev, Head(FALSE, l))
           t == free_node(s, node)
<1>1. /\ s \in Chunk /\ node \in Place /\ node \in Nat /\ Length(s, node) \in Nat
      /\ IsNode(s, node) /\ NextOf(s, node) = node + 1 + Length(s, node)
      /\ s.last \in N /\ s.last \in Place
      /\ NextOf(s, s.last) = s.first + 1 /\ Length(s, s.last) >= 1
  BY TiledFacts DEF Tiled
<1>2. FreePut(s, s1, node, Length(s, node))
  BY <1>1, PutFree
<1>3. /\ s1 \in Chunk /\ s1.last = s.last /\ s1.first = s.first /\ s1.ok = s.ok
      /\ IsNode(s1, node) /\ ~ Used(s1, node) /\ Length(s1, node) = Length(s, node)
      /\ NextOf(s1, node) = node + 1 + Length(s, node)
      /\ \A c \in Place : c # node => s1.word[c] = s.word[c]
  <2> HIDE DEF s1
  <2> QED
    BY <1>2 DEF FreePut, PutTo
<1> HIDE DEF s1
<1>4. t = IF node = 0 THEN s1
          ELSE IF prev = wild THEN Broken(s1)
          ELSE IF Used(s1, prev) THEN JoinNext(s1, node) ELSE JoinNext(s2, prev)
  BY <1>1, <1>3 DEF free_node, s1
<1>5. \A c \in N : /\ c \in Place /\ c \in Nat /\ IsNode(s, c)
                   /\ (c # node => s1.word[c] = s.word[c] /\ SameHead(s, s1, c))
  <2>1. \A c \in N : c \in Place /\ c \in Nat /\ IsNode(s, c)
    BY TiledFacts
  <2> QED
    BY <1>3, <2>1, SameWord
<1>6. \A c \in N : IsNode(s1, c) /\ Length(s1, c) = Length(s, c) /\ NextOf(s1, c) = NextOf(s, c)
  BY <1>1, <1>3, <1>5 DEF SameHead
<1>7. Tiled(s1, N)
  BY <1>3, <1>6, TiledKept
<1>8. CASE node = 0
  <2>1. Joined(s1, N)
    <3>1. ASSUME NEW a \in N, a # s1.last, a # 0, ~ Used(s1, a) PROVE Used(s1, NextOf(s1, a))
      <4>1. Used(s, NextOf(s, a)) /\ NextOf(s, a) \in N /\ NextOf(s, a) > 0
        BY <1>3, <1>5, <1>8, <3>1, TiledFacts DEF Joined, SameHead
      <4>2. NextOf(s1, a) = NextOf(s, a) /\ NextOf(s, a) # node
        BY <1>6, <1>8, <4>1
      <4> QED
        BY <1>5, <4>1, <4>2 DEF SameHead
    <3> QED
      BY <3>1 DEF Joined
  <2>2. Frame(s, N, s1, N, node)
    <3>1. node \in Touched(s, N, node)
      BY <1>1, TiledFacts DEF Touched, Area
    <3>2. \A b \in N \ {node} : Used(s1, b) => Used(s, b)
      BY <1>5 DEF SameHead
    <3> QED
      BY <1>3, <3>1, <3>2 DEF Frame
  <2>3. NodeFreed(s, N, s1, N, node)
    BY <1>3, <1>7, <2>1, <2>2 DEF NodeFreed
  <2> QED
    BY <1>4, <1>8, <2>3
<1>9. CASE node # 0
  <2>1. prev \in N /\ IsNode(s1, prev) /\ NextOf(s1, prev) = node
    <3>1. PICK b \in N : b # s1.last /\ NextOf(s1, b) = node
      BY <1>3, <1>7, <1>9, Predecessor DEF Tiled
    <3>2. b \in goal \cap N
      BY <1>5, <1>6, <3>1
    <3>3. goal \cap N # {}
      BY <3>2
    <3>4. prev \in goal \cap N
      <4> HIDE DEF goal
      <4> QED
        BY <1>3, <1>7, <3>3, SeekInChain DEF Tiled
    <3> QED
      BY <3>4
  <2> HIDE DEF prev
  <2>2. /\ prev \in Place /\ prev \in Nat /\ Length(s1, prev) \in Nat /\ prev # node /\ prev < node
        /\ NextOf(s, prev) = node /\ node = prev + 1 + Length(s1, prev)
        /\ prev # wild /\ prev # s.last
    <3>1. /\ prev \in Place /\ prev \in Nat /\ Length(s1, prev) \in Nat
          /\ NextOf(s1, prev) = prev + 1 + Length(s1, prev) /\ NextOf(s1, prev) = NextOf(s, prev)
      BY <1>6, <1>7, <2>1, TiledFacts
    <3>2. prev # node /\ prev < node /\ prev # wild
      BY <1>1, <2>1, <3>1 DEF wild
    <3>3. prev # s.last
      <4>1. node <= s.last /\ s.last \in Nat
        BY TiledFacts
      <4> QED
        BY <1>1, <3>1, <3>2, <4>1
    <3> QED
      BY <2>1, <3>1, <3>2, <3>3
  <2>3. ASSUME NEW a \in N, a # s.last, a # 0, a # node, a # prev, ~ Used(s1, a)
        PROVE  NextOf(s1, a) \in N /\ NextOf(s1, a) # node /\ NextOf(s1, a) = NextOf(s, a) /\ Used(s1, NextOf(s1, a))
    <3>1. ~ Used(s, a) /\ NextOf(s1, a) = NextOf(s, a)
      BY <1>5, <2>3 DEF SameHead
    <3>2. Used(s, NextOf(s, a)) /\ NextOf(s, a) \in N
      BY <2>3, <3>1, TiledFacts DEF Joined
    <3>3. NextOf(s, a) # node
      BY <2>1, <2>2, <2>3, OnePredecessor
    <3> QED
      BY <1>5, <3>1, <3>2, <3>3 DEF SameHead
  <2>4. CASE Used(s1, prev)
    <3>1. t = JoinNext(s1, node)
      BY <1>4, <1>9, <2>2, <2>4
    <3>2. JoinedBut(s1, N, node)
      BY <1>3, <2>3, <2>4 DEF JoinedBut
    <3>3. \A b \in N : b # node /\ Used(s, b) => b \in N
      OBVIOUS
    <3> HIDE DEF t
    <3>4. \E M : NodeFreed(s, N, JoinNext(s1, node), M, node)
      BY <1>3, <1>7, <3>2, <3>3, FreedAndJoined
    <3> QED
      BY <3>1, <3>4 DEF t
  <2>5. CASE ~ Used(s1, prev)
    <3>1. t = JoinNext(s2, prev)
      BY <1>4, <1>9, <2>2, <2>5
    <3>2. l \in Nat
      BY <1>1, <1>3, <2>2
    <3>3. FreePut(s1, s2, prev, l)
      <4> HIDE DEF l
      <4> QED
        BY <1>3, <2>2, <3>2, PutFree
    <3>4. /\ s2 \in Chunk /\ s2.last = s.last /\ s2.first = s.first /\ s2.ok = s.ok
          /\ IsNode(s2, prev) /\ ~ Used(s2, prev) /\ NextOf(s2, prev) = prev + 1 + l
          /\ \A c \in Place : c # prev => s2.word[c] = s1.word[c]
      <4> HIDE DEF s2, l
      <4> QED
        BY <1>3, <3>3 DEF FreePut, PutTo
    <3> DEFINE K == N \ {node}
    <3>5. NextOf(s2, prev) = NextOf(s1, node)
      <4> HIDE DEF s2, t
      <4> QED
        BY <1>1, <1>3, <2>2, <3>4
    <3> HIDE DEF s2, l, t
    <3>6. \A c \in N : c # prev => s2.word[c] = s1.word[c] /\ SameHead(s1, s2, c)
      BY <1>5, <3>4, SameWord
    <3>7. Chain(s2, K)
      <4>1. \A c \in N : c # prev /\ c # node => IsNode(s2, c) /\ NextOf(s2, c) = NextOf(s1, c)
        BY <1>6, <3>6 DEF SameHead
      <4>2. Chain(s1, N) /\ prev # s1.last /\ node = NextOf(s1, prev)
        BY <1>3, <1>7, <2>1, <2>2 DEF Tiled
      <4>3. s2.last = IF node = s1.last THEN prev ELSE s1.last
        BY <1>3, <3>4
      <4> QED
        BY <1>3, <2>1, <3>4, <3>5, <4>1, <4>2, <4>3, ChainJoin
    <3>8. Tiled(s2, K)
      <4>1. NextOf(s2, s2.last) = s2.first + 1 /\ Length(s2, s2.last) >= 1
        BY <1>1, <1>5, <2>2, <3>4, <3>6 DEF SameHead
      <4> QED
        BY <1>1, <3>4, <3>7, <4>1 DEF Tiled
    <3>9. JoinedBut(s2, K, prev)
      <4>1. ASSUME NEW a \in K, a # s2.last, a # 0, a # prev, ~ Used(s2, a)
            PROVE  Used(s2, NextOf(s2, a))
        <5>1. ~ Used(s1, a) /\ NextOf(s2, a) = NextOf(s1, a) /\ a \in N /\ a # node /\ a # s.last
          BY <3>4, <3>6, <4>1 DEF SameHead
        <5>2. NextOf(s1, a) \in N /\ Used(s1, NextOf(s1, a))
          BY <2>3, <4>1, <5>1
        <5>3. NextOf(s1, a) # prev
          BY <2>5, <5>2
        <5> QED
          BY <3>6, <5>1, <5>2, <5>3 DEF SameHead
      <4> QED
        BY <4>1 DEF JoinedBut
    <3>10. /\ prev \in K /\ K \subseteq N /\ ~ Used(s, prev) /\ node \notin K /\ prev # s.last
           /\ \A b \in N : b # node /\ Used(s, b) => b \in K
           /\ \A c \in Place : c # node /\ c # prev => s2.word[c] = s.word[c]
      BY <1>3, <1>5, <2>1, <2>2, <2>5, <3>4 DEF SameHead
    <3> HIDE DEF K
    <3>11. \E M : NodeFreed(s, N, JoinNext(s2, prev), M, node)
      BY <3>4, <3>8, <3>9, <3>10, FreedAndJoined
    <3> QED
      BY <3>1, <3>11 DEF t
  <2> QED
    BY <2>4, <2>5
<1> QED
  BY <1>8, <1>9

-----------------------------------------------------------------------------
(* find_free_node()                                                        *)

Found(s, N, n, a) ==
  a # wild /\ (a = none \/ (a \in N /\ ~ Used(s, a) /\ n <= Length(s, a)))

LEMMA FreeNodeFound ==
  ASSUME NEW s \in Chunk, NEW N, Chain(s, N), NEW n \in Nat
  PROVE  Found(s, N, n, find_free_node(s, n))
<1> DEFINE goal == {b \in Place : IsNode(s, b) /\ (Fits(s, b, n) \/ b = s.last)}
           found == Seek(s, goal)
<1>1. s.last \in goal \cap N
  BY DEF Chain
<1>2. found \in goal \cap N
  <2>1. goal \cap N # {}
    BY <1>1
  <2> HIDE DEF goal
  <2> QED
    BY <2>1, SeekInChain
<1>3. find_free_node(s, n) = IF found = wild THEN wild ELSE IF Fits(s, found, n) THEN found ELSE none
  BY DEF find_free_node
<1>4. found \in N /\ found \in Nat /\ found # wild /\ Length(s, found) \in Nat
  <2>1. found \in N
    BY <1>2
  <2> HIDE DEF found
  <2>2. found \in Nat /\ Length(s, found) \in Nat
    BY <2>1, NodeFacts DEF Chain
  <2> QED
    BY <2>1, <2>2 DEF wild
<1> HIDE DEF found
<1>5. Fits(s, found, n) => ~ Used(s, found) /\ n <= Length(s, found)
  BY <1>4 DEF Fits
<1>6. none # wild
  BY DEF none, wild
<1> QED
  BY <1>3, <1>4, <1>5, <1>6 DEF Found

-----------------------------------------------------------------------------
(* Blocks                                                                  *)

(* The slot c belongs to a block of k words, the first w of which hold what *)
(* the user of q wrote.                                                    *)
BlockAt(s, N, q, c, k, w) ==
  /\ c \in Slots(s)
  /\ \E a \in N :
       /\ s.word[c] = Slot(a) /\ Used(s, a) /\ Length(s, a) = k /\ a + k < s.first
       /\ \A i \in 1..w : s.word[a + i] = Data(q)

LEMMA BlockFramed ==
  ASSUME NEW s, NEW N, Tiled(s, N), NEW t, NEW M, NEW node \in N, Frame(s, N, t, M, node),
         NEW q, NEW c, NEW k, NEW w \in Nat, w <= k, BlockAt(s, N, q, c, k, w),
         s.word[c] # Slot(node)
  PROVE  BlockAt(t, M, q, c, k, w) /\ t.word[c] = s.word[c]
<1>1. PICK a \in N : /\ s.word[c] = Slot(a) /\ Used(s, a) /\ Length(s, a) = k /\ a + k < s.first
                     /\ \A i \in 1..w : s.word[a + i] = Data(q)
  BY DEF BlockAt
<1>2. a # node /\ c \in Slots(s)
  BY <1>1 DEF BlockAt
<1>3. /\ a \in Nat /\ k \in Nat /\ s.first \in Nat /\ s.first <= Words /\ Words \in Nat
  BY <1>1, TiledFacts
<1>4. /\ a \in M /\ SameHead(s, t, a)
      /\ \A d \in Area(s, a) : d \in Place => t.word[d] = s.word[d]
      /\ t.word[c] = s.word[c] /\ Slots(t) = Slots(s)
  BY <1>1, <1>2, FrameKeeps
<1>5. ASSUME NEW i \in 1..w PROVE t.word[a + i] = Data(q)
  <2>1. a + i \in Area(s, a) /\ a + i \in Place
    BY <1>1, <1>3 DEF Area, Place
  <2> QED
    BY <1>1, <1>4, <2>1
<1>6. Used(t, a) /\ Length(t, a) = k /\ a + k < t.first
  BY <1>1, <1>4 DEF SameHead, Frame
<1> QED
  BY <1>1, <1>2, <1>4, <1>5, <1>6 DEF BlockAt

(* Writing a slot changes neither a node nor another block.                *)
SlotPut(s, t, c, w) == c \in Slots(s) /\ PutTo(s, t, c, w)

LEMMA SlotPutKeeps ==
  ASSUME NEW s, NEW N, Tiled(s, N), NEW t, NEW c, NEW w, SlotPut(s, t, c, w)
  PROVE  /\ Tiled(t, N) /\ t.last = s.last /\ t.first = s.first /\ t.ok = s.ok
         /\ \A a \in N : SameHead(s, t, a)
         /\ Slots(t) = Slots(s) /\ t.word[c] = w
         /\ \A d \in Place : d # c => t.word[d] = s.word[d]
         /\ Joined(s, N) => Joined(t, N)
<1>1. /\ t \in Chunk /\ t.last = s.last /\ t.first = s.first /\ t.ok = s.ok
      /\ t.word[c] = w /\ \A d \in Place : d # c => t.word[d] = s.word[d]
  BY DEF SlotPut, PutTo
<1>2. \A a \in N : SameHead(s, t, a) /\ IsNode(s, a) /\ a \in N /\ (a # s.last => NextOf(s, a) \in N)
  <2>1. ASSUME NEW a \in N PROVE SameHead(s, t, a) /\ IsNode(s, a) /\ (a # s.last => NextOf(s, a) \in N)
    <3>1. /\ a \in Place /\ a \in Nat /\ a <= s.last /\ s.last < s.first /\ IsNode(s, a)
          /\ s.last \in Nat /\ s.first \in Nat /\ (a # s.last => NextOf(s, a) \in N)
      BY TiledFacts
    <3>2. a # c
      BY <3>1 DEF SlotPut, Slots
    <3> QED
      BY <1>1, <3>1, <3>2, SameWord
  <2> QED
    BY <2>1
<1>3. Tiled(t, N)
  BY <1>1, <1>2, TiledKept DEF SameHead
<1>4. Slots(t) = Slots(s)
  BY <1>1 DEF Slots
<1>5. Joined(s, N) => Joined(t, N)
  BY <1>1, <1>2 DEF Joined, SameHead
<1> QED
  BY <1>1, <1>2, <1>3, <1>4, <1>5

LEMMA BlockSlotPut ==
  ASSUME NEW s, NEW N, Tiled(s, N), NEW t, NEW e, NEW x, SlotPut(s, t, e, x),
         NEW q, NEW c, c # e, NEW k, NEW w \in Nat, w <= k, BlockAt(s, N, q, c, k, w)
  PROVE  BlockAt(t, N, q, c, k, w) /\ t.word[c] = s.word[c]
<1>1. PICK a \in N : /\ s.word[c] = Slot(a) /\ Used(s, a) /\ Length(s, a) = k /\ a + k < s.first
                     /\ \A i \in 1..w : s.word[a + i] = Data(q)
  BY DEF BlockAt
<1>2. /\ a \in Nat /\ k \in Nat /\ s.first \in Nat /\ s.first <= Words /\ Words \in Nat
  BY <1>1, TiledFacts
<1>3. /\ t.first = s.first /\ SameHead(s, t, a) /\ Slots(t) = Slots(s)
      /\ \A d \in Place : d # e => t.word[d] = s.word[d]
  BY SlotPutKeeps
<1>4. c \in Slots(s) /\ c \in Place
  <2>1. c \in Slots(s)
    BY DEF BlockAt
  <2> QED
    BY <1>2, <2>1 DEF Slots, Place
<1>5. ASSUME NEW i \in 1..w PROVE t.word[a + i] = Data(q)
  <2>1. a + i \in Place /\ a + i < s.first
    BY <1>1, <1>2 DEF Place
  <2>2. a + i # e
    BY <1>2, <2>1 DEF SlotPut, Slots
  <2> QED
    BY <1>1, <1>3, <2>1, <2>2
<1>6. Used(t, a) /\ Length(t, a) = k /\ a + k < t.first /\ t.word[c] = s.word[c]
  BY <1>1, <1>3, <1>4 DEF SameHead
<1> QED
  BY <1>1, <1>3, <1>4, <1>5, <1>6 DEF BlockAt

-----------------------------------------------------------------------------
(* The table                                                               *)

LEMMA LargestPlace ==
  ASSUME NEW S \in SUBSET Nat, S # {}, NEW top \in Nat, \A a \in S : a <= top
  PROVE  Largest(S) \in S
<1>1. \E a \in S : \A b \in S : b <= a
  BY GreatestPlace
<1> QED
  BY <1>1 DEF Largest

(* An unused slot is found where there is one.                             *)
LEMMA SlotFound ==
  ASSUME NEW s \in Chunk, Unused(s) # {}
  PROVE  Largest(Unused(s)) \in Unused(s)
<1>1. Unused(s) \in SUBSET Nat /\ \A a \in Unused(s) : a <= Words
  BY DEF Unused, Slots, Chunk
<1> QED
  BY <1>1, LargestPlace

(* The table grows or shrinks: chunk t has the nodes and blocks of s.      *)
TableMoved(s, N, t) ==
  /\ Tiled(t, N) /\ t.ok = s.ok /\ ~ Used(t, t.last) /\ (Joined(s, N) => Joined(t, N))
  /\ \A a \in N : Used(t, a) = Used(s, a)
  /\ \A c \in Slots(t) : t.word[c] = Zero \/ (c \in Slots(s) /\ t.word[c] = s.word[c])
  /\ \A q, c, k : \A w \in Nat :
       w <= k /\ BlockAt(s, N, q, c, k, w) => BlockAt(t, N, q, c, k, w) /\ t.word[c] = s.word[c]

(* The last node takes words of the table, or gives it some.               *)
LEMMA TableMoves ==
  ASSUME NEW s, NEW N, Tiled(s, N), ~ Used(s, s.last), NEW t \in Chunk,
         t.last = s.last, t.ok = s.ok, s.last < t.first,
         IsNode(t, s.last), ~ Used(t, s.last), Length(t, s.last) = t.first - s.last,
         \A c \in Place : c # s.last /\ (c < s.first => c < t.first) => t.word[c] = s.word[c],
         \A c \in Slots(s) : c \in Slots(t) \/ s.word[c] = Zero,
         \A c \in Slots(t) : c \in Slots(s) \/ t.word[c] = Zero
  PROVE  TableMoved(s, N, t)
<1> DEFINE last == s.last
<1>1. /\ s \in Chunk /\ last \in N /\ last \in Nat /\ last \in Place /\ s.first \in Nat
      /\ s.first <= Words /\ last < s.first /\ t.first \in Nat /\ t.first <= Words /\ Words \in Nat
      /\ Chain(s, N)
  <2>1. s.last \in N /\ s \in Chunk /\ Chain(s, N)
    BY DEF Tiled, Chain
  <2> QED
    BY <2>1, TiledFacts DEF Chunk
<1>2. ASSUME NEW a \in N, a # last
      PROVE  /\ a \in Place /\ a \in Nat /\ Length(s, a) \in Nat /\ a + Length(s, a) < last
             /\ \A i \in 0..Length(s, a) : t.word[a + i] = s.word[a + i]
             /\ SameHead(s, t, a) /\ IsNode(s, a) /\ NextOf(s, a) \in N
  <2>1. /\ a \in Place /\ a \in Nat /\ Length(s, a) \in Nat /\ a + Length(s, a) < last
        /\ IsNode(s, a) /\ NextOf(s, a) \in N
    <3>1. /\ a \in Place /\ a \in Nat /\ Length(s, a) \in Nat /\ NextOf(s, a) = a + 1 + Length(s, a)
          /\ NextOf(s, a) <= last /\ IsNode(s, a) /\ NextOf(s, a) \in N
      BY <1>2, TiledFacts
    <3> QED
      BY <1>1, <3>1
  <2>2. ASSUME NEW i \in 0..Length(s, a) PROVE t.word[a + i] = s.word[a + i]
    <3>1. a + i \in Place /\ a + i # last /\ a + i < t.first
      BY <1>1, <2>1 DEF Place
    <3> QED
      BY <3>1
  <2>3. t.word[a] = s.word[a]
    <3>1. a # last /\ a < t.first
      BY <1>1, <1>2, <2>1
    <3> QED
      BY <2>1, <3>1
  <2> QED
    BY <2>1, <2>2, <2>3, SameWord
<1>3. NextOf(t, last) = t.first + 1 /\ Length(t, last) >= 1
  BY <1>1 DEF NextOf
<1>4. Tiled(t, N)
  <2>1. \A a \in N : IsNode(t, a) /\ a <= t.last
    <3>1. \A a \in N : a <= s.last
      BY <1>1 DEF Chain
    <3> QED
      BY <1>2, <3>1 DEF SameHead
  <2>2. \A a \in N : a # t.last => NextOf(t, a) \in N
    BY <1>2 DEF SameHead
  <2>3. \A a, b \in N : a < b => NextOf(t, a) <= b
    <3>1. ASSUME NEW a \in N, NEW b \in N, a < b PROVE NextOf(t, a) <= b
      <4>1. a # last
        <5>1. b \in Nat /\ b <= last
          BY TiledFacts
        <5> QED
          BY <1>1, <3>1, <5>1
      <4> QED
        BY <1>1, <1>2, <3>1, <4>1 DEF SameHead, Chain
    <3> QED
      BY <3>1
  <2>4. Chain(t, N)
    BY <1>1, <2>1, <2>2, <2>3 DEF Chain
  <2> QED
    BY <1>3, <2>4 DEF Tiled
<1>5. \A a \in N : Used(t, a) = Used(s, a)
  <2>1. Used(t, last) \in BOOLEAN /\ Used(s, last) \in BOOLEAN
    BY <1>1, <1>4, TiledFacts
  <2> QED
    BY <1>2, <2>1 DEF SameHead
<1>6. Joined(s, N) => Joined(t, N)
  <2>1. SUFFICES ASSUME Joined(s, N), NEW a \in N, a # t.last, a # 0, ~ Used(t, a)
                 PROVE  Used(t, NextOf(t, a))
    BY DEF Joined
  <2>2. NextOf(t, a) = NextOf(s, a) /\ NextOf(s, a) \in N /\ Used(s, NextOf(s, a))
    BY <1>2, <1>5, <2>1 DEF SameHead, Joined
  <2> QED
    BY <1>5, <2>2
<1>7. ASSUME NEW q, NEW c, NEW k, NEW w \in Nat, w <= k, BlockAt(s, N, q, c, k, w)
      PROVE  BlockAt(t, N, q, c, k, w) /\ t.word[c] = s.word[c]
  <2>1. PICK a \in N : /\ s.word[c] = Slot(a) /\ Used(s, a) /\ Length(s, a) = k
                       /\ \A i \in 1..w : s.word[a + i] = Data(q)
    BY <1>7 DEF BlockAt
  <2>2. a # last /\ k \in Nat /\ a \in Nat /\ a + k < last /\ a \in Place
    BY <1>2, <2>1
  <2>3. c \in Slots(s) /\ s.word[c] # Zero
    BY <1>7, <2>1, <2>2, SlotWord DEF BlockAt
  <2>4. c \in Slots(t) /\ c \in Place /\ c # last /\ ~ (c < s.first)
    BY <1>1, <2>3 DEF Slots, Place
  <2>5. t.word[c] = s.word[c]
    BY <2>4
  <2>6. ASSUME NEW i \in 1..w PROVE t.word[a + i] = Data(q)
    <3>1. i \in 0..k /\ s.word[a + i] = Data(q)
      BY <1>7, <2>1, <2>2
    <3>2. t.word[a + i] = s.word[a + i]
      BY <1>2, <2>1, <2>2, <3>1
    <3> QED
      BY <3>1, <3>2
  <2>7. Used(t, a) /\ Length(t, a) = k /\ a + k < t.first
    BY <1>1, <1>2, <2>1, <2>2 DEF SameHead
  <2> QED
    BY <2>1, <2>4, <2>5, <2>6, <2>7 DEF BlockAt
<1>8. ASSUME NEW c \in Slots(t), t.word[c] # Zero PROVE c \in Slots(s) /\ t.word[c] = s.word[c]
  <2>1. c \in Slots(s)
    BY <1>8
  <2>2. c \in Place /\ c # last /\ ~ (c < s.first)
    BY <1>1, <2>1 DEF Slots, Place
  <2> QED
    BY <2>1, <2>2
<1> QED
  BY <1>4, <1>5, <1>6, <1>7, <1>8 DEF TableMoved

LEMMA PlaceFound ==
  ASSUME NEW s, NEW N, Tiled(s, N), ~ Used(s, s.last), ~ Overgrows(s)
  PROVE  TableMoved(s, N, place_ptr(s)) /\ Unused(place_ptr(s)) # {}
<1> DEFINE l == Length(s, s.last)
           s1 == IF l > 0 THEN Put(s, s.last, Head(FALSE, l - 1)) ELSE s
           s2 == [s1 EXCEPT !.first = @ - 1]
           t == Put(s2, s.first - 1, Zero)
<1>1. CASE Unused(s) # {}
  <2>1. place_ptr(s) = s
    BY <1>1 DEF place_ptr
  <2>2. TableMoved(s, N, s)
    BY DEF TableMoved, BlockAt
  <2> QED
    BY <1>1, <2>1, <2>2
<1>2. CASE Unused(s) = {}
  <2>1. /\ s \in Chunk /\ s.last \in N /\ s.last \in Place /\ s.last \in Nat /\ s.first \in Nat
        /\ s.first <= Words /\ l \in Nat /\ s.last + l = s.first
    <3>1. s.last \in N
      BY DEF Tiled, Chain
    <3> QED
      BY <3>1, TiledFacts
  <2>2. l > 1
    BY <1>2, <2>1 DEF Overgrows
  <2>3. s.first - 1 \in Place /\ s.first - 1 # s.last /\ l - 1 \in Nat /\ s.first - 1 \in 0..Words
    BY <2>1, <2>2 DEF Place
  <2>4. place_ptr(s) = t
    BY <1>2 DEF place_ptr
  <2> HIDE DEF l
  <2>5. FreePut(s, s1, s.last, l - 1)
    <3>1. FreePut(s, Put(s, s.last, Head(FALSE, l - 1)), s.last, l - 1)
      BY <2>1, <2>3, PutFree
    <3>2. s1 = Put(s, s.last, Head(FALSE, l - 1))
      <4>1. l > 0
        BY <2>1, <2>2
      <4> QED
        BY <4>1, Zenon
    <3> HIDE DEF s1
    <3> QED
      BY <3>1, <3>2
  <2> HIDE DEF s1
  <2>6. /\ s1 \in Chunk /\ s1.last = s.last /\ s1.first = s.first /\ s1.ok = s.ok
        /\ IsNode(s1, s.last) /\ ~ Used(s1, s.last) /\ Length(s1, s.last) = l - 1
        /\ \A c \in Place : c # s.last => s1.word[c] = s.word[c]
    BY <2>5 DEF FreePut, PutTo
  <2>7. /\ s2 \in Chunk /\ s2.last = s.last /\ s2.first = s.first - 1 /\ s2.ok = s.ok
        /\ s2.word = s1.word
    BY <2>3, <2>6 DEF Chunk
  <2> HIDE DEF s2
  <2>8. PutTo(s2, t, s.first - 1, Zero)
    BY <2>3, <2>7, PutEffect, ZeroWord
  <2> HIDE DEF t
  <2>9. /\ t \in Chunk /\ t.last = s.last /\ t.first = s.first - 1 /\ t.ok = s.ok
        /\ t.word[s.first - 1] = Zero
        /\ \A c \in Place : c # s.first - 1 => t.word[c] = s1.word[c]
    BY <2>7, <2>8 DEF PutTo
  <2>10. IsNode(t, s.last) /\ ~ Used(t, s.last) /\ Length(t, s.last) = l - 1
    <3>1. SameHead(s1, t, s.last)
      BY <2>1, <2>3, <2>9, SameWord
    <3> QED
      BY <2>6, <3>1 DEF SameHead
  <2>11. TableMoved(s, N, t)
    <3>1. \A c \in Place : c # s.last /\ (c < s.first => c < t.first) => t.word[c] = s.word[c]
      <4>1. \A c \in Place : (c < s.first => c < t.first) => c # s.first - 1
        BY <2>1, <2>3, <2>9
      <4> QED
        BY <2>6, <2>9, <4>1
    <3>2. \A c \in Slots(s) : c \in Slots(t)
      BY <2>1, <2>9 DEF Slots
    <3>3. s.last < t.first /\ l - 1 = t.first - s.last
      BY <2>1, <2>2, <2>9
    <3>4. \A c \in Slots(t) : c \in Slots(s) \/ t.word[c] = Zero
      BY <2>1, <2>9 DEF Slots
    <3> QED
      BY <2>1, <2>9, <2>10, <3>1, <3>2, <3>3, <3>4, TableMoves
  <2>12. s.first - 1 \in Unused(t)
    BY <2>1, <2>3, <2>9 DEF Unused, Slots, Place
  <2> QED
    BY <2>4, <2>11, <2>12
<1> QED
  BY <1>1, <1>2

LEMMA TableSqueezed ==
  ASSUME NEW s, NEW N, Tiled(s, N), ~ Used(s, s.last)
  PROVE  TableMoved(s, N, squeze_ptrs(s))
<1> DEFINE held == Slots(s) \ Unused(s)
           Bottom(a) == (a = Words \/ a \in held) /\ \A b \in s.first..(a - 1) : b \notin held
           first == CHOOSE a \in s.first..Words : Bottom(a)
           l == Length(s, s.last)
           n == first - s.first
           s1 == [s EXCEPT !.first = first]
           t == Put(s1, s.last, Head(FALSE, l + n))
<1>1. /\ s \in Chunk /\ s.last \in N /\ s.last \in Place /\ s.last \in Nat /\ s.first \in Nat
      /\ s.first <= Words /\ Words \in Nat /\ l \in Nat /\ s.last + l = s.first /\ s.last < s.first
      /\ IsNode(s, s.last) /\ Used(s, s.last) \in BOOLEAN
  <2>1. s.last \in N
    BY DEF Tiled, Chain
  <2> QED
    BY <2>1, TiledFacts
<1>2. \E a \in s.first..Words : Bottom(a)
  <2> DEFINE C == {a \in s.first..Words : a = Words \/ a \in held}
  <2>1. C \in SUBSET Nat /\ Words \in C
    BY <1>1
  <2>2. PICK a \in C : \A b \in C : a <= b
    <3> HIDE DEF C
    <3> QED
      BY <2>1, LeastNatural
  <2>3. a \in s.first..Words /\ (a = Words \/ a \in held) /\ a \in Nat
    BY <1>1
  <2>4. ASSUME NEW b \in s.first..(a - 1) PROVE b \notin held
    <3>1. b \in s.first..Words /\ ~ (a <= b)
      BY <1>1, <2>3
    <3>2. b \notin C
      <4> HIDE DEF C
      <4> QED
        BY <2>2, <3>1
    <3> QED
      BY <3>1, <3>2
  <2> QED
    BY <2>3, <2>4
<1>3. first \in s.first..Words /\ Bottom(first)
  <2> HIDE DEF held
  <2> QED
    BY <1>2
<1>4. squeze_ptrs(s) = t
  <2>1. squeze_ptrs(s) = Put(s1, s.last, Head(Used(s, s.last), l + n))
    BY <1>1 DEF squeze_ptrs
  <2>2. Used(s, s.last) = FALSE
    BY <1>1
  <2> HIDE DEF s1, l, n
  <2> QED
    BY <2>1, <2>2
<1> HIDE DEF first, held
<1>5. /\ s1 \in Chunk /\ s1.last = s.last /\ s1.first = first /\ s1.ok = s.ok /\ s1.word = s.word
  BY <1>1, <1>3 DEF Chunk
<1>6. l + n \in Nat /\ l + n = first - s.last /\ first \in Nat /\ s.first <= first
  BY <1>1, <1>3
<1> HIDE DEF s1
<1>7. FreePut(s1, t, s.last, l + n)
  <2> HIDE DEF l, n
  <2> QED
    BY <1>1, <1>5, <1>6, PutFree
<1> HIDE DEF t
<1>8. /\ t \in Chunk /\ t.last = s.last /\ t.first = first /\ t.ok = s.ok
      /\ IsNode(t, s.last) /\ ~ Used(t, s.last) /\ Length(t, s.last) = first - s.last
      /\ \A c \in Place : c # s.last => t.word[c] = s.word[c]
  <2> HIDE DEF l, n
  <2> QED
    BY <1>5, <1>6, <1>7 DEF FreePut, PutTo
<1>9. \A c \in Slots(s) : c \in Slots(t) \/ s.word[c] = Zero
  <2>1. ASSUME NEW c \in Slots(s), c \notin Slots(t) PROVE s.word[c] = Zero
    <3>1. c \in s.first..(first - 1)
      BY <1>1, <1>6, <1>8, <2>1 DEF Slots
    <3>2. c \notin held
      BY <1>3, <3>1
    <3> QED
      BY <2>1, <3>2 DEF held, Unused
  <2> QED
    BY <2>1
<1>10. s.last < t.first
  BY <1>1, <1>6, <1>8
<1>11. TableMoved(s, N, t)
  <2>1. \A c \in Slots(t) : c \in Slots(s)
    BY <1>1, <1>6, <1>8 DEF Slots
  <2> QED
    BY <1>8, <1>9, <1>10, <2>1, TableMoves
<1> QED
  BY <1>4, <1>11

-----------------------------------------------------------------------------
(* What holds between calls                                                *)

(* Slots are unused, or belong to a Pointer.                                *)
Owned(s, inn) == \A c \in Slots(s) : s.word[c] = Zero \/ \E q \in Handle : inn[q] = c

(* All Pointers q have their blocks, among the nodes N; nothing else is     *)
(* used.                                                                   *)
Good(s, N, inn, sz, wr) ==
  /\ Tiled(s, N) /\ Joined(s, N) /\ s.ok /\ ~ Used(s, s.last) /\ Owned(s, inn)
  /\ \A q \in Handle : wr[q] \in Nat /\ wr[q] <= sz[q]
  /\ \A q \in Handle : inn[q] # none => BlockAt(s, N, q, inn[q], sz[q], wr[q])
  /\ \A q, r \in Handle : inn[q] # none /\ inn[r] # none /\ q # r => s.word[inn[q]] # s.word[inn[r]]
  /\ \A a \in N : Used(s, a) => \E q \in Handle : inn[q] # none /\ s.word[inn[q]] = Slot(a)

(* In the midst of a call for p: all of it but for p, its block and the     *)
(* nodes X that the call is concerned with.                                *)
Others(s, N, inn, sz, wr, p, X) ==
  /\ Tiled(s, N) /\ Joined(s, N) /\ s.ok /\ Owned(s, inn)
  /\ \A q \in Handle : wr[q] \in Nat /\ wr[q] <= sz[q]
  /\ \A q \in Handle : inn[q] # none /\ q # p =>
       BlockAt(s, N, q, inn[q], sz[q], wr[q]) /\ \A x \in X : s.word[inn[q]] # Slot(x)
  /\ \A q, r \in Handle :
       inn[q] # none /\ inn[r] # none /\ q # p /\ r # p /\ q # r => s.word[inn[q]] # s.word[inn[r]]
  /\ \A a \in N : Used(s, a) /\ a \notin X =>
       \E q \in Handle : inn[q] # none /\ q # p /\ s.word[inn[q]] = Slot(a)

LEMMA SlotOf ==
  ASSUME NEW a \in Place, NEW b \in Place, Slot(a) = Slot(b)
  PROVE  a = b
<1>1. Slot(a).node = a /\ Slot(b).node = b
  BY SlotWord
<1> QED
  BY <1>1

LEMMA OthersOfEmpty ==
  ASSUME NEW s, NEW N, NEW inn, NEW sz, NEW wr, Good(s, N, inn, sz, wr), NEW p \in Handle, inn[p] = none
  PROVE  Others(s, N, inn, sz, wr, p, {})
<1>1. ASSUME NEW a \in N, Used(s, a)
      PROVE  \E q \in Handle : inn[q] # none /\ q # p /\ s.word[inn[q]] = Slot(a)
  BY <1>1 DEF Good
<1> QED
  BY <1>1 DEF Good, Others

LEMMA OthersOfHeld ==
  ASSUME NEW s, NEW N, NEW inn, NEW sz, NEW wr, Good(s, N, inn, sz, wr), NEW p \in Handle,
         inn[p] # none, NEW node \in N, s.word[inn[p]] = Slot(node)
  PROVE  Others(s, N, inn, sz, wr, p, {node})
<1>1. ASSUME NEW a \in N, Used(s, a), a # node
      PROVE  \E q \in Handle : inn[q] # none /\ q # p /\ s.word[inn[q]] = Slot(a)
  <2>1. PICK q \in Handle : inn[q] # none /\ s.word[inn[q]] = Slot(a)
    BY <1>1 DEF Good
  <2>2. a \in Place /\ node \in Place
    BY TiledFacts DEF Good
  <2>3. q # p
    BY <1>1, <2>1, <2>2, SlotOf
  <2> QED
    BY <2>1, <2>3
<1> QED
  BY <1>1 DEF Good, Others

(* A node that is free belongs to no block.                                *)
LEMMA OthersMore ==
  ASSUME NEW s, NEW N, NEW inn, NEW sz, NEW wr, NEW p, NEW X, Others(s, N, inn, sz, wr, p, X),
         NEW node \in N, ~ Used(s, node)
  PROVE  Others(s, N, inn, sz, wr, p, X \cup {node})
<1>1. ASSUME NEW q \in Handle, inn[q] # none, q # p PROVE s.word[inn[q]] # Slot(node)
  <2>1. PICK a \in N : s.word[inn[q]] = Slot(a) /\ Used(s, a)
    BY <1>1 DEF Others, BlockAt
  <2>2. a \in Place /\ node \in Place
    BY TiledFacts DEF Others
  <2> QED
    BY <2>1, <2>2, SlotOf
<1> QED
  BY <1>1 DEF Others

(* A node that is not used any more needs no care.                         *)
LEMMA OthersLess ==
  ASSUME NEW s, NEW N, NEW inn, NEW sz, NEW wr, NEW p, NEW X, Others(s, N, inn, sz, wr, p, X),
         NEW Y, Y \subseteq X, \A x \in X \ Y : x \in N => ~ Used(s, x)
  PROVE  Others(s, N, inn, sz, wr, p, Y)
BY DEF Others

LEMMA OthersFramed ==
  ASSUME NEW s, NEW N, NEW inn, NEW sz, NEW wr, NEW p, NEW X, Others(s, N, inn, sz, wr, p, X),
         NEW node \in N, node \in X, NEW t, NEW M, Frame(s, N, t, M, node), Tiled(t, M), Joined(t, M)
  PROVE  Others(t, M, inn, sz, wr, p, X)
<1>1. ASSUME NEW q \in Handle, inn[q] # none, q # p
      PROVE  /\ BlockAt(t, M, q, inn[q], sz[q], wr[q]) /\ t.word[inn[q]] = s.word[inn[q]]
             /\ \A x \in X : t.word[inn[q]] # Slot(x)
  <2>1. /\ Tiled(s, N) /\ BlockAt(s, N, q, inn[q], sz[q], wr[q]) /\ \A x \in X : s.word[inn[q]] # Slot(x)
        /\ wr[q] \in Nat /\ wr[q] <= sz[q]
    BY <1>1 DEF Others
  <2>2. s.word[inn[q]] # Slot(node)
    BY <2>1
  <2>3. BlockAt(t, M, q, inn[q], sz[q], wr[q]) /\ t.word[inn[q]] = s.word[inn[q]]
    BY <2>1, <2>2, BlockFramed
  <2> QED
    BY <2>1, <2>3
<1>2. ASSUME NEW a \in M, Used(t, a), a \notin X
      PROVE  \E q \in Handle : inn[q] # none /\ q # p /\ t.word[inn[q]] = Slot(a)
  <2>1. a \in N /\ Used(s, a)
    BY <1>2 DEF Frame
  <2>2. PICK q \in Handle : inn[q] # none /\ q # p /\ s.word[inn[q]] = Slot(a)
    BY <1>2, <2>1 DEF Others
  <2> QED
    BY <1>1, <2>2
<1>3. ASSUME NEW q \in Handle, NEW r \in Handle, inn[q] # none, inn[r] # none, q # p, r # p, q # r
      PROVE  t.word[inn[q]] # t.word[inn[r]]
  BY <1>1, <1>3 DEF Others
<1>4. t.ok /\ \A q \in Handle : wr[q] \in Nat /\ wr[q] <= sz[q]
  BY DEF Others, Frame
<1>5. Owned(t, inn)
  <2>1. (\A c \in Slots(s) : t.word[c] = s.word[c]) /\ Slots(t) = Slots(s)
    <3>1. Tiled(s, N)
      BY DEF Others
    <3> QED
      BY ONLY <3>1, node \in N, Frame(s, N, t, M, node), FrameKeeps
  <2> QED
    BY <2>1 DEF Others, Owned
<1> QED
  BY <1>1, <1>2, <1>3, <1>4, <1>5 DEF Others

LEMMA OthersSlotPut ==
  ASSUME NEW s, NEW N, NEW inn, NEW sz, NEW wr, NEW p, NEW X, Others(s, N, inn, sz, wr, p, X),
         NEW t, NEW c, NEW w, SlotPut(s, t, c, w), w = Zero \/ \E q \in Handle : inn[q] = c,
         \A q \in Handle : inn[q] # none /\ q # p => inn[q] # c
  PROVE  Others(t, N, inn, sz, wr, p, X)
<1>1. ASSUME NEW q \in Handle, inn[q] # none, q # p
      PROVE  /\ BlockAt(t, N, q, inn[q], sz[q], wr[q]) /\ t.word[inn[q]] = s.word[inn[q]]
             /\ \A x \in X : t.word[inn[q]] # Slot(x)
  <2>1. /\ Tiled(s, N) /\ BlockAt(s, N, q, inn[q], sz[q], wr[q]) /\ \A x \in X : s.word[inn[q]] # Slot(x)
        /\ wr[q] \in Nat /\ wr[q] <= sz[q] /\ inn[q] # c
    BY <1>1 DEF Others
  <2>2. BlockAt(t, N, q, inn[q], sz[q], wr[q]) /\ t.word[inn[q]] = s.word[inn[q]]
    BY <2>1, BlockSlotPut
  <2> QED
    BY <2>1, <2>2
<1>2. Tiled(t, N) /\ Joined(t, N) /\ t.ok /\ \A a \in N : SameHead(s, t, a)
  BY SlotPutKeeps DEF Others
<1>3. ASSUME NEW a \in N, Used(t, a), a \notin X
      PROVE  \E q \in Handle : inn[q] # none /\ q # p /\ t.word[inn[q]] = Slot(a)
  <2>1. Used(s, a)
    BY <1>2, <1>3 DEF SameHead
  <2>2. PICK q \in Handle : inn[q] # none /\ q # p /\ s.word[inn[q]] = Slot(a)
    BY <1>3, <2>1 DEF Others
  <2> QED
    BY <1>1, <2>2
<1>4. ASSUME NEW q \in Handle, NEW r \in Handle, inn[q] # none, inn[r] # none, q # p, r # p, q # r
      PROVE  t.word[inn[q]] # t.word[inn[r]]
  BY <1>1, <1>4 DEF Others
<1>5. \A q \in Handle : wr[q] \in Nat /\ wr[q] <= sz[q]
  BY DEF Others
<1>6. Owned(t, inn)
  <2>1. Slots(t) = Slots(s) /\ t.word[c] = w /\ \A d \in Place : d # c => t.word[d] = s.word[d]
    BY SlotPutKeeps DEF Others
  <2>2. \A d \in Slots(s) : d \in Place
    BY DEF Others, Tiled, Chunk, Slots, Place
  <2> QED
    BY <2>1, <2>2 DEF Others, Owned
<1> QED
  BY <1>1, <1>2, <1>3, <1>4, <1>5, <1>6 DEF Others

LEMMA OthersTable ==
  ASSUME NEW s, NEW N, NEW inn, NEW sz, NEW wr, NEW p, NEW X, Others(s, N, inn, sz, wr, p, X),
         NEW t, TableMoved(s, N, t)
  PROVE  Others(t, N, inn, sz, wr, p, X)
<1>1. ASSUME NEW q \in Handle, inn[q] # none, q # p
      PROVE  /\ BlockAt(t, N, q, inn[q], sz[q], wr[q]) /\ t.word[inn[q]] = s.word[inn[q]]
             /\ \A x \in X : t.word[inn[q]] # Slot(x)
  <2>1. /\ BlockAt(s, N, q, inn[q], sz[q], wr[q]) /\ \A x \in X : s.word[inn[q]] # Slot(x)
        /\ wr[q] \in Nat /\ wr[q] <= sz[q]
    BY <1>1 DEF Others
  <2>2. BlockAt(t, N, q, inn[q], sz[q], wr[q]) /\ t.word[inn[q]] = s.word[inn[q]]
    BY <2>1 DEF TableMoved
  <2> QED
    BY <2>1, <2>2
<1>2. Tiled(t, N) /\ Joined(t, N) /\ t.ok /\ \A a \in N : Used(t, a) = Used(s, a)
  BY DEF TableMoved, Others
<1>3. ASSUME NEW a \in N, Used(t, a), a \notin X
      PROVE  \E q \in Handle : inn[q] # none /\ q # p /\ t.word[inn[q]] = Slot(a)
  <2>1. PICK q \in Handle : inn[q] # none /\ q # p /\ s.word[inn[q]] = Slot(a)
    BY <1>2, <1>3 DEF Others
  <2> QED
    BY <1>1, <2>1
<1>4. ASSUME NEW q \in Handle, NEW r \in Handle, inn[q] # none, inn[r] # none, q # p, r # p, q # r
      PROVE  t.word[inn[q]] # t.word[inn[r]]
  BY <1>1, <1>4 DEF Others
<1>5. \A q \in Handle : wr[q] \in Nat /\ wr[q] <= sz[q]
  BY DEF Others
<1>6. Owned(t, inn)
  BY DEF Owned, Others, TableMoved
<1> QED
  BY <1>1, <1>2, <1>3, <1>4, <1>5, <1>6 DEF Others

(* Tables that differ for p only.                                          *)
But(p, inn, sz, wr, inn1, sz1, wr1) ==
  /\ \A q \in Handle : q # p => inn1[q] = inn[q] /\ sz1[q] = sz[q] /\ wr1[q] = wr[q]
  /\ wr1[p] \in Nat /\ wr1[p] <= sz1[p]

LEMMA NoneUnowned ==
  ASSUME NEW s, NEW N, Tiled(s, N)
  PROVE  none \notin Slots(s)
BY DEF Tiled, Chunk, Slots, none

(* What p had does not matter to the others.                               *)
LEMMA OthersBut ==
  ASSUME NEW s, NEW N, NEW inn, NEW sz, NEW wr, NEW p \in Handle, NEW X, Others(s, N, inn, sz, wr, p, X),
         NEW inn1, NEW sz1, NEW wr1, But(p, inn, sz, wr, inn1, sz1, wr1), inn[p] = none
  PROVE  Others(s, N, inn1, sz1, wr1, p, X)
<1>1. \A q \in Handle : q # p => inn1[q] = inn[q] /\ sz1[q] = sz[q] /\ wr1[q] = wr[q]
  BY DEF But
<1>2. \A q \in Handle : wr1[q] \in Nat /\ wr1[q] <= sz1[q]
  BY DEF But, Others
<1>3. Owned(s, inn1)
  <2>1. none \notin Slots(s) /\ Owned(s, inn)
    BY NoneUnowned DEF Others
  <2> QED
    BY <1>1, <2>1 DEF Owned
<1>4. ASSUME NEW a \in N, Used(s, a), a \notin X
      PROVE  \E q \in Handle : inn1[q] # none /\ q # p /\ s.word[inn1[q]] = Slot(a)
  BY <1>1, <1>4 DEF Others
<1>5. ASSUME NEW q \in Handle, inn1[q] # none, q # p
      PROVE  BlockAt(s, N, q, inn1[q], sz1[q], wr1[q]) /\ \A x \in X : s.word[inn1[q]] # Slot(x)
  BY <1>1, <1>5 DEF Others
<1>6. ASSUME NEW q \in Handle, NEW r \in Handle, inn1[q] # none, inn1[r] # none, q # p, r # p, q # r
      PROVE  s.word[inn1[q]] # s.word[inn1[r]]
  BY <1>1, <1>6 DEF Others
<1> QED
  BY <1>2, <1>3, <1>4, <1>5, <1>6 DEF Others

LEMMA GoodEmpty ==
  ASSUME NEW s, NEW N, NEW inn, NEW sz, NEW wr, NEW p \in Handle, Others(s, N, inn, sz, wr, p, {}),
         ~ Used(s, s.last), inn[p] \in Slots(s) => s.word[inn[p]] = Zero,
         NEW inn1, NEW sz1, NEW wr1, But(p, inn, sz, wr, inn1, sz1, wr1), inn1[p] = none
  PROVE  Good(s, N, inn1, sz1, wr1)
<1>1. \A q \in Handle : wr1[q] \in Nat /\ wr1[q] <= sz1[q]
  BY DEF But, Others
<1>2. ASSUME NEW q \in Handle, inn1[q] # none
      PROVE  q # p /\ inn1[q] = inn[q] /\ BlockAt(s, N, q, inn1[q], sz1[q], wr1[q])
  BY <1>2 DEF But, Others
<1>3. ASSUME NEW a \in N, Used(s, a)
      PROVE  \E q \in Handle : inn1[q] # none /\ s.word[inn1[q]] = Slot(a)
  BY <1>3 DEF But, Others
<1>4. Owned(s, inn1)
  <2>1. Owned(s, inn)
    BY DEF Others
  <2> QED
    BY <2>1 DEF But, Owned
<1> QED
  BY <1>1, <1>2, <1>3, <1>4 DEF Good, Others

LEMMA GoodHeld ==
  ASSUME NEW s, NEW N, NEW inn, NEW sz, NEW wr, NEW p \in Handle, NEW node \in N,
         Others(s, N, inn, sz, wr, p, {node}), ~ Used(s, s.last),
         NEW inn1, NEW sz1, NEW wr1, But(p, inn, sz, wr, inn1, sz1, wr1), inn1[p] = inn[p],
         s.word[inn1[p]] = Slot(node), BlockAt(s, N, p, inn1[p], sz1[p], wr1[p]), inn1[p] # none
  PROVE  Good(s, N, inn1, sz1, wr1)
<1>1. \A q \in Handle : wr1[q] \in Nat /\ wr1[q] <= sz1[q]
  BY DEF But, Others
<1>2. ASSUME NEW q \in Handle, inn1[q] # none
      PROVE  BlockAt(s, N, q, inn1[q], sz1[q], wr1[q])
  BY <1>2 DEF But, Others
<1>3. ASSUME NEW a \in N, Used(s, a)
      PROVE  \E q \in Handle : inn1[q] # none /\ s.word[inn1[q]] = Slot(a)
  <2>1. CASE a = node
    BY <2>1
  <2>2. CASE a # node
    <3>1. PICK q \in Handle : inn[q] # none /\ q # p /\ s.word[inn[q]] = Slot(a)
      BY <1>3, <2>2 DEF Others
    <3> QED
      BY <3>1 DEF But
  <2> QED
    BY <2>1, <2>2
<1>4. ASSUME NEW q \in Handle, NEW r \in Handle, inn1[q] # none, inn1[r] # none, q # r
      PROVE  s.word[inn1[q]] # s.word[inn1[r]]
  BY <1>4 DEF But, Others
<1>5. Owned(s, inn1)
  <2>1. Owned(s, inn)
    BY DEF Others
  <2>2. \A q \in Handle : inn1[q] = inn[q]
    BY DEF But
  <2> QED
    BY <2>1, <2>2 DEF Owned
<1> QED
  BY <1>1, <1>2, <1>3, <1>4, <1>5 DEF Good, Others

(* What alloc_node() leaves is below the table.                            *)
LEMMA RoomBelow ==
  ASSUME NEW s, NEW N, Tiled(s, N), NEW node \in N, NEW n \in Nat, n <= Length(s, node),
         ~ Overtakes(s, node, n)
  PROVE  node + n < s.first
<1>1. /\ node \in Nat /\ Length(s, node) \in Nat /\ s.last \in Nat /\ s.first \in Nat
      /\ NextOf(s, node) = node + 1 + Length(s, node) /\ s.last < s.first
      /\ node # s.last => NextOf(s, node) <= s.last
      /\ s.last + Length(s, s.last) = s.first
  BY TiledFacts
<1> QED
  BY <1>1 DEF Overtakes

LEMMA SameOvertakes ==
  ASSUME NEW s, NEW t, NEW a, SameHead(s, t, a), t.last = s.last, NEW n
  PROVE  Overtakes(t, a, n) <=> Overtakes(s, a, n)
BY DEF Overtakes, SameHead

(* alloc_node() for p, the slot of which already belongs to the node: its   *)
(* block is there.                                                         *)
LEMMA BlockAllocated ==
  ASSUME NEW s, NEW N, NEW inn, NEW sz, NEW wr, NEW p \in Handle, NEW node \in N,
         Others(s, N, inn, sz, wr, p, {node}), node = s.last \/ ~ Used(s, s.last),
         NEW n \in Nat, n <= Length(s, node), ~ Overtakes(s, node, n),
         NEW inn1, NEW sz1, NEW wr1, But(p, inn, sz, wr, inn1, sz1, wr1), inn1[p] = inn[p],
         inn1[p] \in Slots(s), inn1[p] # none, s.word[inn1[p]] = Slot(node), sz1[p] = n,
         \A i \in 1..wr1[p] : s.word[node + i] = Data(p)
  PROVE  \E M : Good(alloc_node(s, node, n), M, inn1, sz1, wr1)
<1> DEFINE t == alloc_node(s, node, n)
<1>1. Tiled(s, N) /\ Joined(s, N)
  BY DEF Others
<1>2. PICK M : NodeAllocated(s, N, t, M, node, n)
  <2> HIDE DEF t
  <2> QED
    BY <1>1, AllocNode DEF t
<1> HIDE DEF t
<1>3. /\ Tiled(t, M) /\ Joined(t, M) /\ node \in M /\ Used(t, node) /\ Length(t, node) = n
      /\ Frame(s, N, t, M, node) /\ \A i \in 1..n : t.word[node + i] = s.word[node + i]
      /\ ~ Used(t, t.last)
  BY <1>2 DEF NodeAllocated
<1>4. Others(t, M, inn, sz, wr, p, {node})
  BY <1>3, OthersFramed
<1>5. t.word[inn1[p]] = Slot(node) /\ inn1[p] \in Slots(t) /\ t.first = s.first
  <2>1. (\A c \in Slots(s) : t.word[c] = s.word[c]) /\ Slots(t) = Slots(s)
    BY ONLY <1>1, <1>3, node \in N, FrameKeeps
  <2> QED
    BY <1>3, <2>1 DEF Frame
<1>6. node + n < s.first
  BY <1>1, RoomBelow
<1>7. \A i \in 1..wr1[p] : t.word[node + i] = Data(p)
  <2>1. wr1[p] \in Nat /\ wr1[p] <= n
    BY DEF But
  <2>2. \A i \in 1..wr1[p] : i \in 1..n
    BY <2>1
  <2> QED
    BY <1>3, <2>2
<1>8. BlockAt(t, M, p, inn1[p], sz1[p], wr1[p])
  BY <1>3, <1>5, <1>6, <1>7 DEF BlockAt
<1>9. Good(t, M, inn1, sz1, wr1)
  BY <1>3, <1>4, <1>5, <1>8, GoodHeld
<1> QED
  BY <1>9 DEF t

LEMMA AllocGood ==
  ASSUME TypeOK, NEW N, Good(heap, N, inner, size, written),
         NEW p \in Handle, NEW n \in Sizes, Alloc(p, n), Undisturbed'
  PROVE  \E M : Good(heap', M, inner', size', written')
<1> DEFINE s == place_ptr(heap)
           slot == Largest(Unused(s))
           node == find_free_node(s, n)
           s1 == Put(s, slot, Slot(node))
<1>1. n \in Nat /\ inner[p] = none
  BY DEF Alloc
<1>2. /\ Tiled(heap, N) /\ heap.last \in N /\ IsNode(heap, heap.last) /\ ~ Used(heap, heap.last)
      /\ heap.first # 0
  <2>1. Tiled(heap, N) /\ heap.last \in N /\ ~ Used(heap, heap.last)
    BY DEF Good, Tiled, Chain
  <2>2. IsNode(heap, heap.last) /\ heap.last < heap.first /\ heap.last \in Nat
    BY <2>1, TiledFacts
  <2> QED
    BY <2>1, <2>2
<1>3. ~ PlaceAstray(heap)
  BY <1>2 DEF PlaceAstray
<1>4. IF node \in {none, wild}
      THEN /\ heap' = IF node = wild THEN Broken(s) ELSE s
           /\ After(Overgrows(heap))
           /\ UNCHANGED <<inner, size, written>>
      ELSE /\ heap' = alloc_node(s1, node, n)
           /\ inner' = [inner EXCEPT ![p] = slot]
           /\ size' = [size EXCEPT ![p] = n]
           /\ written' = [written EXCEPT ![p] = 0]
           /\ After(Overgrows(heap) \/ Overtakes(s, node, n))
  BY <1>3 DEF Alloc
<1> HIDE DEF s, slot, node, s1
<1>5. ~ Overgrows(heap) /\ (node \notin {none, wild} => ~ Overtakes(s, node, n))
  BY <1>4 DEF After, Undisturbed, TypeOK
<1>6. TableMoved(heap, N, s) /\ Unused(s) # {}
  BY <1>2, <1>5, PlaceFound DEF s
<1>7. Others(s, N, inner, size, written, p, {})
  <2>1. Others(heap, N, inner, size, written, p, {})
    BY <1>1, OthersOfEmpty
  <2> QED
    BY <1>6, <2>1, OthersTable
<1>8. Tiled(s, N) /\ s \in Chunk /\ ~ Used(s, s.last)
  BY <1>6 DEF TableMoved, Tiled
<1>9. Found(s, N, n, node)
  BY <1>1, <1>8, FreeNodeFound DEF node, Tiled
<1>10. CASE node = none
  <2>1. heap' = s /\ inner' = inner /\ size' = size /\ written' = written
    BY <1>4, <1>9, <1>10 DEF Found
  <2>2. But(p, inner, size, written, inner, size, written)
    BY DEF But, Good
  <2>3. inner[p] \notin Slots(s)
    BY <1>1, <1>8, NoneUnowned
  <2>4. Good(s, N, inner, size, written)
    BY <1>1, <1>7, <1>8, <2>2, <2>3, GoodEmpty
  <2> QED
    BY <2>1, <2>4
<1>11. CASE node # none
  <2>1. node \in N /\ ~ Used(s, node) /\ n <= Length(s, node) /\ node \notin {none, wild} /\ node \in Place
    BY <1>8, <1>9, <1>11, TiledFacts DEF Found
  <2>2. /\ heap' = alloc_node(s1, node, n) /\ inner' = [inner EXCEPT ![p] = slot]
        /\ size' = [size EXCEPT ![p] = n] /\ written' = [written EXCEPT ![p] = 0]
    BY <1>4, <2>1
  <2>3. slot \in Slots(s) /\ s.word[slot] = Zero /\ slot \in Place /\ slot # none
    <3>1. slot \in Unused(s)
      BY <1>6, <1>8, SlotFound DEF slot
    <3>2. slot \in Slots(s) /\ s.word[slot] = Zero
      BY <3>1 DEF Unused
    <3> QED
      BY <1>8, <3>2 DEF Slots, Chunk, Place, none
  <2>4. SlotPut(s, s1, slot, Slot(node))
    BY <1>8, <2>1, <2>3, SlotWord, PutEffect DEF SlotPut, s1
  <2>5. \A q \in Handle : inner[q] # none /\ q # p => inner[q] # slot
    <3>1. ASSUME NEW q \in Handle, inner[q] # none, q # p, inner[q] = slot PROVE FALSE
      <4>1. PICK a \in N : s.word[slot] = Slot(a)
        BY <1>7, <3>1 DEF Others, BlockAt
      <4>2. a \in Place
        BY <1>8, TiledFacts
      <4> QED
        BY <2>3, <4>1, <4>2, SlotWord
    <3> QED
      BY <3>1
  <2>6. Others(s, N, inner, size, written, p, {node})
    <3>1. Others(s, N, inner, size, written, p, {} \cup {node})
      BY <1>7, <2>1, OthersMore
    <3> QED
      BY <3>1
  <2>7. But(p, inner, size, written, inner', size', written') /\ inner'[p] = slot /\ size'[p] = n /\ written'[p] = 0
    BY <1>1, <2>2 DEF But, TypeOK
  <2>8. /\ SameHead(s, s1, node) /\ s1.last = s.last /\ ~ Used(s1, s1.last)
        /\ Slots(s1) = Slots(s) /\ s1.word[slot] = Slot(node)
    <3>1. s.last \in N
      BY <1>8 DEF Tiled, Chain
    <3> QED
      BY <1>8, <2>1, <2>4, <3>1, SlotPutKeeps DEF SameHead
  <2>9. ~ Overtakes(s1, node, n) /\ n <= Length(s1, node)
    BY <1>5, <2>1, <2>8, SameOvertakes DEF SameHead
  <2>10. Others(s1, N, inner', size', written', p, {node})
    <3>1. Others(s, N, inner', size', written', p, {node})
      BY <1>1, <2>6, <2>7, OthersBut
    <3>2. \A q \in Handle : inner'[q] # none /\ q # p => inner'[q] # slot
      BY <2>5, <2>7 DEF But
    <3>3. \E q \in Handle : inner'[q] = slot
      BY <2>7
    <3> QED
      BY <2>4, <3>1, <3>2, <3>3, OthersSlotPut
  <2>11. \A i \in 1..written'[p] : s1.word[node + i] = Data(p)
    BY <2>7
  <2> HIDE DEF Alloc
  <2>12. But(p, inner', size', written', inner', size', written')
    BY <2>7 DEF But
  <2>13. \E M : Good(alloc_node(s1, node, n), M, inner', size', written')
    BY ONLY <1>1, <2>1, <2>3, <2>7, <2>8, <2>9, <2>10, <2>11, <2>12, p \in Handle, BlockAllocated
  <2> QED
    BY <2>2, <2>13
<1> QED
  BY <1>10, <1>11

LEMMA HeldNode ==
  ASSUME NEW N, Good(heap, N, inner, size, written), NEW p \in Handle, inner[p] # none
  PROVE  /\ HasNode(p) /\ NodeOf(p) \in N /\ Used(heap, NodeOf(p))
         /\ inner[p] \in Slots(heap) /\ heap.word[inner[p]] = Slot(NodeOf(p))
         /\ Length(heap, NodeOf(p)) = size[p] /\ NodeOf(p) + size[p] < heap.first
         /\ written[p] \in Nat /\ written[p] <= size[p] /\ size[p] \in Nat
         /\ \A i \in 1..written[p] : heap.word[NodeOf(p) + i] = Data(p)
         /\ NodeOf(p) # heap.last
         /\ Others(heap, N, inner, size, written, p, {NodeOf(p)})
<1>1. PICK a \in N : /\ heap.word[inner[p]] = Slot(a) /\ Used(heap, a) /\ Length(heap, a) = size[p]
                     /\ a + size[p] < heap.first
                     /\ \A i \in 1..written[p] : heap.word[a + i] = Data(p)
  BY DEF Good, BlockAt
<1>2. a \in Place /\ IsNode(heap, a) /\ Length(heap, a) \in Nat
  BY TiledFacts DEF Good
<1>3. NodeOf(p) = a /\ IsSlot(heap.word[inner[p]])
  BY <1>1, <1>2, SlotWord DEF NodeOf
<1>4. HasNode(p)
  BY <1>2, <1>3 DEF HasNode
<1>5. Others(heap, N, inner, size, written, p, {a})
  BY <1>1, OthersOfHeld
<1>6. inner[p] \in Slots(heap) /\ written[p] \in Nat /\ written[p] <= size[p] /\ ~ Used(heap, heap.last)
  BY DEF Good, BlockAt
<1> QED
  BY <1>1, <1>2, <1>3, <1>4, <1>5, <1>6

LEMMA ShrinkGood ==
  ASSUME TypeOK, NEW N, Good(heap, N, inner, size, written),
         NEW p \in Handle, NEW n \in Sizes, Shrink(p, n), Undisturbed'
  PROVE  \E M : Good(heap', M, inner', size', written')
<1> DEFINE node == NodeOf(p)
<1>1. /\ n \in Nat /\ inner[p] # none /\ n <= Length(heap, node)
      /\ heap' = alloc_node(heap, node, n) /\ Resized(p, n) /\ ~ Overtakes(heap, node, n)
  <2>1. /\ n \in Nat /\ inner[p] # none /\ Length(heap, node) >= n
        /\ heap' = alloc_node(heap, node, n) /\ Resized(p, n) /\ After(Overtakes(heap, node, n))
    BY DEF Shrink, HasNode
  <2>2. ~ Overtakes(heap, node, n)
    BY <2>1 DEF After, Undisturbed, TypeOK
  <2>3. Length(heap, node) \in Nat
    BY <2>1, HeldNode
  <2> QED
    BY <2>1, <2>2, <2>3
<1> HIDE DEF node
<1>2. /\ node \in N /\ Used(heap, node) /\ inner[p] \in Slots(heap) /\ heap.word[inner[p]] = Slot(node)
      /\ \A i \in 1..written[p] : heap.word[node + i] = Data(p)
      /\ Others(heap, N, inner, size, written, p, {node})
      /\ written[p] \in Nat
  BY <1>1, HeldNode DEF node
<1>3. ~ Used(heap, heap.last)
  BY DEF Good
<1>4. /\ inner' = inner /\ size'[p] = n /\ written'[p] = Least(written[p], n)
      /\ But(p, inner, size, written, inner', size', written')
  BY <1>1, <1>2 DEF Resized, But, TypeOK, Least
<1>5. \A i \in 1..written'[p] : heap.word[node + i] = Data(p)
  BY <1>1, <1>2, <1>4 DEF Least
<1>6. /\ inner'[p] \in Slots(heap) /\ inner'[p] # none /\ heap.word[inner'[p]] = Slot(node)
  BY <1>1, <1>2, <1>4
<1>7. \E M : Good(alloc_node(heap, node, n), M, inner', size', written')
  BY ONLY <1>1, <1>2, <1>3, <1>4, <1>5, <1>6, p \in Handle, BlockAllocated
<1> QED
  BY <1>1, <1>7

LEMMA FreeGood ==
  ASSUME TypeOK, NEW N, Good(heap, N, inner, size, written), NEW p \in Handle, Free(p), Undisturbed'
  PROVE  \E M : Good(heap', M, inner', size', written')
<1> DEFINE node == NodeOf(p)
           s == free_node(heap, node)
           s1 == Put(s, inner[p], Zero)
           t == squeze_ptrs(s1)
<1>1. /\ inner[p] # none /\ heap' = t /\ inner' = [inner EXCEPT ![p] = none]
      /\ size' = [size EXCEPT ![p] = 0] /\ written' = [written EXCEPT ![p] = 0]
  BY DEF Free, HasNode
<1>2. /\ node \in N /\ Used(heap, node) /\ inner[p] \in Slots(heap) /\ heap.word[inner[p]] = Slot(node)
      /\ node # heap.last /\ Others(heap, N, inner, size, written, p, {node})
  BY <1>1, HeldNode
<1>3. Tiled(heap, N) /\ Joined(heap, N) /\ ~ Used(heap, heap.last)
  BY DEF Good
<1> HIDE DEF node
<1>4. PICK M : NodeFreed(heap, N, s, M, node)
  <2> HIDE DEF s
  <2> QED
    BY ONLY <1>2, <1>3, FreeNode DEF s
<1> HIDE DEF s
<1>5. /\ Tiled(s, M) /\ Joined(s, M) /\ Frame(heap, N, s, M, node) /\ (node \in M => ~ Used(s, node))
      /\ s.last = heap.last \/ ~ Used(s, s.last)
  BY <1>4 DEF NodeFreed
<1>6. ~ Used(s, s.last)
  <2>1. s.last \in M
    BY <1>5 DEF Tiled, Chain
  <2> QED
    BY <1>2, <1>3, <1>5, <2>1 DEF Frame
<1>7. Others(s, M, inner, size, written, p, {node})
  BY <1>2, <1>5, OthersFramed
<1>8. Others(s, M, inner, size, written, p, {})
  BY <1>5, <1>7, OthersLess
<1>9. SlotPut(s, s1, inner[p], Zero)
  <2>1. inner[p] \in Slots(s) /\ s \in Chunk
    BY <1>2, <1>5 DEF Slots, Frame, Tiled
  <2>2. inner[p] \in Place
    BY <1>1, <1>2 DEF TypeOK
  <2> QED
    BY <2>1, <2>2, PutEffect, ZeroWord DEF SlotPut
<1> HIDE DEF s1
<1>10. \A q \in Handle : inner[q] # none /\ q # p => inner[q] # inner[p]
  BY <1>1 DEF Good
<1>11. Others(s1, M, inner, size, written, p, {})
  BY <1>8, <1>9, <1>10, OthersSlotPut
<1>12. Tiled(s1, M) /\ ~ Used(s1, s1.last)
  <2>1. s.last \in M
    BY <1>5 DEF Tiled, Chain
  <2> QED
    BY <1>5, <1>6, <1>9, <2>1, SlotPutKeeps DEF SameHead
<1>13. TableMoved(s1, M, t)
  BY <1>12, TableSqueezed
<1> HIDE DEF t
<1>14. Others(t, M, inner, size, written, p, {}) /\ ~ Used(t, t.last)
  BY <1>11, <1>13, OthersTable DEF TableMoved
<1>15. But(p, inner, size, written, inner', size', written') /\ inner'[p] = none
  BY <1>1 DEF But, TypeOK
<1>16. inner[p] \in Slots(t) => t.word[inner[p]] = Zero
  BY <1>9, <1>13 DEF SlotPut, PutTo, TableMoved
<1>17. Good(t, M, inner', size', written')
  BY <1>14, <1>15, <1>16, GoodEmpty
<1> QED
  BY <1>1, <1>17

LEMMA WriteGood ==
  ASSUME TypeOK, NEW N, Good(heap, N, inner, size, written), NEW p \in Handle, Write(p), Undisturbed'
  PROVE  Good(heap', N, inner', size', written')
<1> DEFINE node == NodeOf(p)
           t == [heap EXCEPT !.word =
                   [b \in Place |-> IF b \in (node + 1)..(node + size[p]) THEN Data(p) ELSE @[b]]]
<1>1. /\ inner[p] # none /\ inner' = inner /\ size' = size /\ written' = [written EXCEPT ![p] = size[p]]
      /\ heap' = IF node + size[p] \notin Place THEN Broken(heap) ELSE t
  BY DEF Write, Gets, HasNode
<1>2. /\ node \in N /\ Used(heap, node) /\ inner[p] \in Slots(heap) /\ heap.word[inner[p]] = Slot(node)
      /\ Length(heap, node) = size[p] /\ node + size[p] < heap.first /\ size[p] \in Nat
      /\ node # heap.last /\ Others(heap, N, inner, size, written, p, {node})
  BY <1>1, HeldNode
<1>3. Tiled(heap, N) /\ Joined(heap, N) /\ ~ Used(heap, heap.last)
  BY DEF Good
<1> HIDE DEF node
<1>4. /\ heap \in Chunk /\ node \in Nat /\ heap.first \in Nat /\ heap.first <= Words /\ IsNode(heap, node)
      /\ \A a \in N : a \in Place /\ IsNode(heap, a) /\ a \in Area(heap, a)
  BY <1>2, <1>3, TiledFacts DEF Area
<1>5. heap' = t
  BY <1>1, <1>2, <1>4 DEF Place
<1>6. /\ t.last = heap.last /\ t.first = heap.first /\ t.ok = heap.ok
      /\ \A c \in Place : t.word[c] = IF c \in (node + 1)..(node + size[p]) THEN Data(p) ELSE heap.word[c]
  BY <1>4 DEF Chunk
<1>7. t \in Chunk
  <2>1. Data(p) \in Word
    BY DataWord
  <2> QED
    BY <1>4, <2>1 DEF Chunk
<1> HIDE DEF t
<1>8. \A a \in N : t.word[a] = heap.word[a] /\ SameHead(heap, t, a)
  <2>1. ASSUME NEW a \in N PROVE t.word[a] = heap.word[a]
    <3>1. a \notin (node + 1)..(node + size[p])
      <4>1. CASE a = node
        BY <1>4, <4>1
      <4>2. CASE a # node
        <5>1. a \notin Area(heap, node)
          BY <1>2, <1>3, <1>4, <4>2, AreasDisjoint
        <5> QED
          BY <1>2, <1>4, <5>1 DEF Area
      <4> QED
        BY <4>1, <4>2
    <3> QED
      BY <1>4, <1>6, <3>1
  <2> QED
    BY <2>1, SameWord
<1>9. Tiled(t, N)
  BY <1>3, <1>4, <1>6, <1>7, <1>8, TiledKept DEF SameHead
<1>10. Joined(t, N)
  BY <1>3, <1>6, <1>8, TiledFacts DEF Joined, SameHead
<1>11. Frame(heap, N, t, N, node)
  <2>1. \A c \in Place \ Touched(heap, N, node) : c \notin (node + 1)..(node + size[p])
    BY <1>2, <1>4 DEF Touched, Area
  <2> QED
    BY <1>6, <1>8, <2>1 DEF Frame, SameHead
<1>12. Others(t, N, inner, size, written, p, {node})
  BY <1>2, <1>9, <1>10, <1>11, OthersFramed
<1>13. ~ Used(t, t.last)
  <2>1. heap.last \in N
    BY <1>3 DEF Tiled, Chain
  <2> QED
    BY <1>3, <1>6, <1>8, <2>1 DEF SameHead
<1>14. But(p, inner, size, written, inner', size', written') /\ inner'[p] = inner[p] /\ size'[p] = size[p]
       /\ written'[p] = size[p]
  BY <1>1, <1>2 DEF But, TypeOK
<1>15. \A i \in 1..size[p] : t.word[node + i] = Data(p)
  <2>1. \A i \in 1..size[p] : node + i \in Place /\ node + i \in (node + 1)..(node + size[p])
    BY <1>2, <1>4 DEF Place
  <2> QED
    BY <1>6, <2>1
<1>16. t.word[inner[p]] = Slot(node) /\ inner[p] \in Slots(t)
  <2>1. (\A c \in Slots(heap) : t.word[c] = heap.word[c]) /\ Slots(t) = Slots(heap)
    BY ONLY <1>2, <1>3, <1>11, FrameKeeps
  <2> QED
    BY <1>2, <2>1
<1>17. BlockAt(t, N, p, inner'[p], size'[p], written'[p])
  <2>1. Used(t, node) /\ Length(t, node) = size[p] /\ node + size[p] < t.first
    BY <1>2, <1>6, <1>8 DEF SameHead
  <2> QED
    BY <1>2, <1>14, <1>15, <1>16, <2>1 DEF BlockAt
<1>18. Good(t, N, inner', size', written')
  BY <1>1, <1>2, <1>12, <1>13, <1>14, <1>16, <1>17, GoodHeld
<1> QED
  BY <1>5, <1>18

(* realloc(): the words are copied to a free node, which is used then.      *)
Carried(s, N, t, dst, n) ==
  /\ Tiled(t, N) /\ Joined(t, N) /\ t.last = s.last /\ t.first = s.first
  /\ Used(t, dst) /\ Length(t, dst) = Length(s, dst)
  /\ \A a \in N : a # dst => SameHead(s, t, a)
  /\ \A c \in Place : c \notin dst..(dst + n) => t.word[c] = s.word[c]

(* All words arrive, if there is room for them.                            *)
Delivered(s, t, from, dst, n) ==
  dst + n \in Place =>
    /\ t.ok = s.ok
    /\ \A i \in 1..n : from + i \in Place => t.word[dst + i] = s.word[from + i]

CarriedTo(s, from, dst, n) == Put(Copied(s, from + 1, dst + 1, n), dst, Head(TRUE, Length(s, dst)))

CopyTo(s, t, from, to, n) ==
  /\ t \in Chunk /\ t.last = s.last /\ t.first = s.first
  /\ \A c \in Place : c \notin to..(to + n - 1) => t.word[c] = s.word[c]
  /\ to \in Place /\ to + n - 1 \in Place =>
       /\ t.ok = s.ok
       /\ \A c \in to..(to + n - 1) : from + c - to \in Place => t.word[c] = s.word[from + c - to]

LEMMA CopiedEffect ==
  ASSUME NEW s \in Chunk, NEW from \in Nat, NEW to \in Nat, NEW n \in Nat
  PROVE  CopyTo(s, Copied(s, from, to, n), from, to, n)
<1> DEFINE word == [a \in Place |-> IF a \notin to..(to + n - 1) THEN s.word[a]
                                    ELSE IF from + a - to \in Place THEN s.word[from + a - to]
                                    ELSE Data(NULL)]
           t == [s EXCEPT !.word = word]
<1>1. Copied(s, from, to, n) = IF n = 0 THEN s ELSE IF ~ {to, to + n - 1} \subseteq Place THEN Broken(s) ELSE t
  BY DEF Copied
<1>2. CASE n = 0
  <2>1. to..(to + n - 1) = {}
    BY <1>2
  <2> QED
    BY <1>1, <1>2, <2>1 DEF CopyTo
<1>3. CASE n # 0 /\ ~ {to, to + n - 1} \subseteq Place
  BY <1>1, <1>3 DEF CopyTo, Broken, Chunk
<1>4. CASE n # 0 /\ {to, to + n - 1} \subseteq Place
  <2>1. word \in [Place -> Word]
    <3>1. Data(NULL) \in Word
      BY DataWord
    <3> QED
      BY <3>1 DEF Chunk
  <2>2. \A c \in to..(to + n - 1) : c \in Place
    BY <1>4 DEF Place
  <2>3. /\ \A c \in Place : c \notin to..(to + n - 1) => word[c] = s.word[c]
        /\ \A c \in to..(to + n - 1) : from + c - to \in Place => word[c] = s.word[from + c - to]
    BY <2>2
  <2> HIDE DEF word
  <2>4. t \in Chunk /\ t.last = s.last /\ t.first = s.first /\ t.ok = s.ok /\ t.word = word
    BY <2>1 DEF Chunk
  <2>5. Copied(s, from, to, n) = t
    BY <1>1, <1>4
  <2> HIDE DEF t
  <2> QED
    BY <2>3, <2>4, <2>5 DEF CopyTo
<1> QED
  BY <1>2, <1>3, <1>4

LEMMA CarriedEffect ==
  ASSUME NEW s, NEW N, Tiled(s, N), Joined(s, N), NEW from \in N, NEW dst \in N, ~ Used(s, dst),
         NEW n \in Nat, n <= Length(s, dst), n > 0
  PROVE  /\ Carried(s, N, CarriedTo(s, from, dst, n), dst, n)
         /\ Delivered(s, CarriedTo(s, from, dst, n), from, dst, n)
<1> DEFINE s1 == Copied(s, from + 1, dst + 1, n)
           t == Put(s1, dst, Head(TRUE, Length(s, dst)))
<1>1. /\ s \in Chunk /\ from \in Nat /\ dst \in Nat /\ dst \in Place /\ Length(s, dst) \in Nat
      /\ s.first \in Nat /\ s.first <= Words /\ Words \in Nat
      /\ \A a \in N : a \in Place /\ a \in Nat /\ IsNode(s, a) /\ a \in Area(s, a)
  BY TiledFacts DEF Area
<1>2. from + 1 \in Nat /\ dst + 1 \in Nat /\ (dst + 1) + n - 1 = dst + n
  BY <1>1
<1>3. /\ s1 \in Chunk /\ s1.last = s.last /\ s1.first = s.first
      /\ \A c \in Place : c \notin (dst + 1)..(dst + n) => s1.word[c] = s.word[c]
      /\ dst + 1 \in Place /\ dst + n \in Place =>
           /\ s1.ok = s.ok
           /\ \A c \in (dst + 1)..(dst + n) : (from + 1) + c - (dst + 1) \in Place =>
                s1.word[c] = s.word[(from + 1) + c - (dst + 1)]
  <2>1. CopyTo(s, s1, from + 1, dst + 1, n)
    BY <1>1, <1>2, CopiedEffect
  <2> HIDE DEF s1
  <2> QED
    BY <1>2, <2>1 DEF CopyTo
<1> HIDE DEF s1
<1>4. UsedPut(s1, t, dst, Length(s, dst))
  BY <1>1, <1>3, PutUsed
<1> HIDE DEF t
<1>5. /\ t \in Chunk /\ t.last = s.last /\ t.first = s.first /\ t.ok = s1.ok
      /\ IsNode(t, dst) /\ Used(t, dst) /\ Length(t, dst) = Length(s, dst)
      /\ \A c \in Place : c # dst => t.word[c] = s1.word[c]
  BY <1>3, <1>4 DEF UsedPut, PutTo
<1>6. \A c \in Place : c \notin dst..(dst + n) => t.word[c] = s.word[c]
  <2>1. \A c \in Place : c \notin dst..(dst + n) => c # dst /\ c \notin (dst + 1)..(dst + n)
    BY <1>1
  <2> QED
    BY <1>3, <1>5, <2>1
<1>7. \A a \in N : a # dst => SameHead(s, t, a)
  <2>1. ASSUME NEW a \in N, a # dst PROVE SameHead(s, t, a)
    <3>1. a \notin Area(s, dst)
      BY <1>1, <2>1, AreasDisjoint
    <3>2. a \notin dst..(dst + n)
      BY <1>1, <3>1 DEF Area
    <3> QED
      BY <1>1, <1>6, <3>2, SameWord
  <2> QED
    BY <2>1
<1>8. Tiled(t, N)
  BY <1>1, <1>5, <1>7, TiledKept DEF SameHead
<1>9. ASSUME NEW a \in N, a # t.last, a # 0, ~ Used(t, a) PROVE Used(t, NextOf(t, a))
  <2>1. a # dst /\ ~ Used(s, a) /\ NextOf(t, a) = NextOf(s, a) /\ a # s.last
    BY <1>5, <1>7, <1>9 DEF SameHead
  <2>2. Used(s, NextOf(s, a)) /\ NextOf(s, a) \in N
    BY <1>9, <2>1, TiledFacts DEF Joined
  <2> QED
    BY <1>5, <1>7, <2>1, <2>2 DEF SameHead
<1>10. Carried(s, N, t, dst, n)
  BY <1>5, <1>6, <1>7, <1>8, <1>9 DEF Carried, Joined
<1>11. ASSUME dst + n \in Place
       PROVE  /\ t.ok = s.ok
              /\ \A i \in 1..n : from + i \in Place => t.word[dst + i] = s.word[from + i]
  <2>1. dst + 1 \in Place /\ dst + n \in Place
    BY <1>1, <1>11 DEF Place
  <2>2. ASSUME NEW i \in 1..n, from + i \in Place PROVE t.word[dst + i] = s.word[from + i]
    <3>1. /\ dst + i \in (dst + 1)..(dst + n) /\ dst + i # dst /\ dst + i \in Place
          /\ (from + 1) + (dst + i) - (dst + 1) = from + i
      BY <1>1, <1>11 DEF Place
    <3> QED
      BY <1>3, <1>5, <2>1, <2>2, <3>1
  <2> QED
    BY <1>3, <1>5, <2>1, <2>2
<1>12. CarriedTo(s, from, dst, n) = t
  BY DEF CarriedTo, t, s1
<1> QED
  BY <1>10, <1>11, <1>12 DEF Delivered

LEMMA MoveGood ==
  ASSUME TypeOK, NEW N, Good(heap, N, inner, size, written),
         NEW p \in Handle, NEW n \in Sizes, Move(p, n), Undisturbed'
  PROVE  \E M : Good(heap', M, inner', size', written')
<1> DEFINE node == NodeOf(p)
           dst == find_free_node(heap, n)
           s2 == CarriedTo(heap, node, dst, n)
           s3 == free_node(s2, node)
           s4 == alloc_node(s3, dst, n)
           t == Put(s4, inner[p], Slot(dst))
<1>1. /\ n \in Nat /\ inner[p] # none /\ Length(heap, node) < n
      /\ Astray(node) \/ dst # none
      /\ IF Astray(node) \/ dst = wild
         THEN heap' = Broken(heap) /\ UNCHANGED <<inner, size, written>> /\ After(FALSE)
         ELSE heap' = t /\ After(Overtakes(s3, dst, n)) /\ Resized(p, n)
  BY DEF Move, HasNode, CarriedTo
<1> HIDE DEF dst, node
<1>2. /\ node \in N /\ Used(heap, node) /\ inner[p] \in Slots(heap) /\ heap.word[inner[p]] = Slot(node)
      /\ Length(heap, node) = size[p] /\ node + size[p] < heap.first /\ size[p] \in Nat
      /\ written[p] \in Nat /\ written[p] <= size[p]
      /\ \A i \in 1..written[p] : heap.word[node + i] = Data(p)
      /\ node # heap.last /\ Others(heap, N, inner, size, written, p, {node})
  BY <1>1, HeldNode DEF node
<1>3. Tiled(heap, N) /\ Joined(heap, N) /\ ~ Used(heap, heap.last) /\ heap.ok
  BY DEF Good
<1>4. ~ Astray(node)
  BY <1>2, <1>3 DEF Astray, Tiled, Chain
<1>5. dst \in N /\ ~ Used(heap, dst) /\ n <= Length(heap, dst) /\ dst # wild /\ dst # node
  <2>1. Found(heap, N, n, dst)
    BY <1>1, <1>3, FreeNodeFound DEF dst, Tiled
  <2> QED
    BY <1>1, <1>2, <1>4, <2>1 DEF Found
<1>6. heap' = t /\ Resized(p, n) /\ ~ Overtakes(s3, dst, n)
  <2>1. heap' = t /\ After(Overtakes(s3, dst, n)) /\ Resized(p, n)
    BY <1>1, <1>4, <1>5
  <2> HIDE DEF s3
  <2> QED
    BY <2>1 DEF After, Undisturbed, TypeOK
<1>7. /\ heap \in Chunk /\ node \in Nat /\ dst \in Nat /\ dst \in Place /\ heap.first \in Nat
      /\ heap.first <= Words /\ Length(heap, dst) \in Nat /\ n > 0
      /\ dst \in Area(heap, dst)
  <2>1. n > 0
    BY <1>1, <1>2
  <2> QED
    BY <1>2, <1>3, <1>5, <2>1, TiledFacts DEF Area
<1>8. Carried(heap, N, s2, dst, n) /\ Delivered(heap, s2, node, dst, n)
  BY <1>1, <1>2, <1>3, <1>5, <1>7, CarriedEffect
<1> HIDE DEF s2
<1>9. /\ Tiled(s2, N) /\ Joined(s2, N) /\ s2.last = heap.last /\ s2.first = heap.first
      /\ Used(s2, dst) /\ Length(s2, dst) = Length(heap, dst)
      /\ \A a \in N : a # dst => SameHead(heap, s2, a)
      /\ \A c \in Place : c \notin dst..(dst + n) => s2.word[c] = heap.word[c]
  BY <1>8 DEF Carried
<1>10. Used(s2, node) /\ node # s2.last
  BY <1>2, <1>5, <1>9 DEF SameHead
<1>11. PICK M : NodeFreed(s2, N, s3, M, node)
  <2> HIDE DEF s3
  <2> QED
    BY ONLY <1>2, <1>9, <1>10, FreeNode DEF s3
<1> HIDE DEF s3
<1>12. /\ Tiled(s3, M) /\ Joined(s3, M) /\ Frame(s2, N, s3, M, node) /\ (node \in M => ~ Used(s3, node))
       /\ s3.last = s2.last \/ ~ Used(s3, s3.last)
  BY <1>11 DEF NodeFreed
<1>13. /\ dst \in M /\ SameHead(s2, s3, dst) /\ s3.first = heap.first /\ s3.ok = s2.ok
       /\ \A c \in Area(s2, dst) : c \in Place => s3.word[c] = s2.word[c]
  <2>1. /\ dst \in M /\ SameHead(s2, s3, dst)
        /\ \A c \in Area(s2, dst) : c \in Place => s3.word[c] = s2.word[c]
    BY ONLY <1>2, <1>5, <1>9, <1>12, FrameKeeps
  <2> QED
    BY <1>9, <1>12, <2>1 DEF Frame
<1>14. n <= Length(s3, dst)
  BY <1>5, <1>9, <1>13 DEF SameHead
<1>15. dst + n < heap.first
  <2>1. dst + n < s3.first
    BY <1>1, <1>6, <1>12, <1>13, <1>14, RoomBelow
  <2> QED
    BY <1>13, <2>1
<1>16. /\ s2.ok = heap.ok
       /\ \A i \in 1..n : node + i \in Place => s2.word[dst + i] = heap.word[node + i]
  <2>1. dst + n \in Place
    BY <1>1, <1>7, <1>15 DEF Place
  <2> QED
    BY <1>8, <2>1 DEF Delivered
<1>17. Frame(heap, N, s2, N, dst)
  <2>1. \A c \in dst..(dst + n) : c \in Place => c \in Touched(heap, N, dst)
    BY <1>1, <1>5, <1>7, <1>15 DEF Touched, Area
  <2> QED
    BY <1>9, <1>16, <2>1 DEF Frame, SameHead
<1>18. Others(s2, N, inner, size, written, p, {node, dst})
  <2>1. Others(heap, N, inner, size, written, p, {node} \cup {dst})
    BY <1>2, <1>5, OthersMore
  <2>2. {node} \cup {dst} = {node, dst}
    OBVIOUS
  <2>3. Others(heap, N, inner, size, written, p, {node, dst})
    BY <2>1, <2>2
  <2>4. dst \in {node, dst}
    OBVIOUS
  <2> QED
    BY <1>5, <1>9, <1>17, <2>3, <2>4, OthersFramed
<1>19. Others(s3, M, inner, size, written, p, {dst})
  <2>1. node \in {node, dst} /\ {dst} \subseteq {node, dst}
        /\ \A x \in {node, dst} \ {dst} : x \in M => ~ Used(s3, x)
    BY <1>12
  <2>2. Others(s3, M, inner, size, written, p, {node, dst})
    BY <1>2, <1>12, <1>18, <2>1, OthersFramed
  <2> QED
    BY <2>1, <2>2, OthersLess
<1>20. PICK K : NodeAllocated(s3, M, s4, K, dst, n)
  <2> HIDE DEF s4
  <2> QED
    BY ONLY <1>1, <1>6, <1>12, <1>13, <1>14, AllocNode DEF s4
<1> HIDE DEF s4
<1>21. /\ Tiled(s4, K) /\ Joined(s4, K) /\ dst \in K /\ Used(s4, dst) /\ Length(s4, dst) = n
       /\ Frame(s3, M, s4, K, dst) /\ \A i \in 1..n : s4.word[dst + i] = s3.word[dst + i]
       /\ ~ Used(s4, s4.last)
  <2>1. dst = s3.last \/ ~ Used(s3, s3.last)
    <3>1. CASE s3.last = s2.last /\ dst # s2.last
      <4>1. ~ Used(s2, s2.last)
        BY <1>3, <1>9, <3>1, TiledFacts DEF SameHead, Tiled, Chain
      <4>2. s3.last \in M /\ s2.last # node
        BY <1>10, <1>12 DEF Tiled, Chain
      <4> QED
        BY <1>12, <3>1, <4>1, <4>2 DEF Frame
    <3> QED
      BY <1>12, <3>1
  <2> QED
    BY <1>20, <2>1 DEF NodeAllocated
<1>22. Others(s4, K, inner, size, written, p, {dst})
  <2>1. dst \in {dst}
    OBVIOUS
  <2> QED
    BY <1>13, <1>19, <1>21, <2>1, OthersFramed
<1>23. SlotPut(s4, t, inner[p], Slot(dst))
  <2>1. inner[p] \in Slots(s4) /\ s4 \in Chunk
    BY <1>2, <1>13, <1>21 DEF Slots, Frame, Tiled
  <2>2. inner[p] \in Place
    BY <1>1 DEF TypeOK
  <2> QED
    BY <1>7, <2>1, <2>2, SlotWord, PutEffect DEF SlotPut
<1> HIDE DEF t
<1>24. Others(t, K, inner, size, written, p, {dst})
  <2>1. \A q \in Handle : inner[q] # none /\ q # p => inner[q] # inner[p]
    BY <1>1 DEF Good
  <2> QED
    BY <1>22, <1>23, <2>1, OthersSlotPut
<1>25. /\ t.last = s4.last /\ t.first = heap.first /\ \A a \in K : SameHead(s4, t, a)
       /\ Slots(t) = Slots(s4) /\ t.word[inner[p]] = Slot(dst)
       /\ \A d \in Place : d # inner[p] => t.word[d] = s4.word[d]
  BY <1>13, <1>21, <1>23, SlotPutKeeps DEF Frame
<1>26. ~ Used(t, t.last)
  BY <1>21, <1>25 DEF SameHead, Tiled, Chain
<1>27. /\ inner' = inner /\ size'[p] = n /\ written'[p] = written[p]
       /\ But(p, inner, size, written, inner', size', written')
  BY <1>1, <1>2, <1>6 DEF Resized, But, TypeOK, Least
<1>28. \A i \in 1..written[p] : t.word[dst + i] = Data(p)
  <2>1. ASSUME NEW i \in 1..written[p] PROVE t.word[dst + i] = Data(p)
    <3>1. /\ i \in 1..n /\ node + i \in Place /\ dst + i \in Place /\ dst + i \in Area(s2, dst)
          /\ dst + i < heap.first
      BY <1>1, <1>2, <1>5, <1>7, <1>9, <1>15 DEF Place, Area
    <3>2. dst + i # inner[p]
      BY <1>2, <1>7, <3>1 DEF Slots
    <3>3. t.word[dst + i] = s3.word[dst + i]
      BY <1>21, <1>25, <3>1, <3>2
    <3>4. s3.word[dst + i] = heap.word[node + i]
      BY <1>13, <1>16, <3>1
    <3> QED
      BY <1>2, <3>3, <3>4
  <2> QED
    BY <2>1
<1>29. BlockAt(t, K, p, inner'[p], size'[p], written'[p])
  <2>1. Used(t, dst) /\ Length(t, dst) = n /\ dst + n < t.first
    BY <1>15, <1>21, <1>25 DEF SameHead
  <2>2. inner[p] \in Slots(t)
    BY <1>2, <1>25 DEF Slots
  <2> QED
    BY <1>21, <1>25, <1>27, <1>28, <2>1, <2>2 DEF BlockAt
<1>30. t.word[inner'[p]] = Slot(dst) /\ inner'[p] # none
  BY <1>1, <1>25, <1>27
<1>31. Good(t, K, inner', size', written')
  BY ONLY p \in Handle, <1>21, <1>24, <1>26, <1>27, <1>29, <1>30, GoodHeld
<1> QED
  BY <1>6, <1>31

-----------------------------------------------------------------------------
(* Types: whatever a call meets, it leaves a chunk behind                  *)

LEMMA HeadPutType ==
  ASSUME NEW s \in Chunk, NEW a, NEW l \in Nat
  PROVE  /\ Put(s, a, Head(FALSE, l)) \in Chunk
         /\ Put(s, a, Head(TRUE, l)) \in Chunk
         /\ a \in Place => IsNode(Put(s, a, Head(FALSE, l)), a)
<1>1. Head(FALSE, l) \in Word /\ Head(TRUE, l) \in Word
  BY HeadWord
<1>2. a \in Place => IsNode(Put(s, a, Head(FALSE, l)), a)
  BY PutFree DEF FreePut
<1> QED
  BY <1>1, <1>2, PutChunk

LEMMA LastType ==
  ASSUME NEW s \in Chunk, NEW a \in Nat
  PROVE  /\ [s EXCEPT !.last = a] \in Chunk
         /\ \A b : IsNode([s EXCEPT !.last = a], b) <=> IsNode(s, b)
BY DEF Chunk, IsNode

LEMMA SeekType ==
  ASSUME NEW s, NEW goal
  PROVE  Seek(s, goal) \in goal \cup {wild}
<1> DEFINE path == Path(s)
           M == {k \in 0..Words : path[k] \in goal}
           First(n) == n \in 0..Words /\ path[n] \in goal /\ \A j \in 0..(n - 1) : ~ (path[j] \in goal)
<1>1. CASE M = {}
  BY <1>1 DEF Seek
<1>2. CASE M # {}
  <2>1. M \in SUBSET Nat
    OBVIOUS
  <2>2. PICK m \in M : \A n \in M : m <= n
    <3> HIDE DEF M
    <3> QED
      BY <1>2, <2>1, LeastNatural
  <2>3. First(m)
    <3>1. m \in 0..Words /\ path[m] \in goal
      OBVIOUS
    <3>2. ASSUME NEW j \in 0..(m - 1) PROVE path[j] \notin goal
      <4>1. j \in 0..Words /\ ~ (m <= j)
        BY <3>1
      <4>2. j \notin M
        <5> HIDE DEF M
        <5> QED
          BY <2>2, <4>1
      <4> QED
        BY <4>1, <4>2
    <3> QED
      BY <3>1, <3>2
  <2> DEFINE e == CHOOSE n \in 0..Words : path[n] \in goal /\ \A j \in 0..(n - 1) : ~ (path[j] \in goal)
  <2>4. First(e)
    <3>1. \E n \in 0..Words : path[n] \in goal /\ \A j \in 0..(n - 1) : ~ (path[j] \in goal)
      BY <2>3
    <3> QED
      BY <3>1
  <2>5. Seek(s, goal) = path[e]
    <3>1. ~ \A n \in 0..Words : ~ (path[n] \in goal)
      BY <2>3
    <3> QED
      BY <3>1 DEF Seek
  <2> HIDE DEF e
  <2> QED
    BY <2>4, <2>5
<1> QED
  BY <1>1, <1>2

LEMMA FoundType ==
  ASSUME NEW s \in Chunk, NEW n \in Nat
  PROVE  LET a == find_free_node(s, n)
         IN a \notin {none, wild} => IsNode(s, a) /\ a \in Place /\ n <= Length(s, a)
<1> DEFINE goal == {b \in Place : IsNode(s, b) /\ (Fits(s, b, n) \/ b = s.last)}
           found == Seek(s, goal)
<1>1. found \in goal \cup {wild}
  <2> HIDE DEF goal
  <2> QED
    BY SeekType
<1>2. find_free_node(s, n) = IF found = wild THEN wild ELSE IF Fits(s, found, n) THEN found ELSE none
  BY DEF find_free_node
<1>3. found # wild => found \in Place /\ IsNode(s, found)
  BY <1>1
<1> HIDE DEF found
<1>4. found # wild /\ Fits(s, found, n) => n <= Length(s, found)
  BY <1>3, NodeFacts DEF Fits
<1> QED
  BY <1>2, <1>3, <1>4

(* Chunk t is s but for the places X.                                      *)
Same(s, t, X) == \A d \in Place : d \notin X => t.word[d] = s.word[d]

LEMMA SameTrans ==
  ASSUME NEW s, NEW t, NEW u, NEW X, NEW Y, Same(s, t, X), Same(t, u, Y)
  PROVE  Same(s, u, X \cup Y)
BY DEF Same

LEMMA PutSame ==
  ASSUME NEW s \in Chunk, NEW a, NEW w
  PROVE  Same(s, Put(s, a, w), {a}) /\ Put(s, a, w).last = s.last /\ Put(s, a, w).first = s.first
BY DEF Put, Same, Broken, Chunk

(* A node is used for n of l words: its head is written, and that of the    *)
(* rest, if there is one.                                                  *)
Cuts(node, n, l) == {node} \cup {b \in {node + n + 1} : n < l}

NodeTaken(s, t, node, n, l) ==
  /\ t \in Chunk /\ t.first = s.first /\ Same(s, t, Cuts(node, n, l))
  /\ IsNode(t, node) /\ Used(t, node) /\ Length(t, node) = n /\ NextOf(t, node) = node + 1 + n

LEMMA HeadPutSame ==
  ASSUME NEW s \in Chunk, NEW a, NEW l \in Nat
  PROVE  /\ Put(s, a, Head(FALSE, l)) \in Chunk /\ Put(s, a, Head(FALSE, l)).first = s.first
         /\ Same(s, Put(s, a, Head(FALSE, l)), {a})
BY HeadPutType, PutSame

LEMMA LastSame ==
  ASSUME NEW s \in Chunk, NEW a \in Nat
  PROVE  [s EXCEPT !.last = a] \in Chunk /\ [s EXCEPT !.last = a].first = s.first
         /\ [s EXCEPT !.last = a].word = s.word
BY DEF Chunk

LEMMA BrokenSame ==
  ASSUME NEW s \in Chunk
  PROVE  Broken(s) \in Chunk /\ Broken(s).first = s.first /\ Broken(s).word = s.word
BY DEF Chunk, Broken

(* The last write, that of the head.                                       *)
LEMMA TakenLast ==
  ASSUME NEW s, NEW u \in Chunk, NEW node \in Place, NEW n \in Nat, NEW l, u.first = s.first,
         Same(s, u, Cuts(node, n, l))
  PROVE  NodeTaken(s, Put(u, node, Head(TRUE, n)), node, n, l)
<1> DEFINE t == Put(u, node, Head(TRUE, n))
<1>1. UsedPut(u, t, node, n)
  BY PutUsed
<1> HIDE DEF t
<1>2. t \in Chunk /\ t.first = s.first /\ \A b \in Place : b # node => t.word[b] = u.word[b]
  BY <1>1 DEF UsedPut, PutTo
<1>3. node \in Cuts(node, n, l)
  BY DEF Cuts
<1>4. Same(s, t, Cuts(node, n, l))
  BY <1>2, <1>3 DEF Same
<1>5. NodeTaken(s, t, node, n, l)
  BY <1>1, <1>2, <1>4 DEF NodeTaken, UsedPut
<1> QED
  BY <1>5 DEF t

LEMMA AllocNodeTakes ==
  ASSUME NEW s \in Chunk, NEW node, IsNode(s, node), NEW n \in Nat
  PROVE  NodeTaken(s, alloc_node(s, node, n), node, n, Length(s, node))
<1> DEFINE tail == node + n + 1
           rest == Length(s, node) - n
           after == tail + rest
           s1 == Put(s, tail, Head(FALSE, rest - 1))
           s2 == IF node = s.last THEN [s1 EXCEPT !.last = tail]
                 ELSE IF ~ IsNode(s1, after) THEN Broken(s1)
                 ELSE IF Used(s1, after) THEN s1
                 ELSE Put(s1, tail, Head(FALSE, rest + Length(s1, after)))
           X == Cuts(node, n, Length(s, node))
           Fine(u) == u \in Chunk /\ u.first = s.first /\ Same(s, u, X)
<1>1. node \in Nat /\ node \in Place /\ Length(s, node) \in Nat /\ tail \in Nat /\ rest \in Int
  BY NodeFacts
<1>2. alloc_node(s, node, n) = Put(IF rest > 0 THEN s2 ELSE s, node, Head(TRUE, n))
  BY DEF alloc_node
<1>3. rest > 0 => tail \in X
  BY <1>1 DEF Cuts
<1> HIDE DEF X
<1>4. ASSUME rest > 0 PROVE Fine(s2)
  <2>1. rest - 1 \in Nat
    BY <1>1, <1>4
  <2>2. tail \in X
    BY <1>3, <1>4
  <2> HIDE DEF rest, tail, after
  <2>3. s1 \in Chunk /\ s1.first = s.first /\ Same(s, s1, {tail})
    BY <2>1, HeadPutSame
  <2> HIDE DEF s1
  <2>4. Fine(s1)
    BY <2>2, <2>3 DEF Same
  <2>5. CASE node = s.last
    <3>1. Fine([s1 EXCEPT !.last = tail])
      BY <1>1, <2>4, LastSame DEF Same
    <3> QED
      BY <2>5, <3>1
  <2>6. CASE node # s.last /\ ~ IsNode(s1, after)
    <3>1. Fine(Broken(s1))
      BY <2>4, BrokenSame DEF Same
    <3> QED
      BY <2>6, <3>1
  <2>7. CASE node # s.last /\ IsNode(s1, after)
    <3>1. rest + Length(s1, after) \in Nat
      BY <1>1, <1>4, <2>3, <2>7, NodeFacts
    <3> DEFINE u == Put(s1, tail, Head(FALSE, rest + Length(s1, after)))
    <3>2. u \in Chunk /\ u.first = s1.first /\ Same(s1, u, {tail})
      BY <2>3, <3>1, HeadPutSame
    <3> HIDE DEF u
    <3>3. Fine(u)
      BY <2>2, <2>4, <3>2 DEF Same
    <3> QED
      BY <2>4, <2>7, <3>3 DEF u
  <2> QED
    BY <2>5, <2>6, <2>7
<1> DEFINE s3 == IF rest > 0 THEN s2 ELSE s
<1>5. Fine(s3)
  <2>1. Fine(s)
    BY DEF Same
  <2> HIDE DEF s2, rest, Fine
  <2> QED
    BY <1>4, <2>1
<1> HIDE DEF s3
<1>6. NodeTaken(s, Put(s3, node, Head(TRUE, n)), node, n, Length(s, node))
  BY <1>1, <1>5, TakenLast DEF X
<1> QED
  BY <1>2, <1>6 DEF s3

LEMMA ReallocNodeTakes ==
  ASSUME NEW s \in Chunk, NEW node, IsNode(s, node), IsNode(s, NextOf(s, node)), NEW n \in Nat
  PROVE  NodeTaken(s, realloc_node(s, node, n), node, n, Length(s, node) + Length(s, NextOf(s, node)))
<1> DEFINE tail == node + n + 1
           rest == Length(s, node) + Length(s, NextOf(s, node)) - n
           s1 == Put(s, tail, Head(FALSE, rest - 1))
           s2 == IF NextOf(s, node) = s.last THEN [s1 EXCEPT !.last = tail] ELSE s1
           s3 == IF rest > 0 THEN s2 ELSE s
           l == Length(s, node) + Length(s, NextOf(s, node))
           X == Cuts(node, n, l)
           Fine(u) == u \in Chunk /\ u.first = s.first /\ Same(s, u, X)
<1>1. node \in Nat /\ node \in Place /\ l \in Nat /\ tail \in Nat /\ rest \in Int /\ rest = l - n
  <2>1. node \in Nat /\ node \in Place /\ Length(s, node) \in Nat /\ Length(s, NextOf(s, node)) \in Nat
    BY NodeFacts
  <2> QED
    BY <2>1
<1>2. realloc_node(s, node, n) = Put(s3, node, Head(TRUE, n))
  BY DEF realloc_node
<1> HIDE DEF l, rest
<1>3. rest > 0 => tail \in X
  BY <1>1 DEF Cuts
<1> HIDE DEF X
<1>4. ASSUME rest > 0 PROVE Fine(s2)
  <2>1. rest - 1 \in Nat
    BY <1>1, <1>4
  <2>2. tail \in X
    BY <1>3, <1>4
  <2> HIDE DEF tail
  <2>3. s1 \in Chunk /\ s1.first = s.first /\ Same(s, s1, {tail})
    BY <2>1, HeadPutSame
  <2> HIDE DEF s1
  <2>4. Fine(s1)
    BY <2>2, <2>3 DEF Same
  <2>5. Fine([s1 EXCEPT !.last = tail])
    BY <1>1, <2>4, LastSame DEF Same
  <2> QED
    BY <2>4, <2>5
<1>5. Fine(s3)
  <2>1. Fine(s)
    BY DEF Same
  <2> HIDE DEF s2, rest, Fine
  <2> QED
    BY <1>4, <2>1
<1> HIDE DEF s3
<1>6. NodeTaken(s, Put(s3, node, Head(TRUE, n)), node, n, l)
  BY <1>1, <1>5, TakenLast DEF X
<1> QED
  BY <1>2, <1>6 DEF s3, l

LEMMA AllocNodeType ==
  ASSUME NEW s \in Chunk, NEW node, NEW n \in Nat
  PROVE  alloc_node(s, node, n) \in Chunk
<1>1. CASE ~ IsNode(s, node)
  BY <1>1, BrokenChunk DEF alloc_node
<1>2. CASE IsNode(s, node)
  BY <1>2, AllocNodeTakes DEF NodeTaken
<1> QED
  BY <1>1, <1>2

LEMMA ReallocNodeType ==
  ASSUME NEW s \in Chunk, NEW node, IsNode(s, node), IsNode(s, NextOf(s, node)), NEW n \in Nat
  PROVE  realloc_node(s, node, n) \in Chunk
BY ReallocNodeTakes DEF NodeTaken

LEMMA JoinNextType ==
  ASSUME NEW s \in Chunk, NEW node, IsNode(s, node)
  PROVE  JoinNext(s, node) \in Chunk
<1> DEFINE next == NextOf(s, node)
           s1 == IF next = s.last THEN [s EXCEPT !.last = node] ELSE s
           l == Length(s, node) + Length(s, next) + 1
<1>1. CASE node = s.last \/ ~ IsNode(s, next) \/ Used(s, next)
  BY <1>1, BrokenChunk DEF JoinNext
<1>2. CASE node # s.last /\ IsNode(s, next) /\ ~ Used(s, next)
  <2>1. JoinNext(s, node) = Put(s1, node, Head(FALSE, l))
    BY <1>2 DEF JoinNext
  <2>2. node \in Nat /\ l \in Nat
    <3>1. node \in Nat /\ Length(s, node) \in Nat /\ Length(s, next) \in Nat
      BY <1>2, NodeFacts
    <3> QED
      BY <3>1
  <2>3. s1 \in Chunk
    <3> HIDE DEF next
    <3> QED
      BY <2>2, LastType
  <2> HIDE DEF s1, l
  <2> QED
    BY <2>1, <2>2, <2>3, HeadPutType
<1> QED
  BY <1>1, <1>2

LEMMA FreeNodeType ==
  ASSUME NEW s \in Chunk, NEW node
  PROVE  free_node(s, node) \in Chunk
<1> DEFINE s1 == Put(s, node, Head(FALSE, Length(s, node)))
           goal == {b \in Place : IsNode(s1, b) /\ NextOf(s1, b) = node}
           prev == Seek(s1, goal)
           s0 == IF node = s1.last THEN [s1 EXCEPT !.last = prev] ELSE s1
           l == Length(s1, prev) + Length(s1, node) + 1
           s2 == Put(s0, prev, Head(FALSE, l))
<1>1. CASE ~ IsNode(s, node)
  BY <1>1, BrokenChunk DEF free_node
<1>2. CASE IsNode(s, node)
  <2>1. node \in Place /\ Length(s, node) \in Nat
    BY <1>2, NodeFacts
  <2>2. s1 \in Chunk /\ IsNode(s1, node)
    BY <2>1, HeadPutType
  <2>3. free_node(s, node) = IF node = 0 THEN s1
                             ELSE IF prev = wild THEN Broken(s1)
                             ELSE IF Used(s1, prev) THEN JoinNext(s1, node) ELSE JoinNext(s2, prev)
    BY <1>2 DEF free_node
  <2> HIDE DEF s1
  <2>4. Broken(s1) \in Chunk /\ JoinNext(s1, node) \in Chunk
    BY <2>2, BrokenChunk, JoinNextType
  <2>5. ASSUME prev # wild PROVE JoinNext(s2, prev) \in Chunk
    <3>1. prev \in goal
      <4> HIDE DEF goal
      <4> QED
        BY <2>5, SeekType
    <3>2. IsNode(s1, prev) /\ prev \in Place /\ prev \in Nat
      BY <2>2, <3>1, NodeFacts
    <3> HIDE DEF prev
    <3>3. l \in Nat
      <4>1. Length(s1, prev) \in Nat /\ Length(s1, node) \in Nat
        BY <2>2, <3>2, NodeFacts
      <4> QED
        BY <4>1
    <3>4. s0 \in Chunk
      BY <2>2, <3>2, LastType
    <3> HIDE DEF s0, l
    <3>5. s2 \in Chunk /\ IsNode(s2, prev)
      BY <3>2, <3>3, <3>4, HeadPutType
    <3> HIDE DEF s2
    <3> QED
      BY <3>5, JoinNextType
  <2> HIDE DEF prev, s2
  <2> QED
    BY <2>2, <2>3, <2>4, <2>5
<1> QED
  BY <1>1, <1>2

LEMMA PlaceType ==
  ASSUME NEW s \in Chunk, ~ PlaceAstray(s), ~ NoPlace(s)
  PROVE  place_ptr(s) \in Chunk /\ Unused(place_ptr(s)) # {}
<1> DEFINE l == Length(s, s.last)
           s1 == IF l > 0 THEN Put(s, s.last, Head(FALSE, l - 1)) ELSE s
           s2 == [s1 EXCEPT !.first = @ - 1]
           t == Put(s2, s.first - 1, Zero)
<1>1. CASE Unused(s) # {}
  BY <1>1 DEF place_ptr
<1>2. CASE Unused(s) = {}
  <2>1. IsNode(s, s.last) /\ s.first # 0
    BY <1>2 DEF PlaceAstray, NoPlace
  <2>2. l \in Nat /\ s.first \in Nat /\ s.first <= Words /\ Words \in Nat
    BY <2>1, NodeFacts DEF Chunk
  <2>3. s.first - 1 \in Place /\ s.first - 1 \in 0..Words
    BY <2>1, <2>2 DEF Place
  <2>4. place_ptr(s) = t
    BY <1>2 DEF place_ptr
  <2> HIDE DEF l
  <2>5. s1 \in Chunk /\ s1.first = s.first
    <3>1. ASSUME l > 0
          PROVE  Put(s, s.last, Head(FALSE, l - 1)) \in Chunk /\ Put(s, s.last, Head(FALSE, l - 1)).first = s.first
      <4>1. l - 1 \in Nat
        BY <2>2, <3>1
      <4>2. Head(FALSE, l - 1) \in Word
        BY <4>1, HeadWord
      <4> QED
        BY <4>2, PutChunk
    <3>2. CASE l > 0
      <4>1. s1 = Put(s, s.last, Head(FALSE, l - 1))
        BY <3>2, Zenon
      <4> HIDE DEF s1
      <4> QED
        BY <3>1, <3>2, <4>1
    <3>3. CASE ~ (l > 0)
      <4>1. s1 = s
        BY <3>3, Zenon
      <4> HIDE DEF s1
      <4> QED
        BY <4>1
    <3> QED
      BY <3>2, <3>3
  <2> HIDE DEF s1
  <2>6. s2 \in Chunk /\ s2.first = s.first - 1
    BY <2>3, <2>5 DEF Chunk
  <2> HIDE DEF s2
  <2>7. PutTo(s2, t, s.first - 1, Zero)
    BY <2>3, <2>6, PutEffect, ZeroWord
  <2> HIDE DEF t
  <2>8. t \in Chunk /\ s.first - 1 \in Unused(t)
    BY <2>2, <2>3, <2>6, <2>7 DEF PutTo, Unused, Slots, Place
  <2> QED
    BY <2>4, <2>8
<1> QED
  BY <1>1, <1>2

LEMMA SqueezeType ==
  ASSUME NEW s \in Chunk
  PROVE  squeze_ptrs(s) \in Chunk
<1> DEFINE held == Slots(s) \ Unused(s)
           Bottom(a) == (a = Words \/ a \in held) /\ \A b \in s.first..(a - 1) : b \notin held
           first == CHOOSE a \in s.first..Words : Bottom(a)
           l == Length(s, s.last)
           n == first - s.first
           s1 == [s EXCEPT !.first = first]
           next == NextOf(s, s.last)
           s2 == [s1 EXCEPT !.last = next]
<1>1. s.first \in Nat /\ s.first <= Words /\ Words \in Nat
  BY DEF Chunk
<1>2. \E a \in s.first..Words : Bottom(a)
  <2> DEFINE C == {a \in s.first..Words : a = Words \/ a \in held}
  <2>1. C \in SUBSET Nat /\ Words \in C
    BY <1>1
  <2>2. PICK a \in C : \A b \in C : a <= b
    <3> HIDE DEF C
    <3> QED
      BY <2>1, LeastNatural
  <2>3. a \in s.first..Words /\ (a = Words \/ a \in held) /\ a \in Nat
    BY <1>1
  <2>4. ASSUME NEW b \in s.first..(a - 1) PROVE b \notin held
    <3>1. b \in s.first..Words /\ ~ (a <= b)
      BY <1>1, <2>3
    <3>2. b \notin C
      <4> HIDE DEF C
      <4> QED
        BY <2>2, <3>1
    <3> QED
      BY <3>1, <3>2
  <2> QED
    BY <2>3, <2>4
<1>3. first \in s.first..Words
  <2> HIDE DEF held
  <2> QED
    BY <1>2
<1>4. CASE ~ IsNode(s, s.last)
  BY <1>4, BrokenChunk DEF squeze_ptrs
<1>5. CASE IsNode(s, s.last)
  <2>1. l \in Nat /\ next \in Nat /\ Used(s, s.last) \in BOOLEAN
    BY <1>5, NodeFacts
  <2>2. squeze_ptrs(s) = IF Used(s, s.last) /\ n > 0 THEN Put(s2, next, Head(FALSE, n))
                         ELSE Put(s1, s.last, Head(Used(s, s.last), l + n))
    BY <1>5 DEF squeze_ptrs
  <2> HIDE DEF first, next
  <2>3. n \in Nat
    BY <1>1, <1>3
  <2>4. s1 \in Chunk
    BY <1>1, <1>3 DEF Chunk
  <2> HIDE DEF n, s1, l
  <2>5. s2 \in Chunk
    BY <2>1, <2>4, LastType
  <2> HIDE DEF s2
  <2>6. Put(s2, next, Head(FALSE, n)) \in Chunk
    BY <2>3, <2>5, HeadPutType
  <2>7. Put(s1, s.last, Head(Used(s, s.last), l + n)) \in Chunk
    <3>1. l + n \in Nat
      BY <2>1, <2>3
    <3>2. Head(Used(s, s.last), l + n) \in Word
      BY <2>1, <3>1, HeadWord
    <3> QED
      BY <2>4, <3>2, PutChunk
  <2> QED
    BY <2>2, <2>6, <2>7
<1> QED
  BY <1>4, <1>5

LEMMA MovedType ==
  ASSUME NEW s \in Chunk, NEW src \in Nat, NEW dst \in Place, IsNode(s, src)
  PROVE  Moved(s, src, dst) \in Chunk
<1> DEFINE s1 == Copied(s, src, dst, Length(s, src))
           held == {a \in Slots(s1) : s1.word[a] = Slot(src)}
           slot == CHOOSE a \in held : \A b \in held : a <= b
<1>1. CopyTo(s, s1, src, dst, Length(s, src))
  <2>1. Length(s, src) \in Nat /\ dst \in Nat
    BY NodeFacts DEF Place
  <2> QED
    BY <2>1, CopiedEffect
<1>2. Moved(s, src, dst) = IF held = {} THEN Broken(s1) ELSE Put(s1, slot, Slot(dst))
  BY DEF Moved
<1> HIDE DEF s1, slot
<1>3. s1 \in Chunk
  BY <1>1 DEF CopyTo
<1>4. Slot(dst) \in Word
  BY SlotWord
<1> HIDE DEF held
<1> QED
  BY <1>2, <1>3, <1>4, BrokenChunk, PutChunk

(* One step of the loop in defrag().                                       *)
CompactStep(r) ==
  LET moved == Moved(r.s, r.src, r.dst) IN
  IF ~ r.s.ok \/ r.src > r.s.last THEN r
  ELSE IF ~ IsNode(r.s, r.src) THEN [r EXCEPT !.s = Broken(r.s)]
  ELSE IF ~ Used(r.s, r.src) THEN [r EXCEPT !.src = NextOf(r.s, r.src)]
  ELSE IF ~ moved.ok \/ ~ IsNode(moved, r.dst) THEN [r EXCEPT !.s = Broken(r.s)]
  ELSE [s |-> moved, src |-> NextOf(r.s, r.src), dst |-> NextOf(moved, r.dst)]

Passing == [s : Chunk, src : Nat, dst : Nat]

LEMMA CompactStepType ==
  ASSUME NEW r \in Passing
  PROVE  CompactStep(r) \in Passing
<1> DEFINE moved == Moved(r.s, r.src, r.dst)
<1>1. r.s \in Chunk /\ r.src \in Nat /\ r.dst \in Nat
  BY DEF Passing
<1>2. [r EXCEPT !.s = Broken(r.s)] \in Passing
  BY <1>1, BrokenChunk DEF Passing
<1>3. ASSUME IsNode(r.s, r.src) PROVE [r EXCEPT !.src = NextOf(r.s, r.src)] \in Passing
  <2>1. NextOf(r.s, r.src) \in Nat
    BY <1>1, <1>3, NodeFacts
  <2> QED
    BY <1>1, <2>1 DEF Passing
<1>4. ASSUME IsNode(r.s, r.src), IsNode(moved, r.dst)
      PROVE  [s |-> moved, src |-> NextOf(r.s, r.src), dst |-> NextOf(moved, r.dst)] \in Passing
  <2>1. r.dst \in Place
    BY <1>4 DEF IsNode
  <2>2. moved \in Chunk
    BY <1>1, <1>4, <2>1, MovedType
  <2> HIDE DEF moved
  <2>3. NextOf(r.s, r.src) \in Nat /\ NextOf(moved, r.dst) \in Nat
    BY <1>1, <1>4, <2>2, NodeFacts
  <2> QED
    BY <2>2, <2>3 DEF Passing
<1> QED
  BY <1>2, <1>3, <1>4 DEF CompactStep

(* The loop is a sequence of such steps.                                   *)
Passes(pass) ==
  /\ pass[0] = [s |-> heap, src |-> 0, dst |-> 0]
  /\ \A k \in 1..Words : pass[k] = CompactStep(pass[k - 1])

LEMMA CompactPasses ==
  ASSUME heap \in Chunk
  PROVE  \E pass : Passes(pass) /\ Compact = pass[Words]
<1> DEFINE x == [s |-> heap, src |-> 0, dst |-> 0]
           g == [r \in Passing |-> CompactStep(r)]
           Rec(f) == f = [k \in 0..Words |-> IF k = 0 THEN x ELSE CompactStep(f[k - 1])]
<1>1. x \in Passing
  BY DEF Passing
<1>2. \A r \in Passing : g[r] = CompactStep(r) /\ g[r] \in Passing
  BY CompactStepType
<1> HIDE DEF x, g
<1>3. PICK f : Iterates(f, Words, Passing, g, x)
  <2>1. \A r \in Passing : g[r] \in Passing
    BY <1>2
  <2>2. Words \in Nat
    OBVIOUS
  <2> QED
    BY <1>1, <2>1, <2>2, Iteration, Zenon
<1>4. f \in [0..Words -> Passing] /\ f[0] = x /\ \A k \in 1..Words : f[k] = g[f[k - 1]]
  BY <1>3 DEF Iterates
<1>5. Rec(f)
  <2>1. ASSUME NEW k \in 0..Words PROVE f[k] = IF k = 0 THEN x ELSE CompactStep(f[k - 1])
    <3>1. CASE k = 0
      BY <1>4, <3>1
    <3>2. CASE k # 0
      <4>1. k \in 1..Words /\ k - 1 \in 0..Words
        BY <3>2
      <4>2. f[k] = g[f[k - 1]] /\ f[k - 1] \in Passing
        BY <1>4, <4>1
      <4> QED
        BY <1>2, <3>2, <4>2
    <3> QED
      BY <3>1, <3>2
  <2> QED
    BY <1>4, <2>1
<1>6. Rec(CHOOSE h : Rec(h))
  BY <1>5
<1> DEFINE pass == CHOOSE h : Rec(h)
<1>7. pass = [k \in 0..Words |-> IF k = 0 THEN x ELSE CompactStep(pass[k - 1])]
  BY <1>6
<1>8. Compact = pass[Words]
  BY DEF Compact, CompactStep, x
<1> HIDE DEF pass
<1>9. pass[0] = x /\ \A k \in 1..Words : pass[k] = CompactStep(pass[k - 1])
  <2>1. 0 \in 0..Words /\ \A k \in 1..Words : k \in 0..Words /\ k # 0
    OBVIOUS
  <2> QED
    BY <1>7, <2>1
<1>10. Passes(pass)
  BY <1>9 DEF Passes, x
<1> QED
  BY <1>8, <1>10

LEMMA CompactType ==
  ASSUME heap \in Chunk
  PROVE  Compact \in Passing
<1>1. PICK pass : Passes(pass) /\ Compact = pass[Words]
  BY CompactPasses
<1>2. pass[0] \in Passing
  BY <1>1 DEF Passes, Passing
<1>3. \A k \in 0..Words : pass[k] \in Passing
  <2> DEFINE Bad == {k \in 0..Words : pass[k] \notin Passing}
  <2>1. CASE Bad = {}
    BY <2>1
  <2>2. CASE Bad # {}
    <3>1. Bad \in SUBSET Nat
      OBVIOUS
    <3>2. PICK m \in Bad : \A n \in Bad : m <= n
      <4> HIDE DEF Bad
      <4> QED
        BY <2>2, <3>1, LeastNatural
    <3>3. m \in 0..Words /\ m # 0 /\ pass[m] \notin Passing
      BY <1>2
    <3>4. m - 1 \in 0..Words /\ ~ (m <= m - 1) /\ m \in 1..Words
      BY <3>3
    <3>5. m - 1 \notin Bad
      <4> HIDE DEF Bad
      <4> QED
        BY <3>2, <3>4
    <3>6. pass[m - 1] \in Passing
      BY <3>4, <3>5
    <3> QED
      BY <1>1, <3>3, <3>4, <3>6, CompactStepType DEF Passes
  <2> QED
    BY <2>1, <2>2
<1>4. Words \in 0..Words
  OBVIOUS
<1> QED
  BY <1>1, <1>3, <1>4

-----------------------------------------------------------------------------
(* What a call may not touch                                               *)

(* The slot c leads to a node, the first w words of which hold what the     *)
(* user of q wrote; and the node is used.                                  *)
Stays(t, c, q, w) ==
  /\ IsSlot(t.word[c]) /\ IsNode(t, t.word[c].node)
  /\ \A i \in 1..w : t.word[t.word[c].node + i] = Data(q)

Lasts(t, c, q, w) == Stays(t, c, q, w) /\ Used(t, t.word[c].node)

LEMMA NodeAtSlot ==
  ASSUME NEW t, NEW c, NEW q, NEW w, NEW a \in Place, t.word[c] = Slot(a), IsNode(t, a),
         \A i \in 1..w : t.word[a + i] = Data(q)
  PROVE  Stays(t, c, q, w) /\ (Used(t, a) => Lasts(t, c, q, w))
<1>1. IsSlot(t.word[c]) /\ t.word[c].node = a
  BY SlotWord
<1> QED
  BY <1>1 DEF Stays, Lasts

(* The block of q, at node a, and its slot, which the call has not changed.  *)
LEMMA Untouched ==
  ASSUME NEW s, NEW N, Tiled(s, N), NEW a \in N, NEW c, s.word[c] = Slot(a),
         NEW q, NEW w \in Nat, w <= Length(s, a), \A i \in 1..w : s.word[a + i] = Data(q),
         a + Length(s, a) < s.first, Used(s, a),
         NEW t, NEW X, Same(s, t, X), X \cap Area(s, a) = {}, t.word[c] = s.word[c]
  PROVE  Lasts(t, c, q, w)
<1>1. /\ a \in Place /\ a \in Nat /\ IsNode(s, a) /\ Length(s, a) \in Nat /\ s.first \in Nat
      /\ s.first <= Words /\ Words \in Nat
  BY TiledFacts
<1>2. ASSUME NEW i \in 0..Length(s, a) PROVE t.word[a + i] = s.word[a + i]
  <2>1. a + i \in Area(s, a) /\ a + i \in Place
    BY <1>1 DEF Area, Place
  <2> QED
    BY <2>1 DEF Same
<1>3. t.word[a] = s.word[a]
  <2>1. 0 \in 0..Length(s, a) /\ a + 0 = a
    BY <1>1
  <2> QED
    BY <1>2, <2>1
<1>4. IsNode(t, a) /\ Used(t, a)
  BY <1>1, <1>3 DEF IsNode, Used
<1>5. \A i \in 1..w : t.word[a + i] = Data(q)
  BY <1>1, <1>2
<1> QED
  BY <1>1, <1>4, <1>5, NodeAtSlot

(* place_ptr() takes a word from the last node, if the table has no unused  *)
(* slot, be it the only word of it.                                        *)
Grown(s, N, t) ==
  /\ t \in Chunk /\ Chain(t, N) /\ t.last = s.last /\ Unused(t) # {}
  /\ (t.first = s.first \/ t.first = s.first - 1)
  /\ t.last + Length(t, t.last) = t.first
  /\ \A a \in N : Used(t, a) = Used(s, a) /\ Length(t, a) <= Length(s, a)
  /\ Same(s, t, {s.last, s.first - 1}) /\ (t.first = s.first => Same(s, t, {}))

LEMMA TableGrows ==
  ASSUME NEW s, NEW N, Tiled(s, N), ~ Used(s, s.last)
  PROVE  Grown(s, N, place_ptr(s))
<1> DEFINE l == Length(s, s.last)
           s1 == IF l > 0 THEN Put(s, s.last, Head(FALSE, l - 1)) ELSE s
           s2 == [s1 EXCEPT !.first = @ - 1]
           t == Put(s2, s.first - 1, Zero)
<1>1. /\ s \in Chunk /\ s.last \in N /\ s.last \in Place /\ s.last \in Nat /\ s.first \in Nat
      /\ s.first <= Words /\ l \in Nat /\ s.last + l = s.first /\ l >= 1 /\ Chain(s, N)
      /\ \A a \in N : a \in Place /\ a \in Nat /\ IsNode(s, a) /\ Length(s, a) \in Nat /\ a <= s.last
      /\ \A a \in N : a # s.last => NextOf(s, a) \in N
      /\ \A a, b \in N : a < b => NextOf(s, a) <= b
  <2>1. s.last \in N /\ l >= 1 /\ Chain(s, N)
    BY DEF Tiled, Chain
  <2> QED
    BY <2>1, TiledFacts DEF Chain
<1>2. CASE Unused(s) # {}
  <2>1. place_ptr(s) = s
    BY <1>2 DEF place_ptr
  <2>2. Grown(s, N, s)
    BY <1>1, <1>2 DEF Grown, Same
  <2> QED
    BY <2>1, <2>2
<1>3. CASE Unused(s) = {}
  <2>1. s.first - 1 \in Place /\ l - 1 \in Nat /\ s.first - 1 \in 0..Words
    BY <1>1 DEF Place
  <2>2. place_ptr(s) = t
    BY <1>3 DEF place_ptr
  <2> HIDE DEF l
  <2>3. FreePut(s, s1, s.last, l - 1)
    <3>1. FreePut(s, Put(s, s.last, Head(FALSE, l - 1)), s.last, l - 1)
      BY <1>1, <2>1, PutFree
    <3>2. s1 = Put(s, s.last, Head(FALSE, l - 1))
      <4>1. l > 0
        BY <1>1
      <4> QED
        BY <4>1, Zenon
    <3> HIDE DEF s1
    <3> QED
      BY <3>1, <3>2
  <2> HIDE DEF s1
  <2>4. /\ s1 \in Chunk /\ s1.last = s.last /\ s1.first = s.first
        /\ s1.word[s.last] = Head(FALSE, l - 1)
        /\ \A c \in Place : c # s.last => s1.word[c] = s.word[c]
    BY <2>3 DEF FreePut, PutTo
  <2>5. s2 \in Chunk /\ s2.last = s.last /\ s2.first = s.first - 1 /\ s2.word = s1.word
    BY <2>1, <2>4 DEF Chunk
  <2> HIDE DEF s2
  <2>6. PutTo(s2, t, s.first - 1, Zero)
    BY <2>1, <2>5, PutEffect, ZeroWord
  <2> HIDE DEF t
  <2>7. /\ t \in Chunk /\ t.last = s.last /\ t.first = s.first - 1
        /\ t.word[s.first - 1] = Zero
        /\ \A c \in Place : c # s.first - 1 => t.word[c] = s1.word[c]
    BY <2>5, <2>6 DEF PutTo
  <2>8. t.word[s.last] = Head(FALSE, l - 1)
    <3>1. CASE s.last = s.first - 1
      <4>1. l - 1 = 0
        BY <1>1, <3>1
      <4> QED
        BY <2>7, <3>1, <4>1 DEF Zero
    <3>2. CASE s.last # s.first - 1
      BY <1>1, <2>4, <2>7, <3>2
    <3> QED
      BY <3>1, <3>2
  <2>9. IsNode(t, s.last) /\ ~ Used(t, s.last) /\ Length(t, s.last) = l - 1
    BY <1>1, <2>1, <2>8, HeadWord DEF IsNode, Used, Length
  <2>10. Same(s, t, {s.last, s.first - 1})
    BY <2>4, <2>7 DEF Same
  <2>11. \A a \in N : a # s.last => SameHead(s, t, a)
    <3>1. ASSUME NEW a \in N, a # s.last PROVE t.word[a] = s.word[a]
      <4>1. a # s.first - 1
        BY <1>1, <3>1
      <4> QED
        BY <1>1, <2>10, <3>1, <4>1 DEF Same
    <3> QED
      BY <3>1, SameWord
  <2>12. Chain(t, N)
    <3>1. \A a \in N : IsNode(t, a) /\ a <= t.last
      BY <1>1, <2>7, <2>9, <2>11 DEF SameHead
    <3>2. \A a \in N : a # t.last => NextOf(t, a) \in N
      BY <1>1, <2>7, <2>11 DEF SameHead
    <3>3. ASSUME NEW a \in N, NEW b \in N, a < b PROVE NextOf(t, a) <= b
      <4>1. a # s.last
        BY <1>1, <3>3
      <4> QED
        BY <1>1, <2>11, <3>3, <4>1 DEF SameHead
    <3>4. N \subseteq Place /\ 0 \in N /\ t.last \in N
      BY <1>1, <2>7 DEF Chain
    <3> QED
      BY <3>1, <3>2, <3>3, <3>4 DEF Chain
  <2>13. Used(t, s.last) = Used(s, s.last)
    <3>1. Used(s, s.last) \in BOOLEAN /\ Used(t, s.last) \in BOOLEAN
      BY <1>1, <2>7, <2>9, NodeFacts
    <3> QED
      BY <2>9, <3>1
  <2>14. \A a \in N : Used(t, a) = Used(s, a) /\ Length(t, a) <= Length(s, a)
    BY <1>1, <2>9, <2>11, <2>13 DEF SameHead, l
  <2>15. s.first - 1 \in Unused(t)
    BY <1>1, <2>1, <2>7 DEF Unused, Slots, Place
  <2>16. t.last + Length(t, t.last) = t.first
    BY <1>1, <2>7, <2>9
  <2>17. Grown(s, N, t)
    BY <1>1, <2>7, <2>10, <2>12, <2>14, <2>15, <2>16 DEF Grown
  <2> QED
    BY <2>2, <2>17
<1> QED
  BY <1>2, <1>3

(* What is known of a block, at node a.                                    *)
Held(q, N, a) ==
  /\ a \in N /\ a \in Nat /\ a \in Place /\ Used(heap, a) /\ IsNode(heap, a)
  /\ heap.word[inner[q]] = Slot(a) /\ inner[q] \in Place /\ heap.first <= inner[q]
  /\ size[q] \in Nat /\ Length(heap, a) = size[q] /\ a + size[q] < heap.last
  /\ written[q] \in Nat /\ written[q] <= size[q]
  /\ \A i \in 1..written[q] : heap.word[a + i] = Data(q)

LEMMA HeldFacts ==
  ASSUME NEW N, Good(heap, N, inner, size, written), NEW q \in Handle, inner[q] # none
  PROVE  Held(q, N, NodeOf(q))
<1> DEFINE a == NodeOf(q)
<1>1. /\ a \in N /\ Used(heap, a) /\ heap.word[inner[q]] = Slot(a) /\ inner[q] \in Slots(heap)
      /\ size[q] \in Nat /\ Length(heap, a) = size[q] /\ a # heap.last
      /\ written[q] \in Nat /\ written[q] <= size[q]
      /\ \A i \in 1..written[q] : heap.word[a + i] = Data(q)
  BY HeldNode
<1> HIDE DEF a
<1>2. /\ a \in Nat /\ a \in Place /\ IsNode(heap, a) /\ NextOf(heap, a) = a + 1 + Length(heap, a)
      /\ NextOf(heap, a) <= heap.last /\ heap.last \in Nat /\ heap.first \in Nat /\ Tiled(heap, N)
  BY <1>1, TiledFacts DEF Good
<1>3. inner[q] \in Place /\ heap.first <= inner[q]
  BY <1>1, <1>2 DEF Slots, Place
<1>4. a + size[q] < heap.last
  BY <1>1, <1>2
<1> QED
  BY <1>1, <1>2, <1>3, <1>4 DEF Held, a

(* The call has not touched a block and its slot.                          *)
LEMMA HeldUntouched ==
  ASSUME NEW N, Good(heap, N, inner, size, written), NEW q \in Handle, NEW a, Held(q, N, a),
         NEW t, NEW X, Same(heap, t, X), \A d \in X : d \notin Area(heap, a),
         t.word[inner[q]] = heap.word[inner[q]], NEW w \in Nat, w <= written[q]
  PROVE  Lasts(t, inner[q], q, w)
<1>1. /\ Tiled(heap, N) /\ a \in N /\ heap.word[inner[q]] = Slot(a) /\ w <= Length(heap, a)
      /\ \A i \in 1..w : heap.word[a + i] = Data(q)
      /\ a + Length(heap, a) < heap.first /\ X \cap Area(heap, a) = {} /\ Used(heap, a)
  <2>1. heap.last < heap.first /\ heap.last \in Nat /\ heap.first \in Nat /\ Tiled(heap, N)
    BY TiledFacts DEF Held, Good
  <2> QED
    BY <2>1 DEF Held
<1> QED
  BY ONLY <1>1, Same(heap, t, X), t.word[inner[q]] = heap.word[inner[q]], w \in Nat, Untouched

(* What is written for node, which is not that of the block.               *)
LEMMA CutsApart ==
  ASSUME NEW N, Good(heap, N, inner, size, written), NEW q \in Handle, NEW a, Held(q, N, a),
         NEW node \in N, node # a, NEW n \in Nat, NEW l \in Nat, l <= Length(heap, node)
  PROVE  \A d \in Cuts(node, n, l) : d \notin Area(heap, a)
<1>1. Tiled(heap, N) /\ node \in Nat /\ Length(heap, node) \in Nat /\ a \in N
  BY TiledFacts DEF Good, Held
<1>2. \A d \in Cuts(node, n, l) : d \in Area(heap, node)
  BY <1>1 DEF Cuts, Area
<1>3. Area(heap, node) \cap Area(heap, a) = {}
  BY <1>1, AreasDisjoint
<1> QED
  BY <1>2, <1>3

(* The slot of a block can only be written over at the bottom of the table, *)
(* by a call that uses the last node.                                      *)
LEMMA CutsSlot ==
  ASSUME NEW N, Good(heap, N, inner, size, written), NEW q \in Handle, NEW a, Held(q, N, a),
         NEW node \in N, NEW n \in Nat, NEW l \in Nat, l <= Length(heap, node),
         inner[q] \in Cuts(node, n, l)
  PROVE  node = heap.last /\ inner[q] = heap.first /\ node + n + 1 = heap.first /\ l = Length(heap, node)
<1>1. /\ node \in Nat /\ Length(heap, node) \in Nat /\ heap.first \in Nat /\ heap.last \in Nat
      /\ NextOf(heap, node) = node + 1 + Length(heap, node)
      /\ node # heap.last => NextOf(heap, node) <= heap.last
      /\ heap.last < heap.first /\ node <= heap.last
      /\ heap.last + Length(heap, heap.last) = heap.first
  BY TiledFacts DEF Good
<1>2. inner[q] \in Nat /\ heap.first <= inner[q]
  BY DEF Held, Place
<1>3. inner[q] = node + n + 1 /\ n < l
  BY <1>1, <1>2 DEF Cuts
<1> QED
  BY <1>1, <1>2, <1>3

LEMMA AllocKeeps ==
  ASSUME TypeOK, NEW N, Good(heap, N, inner, size, written),
         NEW p \in Handle, NEW n \in Sizes, Alloc(p, n), heap'.ok,
         NEW q \in Handle, inner[q] # none, inner'[q] = inner[q]
  PROVE  Lasts(heap', inner[q], q, written[q]) \/ SlotLost(q)
<1> DEFINE s == place_ptr(heap)
           slot == Largest(Unused(s))
           node == find_free_node(s, n)
           s1 == Put(s, slot, Slot(node))
           a == NodeOf(q)
<1>1. n \in Nat /\ n > 0 /\ inner[p] = none /\ q # p
  BY DEF Alloc
<1>2. /\ Tiled(heap, N) /\ heap.last \in N /\ IsNode(heap, heap.last) /\ ~ Used(heap, heap.last)
      /\ heap.first # 0 /\ heap.first \in Nat /\ heap.last \in Nat /\ heap.last < heap.first
      /\ heap \in Chunk
  <2>1. Tiled(heap, N) /\ heap.last \in N /\ ~ Used(heap, heap.last)
    BY DEF Good, Tiled, Chain
  <2>2. IsNode(heap, heap.last) /\ heap.last < heap.first /\ heap.last \in Nat /\ heap.first \in Nat
        /\ heap \in Chunk
    BY <2>1, TiledFacts
  <2> QED
    BY <2>1, <2>2
<1>3. ~ PlaceAstray(heap)
  BY <1>2 DEF PlaceAstray
<1>4. IF node \in {none, wild}
      THEN heap' = IF node = wild THEN Broken(s) ELSE s
      ELSE heap' = alloc_node(s1, node, n)
  BY <1>3 DEF Alloc
<1>5. Held(q, N, a)
  BY HeldFacts
<1> HIDE DEF s, slot, node, s1, a
<1>6. Grown(heap, N, s)
  BY <1>2, TableGrows DEF s
<1>7. /\ s \in Chunk /\ Chain(s, N) /\ s.last = heap.last /\ Unused(s) # {} /\ s.first \in Nat
      /\ (s.first = heap.first \/ s.first = heap.first - 1)
      /\ s.last + Length(s, s.last) = s.first
      /\ \A b \in N : Used(s, b) = Used(heap, b) /\ Length(s, b) <= Length(heap, b)
      /\ \A b \in N : b \in Nat /\ b \in Place /\ b <= heap.last /\ Length(s, b) \in Nat
      /\ Same(heap, s, {heap.last, heap.first - 1})
  BY <1>2, <1>6, NodeFacts DEF Grown, Chain, Chunk
<1>8. /\ a \in Nat /\ Length(heap, a) \in Nat /\ a + Length(heap, a) < heap.last
      /\ inner[q] \in Place /\ inner[q] \in Nat /\ heap.first <= inner[q] /\ a \in N /\ Used(heap, a)
      /\ written[q] \in Nat /\ written[q] <= written[q] /\ a \in Place
      /\ heap.word[inner[q]] = Slot(a)
  BY <1>5 DEF Held, Place
<1>9. \A d : heap.last <= d => d \notin Area(heap, a)
  <2>1. ASSUME NEW d \in Area(heap, a), heap.last <= d PROVE FALSE
    BY <1>2, <1>8, <2>1 DEF Area
  <2> QED
    BY <2>1
<1>10. s.word[inner[q]] = heap.word[inner[q]]
  BY <1>2, <1>7, <1>8 DEF Same
<1>11. CASE node \in {none, wild}
  <2>1. heap' = s
    <3>1. Broken(s).ok = FALSE
      BY <1>7 DEF Broken, Chunk
    <3> QED
      BY <1>4, <1>11, <3>1
  <2>2. \A d \in {heap.last, heap.first - 1} : d \notin Area(heap, a)
    BY <1>2, <1>9
  <2>3. Lasts(s, inner[q], q, written[q])
    BY ONLY <1>5, <1>7, <1>8, <1>10, <2>2, Good(heap, N, inner, size, written), q \in Handle, HeldUntouched
  <2> QED
    BY <2>1, <2>3
<1>12. CASE node \notin {none, wild}
  <2> DEFINE t == alloc_node(s1, node, n)
  <2>1. node \in N /\ ~ Used(s, node) /\ n <= Length(s, node)
    <3>1. Found(s, N, n, node)
      BY <1>1, <1>7, FreeNodeFound DEF node
    <3> QED
      BY <1>12, <3>1 DEF Found
  <2>2. slot \in Slots(s) /\ s.word[slot] = Zero /\ slot \in Place /\ slot \in Nat /\ s.first <= slot
    <3>1. slot \in Unused(s)
      BY <1>7, SlotFound DEF slot
    <3> QED
      BY <1>7, <3>1 DEF Unused, Slots, Place, Chunk
  <2>3. node # slot /\ node # a /\ heap.last <= slot
    <3>1. node # slot
      <4>1. SUFFICES ASSUME node = slot PROVE FALSE
        OBVIOUS
      <4>2. node \in Nat /\ node <= heap.last /\ Length(s, node) \in Nat /\ s.first <= node
        BY <1>7, <2>1, <2>2, <4>1
      <4>3. Length(s, s.last) \in Nat /\ s.last = heap.last /\ s.last + Length(s, s.last) = s.first
        BY <1>2, <1>7
      <4>4. node = s.last /\ Length(s, s.last) = 0
        BY <1>2, <1>7, <4>2, <4>3
      <4> QED
        BY <1>1, <2>1, <4>4
    <3>2. heap.last <= slot
      BY <1>2, <1>7, <2>2
    <3> QED
      BY <1>7, <1>8, <2>1, <3>1, <3>2
  <2>4. s1 \in Chunk /\ Same(s, s1, {slot})
    BY <1>7, <2>1, <2>2, SlotWord, PutChunk, PutSame DEF s1
  <2>5. IsNode(s1, node) /\ Length(s1, node) = Length(s, node)
    <3>1. s1.word[node] = s.word[node] /\ IsNode(s, node)
      BY <1>7, <2>1, <2>3, <2>4 DEF Same, Chain
    <3> QED
      BY <3>1, SameWord DEF SameHead
  <2> DEFINE l == Length(s, node)
  <2>6. NodeTaken(s1, t, node, n, l)
    <3>1. NodeTaken(s1, t, node, n, Length(s1, node))
      BY ONLY <1>1, <2>4, <2>5, AllocNodeTakes
    <3> QED
      BY <2>5, <3>1
  <2>7. heap' = t
    BY <1>4, <1>12
  <2> HIDE DEF t
  <2>8. /\ Same(s1, t, Cuts(node, n, l)) /\ IsNode(t, node) /\ Used(t, node)
        /\ NextOf(t, node) = node + 1 + n
    BY <2>6 DEF NodeTaken
  <2> DEFINE X == {heap.last, heap.first - 1} \cup {slot} \cup Cuts(node, n, l)
  <2>9. Same(heap, t, X)
    <3>1. Same(heap, s1, {heap.last, heap.first - 1} \cup {slot})
      BY <1>7, <2>4, SameTrans
    <3> QED
      BY <2>8, <3>1, SameTrans
  <2>10. l \in Nat /\ l <= Length(heap, node)
    BY <1>7, <2>1
  <2> HIDE DEF l
  <2>11. \A d \in X : d \notin Area(heap, a)
    <3>1. \A d \in Cuts(node, n, l) : d \notin Area(heap, a)
      BY ONLY <1>1, <1>5, <2>1, <2>3, <2>10, Good(heap, N, inner, size, written), q \in Handle, CutsApart
    <3>2. \A d \in {heap.last, heap.first - 1} \cup {slot} : heap.last <= d
      BY <1>2, <2>3
    <3> QED
      BY <1>9, <3>1, <3>2
  <2> HIDE DEF X
  <2>12. CASE t.word[inner[q]] = heap.word[inner[q]]
    <3>1. Lasts(t, inner[q], q, written[q])
      BY ONLY <1>5, <1>8, <2>9, <2>11, <2>12, Good(heap, N, inner, size, written), q \in Handle, HeldUntouched
    <3> QED
      BY <2>7, <3>1
  <2>13. CASE t.word[inner[q]] # heap.word[inner[q]]
    <3>1. inner[q] # slot
      BY <1>8, <1>10, <2>2, SlotWord
    <3>2. inner[q] \in Cuts(node, n, l)
      <4>1. s1.word[inner[q]] = s.word[inner[q]]
        BY <1>8, <2>4, <3>1 DEF Same
      <4> QED
        BY <1>8, <1>10, <2>8, <2>13, <4>1 DEF Same
    <3>3. node = heap.last /\ inner[q] = heap.first /\ node + n + 1 = heap.first
      BY ONLY <1>1, <1>5, <2>1, <2>10, <3>2, Good(heap, N, inner, size, written), q \in Handle, CutsSlot
    <3>4. NextOf(t, node) >= heap.first
      BY <1>1, <1>2, <2>8, <3>3
    <3> QED
      BY <2>7, <2>8, <2>13, <3>3, <3>4 DEF SlotLost
  <2> QED
    BY <2>12, <2>13
<1> QED
  BY <1>11, <1>12

(* The block at the node that is resized in place.                         *)
LEMMA HeldTaken ==
  ASSUME NEW N, Good(heap, N, inner, size, written), NEW p \in Handle, NEW node, Held(p, N, node),
         NEW n \in Nat, NEW l, NEW t, NodeTaken(heap, t, node, n, l),
         t.word[inner[p]] = heap.word[inner[p]], NEW w \in Nat, w <= written[p], w <= n
  PROVE  Lasts(t, inner[p], p, w)
<1>1. /\ node \in Nat /\ node \in Place /\ heap.word[inner[p]] = Slot(node)
      /\ written[p] \in Nat /\ written[p] <= size[p] /\ size[p] \in Nat
      /\ node + size[p] < heap.last /\ heap.last \in Nat /\ heap.last < heap.first
      /\ heap.first \in Nat /\ heap.first <= Words
      /\ \A i \in 1..written[p] : heap.word[node + i] = Data(p)
  <2>1. Tiled(heap, N) /\ node \in N
    BY DEF Good, Held
  <2> QED
    BY <2>1, TiledFacts DEF Held
<1>2. IsNode(t, node) /\ Used(t, node) /\ \A d \in Place : d \notin Cuts(node, n, l) => t.word[d] = heap.word[d]
  BY DEF NodeTaken, Same
<1>3. ASSUME NEW i \in 1..w PROVE t.word[node + i] = Data(p)
  <2>1. node + i \in Place /\ i \in 1..written[p]
    BY <1>1 DEF Place
  <2>2. node + i \notin Cuts(node, n, l)
    BY <1>1 DEF Cuts
  <2> QED
    BY <1>1, <1>2, <2>1, <2>2
<1> QED
  BY <1>1, <1>2, <1>3, NodeAtSlot

LEMMA ResizedFacts ==
  ASSUME TypeOK, NEW p \in Handle, NEW n \in Nat, Resized(p, n), NEW q \in Handle
  PROVE  /\ Least(written[q], written'[q]) \in Nat /\ Least(written[q], written'[q]) <= written[q]
         /\ q = p => Least(written[q], written'[q]) <= n
<1>1. written'[p] = Least(written[p], n) /\ (q # p => written'[q] = written[q]) /\ written[q] \in Nat
  BY DEF Resized, TypeOK
<1> QED
  BY <1>1 DEF Least

LEMMA NodeHeldOnce ==
  ASSUME NEW N, Good(heap, N, inner, size, written), NEW p \in Handle, NEW q \in Handle,
         inner[p] # none, inner[q] # none, NEW a, Held(p, N, a), Held(q, N, a)
  PROVE  p = q
BY DEF Good, Held

LEMMA ShrinkKeeps ==
  ASSUME TypeOK, NEW N, Good(heap, N, inner, size, written),
         NEW p \in Handle, NEW n \in Sizes, Shrink(p, n), NEW q \in Handle, inner[q] # none
  PROVE  Lasts(heap', inner[q], q, Least(written[q], written'[q]))
<1> DEFINE node == NodeOf(p)
           a == NodeOf(q)
           w == Least(written[q], written'[q])
           l == Length(heap, node)
           t == alloc_node(heap, node, n)
<1>1. n \in Nat /\ inner[p] # none /\ l >= n /\ heap' = t /\ Resized(p, n)
  BY DEF Shrink, HasNode
<1>2. Held(p, N, node) /\ Held(q, N, a)
  BY <1>1, HeldFacts
<1>3. w \in Nat /\ w <= written[q] /\ (q = p => w <= n)
  BY <1>1, ResizedFacts
<1> HIDE DEF w, node, a
<1>4. heap \in Chunk /\ node \in N /\ IsNode(heap, node) /\ l \in Nat /\ node # heap.last
      /\ inner[q] \in Place /\ node \in Nat /\ size[p] \in Nat /\ node + size[p] < heap.last
      /\ heap.last \in Nat
  <2>1. heap \in Chunk /\ node \in N /\ IsNode(heap, node) /\ l \in Nat /\ inner[q] \in Place
        /\ node \in Nat /\ size[p] \in Nat /\ node + size[p] < heap.last /\ Tiled(heap, N)
    BY <1>2 DEF Good, Tiled, Held
  <2>2. heap.last \in Nat
    BY <2>1, TiledFacts
  <2> QED
    BY <2>1, <2>2
<1>5. NodeTaken(heap, t, node, n, l)
  BY <1>1, <1>4, AllocNodeTakes
<1> HIDE DEF l, t
<1>6. t.word[inner[q]] = heap.word[inner[q]]
  <2>1. inner[q] \notin Cuts(node, n, l)
    <3>1. l <= Length(heap, node)
      BY <1>4 DEF l
    <3>2. inner[q] \in Cuts(node, n, l) => node = heap.last
      BY ONLY <1>1, <1>2, <1>4, <3>1, Good(heap, N, inner, size, written), q \in Handle, CutsSlot
    <3> QED
      BY <1>4, <3>2
  <2> QED
    BY <1>4, <1>5, <2>1 DEF NodeTaken, Same
<1>7. CASE q = p
  <2>1. a = node
    BY <1>7 DEF a, node
  <2>2. Lasts(t, inner[q], q, w)
    BY ONLY <1>1, <1>2, <1>3, <1>5, <1>6, <1>7, <2>1, Good(heap, N, inner, size, written), q \in Handle, HeldTaken
  <2> QED
    BY <1>1, <2>2 DEF w
<1>8. CASE q # p
  <2>1. node # a
    BY <1>1, <1>2, <1>8, NodeHeldOnce
  <2>2. \A d \in Cuts(node, n, l) : d \notin Area(heap, a)
    <3>1. l <= Length(heap, node)
      BY <1>4 DEF l
    <3> QED
      BY ONLY <1>1, <1>2, <1>4, <2>1, <3>1, Good(heap, N, inner, size, written), q \in Handle, CutsApart
  <2>3. Same(heap, t, Cuts(node, n, l))
    BY <1>5 DEF NodeTaken
  <2>4. Lasts(t, inner[q], q, w)
    BY ONLY <1>2, <1>3, <1>6, <2>2, <2>3, Good(heap, N, inner, size, written), q \in Handle, HeldUntouched
  <2> QED
    BY <1>1, <2>4 DEF w
<1> QED
  BY <1>7, <1>8

(* The node behind that of a block.                                        *)
LEMMA HeldNext ==
  ASSUME NEW N, Good(heap, N, inner, size, written), NEW p \in Handle, NEW node, Held(p, N, node)
  PROVE  /\ NextOf(heap, node) \in N /\ NextOf(heap, node) \in Nat /\ NextOf(heap, node) \in Place
         /\ IsNode(heap, NextOf(heap, node))
         /\ NextOf(heap, node) = node + 1 + Length(heap, node) /\ Length(heap, node) \in Nat
         /\ Length(heap, NextOf(heap, node)) \in Nat
         /\ NextOf(heap, NextOf(heap, node)) = NextOf(heap, node) + 1 + Length(heap, NextOf(heap, node))
         /\ NextOf(heap, NextOf(heap, node)) <= heap.first + 1
         /\ NextOf(heap, node) # heap.last => NextOf(heap, NextOf(heap, node)) \in N
         /\ NextOf(heap, node) = heap.last => NextOf(heap, NextOf(heap, node)) = heap.first + 1
         /\ heap.first \in Nat /\ heap \in Chunk /\ node # heap.last
<1>1. Tiled(heap, N) /\ node \in N /\ node \in Nat /\ size[p] \in Nat /\ node + size[p] < heap.last
  BY DEF Good, Held
<1>2. /\ heap.last \in Nat /\ heap.first \in Nat /\ heap.last < heap.first /\ heap \in Chunk
      /\ heap.last + Length(heap, heap.last) = heap.first /\ Length(heap, node) \in Nat
      /\ NextOf(heap, heap.last) = heap.last + 1 + Length(heap, heap.last)
      /\ NextOf(heap, node) = node + 1 + Length(heap, node)
      /\ (node # heap.last => NextOf(heap, node) \in N)
  BY <1>1, TiledFacts
<1>3. node # heap.last /\ NextOf(heap, node) \in N
  BY <1>1, <1>2
<1>4. \A b \in N : /\ b \in Nat /\ b \in Place /\ IsNode(heap, b) /\ Length(heap, b) \in Nat
                   /\ NextOf(heap, b) = b + 1 + Length(heap, b)
                   /\ (b # heap.last => NextOf(heap, b) \in N /\ NextOf(heap, b) <= heap.last)
  BY <1>1, TiledFacts
<1>5. NextOf(heap, heap.last) = heap.first + 1
  BY <1>1 DEF Tiled
<1> DEFINE next == NextOf(heap, node)
<1>6. next \in Nat /\ Length(heap, next) \in Nat /\ NextOf(heap, next) = next + 1 + Length(heap, next)
      /\ (next # heap.last => NextOf(heap, next) \in N /\ NextOf(heap, next) <= heap.last)
  BY <1>3, <1>4
<1>7. NextOf(heap, next) <= heap.first + 1
  <2> HIDE DEF next
  <2>1. CASE next = heap.last
    BY <1>2, <1>5, <2>1
  <2>2. CASE next # heap.last
    BY <1>2, <1>6, <2>2
  <2> QED
    BY <2>1, <2>2
<1> QED
  BY <1>2, <1>3, <1>4, <1>5, <1>6, <1>7

LEMMA ExpandKeeps ==
  ASSUME TypeOK, NEW N, Good(heap, N, inner, size, written),
         NEW p \in Handle, NEW n \in Sizes, Expand(p, n), NEW q \in Handle, inner[q] # none
  PROVE  Lasts(heap', inner[q], q, Least(written[q], written'[q]))
<1> DEFINE node == NodeOf(p)
           next == NextOf(heap, node)
           a == NodeOf(q)
           w == Least(written[q], written'[q])
           l == Length(heap, node) + Length(heap, next)
           t == realloc_node(heap, node, n)
<1>1. /\ n \in Nat /\ inner[p] # none /\ Length(heap, node) < n /\ n <= l /\ heap' = t /\ Resized(p, n)
      /\ IsNode(heap, next) /\ ~ Used(heap, next)
  BY DEF Expand, HasNode, CanExpand
<1>2. Held(p, N, node) /\ Held(q, N, a)
  BY <1>1, HeldFacts
<1>3. w \in Nat /\ w <= written[q] /\ (q = p => w <= n)
  BY <1>1, ResizedFacts
<1> HIDE DEF w, node, a
<1>4. /\ next \in N /\ next \in Nat /\ next = node + 1 + Length(heap, node)
      /\ Length(heap, node) \in Nat /\ Length(heap, next) \in Nat
      /\ next + 1 + Length(heap, next) <= heap.first + 1 /\ heap.first \in Nat /\ heap \in Chunk
  <2>1. NextOf(heap, next) = next + 1 + Length(heap, next) /\ NextOf(heap, next) <= heap.first + 1
    BY <1>2, HeldNext
  <2> QED
    BY <1>2, <2>1, HeldNext
<1>5. node \in N /\ node \in Nat /\ IsNode(heap, node) /\ inner[q] \in Place /\ heap.first <= inner[q]
      /\ inner[q] \in Nat /\ Tiled(heap, N) /\ Used(heap, a) /\ a \in N
  BY <1>2 DEF Held, Good, Place
<1>6. NodeTaken(heap, t, node, n, l)
  BY <1>1, <1>4, <1>5, ReallocNodeTakes
<1> HIDE DEF t, next
<1>7. \A d \in Cuts(node, n, l) : d < heap.first /\ d \in Nat /\ (d = node \/ d \in Area(heap, next))
  <2>1. ASSUME NEW d \in Cuts(node, n, l)
        PROVE  d < heap.first /\ d \in Nat /\ (d = node \/ d \in Area(heap, next))
    <3>1. CASE d = node
      BY <1>4, <1>5, <3>1
    <3>2. CASE d # node
      <4>1. d = node + n + 1 /\ n < Length(heap, node) + Length(heap, next)
        BY <2>1, <3>2 DEF Cuts
      <4>2. d < heap.first /\ d \in Nat /\ next <= d /\ d <= next + Length(heap, next)
        BY <1>1, <1>4, <1>5, <4>1
      <4> QED
        BY <1>4, <4>2 DEF Area
    <3> QED
      BY <3>1, <3>2
  <2> QED
    BY <2>1
<1> HIDE DEF l
<1>8. t.word[inner[q]] = heap.word[inner[q]]
  <2>1. inner[q] \notin Cuts(node, n, l)
    BY <1>4, <1>5, <1>7
  <2> QED
    BY <1>5, <1>6, <2>1 DEF NodeTaken, Same
<1>9. CASE q = p
  <2>1. a = node
    BY <1>9 DEF a, node
  <2>2. Lasts(t, inner[q], q, w)
    BY ONLY <1>1, <1>2, <1>3, <1>6, <1>8, <1>9, <2>1, Good(heap, N, inner, size, written), q \in Handle, HeldTaken
  <2> QED
    BY <1>1, <2>2 DEF w
<1>10. CASE q # p
  <2>1. node # a /\ next # a
    BY <1>1, <1>2, <1>5, <1>10, NodeHeldOnce
  <2>2. \A d \in Cuts(node, n, l) : d \notin Area(heap, a)
    <3>1. node \in Area(heap, node)
      BY <1>4, <1>5 DEF Area
    <3>2. Area(heap, node) \cap Area(heap, a) = {} /\ Area(heap, next) \cap Area(heap, a) = {}
      BY <1>4, <1>5, <2>1, AreasDisjoint
    <3> QED
      BY <1>7, <3>1, <3>2
  <2>3. Same(heap, t, Cuts(node, n, l))
    BY <1>6 DEF NodeTaken
  <2>4. Lasts(t, inner[q], q, w)
    BY ONLY <1>2, <1>3, <1>8, <2>2, <2>3, Good(heap, N, inner, size, written), q \in Handle, HeldUntouched
  <2> QED
    BY <1>1, <2>4 DEF w
<1> QED
  BY <1>9, <1>10

(* The word that loses its flag is the head of a node or a slot, and stays  *)
(* one.                                                                    *)
LEMMA ExpandThrowsKeeps ==
  ASSUME TypeOK, NEW N, Good(heap, N, inner, size, written),
         NEW p \in Handle, NEW n \in Sizes, ExpandThrows(p, n), heap'.ok,
         NEW q \in Handle, inner[q] # none
  PROVE  /\ Stays(heap', inner[q], q, written[q])
         /\ Lasts(heap', inner[q], q, written[q]) \/ FlagLost(q)
<1> DEFINE node == NodeOf(p)
           next == NextOf(heap, node)
           tail == node + n + 1
           a == NodeOf(q)
           t == Put(heap, tail, Unflagged(heap.word[tail]))
<1>1. /\ n \in Nat /\ inner[p] # none
      /\ n > Length(heap, node) + Length(heap, next)
      /\ Length(heap, node) + Length(heap, next) + 1 >= n
      /\ heap' = IF tail \in Place THEN t ELSE Broken(heap)
  BY DEF ExpandThrows, HasNode, CanExpand
<1>2. Held(p, N, node) /\ Held(q, N, a)
  BY <1>1, HeldFacts
<1> HIDE DEF node, a
<1>3. /\ Length(heap, node) \in Nat /\ Length(heap, next) \in Nat /\ node \in Nat
      /\ tail = NextOf(heap, next) /\ heap.first \in Nat /\ heap \in Chunk
      /\ (next # heap.last => tail \in N) /\ (next = heap.last => tail = heap.first + 1)
  <2>1. /\ Length(heap, node) \in Nat /\ Length(heap, next) \in Nat /\ next = node + 1 + Length(heap, node)
        /\ NextOf(heap, next) = next + 1 + Length(heap, next) /\ heap.first \in Nat /\ heap \in Chunk
        /\ (next # heap.last => NextOf(heap, next) \in N)
        /\ (next = heap.last => NextOf(heap, next) = heap.first + 1)
    BY <1>2, HeldNext
  <2>2. node \in Nat
    BY <1>2 DEF Held
  <2>3. tail = NextOf(heap, next)
    BY <1>1, <2>1, <2>2
  <2> QED
    BY <2>1, <2>2, <2>3
<1> HIDE DEF next
<1>4. tail \in Place /\ heap' = t
  <2>1. Broken(heap).ok = FALSE
    BY <1>3 DEF Broken, Chunk
  <2> QED
    BY <1>1, <2>1
<1> HIDE DEF tail
<1>5. Tiled(heap, N) /\ (tail \in N \/ heap.first <= tail)
  BY <1>3 DEF Good
<1>6. /\ a \in N /\ a \in Nat /\ a \in Place /\ heap.word[inner[q]] = Slot(a) /\ inner[q] \in Place
      /\ written[q] \in Nat /\ written[q] <= size[q] /\ size[q] \in Nat /\ Length(heap, a) = size[q]
      /\ a + size[q] < heap.last /\ IsNode(heap, a) /\ inner[q] \in Nat /\ heap.first <= inner[q]
      /\ \A i \in 1..written[q] : heap.word[a + i] = Data(q)
      /\ heap.last < heap.first /\ heap.last \in Nat /\ heap.first <= Words /\ Tiled(heap, N)
  <2>1. Tiled(heap, N)
    BY DEF Good
  <2> QED
    BY <1>2, <2>1, TiledFacts DEF Held, Place
<1>7. t.word[inner[q]] = heap.word[inner[q]]
  <2>1. ~ IsHead(heap.word[inner[q]]) /\ IsSlot(heap.word[inner[q]])
    BY <1>6, SlotWord
  <2>2. Unflagged(heap.word[inner[q]]) = heap.word[inner[q]]
    BY <2>1 DEF Unflagged
  <2> QED
    BY <1>3, <1>4, <1>6, <2>2 DEF Put, Chunk
<1>8. \A d \in Place : d # tail => t.word[d] = heap.word[d]
  BY <1>3, <1>4 DEF Put, Chunk
<1>9. IsNode(t, a)
  <2>1. CASE a = tail
    <3>1. IsHead(heap.word[a]) /\ heap.word[a] \in Word
      BY <1>3, <1>6 DEF IsNode, Chunk
    <3>2. heap.word[a].len \in Nat
      BY <3>1, WordKinds
    <3>3. IsHead(Unflagged(heap.word[a]))
      BY <3>1, <3>2, HeadWord DEF Unflagged
    <3>4. t.word[a] = Unflagged(heap.word[a])
      BY <1>3, <1>4, <2>1 DEF Put, Chunk
    <3> QED
      BY <1>6, <3>3, <3>4 DEF IsNode
  <2>2. CASE a # tail
    BY <1>6, <1>8, <2>2 DEF IsNode
  <2> QED
    BY <2>1, <2>2
<1>11. a # tail => Used(t, a)
  <2>1. Used(heap, a)
    BY <1>2 DEF Held
  <2> QED
    BY <1>6, <1>8, <2>1 DEF Used
<1> HIDE DEF t
<1>10. ASSUME NEW i \in 1..written[q] PROVE t.word[a + i] = Data(q)
  <2>1. a + i \in Place /\ a + i < heap.first /\ a + i \in Area(heap, a) /\ a + i # a
    BY <1>3, <1>6 DEF Place, Area
  <2>2. a + i # tail
    <3>1. CASE heap.first <= tail
      BY <1>3, <1>4, <1>6, <2>1, <3>1 DEF Place
    <3>2. CASE tail \in N
      <4>1. tail \in Area(heap, tail)
        BY <1>6, <3>2, TiledFacts DEF Area
      <4>2. tail # a => tail \notin Area(heap, a)
        BY <1>6, <3>2, <4>1, AreasDisjoint
      <4> QED
        BY <2>1, <4>2
    <3> QED
      BY <1>5, <3>1, <3>2
  <2> QED
    BY <1>6, <1>8, <2>1, <2>2
<1>12. Stays(t, inner[q], q, written[q]) /\ (a # tail => Lasts(t, inner[q], q, written[q]))
  BY <1>6, <1>7, <1>9, <1>10, <1>11, NodeAtSlot
<1>13. a = tail => FlagLost(q)
  BY DEF FlagLost, a, tail, node
<1> QED
  BY <1>4, <1>12, <1>13

LEMMA MoveKeeps ==
  ASSUME TypeOK, NEW N, Good(heap, N, inner, size, written),
         NEW p \in Handle, NEW n \in Sizes, Move(p, n), heap'.ok,
         NEW q \in Handle, inner[q] # none
  PROVE  Lasts(heap', inner[q], q, Least(written[q], written'[q])) \/ SlotLost(q)
<1> DEFINE node == NodeOf(p)
           dst == find_free_node(heap, n)
           s2 == CarriedTo(heap, node, dst, n)
           s3 == free_node(s2, node)
           s4 == alloc_node(s3, dst, n)
           t == Put(s4, inner[p], Slot(dst))
           a == NodeOf(q)
           w == Least(written[q], written'[q])
<1>1. /\ n \in Nat /\ inner[p] # none /\ Length(heap, node) < n
      /\ Astray(node) \/ dst # none
      /\ IF Astray(node) \/ dst = wild THEN heap' = Broken(heap) ELSE heap' = t /\ Resized(p, n)
  BY DEF Move, HasNode, CarriedTo
<1>2. Held(p, N, node) /\ Held(q, N, a)
  BY <1>1, HeldFacts
<1> HIDE DEF dst, node, a
<1>3. /\ Tiled(heap, N) /\ Joined(heap, N) /\ ~ Used(heap, heap.last) /\ heap \in Chunk
      /\ heap.last \in N /\ heap.last \in Nat /\ heap.first \in Nat /\ heap.last < heap.first
      /\ heap.first <= Words /\ Words \in Nat
  <2>1. Tiled(heap, N) /\ Joined(heap, N) /\ ~ Used(heap, heap.last) /\ heap.last \in N
    BY DEF Good, Tiled, Chain
  <2> QED
    BY <2>1, TiledFacts
<1>4. /\ node \in N /\ node \in Nat /\ Used(heap, node) /\ size[p] \in Nat
      /\ Length(heap, node) = size[p] /\ node + size[p] < heap.last /\ inner[p] \in Place
      /\ inner[p] \in Nat /\ heap.first <= inner[p] /\ written[p] \in Nat /\ written[p] <= size[p]
      /\ \A i \in 1..written[p] : heap.word[node + i] = Data(p)
      /\ a \in N /\ a \in Nat /\ Used(heap, a) /\ inner[q] \in Place /\ inner[q] \in Nat
      /\ heap.first <= inner[q] /\ heap.word[inner[q]] = Slot(a)
      /\ Length(heap, a) \in Nat /\ a + Length(heap, a) < heap.last
  BY <1>2 DEF Held, Place
<1>5. node # heap.last /\ ~ Astray(node)
  BY <1>3, <1>4 DEF Astray, Tiled, Chain
<1>6. dst \in N /\ ~ Used(heap, dst) /\ n <= Length(heap, dst) /\ dst # wild /\ dst # node /\ dst # a
  <2>1. Found(heap, N, n, dst)
    BY <1>1, <1>3, FreeNodeFound DEF dst, Tiled
  <2> QED
    BY <1>1, <1>4, <1>5, <2>1 DEF Found
<1>7. heap' = t /\ Resized(p, n)
  BY <1>1, <1>5, <1>6
<1>8. w \in Nat /\ w <= written[q] /\ written[q] <= written[q]
  <2>1. w \in Nat /\ w <= written[q]
    BY <1>1, <1>7, ResizedFacts
  <2> QED
    BY <1>2, <2>1 DEF Held
<1> HIDE DEF w
<1> DEFINE l == Length(heap, dst)
<1>9. /\ dst \in Nat /\ dst \in Place /\ l \in Nat /\ n > 0 /\ dst <= heap.last
      /\ dst + l <= heap.first /\ (dst # heap.last => dst + l < heap.last)
      /\ heap.last + Length(heap, heap.last) = heap.first
  <2>1. /\ dst \in Nat /\ dst \in Place /\ l \in Nat /\ dst <= heap.last
        /\ NextOf(heap, dst) = dst + 1 + l
        /\ (dst # heap.last => NextOf(heap, dst) <= heap.last)
        /\ heap.last + Length(heap, heap.last) = heap.first
    BY <1>3, <1>6, TiledFacts
  <2> QED
    BY <1>1, <1>3, <1>4, <2>1
<1>10. dst + n \in Place
  BY <1>1, <1>3, <1>4, <1>6, <1>9 DEF Place
<1>11. Carried(heap, N, s2, dst, n) /\ Delivered(heap, s2, node, dst, n)
  BY <1>1, <1>3, <1>4, <1>6, <1>9, CarriedEffect
<1> HIDE DEF s2
<1>12. /\ Tiled(s2, N) /\ Joined(s2, N) /\ s2.last = heap.last /\ s2.first = heap.first
       /\ Used(s2, dst) /\ Length(s2, dst) = l
       /\ \A b \in N : b # dst => SameHead(heap, s2, b)
       /\ Same(heap, s2, dst..(dst + n))
       /\ \A i \in 1..n : node + i \in Place => s2.word[dst + i] = heap.word[node + i]
  BY <1>10, <1>11 DEF Carried, Delivered, Same
<1>13. Used(s2, node) /\ node # s2.last
  BY <1>4, <1>5, <1>6, <1>12 DEF SameHead
<1>14. PICK M : NodeFreed(s2, N, s3, M, node)
  <2> HIDE DEF s3
  <2> QED
    BY ONLY <1>4, <1>12, <1>13, FreeNode DEF s3
<1> HIDE DEF s3
<1>15. Tiled(s3, M) /\ Frame(s2, N, s3, M, node) /\ Same(s2, s3, Touched(s2, N, node))
  BY <1>14 DEF NodeFreed, Frame, Same
<1>16. /\ s3 \in Chunk /\ IsNode(s3, dst) /\ Length(s3, dst) = l
       /\ \A c \in Area(s2, dst) : c \in Place => s3.word[c] = s2.word[c]
  <2>1. /\ dst \in M /\ SameHead(s2, s3, dst)
        /\ \A c \in Area(s2, dst) : c \in Place => s3.word[c] = s2.word[c]
    BY ONLY <1>4, <1>6, <1>12, <1>15, FrameKeeps
  <2> QED
    BY <1>12, <1>15, <2>1, TiledFacts DEF SameHead
<1>17. NodeTaken(s3, s4, dst, n, l)
  <2>1. NodeTaken(s3, s4, dst, n, Length(s3, dst))
    BY ONLY <1>1, <1>16, AllocNodeTakes
  <2> QED
    BY <1>16, <2>1
<1> HIDE DEF s4
<1>18. /\ s4 \in Chunk /\ IsNode(s4, dst) /\ Used(s4, dst) /\ NextOf(s4, dst) = dst + 1 + n
       /\ Same(s3, s4, Cuts(dst, n, l))
  BY <1>17 DEF NodeTaken
<1>19. PutTo(s4, t, inner[p], Slot(dst))
  BY <1>4, <1>9, <1>18, SlotWord, PutEffect
<1> HIDE DEF t
<1>20. t.word[inner[p]] = Slot(dst) /\ Same(s4, t, {inner[p]})
  BY <1>19 DEF PutTo, Same
<1>21. dst # inner[p]
  BY <1>3, <1>4, <1>9
<1>22. IsNode(t, dst) /\ Used(t, dst) /\ NextOf(t, dst) = dst + 1 + n
  <2>1. SameHead(s4, t, dst)
    BY <1>9, <1>20, <1>21, SameWord DEF Same
  <2> QED
    BY <1>18, <2>1 DEF SameHead
<1> HIDE DEF l
<1>23. CASE q = p
  <2>1. ASSUME NEW i \in 1..w PROVE t.word[dst + i] = Data(p)
    <3>1. /\ i \in 1..n /\ i \in 1..written[p] /\ node + i \in Place /\ dst + i \in Place
          /\ dst + i \in Area(s2, dst) /\ dst + i < heap.first
      <4>1. i \in Nat /\ i >= 1 /\ i <= written[p] /\ i < n
        BY <1>1, <1>4, <1>8, <1>23
      <4>2. node + i < heap.last /\ dst + i < dst + n /\ dst + n <= dst + l
        <5>1. n <= l /\ l \in Nat
          BY <1>6, <1>9 DEF l
        <5> QED
          BY <1>1, <1>3, <1>4, <1>9, <4>1, <5>1
      <4>3. dst + i < heap.first /\ dst + i <= dst + l
        BY <1>1, <1>3, <1>9, <4>1, <4>2
      <4>4. dst + i \in Area(s2, dst)
        BY <1>9, <1>12, <4>1, <4>3 DEF Area, l
      <4> QED
        BY <1>1, <1>3, <1>4, <1>9, <4>1, <4>2, <4>3, <4>4 DEF Place
    <3>2. dst + i # inner[p] /\ dst + i \notin Cuts(dst, n, l)
      BY <1>1, <1>3, <1>4, <1>8, <1>9, <3>1 DEF Cuts
    <3>3. t.word[dst + i] = s3.word[dst + i]
      BY <1>18, <1>20, <3>1, <3>2 DEF Same
    <3>4. s3.word[dst + i] = heap.word[node + i]
      BY <1>12, <1>16, <3>1
    <3> QED
      BY <1>4, <3>1, <3>3, <3>4
  <2>2. Lasts(t, inner[q], q, w)
    BY <1>9, <1>20, <1>22, <1>23, <2>1, NodeAtSlot
  <2> QED
    BY <1>7, <2>2 DEF w
<1>24. CASE q # p
  <2>1. a # node /\ inner[q] # inner[p]
    <3>1. a # node
      BY <1>1, <1>2, <1>24, NodeHeldOnce
    <3> QED
      BY <1>1, <1>24, <3>1 DEF Good
  <2> DEFINE X == (((dst..(dst + n)) \cup Touched(s2, N, node)) \cup Cuts(dst, n, l)) \cup {inner[p]}
  <2>2. Same(heap, t, X)
    <3>1. Same(heap, s3, (dst..(dst + n)) \cup Touched(s2, N, node))
      BY <1>12, <1>15, SameTrans
    <3>2. Same(heap, s4, ((dst..(dst + n)) \cup Touched(s2, N, node)) \cup Cuts(dst, n, l))
      BY <1>18, <3>1, SameTrans
    <3> QED
      BY <1>20, <3>2, SameTrans
  <2>3. \A d \in dst..(dst + n) : d \notin Area(heap, a)
    <3>1. \A d \in dst..(dst + n) : d \in Area(heap, dst)
      BY <1>1, <1>6, <1>9 DEF Area, l
    <3>2. Area(heap, dst) \cap Area(heap, a) = {}
      BY <1>3, <1>4, <1>6, AreasDisjoint
    <3> QED
      BY <3>1, <3>2
  <2>4. \A d \in Touched(s2, N, node) : d \notin Area(heap, a) /\ d < heap.first
    <3>1. ASSUME NEW d \in Touched(s2, N, node) PROVE d \notin Area(heap, a) /\ d < heap.first
      <4>1. d < heap.first /\ ((d \in N /\ ~ Used(s2, d)) \/ d \in Area(s2, node))
        BY <1>12 DEF Touched
      <4>2. CASE d \in Area(s2, node)
        <5>1. Area(s2, node) = Area(heap, node)
          BY <1>4, <1>6, <1>12 DEF Area, SameHead
        <5>2. Area(heap, node) \cap Area(heap, a) = {}
          BY <1>3, <1>4, <2>1, AreasDisjoint
        <5> QED
          BY <4>1, <4>2, <5>1, <5>2
      <4>3. CASE d \in N /\ ~ Used(s2, d)
        <5>1. d # a
          BY <1>4, <1>6, <1>12, <4>3 DEF SameHead
        <5>2. d \in Area(heap, d)
          BY <1>3, <4>3, TiledFacts DEF Area
        <5>3. Area(heap, d) \cap Area(heap, a) = {}
          BY <1>3, <1>4, <4>3, <5>1, AreasDisjoint
        <5> QED
          BY <4>1, <5>2, <5>3
      <4> QED
        BY <4>1, <4>2, <4>3
    <3> QED
      BY <3>1
  <2>5. \A d \in Cuts(dst, n, l) : d \notin Area(heap, a)
    <3>1. l \in Nat /\ l <= Length(heap, dst)
      BY <1>9 DEF l
    <3> QED
      BY ONLY <1>1, <1>2, <1>6, <3>1, Good(heap, N, inner, size, written), q \in Handle, CutsApart
  <2>6. inner[p] \notin Area(heap, a)
    BY <1>3, <1>4 DEF Area
  <2>7. \A d \in X : d \notin Area(heap, a)
    BY <2>3, <2>4, <2>5, <2>6
  <2> HIDE DEF X
  <2>8. CASE t.word[inner[q]] = heap.word[inner[q]]
    <3>1. Lasts(t, inner[q], q, w)
      BY ONLY <1>2, <1>8, <2>2, <2>7, <2>8, Good(heap, N, inner, size, written), q \in Handle, HeldUntouched
    <3> QED
      BY <1>7, <3>1 DEF w
  <2>9. CASE t.word[inner[q]] # heap.word[inner[q]]
    <3>1. inner[q] \in dst..(dst + n) \/ inner[q] \in Cuts(dst, n, l)
      <4>1. inner[q] \in X
        BY <1>4, <2>2, <2>9 DEF Same
      <4>2. inner[q] \notin Touched(s2, N, node)
        BY <1>3, <1>4, <2>4
      <4> QED
        BY <2>1, <4>1, <4>2 DEF X
    <3>2. dst = heap.last /\ inner[q] = heap.first /\ dst + 1 + n >= heap.first
      <4>1. CASE inner[q] \in dst..(dst + n)
        BY <1>1, <1>3, <1>4, <1>6, <1>9, <4>1 DEF l
      <4>2. CASE inner[q] \in Cuts(dst, n, l)
        <5>1. l \in Nat /\ l <= Length(heap, dst)
          BY <1>9 DEF l
        <5>2. dst = heap.last /\ inner[q] = heap.first /\ dst + n + 1 = heap.first
          BY ONLY <1>1, <1>2, <1>6, <4>2, <5>1, Good(heap, N, inner, size, written), q \in Handle, CutsSlot
        <5> QED
          BY <1>1, <1>3, <1>9, <5>2
      <4> QED
        BY <3>1, <4>1, <4>2
    <3> QED
      BY <1>7, <1>22, <2>9, <3>2 DEF SlotLost
  <2> QED
    BY <2>8, <2>9
<1> QED
  BY <1>23, <1>24

(* What defrag() does with a used node, at src: its words but the last move *)
(* down to dst, and its slot follows.                                      *)
MovedTo(s, t, src, dst, len, slot) ==
  /\ t \in Chunk /\ t.last = s.last /\ t.first = s.first /\ t.ok = s.ok
  /\ Same(s, t, (dst..(dst + len - 1)) \cup {slot}) /\ t.word[slot] = Slot(dst)
  /\ \A i \in 0..(len - 1) : t.word[dst + i] = s.word[src + i]
  /\ IsNode(t, dst) /\ NextOf(t, dst) = dst + 1 + len /\ Used(t, dst) = Used(s, src)

LEMMA MovedEffect ==
  ASSUME NEW s \in Chunk, NEW src, IsNode(s, src), Length(s, src) > 0, src + Length(s, src) < s.first,
         NEW dst \in Nat, dst <= src,
         NEW slot \in Slots(s), s.word[slot] = Slot(src), \A c \in Slots(s) : s.word[c] = Slot(src) => c = slot
  PROVE  MovedTo(s, Moved(s, src, dst), src, dst, Length(s, src), slot)
<1> DEFINE len == Length(s, src)
           s1 == Copied(s, src, dst, len)
           held == {c \in Slots(s1) : s1.word[c] = Slot(src)}
           low == CHOOSE c \in held : \A b \in held : c <= b
           t == Put(s1, slot, Slot(dst))
<1>1. /\ src \in Nat /\ src \in Place /\ len \in Nat /\ len > 0 /\ s.first \in Nat /\ s.first <= Words
      /\ Words \in Nat /\ src + len < s.first
  BY NodeFacts DEF Chunk
<1>2. CopyTo(s, s1, src, dst, len)
  BY <1>1, CopiedEffect
<1>3. Moved(s, src, dst) = IF held = {} THEN Broken(s1) ELSE Put(s1, low, Slot(dst))
  BY DEF Moved
<1> HIDE DEF s1
<1> HIDE DEF len
<1>4. dst \in Place /\ dst + len - 1 \in Place /\ dst + len < s.first
  BY <1>1 DEF Place
<1>5. /\ s1 \in Chunk /\ s1.last = s.last /\ s1.first = s.first /\ s1.ok = s.ok
      /\ \A c \in Place : c \notin dst..(dst + len - 1) => s1.word[c] = s.word[c]
      /\ \A c \in dst..(dst + len - 1) : src + c - dst \in Place => s1.word[c] = s.word[src + c - dst]
  BY <1>2, <1>4 DEF CopyTo
<1>6. slot \in Nat /\ slot \in Place /\ s.first <= slot
  BY <1>1 DEF Slots, Place
<1>7. held = {slot}
  <2>1. \A c \in Slots(s) : c \in Place /\ c \notin dst..(dst + len - 1)
    BY <1>1, <1>4 DEF Slots, Place
  <2>2. Slots(s1) = Slots(s)
    BY <1>5 DEF Slots
  <2>3. \A c \in Slots(s) : s1.word[c] = s.word[c]
    BY <1>5, <2>1
  <2> QED
    BY <2>2, <2>3
<1>8. low = slot
  <2>1. \E c \in held : \A b \in held : c <= b
    BY <1>6, <1>7
  <2>2. low \in held
    <3> HIDE DEF held
    <3> QED
      BY <2>1
  <2> QED
    BY <1>7, <2>2
<1>9. Moved(s, src, dst) = t
  <2>1. held # {}
    BY <1>7
  <2> HIDE DEF held, low
  <2> QED
    BY <1>3, <1>8, <2>1
<1> HIDE DEF held, low
<1>10. PutTo(s1, t, slot, Slot(dst))
  BY <1>4, <1>5, <1>6, SlotWord, PutEffect
<1> HIDE DEF t
<1>11. /\ t \in Chunk /\ t.last = s.last /\ t.first = s.first /\ t.ok = s.ok
       /\ t.word[slot] = Slot(dst) /\ \A c \in Place : c # slot => t.word[c] = s1.word[c]
  BY <1>5, <1>10 DEF PutTo
<1>12. Same(s, t, (dst..(dst + len - 1)) \cup {slot})
  BY <1>5, <1>11 DEF Same
<1>13. ASSUME NEW i \in 0..(len - 1) PROVE t.word[dst + i] = s.word[src + i]
  <2>1. /\ dst + i \in dst..(dst + len - 1) /\ dst + i \in Place /\ dst + i # slot
        /\ src + (dst + i) - dst = src + i /\ src + i \in Place
    BY <1>1, <1>4, <1>6 DEF Place
  <2> QED
    BY <1>5, <1>11, <2>1
<1>14. t.word[dst] = s.word[src]
  <2>1. 0 \in 0..(len - 1) /\ dst + 0 = dst /\ src + 0 = src
    BY <1>1
  <2> QED
    BY <1>13, <2>1
<1>15. IsNode(t, dst) /\ NextOf(t, dst) = dst + 1 + len /\ Used(t, dst) = Used(s, src)
  BY <1>4, <1>14 DEF IsNode, NextOf, Length, Used, len
<1>16. MovedTo(s, t, src, dst, len, slot)
  BY <1>11, <1>12, <1>13, <1>15 DEF MovedTo
<1> QED
  BY <1>9, <1>16 DEF len

(* The words of q that defrag() moves.                                     *)
Carries(q) == Least(written[q], size[q] - 1)

LEMMA CarriesFacts ==
  ASSUME NEW q \in Handle, written[q] \in Nat, size[q] \in Nat
  PROVE  /\ Carries(q) \in Int /\ Carries(q) <= written[q] /\ Carries(q) <= size[q] - 1
         /\ \A i \in 1..Carries(q) : i \in 1..written[q] /\ i < size[q] /\ i \in Nat
BY DEF Carries, Least

(* The block of q is at node d, below e, with the words that have moved.    *)
Packed(s, q, d, e) ==
  /\ d \in Nat /\ d + size[q] + 1 <= e
  /\ s.word[inner[q]] = Slot(d) /\ IsNode(s, d) /\ Used(s, d)
  /\ \A i \in 1..Carries(q) : s.word[d + i] = Data(q)

(* After k rounds of the loop: nodes before src have moved down below dst,  *)
(* the others are as they were.                                            *)
Swept(N, k, r) ==
  /\ r.s \in Chunk /\ r.s.ok /\ r.s.first = heap.first /\ r.s.last = heap.last
  /\ (r.src \in N \/ r.src = heap.first + 1)
  /\ r.src \in Nat /\ r.dst \in Nat /\ r.dst <= r.src /\ (k <= r.src \/ heap.last < r.src)
  /\ \A c \in Place : r.src <= c /\ c < heap.first => r.s.word[c] = heap.word[c]
  /\ \A q \in Handle : inner[q] # none =>
       IF r.src <= NodeOf(q) THEN r.s.word[inner[q]] = heap.word[inner[q]]
       ELSE \E d : Packed(r.s, q, d, r.dst)
  /\ \A c \in Slots(heap) : r.s.word[c] = Zero \/ \E q \in Handle : inner[q] = c

LEMMA SweptBegins ==
  ASSUME NEW N, Good(heap, N, inner, size, written)
  PROVE  Swept(N, 0, [s |-> heap, src |-> 0, dst |-> 0])
<1>1. /\ heap \in Chunk /\ heap.ok /\ 0 \in N
      /\ \A c \in Slots(heap) : heap.word[c] = Zero \/ \E q \in Handle : inner[q] = c
  BY DEF Good, Tiled, Chain, Owned
<1>2. \A q \in Handle : inner[q] # none => 0 <= NodeOf(q)
  BY HeldFacts DEF Held
<1> QED
  BY <1>1, <1>2 DEF Swept

(* The next round: the head at src is the one that has always been there.   *)
LEMMA SweptHead ==
  ASSUME NEW N, Good(heap, N, inner, size, written), NEW k \in Nat, NEW r, Swept(N, k, r),
         ~ (heap.last < r.src)
  PROVE  /\ r.src \in N /\ SameHead(heap, r.s, r.src) /\ IsNode(r.s, r.src)
         /\ NextOf(heap, r.src) \in N \/ NextOf(heap, r.src) = heap.first + 1
         /\ NextOf(heap, r.src) \in Nat /\ NextOf(heap, r.src) = r.src + 1 + Length(heap, r.src)
         /\ Length(heap, r.src) \in Nat
         /\ \A q \in Handle : inner[q] # none =>
              NodeOf(q) \in Nat /\ (r.src < NodeOf(q) => NextOf(heap, r.src) <= NodeOf(q))
         /\ heap.first \in Nat /\ heap.first <= Words /\ heap.last \in Nat /\ heap.last < heap.first
<1>1. Tiled(heap, N) /\ heap.last \in N
  BY DEF Good, Tiled, Chain
<1>2. heap.last \in Nat /\ heap.first \in Nat /\ heap.last < heap.first /\ heap.first <= Words
  BY <1>1, TiledFacts
<1>3. r.src \in N /\ r.src \in Nat /\ r.src < heap.first
  BY <1>2 DEF Swept
<1>4. /\ r.src \in Place /\ IsNode(heap, r.src) /\ NextOf(heap, r.src) \in Nat
      /\ NextOf(heap, r.src) = r.src + 1 + Length(heap, r.src) /\ Length(heap, r.src) \in Nat
      /\ (r.src # heap.last => NextOf(heap, r.src) \in N)
  BY <1>1, <1>3, TiledFacts
<1>5. r.s.word[r.src] = heap.word[r.src]
  BY <1>3, <1>4 DEF Swept
<1>6. SameHead(heap, r.s, r.src) /\ IsNode(r.s, r.src)
  BY <1>4, <1>5, SameWord DEF SameHead
<1>7. NextOf(heap, r.src) \in N \/ NextOf(heap, r.src) = heap.first + 1
  BY <1>1, <1>4 DEF Tiled
<1>8. ASSUME NEW q \in Handle, inner[q] # none
      PROVE  NodeOf(q) \in Nat /\ (r.src < NodeOf(q) => NextOf(heap, r.src) <= NodeOf(q))
  BY <1>1, <1>3, <1>8, HeldFacts DEF Held, Tiled, Chain
<1> QED
  BY <1>2, <1>3, <1>4, <1>6, <1>7, <1>8

(* A free node is passed by.                                               *)
LEMMA SweptFree ==
  ASSUME NEW N, Good(heap, N, inner, size, written), NEW k \in Nat, NEW r, Swept(N, k, r),
         ~ (heap.last < r.src), ~ Used(heap, r.src)
  PROVE  Swept(N, k + 1, [r EXCEPT !.src = NextOf(heap, r.src)])
<1> DEFINE next == NextOf(heap, r.src)
           u == [r EXCEPT !.src = next]
<1>1. /\ (next \in N \/ next = heap.first + 1)
      /\ next \in Nat /\ r.src < next /\ heap.last \in Nat
      /\ \A q \in Handle : inner[q] # none => NodeOf(q) \in Nat /\ (r.src < NodeOf(q) => next <= NodeOf(q))
  <2>1. r.src \in Nat
    BY DEF Swept
  <2> QED
    BY <2>1, SweptHead
<1> HIDE DEF next
<1>2. u.s = r.s /\ u.src = next /\ u.dst = r.dst
  BY DEF Swept
<1> HIDE DEF u
<1>3. ASSUME NEW q \in Handle, inner[q] # none
      PROVE  IF next <= NodeOf(q) THEN r.s.word[inner[q]] = heap.word[inner[q]]
             ELSE \E d : Packed(r.s, q, d, r.dst)
  <2>1. NodeOf(q) # r.src /\ NodeOf(q) \in Nat /\ r.src \in Nat
    BY <1>3, HeldFacts DEF Held, Swept
  <2>2. next <= NodeOf(q) <=> r.src <= NodeOf(q)
    BY <1>1, <1>3, <2>1
  <2> QED
    BY <1>3, <2>2 DEF Swept
<1>4. u.dst <= u.src /\ (k + 1 <= u.src \/ heap.last < u.src)
  BY <1>1, <1>2 DEF Swept
<1>5. \A c \in Place : u.src <= c /\ c < heap.first => u.s.word[c] = heap.word[c]
  <2>1. \A c \in Place : u.src <= c => r.src <= c
    BY <1>1, <1>2 DEF Swept, Place
  <2> QED
    BY <1>2, <2>1 DEF Swept
<1>6. Swept(N, k + 1, u)
  BY <1>1, <1>2, <1>3, <1>4, <1>5 DEF Swept
<1> QED
  BY <1>6 DEF u, next

(* A used node is moved, with the only slot that leads to it.              *)
LEMMA SweptUsed ==
  ASSUME NEW N, Good(heap, N, inner, size, written), NEW k \in Nat, NEW r, Swept(N, k, r),
         ~ (heap.last < r.src), Used(heap, r.src),
         \A q \in Handle : inner[q] # none => size[q] > 0,
         NEW t, t = Moved(r.s, r.src, r.dst)
  PROVE  /\ t.ok /\ IsNode(t, r.dst)
         /\ Swept(N, k + 1, [s |-> t, src |-> NextOf(heap, r.src), dst |-> NextOf(t, r.dst)])
<1> DEFINE next == NextOf(heap, r.src)
           len == Length(heap, r.src)
           u == [s |-> t, src |-> next, dst |-> NextOf(t, r.dst)]
<1>1. /\ r.src \in N /\ SameHead(heap, r.s, r.src) /\ IsNode(r.s, r.src)
      /\ (next \in N \/ next = heap.first + 1)
      /\ next \in Nat /\ next = r.src + 1 + len /\ len \in Nat
      /\ \A q \in Handle : inner[q] # none => NodeOf(q) \in Nat /\ (r.src < NodeOf(q) => next <= NodeOf(q))
      /\ heap.first \in Nat /\ heap.first <= Words /\ heap.last \in Nat /\ heap.last < heap.first
  BY SweptHead
<1>2. /\ r.s \in Chunk /\ r.s.ok /\ r.s.first = heap.first /\ r.s.last = heap.last
      /\ r.src \in Nat /\ r.dst \in Nat /\ r.dst <= r.src
      /\ \A c \in Place : r.src <= c /\ c < heap.first => r.s.word[c] = heap.word[c]
      /\ \A c \in Slots(heap) : r.s.word[c] = Zero \/ \E q \in Handle : inner[q] = c
  BY DEF Swept
<1>3. \A q \in Handle : inner[q] # none =>
        IF r.src <= NodeOf(q) THEN r.s.word[inner[q]] = heap.word[inner[q]]
        ELSE \E d : Packed(r.s, q, d, r.dst)
  BY DEF Swept
<1>4. PICK p \in Handle : inner[p] # none /\ heap.word[inner[p]] = Slot(r.src)
  BY <1>1 DEF Good
<1>5. Held(p, N, r.src) /\ NodeOf(p) = r.src
  <2>1. Held(p, N, NodeOf(p))
    BY <1>4, HeldFacts
  <2>2. NodeOf(p) = r.src
    <3>1. r.src \in Place /\ NodeOf(p) \in Place
      BY <1>1, <2>1 DEF Held, IsNode
    <3> QED
      BY <1>4, <2>1, <3>1, SlotOf DEF Held
  <2> QED
    BY <2>1, <2>2
<1>6. /\ len = size[p] /\ len > 0 /\ r.src + len < heap.last /\ inner[p] \in Place /\ heap.first <= inner[p]
      /\ inner[p] \in Nat /\ written[p] \in Nat /\ written[p] <= size[p] /\ inner[p] \in Slots(heap)
      /\ \A i \in 1..written[p] : heap.word[r.src + i] = Data(p)
  BY <1>4, <1>5 DEF Held, Place, Slots
<1>7. r.s.word[inner[p]] = Slot(r.src)
  BY <1>2, <1>3, <1>4, <1>5
<1>8. ASSUME NEW q \in Handle, inner[q] # none
      PROVE  /\ Held(q, N, NodeOf(q)) /\ NodeOf(q) \in Nat /\ NodeOf(q) \in Place
             /\ inner[q] \in Place /\ inner[q] \in Nat /\ heap.first <= inner[q]
             /\ (q # p => inner[q] # inner[p] /\ NodeOf(q) # r.src)
             /\ size[q] \in Nat /\ written[q] \in Nat /\ written[q] <= size[q]
             /\ heap.word[inner[q]] = Slot(NodeOf(q))
  <2>1. Held(q, N, NodeOf(q))
    BY <1>8, HeldFacts
  <2>2. q # p => inner[q] # inner[p] /\ NodeOf(q) # r.src
    BY <1>4, <1>8, <2>1 DEF Good, Held
  <2> QED
    BY <2>1, <2>2 DEF Held, Place
<1>9. ASSUME NEW c \in Slots(r.s), r.s.word[c] = Slot(r.src) PROVE c = inner[p]
  <2>1. c \in Slots(heap) /\ r.src \in Place
    BY <1>1, <1>2 DEF Slots, IsNode
  <2>2. r.s.word[c] # Zero
    BY <1>9, <2>1, SlotWord
  <2>3. PICK q \in Handle : inner[q] = c
    BY <1>2, <2>1, <2>2
  <2>4. inner[q] # none
    BY <1>1, <2>1, <2>3 DEF Slots, none
  <2>5. CASE r.src <= NodeOf(q)
    <3>1. Slot(NodeOf(q)) = Slot(r.src)
      BY <1>3, <1>8, <1>9, <2>3, <2>4, <2>5
    <3>2. NodeOf(q) = r.src
      BY <1>8, <2>1, <2>4, <3>1, SlotOf
    <3> QED
      BY <1>8, <2>3, <2>4, <3>2
  <2>6. CASE ~ (r.src <= NodeOf(q))
    <3>1. PICK d : Packed(r.s, q, d, r.dst)
      BY <1>3, <2>4, <2>6
    <3>2. d \in Place /\ Slot(d) = Slot(r.src) /\ d \in Nat /\ d + size[q] + 1 <= r.dst
      BY <1>9, <2>3, <3>1 DEF Packed, IsNode
    <3>3. d = r.src
      BY <2>1, <3>2, SlotOf
    <3> QED
      BY <1>2, <1>8, <2>4, <3>2, <3>3
  <2> QED
    BY <2>5, <2>6
<1>10. MovedTo(r.s, t, r.src, r.dst, len, inner[p])
  <2>1. Length(r.s, r.src) = len /\ inner[p] \in Slots(r.s) /\ r.src + len < r.s.first
    BY <1>1, <1>2, <1>6 DEF SameHead, Slots
  <2>2. Length(r.s, r.src) > 0 /\ r.src + Length(r.s, r.src) < r.s.first
    BY <1>6, <2>1
  <2>3. \A c \in Slots(r.s) : r.s.word[c] = Slot(r.src) => c = inner[p]
    BY <1>9
  <2>4. MovedTo(r.s, Moved(r.s, r.src, r.dst), r.src, r.dst, Length(r.s, r.src), inner[p])
    BY ONLY <1>1, <1>2, <1>7, <2>1, <2>2, <2>3, MovedEffect
  <2> QED
    BY <2>1, <2>4
<1> HIDE DEF len, next
<1>11. /\ t \in Chunk /\ t.last = heap.last /\ t.first = heap.first /\ t.ok /\ Used(t, r.dst)
       /\ t.word[inner[p]] = Slot(r.dst) /\ IsNode(t, r.dst) /\ NextOf(t, r.dst) = r.dst + 1 + len
       /\ \A i \in 0..(len - 1) : t.word[r.dst + i] = r.s.word[r.src + i]
       /\ \A c \in Place : c \notin r.dst..(r.dst + len - 1) /\ c # inner[p] => t.word[c] = r.s.word[c]
  BY <1>1, <1>2, <1>10 DEF MovedTo, Same, SameHead
<1>12. u.s = t /\ u.src = next /\ u.dst = r.dst + 1 + len
  BY <1>11
<1> HIDE DEF u
<1>13. ASSUME NEW c \in Place, heap.first <= c, c # inner[p] PROVE t.word[c] = r.s.word[c]
  <2>1. c \notin r.dst..(r.dst + len - 1)
    BY <1>1, <1>2, <1>6, <1>13 DEF Place
  <2> QED
    BY <1>11, <1>13, <2>1
<1>14. ASSUME NEW c \in Place, next <= c, c < heap.first PROVE t.word[c] = heap.word[c]
  <2>1. c \notin r.dst..(r.dst + len - 1) /\ c # inner[p] /\ r.src <= c
    BY <1>1, <1>2, <1>6, <1>14 DEF Place
  <2> QED
    BY <1>2, <1>11, <1>14, <2>1
<1>15. ASSUME NEW q \in Handle, inner[q] # none
       PROVE  IF next <= NodeOf(q) THEN t.word[inner[q]] = heap.word[inner[q]]
              ELSE \E d : Packed(t, q, d, r.dst + 1 + len)
  <2>1. CASE q = p
    <3>1. ~ (next <= NodeOf(q))
      BY <1>1, <1>2, <1>5, <2>1
    <3>2. ASSUME NEW i \in 1..Carries(q) PROVE t.word[r.dst + i] = Data(q)
      <4>0. i \in 1..written[p] /\ i < size[p] /\ i \in Nat
        <5>1. q = p /\ written[q] \in Nat /\ size[q] \in Nat
          BY <1>1, <1>6, <2>1
        <5>2. i \in 1..written[q] /\ i < size[q] /\ i \in Nat
          BY ONLY <5>1, q \in Handle, i \in 1..Carries(q), CarriesFacts
        <5> QED
          BY <5>1, <5>2
      <4>1. /\ i \in 0..(len - 1) /\ i \in 1..written[p] /\ r.src + i \in Place
            /\ r.src <= r.src + i /\ r.src + i < heap.first
        BY <1>1, <1>2, <1>6, <4>0 DEF Place
      <4>2. r.s.word[r.src + i] = heap.word[r.src + i]
        BY <1>2, <4>1
      <4> QED
        BY <1>6, <1>11, <2>1, <4>1, <4>2
    <3>3. r.dst + size[q] + 1 <= r.dst + 1 + len
      BY <1>1, <1>2, <1>6, <2>1
    <3>4. Packed(t, q, r.dst, r.dst + 1 + len)
      BY <1>2, <1>11, <2>1, <3>2, <3>3 DEF Packed
    <3> QED
      BY <3>1, <3>4
  <2>2. CASE q # p
    <3>1. /\ inner[q] \in Place /\ heap.first <= inner[q] /\ inner[q] # inner[p]
          /\ NodeOf(q) # r.src /\ NodeOf(q) \in Nat
          /\ size[q] \in Nat /\ written[q] \in Nat /\ written[q] <= size[q]
      BY <1>8, <1>15, <2>2
    <3>2. t.word[inner[q]] = r.s.word[inner[q]]
      BY <1>13, <3>1
    <3>3. next <= NodeOf(q) <=> r.src <= NodeOf(q)
      BY <1>1, <1>2, <1>15, <3>1
    <3>4. CASE next <= NodeOf(q)
      BY <1>3, <1>15, <3>2, <3>3, <3>4
    <3>5. CASE ~ (next <= NodeOf(q))
      <4>1. PICK d : Packed(r.s, q, d, r.dst)
        BY <1>3, <1>15, <3>3, <3>5
      <4>2. d \in Nat /\ d + size[q] + 1 <= r.dst /\ r.s.word[inner[q]] = Slot(d)
            /\ IsNode(r.s, d) /\ Used(r.s, d)
            /\ \A i \in 1..Carries(q) : r.s.word[d + i] = Data(q)
        BY <4>1 DEF Packed
      <4>3. ASSUME NEW i \in Nat, i <= size[q] PROVE t.word[d + i] = r.s.word[d + i]
        <5>1. d + i \in Nat /\ d + i < r.dst /\ d + i < heap.first
          BY <1>1, <1>2, <1>6, <3>1, <4>2, <4>3
        <5>2. d + i \in Place /\ d + i \notin r.dst..(r.dst + len - 1) /\ d + i # inner[p]
          BY <1>1, <1>2, <1>6, <5>1 DEF Place
        <5> QED
          BY <1>11, <5>2
      <4>4. IsNode(t, d) /\ Used(t, d)
        <5>1. t.word[d + 0] = r.s.word[d + 0] /\ d + 0 = d
          BY <3>1, <4>2, <4>3
        <5> QED
          BY <4>2, <5>1 DEF IsNode, Used
      <4>5. \A i \in 1..Carries(q) : t.word[d + i] = Data(q)
        <5>1. \A i \in 1..Carries(q) : i \in Nat /\ i <= size[q]
          BY <3>1, CarriesFacts
        <5> QED
          BY <4>2, <4>3, <5>1
      <4>6. d + size[q] + 1 <= r.dst + 1 + len
        BY <1>1, <1>2, <3>1, <4>2
      <4>7. Packed(t, q, d, r.dst + 1 + len)
        BY <3>2, <4>2, <4>4, <4>5, <4>6 DEF Packed
      <4> QED
        BY <3>5, <4>7
    <3> QED
      BY <3>4, <3>5
  <2> QED
    BY <2>1, <2>2
<1>16. ASSUME NEW c \in Slots(heap) PROVE t.word[c] = Zero \/ \E q \in Handle : inner[q] = c
  <2>1. c \in Place /\ heap.first <= c
    BY <1>1 DEF Slots, Place
  <2> QED
    BY <1>2, <1>13, <2>1
<1>17. u.dst \in Nat /\ u.dst <= u.src /\ (k + 1 <= u.src \/ heap.last < u.src)
  <2>1. k <= r.src
    BY DEF Swept
  <2> QED
    BY <1>1, <1>2, <1>12, <2>1
<1>18. Swept(N, k + 1, u)
  BY <1>1, <1>11, <1>12, <1>14, <1>15, <1>16, <1>17 DEF Swept
<1> QED
  BY <1>11, <1>18 DEF u, next

LEMMA SweptStep ==
  ASSUME NEW N, Good(heap, N, inner, size, written), NEW k \in Nat, NEW r, Swept(N, k, r),
         \A q \in Handle : inner[q] # none => size[q] > 0
  PROVE  Swept(N, k + 1, CompactStep(r))
<1> DEFINE moved == Moved(r.s, r.src, r.dst)
<1>1. /\ r.s.ok /\ r.s.last = heap.last /\ r.src \in Nat /\ heap.last \in Nat
      /\ CompactStep(r) =
           IF ~ r.s.ok \/ r.src > r.s.last THEN r
           ELSE IF ~ IsNode(r.s, r.src) THEN [r EXCEPT !.s = Broken(r.s)]
           ELSE IF ~ Used(r.s, r.src) THEN [r EXCEPT !.src = NextOf(r.s, r.src)]
           ELSE IF ~ moved.ok \/ ~ IsNode(moved, r.dst) THEN [r EXCEPT !.s = Broken(r.s)]
           ELSE [s |-> moved, src |-> NextOf(r.s, r.src), dst |-> NextOf(moved, r.dst)]
  BY DEF CompactStep, Swept, Good, Tiled, Chunk
<1> HIDE DEF moved
<1>2. CASE heap.last < r.src
  <2>1. CompactStep(r) = r
    BY <1>1, <1>2
  <2>2. Swept(N, k + 1, r)
    BY <1>2 DEF Swept
  <2> QED
    BY <2>1, <2>2
<1>3. CASE ~ (heap.last < r.src)
  <2>1. SameHead(heap, r.s, r.src) /\ IsNode(r.s, r.src)
    BY <1>3, SweptHead
  <2>2. Used(r.s, r.src) = Used(heap, r.src) /\ NextOf(r.s, r.src) = NextOf(heap, r.src)
    BY <2>1 DEF SameHead
  <2>3. ~ (r.src > r.s.last)
    BY <1>1, <1>3
  <2>4. CASE ~ Used(heap, r.src)
    <3>1. CompactStep(r) = [r EXCEPT !.src = NextOf(heap, r.src)]
      BY <1>1, <2>1, <2>2, <2>3, <2>4
    <3> QED
      BY <1>3, <2>4, <3>1, SweptFree
  <2>5. CASE Used(heap, r.src)
    <3>1. /\ moved.ok /\ IsNode(moved, r.dst)
          /\ Swept(N, k + 1, [s |-> moved, src |-> NextOf(heap, r.src), dst |-> NextOf(moved, r.dst)])
      BY <1>3, <2>5, SweptUsed DEF moved
    <3>2. CompactStep(r) = [s |-> moved, src |-> NextOf(heap, r.src), dst |-> NextOf(moved, r.dst)]
      BY <1>1, <2>1, <2>2, <2>3, <2>5, <3>1
    <3> QED
      BY <3>1, <3>2
  <2> QED
    BY <2>4, <2>5
<1> QED
  BY <1>2, <1>3

(* The loop ends behind the last node.                                     *)
LEMMA CompactSweeps ==
  ASSUME NEW N, Good(heap, N, inner, size, written),
         \A q \in Handle : inner[q] # none => size[q] > 0
  PROVE  Swept(N, Words, Compact)
<1>1. heap \in Chunk
  BY DEF Good, Tiled
<1>2. PICK pass : Passes(pass) /\ Compact = pass[Words]
  BY <1>1, CompactPasses
<1> DEFINE Bad == {k \in 0..Words : ~ Swept(N, k, pass[k])}
<1>3. CASE Bad = {}
  <2>1. Words \in 0..Words
    OBVIOUS
  <2> QED
    BY <1>2, <1>3, <2>1
<1>4. CASE Bad # {}
  <2>1. Bad \in SUBSET Nat
    OBVIOUS
  <2>2. PICK m \in Bad : \A n \in Bad : m <= n
    <3> HIDE DEF Bad
    <3> QED
      BY <1>4, <2>1, LeastNatural
  <2>3. m \in 0..Words /\ ~ Swept(N, m, pass[m])
    OBVIOUS
  <2>4. m # 0
    <3>1. Swept(N, 0, pass[0])
      BY <1>2, SweptBegins DEF Passes
    <3> QED
      BY <2>3, <3>1
  <2>5. m - 1 \in 0..Words /\ ~ (m <= m - 1) /\ m \in 1..Words /\ m - 1 \in Nat /\ (m - 1) + 1 = m
    BY <2>3, <2>4
  <2>6. m - 1 \notin Bad
    <3> HIDE DEF Bad
    <3> QED
      BY <2>2, <2>5
  <2>7. Swept(N, m - 1, pass[m - 1])
    BY <2>5, <2>6
  <2>8. pass[m] = CompactStep(pass[m - 1])
    BY <1>2, <2>5 DEF Passes
  <2> HIDE DEF Bad
  <2>9. Swept(N, (m - 1) + 1, CompactStep(pass[m - 1]))
    BY <2>5, <2>7, SweptStep
  <2> QED
    BY <2>3, <2>5, <2>8, <2>9
<1> QED
  BY <1>3, <1>4

LEMMA DefragKeeps ==
  ASSUME NEW N, Good(heap, N, inner, size, written), Defrag, heap'.ok,
         \A q \in Handle : inner[q] # none => size[q] > 0,
         NEW q \in Handle, inner[q] # none
  PROVE  Lasts(heap', inner[q], q, Carries(q)) \/ SlotLost(q)
<1> DEFINE s == Compact.s
           dst == Compact.dst
           e == NextOf(s, dst)
           w == Head(FALSE, s.first - dst - 1)
           t == Put(s, e, w)
<1>1. heap' = IF ~ s.ok \/ s.first <= dst THEN s ELSE IF ~ IsNode(s, dst) THEN Broken(s) ELSE t
  BY DEF Defrag
<1>2. Swept(N, Words, Compact)
  BY CompactSweeps
<1>3. /\ s \in Chunk /\ s.ok /\ s.first = heap.first /\ dst \in Nat
      /\ (Words <= Compact.src \/ heap.last < Compact.src)
      /\ Compact.src \in Nat
  BY <1>2 DEF Swept
<1>4. /\ NodeOf(q) \in Nat /\ NodeOf(q) < heap.last /\ size[q] \in Nat /\ written[q] \in Nat
      /\ written[q] <= size[q] /\ inner[q] \in Place /\ inner[q] \in Nat
      /\ heap.word[inner[q]] = Slot(NodeOf(q)) /\ NodeOf(q) \in Place
      /\ heap.last \in Nat /\ heap.last < heap.first /\ heap.first <= Words /\ heap.first \in Nat
  <2>1. Held(q, N, NodeOf(q)) /\ Tiled(heap, N)
    BY HeldFacts DEF Good
  <2>2. heap.last \in Nat /\ heap.last < heap.first /\ heap.first <= Words /\ heap.first \in Nat
    BY <2>1, TiledFacts DEF Held
  <2> QED
    BY <2>1, <2>2 DEF Held, Place
<1>5. PICK d : Packed(s, q, d, dst)
  <2>1. ~ (Compact.src <= NodeOf(q))
    BY <1>3, <1>4
  <2> QED
    BY <1>2, <2>1 DEF Swept
<1>6. /\ d \in Nat /\ d \in Place /\ d + size[q] + 1 <= dst /\ s.word[inner[q]] = Slot(d)
      /\ IsNode(s, d) /\ Used(s, d)
      /\ \A i \in 1..Carries(q) : s.word[d + i] = Data(q)
  BY <1>5 DEF Packed, IsNode
<1> HIDE DEF s, dst
<1>7. CASE heap' = s
  <2>1. Lasts(s, inner[q], q, Carries(q))
    BY <1>6, NodeAtSlot
  <2> QED
    BY <1>7, <2>1
<1>8. CASE heap' # s
  <2>1. IsNode(s, dst) /\ heap' = t /\ dst < s.first
    <3>1. Broken(s).ok = FALSE
      BY <1>3 DEF Broken, Chunk
    <3>2. s.first \in Nat
      BY <1>3, <1>4
    <3> HIDE DEF t
    <3>3. ~ (s.first <= dst) /\ heap' = IF ~ IsNode(s, dst) THEN Broken(s) ELSE t
      BY <1>1, <1>3, <1>8
    <3>4. heap' # Broken(s)
      BY <3>1
    <3> QED
      BY <1>3, <3>2, <3>3, <3>4
  <2>2. e \in Nat /\ dst < e
    BY <1>3, <2>1, NodeFacts
  <2> HIDE DEF e
  <2>3. e \in Place
    <3>1. e \notin Place => t.ok = FALSE
      BY <1>3 DEF Put, Broken, Chunk
    <3> QED
      BY <2>1, <3>1
  <2>4. w \in Word /\ ~ IsSlot(w)
    <3>1. s.first - dst - 1 \in Nat
      BY <1>3, <1>4, <2>1
    <3> QED
      BY <3>1, HeadWord
  <2> HIDE DEF w
  <2>5. PutTo(s, t, e, w)
    BY <1>3, <2>3, <2>4, PutEffect
  <2> HIDE DEF t
  <2>6. t.word[e] = w /\ \A c \in Place : c # e => t.word[c] = s.word[c]
    BY <2>5 DEF PutTo
  <2>7. CASE inner[q] = e
    <3>1. ~ IsSlot(heap'.word[inner[q]]) /\ heap'.word[inner[q]] # heap.word[inner[q]]
      BY <1>4, <2>1, <2>4, <2>6, <2>7, SlotWord
    <3> QED
      BY <3>1 DEF SlotLost
  <2>8. CASE inner[q] # e
    <3>1. t.word[inner[q]] = Slot(d)
      BY <1>4, <1>6, <2>6, <2>8
    <3>2. ASSUME NEW i \in Nat, i <= size[q] PROVE t.word[d + i] = s.word[d + i]
      <4>1. d + i < dst /\ d + i \in Place /\ d + i # e
        BY <1>3, <1>4, <1>6, <2>1, <2>2, <3>2 DEF Place
      <4> QED
        BY <2>6, <4>1
    <3>3. IsNode(t, d) /\ Used(t, d)
      <4>1. t.word[d + 0] = s.word[d + 0] /\ d + 0 = d
        BY <1>4, <1>6, <3>2
      <4> QED
        BY <1>6, <4>1 DEF IsNode, Used
    <3>4. \A i \in 1..Carries(q) : t.word[d + i] = Data(q)
      <4>1. \A i \in 1..Carries(q) : i \in Nat /\ i <= size[q]
        BY <1>4, CarriesFacts
      <4> QED
        BY <1>6, <3>2, <4>1
    <3>5. Lasts(t, inner[q], q, Carries(q))
      BY <1>6, <3>1, <3>3, <3>4, NodeAtSlot
    <3> QED
      BY <2>1, <3>5
  <2> QED
    BY <2>7, <2>8
<1> QED
  BY <1>7, <1>8

-----------------------------------------------------------------------------
(* The inductive invariant                                                 *)

IInv == TypeOK /\ (Undisturbed => \E N : Good(heap, N, inner, size, written))

LEMMA Beginning ==
  ASSUME Init
  PROVE  TypeOK /\ Good(heap, {0}, inner, size, written)
<1>1. Head(FALSE, Words) \in Word /\ Data(NULL) \in Word /\ IsHead(Head(FALSE, Words))
      /\ Head(FALSE, Words).used = FALSE /\ Head(FALSE, Words).len = Words
  BY HeadWord, DataWord
<1> DEFINE word == [a \in Place |-> IF a = 0 THEN Head(FALSE, Words) ELSE Data(NULL)]
<1>2. /\ heap \in Chunk /\ heap.last = 0 /\ heap.first = Words /\ heap.ok
      /\ heap.word[0] = Head(FALSE, Words) /\ 0 \in Place
  <2>1. 0 \in Place
    BY DEF Place
  <2>2. word \in [Place -> Word] /\ word[0] = Head(FALSE, Words)
    BY <1>1, <2>1
  <2>3. heap = [word |-> word, last |-> 0, first |-> Words, ok |-> TRUE]
    BY DEF Init
  <2>4. Words \in 0..Words
    OBVIOUS
  <2> HIDE DEF word
  <2> QED
    BY <2>1, <2>2, <2>3, <2>4 DEF Chunk
<1>3. IsNode(heap, 0) /\ ~ Used(heap, 0) /\ Length(heap, 0) = Words /\ NextOf(heap, 0) = Words + 1
  <2>1. IsNode(heap, 0) /\ ~ Used(heap, 0) /\ Length(heap, 0) = Words
    BY <1>1, <1>2 DEF IsNode, Used, Length
  <2> QED
    BY <2>1 DEF NextOf
<1>4. Tiled(heap, {0}) /\ Joined(heap, {0})
  BY <1>2, <1>3 DEF Tiled, Chain, Joined
<1>5. TypeOK
  <2>1. /\ inner \in [Handle -> Place \cup {none}] /\ size \in [Handle -> Nat] /\ since \in 0..MaxSince
        /\ written \in [Handle -> Nat] /\ \A p \in Handle : written[p] <= size[p]
    BY DEF Init
  <2> QED
    BY <1>2, <2>1 DEF TypeOK, Chunk
<1>6. \A q \in Handle : inner[q] = none /\ written[q] \in Nat /\ written[q] <= size[q]
  BY DEF Init
<1>7. Owned(heap, inner)
  BY <1>2 DEF Owned, Slots
<1> QED
  BY <1>2, <1>3, <1>4, <1>5, <1>6, <1>7 DEF Good

LEMMA SinceType ==
  ASSUME TypeOK, Following, NEW met, After(met)
  PROVE  since' \in 0..MaxSince
BY DEF TypeOK, Following, After

LEMMA ResizedType ==
  ASSUME TypeOK, NEW p \in Handle, NEW n \in Nat, Resized(p, n)
  PROVE  /\ inner' \in [Handle -> Place \cup {none}] /\ size' \in [Handle -> Nat]
         /\ written' \in [Handle -> Nat] /\ \A q \in Handle : written'[q] <= size'[q]
<1>1. Least(written[p], n) \in Nat /\ Least(written[p], n) <= n
  BY DEF TypeOK, Least
<1> QED
  BY <1>1 DEF TypeOK, Resized

LEMMA AllocType ==
  ASSUME TypeOK, NEW p \in Handle, NEW n \in Sizes, Alloc(p, n)
  PROVE  TypeOK'
<1> DEFINE s == place_ptr(heap)
           slot == Largest(Unused(s))
           node == find_free_node(s, n)
<1>1. heap \in Chunk /\ n \in Nat /\ Following
  BY DEF TypeOK, Chunk, Alloc
<1>2. CASE PlaceAstray(heap)
  <2>1. heap' = Broken(heap) /\ UNCHANGED <<inner, size, written>> /\ After(FALSE)
    BY <1>2 DEF Alloc
  <2>2. heap' \in Chunk
    BY <1>1, <2>1, BrokenChunk
  <2> QED
    BY <1>1, <2>1, <2>2, SinceType DEF TypeOK, Chunk
<1>3. CASE ~ PlaceAstray(heap)
  <2>1. /\ ~ NoPlace(heap)
        /\ IF node \in {none, wild}
           THEN /\ heap' = IF node = wild THEN Broken(s) ELSE s
                /\ After(Overgrows(heap))
                /\ UNCHANGED <<inner, size, written>>
           ELSE /\ heap' = alloc_node(Put(s, slot, Slot(node)), node, n)
                /\ inner' = [inner EXCEPT ![p] = slot]
                /\ size' = [size EXCEPT ![p] = n]
                /\ written' = [written EXCEPT ![p] = 0]
                /\ After(Overgrows(heap) \/ Overtakes(s, node, n))
    BY <1>3 DEF Alloc
  <2>2. s \in Chunk /\ Unused(s) # {}
    BY <1>1, <1>3, <2>1, PlaceType
  <2>3. slot \in Place
    <3>1. slot \in Unused(s)
      BY <2>2, SlotFound
    <3> HIDE DEF s, slot
    <3> QED
      BY <2>2, <3>1 DEF Unused, Slots, Chunk, Place
  <2>4. node \notin {none, wild} => node \in Place
    BY <1>1, <2>2, FoundType
  <2> HIDE DEF s, slot, node
  <2>5. CASE node \in {none, wild}
    <3>1. heap' \in Chunk /\ UNCHANGED <<inner, size, written>> /\ After(Overgrows(heap))
      BY <2>1, <2>2, <2>5, BrokenChunk
    <3> QED
      BY <1>1, <3>1, SinceType DEF TypeOK, Chunk
  <2>6. CASE node \notin {none, wild}
    <3> DEFINE s1 == Put(s, slot, Slot(node))
    <3>1. s1 \in Chunk
      BY <2>2, <2>4, <2>6, SlotWord, PutChunk
    <3>2. /\ heap' = alloc_node(s1, node, n) /\ inner' = [inner EXCEPT ![p] = slot]
          /\ size' = [size EXCEPT ![p] = n] /\ written' = [written EXCEPT ![p] = 0]
          /\ After(Overgrows(heap) \/ Overtakes(s, node, n))
      BY <2>1, <2>6
    <3> HIDE DEF s1
    <3>3. heap' \in Chunk
      BY <1>1, <3>1, <3>2, AllocNodeType
    <3>4. since' \in 0..MaxSince
      BY <1>1, <3>2, SinceType
    <3> QED
      BY <1>1, <2>3, <3>2, <3>3, <3>4 DEF TypeOK, Chunk
  <2> QED
    BY <2>5, <2>6
<1> QED
  BY <1>2, <1>3

LEMMA StepType ==
  ASSUME TypeOK, Next
  PROVE  TypeOK'
<1>1. heap \in Chunk /\ Words \in Nat
  BY DEF TypeOK, Chunk
<1>2. ASSUME heap' \in Chunk, UNCHANGED <<inner, size, written>>, since' \in 0..MaxSince
      PROVE  TypeOK'
  BY <1>2 DEF TypeOK, Chunk
<1>3. ASSUME NEW p \in Handle, NEW n \in Nat, Resized(p, n), heap' \in Chunk, since' \in 0..MaxSince
      PROVE  TypeOK'
  BY <1>3, ResizedType DEF TypeOK, Chunk
<1>4. ASSUME NEW p \in Handle, HasNode(p)
      PROVE  /\ IsNode(heap, NodeOf(p)) /\ NodeOf(p) \in Place /\ NodeOf(p) \in Nat
             /\ inner[p] # none /\ inner[p] \in Place
  BY <1>1, <1>4 DEF HasNode, TypeOK, IsNode, Place
<1>5. ASSUME NEW p \in Handle, NEW n \in Sizes, Alloc(p, n) PROVE TypeOK'
  BY <1>5, AllocType
<1>6. ASSUME NEW p \in Handle, NEW n \in Sizes, Shrink(p, n) PROVE TypeOK'
  <2>1. /\ n \in Nat /\ heap' = alloc_node(heap, NodeOf(p), n) /\ Resized(p, n)
        /\ Following /\ After(Overtakes(heap, NodeOf(p), n))
    BY <1>6 DEF Shrink
  <2>2. heap' \in Chunk /\ since' \in 0..MaxSince
    BY <1>1, <2>1, AllocNodeType, SinceType
  <2> QED
    BY <1>3, <2>1, <2>2
<1>7. ASSUME NEW p \in Handle, NEW n \in Sizes, Expand(p, n) PROVE TypeOK'
  <2>1. /\ n \in Nat /\ HasNode(p) /\ CanExpand(NodeOf(p), n)
        /\ heap' = realloc_node(heap, NodeOf(p), n) /\ Resized(p, n) /\ Following /\ After(TRUE)
    BY <1>7 DEF Expand
  <2>2. heap' \in Chunk
    BY <1>1, <1>4, <2>1, ReallocNodeType DEF CanExpand
  <2>3. since' \in 0..MaxSince
    BY <2>1, SinceType
  <2> QED
    BY <1>3, <2>1, <2>2, <2>3
<1>8. ASSUME NEW p \in Handle, NEW n \in Sizes, ExpandThrows(p, n) PROVE TypeOK'
  <2> DEFINE tail == NodeOf(p) + n + 1
  <2>1. /\ heap' = IF tail \in Place THEN Put(heap, tail, Unflagged(heap.word[tail])) ELSE Broken(heap)
        /\ UNCHANGED <<inner, size, written>> /\ Following /\ After(TRUE)
    BY <1>8 DEF ExpandThrows
  <2> HIDE DEF tail
  <2>2. ASSUME tail \in Place PROVE Unflagged(heap.word[tail]) \in Word
    <3>1. heap.word[tail] \in Word
      BY <1>1, <2>2 DEF Chunk
    <3>2. Data(NULL) \in Word
      BY DataWord
    <3>3. IsHead(heap.word[tail]) => Head(FALSE, heap.word[tail].len) \in Word
      BY <3>1, WordKinds, HeadWord
    <3> QED
      BY <3>1, <3>2, <3>3 DEF Unflagged
  <2>3. heap' \in Chunk
    BY <1>1, <2>1, <2>2, PutChunk, BrokenChunk
  <2>4. since' \in 0..MaxSince
    BY <2>1, SinceType
  <2> QED
    BY <1>2, <2>1, <2>3, <2>4
<1>9. ASSUME NEW p \in Handle, NEW n \in Sizes, Move(p, n) PROVE TypeOK'
  <2> DEFINE node == NodeOf(p)
             dst == find_free_node(heap, n)
             s1 == Copied(heap, node + 1, dst + 1, n)
             s2 == Put(s1, dst, Head(TRUE, Length(heap, dst)))
             s3 == free_node(s2, node)
             s4 == alloc_node(s3, dst, n)
  <2>1. /\ n \in Nat /\ HasNode(p) /\ Following /\ (Astray(node) \/ dst # none)
        /\ IF Astray(node) \/ dst = wild
           THEN heap' = Broken(heap) /\ UNCHANGED <<inner, size, written>> /\ After(FALSE)
           ELSE heap' = Put(s4, inner[p], Slot(dst)) /\ After(Overtakes(s3, dst, n)) /\ Resized(p, n)
    BY <1>9 DEF Move
  <2>2. CASE Astray(node) \/ dst = wild
    <3>1. heap' = Broken(heap) /\ UNCHANGED <<inner, size, written>> /\ After(FALSE)
      BY <2>1, <2>2
    <3>2. heap' \in Chunk /\ since' \in 0..MaxSince
      BY <1>1, <2>1, <3>1, BrokenChunk, SinceType
    <3> QED
      BY <1>2, <3>1, <3>2
  <2>3. CASE ~ (Astray(node) \/ dst = wild)
    <3>1. /\ heap' = Put(s4, inner[p], Slot(dst)) /\ After(Overtakes(s3, dst, n)) /\ Resized(p, n)
          /\ dst \notin {none, wild}
      BY <2>1, <2>3
    <3>2. dst \in Place /\ IsNode(heap, dst)
      BY <1>1, <2>1, <3>1, FoundType
    <3> HIDE DEF dst
    <3>3. node + 1 \in Nat /\ dst + 1 \in Nat /\ Length(heap, dst) \in Nat
      BY <1>1, <1>4, <2>1, <3>2, NodeFacts
    <3>4. s1 \in Chunk
      <4>1. CopyTo(heap, s1, node + 1, dst + 1, n)
        <5> HIDE DEF node
        <5> QED
          BY <1>1, <2>1, <3>3, CopiedEffect
      <4> QED
        BY <4>1 DEF CopyTo
    <3> HIDE DEF s1
    <3>5. s2 \in Chunk
      BY <3>3, <3>4, HeadPutType
    <3> HIDE DEF s2
    <3>6. s3 \in Chunk
      BY <3>5, FreeNodeType
    <3> HIDE DEF s3
    <3>7. s4 \in Chunk
      BY <2>1, <3>6, AllocNodeType
    <3> HIDE DEF s4
    <3>8. heap' \in Chunk
      <4>1. Slot(dst) \in Word
        BY <3>2, SlotWord
      <4> QED
        BY <3>1, <3>7, <4>1, PutChunk
    <3>9. since' \in 0..MaxSince
      BY <2>1, <3>1, SinceType
    <3> QED
      BY <1>3, <2>1, <3>1, <3>8, <3>9
  <2> QED
    BY <2>2, <2>3
<1>10. ASSUME NEW p \in Handle, Free(p) PROVE TypeOK'
  <2> DEFINE s == free_node(heap, NodeOf(p))
             s1 == Put(s, inner[p], Zero)
  <2>1. /\ heap' = squeze_ptrs(s1) /\ inner' = [inner EXCEPT ![p] = none]
        /\ size' = [size EXCEPT ![p] = 0] /\ written' = [written EXCEPT ![p] = 0]
        /\ Following /\ After(FALSE)
    BY <1>10 DEF Free
  <2>2. s \in Chunk
    BY <1>1, FreeNodeType
  <2> HIDE DEF s
  <2>3. s1 \in Chunk
    BY <2>2, ZeroWord, PutChunk
  <2> HIDE DEF s1
  <2>4. heap' \in Chunk /\ since' \in 0..MaxSince
    BY <2>1, <2>3, SqueezeType, SinceType
  <2> QED
    BY <2>1, <2>4 DEF TypeOK, Chunk
<1>11. ASSUME NEW p \in Handle, Write(p) PROVE TypeOK'
  <2> DEFINE word == [b \in Place |-> IF b \in (NodeOf(p) + 1)..(NodeOf(p) + size[p]) THEN Data(p)
                                      ELSE heap.word[b]]
  <2>1. /\ heap' = IF NodeOf(p) + size[p] \notin Place THEN Broken(heap) ELSE [heap EXCEPT !.word = word]
        /\ inner' = inner /\ size' = size /\ written' = [written EXCEPT ![p] = size[p]]
        /\ Following /\ After(FALSE)
    BY <1>11 DEF Write
  <2>2. word \in [Place -> Word]
    <3>1. Data(p) \in Word
      BY DataWord
    <3> QED
      BY <1>1, <3>1 DEF Chunk
  <2> HIDE DEF word
  <2>3. [heap EXCEPT !.word = word] \in Chunk
    BY <1>1, <2>2 DEF Chunk
  <2>4. heap' \in Chunk /\ since' \in 0..MaxSince
    BY <1>1, <2>1, <2>3, BrokenChunk, SinceType
  <2> QED
    BY <2>1, <2>4 DEF TypeOK, Chunk
<1>12. ASSUME NEW p \in Handle, Lost(p) PROVE TypeOK'
  <2>1. heap' = Broken(heap) /\ UNCHANGED <<inner, size, written>> /\ Following /\ After(FALSE)
    BY <1>12 DEF Lost
  <2>2. heap' \in Chunk /\ since' \in 0..MaxSince
    BY <1>1, <2>1, BrokenChunk, SinceType
  <2> QED
    BY <1>2, <2>1, <2>2
<1>13. ASSUME Defrag PROVE TypeOK'
  <2> DEFINE s == Compact.s
             dst == Compact.dst
  <2>1. /\ heap' = IF ~ s.ok \/ s.first <= dst THEN s
                   ELSE IF ~ IsNode(s, dst) THEN Broken(s)
                   ELSE Put(s, NextOf(s, dst), Head(FALSE, s.first - dst - 1))
        /\ UNCHANGED <<inner, size, written>> /\ Following /\ After(TRUE)
    BY <1>13 DEF Defrag
  <2>2. s \in Chunk /\ dst \in Nat
    BY <1>1, CompactType DEF Passing
  <2> HIDE DEF s, dst
  <2>3. ASSUME ~ (s.first <= dst) PROVE Put(s, NextOf(s, dst), Head(FALSE, s.first - dst - 1)) \in Chunk
    <3>1. s.first - dst - 1 \in Nat
      BY <2>2, <2>3 DEF Chunk
    <3> QED
      BY <2>2, <3>1, HeadPutType
  <2>4. heap' \in Chunk
    BY <2>1, <2>2, <2>3, BrokenChunk
  <2>5. since' \in 0..MaxSince
    BY <2>1, SinceType
  <2> QED
    BY <1>2, <2>1, <2>4, <2>5
<1> QED
  BY <1>5, <1>6, <1>7, <1>8, <1>9, <1>10, <1>11, <1>12, <1>13 DEF Next

LEMMA StepGood ==
  ASSUME IInv, Next, Undisturbed'
  PROVE  \E N : Good(heap', N, inner', size', written')
<1>1. ASSUME NEW met, After(met) PROVE Undisturbed /\ ~ met
  BY <1>1 DEF After, Undisturbed, IInv, TypeOK
<1>2. ASSUME NEW p \in Handle, NEW n \in Sizes, Alloc(p, n) PROVE Undisturbed
  <2>1. \E met : After(met)
    BY <1>2 DEF Alloc
  <2> QED
    BY <1>1, <2>1
<1>3. ASSUME NEW p \in Handle, NEW n \in Sizes, Shrink(p, n) PROVE Undisturbed
  BY <1>1, <1>3 DEF Shrink
<1>4. ASSUME NEW p \in Handle, NEW n \in Sizes PROVE ~ Expand(p, n) /\ ~ ExpandThrows(p, n)
  BY <1>1 DEF Expand, ExpandThrows
<1>5. ASSUME NEW p \in Handle, NEW n \in Sizes, Move(p, n) PROVE Undisturbed
  <2>1. \E met : After(met)
    BY <1>5 DEF Move
  <2> QED
    BY <1>1, <2>1
<1>6. ASSUME NEW p \in Handle, Free(p) \/ Write(p) \/ Lost(p) PROVE Undisturbed
  BY <1>1, <1>6 DEF Free, Write, Lost
<1>7. ~ Defrag
  BY <1>1 DEF Defrag
<1>8. Undisturbed
  BY <1>2, <1>3, <1>4, <1>5, <1>6, <1>7 DEF Next
<1>9. PICK N : Good(heap, N, inner, size, written)
  BY <1>8 DEF IInv
<1>10. TypeOK
  BY DEF IInv
<1>11. ASSUME NEW p \in Handle PROVE ~ Lost(p)
  BY <1>9, HeldNode DEF Lost
<1>12. CASE \E p \in Handle, n \in Sizes : Alloc(p, n)
  BY <1>9, <1>10, <1>12, AllocGood
<1>13. CASE \E p \in Handle, n \in Sizes : Shrink(p, n)
  BY <1>9, <1>10, <1>13, ShrinkGood
<1>14. CASE \E p \in Handle, n \in Sizes : Move(p, n)
  BY <1>9, <1>10, <1>14, MoveGood
<1>15. CASE \E p \in Handle : Free(p)
  BY <1>9, <1>10, <1>15, FreeGood
<1>16. CASE \E p \in Handle : Write(p)
  BY <1>9, <1>10, <1>16, WriteGood
<1> QED
  BY <1>4, <1>7, <1>11, <1>12, <1>13, <1>14, <1>15, <1>16 DEF Next

(* Whatever happens, a chunk stays a chunk; and until the allocator meets   *)
(* what it does not cope with, its nodes tile the chunk and every block is  *)
(* in place.                                                               *)
THEOREM Inductive == Spec => []IInv
<1>1. Init => IInv
  BY Beginning DEF IInv
<1>2. IInv /\ [Next]_vars => IInv'
  <2>1. ASSUME IInv, Next PROVE IInv'
    BY <2>1, StepType, StepGood DEF IInv
  <2>2. ASSUME IInv, UNCHANGED vars PROVE IInv'
    BY <2>2 DEF IInv, TypeOK, Undisturbed, vars
  <2> QED
    BY <2>1, <2>2
<1> QED
  BY <1>1, <1>2, PTL DEF Spec

-----------------------------------------------------------------------------
(* The last call too                                                       *)

(* A block that lasts is one that get() returns, with its contents.         *)
LEMMA LastsFound ==
  ASSUME NEW q \in Handle, inner[q] # none, inner'[q] = inner[q],
         NEW w \in Int, NEW m \in Int, m <= w, Stays(heap', inner[q], q, w)
  PROVE  /\ HasNode(q)' /\ \A i \in 1..m : heap'.word[NodeOf(q)' + i] = Data(q)
         /\ Lasts(heap', inner[q], q, w) => Gets(q)'
<1>1. NodeOf(q)' = heap'.word[inner[q]].node
  BY DEF NodeOf
<1>2. HasNode(q)'
  BY <1>1 DEF HasNode, Stays
<1>3. Lasts(heap', inner[q], q, w) => Gets(q)'
  BY <1>1, <1>2 DEF Gets, Lasts
<1>4. \A i \in 1..m : i \in 1..w
  OBVIOUS
<1> QED
  BY <1>1, <1>2, <1>3, <1>4 DEF Stays

(* The words that a call is to keep are among those written.                *)
LEMMA KeptFacts ==
  ASSUME TypeOK, TypeOK', NEW q \in Handle
  PROVE  /\ KeptWords(q) \in Int /\ written[q] \in Nat /\ written'[q] \in Nat
         /\ Defrag => KeptWords(q) = Carries(q)
         /\ ~ Defrag => /\ KeptWords(q) = Least(written[q], written'[q]) /\ KeptWords(q) <= written[q]
                        /\ KeptWords(q) <= written'[q]
<1>1. written[q] \in Nat /\ written'[q] \in Nat /\ size[q] \in Nat
  BY DEF TypeOK
<1>2. Carries(q) \in Int
  BY <1>1, CarriesFacts
<1>3. /\ Least(written[q], written'[q]) \in Int /\ Least(written[q], written'[q]) <= written[q]
      /\ Least(written[q], written'[q]) <= written'[q]
  BY <1>1 DEF Least
<1>4. CASE Defrag
  <2>1. KeptWords(q) = Carries(q)
    BY <1>4, Zenon DEF KeptWords, Carries
  <2> QED
    BY <1>1, <1>2, <1>4, <2>1
<1>5. CASE ~ Defrag
  <2>1. KeptWords(q) = Least(written[q], written'[q])
    BY <1>5, Zenon DEF KeptWords
  <2> QED
    BY <1>1, <1>3, <1>5, <2>1
<1> QED
  BY <1>4, <1>5

(* What a call leaves of a block that was there.                           *)
Kept(q) ==
  \/ /\ Gets(q)' \/ (FlagLost(q) /\ HasNode(q)')
     /\ \A i \in 1..KeptWords(q) : heap'.word[NodeOf(q)' + i] = Data(q)
  \/ SlotLost(q)

LEMMA CallKeeps ==
  ASSUME IInv, TypeOK', BlocksKept', Next, Undisturbed, heap'.ok,
         Defrag => \A p \in Handle : inner[p] # none => size[p] > 0,
         NEW q \in Handle, inner[q] # none, inner'[q] = inner[q]
  PROVE  Kept(q)
<1>1. TypeOK
  BY DEF IInv
<1>2. PICK N : Good(heap, N, inner, size, written)
  BY DEF IInv
<1>3. /\ KeptWords(q) \in Int /\ written[q] \in Nat /\ written'[q] \in Nat
      /\ Defrag => KeptWords(q) = Carries(q)
      /\ ~ Defrag => /\ KeptWords(q) = Least(written[q], written'[q]) /\ KeptWords(q) <= written[q]
                     /\ KeptWords(q) <= written'[q]
  BY <1>1, KeptFacts
<1>4. ASSUME NEW w \in Int, KeptWords(q) <= w,
             \/ Lasts(heap', inner[q], q, w)
             \/ Stays(heap', inner[q], q, w) /\ FlagLost(q)
             \/ SlotLost(q)
      PROVE  Kept(q)
  <2>1. ASSUME Stays(heap', inner[q], q, w), Lasts(heap', inner[q], q, w) \/ FlagLost(q)
        PROVE  Kept(q)
    <3>1. /\ HasNode(q)' /\ \A i \in 1..KeptWords(q) : heap'.word[NodeOf(q)' + i] = Data(q)
          /\ Lasts(heap', inner[q], q, w) => Gets(q)'
      BY ONLY <1>3, <1>4, <2>1, LastsFound, q \in Handle, inner[q] # none, inner'[q] = inner[q]
    <3> QED
      BY <2>1, <3>1 DEF Kept
  <2> QED
    BY <1>4, <2>1 DEF Lasts, Kept
<1>5. CASE Undisturbed'
  <2>1. ~ Defrag
    BY <1>5 DEF Defrag, After, Undisturbed
  <2>2. HasNode(q)' /\ Used(heap, NodeOf(q))' /\ \A i \in 1..written'[q] : heap'.word[NodeOf(q)' + i] = Data(q)
    BY <1>5 DEF BlocksKept
  <2>3. \A i \in 1..KeptWords(q) : i \in 1..written'[q]
    BY <1>3, <2>1
  <2> QED
    BY <2>2, <2>3 DEF Kept, Gets
<1>6. CASE ~ Undisturbed'
  <2>1. ASSUME NEW p \in Handle, Free(p) \/ Write(p) \/ Lost(p) PROVE FALSE
    BY <1>6, <2>1 DEF Free, Write, Lost, After, Undisturbed
  <2>2. CASE Defrag
    <3>1. \A p \in Handle : inner[p] # none => size[p] > 0
      BY <2>2
    <3>2. Lasts(heap', inner[q], q, Carries(q)) \/ SlotLost(q)
      BY ONLY <1>2, <2>2, <3>1, heap'.ok, q \in Handle, inner[q] # none, DefragKeeps
    <3>3. Carries(q) \in Int /\ KeptWords(q) <= Carries(q)
      BY <1>3, <2>2
    <3> QED
      BY <1>4, <3>2, <3>3
  <2>3. CASE ~ Defrag
    <3>1. ASSUME NEW p \in Handle, NEW n \in Sizes, Alloc(p, n) PROVE Kept(q)
      <4>1. Lasts(heap', inner[q], q, written[q]) \/ SlotLost(q)
        BY ONLY <1>1, <1>2, <3>1, heap'.ok, q \in Handle, inner[q] # none, inner'[q] = inner[q], AllocKeeps
      <4> QED
        BY <1>3, <1>4, <2>3, <4>1
    <3>2. ASSUME NEW p \in Handle, NEW n \in Sizes, Shrink(p, n) PROVE Kept(q)
      <4>1. Lasts(heap', inner[q], q, Least(written[q], written'[q]))
        BY ONLY <1>1, <1>2, <3>2, q \in Handle, inner[q] # none, ShrinkKeeps
      <4> QED
        BY <1>3, <1>4, <2>3, <4>1
    <3>3. ASSUME NEW p \in Handle, NEW n \in Sizes, Expand(p, n) PROVE Kept(q)
      <4>1. Lasts(heap', inner[q], q, Least(written[q], written'[q]))
        BY ONLY <1>1, <1>2, <3>3, q \in Handle, inner[q] # none, ExpandKeeps
      <4> QED
        BY <1>3, <1>4, <2>3, <4>1
    <3>4. ASSUME NEW p \in Handle, NEW n \in Sizes, ExpandThrows(p, n) PROVE Kept(q)
      <4>1. Stays(heap', inner[q], q, written[q]) /\ (Lasts(heap', inner[q], q, written[q]) \/ FlagLost(q))
        BY ONLY <1>1, <1>2, <3>4, heap'.ok, q \in Handle, inner[q] # none, ExpandThrowsKeeps
      <4> QED
        BY <1>3, <1>4, <2>3, <4>1
    <3>5. ASSUME NEW p \in Handle, NEW n \in Sizes, Move(p, n) PROVE Kept(q)
      <4>1. Lasts(heap', inner[q], q, Least(written[q], written'[q])) \/ SlotLost(q)
        BY ONLY <1>1, <1>2, <3>5, heap'.ok, q \in Handle, inner[q] # none, MoveKeeps
      <4> QED
        BY <1>3, <1>4, <2>3, <4>1
    <3> QED
      BY <2>1, <2>3, <3>1, <3>2, <3>3, <3>4, <3>5 DEF Next
  <2> QED
    BY <2>2, <2>3
<1> QED
  BY <1>5, <1>6

-----------------------------------------------------------------------------
(* What the runs check                                                     *)

(* Whatever the calls do, disturbed or not, heap stays a chunk of words,    *)
(* and no user has written more than it asked for.                         *)
THEOREM TypeCorrect == Spec => []TypeOK
<1>1. IInv => TypeOK
  BY DEF IInv
<1> QED
  BY <1>1, Inductive, PTL

(* Until then the nodes cover the chunk up to the table, and the last one   *)
(* is free.                                                                *)
THEOREM AlwaysTiled == Spec => []NodesTile
<1>1. IInv => NodesTile
  <2>1. SUFFICES ASSUME IInv, Undisturbed
                 PROVE  /\ heap.ok /\ heap.last \in Nodes
                        /\ \A a \in Nodes : IsNode(heap, a)
                        /\ ~ Used(heap, heap.last)
                        /\ NextOf(heap, heap.last) = heap.first + 1
    BY DEF NodesTile
  <2>2. PICK N : Good(heap, N, inner, size, written)
    BY <2>1 DEF IInv
  <2>3. heap \in Chunk /\ Chain(heap, N) /\ heap.ok /\ ~ Used(heap, heap.last)
        /\ NextOf(heap, heap.last) = heap.first + 1
    BY <2>2 DEF Good, Tiled
  <2>4. Nodes = N
    BY <2>3, NodesAreChain
  <2> QED
    BY <2>3, <2>4 DEF Chain
<1> QED
  BY <1>1, Inductive, PTL

(* Until then every block has a used node of its own below the table and    *)
(* holds what its user wrote.                                              *)
THEOREM AlwaysKept == Spec => []BlocksKept
<1>1. IInv => BlocksKept
  <2>1. SUFFICES ASSUME IInv, Undisturbed, NEW p \in Handle, inner[p] # none
                 PROVE  /\ HasNode(p) /\ NodeOf(p) \in Nodes /\ Used(heap, NodeOf(p))
                        /\ Length(heap, NodeOf(p)) = size[p] /\ NodeOf(p) + size[p] < heap.first
                        /\ \A i \in 1..written[p] : heap.word[NodeOf(p) + i] = Data(p)
    BY DEF BlocksKept
  <2>2. PICK N : Good(heap, N, inner, size, written)
    BY <2>1 DEF IInv
  <2>3. Nodes = N
    BY <2>2, NodesAreChain DEF Good, Tiled
  <2> QED
    BY <2>1, <2>2, <2>3, HeldNode
<1> QED
  BY <1>1, Inductive, PTL

(* Until then free neighbours are joined and no used node is lost.          *)
THEOREM AlwaysJoined == Spec => []FreeNodesJoined
<1>1. IInv => FreeNodesJoined
  <2>1. SUFFICES ASSUME IInv, Undisturbed, NEW a \in Nodes \ {heap.last}
                 PROVE  /\ ~ Used(heap, a) /\ a # 0 => Used(heap, NextOf(heap, a))
                        /\ Used(heap, a) => \E p \in Handle : inner[p] # none /\ NodeOf(p) = a
    BY DEF FreeNodesJoined
  <2>2. PICK N : Good(heap, N, inner, size, written)
    BY <2>1 DEF IInv
  <2>3. a \in N /\ a # heap.last
    BY <2>1, <2>2, NodesAreChain DEF Good, Tiled
  <2>4. ~ Used(heap, a) /\ a # 0 => Used(heap, NextOf(heap, a))
    BY <2>2, <2>3 DEF Good, Joined
  <2>5. ASSUME Used(heap, a) PROVE \E p \in Handle : inner[p] # none /\ NodeOf(p) = a
    <3>1. PICK p \in Handle : inner[p] # none /\ heap.word[inner[p]] = Slot(a)
      BY <2>2, <2>3, <2>5 DEF Good
    <3>2. a \in Place
      BY <2>2, <2>3, TiledFacts DEF Good
    <3>3. NodeOf(p) = a
      BY <3>1, <3>2, SlotWord DEF NodeOf
    <3> QED
      BY <3>1, <3>3
  <2> QED
    BY <2>4, <2>5
<1> QED
  BY <1>1, Inductive, PTL

(* Up to the first call that the allocator does not cope with, and through  *)
(* that call, get() returns every block that was there with what its user   *)
(* wrote, but for the four errors of the code named at CallsKeepContents:   *)
(* the last word of a node at defrag(), a slot that the call wrote over,    *)
(* the used flag behind a realloc() that throws, and defrag() of a block    *)
(* without words.                                                          *)
THEOREM ContentsKept == Spec => CallsKeepContents
<1> DEFINE Keeps ==
             Undisturbed /\ heap'.ok
               /\ (Defrag => \A p \in Handle : inner[p] # none => size[p] > 0) =>
               \A p \in Handle : inner[p] # none /\ inner'[p] = inner[p] => Kept(p)
<1>1. IInv /\ TypeOK' /\ BlocksKept' /\ [Next]_vars => [Keeps]_vars
  BY CallKeeps
<1>2. CallsKeepContents <=> [][Keeps]_vars
  BY DEF CallsKeepContents, Kept
<1> HIDE DEF Keeps
<1> QED
  BY <1>1, <1>2, Inductive, TypeCorrect, AlwaysKept, PTL DEF Spec
=============================================================================
