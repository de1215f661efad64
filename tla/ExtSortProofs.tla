--------------------------- MODULE ExtSortProofs ----------------------------
(***************************************************************************)
(* Theorems about ExtSort, for all inputs, buffers and numbers of ways.     *)
(*                                                                         *)
(* The end-of-file indicator of the stream is set on every short count, so  *)
(* that eof_flag is never raised and only one block is read; what is        *)
(* written is then a prefix of the sorted buffer, or empty.                 *)
(***************************************************************************)
EXTENDS ExtSort, FiniteSetTheorems, TLAPS

LEMMA Constants == BUF_LEN \in Nat /\ BUF_LEN >= 1 /\ Value \subseteq Int
BY BufferAssumption

-----------------------------------------------------------------------------
(* Counting in a sorted block                                              *)

(* A set of positions that has every position before one of its own is an   *)
(* initial segment, of its own length.                                     *)
LEMMA InitialSegment ==
  ASSUME NEW T \in SUBSET Index, \A i \in T : \A j \in Index : j < i => j \in T
  PROVE  /\ IsFiniteSet(T) /\ Cardinality(T) \in 0..BUF_LEN
         /\ T = 1..Cardinality(T)
<1> DEFINE Out == {i \in Nat : i >= 1 /\ i \notin T}
<1>1. Out \subseteq Nat /\ BUF_LEN + 1 \in Out
  BY Constants DEF Index
<1>2. \E m \in Out : \A i \in Out : ~ (<<i, m>> \in OpToRel(<, Nat))
  BY <1>1, WFMin, NatLessThanWellFounded, Zenon
<1>3. PICK m \in Out : \A i \in Out : ~ (i < m)
  BY <1>1, <1>2, Zenon DEF OpToRel
<1>4. m \in Nat /\ m >= 1 /\ m <= BUF_LEN + 1
  BY <1>1, <1>3, Constants
<1>5. T = 1..(m - 1)
  <2>1. ASSUME NEW i \in 1..(m - 1) PROVE i \in T
    BY <1>3, <1>4, Constants
  <2>2. ASSUME NEW i \in T PROVE i \in 1..(m - 1)
    <3>1. i \in Index /\ m \notin T
      BY <1>3
    <3>2. ~ (m < i) /\ m # i
      BY <1>4, <3>1, Constants DEF Index
    <3> QED
      BY <1>4, <3>1, <3>2 DEF Index
  <2> QED
    BY <2>1, <2>2
<1>6. IsFiniteSet(T) /\ Cardinality(T) = m - 1
  BY <1>4, <1>5, FS_Interval
<1> QED
  BY <1>4, <1>5, <1>6, Constants

(* A sorted block has as many elements in a set of values as the original. *)
LEMMA SortedCounts ==
  ASSUME NEW b \in Block, NEW s \in Sorted(b), NEW S
  PROVE  /\ s \in Block /\ Ascending(s)
         /\ IsFiniteSet({i \in Index : b[i] \in S})
         /\ Cardinality({i \in Index : s[i] \in S}) = Cardinality({i \in Index : b[i] \in S})
<1>1. PICK p \in Permutation : s = [i \in Index |-> b[p[i]]] /\ Ascending(s)
  BY DEF Sorted
<1>2. /\ p \in [Index -> Index]
      /\ \A i, j \in Index : p[i] = p[j] => i = j
      /\ \A j \in Index : \E i \in Index : p[i] = j
  BY DEF Permutation, Bijection, Injection, Surjection, IsInjective
<1>3. s \in Block /\ \A i \in Index : s[i] = b[p[i]]
  BY <1>1, <1>2 DEF Block
<1> DEFINE A == {i \in Index : s[i] \in S}
           B == {i \in Index : b[i] \in S}
           q == [i \in A |-> p[i]]
<1>4. q \in [A -> B]
  BY <1>2, <1>3
<1>5. q \in Injection(A, B)
  BY <1>2, <1>4 DEF Injection, IsInjective
<1>6. q \in Surjection(A, B)
  <2>1. ASSUME NEW j \in B PROVE \E i \in A : q[i] = j
    BY <1>2, <1>3
  <2> QED
    BY <1>4, <2>1 DEF Surjection
<1>7. ExistsBijection(A, B)
  BY <1>5, <1>6 DEF ExistsBijection, Bijection
<1>8. IsFiniteSet(Index) /\ A \in SUBSET Index /\ B \in SUBSET Index
  <2>1. IsFiniteSet(Index)
    BY FS_Interval, Constants DEF Index
  <2> QED
    BY <2>1
<1>9. IsFiniteSet(A) /\ IsFiniteSet(B)
  BY <1>8, FS_Subset
<1> QED
  BY <1>1, <1>3, <1>7, <1>9, FS_Bijection

(* What is behind the first n elements of b is not less than any of these.  *)
Behind(b, n) == \A i, j \in Index : j <= n /\ n < i => b[i] >= b[j]

(* The elements below v, and those up to v, are the first l and the first u *)
(* of s, and those at LB and UB in b.                                      *)
Segments(s, v, l, u) == \A i \in Index : (i <= l <=> s[i] < v) /\ (i <= u <=> s[i] <= v)
Parts(b, v, l, u, LB, UB) ==
  /\ LB \subseteq Index /\ UB \subseteq Index
  /\ \A i \in Index : (i \in LB <=> b[i] < v) /\ (i \in UB <=> b[i] <= v)
  /\ IsFiniteSet(LB) /\ IsFiniteSet(UB) /\ Cardinality(LB) = l /\ Cardinality(UB) = u

(* The positions of v among the first n elements of b.                     *)
At(b, n, v) == {i \in 1..n : b[i] = v}

LEMMA IntervalLength ==
  ASSUME NEW m \in Nat, NEW n \in Nat, m <= n
  PROVE  IsFiniteSet((m + 1)..n) /\ Cardinality((m + 1)..n) = n - m
<1>1. m + 1 \in Int /\ n \in Int
  OBVIOUS
<1>2. IsFiniteSet((m + 1)..n) /\ Cardinality((m + 1)..n) = IF m + 1 > n THEN 0 ELSE n - (m + 1) + 1
  BY <1>1, FS_Interval
<1> QED
  BY <1>2

LEMMA SegmentsCounted ==
  ASSUME NEW b \in Block, NEW s \in Block, NEW n \in 0..BUF_LEN, NEW v \in Value,
         NEW l \in 0..BUF_LEN, NEW u \in 0..BUF_LEN, NEW LB, NEW UB,
         Behind(b, n), Segments(s, v, l, u), Parts(b, v, l, u, LB, UB)
  PROVE  Cardinality(At(s, n, v)) = Cardinality(At(b, n, v))
<1>1. n \in Nat /\ l \in Nat /\ u \in Nat /\ 1..n \subseteq Index
  BY Constants DEF Index
<1>2. v \in Int /\ \A i \in Index : i \in Nat /\ s[i] \in Int /\ b[i] \in Int
  <2>1. \A i \in Index : i \in Nat /\ s[i] \in Value /\ b[i] \in Value
    BY Constants DEF Block, Index
  <2> QED
    BY <2>1, Constants
<1>3. \A i \in Index : i <= n <=> i \in 1..n
  BY <1>1 DEF Index
<1>4. IsFiniteSet(1..n) /\ Cardinality(1..n) = n
  BY <1>1, FS_Interval
<1>5. /\ LB \subseteq Index /\ UB \subseteq Index
      /\ \A i \in Index : (i \in LB <=> b[i] < v) /\ (i \in UB <=> b[i] <= v)
  BY DEF Parts
<1>6. IsFiniteSet(LB) /\ IsFiniteSet(UB) /\ Cardinality(LB) = l /\ Cardinality(UB) = u
  BY DEF Parts
<1>7. \A i : i \in At(s, n, v) <=> i \in 1..n /\ l + 1 <= i /\ i <= u
  <2>1. \A i \in 1..n : s[i] = v <=> ~ (i <= l) /\ i <= u
    BY <1>1, <1>2 DEF Segments
  <2> QED
    BY <1>1, <2>1 DEF At
<1>8. \A i \in Index : i \in At(b, n, v) <=> i <= n /\ i \in UB /\ i \notin LB
  <2>1. \A i \in Index : b[i] = v <=> b[i] <= v /\ ~ (b[i] < v)
    BY <1>2
  <2> QED
    BY <1>3, <1>5, <2>1 DEF At
<1>9. At(b, n, v) \subseteq Index
  BY <1>1 DEF At
<1>10. CASE \E j \in Index : n < j /\ b[j] < v
  <2>1. PICK j \in Index : n < j /\ b[j] < v
    BY <1>10
  <2>2. \A i \in 1..n : b[i] < v
    BY <1>1, <1>2, <1>3, <2>1 DEF Behind
  <2> DEFINE T == (1..n) \cup {j}
  <2>3. T \in SUBSET LB
    BY <1>1, <1>5, <2>1, <2>2
  <2>4. j \notin 1..n
    BY <1>1, <2>1
  <2>5. Cardinality(T) = n + 1
    BY <1>4, <2>4, FS_AddElement
  <2>6. n + 1 <= l
    <3> HIDE DEF T
    <3> QED
      BY <1>6, <2>3, <2>5, FS_Subset
  <2>7. At(s, n, v) = {}
    BY <1>1, <1>7, <2>6
  <2>8. At(b, n, v) = {}
    BY <1>3, <1>5, <1>8, <1>9, <2>2
  <2> QED
    BY <2>7, <2>8
<1>11. CASE \A j \in Index : n < j => v < b[j]
  <2>1. \A i \in UB : i <= n
    BY <1>1, <1>2, <1>5, <1>11
  <2>2. \A i \in LB : i \in UB
    BY <1>2, <1>5
  <2>3. UB \in SUBSET (1..n) /\ LB \in SUBSET UB
    BY <1>3, <1>5, <2>1, <2>2
  <2>4. u <= n /\ l <= u
    <3>1. Cardinality(UB) <= Cardinality(1..n)
      BY ONLY <1>4, <2>3, FS_Subset
    <3>2. Cardinality(LB) <= Cardinality(UB)
      BY ONLY <1>6, <2>3, FS_Subset
    <3> QED
      BY ONLY <1>4, <1>6, <3>1, <3>2
  <2>5. At(b, n, v) = UB \ LB /\ UB \cap LB = LB
    BY <1>5, <1>8, <1>9, <2>1, <2>2
  <2>6. Cardinality(At(b, n, v)) = u - l
    BY <1>6, <2>5, FS_Difference
  <2>7. At(s, n, v) = (l + 1)..u
    <3>1. \A i : i \in (l + 1)..u <=> i \in 1..n /\ l + 1 <= i /\ i <= u
      BY <1>1, <2>4
    <3> QED
      BY <1>7, <3>1
  <2> QED
    BY <1>1, <2>4, <2>6, <2>7, IntervalLength
<1>12. CASE /\ \A j \in Index : n < j => v <= b[j]
            /\ \E j \in Index : n < j /\ b[j] = v
  <2>1. PICK j \in Index : n < j /\ b[j] = v
    BY <1>12
  <2>2. \A i \in 1..n : i \in UB
    BY <1>1, <1>2, <1>3, <1>5, <2>1 DEF Behind
  <2>3. \A i \in LB : i <= n
    BY <1>1, <1>2, <1>5, <1>12
  <2>4. LB \in SUBSET (1..n) /\ (1..n) \in SUBSET UB
    BY <1>3, <1>5, <2>2, <2>3
  <2>5. l <= n /\ n <= u
    <3>1. Cardinality(LB) <= Cardinality(1..n)
      BY ONLY <1>4, <2>4, FS_Subset
    <3>2. Cardinality(1..n) <= Cardinality(UB)
      BY ONLY <1>6, <2>4, FS_Subset
    <3> QED
      BY ONLY <1>4, <1>6, <3>1, <3>2
  <2>6. At(b, n, v) = (1..n) \ LB /\ (1..n) \cap LB = LB
    BY <1>1, <1>3, <1>8, <1>9, <2>2, <2>4
  <2>7. Cardinality(At(b, n, v)) = n - l
    BY <1>4, <1>6, <2>6, FS_Difference
  <2>8. At(s, n, v) = (l + 1)..n
    <3>1. \A i : i \in (l + 1)..n <=> i \in 1..n /\ l + 1 <= i /\ i <= u
      BY <1>1, <2>5
    <3> QED
      BY <1>7, <3>1
  <2> QED
    BY <1>1, <2>5, <2>7, <2>8, IntervalLength
<1>13. \/ \E j \in Index : n < j /\ b[j] < v
       \/ \A j \in Index : n < j => v < b[j]
       \/ /\ \A j \in Index : n < j => v <= b[j]
          /\ \E j \in Index : n < j /\ b[j] = v
  <2>1. \A j \in Index : b[j] < v \/ b[j] = v \/ v < b[j]
    BY <1>2
  <2>2. \A j \in Index : ~ (b[j] < v) => v <= b[j]
    BY <1>2
  <2> QED
    BY <2>1, <2>2
<1> QED
  BY <1>10, <1>11, <1>12, <1>13

(* Sorting a block sorts its first n elements, if what is behind them is    *)
(* not less.                                                               *)
LEMMA SortedPrefix ==
  ASSUME NEW b \in Block, NEW s \in Sorted(b), NEW n \in 0..BUF_LEN,
         Behind(b, n), NEW v \in Value
  PROVE  Cardinality(At(s, n, v)) = Cardinality(At(b, n, v))
<1> DEFINE Below == {w \in Value : w < v}
           UpTo == {w \in Value : w <= v}
           L == {i \in Index : s[i] \in Below}
           U == {i \in Index : s[i] \in UpTo}
           LB == {i \in Index : b[i] \in Below}
           UB == {i \in Index : b[i] \in UpTo}
<1>1. s \in Block /\ Ascending(s)
  BY SortedCounts
<1>2. IsFiniteSet(LB) /\ Cardinality(L) = Cardinality(LB)
  <2> HIDE DEF Below
  <2> QED
    BY SortedCounts
<1>3. IsFiniteSet(UB) /\ Cardinality(U) = Cardinality(UB)
  <2> HIDE DEF UpTo
  <2> QED
    BY SortedCounts
<1>4. /\ \A i \in Index : i \in Nat /\ s[i] \in Value /\ b[i] \in Value
      /\ \A i, j \in Index : i < j => s[i] <= s[j]
      /\ v \in Int /\ \A i \in Index : s[i] \in Int /\ b[i] \in Int
  <2>1. \A i \in Index : i \in Nat /\ s[i] \in Value /\ b[i] \in Value
    BY <1>1, Constants DEF Block, Index
  <2>2. \A i, j \in Index : i < j => s[i] <= s[j]
    BY <1>1 DEF Block, Ascending
  <2> QED
    BY <2>1, <2>2, Constants
<1>5. \A i \in Index : /\ i \in L <=> s[i] < v
                       /\ i \in U <=> s[i] <= v
                       /\ i \in LB <=> b[i] < v
                       /\ i \in UB <=> b[i] <= v
  BY <1>4
<1> HIDE DEF Below, UpTo
<1>6. L \in SUBSET Index /\ U \in SUBSET Index /\ LB \in SUBSET Index /\ UB \in SUBSET Index
  OBVIOUS
<1> HIDE DEF L, U, LB, UB
<1>7. L = 1..Cardinality(L) /\ Cardinality(L) \in 0..BUF_LEN
  <2>1. \A i \in L : \A j \in Index : j < i => j \in L
    BY <1>4, <1>5, <1>6
  <2> QED
    BY <1>6, <2>1, InitialSegment
<1>8. U = 1..Cardinality(U) /\ Cardinality(U) \in 0..BUF_LEN
  <2>1. \A i \in U : \A j \in Index : j < i => j \in U
    BY <1>4, <1>5, <1>6
  <2> QED
    BY <1>6, <2>1, InitialSegment
<1> DEFINE l == Cardinality(L)
           u == Cardinality(U)
<1>9. \A i \in Index : (i <= l <=> s[i] < v) /\ (i <= u <=> s[i] <= v)
  <2> HIDE DEF l, u
  <2>1. \A i \in Index : (i <= l <=> i \in 1..l) /\ (i <= u <=> i \in 1..u)
    BY <1>7, <1>8, Constants DEF Index, l, u
  <2> QED
    BY <1>5, <1>7, <1>8, <2>1 DEF l, u
<1>10. Segments(s, v, l, u) /\ Parts(b, v, l, u, LB, UB)
  <2> HIDE DEF l, u
  <2>1. l = Cardinality(LB) /\ u = Cardinality(UB)
    BY <1>2, <1>3 DEF l, u
  <2> QED
    BY <1>2, <1>3, <1>5, <1>6, <1>9, <2>1 DEF Segments, Parts
<1> QED
  BY <1>1, <1>7, <1>8, <1>10, SegmentsCounted

-----------------------------------------------------------------------------
(* The inductive invariant                                                 *)

\* One block at most: no merging, and the buffer is sorted if one was read.
OneBlock ==
  /\ ~ eof_flag
  /\ pc \in {"temp", "open", "read"} => c = 0
  /\ pc # "merge" /\ c <= 1
  /\ c = 1 => Ascending(buf)
  /\ c = 0 => rdcnt = 0

\* The block read is the whole input, if that fits; the buffer holds it and
\* what the memory held before behind it, sorted as one; that is written.
BlockSorted ==
  /\ pc \in {"temp", "open", "read"} => pos = 0 /\ buf = memory
  /\ pc \in {"test", "write", "done"} => rdcnt = Least(BUF_LEN, Len(input))
  /\ c = 1 => buf \in Sorted(Loaded)
  /\ pc \in {"test", "write", "done"} /\ c = 0 => Len(input) = 0
  /\ pc = "done" => output = Prefix(buf, WriteCount)

IInv == TypeOK /\ OneBlock /\ BlockSorted /\ OutputAscending

USE BufferAssumption, NullAssumption

LEMMA AvailableBounded ==
  ASSUME TypeOK
  PROVE  Available \in 0..BUF_LEN /\ pos + Available \in 0..Len(input)
<1>1. Len(input) \in Nat /\ pos \in Nat /\ pos <= Len(input)
  BY DEF TypeOK
<1> QED
  BY <1>1 DEF Available, Least

\* What fread() leaves in the buffer is a block.
LEMMA FilledIsBlock ==
  ASSUME TypeOK, NEW n \in 0..BUF_LEN, pos + n <= Len(input)
  PROVE  Filled(n) \in Block
<1>1. Len(input) \in Nat /\ pos \in Nat /\ buf \in [Index -> Value] /\ input \in Seq(Value)
  BY DEF TypeOK, Block
<1>2. ASSUME NEW i \in Index PROVE (IF i <= n THEN input[pos + i] ELSE buf[i]) \in Value
  <2>1. i <= n => pos + i \in 1..Len(input)
    BY <1>1 DEF Index
  <2> QED
    BY <1>1, <2>1
<1> QED
  BY <1>2 DEF Filled, Block

LEMMA PrefixOfBlock ==
  ASSUME NEW b \in Block, NEW n \in 0..BUF_LEN
  PROVE  /\ Prefix(b, n) \in Seq(Value)
         /\ Ascending(b) => Ascending(Prefix(b, n))
         /\ n = 0 => Ascending(Prefix(b, n))
<1>1. Prefix(b, n) \in [1..n -> Value]
  BY DEF Prefix, Block, Index
<1>2. 1..n \subseteq Index /\ DOMAIN b = Index /\ DOMAIN Prefix(b, n) = 1..n
  BY DEF Block, Index, Prefix
<1> QED
  BY <1>1, <1>2 DEF Ascending, Prefix

LEMMA WriteCountBounded ==
  ASSUME TypeOK
  PROVE  WriteCount \in 0..BUF_LEN /\ (rdcnt = 0 => WriteCount = 0)
BY DEF TypeOK, WriteCount

LEMMA InitIInv == Init => IInv
<1> SUFFICES ASSUME Init PROVE IInv
  OBVIOUS
<1>1. input \in Seq(Value) /\ Len(input) \in Nat
  BY DEF Init
<1>2. TypeOK
  <2>1. /\ pos \in 0..Len(input) /\ feof \in BOOLEAN /\ eof_flag \in BOOLEAN
        /\ rdcnt \in 0..BUF_LEN /\ c \in Nat /\ pc \in Labels
    BY <1>1, Constants DEF Init, Labels
  <2>2. buf \in Block /\ memory \in Block /\ output \in Seq(Value) \cup {NULL}
    BY DEF Init
  <2>3. dst \in [0..(ways - 1) -> Seq(Value)]
    BY DEF Init
  <2> QED
    BY <1>1, <2>1, <2>2, <2>3 DEF TypeOK
<1>3. BlockSorted
  BY DEF Init, BlockSorted
<1> QED
  BY <1>2, <1>3 DEF Init, IInv, OneBlock, OutputAscending

\* A pass of the loop is the first one, and the last.
LEMMA ReadBlockIInv == ASSUME IInv, ReadBlock PROVE IInv'
<1> DEFINE n == Available
           end == feof \/ n < BUF_LEN
<1>1. TypeOK /\ pc = "read" /\ c = 0 /\ ~ eof_flag /\ OutputAscending
  BY DEF IInv, OneBlock, ReadBlock
<1>2. n \in 0..BUF_LEN /\ pos + n \in 0..Len(input) /\ Filled(n) \in Block
  BY <1>1, AvailableBounded, FilledIsBlock
<1>3. UNCHANGED <<input, output, memory>> /\ rdcnt' = n /\ pos' = pos + n /\ feof' = end
  BY DEF ReadBlock, PosAfter
<1>4. eof_flag' = FALSE
  <2>1. eof_flag' = EofAfter(n, end)
    BY DEF ReadBlock
  <2>2. n # BUF_LEN => n < BUF_LEN
    BY <1>2
  <2> HIDE DEF n
  <2> QED
    BY <1>1, <2>1, <2>2 DEF EofAfter
<1>5. OutputAscending'
  BY <1>1, <1>3 DEF OutputAscending
<1>8. pos = 0 /\ buf = memory /\ Len(input) \in Nat /\ n = Least(BUF_LEN, Len(input))
  <2>1. pos = 0 /\ buf = memory /\ Len(input) \in Nat
    BY <1>1 DEF IInv, BlockSorted, TypeOK
  <2> QED
    BY <2>1 DEF Available
<1>6. CASE n = 0 /\ pc' = "test" /\ UNCHANGED <<buf, c, dst>>
  <2>1. TypeOK'
    BY <1>1, <1>2, <1>3, <1>4, <1>6 DEF TypeOK, Labels
  <2>2. Len(input) = 0
    BY <1>6, <1>8 DEF Least
  <2>3. BlockSorted'
    BY <1>1, <1>3, <1>6, <1>8, <2>2 DEF BlockSorted
  <2> QED
    BY <1>1, <1>3, <1>4, <1>5, <1>6, <2>1, <2>3 DEF IInv, OneBlock
<1>7. CASE /\ n > 0 /\ buf' \in Arranged(Filled(n)) /\ c' = c + 1
           /\ \/ dst' = [dst EXCEPT ![c % ways] = @ \o Prefix(buf', n)] /\ pc' = "test"
              \/ UNCHANGED dst /\ pc' = "failed"
  <2>1. buf' \in Block /\ Ascending(buf') /\ c' = 1
    <3>1. buf' \in Sorted(Filled(n)) /\ Filled(n) \in Block /\ c' = 1
      BY <1>1, <1>2, <1>7 DEF Arranged
    <3> HIDE DEF n
    <3> QED
      BY <3>1, SortedCounts
  <2>2. Prefix(buf', n) \in Seq(Value)
    BY <1>2, <2>1, PrefixOfBlock
  <2>3. dst' \in [0..(ways - 1) -> Seq(Value)] /\ pc' \in {"test", "failed"}
    <3>1. dst \in [0..(ways - 1) -> Seq(Value)]
      BY <1>1 DEF TypeOK
    <3>2. \A i \in 0..(ways - 1) : dst[i] \o Prefix(buf', n) \in Seq(Value)
      BY <2>2, <3>1
    <3> HIDE DEF n
    <3> QED
      BY <1>7, <3>1, <3>2
  <2>4. TypeOK'
    BY <1>1, <1>2, <1>3, <1>4, <2>1, <2>3 DEF TypeOK, Labels
  <2>5. Loaded' = Filled(n)
    <3>1. \A i \in Index : pos + i = i /\ (i <= n <=> i <= Len(input))
      BY <1>8, Constants DEF Index, Least
    <3> HIDE DEF n
    <3> QED
      BY <1>3, <1>8, <3>1 DEF Loaded, Filled
  <2>6. BlockSorted'
    <3> HIDE DEF n
    <3> QED
      BY <1>3, <1>7, <1>8, <2>1, <2>3, <2>5 DEF BlockSorted, Arranged
  <2> QED
    BY <1>3, <1>4, <1>5, <2>1, <2>3, <2>4, <2>6 DEF IInv, OneBlock
<1> QED
  BY <1>6, <1>7 DEF ReadBlock

LEMMA WriteOutputIInv == ASSUME IInv, WriteOutput PROVE IInv'
<1>1. TypeOK /\ OneBlock /\ buf \in Block /\ c \in Nat
  BY DEF IInv, TypeOK
<1>2. WriteCount \in 0..BUF_LEN /\ (c = 0 => WriteCount = 0)
  BY <1>1, WriteCountBounded DEF OneBlock
<1>3. /\ output' = Prefix(buf, WriteCount) /\ pc' = "done"
      /\ UNCHANGED <<input, pos, feof, eof_flag, buf, rdcnt, c, dst, memory>>
  BY DEF WriteOutput
<1>4. output' \in Seq(Value) /\ Ascending(output')
  <2> HIDE DEF WriteCount
  <2>1. c = 0 \/ c = 1
    BY <1>1 DEF OneBlock
  <2> QED
    BY <1>1, <1>2, <1>3, <2>1, PrefixOfBlock DEF OneBlock
<1>5. TypeOK'
  BY <1>1, <1>3, <1>4 DEF TypeOK, Labels
<1>6. BlockSorted'
  <2>1. Loaded' = Loaded /\ WriteCount' = WriteCount
    BY <1>3 DEF Loaded, WriteCount
  <2> QED
    BY <1>3, <2>1 DEF IInv, BlockSorted, WriteOutput
<1> QED
  BY <1>1, <1>3, <1>4, <1>5, <1>6 DEF IInv, OneBlock, OutputAscending

\* The steps that only move on.
LEMMA PlainIInv ==
  ASSUME IInv, OpenTempFiles \/ OpenInput \/ AfterBlocks \/ Fail
  PROVE  IInv'
<1>1. /\ UNCHANGED <<input, pos, feof, eof_flag, buf, rdcnt, c, dst, output, memory>>
      /\ pc' \in Labels \ {"merge"}
      /\ pc' \in {"temp", "open", "read"} => pc \in {"temp", "open", "read"}
  BY DEF OpenTempFiles, OpenInput, AfterBlocks, Fail, Again, IInv, OneBlock, Labels
<1>2. Loaded' = Loaded
  BY <1>1 DEF Loaded
<1>3. BlockSorted'
  BY <1>1, <1>2 DEF IInv, BlockSorted, OpenTempFiles, OpenInput, AfterBlocks, Fail
<1> QED
  BY <1>1, <1>3 DEF IInv, TypeOK, OneBlock, OutputAscending

LEMMA NextIInv == ASSUME IInv, [Next]_vars PROVE IInv'
<1>1. CASE UNCHANGED vars
  BY <1>1 DEF vars, IInv, TypeOK, OneBlock, BlockSorted, Loaded, WriteCount, OutputAscending
<1>2. CASE Next
  BY <1>2, ReadBlockIInv, WriteOutputIInv, PlainIInv DEF Next
<1> QED
  BY <1>1, <1>2

-----------------------------------------------------------------------------
(* The theorems.                                                           *)

(* The inductive invariant holds in every state.                           *)
THEOREM Inductive == Spec => []IInv
BY InitIInv, NextIInv, PTL DEF Spec

(* Types of the locals of extsort() and of its files.                      *)
THEOREM TypeCorrect == Spec => []TypeOK
<1>1. IInv => TypeOK
  BY DEF IInv
<1> QED
  BY <1>1, Inductive, PTL

(* At most one block is ever read and nothing is merged, however long the   *)
(* input is.                                                               *)
THEOREM NothingIsMerged == Spec => []MergeIsDead
<1>1. IInv => MergeIsDead
  BY DEF IInv, OneBlock, MergeIsDead
<1> QED
  BY <1>1, Inductive, PTL

(* What is written is in ascending order.                                  *)
THEOREM WritesAscending == Spec => []OutputAscending
<1>1. IInv => OutputAscending
  BY DEF IInv
<1> QED
  BY <1>1, Inductive, PTL

(* Of a block sorted as a whole, the first n elements are the least ones.   *)
LEMMA LeastOfBlock ==
  ASSUME NEW s \in Sorted(Loaded), s \in Block, NEW n \in 0..BUF_LEN
  PROVE  \E p \in Permutation : \A i \in 1..n :
           /\ s[i] = Loaded[p[i]]
           /\ \A j \in Index \ (1..n) : s[i] <= Loaded[p[j]]
<1>1. PICK p \in Permutation : s = [i \in Index |-> Loaded[p[i]]] /\ Ascending(s)
  BY DEF Sorted
<1>2. \A i \in Index : s[i] = Loaded[p[i]]
  BY <1>1
<1>3. n \in Nat /\ 1..n \subseteq Index /\ \A i \in 1..n : \A j \in Index \ (1..n) : i < j
  BY Constants DEF Index
<1>4. \A i, j \in Index : i < j => s[i] <= s[j]
  BY <1>1 DEF Ascending, Block
<1> QED
  BY <1>2, <1>3, <1>4

\* Nothing to sort: any permutation will do.
LEMMA SomePermutation == [i \in Index |-> i] \in Permutation
BY DEF Permutation, Bijection, Injection, Surjection, IsInjective

\* What is written of a short input.
LEMMA ShortOutput ==
  ASSUME IInv, pc = "done", Len(input) < BUF_LEN
  PROVE  /\ Len(input) \in Nat /\ DOMAIN input = 1..Len(input)
         /\ output = Prefix(buf, Len(input)) /\ DOMAIN output = 1..Len(input)
         /\ Ascending(output) /\ c \in {0, 1} /\ (c = 0 => Len(input) = 0)
<1> DEFINE n == Len(input)
<1>1. input \in Seq(Value) /\ n \in Nat /\ DOMAIN input = 1..n /\ c \in {0, 1}
  BY DEF IInv, TypeOK, OneBlock
<1>2. rdcnt = n /\ WriteCount = n
  <2>1. rdcnt = n
    BY <1>1 DEF IInv, BlockSorted, Least
  <2>2. BUF_LEN \in Nat /\ BUF_LEN >= 1 /\ n \in Nat /\ n < BUF_LEN
    BY <1>1, Constants
  <2>3. (BUF_LEN + n) % BUF_LEN = n
    <3> HIDE DEF n
    <3> QED
      BY <2>2
  <2> QED
    BY <2>1, <2>3 DEF WriteCount
<1>3. output = Prefix(buf, n) /\ DOMAIN output = 1..n
  <2>1. output = Prefix(buf, n)
    BY <1>2 DEF IInv, BlockSorted
  <2> QED
    BY <2>1 DEF Prefix
<1>4. Ascending(output)
  <2>1. buf \in Block /\ n \in 0..BUF_LEN
    BY <1>1, Constants DEF IInv, TypeOK
  <2>2. output # NULL
    BY <1>3, <2>1, PrefixOfBlock
  <2> QED
    BY <2>2 DEF IInv, OutputAscending
<1> QED
  BY <1>1, <1>3, <1>4 DEF IInv, BlockSorted

\* The output of a short input is what is least in the buffer.
LEMMA ShortLeast == IInv => WritesLeast
<1> DEFINE n == Len(input)
<1> SUFFICES ASSUME IInv, pc = "done", n < BUF_LEN
             PROVE  \E p \in Permutation : \A i \in DOMAIN output :
                      /\ output[i] = Loaded[p[i]]
                      /\ \A j \in Index \ DOMAIN output : output[i] <= Loaded[p[j]]
  BY ShortOutput DEF WritesLeast
<1>1. n \in Nat /\ output = Prefix(buf, n) /\ DOMAIN output = 1..n /\ c \in {0, 1}
  BY ShortOutput
<1>2. CASE c = 0
  <2>1. DOMAIN output = {}
    BY <1>2, ShortOutput
  <2> QED
    BY <2>1, SomePermutation
<1>3. CASE c = 1
  <2>1. buf \in Sorted(Loaded) /\ buf \in Block /\ n \in 0..BUF_LEN
    BY <1>1, <1>3, Constants DEF IInv, TypeOK, BlockSorted
  <2>2. \A i \in 1..n : output[i] = buf[i]
    BY <1>1 DEF Prefix
  <2> HIDE DEF n
  <2> QED
    BY <1>1, <2>1, <2>2, LeastOfBlock
<1> QED
  BY <1>1, <1>2, <1>3

\* Nothing that the memory of the buffer held before is less than an element of
\* a short input.
NothingLessBehind ==
  \A i \in Index, j \in DOMAIN input : i > Len(input) => memory[i] >= input[j]

\* Then the short input is written sorted, and nothing else is.
SortedIfNothingLess ==
  pc = "done" /\ Len(input) < BUF_LEN /\ NothingLessBehind
  => Ascending(output) /\ SameItems(output, input)

LEMMA ShortInput == IInv => SortedIfNothingLess
<1> DEFINE n == Len(input)
<1> SUFFICES ASSUME IInv, pc = "done", n < BUF_LEN, NothingLessBehind
             PROVE  Ascending(output) /\ SameItems(output, input)
  BY DEF SortedIfNothingLess
<1>1. /\ input \in Seq(Value) /\ n \in Nat /\ DOMAIN input = 1..n
      /\ \A i \in 1..n : input[i] \in Value
      /\ memory \in [Index -> Value] /\ c \in {0, 1}
      /\ \A i \in Index, j \in 1..n : i > n => memory[i] >= input[j]
  BY DEF IInv, TypeOK, OneBlock, Block, NothingLessBehind
<1>3. output = Prefix(buf, n) /\ Ascending(output) /\ DOMAIN output = 1..n
  BY ShortOutput
<1>4. CASE c = 0
  <2>1. n = 0
    BY <1>4 DEF IInv, BlockSorted
  <2>2. DOMAIN output = {} /\ DOMAIN input = {}
    BY <1>1, <1>3, <2>1
  <2>3. \A v : {i \in DOMAIN output : output[i] = v} = {i \in DOMAIN input : input[i] = v}
    BY <2>2
  <2> QED
    BY <1>3, <2>3 DEF SameItems, Count
<1>5. CASE c = 1
  <2>1. buf \in Sorted(Loaded) /\ n \in 0..BUF_LEN
    BY <1>1, <1>5 DEF IInv, BlockSorted
  <2>2. Loaded \in Block /\ \A i \in Index : Loaded[i] = IF i <= n THEN input[i] ELSE memory[i]
    <3>1. \A i \in Index : (IF i <= n THEN input[i] ELSE memory[i]) \in Value
      <4>1. \A i \in Index : i <= n => i \in 1..n
        BY <1>1 DEF Index
      <4> QED
        BY <1>1, <4>1
    <3> QED
      BY <3>1 DEF Loaded, Block
  <2>3. Behind(Loaded, n)
    <3>1. ASSUME NEW i \in Index, NEW j \in Index, j <= n, n < i
          PROVE  Loaded[i] >= Loaded[j]
      <4>1. i \in Nat /\ j \in 1..n
        BY <1>1, <3>1 DEF Index
      <4>2. i > n /\ ~ (i <= n)
        BY <1>1, <3>1, <4>1
      <4> QED
        BY <1>1, <2>2, <3>1, <4>1, <4>2
    <3> QED
      BY <3>1 DEF Behind
  <2>4. ASSUME NEW v \in Value PROVE Count(output, v) = Count(input, v)
    <3>1. Cardinality(At(buf, n, v)) = Cardinality(At(Loaded, n, v))
      BY <2>1, <2>2, <2>3, SortedPrefix
    <3>2. {i \in DOMAIN output : output[i] = v} = At(buf, n, v)
      BY <1>3 DEF At, Prefix
    <3>3. \A i \in 1..n : i \in Index /\ Loaded[i] = input[i]
      BY <1>1, <2>2 DEF Index
    <3>4. {i \in DOMAIN input : input[i] = v} = At(Loaded, n, v)
      BY <1>1, <3>3 DEF At
    <3> QED
      BY <3>1, <3>2, <3>4 DEF Count
  <2> QED
    BY <1>3, <2>4 DEF SameItems
<1> QED
  BY <1>1, <1>4, <1>5

(* Of an input shorter than the buffer as many elements are written, in     *)
(* order, but they are the least ones of the whole buffer, which holds      *)
(* behind the input what its memory held before.                           *)
THEOREM ShortInputWritten == Spec => []WritesLeast
BY ShortLeast, Inductive, PTL

(* A short input is sorted under the condition that nothing less than it is *)
(* in the memory of the buffer behind it; the code does not establish that. *)
THEOREM ShortInputSorted == Spec => []SortedIfNothingLess
BY ShortInput, Inductive, PTL
=============================================================================
