--------------------------- MODULE ChannelProofs ----------------------------
(***************************************************************************)
(* Theorems about Channel, for all sizes of the buffer and all lengths of   *)
(* reads and writes.                                                        *)
(*                                                                         *)
(* The buffer is seen from start on, around its end.  A write, which copies  *)
(* once, puts its bytes at the front, and every read turns the buffer       *)
(* further; Turned says where the bytes of the latest write are until they   *)
(* come round again.                                                        *)
(***************************************************************************)
EXTENDS Channel, TLAPS

\* The place i behind start held the (rcvd - rcvdBefore + i + 1)-th byte of the
\* buffer when the latest write began.  It holds a byte of that write if it had
\* so many, and what was there before otherwise.
Turned ==
  \A i \in 0..(size - 1) :
    LET k == rcvd - rcvdBefore + i + 1 IN
    /\ k <= sent - sentBefore => buf[At(i)] = sentBefore + k
    /\ k \in (sent - sentBefore + 1)..size => buf[At(i)] <= sentBefore

\* Before a write copies, all that was written is what there was before it.
Fresh == call = "write" /\ ~ progress => sent = sentBefore /\ rcvd = rcvdBefore

\* The buffer holds all of the latest write.
Held == sent - sentBefore <= filled

IInv == TypeOK /\ WritesOnce /\ LatestWriteReadFirst /\ Turned /\ Fresh /\ Held

USE LengthsAssumption

LEMMA SizeIsNat == TypeOK => size \in Nat /\ start \in Nat /\ filled \in Nat
BY DEF TypeOK

\* At(i) lies in the buffer, and different bytes lie at different places.
LEMMA Places ==
  ASSUME TypeOK
  PROVE  /\ \A i \in 0..(size - 1) : At(i) \in 0..(size - 1)
         /\ \A i, j \in 0..(size - 1) : At(i) = At(j) => i = j
BY SizeIsNat DEF TypeOK, At

LEMMA Concatenation ==
  ASSUME NEW S, NEW s \in Seq(S), NEW t \in Seq(S)
  PROVE  /\ s \o t \in Seq(S) /\ Len(s \o t) = Len(s) + Len(t)
         /\ \A i \in 1..(Len(s) + Len(t)) :
              (s \o t)[i] = IF i <= Len(s) THEN s[i] ELSE t[i - Len(s)]
OBVIOUS

LEMMA WiderSeq == ASSUME NEW S, NEW T, S \subseteq T, NEW s \in Seq(S) PROVE s \in Seq(T)
OBVIOUS

\* What the current call and the latest write leave alone.
LEMMA SameBytes ==
  ASSUME UNCHANGED <<size, buf, start, filled, sent, rcvd, sentBefore, rcvdBefore>>
  PROVE  Turned' <=> Turned
BY DEF Turned, At

LEMMA InitIInv == Init => IInv
<1> SUFFICES ASSUME Init PROVE IInv
  OBVIOUS
<1>1. size \in Nat
  BY DEF Init
<1>2. TypeOK
  <2>1. buf \in [0..(size - 1) -> 0..sent] /\ got \in Seq(0..sent)
    BY DEF Init
  <2>2. 0 \in 0..size /\ 0 \in Nat
    BY <1>1
  <2>3. sentBefore \in 0..sent /\ rcvdBefore \in 0..rcvd
    BY DEF Init
  <2> QED
    BY <2>1, <2>2, <2>3 DEF Init, TypeOK
<1>3. LatestWriteReadFirst
  BY DEF Init, LatestWriteReadFirst
<1>4. Turned
  <2>1. \A i \in 0..(size - 1) : At(i) \in 0..(size - 1)
    BY <1>2, Places
  <2> QED
    BY <1>1, <2>1 DEF Init, Turned
<1>5. Held
  BY <1>1 DEF Init, Held
<1> QED
  BY <1>2, <1>3, <1>4, <1>5 DEF Init, IInv, WritesOnce, Fresh

\* A write begins: all there is counts as older than it.
LEMMA WriteIInv == ASSUME IInv, NEW m \in Lengths, Write(m) PROVE IInv'
<1>1. TypeOK
  BY DEF IInv
<1>2. UNCHANGED <<size, buf, start, filled, sent, rcvd, got>>
  BY DEF Write
<1>3. call' = "write" /\ left' = m /\ progress' = FALSE /\ sentBefore' = sent /\ rcvdBefore' = rcvd
  BY DEF Write
<1>4. TypeOK'
  <2>1. sentBefore' \in 0..sent' /\ rcvdBefore' \in 0..rcvd' /\ left' \in Nat
    BY <1>1, <1>2, <1>3 DEF TypeOK
  <2>2. buf' \in [0..(size' - 1) -> 0..sent'] /\ got' \in Seq(0..sent')
    BY <1>1, <1>2 DEF TypeOK
  <2> QED
    BY <1>1, <1>2, <1>3, <2>1, <2>2 DEF TypeOK
<1>5. LatestWriteReadFirst'
  <2>1. \A i \in 1..Len(got) : rcvd - rcvd - Len(got) + i <= 0
    BY <1>1 DEF TypeOK
  <2>2. \A i \in 1..Len(got) : got[i] \in 0..sent
    BY <1>1 DEF TypeOK
  <2> QED
    BY <1>1, <1>2, <1>3, <2>1, <2>2 DEF LatestWriteReadFirst, TypeOK
<1>6. Turned'
  <2>1. \A i \in 0..(size - 1) : buf[At(i)] \in 0..sent
    BY <1>1, Places DEF TypeOK
  <2>2. \A i : At(i)' = At(i)
    BY <1>2 DEF At
  <2>3. \A i \in 0..(size - 1) : rcvd - rcvd + i + 1 > sent - sent
    BY <1>1, SizeIsNat DEF TypeOK
  <2> QED
    BY <1>1, <1>2, <1>3, <2>1, <2>2, <2>3 DEF Turned, TypeOK
<1>7. Held'
  BY <1>1, <1>2, <1>3 DEF Held, TypeOK
<1> QED
  BY <1>2, <1>3, <1>4, <1>5, <1>6, <1>7 DEF IInv, WritesOnce, Fresh

\* A read begins, or a call ends: nothing moves.
LEMMA CallIInv ==
  ASSUME IInv, (\E m \in Lengths : Read(m)) \/ WriteDone \/ ReadDone
  PROVE  IInv'
<1>1. TypeOK /\ LatestWriteReadFirst /\ Turned /\ WritesOnce
  BY DEF IInv
<1>2. UNCHANGED <<size, buf, start, filled, sent, rcvd, sentBefore, rcvdBefore>>
  BY DEF Read, WriteDone, ReadDone
<1>3. Turned'
  BY <1>1, <1>2, SameBytes
<1>4. left' \in Nat /\ call' \in {"none", "read"} /\ progress' = progress
  BY <1>1 DEF Read, WriteDone, ReadDone, TypeOK
<1>5. got' = got \/ got' = <<>>
  BY DEF Read, WriteDone, ReadDone
<1>6. TypeOK'
  <2>1. buf' \in [0..(size' - 1) -> 0..sent']
    BY <1>1, <1>2 DEF TypeOK
  <2>2. got' \in Seq(0..sent')
    <3>1. got \in Seq(0..sent) /\ <<>> \in Seq(0..sent) /\ sent' = sent
      BY <1>1, <1>2 DEF TypeOK
    <3> QED
      BY <1>5, <3>1
  <2>3. sentBefore' \in 0..sent' /\ rcvdBefore' \in 0..rcvd'
    BY <1>1, <1>2 DEF TypeOK
  <2> QED
    BY <1>1, <1>2, <1>4, <2>1, <2>2, <2>3 DEF TypeOK
<1>7. LatestWriteReadFirst'
  <2>1. CASE got' = got
    BY <1>1, <1>2, <2>1 DEF LatestWriteReadFirst
  <2>2. CASE got' = <<>>
    BY <2>2 DEF LatestWriteReadFirst
  <2> QED
    BY <1>5, <2>1, <2>2
<1>8. Held'
  BY <1>2 DEF IInv, Held
<1> QED
  BY <1>3, <1>4, <1>6, <1>7, <1>8 DEF IInv, WritesOnce, Fresh

LEMMA WriteTransactionIInv == ASSUME IInv, WriteTransaction PROVE IInv'
<1> DEFINE n == Least(size - filled, left)
           At1(p) == CHOOSE i \in 0..(n - 1) : At(i) = p
<1>1. TypeOK /\ WritesOnce /\ LatestWriteReadFirst /\ Fresh /\ call = "write" /\ left > 0 /\ filled < size
  BY DEF IInv, WriteTransaction
<1>2. n \in 1..(size - filled) /\ n <= left /\ (n = left \/ n = size - filled)
  BY <1>1, SizeIsNat DEF TypeOK, Least
<1>3. /\ UNCHANGED <<size, start, call, rcvd, got, sentBefore, rcvdBefore>>
      /\ left' = left - n /\ filled' = filled + n /\ sent' = sent + n /\ progress' = TRUE
      /\ buf' = [p \in DOMAIN buf |->
                   IF \E i \in 0..(n - 1) : At(i) = p THEN sent + 1 + At1(p) ELSE buf[p]]
  BY DEF WriteTransaction
<1> HIDE DEF n
<1>4. \A i \in 0..(n - 1) : At(i) \in DOMAIN buf /\ At1(At(i)) = i
  <2>1. \A i \in 0..(n - 1) : At1(At(i)) \in 0..(n - 1) /\ At(At1(At(i))) = At(i)
    OBVIOUS
  <2>2. 0..(n - 1) \subseteq 0..(size - 1) /\ DOMAIN buf = 0..(size - 1)
    BY <1>1, <1>2, SizeIsNat DEF TypeOK
  <2> HIDE DEF At1
  <2> QED
    BY <1>1, <2>1, <2>2, Places
<1>5. \A p \in DOMAIN buf : (\E i \in 0..(n - 1) : At(i) = p) => At1(p) \in 0..(n - 1)
  BY <1>4
<1> HIDE DEF At1
<1>6. sent = sentBefore /\ rcvd = rcvdBefore /\ sent \in Nat /\ rcvd \in Nat
  <2>1. ~ progress
    BY <1>1, SizeIsNat DEF WritesOnce, TypeOK
  <2> QED
    BY <1>1, <2>1 DEF Fresh, TypeOK
<1>7. TypeOK'
  <2>1. buf \in [0..(size - 1) -> 0..sent] /\ sent \in Nat /\ n \in Nat
    BY <1>1, <1>2, SizeIsNat DEF TypeOK
  <2>2. buf' \in [0..(size - 1) -> 0..(sent + n)]
    BY <1>3, <1>5, <2>1
  <2>3. got \in Seq(0..(sent + n))
    <3>1. 0..sent \subseteq 0..(sent + n)
      BY <2>1
    <3> QED
      BY <1>1, <3>1, WiderSeq DEF TypeOK
  <2>4. filled' \in 0..size /\ left' \in Nat /\ sent' \in Nat /\ start \in 0..size
    BY <1>1, <1>2, <1>3, <2>1, SizeIsNat DEF TypeOK
  <2>5. sentBefore \in 0..(sent + n)
    BY <1>1, <2>1 DEF TypeOK
  <2> QED
    BY <1>1, <1>3, <2>2, <2>3, <2>4, <2>5 DEF TypeOK
<1>8. WritesOnce'
  BY <1>1, <1>2, <1>3, SizeIsNat DEF WritesOnce, TypeOK
<1>9. LatestWriteReadFirst'
  <2>1. \A i \in 1..Len(got) : rcvd - rcvdBefore - Len(got) + i <= 0
    BY <1>1, <1>6 DEF TypeOK
  <2> QED
    BY <1>1, <1>2, <1>3, <1>6, <2>1, SizeIsNat DEF LatestWriteReadFirst, TypeOK
<1>10. Turned'
  <2>1. \A i : At(i)' = At(i)
    BY <1>3 DEF At
  <2>2. \A i \in 0..(n - 1) : buf'[At(i)] = sent + 1 + i
    BY <1>3, <1>4
  <2>3. \A i \in n..(size - 1) : buf'[At(i)] = buf[At(i)]
    <3> TAKE i \in n..(size - 1)
    <3>0. i \in 0..(size - 1)
      BY <1>1, <1>2, SizeIsNat
    <3>1. At(i) \in DOMAIN buf
      BY <1>1, <3>0, Places DEF TypeOK
    <3>2. \A j \in 0..(n - 1) : At(j) # At(i)
      BY <1>1, <1>2, Places, SizeIsNat
    <3> QED
      BY <1>3, <3>1, <3>2
  <2>4. \A i \in 0..(size - 1) : buf[At(i)] <= sent
    <3> TAKE i \in 0..(size - 1)
    <3>1. buf[At(i)] \in 0..sent
      BY <1>1, Places DEF TypeOK
    <3> QED
      BY <1>6, <3>1
  <2> SUFFICES ASSUME NEW i \in 0..(size - 1)
               PROVE  /\ i + 1 <= n => buf'[At(i)] = sent + (i + 1)
                      /\ i + 1 > n => buf'[At(i)] <= sent
    BY <1>2, <1>3, <1>6, <2>1, SizeIsNat, <1>1 DEF Turned
  <2>5. CASE i < n
    BY <1>1, <1>2, <1>6, <2>2, <2>5, SizeIsNat
  <2>6. CASE i >= n
    BY <1>1, <1>2, <1>6, <2>3, <2>4, <2>6, SizeIsNat
  <2> QED
    BY <1>1, <1>2, <2>5, <2>6, SizeIsNat
<1>11. Held'
  BY <1>1, <1>2, <1>3, <1>6, SizeIsNat DEF Held
<1> QED
  BY <1>3, <1>7, <1>8, <1>9, <1>10, <1>11 DEF IInv, Fresh

LEMMA ReadTransactionIInv == ASSUME IInv, ReadTransaction PROVE IInv'
<1> DEFINE n == Least(filled, left)
           bytes == [i \in 1..n |-> buf[At(i - 1)]]
           since == rcvd - rcvdBefore
           fresh == sent - sentBefore
<1>1. TypeOK /\ WritesOnce /\ LatestWriteReadFirst /\ Turned /\ call = "read" /\ left > 0 /\ filled > 0
  BY DEF IInv, ReadTransaction
<1>2. n \in 1..filled /\ n <= left
  BY <1>1, SizeIsNat DEF TypeOK, Least
<1>3. /\ UNCHANGED <<size, buf, filled, call, progress, sent, sentBefore, rcvdBefore>>
      /\ got' = got \o bytes /\ start' = StartAfter(n)
      /\ left' = left - n /\ rcvd' = rcvd + n
  BY DEF ReadTransaction
<1> HIDE DEF n
<1>4. size \in Nat /\ start \in 0..size /\ filled \in 0..size /\ left \in Nat /\ n \in 1..size
  BY <1>1, <1>2, SizeIsNat DEF TypeOK
<1>5. bytes \in Seq(0..sent) /\ Len(bytes) = n
  <2>1. \A i \in 1..n : i - 1 \in 0..(size - 1)
    BY <1>4
  <2>2. \A i \in 1..n : buf[At(i - 1)] \in 0..sent
    BY <1>1, <2>1, Places DEF TypeOK
  <2>3. n \in Nat /\ bytes \in [1..n -> 0..sent]
    BY <1>4, <2>2
  <2> QED
    BY <2>3
<1>6. since \in Nat /\ fresh \in Nat /\ rcvd' - rcvdBefore' = since + n /\ sent' - sentBefore' = fresh
  BY <1>1, <1>3, <1>4 DEF TypeOK
<1>7. TypeOK'
  <2>1. got' \in Seq(0..sent)
    BY <1>1, <1>3, <1>5 DEF TypeOK
  <2>2. start' \in 0..size
    BY <1>3, <1>4 DEF StartAfter
  <2>3. rcvdBefore \in 0..(rcvd + n) /\ rcvd + n \in Nat
    BY <1>1, <1>4 DEF TypeOK
  <2> QED
    BY <1>1, <1>2, <1>3, <1>4, <2>1, <2>2, <2>3 DEF TypeOK
<1> HIDE DEF since, fresh
<1>8. \A i \in 0..(size - 1) :
         /\ since + i + 1 <= fresh => buf[At(i)] = sentBefore + (since + i + 1)
         /\ since + i + 1 \in (fresh + 1)..size => buf[At(i)] <= sentBefore
  BY <1>1 DEF Turned, since, fresh
<1>9. Turned'
  <2>1. \A i \in 0..(size - 1) : n + i < size => At(i)' = At(n + i)
    BY <1>3, <1>4 DEF At, StartAfter
  <2>2. fresh <= size
    BY <1>4, <1>6 DEF IInv, Held, fresh
  <2> SUFFICES ASSUME NEW i \in 0..(size - 1)
               PROVE  /\ since + n + i + 1 <= fresh => buf[At(i)'] = sentBefore + (since + n + i + 1)
                      /\ since + n + i + 1 \in (fresh + 1)..size => buf[At(i)'] <= sentBefore
    BY <1>3, <1>6 DEF Turned
  <2>3. CASE since + n + i + 1 <= size
    BY <1>4, <1>6, <1>8, <2>1, <2>3
  <2> QED
    BY <1>4, <1>6, <2>2, <2>3
<1>10. LatestWriteReadFirst'
  <2> DEFINE m == Len(got)
  <2>1. m \in Nat /\ got \in Seq(0..sent)
    BY <1>1 DEF TypeOK
  <2>2. \A i \in 1..m :
          /\ since - m + i \in 1..fresh => got[i] = sentBefore + (since - m + i)
          /\ since - m + i \in (fresh + 1)..size => got[i] <= sentBefore
    BY <1>1 DEF LatestWriteReadFirst, since, fresh
  <2>3. \A i \in 1..n :
          /\ since + i \in 1..fresh => bytes[i] = sentBefore + (since + i)
          /\ since + i \in (fresh + 1)..size => bytes[i] <= sentBefore
    <3> TAKE i \in 1..n
    <3>1. i - 1 \in 0..(size - 1) /\ bytes[i] = buf[At(i - 1)] /\ since + (i - 1) + 1 = since + i
      BY <1>4, <1>6
    <3> QED
      BY <1>8, <3>1
  <2> HIDE DEF bytes
  <2>4. /\ Len(got') = m + n
        /\ \A i \in 1..(m + n) : got'[i] = IF i <= m THEN got[i] ELSE bytes[i - m]
    BY <1>3, <1>5, <2>1, Concatenation
  <2> HIDE DEF m
  <2> SUFFICES ASSUME NEW i \in 1..(m + n)
               PROVE  /\ (since + n) - (m + n) + i \in 1..fresh =>
                           got'[i] = sentBefore + ((since + n) - (m + n) + i)
                      /\ (since + n) - (m + n) + i \in (fresh + 1)..size => got'[i] <= sentBefore
    <3>1. \A i \in 1..Len(got') : i \in 1..(m + n)
      BY <2>4
    <3>2. rcvd' - rcvdBefore' - Len(got') = (since + n) - (m + n)
      BY <1>6, <2>4
    <3> QED
      BY <1>3, <1>6, <3>1, <3>2 DEF LatestWriteReadFirst
  <2>5. (since + n) - (m + n) + i = since - m + i
    BY <1>4, <1>6, <2>1
  <2>6. CASE i <= m
    BY <1>4, <2>1, <2>2, <2>4, <2>5, <2>6
  <2>7. CASE i > m
    <3>1. i - m \in 1..n /\ since + (i - m) = since - m + i /\ got'[i] = bytes[i - m]
      BY <1>4, <1>6, <2>1, <2>4, <2>7
    <3> QED
      BY <2>3, <2>5, <3>1
  <2> QED
    BY <1>4, <2>1, <2>6, <2>7
<1>11. Held'
  BY <1>3 DEF IInv, Held
<1> QED
  BY <1>1, <1>3, <1>7, <1>9, <1>10, <1>11 DEF IInv, WritesOnce, Fresh

LEMMA NextIInv == ASSUME IInv, [Next]_vars PROVE IInv'
<1>1. CASE UNCHANGED vars
  BY <1>1 DEF vars, IInv, TypeOK, WritesOnce, LatestWriteReadFirst, Turned, Fresh, Held, At
<1>2. CASE Next
  BY <1>2, WriteIInv, CallIInv, WriteTransactionIInv, ReadTransactionIInv DEF Next
<1> QED
  BY <1>1, <1>2

-----------------------------------------------------------------------------
(* The theorems.                                                           *)

(* The inductive invariant holds in every state.                           *)
THEOREM Inductive == Spec => []IInv
BY InitIInv, NextIInv, PTL DEF Spec

(* Types of the channel; start and filled stay within the buffer.          *)
THEOREM TypeCorrect == Spec => []TypeOK
<1>1. IInv => TypeOK
  BY DEF IInv
<1> QED
  BY <1>1, Inductive, PTL

(* A write copies at most once.                                            *)
THEOREM CopiesOnce == Spec => []WritesOnce
<1>1. IInv => WritesOnce
  BY DEF IInv
<1> QED
  BY <1>1, Inductive, PTL

(* Reads after a write deliver its bytes in order and once, around the end *)
(* of the buffer too, and what was there before until it comes round.       *)
THEOREM DeliversLatestWrite == Spec => []LatestWriteReadFirst
<1>1. IInv => LatestWriteReadFirst
  BY DEF IInv
<1> QED
  BY <1>1, Inductive, PTL
=============================================================================
