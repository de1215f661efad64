------------------------------ MODULE Channel -------------------------------
(***************************************************************************)
(* The bytes of one channel of homework/06-coroutines-channels: the ring    *)
(* buffer and the loops of do_write_task() and do_read_task(), one step per *)
(* pass of their inner loops.                                               *)
(*                                                                         *)
(* Byte k is the k-th byte that writers put into the buffer, 0 a byte of    *)
(* the buffer that nobody wrote.  As ChannelEngine shows, a call that finds *)
(* the buffer full, or empty, never comes to its end and no other call      *)
(* starts after it: the model stops there.  As filled is never lowered, that  *)
(* comes after as many bytes as the buffer has.  Reads never come to an end of  *)
(* them: they go round and round in the buffer.                             *)
(***************************************************************************)
EXTENDS Naturals, Sequences

CONSTANTS
  Sizes,     \* buffer sizes given to create()
  Lengths,   \* lengths given to write() and read()
  MaxRead    \* bound: no read starts when more bytes were read already

ASSUME LengthsAssumption ==
  Sizes \subseteq Nat /\ Lengths \subseteq Nat /\ MaxRead \in Nat

VARIABLES
  size, buf, start, filled,   \* the fields of the channel
  call,                       \* the task being served
  left,                       \* write_task.size or read_task.size
  progress,                   \* do_write_task's local "written"
  sent, rcvd,                 \* how many bytes were written and read so far
  got,                        \* the bytes the latest read delivered
  sentBefore, rcvdBefore      \* sent and rcvd when the latest write began

vars == <<size, buf, start, filled, call, left, progress, sent, rcvd, got,
          sentBefore, rcvdBefore>>

TypeOK ==
  /\ size \in Sizes
  /\ start \in 0..size /\ filled \in 0..size
  /\ sent \in Nat /\ rcvd \in Nat
  /\ buf \in [0..(size - 1) -> 0..sent]
  /\ call \in {"none", "write", "read"}
  /\ left \in Nat
  /\ progress \in BOOLEAN
  /\ got \in Seq(0..sent)
  /\ sentBefore \in 0..sent /\ rcvdBefore \in 0..rcvd

\* create(): the buffer is not initialised.
Init ==
  /\ size \in Sizes
  /\ buf = [p \in 0..(size - 1) |-> 0]
  /\ start = 0 /\ filled = 0
  /\ call = "none" /\ left = 0
  /\ progress = FALSE
  /\ sent = 0 /\ rcvd = 0 /\ got = <<>>
  /\ sentBefore = 0 /\ rcvdBefore = 0

\* Mutant of Least: the copy does not wrap around, it ends with the buffer.
LeastToEnd(a, b) ==
  LET n == IF a < b THEN a ELSE b IN IF n < size - start THEN n ELSE size - start

Least(a, b) == IF a < b THEN a ELSE b

\* Where the i-th byte of a transaction lies: behind start, and from the
\* beginning of the buffer what exceeds its end.
At(i) == IF start + i < size THEN start + i ELSE start + i - size

\* Mutant of StartAfter: start does not wrap around.
StartBeyond(n) == start + n

\* Mutant of StartAfter: the part copied before the wrap-around is not taken off.
StartWhole(n) == IF start + n > size THEN n ELSE start + n

\* start after n bytes were read; it is size, not 0, at the end of the buffer.
StartAfter(n) == IF start + n > size THEN start + n - size ELSE start + n

\* write() pushes its task.
Write(n) ==
  /\ call = "none"
  /\ call' = "write" /\ left' = n /\ progress' = FALSE
  /\ sentBefore' = sent /\ rcvdBefore' = rcvd
  /\ UNCHANGED <<size, buf, start, filled, sent, rcvd, got>>

\* One pass of the loop of do_write_task(): it copies to buf + start.
WriteTransaction ==
  /\ call = "write" /\ left > 0 /\ filled < size
  /\ LET n == Least(size - filled, left) IN
     /\ buf' = [p \in DOMAIN buf |->
                  IF \E i \in 0..(n - 1) : At(i) = p
                  THEN sent + 1 + CHOOSE i \in 0..(n - 1) : At(i) = p
                  ELSE buf[p]]
     /\ left' = left - n /\ filled' = filled + n /\ sent' = sent + n
  /\ progress' = TRUE
  /\ UNCHANGED <<size, start, call, rcvd, got, sentBefore, rcvdBefore>>

\* The task is written and popped.
WriteDone ==
  /\ call = "write" /\ left = 0
  /\ call' = "none"
  /\ UNCHANGED <<size, buf, start, filled, left, progress, sent, rcvd, got,
                 sentBefore, rcvdBefore>>

\* read() pushes its task.
Read(n) ==
  /\ call = "none" /\ rcvd <= MaxRead
  /\ call' = "read" /\ left' = n /\ got' = <<>>
  /\ UNCHANGED <<size, buf, start, filled, progress, sent, rcvd,
                 sentBefore, rcvdBefore>>

\* One pass of the loop of do_read_task(): filled stays as it is.
ReadTransaction ==
  /\ call = "read" /\ left > 0 /\ filled > 0
  /\ LET n == Least(filled, left) IN
     /\ got' = got \o [i \in 1..n |-> buf[At(i - 1)]]
     /\ start' = StartAfter(n)
     /\ left' = left - n /\ rcvd' = rcvd + n
  /\ UNCHANGED <<size, buf, filled, call, progress, sent, sentBefore, rcvdBefore>>

\* The task is served and popped.
ReadDone ==
  /\ call = "read" /\ left = 0
  /\ call' = "none"
  /\ UNCHANGED <<size, buf, start, filled, left, progress, sent, rcvd,
                 got, sentBefore, rcvdBefore>>

Next ==
  \/ \E n \in Lengths : Write(n) \/ Read(n)
  \/ WriteTransaction \/ WriteDone
  \/ ReadTransaction \/ ReadDone

Spec == Init /\ [][Next]_vars

-----------------------------------------------------------------------------
(* Properties                                                              *)

\* The bytes delivered next after a write are those of that write, in order,
\* wherever start stood and however reads cut them: the k-th byte delivered since
\* the latest write is its k-th byte.  None of them comes again before reads went
\* once around the buffer; until then they deliver what was there before it.
LatestWriteReadFirst ==
  \A i \in 1..Len(got) :
    LET k == rcvd - rcvdBefore - Len(got) + i IN
    /\ k \in 1..(sent - sentBefore) => got[i] = sentBefore + k
    /\ k \in (sent - sentBefore + 1)..size => got[i] <= sentBefore

\* A write copies once, however long it is and wherever start stands: after the
\* copy its task is done or the buffer full.  (It never advances start, so a
\* second copy would overwrite the first.)
WritesOnce == call = "write" /\ progress => left = 0 \/ filled = size

-----------------------------------------------------------------------------
(* What a test expects and the code does not do                            *)

\* A reader gets what was written, as in the test ChannelsDelayedRead: at least
\* while it asks for no more than that: the latest read delivered the bytes that
\* follow those delivered before.
InOrder == got = [i \in 1..Len(got) |-> rcvd - Len(got) + i]

DeliversWritten == rcvd <= sent => InOrder
=============================================================================
