------------------------------ MODULE ExtSort -------------------------------
(***************************************************************************)
(* extsort() of homework/03-sort, with File as it uses it: blocks of the    *)
(* input are read, sorted and written to temporary files, which are then    *)
(* to be merged.                                                            *)
(*                                                                         *)
(* One step is one system resource opened or one pass of a loop; each of    *)
(* them may fail with an exception, which nobody catches.  Merging is not   *)
(* spelled out, as it is not reached (MergeIsDead).                         *)
(***************************************************************************)
EXTENDS Integers, Sequences, FiniteSets, Functions

CONSTANTS
  Value,     \* the values sorted
  BUF_LEN,   \* elements of the buffer
  ways,      \* temporary files
  MaxLen,    \* bound: length of the input
  NULL

ASSUME BufferAssumption ==
  /\ Value \subseteq Int /\ MaxLen \in Nat
  /\ BUF_LEN \in Nat \ {0} /\ ways \in Nat \ {0}
  /\ BUF_LEN % (2 * ways) = 0   \* extsort() throws otherwise
ASSUME NullAssumption == NULL \notin Seq(Value)

VARIABLES
  input,      \* the elements of the input file
  pos,        \* elements of it read so far
  feof,       \* the end-of-file indicator of its stream
  eof_flag,   \* File::eof_flag of file_in
  buf, rdcnt, c,   \* the locals of extsort()
  dst,        \* contents of the temporary files, of which there may be none yet
  output,     \* contents of the output file, NULL before it is opened
  memory,     \* what buf held when it was allocated
  pc

vars == <<input, pos, feof, eof_flag, buf, rdcnt, c, dst, output, memory, pc>>

Index == 1..BUF_LEN
Block == [Index -> Value]
Labels == {"temp", "open", "read", "test", "write", "merge", "done", "failed"}

TypeOK ==
  /\ input \in Seq(Value)
  /\ pos \in 0..Len(input) /\ feof \in BOOLEAN /\ eof_flag \in BOOLEAN
  /\ buf \in Block /\ memory \in Block
  /\ rdcnt \in 0..BUF_LEN /\ c \in Nat
  /\ dst \in [0..(ways - 1) -> Seq(Value)]
  /\ output \in Seq(Value) \cup {NULL}
  /\ pc \in Labels

\* new T[buf_len] leaves the buffer uninitialised.
Init ==
  /\ input \in UNION {[1..n -> Value] : n \in 0..MaxLen}
  /\ memory \in Block /\ buf = memory
  /\ pos = 0 /\ feof = FALSE /\ eof_flag = FALSE
  /\ rdcnt = 0 /\ c = 0
  /\ dst = [i \in 0..(ways - 1) |-> <<>>]
  /\ output = NULL
  /\ pc = "temp"

-----------------------------------------------------------------------------
(* What std::sort promises                                                 *)

Ascending(s) == \A i, j \in DOMAIN s : i < j => s[i] <= s[j]
Permutation == Bijection(Index, Index)
Sorted(b) == {s \in {[i \in Index |-> b[p[i]]] : p \in Permutation} : Ascending(s)}

\* std::sort(buf, buf + buf_len): all of the buffer.
Arranged(b) == Sorted(b)

-----------------------------------------------------------------------------
(* File                                                                    *)

Least(m, n) == IF m < n THEN m ELSE n

\* fread() of a block: what is left of the file, at most.
Available == Least(BUF_LEN, Len(input) - pos)

\* The buffer with the next n elements of the file at its beginning.
Filled(n) == [i \in Index |-> IF i <= n THEN input[pos + i] ELSE buf[i]]

\* Mutant of EofAfter: a short count means the end of the file.
EofAfterShort(n, end) == eof_flag \/ n # BUF_LEN

\* File::read() looks for the end of the file, or an incomplete element behind,
\* only if the count is short and the stream is not at its end.
EofAfter(n, end) == eof_flag \/ (n # BUF_LEN /\ ~ end)

\* Mutant of PosAfter: the file is taken to hold whole blocks.
PosAfterBlock(n) == pos + BUF_LEN

PosAfter(n) == pos + n

Prefix(b, n) == [i \in 1..n |-> b[i]]

-----------------------------------------------------------------------------
(* extsort()                                                               *)

\* An exception: a file cannot be opened, read or written.
Fail ==
  /\ pc \in {"temp", "open", "read", "write"}
  /\ pc' = "failed"
  /\ UNCHANGED <<input, pos, feof, eof_flag, buf, rdcnt, c, dst, output, memory>>

OpenTempFiles ==
  /\ pc = "temp" /\ pc' = "open"
  /\ UNCHANGED <<input, pos, feof, eof_flag, buf, rdcnt, c, dst, output, memory>>

OpenInput ==
  /\ pc = "open" /\ pc' = "read"
  /\ UNCHANGED <<input, pos, feof, eof_flag, buf, rdcnt, c, dst, output, memory>>

\* One pass of the loop: a block is read, sorted and written to a temporary
\* file, unless writing fails.
ReadBlock ==
  /\ pc = "read"
  /\ LET n == Available
         end == feof \/ n < BUF_LEN IN
     /\ rdcnt' = n /\ pos' = PosAfter(n)
     /\ feof' = end /\ eof_flag' = EofAfter(n, end)
     /\ \/ /\ n = 0
           /\ pc' = "test"
           /\ UNCHANGED <<buf, c, dst>>
        \/ /\ n > 0
           /\ buf' \in Arranged(Filled(n))
           /\ c' = c + 1
           /\ \/ /\ dst' = [dst EXCEPT ![c % ways] = @ \o Prefix(buf', n)]
                 /\ pc' = "test"
              \/ /\ UNCHANGED dst
                 /\ pc' = "failed"
  /\ UNCHANGED <<input, output, memory>>

\* Mutant of Again: the loop goes on while the end is not reached.
AgainBeforeEnd == ~ feof

\* while (file_in.eof())
Again == eof_flag

AfterBlocks ==
  /\ pc = "test"
  /\ pc' = IF Again THEN "read" ELSE IF c <= 1 THEN "write" ELSE "merge"
  /\ UNCHANGED <<input, pos, feof, eof_flag, buf, rdcnt, c, dst, output, memory>>

\* Mutant of WriteCount: the buffer is written as a whole.
WriteCountWhole == BUF_LEN

\* (buf_len + rdcnt) % buf_len
WriteCount == (BUF_LEN + rdcnt) % BUF_LEN

\* Nothing to merge: the output is opened and written from the buffer.
WriteOutput ==
  /\ pc = "write"
  /\ output' = Prefix(buf, WriteCount)
  /\ pc' = "done"
  /\ UNCHANGED <<input, pos, feof, eof_flag, buf, rdcnt, c, dst, memory>>

Next ==
  \/ OpenTempFiles \/ OpenInput \/ ReadBlock \/ AfterBlocks \/ WriteOutput
  \/ Fail

Spec == Init /\ [][Next]_vars

\* The program runs.
FairSpec == Spec /\ WF_vars(Next)

-----------------------------------------------------------------------------
(* Properties                                                              *)

\* What is written is in order: the test reads the output and looks for a pair
\* of neighbours in the wrong order.
OutputAscending == output # NULL => Ascending(output)

\* At most one block is read, so that nothing is ever merged: eof() never says
\* that the end was reached, as fread() sets the stream's own indicator on every
\* short count.
MergeIsDead == c <= 1 /\ pc # "merge"

\* What is sorted: the block read, and behind a short one what the memory of
\* the buffer held before.
Loaded == [i \in Index |-> IF i <= Len(input) THEN input[i] ELSE memory[i]]

\* Of an input shorter than the buffer as many elements are written as there
\* are, in order; they are the least ones of the whole buffer, so that what the
\* memory held before takes the place of greater elements of the input.
WritesLeast ==
  pc = "done" /\ Len(input) < BUF_LEN =>
    /\ Ascending(output) /\ DOMAIN output = DOMAIN input
    /\ \E p \in Permutation : \A i \in DOMAIN output :
         /\ output[i] = Loaded[p[i]]
         /\ \A j \in Index \ DOMAIN output : output[i] <= Loaded[p[j]]

\* The loop over blocks comes to its end, and so does the program.
Terminates == <>(pc \in {"done", "failed"})

-----------------------------------------------------------------------------
(* What the documentation says and the code does not do                    *)

\* One sequence has each value as often as the other.
Count(s, v) == Cardinality({i \in DOMAIN s : s[i] = v})
SameItems(s, t) == \A v \in Value : Count(s, v) = Count(t, v)

\* README: external sorting by multiway merging, of inputs that fill the buffer
\* and of larger ones.
SortsLargeInput == pc = "done" /\ Len(input) >= BUF_LEN => SameItems(output, input)
=============================================================================
