----------------------------- MODULE StackSwap ------------------------------
(***************************************************************************)
(* Store() and Restore() of the coroutine engines: coroutines share one     *)
(* region of the stack, and a switch copies the frames of the one that      *)
(* gives up control to its context and those of the other one back.         *)
(*                                                                         *)
(* Position p >= 1 of the stack is the p-th block below StackBottom, where  *)
(* coroutines have their frames; positions p <= 0 hold the frames of        *)
(* start() and its callers.  The k-th block of the copy of a context, from  *)
(* 0, belongs to position low - k, as the stack grows downwards.  Who gets  *)
(* control is the subject of Engine: here it is any live coroutine.         *)
(***************************************************************************)
EXTENDS Integers

CONSTANTS
  Ctx,       \* contexts
  NULL,
  Val,       \* what a coroutine may put into a block
  Foreign,   \* the content of the frames of start() and its callers
  MaxDepth   \* bound: the deepest stack of a coroutine, in blocks

ASSUME DepthAssumption == MaxDepth \in Nat \ {0}
ASSUME NullAssumption == NULL \notin Ctx

VARIABLES
  stack,        \* the memory
  live,         \* contexts allocated and not deleted
  cur_routine,  \* the current context, NULL once start() returned
  depth,        \* how deep the coroutine's stack is
  low,          \* context.Low: how deep it was when it was stored
  capacity,     \* get<1>(context.Stack)
  copy,         \* get<0>(context.Stack)
  frames,       \* what the coroutine has put on its stack
  shrunk        \* some Store() found its context's buffer larger than needed

vars == <<stack, live, cur_routine, depth, low, capacity, copy, frames, shrunk>>

Coroutine == 1..MaxDepth
Outer == (1 - MaxDepth)..0
Block == 0..(MaxDepth - 1)

Content == Val \cup {Foreign}

TypeOK ==
  /\ stack \in [Outer \cup Coroutine -> Content]
  /\ live \subseteq Ctx
  /\ cur_routine \in Ctx \cup {NULL}
  /\ depth \in [Ctx -> 0..MaxDepth]
  /\ low \in [Ctx -> 0..MaxDepth]
  /\ capacity \in [Ctx -> 0..MaxDepth]
  /\ copy \in [Ctx -> [Block -> Content]]
  /\ frames \in [Ctx -> [Coroutine -> Content]]
  /\ shrunk \in BOOLEAN
  /\ \A c \in live : low[c] <= capacity[c]

Empty == [p \in Coroutine |-> Foreign]

\* start(): the context of main is stored with the frame of run() on the stack
\* and gets control.
Init ==
  \E c \in Ctx, v \in Val :
    /\ stack = [p \in Outer \cup Coroutine |-> IF p = 1 THEN v ELSE Foreign]
    /\ live = {c}
    /\ cur_routine = c
    /\ depth = [d \in Ctx |-> IF d = c THEN 1 ELSE 0]
    /\ low = depth
    /\ capacity = depth
    /\ copy = [d \in Ctx |-> [k \in Block |-> IF d = c /\ k = 0 THEN v ELSE Foreign]]
    /\ frames = [d \in Ctx |-> IF d = c THEN [Empty EXCEPT ![1] = v] ELSE Empty]
    /\ shrunk = FALSE

-----------------------------------------------------------------------------
(* Store() and Restore()                                                   *)

\* Mutants of CapacityAfter: the buffer is replaced but its size is not noted;
\* it is made one block larger than the frames.
CapacityKept(c, d) == IF capacity[c] = 0 THEN 1 ELSE capacity[c]
CapacityOneMore(c, d) == IF capacity[c] < d THEN d + 1 ELSE capacity[c]

\* A new buffer is allocated only when the old one is too small for d blocks.
CapacityAfter(c, d) == IF capacity[c] < d THEN d ELSE capacity[c]

\* memcpy() of the d blocks from Low to StackBottom; what the buffer holds
\* behind them stays.
CopyAfter(c, d, st) ==
  [k \in Block |-> IF k < d THEN st[d - k] ELSE copy[c][k]]

\* Store(c) with d blocks on the stack st.
Store(c, d, st) ==
  /\ low' = [low EXCEPT ![c] = d]
  /\ capacity' = [capacity EXCEPT ![c] = CapacityAfter(c, d)]
  /\ copy' = [copy EXCEPT ![c] = CopyAfter(c, d, st)]
  /\ shrunk' = (shrunk \/ d < capacity[c])

\* Mutant of Restored: the copy goes one block too far up the stack.
RestoredShifted(st, l, cap, buf) ==
  [p \in DOMAIN st |-> IF l - 1 - cap < p /\ p < l THEN buf[l - 1 - p] ELSE st[p]]

\* Restore(): memcpy() of the whole buffer to Low, also of what lies behind the
\* blocks that Store() put there.
Restored(st, l, cap, buf) ==
  [p \in DOMAIN st |-> IF l - cap < p /\ p <= l THEN buf[l - p] ELSE st[p]]

-----------------------------------------------------------------------------
(* What coroutines do                                                      *)

\* The current coroutine calls a function, which puts v on the stack.
Call(v) ==
  LET d == depth[cur_routine] + 1 IN
  /\ cur_routine # NULL /\ d <= MaxDepth
  /\ depth' = [depth EXCEPT ![cur_routine] = d]
  /\ stack' = [stack EXCEPT ![d] = v]
  /\ frames' = [frames EXCEPT ![cur_routine][d] = v]
  /\ UNCHANGED <<live, cur_routine, low, capacity, copy, shrunk>>

\* A function it called returns; the first frame, that of run(), remains.
Return ==
  /\ cur_routine # NULL /\ depth[cur_routine] > 1
  /\ depth' = [depth EXCEPT ![cur_routine] = @ - 1]
  /\ UNCHANGED <<stack, live, cur_routine, low, capacity, copy, frames, shrunk>>

\* run(): the new context gets a copy of the stack of its creator with the
\* frame v of run(), which holds the arguments, on top.
Run(c, v) ==
  LET d == depth[cur_routine] + 1 IN
  /\ cur_routine # NULL /\ c \notin live /\ d <= MaxDepth
  /\ live' = live \cup {c}
  /\ stack' = [stack EXCEPT ![d] = v]
  /\ frames' = [frames EXCEPT ![c] = [frames[cur_routine] EXCEPT ![d] = v]]
  /\ depth' = [depth EXCEPT ![c] = d]
  /\ Store(c, d, stack')
  /\ UNCHANGED cur_routine

\* sched(): the current coroutine is stored and c, which may be itself, restored.
Switch(c) ==
  /\ cur_routine # NULL
  /\ Store(cur_routine, depth[cur_routine], stack)
  /\ stack' = Restored(stack, low'[c], capacity'[c], copy'[c])
  /\ cur_routine' = c
  /\ UNCHANGED <<live, depth, frames>>

\* The end of run(): the context and its buffer are deleted and c is restored,
\* or, when there is no other one, start() returns.
Forget(c) ==
  /\ live' = live \ {c}
  /\ depth' = [depth EXCEPT ![c] = 0]
  /\ low' = [low EXCEPT ![c] = 0]
  /\ capacity' = [capacity EXCEPT ![c] = 0]
  /\ copy' = [copy EXCEPT ![c] = [k \in Block |-> Foreign]]
  /\ frames' = [frames EXCEPT ![c] = Empty]
  /\ UNCHANGED shrunk

Complete(c) ==
  /\ cur_routine # NULL /\ c # cur_routine
  /\ Forget(cur_routine)
  /\ stack' = Restored(stack, low[c], capacity[c], copy[c])
  /\ cur_routine' = c

CompleteLast ==
  /\ live = {cur_routine}
  /\ Forget(cur_routine)
  /\ cur_routine' = NULL
  /\ UNCHANGED stack

Next ==
  \/ \E v \in Val : Call(v)
  \/ Return
  \/ \E c \in Ctx, v \in Val : Run(c, v)
  \/ \E c \in live : Switch(c) \/ Complete(c)
  \/ CompleteLast

Spec == Init /\ [][Next]_vars

-----------------------------------------------------------------------------
(* Properties                                                              *)

\* Whenever a coroutine executes, its frames are as it left them, whoever used
\* the stack in between and however deep.
FramesRestored ==
  cur_routine # NULL =>
    \A p \in Coroutine : p <= depth[cur_routine] => stack[p] = frames[cur_routine][p]

\* The comments say that the stack of a context ends at Hight, "coroutine stack
\* end address", and that Restore() is to "restore stack of the given context";
\* so no switch is to write to the frames of start() and its callers, which lie
\* beyond the end of every coroutine's stack.
OuterFramesIntact == \A p \in Outer : stack[p] = Foreign

\* Restore() writes to the frames of start() and its callers only if some
\* coroutine was once stored with a deeper stack than at a later time.
OuterIntactUnlessShrunk == ~ shrunk => OuterFramesIntact
=============================================================================
