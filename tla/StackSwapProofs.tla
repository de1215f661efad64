-------------------------- MODULE StackSwapProofs ---------------------------
(***************************************************************************)
(* Theorems about StackSwap, for every set of contexts and every depth.     *)
(*                                                                         *)
(* What makes FramesRestored inductive is that the copy of each suspended   *)
(* context holds its frames; what makes OuterIntactUnlessShrunk so, that    *)
(* the buffers are exactly as long as the stored stacks while no Store()    *)
(* found one too long.                                                     *)
(***************************************************************************)
EXTENDS StackSwap, TLAPS

\* The copy of c holds the frames of c.
Saved(c) ==
  /\ low[c] = depth[c]
  /\ \A k \in Block : k < depth[c] => copy[c][k] = frames[c][depth[c] - k]

Exact == \A c \in live : capacity[c] = low[c]

IInv ==
  /\ TypeOK
  /\ cur_routine # NULL => cur_routine \in live
  /\ cur_routine = NULL => live = {}
  /\ \A c \in live : depth[c] >= 1
  /\ \A c \in live : c # cur_routine => Saved(c)
  /\ FramesRestored
  /\ ~ shrunk => OuterFramesIntact /\ Exact

USE DepthAssumption, NullAssumption

\* What Restore() does with a buffer of cap blocks, l of them in use.
BringsBack(st, l, cap, buf) ==
  /\ Restored(st, l, cap, buf) \in [Outer \cup Coroutine -> Content]
  /\ \A p \in Coroutine : p <= l => Restored(st, l, cap, buf)[p] = buf[l - p]
  /\ cap = l => \A p \in Outer : Restored(st, l, cap, buf)[p] = st[p]

\* Restoring the copy of a context that holds its frames brings them back, and
\* if the buffer is exact it changes nothing else.
LEMMA RestoreBringsBack ==
  ASSUME NEW st \in [Outer \cup Coroutine -> Content], NEW l \in 1..MaxDepth,
         NEW cap \in 0..MaxDepth, NEW buf \in [Block -> Content], l <= cap
  PROVE  BringsBack(st, l, cap, buf)
<1>1. \A p \in Outer \cup Coroutine : l - cap < p /\ p <= l => l - p \in Block
  BY DEF Outer, Coroutine, Block
<1>2. Restored(st, l, cap, buf) \in [Outer \cup Coroutine -> Content]
  BY <1>1 DEF Restored
<1>3. \A p \in Coroutine : p <= l => Restored(st, l, cap, buf)[p] = buf[l - p]
  BY DEF Restored, Coroutine
<1>4. cap = l => \A p \in Outer : Restored(st, l, cap, buf)[p] = st[p]
  BY DEF Restored, Outer
<1> QED
  BY <1>2, <1>3, <1>4 DEF BringsBack

\* Store() of c with the d blocks that are its frames.
LEMMA StoreSaves ==
  ASSUME TypeOK, NEW c \in Ctx, NEW d \in 1..MaxDepth,
         NEW st \in [Outer \cup Coroutine -> Content],
         Store(c, d, st)
  PROVE  /\ low' \in [Ctx -> 0..MaxDepth]
         /\ capacity' \in [Ctx -> 0..MaxDepth]
         /\ copy' \in [Ctx -> [Block -> Content]]
         /\ low'[c] = d /\ d <= capacity'[c]
         /\ \A k \in Block : k < d => copy'[c][k] = st[d - k]
         /\ \A e \in Ctx \ {c} : low'[e] = low[e] /\ capacity'[e] = capacity[e]
                                   /\ copy'[e] = copy[e]
         /\ shrunk' \in BOOLEAN
         /\ ~ shrunk' => ~ shrunk /\ capacity'[c] = d
<1>1. low' = [low EXCEPT ![c] = d]
  BY DEF Store
<1>2. capacity' = [capacity EXCEPT ![c] = CapacityAfter(c, d)]
  BY DEF Store
<1>3. CapacityAfter(c, d) \in 0..MaxDepth /\ d <= CapacityAfter(c, d)
  BY DEF CapacityAfter, TypeOK
<1>4. copy' = [copy EXCEPT ![c] = CopyAfter(c, d, st)]
  BY DEF Store
<1>5. /\ CopyAfter(c, d, st) \in [Block -> Content]
      /\ \A k \in Block : k < d => CopyAfter(c, d, st)[k] = st[d - k]
  <2>1. \A k \in Block : k < d => d - k \in Coroutine
    BY DEF Block, Coroutine
  <2> QED
    BY <2>1 DEF CopyAfter, TypeOK
<1>6. shrunk' \in BOOLEAN
  BY DEF Store, TypeOK
<1>7. ~ shrunk' => ~ shrunk /\ ~ (d < capacity[c])
  BY DEF Store
<1>8. ~ shrunk' => CapacityAfter(c, d) = d
  <2>1. capacity[c] \in Nat /\ d \in Nat
    BY DEF TypeOK
  <2>2. ~ (d < capacity[c]) => CapacityAfter(c, d) = d
    BY <2>1 DEF CapacityAfter
  <2> QED
    BY <1>7, <2>2
<1> QED
  BY <1>1, <1>2, <1>3, <1>4, <1>5, <1>6, <1>7, <1>8 DEF TypeOK

-----------------------------------------------------------------------------
(* The actions.                                                            *)

LEMMA InitIInv == Init => IInv
<1> SUFFICES ASSUME Init PROVE IInv
  OBVIOUS
<1>1. PICK c \in Ctx, v \in Val :
    /\ stack = [p \in Outer \cup Coroutine |-> IF p = 1 THEN v ELSE Foreign]
    /\ live = {c}
    /\ cur_routine = c
    /\ depth = [d \in Ctx |-> IF d = c THEN 1 ELSE 0]
    /\ low = depth
    /\ capacity = depth
    /\ copy = [d \in Ctx |-> [k \in Block |-> IF d = c /\ k = 0 THEN v ELSE Foreign]]
    /\ frames = [d \in Ctx |-> IF d = c THEN [Empty EXCEPT ![1] = v] ELSE Empty]
    /\ shrunk = FALSE
  BY DEF Init
<1>2. TypeOK
  <2>1. 1 \in Coroutine /\ v \in Content /\ Foreign \in Content
    BY DEF Coroutine, Content
  <2>2. stack \in [Outer \cup Coroutine -> Content]
    BY <1>1, <2>1
  <2>3. depth \in [Ctx -> 0..MaxDepth]
    BY <1>1
  <2>4. copy \in [Ctx -> [Block -> Content]]
    BY <1>1, <2>1
  <2>5. frames \in [Ctx -> [Coroutine -> Content]]
    BY <1>1, <2>1 DEF Empty
  <2>6. \A d \in live : low[d] <= capacity[d]
    <3>1. depth[c] = 1 /\ low[c] = 1 /\ capacity[c] = 1
      BY <1>1
    <3>2. \A d \in live : d = c
      BY <1>1
    <3> QED
      BY <3>1, <3>2
  <2> QED
    BY <1>1, <2>2, <2>3, <2>4, <2>5, <2>6 DEF TypeOK
<1>3. FramesRestored
  BY <1>1 DEF FramesRestored, Empty, Coroutine
<1>4. OuterFramesIntact /\ Exact
  BY <1>1 DEF OuterFramesIntact, Exact, Outer
<1> QED
  BY <1>1, <1>2, <1>3, <1>4 DEF IInv

LEMMA CallIInv == ASSUME IInv, NEW v \in Val, Call(v) PROVE IInv'
<1> DEFINE r == cur_routine
           d == depth[r] + 1
<1>1. r \in live /\ r \in Ctx /\ d \in Coroutine /\ depth[r] \in 1..MaxDepth
  BY DEF Call, IInv, TypeOK, Coroutine
<1>2. /\ depth' = [depth EXCEPT ![r] = d]
      /\ stack' = [stack EXCEPT ![d] = v]
      /\ frames' = [frames EXCEPT ![r] = [frames[r] EXCEPT ![d] = v]]
      /\ UNCHANGED <<live, cur_routine, low, capacity, copy, shrunk>>
  BY DEF Call
<1>3. depth'[r] = d /\ d = depth[r] + 1
  BY <1>1, <1>2 DEF IInv, TypeOK
<1> HIDE DEF d
<1>4. TypeOK'
  BY <1>1, <1>2 DEF IInv, TypeOK, Content, Coroutine
<1>5. \A c \in live : c # r => depth'[c] = depth[c] /\ frames'[c] = frames[c]
  BY <1>2 DEF IInv, TypeOK
<1>6. \A c \in live' : c # cur_routine' => Saved(c)'
  BY <1>2, <1>5 DEF IInv, Saved
<1>7. FramesRestored'
  <2> SUFFICES ASSUME NEW p \in Coroutine, p <= depth'[r]
               PROVE  stack'[p] = frames'[r][p]
    BY <1>2 DEF FramesRestored
  <2>1. CASE p = d
    BY <2>1, <1>1, <1>2 DEF IInv, TypeOK
  <2>2. CASE p # d
    <3>1. p <= depth[r]
      BY <2>2, <1>1, <1>3 DEF Coroutine
    <3>2. stack[p] = frames[r][p]
      BY <3>1, <1>1 DEF IInv, FramesRestored
    <3> QED
      BY <2>2, <3>2, <1>1, <1>2 DEF IInv, TypeOK
  <2> QED
    BY <2>1, <2>2
<1>8. ~ shrunk' => OuterFramesIntact' /\ Exact'
  <2>1. \A p \in Outer : stack'[p] = stack[p]
    BY <1>1, <1>2 DEF Outer, Coroutine, IInv, TypeOK
  <2> QED
    BY <2>1, <1>2 DEF IInv, OuterFramesIntact, Exact
<1>9. \A c \in live' : depth'[c] >= 1
  BY <1>1, <1>2, <1>3, <1>5 DEF IInv, Coroutine
<1> QED
  BY <1>1, <1>2, <1>4, <1>6, <1>7, <1>8, <1>9 DEF IInv

LEMMA ReturnIInv == ASSUME IInv, Return PROVE IInv'
<1> DEFINE r == cur_routine
<1>1. r \in live /\ r \in Ctx /\ depth[r] \in 2..MaxDepth
  BY DEF Return, IInv, TypeOK
<1>2. /\ depth' = [depth EXCEPT ![r] = depth[r] - 1]
      /\ UNCHANGED <<stack, live, cur_routine, low, capacity, copy, frames, shrunk>>
  BY DEF Return
<1>3. \A c \in live : c # r => depth'[c] = depth[c]
  BY <1>2 DEF IInv, TypeOK
<1>4. depth'[r] = depth[r] - 1 /\ depth'[r] \in 1..MaxDepth
  BY <1>1, <1>2 DEF IInv, TypeOK
<1>5. TypeOK'
  BY <1>1, <1>2 DEF IInv, TypeOK
<1>6. \A c \in live' : c # cur_routine' => Saved(c)'
  BY <1>2, <1>3 DEF IInv, Saved
<1>7. FramesRestored'
  BY <1>1, <1>2, <1>4 DEF IInv, FramesRestored, Coroutine
<1>8. ~ shrunk' => OuterFramesIntact' /\ Exact'
  BY <1>2 DEF IInv, OuterFramesIntact, Exact
<1>9. \A c \in live' : depth'[c] >= 1
  BY <1>2, <1>3, <1>4 DEF IInv
<1> QED
  BY <1>1, <1>2, <1>5, <1>6, <1>7, <1>8, <1>9 DEF IInv

LEMMA RunIInv == ASSUME IInv, NEW c \in Ctx, NEW v \in Val, Run(c, v) PROVE IInv'
<1> DEFINE r == cur_routine
           d == depth[r] + 1
           f == [frames[r] EXCEPT ![d] = v]
<1>1. r \in live /\ r \in Ctx /\ c \notin live /\ d \in 1..MaxDepth /\ depth[r] \in 1..MaxDepth
  BY DEF Run, IInv, TypeOK
<1>2. /\ live' = live \cup {c}
      /\ stack' = [stack EXCEPT ![d] = v]
      /\ frames' = [frames EXCEPT ![c] = f]
      /\ depth' = [depth EXCEPT ![c] = d]
      /\ Store(c, d, stack')
      /\ cur_routine' = r
  BY DEF Run
<1>3. d = depth[r] + 1
  OBVIOUS
<1> HIDE DEF d
<1>4. f \in [Coroutine -> Content] /\ stack' \in [Outer \cup Coroutine -> Content]
  BY <1>1, <1>2 DEF IInv, TypeOK, Content, Coroutine
<1>5. \A p \in Coroutine : p <= d => stack'[p] = f[p]
  <2> SUFFICES ASSUME NEW p \in Coroutine, p <= d PROVE stack'[p] = f[p]
    OBVIOUS
  <2>1. CASE p = d
    BY <2>1, <1>1, <1>2 DEF IInv, TypeOK
  <2>2. CASE p # d
    <3>1. p <= depth[r]
      BY <2>2, <1>1, <1>3 DEF Coroutine
    <3>2. stack[p] = frames[r][p]
      BY <3>1, <1>1 DEF IInv, FramesRestored
    <3> QED
      BY <2>2, <3>2, <1>1, <1>2 DEF IInv, TypeOK
  <2> QED
    BY <2>1, <2>2
<1> HIDE DEF f
<1>6. /\ low' \in [Ctx -> 0..MaxDepth]
      /\ capacity' \in [Ctx -> 0..MaxDepth]
      /\ copy' \in [Ctx -> [Block -> Content]]
      /\ low'[c] = d /\ d <= capacity'[c]
      /\ \A k \in Block : k < d => copy'[c][k] = stack'[d - k]
      /\ \A e \in Ctx \ {c} : low'[e] = low[e] /\ capacity'[e] = capacity[e]
                                /\ copy'[e] = copy[e]
      /\ shrunk' \in BOOLEAN
      /\ ~ shrunk' => ~ shrunk /\ capacity'[c] = d
  <2>1. TypeOK /\ Store(c, d, stack')
    BY <1>2 DEF IInv
  <2> HIDE DEF IInv
  <2> QED
    BY ONLY <2>1, <1>1, <1>4, StoreSaves
<1>7. /\ depth'[c] = d /\ frames'[c] = f
      /\ \A e \in live : e # c /\ depth'[e] = depth[e] /\ frames'[e] = frames[e]
  BY <1>1, <1>2 DEF IInv, TypeOK
<1>8. TypeOK'
  <2>1. \A e \in live' : low'[e] <= capacity'[e]
    BY <1>1, <1>2, <1>6 DEF IInv, TypeOK
  <2> QED
    BY <1>1, <1>2, <1>4, <1>6, <2>1 DEF IInv, TypeOK
<1>9. Saved(c)'
  <2>1. \A k \in Block : k < d => d - k \in Coroutine /\ d - k <= d
    BY <1>1 DEF Block, Coroutine
  <2> QED
    BY <2>1, <1>5, <1>6, <1>7 DEF Saved
<1>10. \A e \in live' : e # cur_routine' => Saved(e)'
  <2>1. ASSUME NEW e \in live, e # r PROVE Saved(e)'
    <3>1. e \in Ctx \ {c}
      BY <1>7 DEF IInv, TypeOK
    <3> QED
      BY <2>1, <3>1, <1>6, <1>7 DEF IInv, Saved
  <2> QED
    BY <2>1, <1>2, <1>9
<1>11. FramesRestored'
  <2> SUFFICES ASSUME NEW p \in Coroutine, p <= depth[r]
               PROVE  stack'[p] = frames[r][p]
    BY <1>1, <1>2, <1>7 DEF FramesRestored
  <2>1. p # d
    BY <1>1, <1>3 DEF Coroutine
  <2>2. stack'[p] = stack[p]
    BY <2>1, <1>2 DEF IInv, TypeOK
  <2> QED
    BY <2>2, <1>1 DEF IInv, FramesRestored
<1>12. ~ shrunk' => OuterFramesIntact' /\ Exact'
  <2>1. \A p \in Outer : stack'[p] = stack[p]
    BY <1>1, <1>2 DEF Outer, IInv, TypeOK
  <2>2. \A e \in live : e \in Ctx \ {c}
    BY <1>7 DEF IInv, TypeOK
  <2> QED
    BY <2>1, <2>2, <1>2, <1>6 DEF IInv, OuterFramesIntact, Exact
<1>13. \A e \in live' : depth'[e] >= 1
  BY <1>1, <1>2, <1>7 DEF IInv
<1> QED
  BY <1>1, <1>2, <1>8, <1>10, <1>11, <1>12, <1>13 DEF IInv

\* Restore() of a context whose copy holds its frames, on the stack st.
LEMMA RestoreIInv ==
  ASSUME TypeOK, NEW c \in Ctx, depth[c] \in 1..MaxDepth, low[c] <= capacity[c],
         Saved(c), NEW st \in [Outer \cup Coroutine -> Content]
  PROVE  LET after == Restored(st, low[c], capacity[c], copy[c])
         IN  /\ after \in [Outer \cup Coroutine -> Content]
             /\ \A p \in Coroutine : p <= depth[c] => after[p] = frames[c][p]
             /\ capacity[c] = low[c] => \A p \in Outer : after[p] = st[p]
<1> DEFINE after == Restored(st, low[c], capacity[c], copy[c])
<1>1. low[c] \in 1..MaxDepth /\ low[c] = depth[c]
  BY DEF Saved
<1>2. capacity[c] \in 0..MaxDepth /\ copy[c] \in [Block -> Content]
  BY DEF TypeOK
<1>3. /\ after \in [Outer \cup Coroutine -> Content]
      /\ \A p \in Coroutine : p <= low[c] => after[p] = copy[c][low[c] - p]
      /\ capacity[c] = low[c] => \A p \in Outer : after[p] = st[p]
  <2>1. BringsBack(st, low[c], capacity[c], copy[c])
    BY <1>1, <1>2, RestoreBringsBack
  <2> QED
    BY <2>1 DEF BringsBack
<1> HIDE DEF after
<1>4. ASSUME NEW p \in Coroutine, p <= depth[c] PROVE after[p] = frames[c][p]
  <2>1. depth[c] - p \in Block /\ depth[c] - p < depth[c]
    BY <1>4 DEF Coroutine, Block
  <2>2. copy[c][depth[c] - p] = frames[c][depth[c] - (depth[c] - p)]
    BY <2>1 DEF Saved
  <2>3. depth[c] - (depth[c] - p) = p
    BY <1>4 DEF Coroutine
  <2> QED
    BY <1>1, <1>3, <1>4, <2>2, <2>3
<1> QED
  BY <1>3, <1>4 DEF after

LEMMA SwitchIInv == ASSUME IInv, NEW c \in live, Switch(c) PROVE IInv'
<1>r. PICK r \in live : r = cur_routine
  BY DEF Switch, IInv
<1> DEFINE d == depth[r]
<1>1. r \in live /\ r \in Ctx /\ c \in Ctx /\ d \in 1..MaxDepth /\ TypeOK
  BY <1>r DEF Switch, IInv, TypeOK
<1>2. /\ Store(r, d, stack)
      /\ stack' = Restored(stack, low'[c], capacity'[c], copy'[c])
      /\ cur_routine' = c
      /\ UNCHANGED <<live, depth, frames>>
  BY <1>r DEF Switch
<1>3. /\ low' \in [Ctx -> 0..MaxDepth]
      /\ capacity' \in [Ctx -> 0..MaxDepth]
      /\ copy' \in [Ctx -> [Block -> Content]]
      /\ low'[r] = d /\ d <= capacity'[r]
      /\ \A k \in Block : k < d => copy'[r][k] = stack[d - k]
      /\ \A e \in Ctx \ {r} : low'[e] = low[e] /\ capacity'[e] = capacity[e]
                                /\ copy'[e] = copy[e]
      /\ shrunk' \in BOOLEAN
      /\ ~ shrunk' => ~ shrunk /\ capacity'[r] = d
  <2>1. stack \in [Outer \cup Coroutine -> Content]
    BY <1>1 DEF TypeOK
  <2> HIDE DEF d
  <2> QED
    BY ONLY <2>1, <1>1, <1>2, StoreSaves
<1>4. Saved(r)'
  <2>1. \A k \in Block : k < d => d - k \in Coroutine /\ d - k <= d
    BY <1>1 DEF Block, Coroutine
  <2>2. \A p \in Coroutine : p <= d => stack[p] = frames[r][p]
    BY <1>1, <1>r, NullAssumption DEF IInv, FramesRestored
  <2> QED
    BY <2>1, <2>2, <1>2, <1>3 DEF Saved
<1>5. \A e \in live : Saved(e)'
  <2>1. ASSUME NEW e \in live, e # r PROVE Saved(e)'
    BY <2>1, <1>r, <1>2, <1>3, <1>1 DEF IInv, Saved, TypeOK
  <2> QED
    BY <2>1, <1>4
<1>6. \A e \in live : low'[e] <= capacity'[e]
  <2>1. ASSUME NEW e \in live, e # r PROVE low'[e] <= capacity'[e]
    BY <2>1, <1>3, <1>1 DEF TypeOK
  <2> QED
    BY <2>1, <1>3
<1> DEFINE after == Restored(stack, low'[c], capacity'[c], copy'[c])
<1>7. /\ after \in [Outer \cup Coroutine -> Content]
      /\ \A p \in Coroutine : p <= depth'[c] => after[p] = frames'[c][p]
      /\ capacity'[c] = low'[c] => \A p \in Outer : after[p] = stack[p]
  <2>1. depth'[c] \in 1..MaxDepth /\ low'[c] = depth'[c] /\ low'[c] <= capacity'[c]
    BY <1>1, <1>2, <1>5, <1>6 DEF IInv, TypeOK, Saved
  <2>2. /\ low'[c] \in 1..MaxDepth
        /\ capacity'[c] \in 0..MaxDepth
        /\ copy'[c] \in [Block -> Content]
        /\ stack \in [Outer \cup Coroutine -> Content]
    BY <2>1, <1>1, <1>3 DEF TypeOK
  <2>3. /\ after \in [Outer \cup Coroutine -> Content]
        /\ \A p \in Coroutine : p <= low'[c] => after[p] = copy'[c][low'[c] - p]
        /\ capacity'[c] = low'[c] => \A p \in Outer : after[p] = stack[p]
    <3>1. BringsBack(stack, low'[c], capacity'[c], copy'[c])
      BY <2>1, <2>2, RestoreBringsBack
    <3> QED
      BY <3>1 DEF BringsBack
  <2> HIDE DEF after
  <2>4. ASSUME NEW p \in Coroutine, p <= depth'[c] PROVE after[p] = frames'[c][p]
    <3>1. depth'[c] - p \in Block /\ depth'[c] - p < depth'[c]
          /\ depth'[c] - (depth'[c] - p) = p
      BY <2>1, <2>4 DEF Coroutine, Block
    <3>2. copy'[c][depth'[c] - p] = frames'[c][p]
      BY <3>1, <1>5 DEF Saved
    <3> QED
      BY <2>1, <2>3, <2>4, <3>2
  <2> QED
    BY <2>3, <2>4
<1> HIDE DEF after
<1>8. stack' = after
  BY <1>2 DEF after
<1>9. TypeOK'
  BY <1>1, <1>2, <1>3, <1>6, <1>7, <1>8 DEF TypeOK
<1>10. FramesRestored'
  BY <1>2, <1>7, <1>8 DEF FramesRestored
<1>11. ~ shrunk' => OuterFramesIntact' /\ Exact'
  <2> SUFFICES ASSUME ~ shrunk' PROVE OuterFramesIntact' /\ Exact'
    OBVIOUS
  <2>1. ~ shrunk /\ capacity'[r] = d
    BY <1>3
  <2>2. Exact'
    <3>1. ASSUME NEW e \in live, e # r PROVE capacity'[e] = low'[e]
      BY <3>1, <2>1, <1>1, <1>3 DEF IInv, Exact, TypeOK
    <3> QED
      BY <3>1, <2>1, <1>2, <1>3 DEF Exact
  <2>3. capacity'[c] = low'[c]
    BY <2>2, <1>2 DEF Exact
  <2> QED
    BY <2>1, <2>2, <2>3, <1>7, <1>8 DEF IInv, OuterFramesIntact
<1> QED
  BY <1>1, <1>2, <1>5, <1>9, <1>10, <1>11 DEF IInv

\* Deleting a context leaves the others alone.
LEMMA ForgetKeeps ==
  ASSUME IInv, NEW r \in live, Forget(r)
  PROVE  /\ live' = live \ {r}
         /\ depth' \in [Ctx -> 0..MaxDepth]
         /\ low' \in [Ctx -> 0..MaxDepth]
         /\ capacity' \in [Ctx -> 0..MaxDepth]
         /\ copy' \in [Ctx -> [Block -> Content]]
         /\ frames' \in [Ctx -> [Coroutine -> Content]]
         /\ shrunk' = shrunk
         /\ \A e \in live \ {r} : /\ depth'[e] = depth[e] /\ low'[e] = low[e]
                                   /\ capacity'[e] = capacity[e]
                                   /\ copy'[e] = copy[e] /\ frames'[e] = frames[e]
<1>1. 0 \in 0..MaxDepth
  OBVIOUS
<1>2. /\ [k \in Block |-> Foreign] \in [Block -> Content]
      /\ Empty \in [Coroutine -> Content]
  BY DEF Content, Empty
<1> QED
  BY <1>1, <1>2 DEF Forget, IInv, TypeOK

LEMMA CompleteIInv == ASSUME IInv, NEW c \in live, Complete(c) PROVE IInv'
<1> DEFINE r == cur_routine
           after == Restored(stack, low[c], capacity[c], copy[c])
<1>1. r \in live /\ c # r /\ Forget(r) /\ TypeOK /\ c \in Ctx
  BY DEF Complete, IInv, TypeOK
<1>2. /\ live' = live \ {r}
      /\ depth' \in [Ctx -> 0..MaxDepth]
      /\ low' \in [Ctx -> 0..MaxDepth]
      /\ capacity' \in [Ctx -> 0..MaxDepth]
      /\ copy' \in [Ctx -> [Block -> Content]]
      /\ frames' \in [Ctx -> [Coroutine -> Content]]
      /\ shrunk' = shrunk
      /\ \A e \in live \ {r} : /\ depth'[e] = depth[e] /\ low'[e] = low[e]
                                /\ capacity'[e] = capacity[e]
                                /\ copy'[e] = copy[e] /\ frames'[e] = frames[e]
  BY <1>1, ForgetKeeps
<1>3. stack' = after /\ cur_routine' = c
  BY DEF Complete
<1>4. /\ after \in [Outer \cup Coroutine -> Content]
      /\ \A p \in Coroutine : p <= depth[c] => after[p] = frames[c][p]
      /\ capacity[c] = low[c] => \A p \in Outer : after[p] = stack[p]
  <2>1. depth[c] \in 1..MaxDepth /\ low[c] <= capacity[c] /\ Saved(c)
    BY <1>1 DEF IInv, TypeOK
  <2>2. stack \in [Outer \cup Coroutine -> Content]
    BY <1>1 DEF TypeOK
  <2> QED
    BY <2>1, <2>2, <1>1, RestoreIInv
<1> HIDE DEF after
<1>5. TypeOK'
  <2>1. \A e \in live' : low'[e] <= capacity'[e]
    BY <1>1, <1>2 DEF TypeOK
  <2> QED
    BY <2>1, <1>1, <1>2, <1>3, <1>4 DEF TypeOK
<1>6. \A e \in live' : depth'[e] >= 1 /\ Saved(e)'
  BY <1>1, <1>2 DEF IInv, Saved
<1>7. FramesRestored'
  BY <1>1, <1>2, <1>3, <1>4 DEF FramesRestored
<1>8. ~ shrunk' => OuterFramesIntact' /\ Exact'
  BY <1>1, <1>2, <1>3, <1>4 DEF IInv, OuterFramesIntact, Exact
<1> QED
  BY <1>1, <1>2, <1>3, <1>5, <1>6, <1>7, <1>8 DEF IInv

LEMMA LastIInv == ASSUME IInv, CompleteLast PROVE IInv'
<1>1. cur_routine \in live /\ Forget(cur_routine) /\ live = {cur_routine} /\ TypeOK
  BY DEF CompleteLast, IInv
<1>2. /\ live' = {} /\ cur_routine' = NULL /\ stack' = stack
  BY <1>1 DEF CompleteLast, Forget
<1>3. TypeOK'
  BY <1>1, <1>2, ForgetKeeps DEF TypeOK
<1>4. ~ shrunk' => OuterFramesIntact' /\ Exact'
  BY <1>1, <1>2 DEF IInv, OuterFramesIntact, Exact, Forget
<1> QED
  BY <1>2, <1>3, <1>4 DEF IInv, FramesRestored

LEMMA NextIInv == ASSUME IInv, [Next]_vars PROVE IInv'
<1>1. CASE UNCHANGED vars
  BY <1>1 DEF vars, IInv, TypeOK, Saved, FramesRestored, OuterFramesIntact, Exact
<1>2. CASE Next
  BY <1>2, CallIInv, ReturnIInv, RunIInv, SwitchIInv, CompleteIInv, LastIInv DEF Next
<1> QED
  BY <1>1, <1>2

-----------------------------------------------------------------------------
(* The theorems.                                                           *)

(* The inductive invariant holds in every state.                           *)
THEOREM Inductive == Spec => []IInv
BY InitIInv, NextIInv, PTL DEF Spec

(* Types of the stack, the contexts and their copies, for any depth.       *)
THEOREM TypeCorrect == Spec => []TypeOK
<1>1. IInv => TypeOK
  BY DEF IInv
<1> QED
  BY <1>1, Inductive, PTL

(* Store() and Restore() preserve the frames of every coroutine.           *)
THEOREM FramesPreserved == Spec => []FramesRestored
<1>1. IInv => FramesRestored
  BY DEF IInv
<1> QED
  BY <1>1, Inductive, PTL

(* Restore() damages the frames of start() only after a stack shrank.      *)
THEOREM OuterPreserved == Spec => []OuterIntactUnlessShrunk
<1>1. IInv => OuterIntactUnlessShrunk
  BY DEF IInv, OuterIntactUnlessShrunk
<1> QED
  BY <1>1, Inductive, PTL
=============================================================================
