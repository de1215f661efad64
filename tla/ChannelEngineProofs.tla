------------------------ MODULE ChannelEngineProofs -------------------------
(***************************************************************************)
(* Theorems about ChannelEngine: the engine with channels implements the    *)
(* engine without, and no coroutine is ever suspended with a task pending,  *)
(* for every set of contexts, of channels and of buffer sizes.              *)
(*                                                                         *)
(* LoopInv is what makes it so: between calls all queues are empty, and in  *)
(* a call the only task is that of the executing coroutine.  Then sched()   *)
(* finds nobody blocked and chooses as the sched() of Engine does, so the   *)
(* invariant IInv of Engine carries over.                                   *)
(***************************************************************************)
EXTENDS ChannelEngine, EngineProofs

\* Nobody is blocked and no task is queued.
Quiet ==
  /\ awaiting = [c \in Ctx |-> NULL]
  /\ write_tasks = [i \in Id |-> <<>>]
  /\ read_tasks = [i \in Id |-> <<>>]

\* The current coroutine is blocked on channel i, with its task in mine and no
\* other task in mine or others.
InCall(i, mine, others) ==
  /\ control = "inside"
  /\ awaiting = [c \in Ctx |-> IF c = cur_routine THEN i ELSE NULL]
  /\ others = [j \in Id |-> <<>>]
  /\ \E n \in Nat : mine = [j \in Id |-> IF j = i THEN <<[owner |-> cur_routine, size |-> n]>>
                                         ELSE <<>>]

LoopInv ==
  \/ doing = "running" /\ Quiet
  \/ doing = "writing" /\ \E i \in Id : InCall(i, write_tasks, read_tasks)
  \/ doing = "reading" /\ \E i \in Id : InCall(i, read_tasks, write_tasks)

Shape ==
  /\ channels \subseteq Id
  /\ size \in [Id -> Sizes \cup {0}]
  /\ filled \in [Id -> Nat]

CInv == IInv /\ Shape /\ FillWithinBuffer /\ LoopInv

-----------------------------------------------------------------------------
(* When nobody is blocked, sched() chooses as the sched() of Engine.       *)
LEMMA ChoosesAlike ==
  ASSUME IInv, Quiet, control = "inside"
  PROVE  ChosenReady = Chosen
<1> USE NullAssumption DEF IInv, TypeOK
<1> DEFINE r == cur_routine
           Walk(f) == f = [p \in Ctx \cup {NULL} |->
                             IF p = NULL \/ (p # cur_routine /\ awaiting[p] = NULL) THEN p
                             ELSE f[next[p]]]
           w == [p \in Ctx \cup {NULL} |-> IF p = r THEN next[r] ELSE p]
<1>1. r \in live /\ r # NULL
  BY DEF ControlInv
<1>2. next[r] # r /\ next[r] \in Ctx \cup {NULL}
  <2>1. {r} \in SUBSET live /\ {r} # {}
    BY <1>1
  <2>2. \E d \in {r} : prev[d] \notin {r}
    BY <2>1 DEF NoCycle
  <2> QED
    BY <1>1, <2>2 DEF ListLinks
<1>3. Walk(w)
  BY <1>1, <1>2 DEF Quiet
<1>4. Walk(CHOOSE f : Walk(f))
  BY <1>3
<1> DEFINE walk == CHOOSE f : Walk(f)
<1>5. walk = [p \in Ctx \cup {NULL} |->
                IF p = NULL \/ (p # cur_routine /\ awaiting[p] = NULL) THEN p
                ELSE walk[next[p]]]
  BY <1>4
<1>6. FirstReady = walk[running]
  BY DEF FirstReady
<1> HIDE DEF walk
<1>7. CASE running = r
  <2>1. walk[running] = walk[next[r]]
    BY <1>5, <1>7, <1>1
  <2>2. walk[next[r]] = next[r]
    BY <1>5, <1>2, <1>1 DEF Quiet
  <2> QED
    BY <1>6, <1>7, <2>1, <2>2 DEF ChosenReady, Chosen
<1>8. CASE running # r
  <2>1. walk[running] = running
    BY <1>5, <1>8 DEF Quiet
  <2> QED
    BY <1>6, <1>8, <2>1 DEF ChosenReady, Chosen
<1> QED
  BY <1>7, <1>8

\* And it never finds all routines blocked.
LEMMA NoneBlocked ==
  ASSUME Quiet, NEW S \in SUBSET Ctx
  PROVE  ~ AllBlocked(S)
BY DEF Quiet, AllBlocked

-----------------------------------------------------------------------------
(* What each action does to the engine underneath and to the channels.     *)

\* The actions that leave the channels alone.
LEMMA SchedulingStep ==
  ASSUME CInv,
         \/ \E c \in Ctx : CStart(c) \/ CRun(c)
         \/ \E c \in live : CSched(c)
         \/ CYield
         \/ CComplete
  PROVE  Next /\ CInv'
<1>1. doing = "running" /\ Quiet
  BY DEF CInv, LoopInv, CStart, CRun, CSched, CYield, CComplete
<1>2. live \subseteq Ctx /\ cur_routine \in Ctx \cup {NULL}
  BY DEF CInv, IInv, TypeOK
<1>3. ~ AllBlocked(live) /\ ~ AllBlocked(live \ {cur_routine})
  BY <1>1, <1>2, NoneBlocked
<1>4. Next /\ UNCHANGED <<chanVars, doing, awaiting>>
  <2>1. ASSUME NEW c \in Ctx, CStart(c) \/ CRun(c)
        PROVE  Next /\ UNCHANGED <<chanVars, doing, awaiting>>
    BY <2>1, <1>1 DEF CStart, CRun, Next, Quiet
  <2>2. ASSUME NEW c \in live, CSched(c)
        PROVE  Next /\ UNCHANGED <<chanVars, doing, awaiting>>
    BY <2>2, <1>3 DEF CSched, Next
  <2>3. ASSUME CYield
        PROVE  Next /\ UNCHANGED <<chanVars, doing, awaiting>>
    <3>1. control = "inside" /\ ChosenReady = Chosen
      BY <2>3, <1>1, ChoosesAlike DEF CYield, CInv
    <3>2. Chosen \in live
      BY <3>1, ChosenIsLive DEF CInv
    <3>3. awaiting[cur_routine] = NULL
      BY <1>1, <3>1 DEF Quiet, CInv, IInv, ControlInv, TypeOK
    <3>4. /\ Transfer(Chosen, cur_routine, caller, callee)
          /\ UNCHANGED <<live, prev, next, running, idle, StackBottom>>
          /\ UNCHANGED <<chanVars, awaiting, doing>>
      BY <2>3, <1>3, <3>1, <3>2, <3>3 DEF CYield
    <3> QED
      BY <3>1, <3>2, <3>4 DEF Next, Yield
  <2>4. ASSUME CComplete
        PROVE  Next /\ UNCHANGED <<chanVars, doing, awaiting>>
    <3>1. Complete /\ UNCHANGED <<chanVars, doing>>
      BY <2>4, <1>3 DEF CComplete
    <3>2. awaiting' = Assign(awaiting, cur_routine, NULL)
      BY <2>4, <1>3 DEF CComplete
    <3>3. awaiting' = awaiting
      BY <3>2, <1>1, <1>2 DEF Assign, Quiet
    <3> QED
      BY <3>1, <3>3 DEF Next
  <2> QED
    BY <2>1, <2>2, <2>3, <2>4
<1>5. IInv'
  BY <1>4, NextIInv DEF CInv
<1>6. Quiet'
  BY <1>1, <1>4 DEF Quiet, chanVars
<1> QED
  BY <1>1, <1>4, <1>5, <1>6 DEF CInv, Shape, FillWithinBuffer, LoopInv, chanVars

\* cnew() and cclose().
LEMMA ChannelStep ==
  ASSUME CInv,
         \/ \E id \in Id, n \in Sizes : CNew(id, n)
         \/ \E id \in Id : CClose(id)
  PROVE  UNCHANGED vars /\ CInv'
<1>1. doing = "running" /\ Quiet /\ UNCHANGED <<vars, write_tasks, read_tasks, awaiting, doing>>
  BY DEF CInv, LoopInv, CNew, CClose
<1>2. IInv'
  BY <1>1, NextIInv DEF CInv
<1>3. Shape' /\ FillWithinBuffer'
  <2>1. ASSUME NEW id \in Id, NEW n \in Sizes, CNew(id, n)
        PROVE  Shape' /\ FillWithinBuffer'
    <3>1. /\ channels' = channels \cup {id}
          /\ size' = [size EXCEPT ![id] = n]
          /\ filled' = [filled EXCEPT ![id] = 0]
          /\ n \in Nat
      BY <2>1, SizesAssumption DEF CNew
    <3> QED
      BY <3>1 DEF CInv, Shape, FillWithinBuffer
  <2>2. ASSUME NEW id \in Id, CClose(id)
        PROVE  Shape' /\ FillWithinBuffer'
    <3>1. /\ channels' = channels \ {id}
          /\ size' = [size EXCEPT ![id] = 0]
          /\ filled' = [filled EXCEPT ![id] = 0]
      BY <2>2 DEF CClose
    <3> QED
      BY <3>1 DEF CInv, Shape, FillWithinBuffer
  <2> QED
    BY <2>1, <2>2
<1>4. LoopInv'
  BY <1>1 DEF LoopInv, Quiet
<1> QED
  BY <1>1, <1>2, <1>3, <1>4 DEF CInv

\* cwrite() and cread() find the queues empty and go on to serve their own task.
LEMMA CallStep ==
  ASSUME CInv, NEW id \in Id, NEW n \in Lengths, CWrite(id, n) \/ CRead(id, n)
  PROVE  UNCHANGED vars /\ CInv'
<1>1. doing = "running" /\ Quiet /\ control = "inside" /\ n \in Nat
  BY SizesAssumption DEF CInv, LoopInv, CWrite, CRead
<1>2. UNCHANGED <<vars, size, filled>> /\ channels' = channels \cup {id}
  BY DEF CWrite, CRead
<1>3. IInv'
  BY <1>2, NextIInv DEF CInv
<1>4. Shape' /\ FillWithinBuffer'
  BY <1>2 DEF CInv, Shape, FillWithinBuffer
<1> DEFINE t == [owner |-> cur_routine, size |-> n]
<1>5. Append(<<>>, t) = <<t>> /\ Head(<<t>>) = t
  OBVIOUS
<1>6. awaiting' = [c \in Ctx |-> IF c = cur_routine THEN id ELSE NULL]
  BY <1>1 DEF Quiet, CWrite, CRead
<1>7. UNCHANGED <<control, cur_routine>>
  BY <1>2 DEF vars
<1>8. CASE CWrite(id, n)
  <2>1. /\ write_tasks' = [j \in Id |-> IF j = id THEN <<t>> ELSE <<>>]
        /\ read_tasks' = [j \in Id |-> <<>>]
    BY <1>1, <1>5, <1>8 DEF Quiet, CWrite
  <2>2. doing' = "writing"
    BY <1>5, <1>8, <2>1 DEF CWrite
  <2> QED
    BY <1>1, <1>2, <1>3, <1>4, <1>6, <1>7, <2>1, <2>2 DEF CInv, LoopInv, InCall
<1>9. CASE CRead(id, n)
  <2>1. /\ read_tasks' = [j \in Id |-> IF j = id THEN <<t>> ELSE <<>>]
        /\ write_tasks' = [j \in Id |-> <<>>]
    BY <1>1, <1>5, <1>9 DEF Quiet, CRead
  <2>2. doing' = "reading"
    BY <1>5, <1>9, <2>1 DEF CRead
  <2> QED
    BY <1>1, <1>2, <1>3, <1>4, <1>6, <1>7, <2>1, <2>2 DEF CInv, LoopInv, InCall
<1> QED
  BY <1>8, <1>9

\* One pass over a queue that holds one task of n bytes.
LEMMA RemainingOfOne ==
  ASSUME NEW c, NEW n \in Nat, NEW done \in Nat, done <= n
  PROVE  LET tasks == <<[owner |-> c, size |-> n]>>
         IN  /\ Head(tasks) = [owner |-> c, size |-> n]
             /\ Remaining(tasks, done) =
                  IF done = n THEN <<>> ELSE <<[owner |-> c, size |-> n - done]>>
<1> DEFINE t == [owner |-> c, size |-> n]
<1>1. Head(<<t>>) = t /\ Tail(<<t>>) = <<>>
  OBVIOUS
<1>2. <<[t EXCEPT !.size = @ - done]>> \o <<>> = <<[owner |-> c, size |-> n - done]>>
  <2>1. [t EXCEPT !.size = @ - done] = [owner |-> c, size |-> n - done]
    OBVIOUS
  <2> HIDE DEF t
  <2>2. \A u : <<u>> \o <<>> = <<u>>
    OBVIOUS
  <2> QED
    BY <2>1, <2>2
<1> QED
  BY <1>1, <1>2 DEF Remaining

\* A pass of the loop either ends the call or leaves its task at the head.
LEMMA AfterPass ==
  ASSUME NEW n \in Nat, NEW done \in Nat, done <= n,
         NEW tasks, tasks = <<[owner |-> cur_routine, size |-> n]>>
  PROVE  /\ Remaining(tasks, done) =
              IF done = n THEN <<>> ELSE <<[owner |-> cur_routine, size |-> n - done]>>
         /\ After(Remaining(tasks, done), <<>>) = IF done = n THEN "running" ELSE doing
<1> DEFINE u == [owner |-> cur_routine, size |-> n - done]
<1>1. Remaining(tasks, done) = IF done = n THEN <<>> ELSE <<u>>
  BY RemainingOfOne
<1>2. Head(<<u>>).owner = cur_routine /\ <<u>> # <<>>
  OBVIOUS
<1> QED
  BY <1>1, <1>2 DEF After

LEMMA WriteLoopStep ==
  ASSUME CInv, NEW id \in Id, WriteLoop(id)
  PROVE  UNCHANGED vars /\ CInv'
<1> DEFINE r == cur_routine
<1>1. doing = "writing" /\ awaiting[r] = id
  BY DEF WriteLoop
<1>2. PICK i \in Id : InCall(i, write_tasks, read_tasks)
  BY <1>1 DEF CInv, LoopInv
<1>3. r \in Ctx /\ control = "inside"
  BY <1>2 DEF InCall, CInv, IInv, ControlInv, TypeOK
<1>4. i = id
  BY <1>1, <1>2, <1>3 DEF InCall
<1>5. PICK n \in Nat :
        write_tasks = [j \in Id |-> IF j = id THEN <<[owner |-> r, size |-> n]>> ELSE <<>>]
  BY <1>2, <1>4 DEF InCall
<1>6. Head(write_tasks[id]).size = n
  BY <1>5, RemainingOfOne
<1> DEFINE done == Written(id, n)
<1>7. /\ filled' = [filled EXCEPT ![id] = @ + done]
      /\ write_tasks' = [write_tasks EXCEPT ![id] = Remaining(@, done)]
      /\ awaiting' = IF done = n THEN [awaiting EXCEPT ![r] = NULL] ELSE awaiting
      /\ doing' = After(write_tasks'[id], read_tasks[id])
      /\ UNCHANGED <<vars, channels, size, read_tasks>>
  BY <1>6 DEF WriteLoop
<1>8. done \in Nat /\ done <= n /\ filled[id] + done <= size[id]
  <2>1. size[id] \in Nat /\ filled[id] \in Nat /\ filled[id] <= size[id]
    <3>1. size[id] \in Sizes \cup {0} /\ filled[id] \in Nat
      BY DEF CInv, Shape
    <3>2. size[id] \in Nat
      BY <3>1, SizesAssumption
    <3> QED
      BY <3>1, <3>2 DEF CInv, FillWithinBuffer
  <2> QED
    BY <2>1 DEF Written
<1>9. read_tasks = [j \in Id |-> <<>>]
  BY <1>2 DEF InCall
<1> HIDE DEF done
<1>10. /\ write_tasks' = [j \in Id |-> IF j = id /\ done # n
                                       THEN <<[owner |-> r, size |-> n - done]>> ELSE <<>>]
       /\ doing' = IF done = n THEN "running" ELSE doing
  <2>1. write_tasks[id] = <<[owner |-> r, size |-> n]>> /\ read_tasks[id] = <<>>
    BY <1>5, <1>9
  <2>2. /\ Remaining(write_tasks[id], done) =
             IF done = n THEN <<>> ELSE <<[owner |-> r, size |-> n - done]>>
        /\ After(Remaining(write_tasks[id], done), <<>>) = IF done = n THEN "running" ELSE doing
    BY <2>1, <1>8, AfterPass
  <2>3. write_tasks'[id] = Remaining(write_tasks[id], done)
    BY <1>5, <1>7
  <2> QED
    BY <2>1, <2>2, <2>3, <1>5, <1>7
<1>11. IInv'
  BY <1>7, NextIInv DEF CInv
<1>12. Shape' /\ FillWithinBuffer'
  BY <1>7, <1>8 DEF CInv, Shape, FillWithinBuffer
<1>13. LoopInv'
  <2>1. UNCHANGED <<control, cur_routine, read_tasks>>
    BY <1>7 DEF vars
  <2>2. CASE done = n
    BY <2>1, <2>2, <1>2, <1>3, <1>4, <1>7, <1>9, <1>10 DEF LoopInv, Quiet, InCall
  <2>3. CASE done # n
    <3>1. n - done \in Nat
      BY <1>8
    <3>2. InCall(id, write_tasks, read_tasks)'
      BY <2>1, <2>3, <3>1, <1>2, <1>4, <1>7, <1>10 DEF InCall
    <3> QED
      BY <3>2, <2>3, <1>1, <1>10 DEF LoopInv
  <2> QED
    BY <2>2, <2>3
<1> QED
  BY <1>7, <1>11, <1>12, <1>13 DEF CInv

LEMMA ReadLoopStep ==
  ASSUME CInv, NEW id \in Id, ReadLoop(id)
  PROVE  UNCHANGED vars /\ CInv'
<1> DEFINE r == cur_routine
<1>1. doing = "reading" /\ awaiting[r] = id
  BY DEF ReadLoop
<1>2. PICK i \in Id : InCall(i, read_tasks, write_tasks)
  BY <1>1 DEF CInv, LoopInv
<1>3. r \in Ctx /\ control = "inside"
  BY <1>2 DEF InCall, CInv, IInv, ControlInv, TypeOK
<1>4. i = id
  BY <1>1, <1>2, <1>3 DEF InCall
<1>5. PICK n \in Nat :
        read_tasks = [j \in Id |-> IF j = id THEN <<[owner |-> r, size |-> n]>> ELSE <<>>]
  BY <1>2, <1>4 DEF InCall
<1>6. Head(read_tasks[id]).size = n
  BY <1>5, RemainingOfOne
<1> DEFINE done == Read(id, n)
<1>7. /\ read_tasks' = [read_tasks EXCEPT ![id] = Remaining(@, done)]
      /\ awaiting' = IF done = n THEN [awaiting EXCEPT ![r] = NULL] ELSE awaiting
      /\ doing' = After(read_tasks'[id], write_tasks[id])
      /\ UNCHANGED <<vars, channels, size, filled, write_tasks>>
  BY <1>6 DEF ReadLoop
<1>8. done \in Nat /\ done <= n
  BY DEF Read
<1>9. write_tasks = [j \in Id |-> <<>>]
  BY <1>2 DEF InCall
<1> HIDE DEF done
<1>10. /\ read_tasks' = [j \in Id |-> IF j = id /\ done # n
                                      THEN <<[owner |-> r, size |-> n - done]>> ELSE <<>>]
       /\ doing' = IF done = n THEN "running" ELSE doing
  <2>1. read_tasks[id] = <<[owner |-> r, size |-> n]>> /\ write_tasks[id] = <<>>
    BY <1>5, <1>9
  <2>2. /\ Remaining(read_tasks[id], done) =
             IF done = n THEN <<>> ELSE <<[owner |-> r, size |-> n - done]>>
        /\ After(Remaining(read_tasks[id], done), <<>>) = IF done = n THEN "running" ELSE doing
    BY <2>1, <1>8, AfterPass
  <2>3. read_tasks'[id] = Remaining(read_tasks[id], done)
    BY <1>5, <1>7
  <2> QED
    BY <2>1, <2>2, <2>3, <1>5, <1>7
<1>11. IInv'
  BY <1>7, NextIInv DEF CInv
<1>12. Shape' /\ FillWithinBuffer'
  BY <1>7 DEF CInv, Shape, FillWithinBuffer
<1>13. LoopInv'
  <2>1. UNCHANGED <<control, cur_routine, write_tasks>>
    BY <1>7 DEF vars
  <2>2. CASE done = n
    BY <2>1, <2>2, <1>2, <1>3, <1>4, <1>7, <1>9, <1>10 DEF LoopInv, Quiet, InCall
  <2>3. CASE done # n
    <3>1. n - done \in Nat
      BY <1>8
    <3>2. InCall(id, read_tasks, write_tasks)'
      BY <2>1, <2>3, <3>1, <1>2, <1>4, <1>7, <1>10 DEF InCall
    <3> QED
      BY <3>2, <2>3, <1>1, <1>10 DEF LoopInv
  <2> QED
    BY <2>2, <2>3
<1> QED
  BY <1>7, <1>11, <1>12, <1>13 DEF CInv

LEMMA CInitCInv == CInit => Init /\ CInv
BY InitIInv DEF CInit, CInv, Shape, FillWithinBuffer, LoopInv, Quiet

LEMMA CNextStep == ASSUME CInv, [CNext]_cvars PROVE [Next]_vars /\ CInv'
<1>1. CASE UNCHANGED cvars
  <2>1. UNCHANGED vars /\ IInv'
    BY <1>1, NextIInv DEF cvars, CInv
  <2> QED
    BY <1>1, <2>1 DEF cvars, chanVars, vars, CInv, Shape, FillWithinBuffer, LoopInv, Quiet, InCall
<1>2. CASE CNext
  BY <1>2, SchedulingStep, ChannelStep, CallStep, WriteLoopStep, ReadLoopStep DEF CNext
<1> QED
  BY <1>1, <1>2

-----------------------------------------------------------------------------
(* The theorems.                                                           *)

(* The inductive invariant holds in every state.                           *)
THEOREM CInductive == CSpec => []CInv
BY CInitCInv, CNextStep, PTL DEF CSpec

\* The types of the queues in a call.
LEMMA QueuesOfCall ==
  ASSUME NEW i \in Id, NEW mine, NEW others, InCall(i, mine, others), cur_routine \in Ctx
  PROVE  /\ mine \in [Id -> Seq(Task)] /\ others \in [Id -> Seq(Task)]
         /\ awaiting \in [Ctx -> Id \cup {NULL}]
<1>1. PICK n \in Nat : mine = [j \in Id |-> IF j = i THEN <<[owner |-> cur_routine, size |-> n]>>
                                              ELSE <<>>]
  BY DEF InCall
<1>2. [owner |-> cur_routine, size |-> n] \in Task
  BY DEF Task
<1>3. \A t \in Task : <<t>> \in Seq(Task) /\ <<>> \in Seq(Task)
  OBVIOUS
<1>4. mine \in [Id -> Seq(Task)] /\ others \in [Id -> Seq(Task)]
  BY <1>1, <1>2, <1>3 DEF InCall
<1> QED
  BY <1>4 DEF InCall

(* Types of channels and tasks.                                            *)
THEOREM ChannelsTypeCorrect == CSpec => []CTypeOK
<1>1. ASSUME CInv PROVE CTypeOK
  <2>1. Shape /\ (control = "inside" => cur_routine \in Ctx)
    BY <1>1 DEF CInv, IInv, TypeOK, ControlInv
  <2>2. CASE doing = "running" /\ Quiet
    BY <2>1, <2>2 DEF CTypeOK, Quiet, Shape, Doings
  <2>3. ASSUME NEW i \in Id, InCall(i, write_tasks, read_tasks), doing = "writing"
        PROVE  CTypeOK
    <3>1. cur_routine \in Ctx
      BY <2>1, <2>3 DEF InCall
    <3> QED
      BY <2>1, <2>3, <3>1, QueuesOfCall DEF CTypeOK, Shape, Doings
  <2>4. ASSUME NEW i \in Id, InCall(i, read_tasks, write_tasks), doing = "reading"
        PROVE  CTypeOK
    <3>1. cur_routine \in Ctx
      BY <2>1, <2>4 DEF InCall
    <3> QED
      BY <2>1, <2>4, <3>1, QueuesOfCall DEF CTypeOK, Shape, Doings
  <2> QED
    BY <1>1, <2>2, <2>3, <2>4 DEF CInv, LoopInv
<1> QED
  BY <1>1, CInductive, PTL

(* The engine with channels implements the engine without them.            *)
THEOREM ImplementsEngine == CSpec => EngineSpec
BY CInitCInv, CNextStep, CInductive, PTL DEF CSpec, Spec, EngineSpec

(* The arithmetic on the fill level never wraps.                           *)
THEOREM FillCorrect == CSpec => []FillWithinBuffer
<1>1. CInv => FillWithinBuffer
  BY DEF CInv
<1> QED
  BY <1>1, CInductive, PTL

(* No suspended coroutine ever waits on a channel.                         *)
THEOREM NoSuspendedWaiter == CSpec => []BlockedNeverSuspended
<1>1. ASSUME CInv PROVE BlockedNeverSuspended
  <2>1. \A t : Len(<<t>>) = 1 /\ Len(<<>>) = 0 /\ <<t>> # <<>>
    OBVIOUS
  <2>2. CASE doing = "running" /\ Quiet
    BY <2>1, <2>2 DEF Quiet, BlockedNeverSuspended
  <2>3. ASSUME NEW i \in Id, control = "inside",
               InCall(i, write_tasks, read_tasks), doing = "writing"
        PROVE  BlockedNeverSuspended
    <3>1. cur_routine \in Ctx
      BY <1>1, <2>3 DEF CInv, IInv, ControlInv, TypeOK
    <3> QED
      BY <2>1, <2>3, <3>1, IdAssumption DEF InCall, BlockedNeverSuspended
  <2>4. ASSUME NEW i \in Id, control = "inside",
               InCall(i, read_tasks, write_tasks), doing = "reading"
        PROVE  BlockedNeverSuspended
    <3>1. cur_routine \in Ctx
      BY <1>1, <2>4 DEF CInv, IInv, ControlInv, TypeOK
    <3> QED
      BY <2>1, <2>4, <3>1, IdAssumption DEF InCall, BlockedNeverSuspended
  <2> QED
    BY <1>1, <2>2, <2>3, <2>4 DEF CInv, LoopInv, InCall
<1> QED
  BY <1>1, CInductive, PTL

(* The calls of sched() in cwrite() and cread() and the exception          *)
(* "deadlock" are dead code.                                               *)
THEOREM DeadCode == CSpec => []HandOffsAreDead
<1>1. CInv => HandOffsAreDead
  BY DEF CInv, LoopInv, HandOffsAreDead
<1> QED
  BY <1>1, CInductive, PTL
=============================================================================
