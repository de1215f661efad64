---------------------------- MODULE EngineProofs ----------------------------
(***************************************************************************)
(* Theorems about Engine, for every set of context addresses.              *)
(*                                                                         *)
(* The invariants of Engine are not inductive as they stand.  Indexed by   *)
(* what disturbs them, IInv adds: callee is never set, so a transfer goes  *)
(* to the routine it was asked for; every nonempty set of live contexts    *)
(* has one whose prev lies outside the set, so the list has no cycle; and  *)
(* the caller of the coroutine that executes is live, although the callers *)
(* of the suspended ones may be dangling.                                  *)
(***************************************************************************)
EXTENDS Engine, TLAPS

CalleesUnset == \A c \in Ctx : callee[c] = NULL

NoCycle == \A S \in SUBSET live : S # {} => \E d \in S : prev[d] \notin S

ControlInv ==
  /\ control = "outside" => cur_routine = NULL
  /\ control = "inside" => /\ cur_routine \in live
                           /\ caller[cur_routine] \in live \cup {NULL}
  /\ control = "fault" => caller[cur_routine] = cur_routine
  /\ StackBottom => idle
  /\ ~idle => live = {}

IInv == TypeOK /\ CalleesUnset /\ ListLinks /\ NoCycle /\ ControlInv

-----------------------------------------------------------------------------
(* The chain of callees has no second element.                             *)
LEMMA CalleeEndIsStart ==
  ASSUME NEW cle, NEW c \in Ctx, \A d \in Ctx : cle[d] = NULL
  PROVE  CalleeEnd(c, cle) = c
<1> DEFINE Rec(f) == f = [d \in Ctx |-> IF cle[d] = NULL THEN d ELSE f[cle[d]]]
<1>1. Rec([d \in Ctx |-> d])
  OBVIOUS
<1>2. Rec(CHOOSE f : Rec(f))
  BY <1>1
<1> DEFINE end == CHOOSE f : Rec(f)
<1>3. end = [d \in Ctx |-> IF cle[d] = NULL THEN d ELSE end[cle[d]]]
  BY <1>2
<1> HIDE DEF end
<1>4. end[c] = c
  BY <1>3
<1> QED
  BY <1>4 DEF CalleeEnd, end

(* With that, a transfer reaches the routine it was asked for and changes  *)
(* the caller of no other one.                                             *)
LEMMA TransferReaches ==
  ASSUME NEW clr, NEW cle \in [Ctx -> Ctx \cup {NULL}], NEW from,
         NEW routine \in Ctx,
         \A d \in Ctx : cle[d] = NULL,
         Transfer(routine, from, clr, cle)
  PROVE  /\ caller' = [clr EXCEPT ![routine] = from]
         /\ callee' = cle
         /\ cur_routine' = routine
         /\ control' = "inside"
<1>1. cle[routine] = NULL
  OBVIOUS
<1>2. CalleeEnd(routine, cle) = routine
  BY CalleeEndIsStart
<1> QED
  BY <1>1, <1>2 DEF Transfer

-----------------------------------------------------------------------------
(* The two changes of the list running.                                    *)

LEMMA RegisterKeepsList ==
  ASSUME TypeOK, ListLinks, NoCycle, NEW c \in Ctx \ live, Register(c)
  PROVE  ListLinks' /\ NoCycle'
<1> USE NullAssumption DEF TypeOK
<1>1. prev' = [d \in Ctx |-> IF d = running THEN c ELSE IF d = c THEN NULL ELSE prev[d]]
  <2>1. CASE running = NULL
    BY <2>1 DEF Register, Assign
  <2>2. CASE running # NULL
    BY <2>2 DEF Register, Assign, ListLinks
  <2> QED
    BY <2>1, <2>2
<1>2. running # c
  BY DEF ListLinks
<1>3. ListLinks'
  <2>1. /\ next' = [d \in Ctx |-> IF d = c THEN running ELSE next[d]]
        /\ live' = live \cup {c}
        /\ running' = c
    BY DEF Register
  <2> SUFFICES ASSUME NEW d \in live \cup {c}
               PROVE  /\ next'[d] \in live' \cup {NULL}
                      /\ prev'[d] \in live' \cup {NULL}
                      /\ next'[d] # NULL => prev'[next'[d]] = d
                      /\ prev'[d] # NULL => next'[prev'[d]] = d
                      /\ prev'[d] = NULL <=> running' = d
    BY <2>1 DEF ListLinks
  <2>2. CASE d = c
    BY <2>1, <2>2, <1>1, <1>2 DEF ListLinks
  <2>3. CASE d \in live
    <3>1. next'[d] = next[d] /\ (next[d] # NULL => next[d] # running)
      BY <2>1, <2>3 DEF ListLinks
    <3>2. next'[d] # NULL => prev'[next'[d]] = d
      BY <3>1, <2>3, <1>1 DEF ListLinks
    <3>3. prev'[d] # NULL => next'[prev'[d]] = d
      BY <2>1, <2>3, <1>1 DEF ListLinks
    <3> QED
      BY <3>1, <3>2, <3>3, <2>1, <2>3, <1>1 DEF ListLinks
  <2> QED
    BY <2>2, <2>3
<1>4. NoCycle'
  <2> SUFFICES ASSUME NEW S \in SUBSET (live \cup {c}), S # {}
               PROVE  \E d \in S : prev'[d] \notin S
    BY DEF NoCycle, Register
  <2>1. CASE c \in S
    BY <2>1, <1>1, <1>2
  <2>2. CASE c \notin S
    <3>1. PICK d \in S : prev[d] \notin S
      BY <2>2 DEF NoCycle
    <3> QED
      BY <2>2, <3>1, <1>1
  <2> QED
    BY <2>1, <2>2
<1> QED
  BY <1>3, <1>4

LEMMA UnlinkKeepsList ==
  ASSUME TypeOK, ListLinks, NoCycle, NEW pc \in live, pc = cur_routine, Unlink(pc)
  PROVE  ListLinks' /\ NoCycle'
<1> USE NullAssumption DEF TypeOK
<1> DEFINE p == prev[pc]
           n == next[pc]
<1>1. p \in live \cup {NULL} /\ n \in live \cup {NULL}
  BY DEF ListLinks
<1>2. p # pc /\ n # pc
  <2>1. {pc} \in SUBSET live /\ {pc} # {}
    OBVIOUS
  <2>2. \E d \in {pc} : prev[d] \notin {pc}
    BY <2>1 DEF NoCycle
  <2> QED
    BY <2>2 DEF ListLinks
<1>3. prev' = [d \in Ctx |-> IF d = n THEN p ELSE IF d = pc THEN NULL ELSE prev[d]]
  <2>1. n \in Ctx \cup {NULL} /\ n # pc /\ prev \in [Ctx -> Ctx \cup {NULL}]
    BY <1>1, <1>2
  <2>2. prev' = Assign([prev EXCEPT ![pc] = NULL], n, p)
    BY DEF Unlink
  <2> HIDE DEF p, n, TypeOK
  <2>3. CASE n = NULL
    BY <2>1, <2>2, <2>3 DEF Assign
  <2>4. CASE n # NULL
    BY <2>1, <2>2, <2>4 DEF Assign
  <2> QED
    BY <2>3, <2>4
<1>4. next' = [d \in Ctx |-> IF d = p THEN n ELSE IF d = pc THEN NULL ELSE next[d]]
  <2>1. p \in Ctx \cup {NULL} /\ p # pc /\ next \in [Ctx -> Ctx \cup {NULL}]
    BY <1>1, <1>2
  <2>2. next' = Assign([next EXCEPT ![pc] = NULL], p, n)
    BY DEF Unlink
  <2> HIDE DEF p, n, TypeOK
  <2>3. CASE p = NULL
    BY <2>1, <2>2, <2>3 DEF Assign
  <2>4. CASE p # NULL
    BY <2>1, <2>2, <2>4 DEF Assign
  <2> QED
    BY <2>3, <2>4
<1>5. running' = IF running = pc THEN n ELSE running
  BY DEF Unlink, HeadAfter
<1>6. live' = live \ {pc}
  BY DEF Unlink
<1> HIDE DEF p, n
<1>7. ListLinks'
  <2>1. running' \in live' \cup {NULL}
    BY <1>1, <1>2, <1>5, <1>6 DEF ListLinks
  <2> SUFFICES ASSUME NEW c \in live \ {pc}
               PROVE  /\ next'[c] \in live' \cup {NULL}
                      /\ prev'[c] \in live' \cup {NULL}
                      /\ next'[c] # NULL => prev'[next'[c]] = c
                      /\ prev'[c] # NULL => next'[prev'[c]] = c
                      /\ prev'[c] = NULL <=> running' = c
    BY <2>1, <1>6 DEF ListLinks
  <2>2. next[c] = pc <=> c = p
    BY DEF ListLinks, p
  <2>3. prev[c] = pc <=> c = n
    BY DEF ListLinks, n
  <2>4. next'[c] \in live' \cup {NULL} /\ prev'[c] \in live' \cup {NULL}
    BY <2>2, <2>3, <1>1, <1>2, <1>3, <1>4, <1>6 DEF ListLinks
  <2>5. next'[c] # NULL => prev'[next'[c]] = c
    <3>1. CASE c = p
      BY <3>1, <1>1, <1>2, <1>3, <1>4
    <3>2. CASE c # p
      <4>1. next'[c] = next[c] /\ next[c] # pc
        BY <3>2, <2>2, <1>4
      <4>2. next[c] # NULL => next[c] # n
        BY <3>2, <4>1, <1>1, <1>2 DEF ListLinks, n
      <4> QED
        BY <4>1, <4>2, <1>3 DEF ListLinks
    <3> QED
      BY <3>1, <3>2
  <2>6. prev'[c] # NULL => next'[prev'[c]] = c
    <3>1. CASE c = n
      BY <3>1, <1>1, <1>2, <1>3, <1>4
    <3>2. CASE c # n
      <4>1. prev'[c] = prev[c] /\ prev[c] # pc
        BY <3>2, <2>3, <1>3
      <4>2. prev[c] # NULL => prev[c] # p
        BY <3>2, <4>1, <1>1, <1>2 DEF ListLinks, p
      <4> QED
        BY <4>1, <4>2, <1>4 DEF ListLinks
    <3> QED
      BY <3>1, <3>2
  <2>7. prev'[c] = NULL <=> running' = c
    <3>1. p = NULL <=> running = pc
      BY DEF ListLinks, p
    <3>2. prev[c] = NULL <=> running = c
      BY DEF ListLinks
    <3>3. CASE c = n
      <4>1. prev'[c] = p
        BY <3>3, <1>3
      <4>2. prev[c] = pc
        BY <3>3, <2>3
      <4> QED
        BY <3>1, <3>2, <3>3, <4>1, <4>2, <1>5
    <3>4. CASE c # n
      BY <3>1, <3>2, <3>4, <1>3, <1>5
    <3> QED
      BY <3>3, <3>4
  <2> QED
    BY <2>4, <2>5, <2>6, <2>7
<1>8. NoCycle'
  <2> SUFFICES ASSUME NEW S \in SUBSET (live \ {pc}), S # {}
               PROVE  \E d \in S : prev'[d] \notin S
    BY <1>6 DEF NoCycle
  <2>1. PICK d \in S : prev[d] \notin S
    BY DEF NoCycle
  <2> DEFINE T == S \cup {pc}
  <2>2. PICK e \in T : prev[e] \notin T
    <3>1. T \in SUBSET live /\ T # {}
      OBVIOUS
    <3> QED
      BY <3>1 DEF NoCycle
  <2>3. CASE e \in S
    <3>1. e # n
      BY <2>2, <2>3, <1>1 DEF ListLinks, n
    <3> QED
      BY <2>2, <2>3, <3>1, <1>3
  <2>4. CASE e = pc /\ n \in S
    BY <2>2, <2>4, <1>3 DEF p
  <2>5. CASE e = pc /\ n \notin S
    BY <2>1, <2>5, <1>3
  <2> QED
    BY <2>2, <2>3, <2>4, <2>5
<1> QED
  BY <1>7, <1>8

-----------------------------------------------------------------------------
(* The actions, one lemma each.                                            *)

LEMMA InitIInv == Init => IInv
BY NullAssumption DEF Init, IInv, TypeOK, CalleesUnset, ListLinks, NoCycle,
                      ControlInv, Controls

LEMMA StartIInv == ASSUME IInv, NEW c \in Ctx, Start(c) PROVE IInv'
<1> USE NullAssumption DEF IInv, TypeOK
<1>1. c \in Ctx \ live /\ Register(c)
  BY DEF Start
<1>2. ListLinks' /\ NoCycle'
  BY <1>1, RegisterKeepsList
<1> DEFINE clr == [caller EXCEPT ![c] = cur_routine]
           cle == [callee EXCEPT ![c] = NULL]
<1>3. cle \in [Ctx -> Ctx \cup {NULL}] /\ \A d \in Ctx : cle[d] = NULL
  BY DEF CalleesUnset
<1>4. Transfer(c, NULL, clr, cle)
  BY DEF Start
<1> HIDE DEF cle, clr
<1>5. /\ caller' = [clr EXCEPT ![c] = NULL]
      /\ callee' = cle
      /\ cur_routine' = c
      /\ control' = "inside"
  BY <1>3, <1>4, TransferReaches
<1>6. CalleesUnset'
  BY <1>3, <1>5 DEF CalleesUnset
<1>7. TypeOK'
  <2>1. prev' \in [Ctx -> Ctx \cup {NULL}] /\ next' \in [Ctx -> Ctx \cup {NULL}]
    BY <1>1 DEF Register, Assign
  <2> QED
    BY <1>1, <1>3, <1>5, <2>1 DEF Start, Register, clr, Controls
<1>8. ControlInv'
  BY <1>1, <1>5 DEF Start, Register, ControlInv, clr
<1> QED
  BY <1>2, <1>6, <1>7, <1>8

LEMMA RunIInv == ASSUME IInv, NEW c \in Ctx, Run(c) PROVE IInv'
<1> USE NullAssumption DEF IInv, TypeOK
<1>1. c \in Ctx \ live /\ Register(c)
  BY DEF Run
<1>2. ListLinks' /\ NoCycle'
  BY <1>1, RegisterKeepsList
<1>3. CalleesUnset'
  BY DEF Run, CalleesUnset
<1>4. TypeOK'
  <2>1. prev' \in [Ctx -> Ctx \cup {NULL}] /\ next' \in [Ctx -> Ctx \cup {NULL}]
    <3>1. CASE running = NULL
      BY <1>1, <3>1 DEF Register, Assign
    <3>2. CASE running # NULL
      BY <1>1, <3>2 DEF Register, Assign
    <3> QED
      BY <3>1, <3>2
  <2>2. caller' \in [Ctx -> Ctx \cup {NULL}] /\ callee' \in [Ctx -> Ctx \cup {NULL}]
    BY DEF Run
  <2>3. /\ live' \subseteq Ctx /\ running' \in Ctx \cup {NULL}
        /\ UNCHANGED <<cur_routine, idle, StackBottom, control>>
    BY <1>1 DEF Run, Register
  <2> QED
    BY <2>1, <2>2, <2>3
<1>5. ControlInv'
  <2>1. /\ live' = live \cup {c}
        /\ caller' = [caller EXCEPT ![c] = cur_routine]
        /\ cur_routine' = cur_routine /\ control' = control /\ idle' = idle
        /\ StackBottom' = StackBottom
    BY DEF Run, Register
  <2>2. control # "fault" /\ StackBottom
    BY DEF Run
  <2>3. ASSUME control = "inside"
        PROVE  cur_routine \in live /\ caller'[cur_routine] = caller[cur_routine]
    BY <1>1, <2>1, <2>3 DEF ControlInv
  <2> QED
    BY <2>1, <2>2, <2>3 DEF ControlInv
<1> QED
  BY <1>2, <1>3, <1>4, <1>5

\* A transfer that leaves the list alone, to a live routine.
LEMMA SwitchIInv ==
  ASSUME IInv, control = "inside", NEW routine \in live,
         Transfer(routine, cur_routine, caller, callee),
         UNCHANGED <<live, prev, next, running, idle, StackBottom>>
  PROVE  IInv'
<1> USE NullAssumption DEF IInv, TypeOK
<1>1. /\ caller' = [caller EXCEPT ![routine] = cur_routine]
      /\ callee' = callee
      /\ cur_routine' = routine
      /\ control' = "inside"
  BY TransferReaches DEF CalleesUnset
<1>2. ListLinks' /\ NoCycle'
  BY DEF ListLinks, NoCycle
<1>3. TypeOK' /\ CalleesUnset'
  BY <1>1 DEF CalleesUnset, Controls
<1>4. ControlInv'
  BY <1>1 DEF ControlInv
<1> QED
  BY <1>2, <1>3, <1>4

\* yield() finds a live routine, and another one than the current whenever
\* there is one, provided the current one is not its own caller.
LEMMA ChosenIsLive ==
  ASSUME IInv, control = "inside"
  PROVE  /\ Chosen \in live
         /\ live # {cur_routine} /\ caller[cur_routine] # cur_routine
              => Chosen # cur_routine
<1> USE NullAssumption DEF IInv, TypeOK
<1> DEFINE r == cur_routine
<1>1. r \in live /\ caller[r] \in live \cup {NULL}
  BY DEF ControlInv
<1>2. next[r] # r
  <2>1. {r} \in SUBSET live /\ {r} # {}
    BY <1>1
  <2>2. \E d \in {r} : prev[d] \notin {r}
    BY <2>1 DEF NoCycle
  <2> QED
    BY <1>1, <2>2 DEF ListLinks
<1>3. ASSUME live # {r}, running = r PROVE next[r] # NULL
  <2> SUFFICES ASSUME next[r] = NULL PROVE FALSE
    OBVIOUS
  <2>1. live \ {r} \in SUBSET live /\ live \ {r} # {}
    BY <1>1, <1>3
  <2>2. PICK d \in live \ {r} : prev[d] \notin live \ {r}
    BY <2>1 DEF NoCycle
  <2> QED
    BY <2>2, <1>3, <1>1 DEF ListLinks
<1>4. running \in live
  <2>1. live # {}
    BY <1>1
  <2>2. PICK d \in live : prev[d] \notin live
    BY <2>1 DEF NoCycle
  <2> QED
    BY <2>2 DEF ListLinks
<1> QED
  BY <1>1, <1>2, <1>3, <1>4 DEF Chosen, ListLinks

LEMMA FaultKeeps ==
  ASSUME IInv, Fault, caller[cur_routine] = cur_routine
  PROVE  IInv'
BY DEF IInv, Fault, links, TypeOK, CalleesUnset, ListLinks, NoCycle, ControlInv, Controls
LEMMA HandOverIInv == ASSUME IInv, CompleteHandOver PROVE IInv'
<1> USE NullAssumption DEF IInv, TypeOK
<1> DEFINE pc == cur_routine
           h == Heir
<1>1. pc \in live /\ h \in live /\ h # pc /\ Unlink(pc)
  BY DEF CompleteHandOver, ControlInv
<1>2. ListLinks' /\ NoCycle'
  BY <1>1, UnlinkKeepsList
<1>3. /\ CalleeAfter(pc) \in [Ctx -> Ctx \cup {NULL}]
      /\ \A d \in Ctx : CalleeAfter(pc)[d] = NULL
  BY <1>1 DEF CalleeAfter, Assign, CalleesUnset
<1>4. Transfer(h, NULL, CallerAfter(pc), CalleeAfter(pc))
  BY DEF CompleteHandOver
<1> HIDE DEF h
<1>5. /\ caller' = [CallerAfter(pc) EXCEPT ![h] = NULL]
      /\ callee' = CalleeAfter(pc)
      /\ cur_routine' = h
      /\ control' = "inside"
  BY <1>1, <1>3, <1>4, TransferReaches
<1>6. CalleesUnset'
  BY <1>3, <1>5 DEF CalleesUnset
<1>7. live' = live \ {pc} /\ idle' = idle /\ StackBottom' = StackBottom
  BY DEF CompleteHandOver, Unlink
<1>8. TypeOK'
  <2>1. /\ prev' \in [Ctx -> Ctx \cup {NULL}]
        /\ next' \in [Ctx -> Ctx \cup {NULL}]
        /\ running' \in Ctx \cup {NULL}
    BY <1>1 DEF Unlink, Assign, HeadAfter
  <2>2. caller' \in [Ctx -> Ctx \cup {NULL}]
    BY <1>1, <1>5 DEF CallerAfter
  <2> QED
    BY <1>1, <1>3, <1>5, <1>7, <2>1, <2>2 DEF Controls
<1>9. ControlInv'
  BY <1>1, <1>5, <1>7 DEF ControlInv, CallerAfter
<1> QED
  BY <1>2, <1>6, <1>8, <1>9

\* A routine that ends without heir is the only live one.
LEMMA LastIsAlone ==
  ASSUME IInv, control = "inside", Heir = NULL
  PROVE  live = {cur_routine}
<1> USE NullAssumption DEF IInv, TypeOK
<1> DEFINE pc == cur_routine
<1>1. pc \in live /\ HeadAfter = NULL
  BY DEF ControlInv, Heir
<1>2. running # NULL
  <2>1. PICK d \in live : prev[d] \notin live
    BY <1>1 DEF NoCycle
  <2> QED
    BY <2>1 DEF ListLinks
<1>3. running = pc /\ next[pc] = NULL
  BY <1>1, <1>2 DEF HeadAfter
<1> SUFFICES ASSUME live \ {pc} # {} PROVE FALSE
  BY <1>1
<1>4. PICK d \in live \ {pc} : prev[d] \notin live \ {pc}
  BY DEF NoCycle
<1> QED
  BY <1>1, <1>3, <1>4 DEF ListLinks

LEMMA LastIInv == ASSUME IInv, CompleteLast PROVE IInv' /\ live' = {}
<1> USE NullAssumption DEF IInv, TypeOK
<1> DEFINE pc == cur_routine
<1>1. pc \in live /\ Unlink(pc) /\ live = {pc}
  BY LastIsAlone DEF CompleteLast, ControlInv
<1>2. ListLinks' /\ NoCycle'
  BY <1>1, UnlinkKeepsList
<1>3. CalleesUnset'
  BY <1>1 DEF CompleteLast, CalleeAfter, Assign, CalleesUnset
<1>4. live' = {}
  BY <1>1 DEF Unlink
<1>5. TypeOK'
  <2>1. /\ prev' \in [Ctx -> Ctx \cup {NULL}]
        /\ next' \in [Ctx -> Ctx \cup {NULL}]
        /\ running' \in Ctx \cup {NULL}
    BY <1>1 DEF Unlink, Assign, HeadAfter
  <2>2. /\ caller' \in [Ctx -> Ctx \cup {NULL}]
        /\ callee' \in [Ctx -> Ctx \cup {NULL}]
    BY <1>1 DEF CompleteLast, CallerAfter, CalleeAfter, Assign
  <2> QED
    BY <1>4, <2>1, <2>2 DEF CompleteLast, Controls
<1>6. ControlInv'
  BY <1>4 DEF CompleteLast, ControlInv
<1> QED
  BY <1>2, <1>3, <1>4, <1>5, <1>6

\* Undefined behaviour at the end of a routine has one cause only.
LEMMA FaultIInv ==
  ASSUME IInv, CompleteFault
  PROVE  IInv'
<1> USE NullAssumption DEF IInv, TypeOK
<1> DEFINE pc == cur_routine
<1>1. pc \in live /\ caller[pc] \in live \cup {NULL}
  BY DEF CompleteFault, ControlInv
<1>2. UnlinkIsSafe(pc)
  BY <1>1 DEF UnlinkIsSafe, ListLinks
<1>3. next[pc] # pc
  <2>1. {pc} \in SUBSET live /\ {pc} # {}
    BY <1>1
  <2>2. \E d \in {pc} : prev[d] \notin {pc}
    BY <2>1 DEF NoCycle
  <2> QED
    BY <1>1, <2>2 DEF ListLinks
<1>4. HeadAfter \in (live \ {pc}) \cup {NULL}
  BY <1>1, <1>3 DEF HeadAfter, ListLinks
<1>5. caller[pc] = pc
  BY <1>1, <1>2, <1>4 DEF CompleteFault, Heir
<1> QED
  BY <1>5, FaultKeeps DEF CompleteFault

LEMMA NextIInv == ASSUME IInv, [Next]_vars PROVE IInv'
<1>1. CASE \E c \in Ctx : Start(c)
  BY <1>1, StartIInv
<1>2. CASE \E c \in Ctx : Run(c)
  BY <1>2, RunIInv
<1>3. CASE \E c \in live : Sched(c)
  BY <1>3, SwitchIInv DEF Sched
<1>4. CASE Yield
  BY <1>4, SwitchIInv, ChosenIsLive DEF Yield
<1>5. CASE Complete
  BY <1>5, HandOverIInv, LastIInv, FaultIInv DEF Complete
<1>6. CASE UNCHANGED vars
  BY <1>6 DEF vars, IInv, TypeOK, CalleesUnset, ListLinks, NoCycle, ControlInv
<1> QED
  BY <1>1, <1>2, <1>3, <1>4, <1>5, <1>6 DEF Next

-----------------------------------------------------------------------------
(* The theorems.                                                           *)

(* The inductive invariant holds in every state the engine reaches.        *)
THEOREM Inductive == Spec => []IInv
BY InitIInv, NextIInv, PTL DEF Spec

(* Every field of every context stays nullptr or the address of a context. *)
THEOREM TypeCorrect == Spec => []TypeOK
<1>1. IInv => TypeOK
  BY DEF IInv
<1> QED
  BY <1>1, Inductive, PTL

(* The list running is exactly the set of live contexts, whatever the      *)
(* order in which run() registers coroutines and their functions return.   *)
THEOREM ListExact == Spec => []RunningListsLive
<1>1. ASSUME IInv PROVE ListComplete
  <2> SUFFICES ASSUME NEW S \in SUBSET live,
                      running \in S \cup {NULL},
                      \A c \in S : next[c] \in S \cup {NULL},
                      live \ S # {}
               PROVE  FALSE
    BY DEF ListComplete
  <2>1. PICK d \in live \ S : prev[d] \notin live \ S
    BY <1>1 DEF IInv, NoCycle
  <2>2. d \in live /\ d \in Ctx /\ d # NULL
    BY <1>1, NullAssumption DEF IInv, TypeOK
  <2>3. CASE prev[d] = NULL
    BY <1>1, <2>1, <2>2, <2>3 DEF IInv, ListLinks
  <2>4. CASE prev[d] # NULL
    BY <1>1, <2>1, <2>2, <2>4 DEF IInv, ListLinks
  <2> QED
    BY <2>3, <2>4
<1>2. IInv => RunningListsLive
  BY <1>1 DEF IInv, RunningListsLive
<1> QED
  BY <1>2, Inductive, PTL

(* A freed context is followed only after a coroutine transferred control  *)
(* to itself.                                                              *)
THEOREM SingleCauseOfFault == Spec => []FaultOnlyAfterSelfTransfer
<1>1. IInv => FaultOnlyAfterSelfTransfer
  BY DEF IInv, ControlInv, FaultOnlyAfterSelfTransfer
<1> QED
  BY <1>1, Inductive, PTL

(* yield() switches to another coroutine while there is one, unless the    *)
(* current one is its own caller.                                          *)
THEOREM YieldSwitches == Spec => []YieldPicksAnother
<1>1. IInv => YieldPicksAnother
  BY ChosenIsLive DEF YieldPicksAnother
<1> QED
  BY <1>1, Inductive, PTL

(* start() returns only when every coroutine is done.                      *)
THEOREM StartReturnsLast == Spec => ReturnsWhenAllDone
<1>1. ASSUME IInv, [Next]_vars
      PROVE  [control = "inside" /\ control' = "outside" => live' = {}]_vars
  <2> SUFFICES ASSUME Next, control = "inside", control' = "outside"
               PROVE  live' = {}
    BY <1>1
  <2>1. CASE \E c \in Ctx : Start(c)
    BY <2>1 DEF Start, Transfer
  <2>2. CASE \E c \in Ctx : Run(c)
    BY <2>2 DEF Run
  <2>3. CASE \E c \in live : Sched(c)
    BY <2>3 DEF Sched, Transfer
  <2>4. CASE Yield
    BY <2>4 DEF Yield, Transfer, Fault
  <2>5. CASE Complete
    BY <1>1, <2>5, LastIInv DEF Complete, CompleteHandOver, CompleteFault, Transfer, Fault
  <2> QED
    BY <2>1, <2>2, <2>3, <2>4, <2>5 DEF Next
<1> QED
  BY <1>1, Inductive, PTL DEF Spec, ReturnsWhenAllDone
=============================================================================
