------------------------------- MODULE Engine -------------------------------
(***************************************************************************)
(* The coroutine engine of homework/05-coroutines: which coroutine         *)
(* contexts exist, how they are linked in the list "running", who resumed  *)
(* whom, and to whom control passes in start(), run(), sched(), yield()    *)
(* and at the end of a coroutine.                                          *)
(*                                                                         *)
(* Exactly one coroutine executes at a time, so a step of this             *)
(* specification is one call of the engine by the executing code, up to    *)
(* the longjmp that ends it.  The bodies of coroutines are arbitrary: they *)
(* may call any operation with any handle to a coroutine that still        *)
(* exists.  Saving and restoring stacks is the subject of StackSwap.       *)
(*                                                                         *)
(* A context is identified by its heap address.  An address that "delete"  *)
(* returned to the heap may be handed out again by a later "new".  A step  *)
(* that would follow a pointer to a freed context has undefined behaviour  *)
(* and leads to control = "fault", where the model stops.                  *)
(***************************************************************************)
EXTENDS Naturals, FiniteSets

CONSTANTS
  Ctx,    \* heap addresses a context may have
  NULL    \* nullptr

ASSUME NullAssumption == NULL \notin Ctx

VARIABLES
  live,         \* contexts that were allocated and not deleted
  caller,       \* context.caller
  callee,       \* context.callee
  prev,         \* context.prev
  next,         \* context.next
  cur_routine,  \* Engine::cur_routine
  running,      \* Engine::running, head of the doubly linked list
  idle,         \* Engine::idle # nullptr
  StackBottom,  \* Engine::StackBottom # 0
  control       \* what executes: code outside start(), a coroutine, nothing

vars == <<live, caller, callee, prev, next, cur_routine, running, idle,
          StackBottom, control>>

links == <<live, caller, callee, prev, next, cur_routine, running>>

Controls == {"outside", "inside", "fault"}

TypeOK ==
  /\ live \subseteq Ctx
  /\ caller \in [Ctx -> Ctx \cup {NULL}]
  /\ callee \in [Ctx -> Ctx \cup {NULL}]
  /\ prev \in [Ctx -> Ctx \cup {NULL}]
  /\ next \in [Ctx -> Ctx \cup {NULL}]
  /\ cur_routine \in Ctx \cup {NULL}
  /\ running \in Ctx \cup {NULL}
  /\ idle \in BOOLEAN
  /\ StackBottom \in BOOLEAN
  /\ control \in Controls

Init ==
  /\ live = {}
  /\ caller = [c \in Ctx |-> NULL]
  /\ callee = [c \in Ctx |-> NULL]
  /\ prev = [c \in Ctx |-> NULL]
  /\ next = [c \in Ctx |-> NULL]
  /\ cur_routine = NULL
  /\ running = NULL
  /\ idle = FALSE
  /\ StackBottom = FALSE
  /\ control = "outside"

-----------------------------------------------------------------------------
(* Helpers                                                                 *)

\* Mutant of Assign: the test for nullptr is missing, so memory outside every
\* context is written.
AssignUnchecked(f, c, v) ==
  [d \in DOMAIN f \cup {c} |-> IF d = c THEN v ELSE f[d]]

\* The assignment f[c] := v through a pointer c that may be nullptr, in which
\* case the code skips it.
Assign(f, c, v) == IF c = NULL THEN f ELSE [f EXCEPT ![c] = v]

\* "Undefined behaviour happened": nothing else is known, the model stops.
Fault == control' = "fault" /\ UNCHANGED <<links, idle, StackBottom>>

\* The last context of the chain of callees that starts at c.
CalleeEnd(c, cle) ==
  LET end[d \in Ctx] == IF cle[d] = NULL THEN d ELSE end[cle[d]] IN end[c]

\* The second half of sched(): control passes to routine, or to whoever it
\* had itself passed control to, and the new routine remembers from as its
\* caller.  clr and cle are the fields caller and callee before the transfer.
Transfer(routine, from, clr, cle) ==
  LET returns == cle[routine] # NULL /\ cle[routine] = from
      clr1 == IF returns THEN [clr EXCEPT ![cle[routine]] = NULL] ELSE clr
      cle1 == IF returns THEN [cle EXCEPT ![routine] = NULL] ELSE cle
      target == CalleeEnd(routine, cle1)
  IN  /\ caller' = [clr1 EXCEPT ![target] = from]
      /\ callee' = cle1
      /\ cur_routine' = target
      /\ control' = "inside"

\* run(): the fields of a context fresh from "new", put at the head of running.
Register(c) ==
  /\ live' = live \cup {c}
  /\ next' = [next EXCEPT ![c] = running]
  /\ prev' = Assign([prev EXCEPT ![c] = NULL], running, c)
  /\ running' = c

\* Mutant of Chosen: the walk takes the head without looking who it is.
ChosenHead == IF caller[cur_routine] # NULL THEN caller[cur_routine] ELSE running

\* The routine that sched(nullptr) and yield() choose: the caller of the
\* current one, else the first routine of running that is another one, else
\* the current one.  The walk along running ends at the head or, when that is
\* the current routine, right behind it.
Chosen ==
  IF caller[cur_routine] # NULL THEN caller[cur_routine]
  ELSE LET other == IF running # cur_routine THEN running ELSE next[cur_routine]
       IN  IF other # NULL THEN other ELSE cur_routine

\* Mutant of HeadAfter: running keeps pointing to the routine that ended.
HeadStale == running

\* Mutant of Heir: no fallback to the list when nobody resumed the routine.
HeirCallerOnly == caller[cur_routine]

\* What running becomes, and who gets control, when the current routine ends.
HeadAfter == IF running = cur_routine THEN next[cur_routine] ELSE running
Heir == IF caller[cur_routine] # NULL THEN caller[cur_routine] ELSE HeadAfter

-----------------------------------------------------------------------------
(* The operations of the engine                                            *)

\* start(main) outside of any start(): it makes c the context of main and
\* schedules it.  When idle is set already, start() throws and changes nothing.
Start(c) ==
  /\ control = "outside" /\ ~idle
  /\ c \notin live
  /\ idle' = TRUE
  /\ StackBottom' = TRUE
  /\ Register(c)
  /\ Transfer(c, NULL, [caller EXCEPT ![c] = cur_routine],
                       [callee EXCEPT ![c] = NULL])

\* run(func): it registers a coroutine that has not run yet.  With
\* StackBottom = 0 it returns nullptr and changes nothing.
Run(c) ==
  /\ control # "fault"
  /\ StackBottom
  /\ c \notin live
  /\ Register(c)
  /\ caller' = [caller EXCEPT ![c] = cur_routine]
  /\ callee' = [callee EXCEPT ![c] = NULL]
  /\ UNCHANGED <<cur_routine, idle, StackBottom, control>>

\* sched(routine) by a coroutine, with the handle of an existing one.
Sched(routine) ==
  /\ control = "inside"
  /\ Transfer(routine, cur_routine, caller, callee)
  /\ UNCHANGED <<live, prev, next, running, idle, StackBottom>>

\* sched(nullptr), which is all that yield() does, by a coroutine.
Yield ==
  /\ control = "inside"
  /\ IF Chosen \in live
     THEN /\ Transfer(Chosen, cur_routine, caller, callee)
          /\ UNCHANGED <<live, prev, next, running, idle, StackBottom>>
     ELSE Fault

\* Mutants of Unlink: the link backwards is not repaired; nothing is unlinked.
UnlinkForwardOnly(pc) ==
  /\ next' = Assign([next EXCEPT ![pc] = NULL], prev[pc], next[pc])
  /\ prev' = [prev EXCEPT ![pc] = NULL]
  /\ running' = HeadAfter
  /\ live' = live \ {pc}
UnlinkForgotten(pc) == UNCHANGED <<next, prev, running, live>>

\* The end of run(), after func returned: the context leaves the list and is
\* deleted.
Unlink(pc) ==
  /\ next' = Assign([next EXCEPT ![pc] = NULL], prev[pc], next[pc])
  /\ prev' = Assign([prev EXCEPT ![pc] = NULL], next[pc], prev[pc])
  /\ running' = HeadAfter
  /\ live' = live \ {pc}

\* The pointers that the end of run() follows before it deletes the context.
UnlinkIsSafe(pc) ==
  {prev[pc], next[pc], caller[pc], running} \subseteq live \cup {NULL}

\* The fields caller and callee once pc is unlinked and freed (the content of
\* a freed context is forgotten).
CallerAfter(pc) == [caller EXCEPT ![pc] = NULL]
CalleeAfter(pc) == Assign([callee EXCEPT ![pc] = NULL], caller[pc], NULL)

\* func returned and the heir takes over: sched(next) without current routine.
CompleteHandOver ==
  /\ control = "inside"
  /\ UnlinkIsSafe(cur_routine)
  /\ Heir \in live \ {cur_routine}
  /\ Unlink(cur_routine)
  /\ Transfer(Heir, NULL, CallerAfter(cur_routine), CalleeAfter(cur_routine))
  /\ UNCHANGED <<idle, StackBottom>>

\* func returned and there is no heir: sched(nullptr) without current routine
\* jumps to the idle context and start() returns.  It deletes idle and resets
\* neither the pointer nor StackBottom.
CompleteLast ==
  /\ control = "inside"
  /\ UnlinkIsSafe(cur_routine)
  /\ Heir = NULL
  /\ Unlink(cur_routine)
  /\ caller' = CallerAfter(cur_routine)
  /\ callee' = CalleeAfter(cur_routine)
  /\ cur_routine' = NULL
  /\ control' = "outside"
  /\ UNCHANGED <<idle, StackBottom>>

\* func returned and a context that no longer exists is followed.
CompleteFault ==
  /\ control = "inside"
  /\ ~ (UnlinkIsSafe(cur_routine) /\ Heir \in (live \ {cur_routine}) \cup {NULL})
  /\ Fault

Complete == CompleteHandOver \/ CompleteLast \/ CompleteFault

Next ==
  \/ \E c \in Ctx : Start(c)
  \/ \E c \in Ctx : Run(c)
  \/ \E c \in live : Sched(c)
  \/ Yield
  \/ Complete

Spec == Init /\ [][Next]_vars

\* The function of a coroutine returns after finitely many calls of the
\* engine: a coroutine that gets control again and again comes to its end.
FairSpec == Spec /\ \A c \in Ctx : SF_vars(cur_routine = c /\ Complete)

-----------------------------------------------------------------------------
(* Properties                                                              *)

\* next and prev are inverse to each other on the live contexts and lead to
\* live contexts only; the one context without prev is the head.
ListLinks ==
  /\ running \in live \cup {NULL}
  /\ \A c \in live :
       /\ next[c] \in live \cup {NULL}
       /\ prev[c] \in live \cup {NULL}
       /\ next[c] # NULL => prev[next[c]] = c
       /\ prev[c] # NULL => next[prev[c]] = c
       /\ prev[c] = NULL <=> running = c

\* Whoever follows next from running meets every live context: a set that
\* holds the head and is closed under next holds them all.
ListComplete ==
  \A S \in SUBSET live :
    /\ running \in S \cup {NULL}
    /\ \A c \in S : next[c] \in S \cup {NULL}
    => S = live

\* The unlinking at the end of run() and the insertion at its start keep the
\* list "running" exact: no coroutine is lost by it, none stays in it after
\* its context was deleted, whatever the order of creations and ends.
RunningListsLive == ListLinks /\ ListComplete

\* sched() and the end of run() follow caller pointers that nobody clears when
\* the caller ends.  Still the only freed context they can ever follow is that
\* of a coroutine whose last transfer of control was to itself.
FaultOnlyAfterSelfTransfer ==
  control = "fault" => caller[cur_routine] = cur_routine

\* The promise at start(): "this function doesn't return control until all
\* coroutines are done".
ReturnsWhenAllDone ==
  [][control = "inside" /\ control' = "outside" => live' = {}]_vars

\* yield() picks another coroutine whenever there is one, unless the last
\* transfer of control to the current one was by itself.
YieldPicksAnother ==
  control = "inside" /\ live # {cur_routine} /\ caller[cur_routine] # cur_routine
    => Chosen \in live \ {cur_routine}

\* When coroutines are no longer created, start() comes to its end, normally
\* or by a fault: no coroutine is forgotten and none waits for ever.
StartReturns ==
  <>[][~ \E c \in Ctx : Run(c)]_vars
    => (control = "inside" ~> control # "inside")

=============================================================================
