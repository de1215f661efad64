---------------------------- MODULE ChannelEngine ---------------------------
(***************************************************************************)
(* The engine of homework/06-coroutines-channels: the engine of Engine with *)
(* channels, on which coroutines block.  Its sched() looks at the blocked   *)
(* routines; its start(), run() and the end of run() are those of Engine.   *)
(*                                                                         *)
(* A channel is modelled here by its fill level and its queues of pending   *)
(* tasks; the bytes are the subject of Channel.  cwrite() and cread() are   *)
(* the step that queues the task and one step for each pass of the loop     *)
(* that serves it, up to the first call of sched() inside them, where       *)
(* doing becomes "handoff" and the model stops.                             *)
(***************************************************************************)
EXTENDS Engine, Sequences

CONSTANTS
  Id,       \* channel ids
  Sizes,    \* buffer sizes given to cnew()
  Lengths   \* lengths given to cwrite() and cread()

ASSUME SizesAssumption == Sizes \subseteq Nat /\ Lengths \subseteq Nat
ASSUME IdAssumption == NULL \notin Id

VARIABLES
  channels,     \* keys of Engine::channels
  size,         \* channel.size
  filled,       \* channel.filled
  write_tasks,  \* channel.write_tasks, without the pointers to the data
  read_tasks,   \* channel.read_tasks, without the pointers to the data
  awaiting,     \* context.awaiting
  doing         \* what the executing code does

chanVars == <<channels, size, filled, write_tasks, read_tasks>>
cvars == <<vars, chanVars, awaiting, doing>>

Task == [owner : Ctx, size : Nat]

Doings == {"running", "writing", "reading", "handoff", "deadlock"}

CTypeOK ==
  /\ channels \subseteq Id
  /\ size \in [Id -> Sizes \cup {0}]
  /\ filled \in [Id -> Nat]
  /\ write_tasks \in [Id -> Seq(Task)]
  /\ read_tasks \in [Id -> Seq(Task)]
  /\ awaiting \in [Ctx -> Id \cup {NULL}]
  /\ doing \in Doings

CInit ==
  /\ Init
  /\ channels = {}
  /\ size = [i \in Id |-> 0]
  /\ filled = [i \in Id |-> 0]
  /\ write_tasks = [i \in Id |-> <<>>]
  /\ read_tasks = [i \in Id |-> <<>>]
  /\ awaiting = [c \in Ctx |-> NULL]
  /\ doing = "running"

-----------------------------------------------------------------------------
(* Scheduling                                                              *)

\* The executing code stops being ordinary: how says in what way.
Become(how) == doing' = how /\ UNCHANGED vars

\* Mutant of AllBlocked: an empty list counts as blocked.
AllBlockedOrNone(rs) == \A c \in rs : awaiting[c] # NULL

\* The test at the start of sched(): there are routines, those of the list rs,
\* and all of them are blocked.
AllBlocked(rs) == rs # {} /\ \A c \in rs : awaiting[c] # NULL

\* The first routine of running that is ready and is not the current one.
FirstReady ==
  LET walk[p \in Ctx \cup {NULL}] ==
        IF p = NULL \/ (p # cur_routine /\ awaiting[p] = NULL) THEN p
        ELSE walk[next[p]]
  IN  walk[running]

\* Mutant of ChosenReady: no fallback to the current routine.
ChosenOrNone == IF caller[cur_routine] # NULL THEN caller[cur_routine] ELSE FirstReady

\* The routine that yield() chooses.
ChosenReady ==
  IF caller[cur_routine] # NULL THEN caller[cur_routine]
  ELSE IF FirstReady # NULL THEN FirstReady
  ELSE cur_routine

\* start() and run() as in Engine; a new context is not blocked, so the sched()
\* of start() passes its test.
CStart(c) ==
  /\ doing = "running"
  /\ Start(c)
  /\ awaiting' = [awaiting EXCEPT ![c] = NULL]
  /\ UNCHANGED <<chanVars, doing>>

CRun(c) ==
  /\ doing = "running"
  /\ Run(c)
  /\ awaiting' = [awaiting EXCEPT ![c] = NULL]
  /\ UNCHANGED <<chanVars, doing>>

\* sched(routine), which throws "deadlock" when every routine is blocked.
CSched(routine) ==
  /\ doing = "running" /\ control = "inside"
  /\ UNCHANGED <<chanVars, awaiting>>
  /\ IF AllBlocked(live) THEN Become("deadlock")
     ELSE Sched(routine) /\ UNCHANGED doing

\* sched(nullptr); a blocked current routine without a ready one would end in
\* the assert(0) of sched().
CYield ==
  /\ doing = "running" /\ control = "inside"
  /\ UNCHANGED <<chanVars, awaiting>>
  /\ IF AllBlocked(live) \/ (ChosenReady = cur_routine /\ awaiting[cur_routine] # NULL)
     THEN Become("deadlock")
     ELSE /\ UNCHANGED doing
          /\ IF ChosenReady \in live
             THEN /\ Transfer(ChosenReady, cur_routine, caller, callee)
                  /\ UNCHANGED <<live, prev, next, running, idle, StackBottom>>
             ELSE Fault

\* The end of a coroutine, whose sched() makes the same test without it.
CComplete ==
  /\ doing = "running"
  /\ IF control = "inside" /\ AllBlocked(live \ {cur_routine})
     THEN Become("deadlock") /\ UNCHANGED awaiting
     ELSE /\ Complete
          /\ awaiting' = Assign(awaiting, cur_routine, NULL)
          /\ UNCHANGED doing
  /\ UNCHANGED chanVars

-----------------------------------------------------------------------------
(* Channels                                                                *)

\* cnew(id, n), inside or outside of coroutines.  It throws and changes
\* nothing when the id is in use.
CNew(id, n) ==
  /\ doing = "running" /\ control # "fault"
  /\ id \notin channels
  /\ channels' = channels \cup {id}
  /\ size' = [size EXCEPT ![id] = n]
  /\ filled' = [filled EXCEPT ![id] = 0]
  /\ UNCHANGED <<vars, write_tasks, read_tasks, awaiting, doing>>

\* cclose(id).  It does nothing for an unknown id; with pending tasks it throws
\* and changes nothing.
CClose(id) ==
  /\ doing = "running" /\ control # "fault"
  /\ id \in channels
  /\ write_tasks[id] = <<>> /\ read_tasks[id] = <<>>
  /\ channels' = channels \ {id}
  /\ size' = [size EXCEPT ![id] = 0]
  /\ filled' = [filled EXCEPT ![id] = 0]
  /\ UNCHANGED <<vars, write_tasks, read_tasks, awaiting, doing>>

\* Mutant of Written: it forgets what the buffer holds already.
WrittenUnbounded(id, n) == IF n <= size[id] THEN n ELSE size[id]

\* Mutant of Read: it moves what the buffer holds, also when that is more than
\* the reader asked for.
ReadFilled(id, n) == filled[id]

\* How many of n bytes the loop of do_write_task(), and of do_read_task(), moves
\* before it finds the buffer full, or empty.  Reading does not lower filled.
Written(id, n) == IF n <= size[id] - filled[id] THEN n ELSE size[id] - filled[id]
Read(id, n) == IF filled[id] > 0 THEN n ELSE 0

\* The task at the head of a queue after done bytes of it were moved, and the
\* queue without it once nothing is left.
Remaining(tasks, done) ==
  IF Head(tasks).size = done THEN Tail(tasks)
  ELSE <<[Head(tasks) EXCEPT !.size = @ - done]>> \o Tail(tasks)

\* The start of cwrite() and cread(), called by a coroutine (outside of one the
\* code would follow cur_routine = nullptr): a task is queued, behind those of
\* other coroutines it waits for them with sched().  channels[id] creates a
\* channel without buffer when there is none.
CWrite(id, n) ==
  /\ doing = "running" /\ control = "inside"
  /\ channels' = channels \cup {id}
  /\ write_tasks' = [write_tasks EXCEPT ![id] =
                       Append(@, [owner |-> cur_routine, size |-> n])]
  /\ awaiting' = [awaiting EXCEPT ![cur_routine] = id]
  /\ doing' = IF Head(write_tasks'[id]).owner = cur_routine THEN "writing" ELSE "handoff"
  /\ UNCHANGED <<vars, size, filled, read_tasks>>

CRead(id, n) ==
  /\ doing = "running" /\ control = "inside"
  /\ channels' = channels \cup {id}
  /\ read_tasks' = [read_tasks EXCEPT ![id] =
                      Append(@, [owner |-> cur_routine, size |-> n])]
  /\ awaiting' = [awaiting EXCEPT ![cur_routine] = id]
  /\ doing' = IF Head(read_tasks'[id]).owner = cur_routine THEN "reading" ELSE "handoff"
  /\ UNCHANGED <<vars, size, filled, write_tasks>>

\* Mutant of After: the call returns after one pass, finished or not.
AfterOnce(mine, others) == IF others # <<>> THEN "handoff" ELSE "running"

\* What a loop does after one pass, with the tasks mine of its own queue and
\* others of the other one: it hands over to whoever waits there, goes on while
\* its routine has a task at the head, or the call returns.
After(mine, others) ==
  IF others # <<>> THEN "handoff"
  ELSE IF mine # <<>> /\ Head(mine).owner = cur_routine THEN doing
  ELSE "running"

\* One pass of the second loop of channel::write() and of channel::read().
WriteLoop(id) ==
  /\ doing = "writing" /\ awaiting[cur_routine] = id
  /\ LET n == Head(write_tasks[id]).size IN
     /\ filled' = [filled EXCEPT ![id] = @ + Written(id, n)]
     /\ write_tasks' = [write_tasks EXCEPT ![id] = Remaining(@, Written(id, n))]
     /\ awaiting' = IF Written(id, n) = n
                    THEN [awaiting EXCEPT ![cur_routine] = NULL] ELSE awaiting
  /\ doing' = After(write_tasks'[id], read_tasks[id])
  /\ UNCHANGED <<vars, channels, size, read_tasks>>

ReadLoop(id) ==
  /\ doing = "reading" /\ awaiting[cur_routine] = id
  /\ LET n == Head(read_tasks[id]).size IN
     /\ read_tasks' = [read_tasks EXCEPT ![id] = Remaining(@, Read(id, n))]
     /\ awaiting' = IF Read(id, n) = n
                    THEN [awaiting EXCEPT ![cur_routine] = NULL] ELSE awaiting
  /\ doing' = After(read_tasks'[id], write_tasks[id])
  /\ UNCHANGED <<vars, channels, size, filled, write_tasks>>

CNext ==
  \/ \E c \in Ctx : CStart(c) \/ CRun(c)
  \/ \E c \in live : CSched(c)
  \/ CYield
  \/ CComplete
  \/ \E id \in Id, n \in Sizes : CNew(id, n)
  \/ \E id \in Id : CClose(id)
  \/ \E id \in Id, n \in Lengths : CWrite(id, n) \/ CRead(id, n)
  \/ \E id \in Id : WriteLoop(id) \/ ReadLoop(id)

CSpec == CInit /\ [][CNext]_cvars

-----------------------------------------------------------------------------
(* Properties                                                              *)

\* Channels without a key in the map have no buffer, and no channel holds more
\* than its buffer, so that size - filled, which is unsigned, never wraps.
FillWithinBuffer ==
  \A i \in Id : filled[i] <= size[i] /\ (i \notin channels => size[i] = 0)

\* A coroutine has a task pending only while it executes the loop of its own
\* call: no suspended coroutine ever waits on a channel, whichever was full or
\* empty when it called.
BlockedNeverSuspended ==
  /\ \A c \in Ctx : awaiting[c] # NULL =>
       c = cur_routine /\ doing \in {"writing", "reading"}
  /\ \A i \in Id :
       /\ Len(write_tasks[i]) + Len(read_tasks[i]) <= 1
       /\ write_tasks[i] # <<>> => doing = "writing" /\ awaiting[cur_routine] = i
       /\ read_tasks[i] # <<>> => doing = "reading" /\ awaiting[cur_routine] = i

\* Consequently a writer never passes control to a reader, nor a reader to a
\* writer, and sched() never finds every routine blocked: no call of sched() in
\* cwrite() and cread() is reached, and "deadlock" is never thrown.
HandOffsAreDead == doing \notin {"handoff", "deadlock"}

\* The engine with channels does with its routines exactly what the engine of
\* homework/05-coroutines may do, whatever the coroutines do with channels.
EngineSpec == Spec
=============================================================================
