# A TLA+ model of sphere-mt

The repository holds the homework programs of a course on multithreaded
programming in C++. This directory models the programs that keep state over
many calls, checks them with TLC on small instances and proves the main results
with TLAPS for every instance.

Paths below are relative to `src/homework/`.

## Inventory

| Component | State | Operations | What is hard, and what makes it correct |
|---|---|---|---|
| **Coroutine engine**, `05-coroutines` (`engine.h`, `engine.cpp`) | contexts on the heap, each with `caller`, `callee`, `prev`, `next`; `running`, `cur_routine`, `idle`, `StackBottom` | `start`, `run`, `sched`, `yield`, the end of a coroutine | any interleaving of creations, switches and ends. The list `running` holds just the live contexts; nobody follows a pointer to a deleted one; `yield()` gives up control; `start()` returns when all coroutines are done, and does return |
| **Stack switching**, `05` and `06` (`Store`, `Restore`) | the stack, a copy buffer per context | `Store`, `Restore` inside the operations above | all coroutines use the same region. Each finds its frames as it left them; nothing else is written |
| **Channels**, `06-coroutines-channels` | a map of channels, each with a ring buffer and queues of write and read tasks; `awaiting` of a context | `cnew`, `cclose`, `cexists`, `cwrite`, `cread` | blocked coroutines, hand-over between readers and writers inside of calls. Bytes arrive once and in order; the buffer does not overflow; deadlock is noticed |
| **Chat server**, `04-epoll` | the map `listeners`, an output queue per `Listener`, sockets, the epoll instance | accept, broadcast, partial writes, removal, errors | clients come, go and break at any time; descriptors are reused; one registration is edge-triggered. Everybody gets all messages in order; no event is lost |
| **Skip list**, `02-skiplist` | a data list with index lists above it | `Put`, `PutIfAbsent`, `Get`, `Delete`, `cfind`, `cbegin`, iterators | random heights, relinking along the path of a search. It is an ordered map |
| **External sort**, `03-sort` | block buffer, temporary files, a heap over files | `extsort` | block boundaries, several passes, end of file. The output is the sorted input |
| **Allocator**, `01-allocator` | a chunk of memory with a list of nodes and a table of pointers that grow towards each other | `alloc`, `realloc`, `free`, `defrag` | long sequences of calls. Allocated blocks never overlap one another or the table, and keep their content |
| tests, `thirdparty/` (gtest, backward-cpp), `examples/LD_PRELOAD` | | | no logic of the programs |

Interactions: the engine of 06 is that of 05 with channels, which call back into
`sched()`; both use the same `Store`/`Restore`. In the chat server `main()` and
the `Listener` objects share the descriptors and the epoll instance with the
kernel, and clients act on the same sockets. The skip list, the sort and the
allocator stand alone.

The programs are single-threaded. What is concurrent is the order in which
coroutine bodies call the engine, and what clients do between two steps of the
server.

## Modules

| Module | Models |
|---|---|
| `Engine` | the scheduler of 05 |
| `EngineProofs` | theorems about it |
| `ChannelEngine` | the scheduler of 06 with channels, extending `Engine` |
| `ChannelEngineProofs` | that it implements `Engine`, and what is unreachable |
| `Channel` | the bytes of one channel |
| `ChannelProofs` | theorems about it |
| `StackSwap` | `Store()` and `Restore()` |
| `StackSwapProofs` | theorems about them |
| `ChatServer`, `MCChatServer` | the chat server; its instance with symmetry |
| `ChatServerProofs` | theorems about it |
| `OrderedMap` | the abstract specification: an ordered map and an iterator |
| `SkipList` | the skip list, down to the loops of `search()` |
| `SkipListProofs` | that it is well formed and implements the map |
| `ExtSort` | the external sort, up to its merging passes |
| `ExtSortProofs` | theorems about it, one of which is that merging is never reached |
| `Allocator`, `MCAllocator` | the allocator; its instance with symmetry |
| `AllocatorProofs` | theorems about it |

### Engine

One step is one call of the engine by the executing code, up to the `longjmp`
that ends it: between two calls a coroutine touches nothing of the engine.
`live` are the contexts allocated and not deleted; a context is identified by its
address, which a later `new` may return again. `caller`, `callee`, `prev`,
`next`, `running` and `cur_routine` are the fields of the code. `idle` and
`StackBottom` are only compared with 0, so they are Booleans. `control` says
whether coroutines execute (`inside`), or the code around `start()` (`outside`).
Where the code would read or write a context that was deleted the outcome is
undefined: `control` becomes `fault` and the model stops.

| Action | Code |
|---|---|
| `Start(c)` | `start()`, `run(main)` and the `sched()` that follows |
| `Run(c)` | `run()`, the first return of `setjmp` |
| `Sched(c)` | `sched(handle)` with the handle of a live context |
| `Yield` | `yield()`, `sched(nullptr)` |
| `Complete` | the end of `run()` after the body returned: unlinking, deletion and `sched(next)` (`CompleteHandOver`, `CompleteLast`), or a step to a deleted context (`CompleteFault`) |

`Transfer` is the second half of `sched()`. It keeps the two walks along `callee`,
although nothing ever sets that field to anything but null.

What callers must not do is left out: passing the handle of an ended coroutine
and calling `sched()` or `yield()` outside of `start()`.

### StackSwap

The stack is a function from positions to contents; position 1 is the first block
below `StackBottom`, positions up to 0 belong to `start()` and its callers. `low`,
`capacity` and `copy` are `Low` and `Stack` of a context; `depth` and `frames` are
the ghost view of the coroutine of its own stack. `Call` and `Return` are calls
inside coroutine bodies (external), `Switch` is `sched()`, `Run` and `Complete`
are what their namesakes do to the stack. Whom control goes to is left open,
which covers both engines. A context that is restored may lie deeper or less deep
than the one that is stored; the recursion of `Restore()`, which moves its own frame out
of the way, and the frames of the engine's functions are below all blocks modelled.

### ChannelEngine

It has the variables of `Engine`, the channels by their `size`, `filled` and
queues of tasks, `awaiting`, and `doing`: whether the executing coroutine is
in the body of a coroutine, in the second loop of `channel::write()` or
`channel::read()`, or at a call of `sched()` inside them (`handoff`), or stopped by
the exception `deadlock`. `CStart`, `CRun`, `CSched`, `CYield` and `CComplete` are
the operations of `Engine` with the test for deadlock and the choice that
leaves out blocked routines. `CWrite` and `CRead` queue a task, `WriteLoop` and
`ReadLoop` are one pass of a loop each. `After` says how a pass ends.

The model stops at `handoff`. That this loses nothing is itself a result:
`HandOffsAreDead` says that `handoff` and `deadlock` are never reached. The reason
is in the code: a writer that finds the buffer full, and a reader that finds it
empty, does not call `sched()` unless a task of the other kind is queued
already, and none can be, as nobody else gets control. So such a call never
returns, its coroutine never gives up control and the program hangs. The
test for deadlock in `sched()`, said to catch "the simplest cases"
(`06-coroutines-channels/src/engine.cpp:60`), is not met even by one coroutine
that reads from an empty channel.

`do_read_task()` has no `return`. Its value is not used; the model takes the
outcome in which it returns.

### Channel

One channel with the bytes: the k-th byte written is the number k. `WriteTransaction`
and `ReadTransaction` are one pass of the inner loops of `do_write_task()` and
`do_read_task()`; the index arithmetic is `Least`, `At` and `StartAfter`. The
code never lowers `filled` and writes at `start`, where unread bytes
begin: a channel takes as many bytes as it has in all, and then every write blocks for ever, while
reads go round and round in the buffer. `start` is anywhere in the buffer when a write comes, so that copies
of both kinds wrap around. `LatestWriteReadFirst` says what that amounts to: the next bytes read after a write are
those of that write, in order, and only then what was there before. `sentBefore` and `rcvdBefore` are ghost variables:
`sent` and `rcvd` when the latest write began. The return value of `do_write_task()` is left out, as nobody uses it (it
is not what its comment says for an empty task, `engine.h:139`).

### ChatServer

One step of the server is the handling of one event, except that accepting
and reading are loops of system calls and have a step for each call, so that
clients act in between. `open` maps descriptors to connections, `interest` to the
events that `epoll_ctl` asked for; `batch` is the result of the latest
`epoll_wait()` not handled yet; `at` is where the server is: on a descriptor it reads from or
accepts on, between events (`polling`), in `epoll_wait()` (`waiting`), `ended` or
`killed`. `backlog` and `edge` are the master socket with its
edge-triggered registration; `listeners`, `output` and `written` are the map and
the queues. A message is what one `read()` returned and is identified by its place
in the order of reading; a read may return several pieces that a client sent.
`write()` takes the whole message, or a part, which fills the send buffer; a whole message may fill it, too. `full` are the
clients with a full buffer. They are not reported writable until they read (`Drain`), and need never read; what such a client sends is
read all the same, as `main()` comes to the read loop when `EPOLLOUT` was not reported (`Kind`, `Writable`). A `write()` to a full
buffer fails with `EAGAIN`, which `flush()` takes for an error (`Fails`); that happens with the farewell after Ctrl+D only.
`received`, `joined`, `reads`, `failed` (the descriptors on which some `write()` failed), `refused` and
`late` are ghost variables: they say what happened so far.

| Action | Code |
|---|---|
| `Test`, `EpollWait` | `while (!sigint)` and `epoll_wait()` |
| `Interrupt` | `sigint_handler()`, at any time |
| `HandleError`, `HandleWritable` | `main.cpp` 139-149, with `flush()` |
| `StartAccept`, `Accept`, `StopAccept` | the accept loop, with the welcome |
| `StartRead`, `ReadText`, `ReadEot`, `ReadEnd`, `ReadNothing` | the read loop with broadcast, Ctrl+D, removal |
| `Connect`, `Say`, `Leave`, `Break`, `Drain` | clients (external) |

After a failed `write()` the exception handler closes the socket, while the entry
stays in `listeners` (`Caught`, `Stale`): the loop of a broadcast stops at the first such
entry (`Reached`). `accept()` returns the lowest free descriptor; when it
is that of a stale entry the new `Listener` is moved into it and the old queue
stays (`Accept`). Descriptors below the lowest one that ever failed are not concerned: broadcasts go through the map
in order and reach them first. `BroadcastUnlessFailed` says so, for ever after the failure.

A `write()` to a connection that was reset fails, or raises SIGPIPE if the peer had
closed its side before, and the program does not handle that signal (`Fatal`). A SIGINT that
arrives in `epoll_wait()` interrupts it; one that arrives between the test of `sigint` and
`epoll_wait()` does not. `waiting` stands for both places, so `Interrupt` has both outcomes.

### SkipList and OrderedMap

`next[l]` is the list on layer `l`; 0 are the data nodes. A call is `Call`, which
starts `search()`, then steps `MoveForward` and `MoveDown` of its loops, then one step
that relinks and returns (`PutNew`, `PutReplace`, `PutIfAbsent`,
`PutIfAbsentFinds`, `Get`, `Delete`, `DeleteAbsent`, `cfind`). The random height is a
choice. Iterators are modelled by one iterator that lives across
calls; when its own node is deleted it is not used any more. `OrderedMap` says
what the doc comments promise. `M == INSTANCE OrderedMap WITH map <- value of the keys`
is the refinement mapping: steps of `search()` are stutters.

Left out: destructor, `gvdump()`, allocation.

### ExtSort

A step opens the files of one kind, reads, sorts and writes one block, tests for the end of
the loop, or writes the output. `pos` and `feof` are the stream of the input, `eof_flag` is that of
`File`, `buf`, `rdcnt`, `c` and `dst` are the locals of `extsort()`. `memory` is what
the buffer, which is not initialised, held when it was allocated: any values. `std::sort` is
specified by what it promises (`Sorted`). It is called on the whole buffer, also when the block read is shorter. What is written of
a short input are therefore the least elements of the input and of the memory behind it (`Loaded`): `WritesLeast`. It is the input
only if nothing less was there.

| Action | Code |
|---|---|
| `OpenTempFiles`, `OpenInput` | `TempFiles()`, the constructor of `File` |
| `ReadBlock` | the body of the loop `algo.h` 138-144, with `File::read()` and `File::write()` |
| `AfterBlocks` | the end of that loop and the test `c <= 1` |
| `WriteOutput` | `algo.h` 148-153 |
| `Fail` | an exception of `File`, which nobody catches |

`File::eof()` says that the end was reached only if a read was short and `feof()`
is not set. But `fread()` sets that indicator whenever its count is short, and a short count
without it is an error, which throws. So the loop `while (file_in.eof())` ends after
one block: `MergeIsDead`. The merging passes with `MultiFileHeap`, `FileReader` and
`FileWriter` are therefore not spelled out.

### Allocator

The chunk is a function from places to words, and a word is what was last written to
it: the head of a node, a slot of the table, or data. `heap` is that with `last_node` and
`ptr_first`; `ok` is false after the code left the chunk or took a word for a head
that is none, where the model stops. `inner` is `inner_ptr` of a `Pointer`. `size`
and `written` are in no line of the code: they are what its user knows, namely what it asked for (`Resized`) and wrote (`Write`).
`Gets` is `Pointer::get()` with its two tests; `realloc()` and `free()` take the node of a slot without a test
(`HasNode`, `Lost`). Sizes are whole words.

| Action | Code |
|---|---|
| `Alloc` | `alloc()`; without memory it throws and keeps the slot |
| `Shrink`, `Expand`, `ExpandThrows`, `Move` | the four ways through `realloc()` |
| `Free` | `free()`, with `squeze_ptrs()` |
| `Defrag` | `defrag()`; its loop is `Compact` |
| `Lost` | `realloc()` or `free()` of a `Pointer` whose slot or node was overwritten |
| `Write` | the user writes a block (external) |

The functions of the code are operators from heaps to heaps with the same names.

The first node is given all words of the chunk, its own head included, so
the last node ends one word behind the table. That is harmless until the last
node is short of words, and nothing in the code looks for it. The properties
say precisely how far the allocator can be relied on: `since` counts the calls from
the first one it does not cope with, which is one that takes one of the last two words of the
last node or joins a rest with it (`Overtakes`), a table that grows over the
last word of it (`Overgrows`), a `realloc()` that grows in place (`realloc_node()` counts the rest one word
short, or wraps around and throws half way), or a `defrag()` (which moves one
word less than a node has and leaves `last_node` where it was). Until
then `NodesTile`, `BlocksKept` and `FreeNodesJoined` hold. `CallsKeepContents` covers that
call too: `get()` still finds each block, with what was written. It names four exceptions, each of which
does happen, and is an error of the code:

- `defrag()` moves the head of a node and all but the last of its words, so that the last word of the block is lost.
- The call wrote over the slot of the block (`SlotLost`). Two calls do
  that: `alloc()` and `realloc()` that take the last words of the last node, which include
  the lowest slot of the table, and `defrag()`, whose last write goes one head further than the end of the
  blocks.
- A `realloc()` that throws half way has cleared the used flag of the block behind (`FlagLost`). Its words are there,
  but `get()` throws.
- `defrag()` meets a block that `realloc()` cut to no words at all. It moves nothing of it, not
  even the head, and goes on from whatever lies at the destination; nothing is claimed of that call.

The test `DefragMove` (`01-allocator/allocator_test.cpp:152`) looks at all bytes after `defrag()`, in blocks of 135 bytes. These are nodes
of 17 words, of which `defrag()` moves the head and 16 others. It passes because all its blocks are of one size and hold the same
pattern: what lies where the last word should be is the last word of another block.

Calls behind the first one that the allocator does not cope with are followed for `MaxSince` steps, with their effect, but only `TypeOK` is
claimed of them. After `defrag()`, which leaves `last_node` stale, the next `alloc()` may take words of a block.

## Runs

All runs are small and complete searches of their instance.

| Run | Instance | Question |
|---|---|---|
| `engine` | 4 contexts | Is `running` exact (`RunningListsLive`)? Is there only one way to a deleted context (`FaultOnlyAfterSelfTransfer`)? Does `yield()` switch (`YieldPicksAnother`)? Does `start()` return last (`ReturnsWhenAllDone`), and return at all (`StartReturns`)? |
| `stack_swap` | 2 contexts, 3 blocks, 2 contents | Are frames kept (`FramesRestored`)? When are foreign ones touched (`OuterIntactUnlessShrunk`)? |
| `channel_engine` | 3 contexts, 2 channels, sizes 0 to 2, lengths 0 to 2 | Does it implement `Engine` (`EngineSpec`)? Are waiters suspended (`BlockedNeverSuspended`)? What is dead code (`HandOffsAreDead`)? Does a buffer overflow (`FillWithinBuffer`)? |
| `channel` | sizes 0, 1, 3, 4; lengths 0 to 3 and 5 | Are the next bytes read those of the latest write, wherever `start` is (`LatestWriteReadFirst`)? Does a write copy once (`WritesOnce`)? |
| `channel_delivers` | size 3, lengths 0 to 2 | *violated:* what was written is what is read (`DeliversWritten`) |
| `chat_server` | 3 clients, 2 descriptors; two clients send, one piece of data each, one goes, two may stop reading | Order (`InReadingOrder`), current events (`EventsAreCurrent`), armed events (`ArmedIffPending`), broadcasts complete below failed descriptors (`BroadcastUnlessFailed`); when are connections left behind (`NoneLeftBehind`), and when does SIGPIPE end the server (`KilledOnlyInRace`)? |
| `chat_server_live` | 2 clients, 2 descriptors; one goes, one at a time does not read | Is everybody served (`ServesEveryone`) and accepted (`AcceptsEveryone`)? Does SIGINT end the server (`ShutsDown`)? |
| `skip_list` | 3 keys, 2 values, 2 index layers | Well formed (`WellFormed`), exact search (`SearchExact`), an ordered map but for replacement (`MapExceptReplace`), no stuck state |
| `skip_list_put` | 2 keys, 2 values | *violated:* it is an ordered map (`ImplementsMap`) |
| `ext_sort` | 3 values, buffer of 4, inputs of 0 to 5 elements | What is written of inputs shorter than the buffer (`WritesLeast`)? Is anything merged (`MergeIsDead`)? Does the program end (`Terminates`)? |
| `ext_sort_large` | same | *violated:* inputs that fill the buffer, or are longer, are written (`SortsLargeInput`) |
| `allocator` | 10 words, 3 pointers, sizes 1 and 2 | Do the nodes cover the chunk (`NodesTile`)? Are blocks kept (`BlocksKept`), and without leaks (`FreeNodesJoined`)? What becomes of the contents in the first call beyond (`CallsKeepContents`)? |

### Bounds

- `Ctx`: four contexts allow a list with inner elements to be unlinked while
  others are created, callers that ended and whose address is used again, and chains of callers. The
  theorems hold for any number.
- `Sizes`, `Lengths`: lengths below, at and above the sizes, with all positions of
  `start`. `MaxRead` bounds the bytes read in a run; `start` comes around several times, with writes in between as long as there is room.
- `MaxDepth`: three blocks are enough for a stack to grow, shrink by one or two and
  grow again between two stores. The theorems hold for any depth.
- `Fd`, `Client`: with three clients on two descriptors one is reused, or missing,
  while another client has queued messages. `MaxSent` is the number of pieces a
  client sends, `MaxGone` (constraint `FewGone` of `MCChatServer`) how many clients
  leave or break, `MaxTalkers` (`FewTalkers`) how many send or leave, `MaxFull` (`FewFull`) how many at a time
  do not read; each client connects at most once. `chat_server` does not follow SIGINT (`Running`), behind which the server only goes on as before
  or ends; `chat_server_live` does. The third client of `chat_server` may do neither of sending and leaving, but it
  connects, gets messages, stops reading and breaks. The theorems hold without these bounds.
- `Key`, `MAXHEIGHT`: a key between, before and behind others, towers that are
  lower, equal and higher.

- `BUF_LEN`, `MaxLen`, `Value`: inputs of none, some, all and more elements than the buffer
  has; three values give repetitions and all orders, also with what the memory held before.
- `Words`, `Sizes`: three blocks of one word, with their heads and slots, fill all of the ten words but one, so that
  blocks fit first, in the middle and last, are joined on both sides, and every call
  the allocator does not cope with happens; `MaxSince` follows it for two
  calls. A chunk of 13 words with two pointers and sizes 1, 4 and 5 was searched as well,
  without a difference. Sizes of 0 words are left to the theorems, for which `Sizes` is any set of naturals. Pointers are interchangeable (symmetry `Handles`).

Deadlock is not checked where the system may stop: after `start()` returned, at
a fault, in a call of `cread()` or `cwrite()` that never ends, when clients do
nothing more, when the sort is done, when the allocator's bound is reached. It is checked for the skip list, where every search must go on.

### Fairness

- `Engine!FairSpec`: the body of a coroutine returns after finitely many calls of the
  engine, so a coroutine that gets control again and again comes to its end
  (strong fairness of its `Complete`). This is an assumption about the
  bodies; a body that loops for ever keeps `start()` from returning by its own fault.
  `StartReturns` also assumes that at some time no more coroutines are created.
- `ChatServer!FairSpec`: the server process is scheduled (weak fairness of its
  steps). Clients owe nothing. What is queued for a client that stops reading stays queued, and nothing in the code gives it
  up, so `ServesEveryone` promises that a queue is written only to a client whose buffer is found to have room again
  and again; that what a client sends is read is promised without that condition. `AcceptsEveryone` is claimed for enough
  descriptors: with too few, connections stay in the backlog until another one arrives.
  `ShutsDown` promises an end only once there is an event: the signal may come just
  before `epoll_wait()`.
- `ExtSort!FairSpec`: the program runs (weak fairness of its steps).

## Findings

1. `06-coroutines-channels/include/coroutine/engine.h:158`: two writes before a read overwrite one another
   (`channel_delivers`).
2. `02-skiplist/include/skiplist/skiplist.h:79`: `Put()` of a key that is there stores the value in
   the node before it (`skip_list_put`).
3. `03-sort/algo.h:144`: only the first block of an input is read, and of a full
   block nothing is written (`ext_sort_large`). The test passes, as an empty output is in order.
4. `03-sort/algo.h:141`: the whole buffer is sorted, also the uninitialised part behind a short block, whose values may take the
   place of those read (`WritesLeast` in `ext_sort` says exactly what is written).
5. `01-allocator/allocator.cpp:118`: `defrag()` loses the last word of every node that moves onto another place
   (`CallsKeepContents` in `allocator`).
6. `01-allocator/allocator.cpp:216`: a `realloc()` that needs all words of the node behind and its head throws half way and makes the block behind
   that node unreadable (`CallsKeepContents` in `allocator`).

The first three are traces of runs that TLC finds violated; the others are what a property that holds has to leave out.

Other places where the code falls short of what its documents say are exceptions in
properties that hold, which say that there is no other one:

- `05-coroutines/src/engine.cpp:93`: a coroutine that transfers control to
  itself (`yield()` when it is alone, or `sched()` of its own handle) becomes its own `caller`. If
  nobody else resumes it later, the end of `run()` writes to its own deleted
  context and passes it to `sched()` (`FaultOnlyAfterSelfTransfer`). Meanwhile its `yield()` keeps
  returning to itself: that is the exception in `YieldPicksAnother`.
- `05-coroutines/src/engine.cpp:38`: `Restore()` copies the whole buffer, which
  never shrinks, and so writes over the frames of the callers of `start()`
  (`OuterIntactUnlessShrunk`). Whether the stale bytes differ from what is there depends on
  what was on the stack when the buffer was filled.
- `04-epoll/main.cpp:210`: after one failed write broadcasts stop at the entry that
  stays, so that clients on higher descriptors miss messages, also later ones (`BroadcastUnlessFailed`). A client that does not read
  and sends Ctrl+D is enough for that, as `EAGAIN` of the farewell counts as a failure.
- `06-coroutines-channels/include/coroutine/engine.h:185`: reading does not lower `filled`, so that a channel takes no more than
  its size in all, and a read that asks for more than there is gets bytes again (`LatestWriteReadFirst`).
- `04-epoll/main.cpp:159`: connections that find no descriptor wait until another one
  arrives, even if descriptors are freed before (`NoneLeftBehind`).
- `04-epoll/Listener.cpp:112`: SIGPIPE ends the server when a client closes and resets its connection
  between the report of `epoll_wait()` and the `write()` (`KilledOnlyInRace`).
- `01-allocator/allocator.cpp:52`, `:118`, `:129`, `:202`, `:216`: see Allocator above.

Seen in the models, without a property of their own: a second `start()` of an engine
always throws, as `idle` is not reset (`Start`); `callee` is never set
(`CalleeAfter`, `Transfer`); a blocked `cread()` or `cwrite()` hangs the program (above).

## Proofs

Checked by TLAPS, for all values of the constants that meet the `ASSUME`s
(sentinels are no elements; sizes and lengths are naturals; keys are integers;
there is at least one index layer and one block; descriptors are a finite set of
naturals above 0; the buffer of the sort is a multiple of twice the number of ways, as `extsort()`
demands; a chunk has at least three words, as the constructor of the
allocator demands).

- **EngineProofs.** The invariants of `Engine` are not inductive as they stand. `IInv`
  is the type invariant, the links of the list, and: no context has a callee
  (`CalleesUnset`), so a transfer goes to the routine it was asked for; every nonempty set of
  live contexts has one whose `prev` is outside the set (`NoCycle`), which gives
  `ListComplete` without recursion; the caller of the executing coroutine is live, although
  those of suspended ones may be dangling (`ControlInv`). The lemmas
  `RegisterKeepsList` and `UnlinkKeepsList` show that insertion and removal preserve the list;
  then there is one lemma per action. Theorems: `TypeCorrect`, `ListExact`, `SingleCauseOfFault`,
  `YieldSwitches`, `StartReturnsLast`.
- **ChannelEngineProofs.** The invariant `CInv` says that a task is queued only by the
  current coroutine inside its own call. From it the guards of all hand-overs are
  false, and every step of `ChannelEngine` is a step of `Engine` or leaves its variables alone:
  `ImplementsEngine`, `ChannelsTypeCorrect`, `FillCorrect`, `NoSuspendedWaiter`, `DeadCode`. With
  `ImplementsEngine`, the invariants of `Engine` hold for the engine with channels.
- **StackSwapProofs.** The invariant says of each suspended context that its buffer
  begins with its frames, and of each buffer that was never larger than needed that it ends there:
  `TypeCorrect`, `FramesPreserved`, `OuterPreserved`.
- **ChannelProofs.** A write copies to `start` and a read advances it, around the end of the buffer. The invariant looks at the buffer
  from `start` on: `Turned` says which byte lies at each place behind `start`, given how far reads have come since the latest write
  began, namely one of that write, or something older that reads find next. `Fresh` (a write that has not copied yet finds only
  older bytes) and `Held` (the buffer holds all of the latest write) make it inductive. It needs that a write copies once
  (`WritesOnce`) and that different bytes have different places (`Places`).
  `TypeCorrect`, `CopiesOnce`, `DeliversLatestWrite`.
- **ChatServerProofs.** `IInv` has seven parts: types; what is registered, armed and reported
  (`Structure`: no event of the batch, and no loop, is on a closed descriptor); that a backlog without a new
  report is still looked at, or was refused (`Arrivals`); that a broken connection which the loop takes for a good one
  broke late (`Races`); that a client has one connection, in the backlog or on one descriptor (`Connections`);
  that queues continue what was received and hold nothing newer than the latest read (`Order`), and below every descriptor
  on which a write failed hold all of it, with no stale entry (`Complete`). The lemma
  `Effects` reduces every step, for the last three parts, to one of a few kinds: nothing of interest, a connection that arrives,
  is accepted, moves on, is removed or given up, and a broadcast. Theorems: `TypeCorrect`,
  `ArmedExactly`, `EventsCurrent`, `AcceptsAll`, `SingleCauseOfDeath`, `ReadingOrder`, `BroadcastsComplete`.
- **ExtSortProofs.** The key is that a short count comes with the end of the stream, so that `eof_flag` stays
  false, for inputs and buffers of any length. Then `buf` holds one sorted block, any beginning of which is in
  order. `TypeCorrect`, `NothingIsMerged`, and `WritesAscending`, by which whatever is written is in
  order (`OutputAscending`), also of the inputs that are cut. `ShortInputWritten`: an input shorter than the
  buffer is read into it at once, so what `std::sort()` leaves is a permutation of the input with the memory behind it, and its
  beginning, which is written, holds the least elements of both; a permutation is a bijection of the positions, so no cardinality is
  computed. `ShortInputSorted` adds that this is the sorted input if nothing in that memory is less than an
  element of it (`NothingLessBehind`), which the code does not see to.
- **SkipListProofs.** `IInv` is `TypeOK`, `WellFormed`, what holds of the path during a search
  (on the layers done it is exact, on the current one `cur` precedes the key) and that an idle list has no
  path. `InsertSorted` and `RemoveSorted` are the lemmas on one layer. `ItInv`
  says that the iterator stands on a node that exists. `ImplementsMapExceptReplace` maps every
  step to one of the map, to a stutter or to `PutReplace`. Theorems: `TypeCorrect`, `StaysWellFormed`,
  `SearchCorrect`, `ImplementsMapExceptReplace`.

- **AllocatorProofs.** The nodes are found by following lengths from the first one, which is no fact about any one of them.
  The proofs therefore speak of a set `N` of places that is a `Chain`: it contains place 0 and `last_node`, has a head in each, and contains
  the next of each but the last; `Tiled` adds that no node lies inside another and that the last one ends one word
  behind the table. `NodesAreChain` shows that such a set is `Nodes`, and `SeekInChain` that a search through the list finds
  the first node looked for; both argue from a least counterexample (`LeastNatural`), as induction is not
  available. `Good` is the invariant until `since` counts: `Nodes` is `Tiled`, its last node
  is free, no two free ones but the first are neighbours (`Joined`), every used node is that of exactly one
  block and every block has one of its own (`Others`, `BlockAt`), and each slot of the table that no block has is empty (`Owned`). The
  operators of the code get a lemma each (`AllocNode`, `FreeNode`, `PlaceFound`,
  `TableSqueezed`, `CarriedEffect`), most of which say that used nodes other than the one
  concerned, and the table, are as before (`Frame`). After the first call that the allocator does not cope with only
  types are claimed, whatever overlaps what (`StepType`). That first call is the subject of `ContentsKept`, which cannot use
  the invariant behind the call. Each operator has a second lemma that says which places it writes (`Same`; for a
  node that is cut or grown `Cuts`, `NodeTaken`), and a block is kept if these avoid its words and its slot
  (`Untouched`, `HeldUntouched`); `Lasts` is what `get()` needs of it, `Stays` the same but for the used flag, which the block behind
  a failed `realloc()` loses (`FlagLost`). `alloc()` and `realloc()` may write over the lowest slot, which is the case `SlotLost`.
  For the loop of `defrag()` the argument is the invariant `Swept`: the nodes before `src` lie packed below
  `dst`, each with its slot and all the words that move with it (`Carries`), and from `src` on nothing has changed; a least
  counterexample again takes it through the passes (`CompactSweeps`). Theorems: `Inductive`, `TypeCorrect`,
  `AlwaysTiled`, `AlwaysKept`, `AlwaysJoined`, `ContentsKept`.

Only model-checked: the liveness properties (`StartReturns`, `ServesEveryone`, `AcceptsEveryone`, `ShutsDown`,
`Terminates`), as fairness and `ENABLED` are outside what the provers do. Every other property of a passing run is
the conclusion of a theorem.

## Not modelled

- **Third-party code and tests.** `thirdparty/` holds gtest and backward-cpp, more than nine tenths of the
  lines of the repository. The programs do not use them at run time. The
  programs themselves have about 2850 lines, many of them declarations, output and error texts.
- **Merging in `03-sort`** (`MultiFileHeap`, the file readers and writers, moves of `File`): `NothingIsMerged` proves that
  `extsort()` never gets there, so no state of it is one the program can be in. Its slips
  (`pop()` reads `back.value` after `pop_heap()` moved it; a moved `File` keeps
  its `FILE*`) show only once the reading loop is mended.
- **Lost output of `fclose()`**, whose result is ignored: the model takes `fwrite()` as final.
- **Calls that the interfaces exclude**: `sched()`, `yield()`, `cread()`, `cwrite()` outside of `start()`, the handle of
  an ended coroutine, iterators whose node was deleted. The code follows null or deleted pointers at once.
- **`do_read_task()` without `return`**: the outcome in which it returns is modelled; with another one
  nothing can be said of the program.
- **Engine and stack together**: `StackSwap` lets control go to any live context, which includes
  every choice of the engine; a composition would have fewer behaviours, not others.
- **Set-up of the chat server** (`create_and_bind_socket()` and its error exits): straight-line code before
  the first event. More than `MAXEVENTS` events at once only split a batch. `epoll_ctl()` fails only on a closed socket.
- **Allocator**: copies of `Pointer` objects that outlive a `free()`, and sizes that are not whole words (they are rounded up).
- **Skip list**: destructor, `gvdump()`, which only prints, and who owns the copies of keys.
- **LD_PRELOAD example**: one function without state.
