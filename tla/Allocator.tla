----------------------------- MODULE Allocator ------------------------------
(***************************************************************************)
(* The allocator of homework/01-allocator: a chunk of memory words with a   *)
(* list of nodes, each a head and the words behind it, that starts at the   *)
(* bottom, and a table of slots, one for each Pointer, that grows down from *)
(* the top.  One step is one call.                                          *)
(*                                                                         *)
(* A word is what was last written to it: the head of a node, a slot or     *)
(* data of a user.  Where the code takes a word for a head that is none, or *)
(* leaves the chunk, what follows is undefined and the model stops.         *)
(***************************************************************************)
EXTENDS Integers, FiniteSets

CONSTANTS
  Words,    \* words of the chunk, size / sizeof(size_t)
  Handle,   \* objects of class Pointer
  Sizes,    \* sizes asked for, in words
  MaxSince, \* bound: calls followed from the first one that the allocator
            \* does not cope with
  NULL

ASSUME WordsAssumption == Words \in Nat /\ Words >= 3   \* the constructor throws otherwise
ASSUME SizesAssumption == Sizes \subseteq Nat /\ MaxSince \in Nat /\ NULL \notin Handle

VARIABLES
  heap,      \* the chunk, last_node, ptr_first and whether all is defined
  inner,     \* inner_ptr of a Pointer, or none
  size,      \* words its user asked for
  written,   \* how many of them, from the first, the user has written
  since      \* calls since the allocator met what it does not cope with, that one
             \* included; 0 before

vars == <<heap, inner, size, written, since>>

none == -1
wild == -2
Place == 0..(Words - 1)

Head(used, len) == [used |-> used, len |-> len]
Slot(node) == [node |-> node]
Data(h) == [of |-> h]
Zero == Head(FALSE, 0)   \* a slot that holds nullptr

IsHead(w) == DOMAIN w = {"used", "len"}
IsSlot(w) == DOMAIN w = {"node"}

Word == [used : BOOLEAN, len : Nat] \cup [node : Place] \cup [of : Handle \cup {NULL}]

TypeOK ==
  /\ heap \in [word : [Place -> Word], last : Nat, first : 0..Words, ok : BOOLEAN]
  /\ inner \in [Handle -> Place \cup {none}]
  /\ size \in [Handle -> Nat]
  /\ since \in 0..MaxSince
  /\ written \in [Handle -> Nat] /\ \A p \in Handle : written[p] <= size[p]

\* The first node is said to have all words, its own head included.
Init ==
  /\ heap = [word |-> [a \in Place |-> IF a = 0 THEN Head(FALSE, Words) ELSE Data(NULL)],
             last |-> 0, first |-> Words, ok |-> TRUE]
  /\ inner = [p \in Handle |-> none]
  /\ size = [p \in Handle |-> 0] /\ written = [p \in Handle |-> 0]
  /\ since = 0

-----------------------------------------------------------------------------
(* Nodes of a heap s                                                       *)

IsNode(s, a) == a \in Place /\ IsHead(s.word[a])
Used(s, a) == s.word[a].used
Length(s, a) == s.word[a].len
NextOf(s, a) == a + 1 + Length(s, a)

Broken(s) == [s EXCEPT !.ok = FALSE]

\* Writing word w to place a.
Put(s, a, w) == IF a \in Place THEN [s EXCEPT !.word[a] = w] ELSE Broken(s)

\* Where k steps from node to node lead; there is no step from a place without
\* a head.
Path(s) ==
  LET path[k \in 0..Words] ==
        IF k = 0 THEN 0
        ELSE LET a == path[k - 1] IN IF IsNode(s, a) THEN NextOf(s, a) ELSE a
  IN path

\* The first of the nodes goal on the way; wild if none of them is on it, which
\* then leads to a place without a head.
Seek(s, goal) ==
  LET path == Path(s)
      Met(k) == path[k] \in goal
  IN IF \A k \in 0..Words : ~ Met(k) THEN wild
     ELSE path[CHOOSE k \in 0..Words : Met(k) /\ \A j \in 0..(k - 1) : ~ Met(j)]

\* Mutant of Fits: it is enough that the head and the words have room.
FitsTight(s, a, n) == ~ Used(s, a) /\ Length(s, a) + 1 >= n

Fits(s, a, n) == ~ Used(s, a) /\ Length(s, a) >= n

\* find_free_node(): first fit, up to last_node.
find_free_node(s, n) ==
  LET a == Seek(s, {b \in Place : IsNode(s, b) /\ (Fits(s, b, n) \/ b = s.last)})
  IN IF a = wild THEN wild ELSE IF Fits(s, a, n) THEN a ELSE none

\* alloc_node(): n words of the node are used, the rest becomes a node, which
\* is joined with a free one behind it.
alloc_node(s, node, n) ==
  LET tail == node + n + 1
      rest == Length(s, node) - n
      after == tail + rest
      s1 == Put(s, tail, Head(FALSE, rest - 1))
      s2 == IF node = s.last THEN [s1 EXCEPT !.last = tail]
            ELSE IF ~ IsNode(s1, after) THEN Broken(s1)
            ELSE IF Used(s1, after) THEN s1
            ELSE Put(s1, tail, Head(FALSE, rest + Length(s1, after)))
  IN IF ~ IsNode(s, node) THEN Broken(s)
     ELSE Put(IF rest > 0 THEN s2 ELSE s, node, Head(TRUE, n))

\* Mutant of realloc_node: the words behind become a node even if none is left.
RestAlways(s, node, n) ==
  LET tail == node + n + 1
      rest == Length(s, node) + Length(s, NextOf(s, node)) - n
      s1 == Put(s, tail, Head(FALSE, rest - 1))
      s2 == IF NextOf(s, node) = s.last THEN [s1 EXCEPT !.last = tail] ELSE s1
  IN Put(s2, node, Head(TRUE, n))

\* realloc_node(): the node takes words of the free one behind it.  The rest
\* is one word short.
realloc_node(s, node, n) ==
  LET tail == node + n + 1
      rest == Length(s, node) + Length(s, NextOf(s, node)) - n
      s1 == Put(s, tail, Head(FALSE, rest - 1))
      s2 == IF NextOf(s, node) = s.last THEN [s1 EXCEPT !.last = tail] ELSE s1
  IN Put(IF rest > 0 THEN s2 ELSE s, node, Head(TRUE, n))

\* Mutant of JoinNext: last_node stays where it was.
JoinNextNotLast(s, node) ==
  LET next == NextOf(s, node) IN
  IF node = s.last THEN s
  ELSE IF ~ IsNode(s, next) THEN Broken(s)
  ELSE IF Used(s, next) THEN s
  ELSE Put(s, node, Head(FALSE, Length(s, node) + Length(s, next) + 1))

\* Mutant of JoinNext: nothing is joined.
JoinNextNever(s, node) == s

\* free_node(), the node behind: it is joined with a free one.
JoinNext(s, node) ==
  LET next == NextOf(s, node) IN
  IF node = s.last THEN s
  ELSE IF ~ IsNode(s, next) THEN Broken(s)
  ELSE IF Used(s, next) THEN s
  ELSE Put(IF next = s.last THEN [s EXCEPT !.last = node] ELSE s,
           node, Head(FALSE, Length(s, node) + Length(s, next) + 1))

\* free_node(): the node becomes free and is joined with its neighbours, but
\* the first node is not.
free_node(s, node) ==
  LET s1 == Put(s, node, Head(FALSE, Length(s, node)))
      prev == Seek(s1, {b \in Place : IsNode(s1, b) /\ NextOf(s1, b) = node})
      s2 == Put(IF node = s1.last THEN [s1 EXCEPT !.last = prev] ELSE s1,
                prev, Head(FALSE, Length(s1, prev) + Length(s1, node) + 1))
  IN IF ~ IsNode(s, node) THEN Broken(s)
     ELSE IF node = 0 THEN s1
     ELSE IF prev = wild THEN Broken(s1)
     ELSE IF Used(s1, prev) THEN JoinNext(s1, node) ELSE JoinNext(s2, prev)

-----------------------------------------------------------------------------
(* The table of slots                                                      *)

Largest(S) == CHOOSE a \in S : \A b \in S : b <= a
Slots(s) == s.first..(Words - 1)
Unused(s) == {a \in Slots(s) : s.word[a] = Zero}

\* place_ptr() without memory: no slot is unused and none can be added.
NoPlace(s) == Unused(s) = {} /\ Used(s, s.last)

\* place_ptr() leaves the chunk: last_node has no head, or the table has taken
\* all of the memory.
PlaceAstray(s) ==
  Unused(s) = {} /\ (~ IsNode(s, s.last) \/ (~ Used(s, s.last) /\ s.first = 0))

\* place_ptr(): the table takes a word of the last node if it has one.
place_ptr(s) ==
  IF Unused(s) # {} THEN s
  ELSE LET s1 == IF Length(s, s.last) > 0
                 THEN Put(s, s.last, Head(FALSE, Length(s, s.last) - 1)) ELSE s
       IN Put([s1 EXCEPT !.first = @ - 1], s.first - 1, Zero)

\* squeze_ptrs(): unused slots at the bottom of the table go to the last node.
squeze_ptrs(s) ==
  LET held == Slots(s) \ Unused(s)
      first == CHOOSE a \in s.first..Words :
                 /\ a = Words \/ a \in held
                 /\ \A b \in s.first..(a - 1) : b \notin held
      n == first - s.first
      s1 == [s EXCEPT !.first = first]
  IN IF ~ IsNode(s, s.last) THEN Broken(s)
     ELSE IF Used(s, s.last) /\ n > 0
     THEN Put([s1 EXCEPT !.last = NextOf(s, s.last)], NextOf(s, s.last), Head(FALSE, n))
     ELSE Put(s1, s.last, Head(Used(s, s.last), Length(s, s.last) + n))

-----------------------------------------------------------------------------
(* Calls                                                                   *)

Least(m, n) == IF m < n THEN m ELSE n

\* What the allocator does not cope with: alloc_node() that takes the last word
\* of the last node, or the last but one, or joins a rest with the last node;
Overtakes(s, node, n) ==
  \/ node = s.last /\ Length(s, node) <= n + 1
  \/ node # s.last /\ Length(s, node) > n /\ NextOf(s, node) = s.last

\* and a table that grows over the last word of the last node.
Overgrows(s) == Unused(s) = {} /\ Length(s, s.last) <= 1

Undisturbed == since = 0
Following == heap.ok /\ since < MaxSince
After(met) == since' = IF Undisturbed /\ ~ met THEN 0 ELSE since + 1

\* The node behind a Pointer, and whether there is a head where it is taken from.
NodeOf(p) == heap.word[inner[p]].node
HasNode(p) == inner[p] # none /\ IsSlot(heap.word[inner[p]]) /\ IsNode(heap, NodeOf(p))

\* Pointer::get() returns a block: its node must have the used flag, too.
Gets(p) == HasNode(p) /\ Used(heap, NodeOf(p))

\* free() or realloc() of a Pointer whose slot or node was overwritten.
Lost(p) ==
  /\ Following /\ inner[p] # none /\ ~ HasNode(p)
  /\ heap' = Broken(heap)
  /\ UNCHANGED <<inner, size, written>> /\ After(FALSE)

\* alloc(n); without memory it throws, and keeps the slot for the next time.
Alloc(p, n) ==
  /\ Following /\ inner[p] = none /\ n > 0
  /\ IF PlaceAstray(heap)
     THEN heap' = Broken(heap) /\ UNCHANGED <<inner, size, written>> /\ After(FALSE)
     ELSE /\ ~ NoPlace(heap)
          /\ LET s == place_ptr(heap)
                 slot == Largest(Unused(s))
                 node == find_free_node(s, n)
             IN IF node \in {none, wild}
                THEN /\ heap' = IF node = wild THEN Broken(s) ELSE s
                     /\ After(Overgrows(heap))
                     /\ UNCHANGED <<inner, size, written>>
                ELSE /\ heap' = alloc_node(Put(s, slot, Slot(node)), node, n)
                     /\ inner' = [inner EXCEPT ![p] = slot]
                     /\ size' = [size EXCEPT ![p] = n]
                     /\ written' = [written EXCEPT ![p] = 0]
                     /\ After(Overgrows(heap) \/ Overtakes(s, node, n))

\* What the user of a Pointer that is not empty knows after realloc(n).
Resized(p, n) ==
  /\ size' = [size EXCEPT ![p] = n]
  /\ written' = [written EXCEPT ![p] = Least(@, n)]
  /\ UNCHANGED inner

Shrink(p, n) ==
  /\ Following /\ HasNode(p) /\ Length(heap, NodeOf(p)) >= n
  /\ heap' = alloc_node(heap, NodeOf(p), n)
  /\ After(Overtakes(heap, NodeOf(p), n))
  /\ Resized(p, n)

\* The node behind has the words that a block needs in order to grow.
CanExpand(node, n) ==
  /\ node # heap.last
  /\ LET next == NextOf(heap, node) IN
     /\ IsNode(heap, next) /\ ~ Used(heap, next)
     /\ Length(heap, node) + Length(heap, next) + 1 >= n

\* realloc() looks behind its node and finds no head there.
Astray(node) == node # heap.last /\ ~ IsNode(heap, NextOf(heap, node))

Expand(p, n) ==
  /\ Following /\ HasNode(p) /\ Length(heap, NodeOf(p)) < n
  /\ LET node == NodeOf(p) IN
     /\ CanExpand(node, n)
     /\ n <= Length(heap, node) + Length(heap, NextOf(heap, node))
     /\ heap' = realloc_node(heap, node, n)
  /\ After(TRUE)
  /\ Resized(p, n)

\* setUsage(false) on any word.
Unflagged(w) == IF IsHead(w) THEN Head(FALSE, w.len) ELSE IF IsSlot(w) THEN w ELSE Data(NULL)

\* One word more: the length of the rest wraps around, and setLength() throws
\* after setUsage() cleared the flag of what is behind.
ExpandThrows(p, n) ==
  /\ Following /\ HasNode(p) /\ Length(heap, NodeOf(p)) < n
  /\ LET node == NodeOf(p)
         tail == node + n + 1 IN
     /\ CanExpand(node, n)
     /\ n > Length(heap, node) + Length(heap, NextOf(heap, node))
     /\ heap' = IF tail \in Place THEN Put(heap, tail, Unflagged(heap.word[tail]))
                ELSE Broken(heap)
  /\ After(TRUE)
  /\ UNCHANGED <<inner, size, written>>

\* memcpy() and memmove() of n words.
Copied(s, from, to, n) ==
  IF n = 0 THEN s
  ELSE IF ~ {to, to + n - 1} \subseteq Place THEN Broken(s)
  ELSE [s EXCEPT !.word =
          [a \in Place |-> IF a \notin to..(to + n - 1) THEN @[a]
                           ELSE IF from + a - to \in Place THEN @[from + a - to]
                           ELSE Data(NULL)]]

\* The block moves to a new node, and as many words as are asked for with it.
Move(p, n) ==
  /\ Following /\ HasNode(p) /\ Length(heap, NodeOf(p)) < n
  /\ LET node == NodeOf(p)
         dst == find_free_node(heap, n)
         s1 == Copied(heap, node + 1, dst + 1, n)
         s2 == Put(s1, dst, Head(TRUE, Length(heap, dst)))
         s3 == free_node(s2, node) IN
     /\ ~ CanExpand(node, n) /\ (Astray(node) \/ dst # none)
     /\ IF Astray(node) \/ dst = wild
        THEN heap' = Broken(heap) /\ UNCHANGED <<inner, size, written>> /\ After(FALSE)
        ELSE /\ heap' = Put(alloc_node(s3, dst, n), inner[p], Slot(dst))
             /\ After(Overtakes(s3, dst, n))
             /\ Resized(p, n)

Free(p) ==
  /\ Following /\ HasNode(p)
  /\ heap' = squeze_ptrs(Put(free_node(heap, NodeOf(p)), inner[p], Zero))
  /\ inner' = [inner EXCEPT ![p] = none]
  /\ size' = [size EXCEPT ![p] = 0]
  /\ written' = [written EXCEPT ![p] = 0]
  /\ After(FALSE)

\* Mutant of Moved: the head is not counted among the words that move.
MovedShort(s, src, dst) ==
  LET s1 == Copied(s, src, dst, Length(s, src) - 1)
      held == {a \in Slots(s1) : s1.word[a] = Slot(src)}
      slot == CHOOSE a \in held : \A b \in held : a <= b
  IN IF held = {} THEN Broken(s1) ELSE Put(s1, slot, Slot(dst))

\* defrag(), one used node: its words move from src to dst, and so does the
\* first slot with its place.
Moved(s, src, dst) ==
  LET s1 == Copied(s, src, dst, Length(s, src))
      held == {a \in Slots(s1) : s1.word[a] = Slot(src)}
      slot == CHOOSE a \in held : \A b \in held : a <= b
  IN IF held = {} THEN Broken(s1) ELSE Put(s1, slot, Slot(dst))

\* defrag(), the loop over the nodes up to last_node.
Compact ==
  LET pass[k \in 0..Words] ==
        IF k = 0 THEN [s |-> heap, src |-> 0, dst |-> 0]
        ELSE LET r == pass[k - 1]
                 moved == Moved(r.s, r.src, r.dst) IN
             IF ~ r.s.ok \/ r.src > r.s.last THEN r
             ELSE IF ~ IsNode(r.s, r.src) THEN [r EXCEPT !.s = Broken(r.s)]
             ELSE IF ~ Used(r.s, r.src) THEN [r EXCEPT !.src = NextOf(r.s, r.src)]
             ELSE IF ~ moved.ok \/ ~ IsNode(moved, r.dst) THEN [r EXCEPT !.s = Broken(r.s)]
             ELSE [s |-> moved, src |-> NextOf(r.s, r.src), dst |-> NextOf(moved, r.dst)]
  IN pass[Words]

\* The head behind the one at dst gets the words up to the table; last_node
\* stays where it is.
Defrag ==
  /\ Following
  /\ LET s == Compact.s
         dst == Compact.dst IN
     heap' = IF ~ s.ok \/ s.first <= dst THEN s
             ELSE IF ~ IsNode(s, dst) THEN Broken(s)
             ELSE Put(s, NextOf(s, dst), Head(FALSE, s.first - dst - 1))
  /\ After(TRUE)
  /\ UNCHANGED <<inner, size, written>>

\* The user of a Pointer writes the words of its block, as get() returns it.
Write(p) ==
  /\ Following /\ Gets(p) /\ written[p] < size[p]
  /\ LET a == NodeOf(p) IN
     heap' = IF a + size[p] \notin Place THEN Broken(heap)
             ELSE [heap EXCEPT !.word =
                     [b \in Place |-> IF b \in (a + 1)..(a + size[p]) THEN Data(p) ELSE @[b]]]
  /\ written' = [written EXCEPT ![p] = size[p]]
  /\ UNCHANGED <<inner, size>> /\ After(FALSE)

Next ==
  \/ \E p \in Handle :
       \/ \E n \in Sizes : \/ Alloc(p, n) \/ Shrink(p, n) \/ Expand(p, n)
                           \/ ExpandThrows(p, n) \/ Move(p, n)
       \/ Free(p) \/ Write(p) \/ Lost(p)
  \/ Defrag

Spec == Init /\ [][Next]_vars

-----------------------------------------------------------------------------
(* Properties                                                              *)

\* The nodes from the first one to last_node.
Nodes ==
  LET path == Path(heap)
  IN {path[k] : k \in {i \in 0..Words : \A j \in 0..(i - 1) : path[j] # heap.last}}

\* Until the allocator meets what it does not cope with, the nodes cover the
\* chunk up to the table and one word beyond, and last_node is the last of them
\* and free: nobody walks past the end of the list.
NodesTile ==
  Undisturbed =>
    /\ heap.ok /\ heap.last \in Nodes
    /\ \A a \in Nodes : IsNode(heap, a)
    /\ ~ Used(heap, heap.last)
    /\ NextOf(heap, heap.last) = heap.first + 1

\* Until then each block has a used node and a slot of its own, lies below the
\* table and holds what its user wrote, wherever realloc() moved it.
BlocksKept ==
  Undisturbed => \A p \in Handle : inner[p] # none =>
    /\ HasNode(p) /\ NodeOf(p) \in Nodes /\ Used(heap, NodeOf(p))
    /\ Length(heap, NodeOf(p)) = size[p] /\ NodeOf(p) + size[p] < heap.first
    /\ \A i \in 1..written[p] : heap.word[NodeOf(p) + i] = Data(p)

\* Until then no two free nodes are neighbours, but for the first one, and every
\* used node belongs to a block: nothing leaks.
FreeNodesJoined ==
  Undisturbed => \A a \in Nodes \ {heap.last} :
    /\ ~ Used(heap, a) /\ a # 0 => Used(heap, NextOf(heap, a))
    /\ Used(heap, a) => \E p \in Handle : inner[p] # none /\ NodeOf(p) = a

\* The call wrote over the slot of p: over the lowest one, where a block took the
\* last words of the last node; or defrag() did, whose last write goes behind
\* the head that it finds at the end of the blocks.
SlotLost(p) ==
  /\ heap'.word[inner[p]] # heap.word[inner[p]]
  /\ \/ /\ inner[p] = heap.first /\ IsNode(heap', heap.last)
        /\ Used(heap', heap.last) /\ NextOf(heap', heap.last) >= heap.first
     \/ Defrag /\ ~ IsSlot(heap'.word[inner[p]])

\* The call was a realloc() that threw, which cleared the used flag of the block
\* at p: get() throws for it from then on.
FlagLost(p) ==
  \E q \in Handle, n \in Sizes : ExpandThrows(q, n) /\ NodeOf(p) = NodeOf(q) + n + 1

\* The words that the call is to keep: those written that the block still has.
\* defrag() leaves the last word of every node behind.
KeptWords(p) ==
  IF Defrag THEN Least(written[p], size[p] - 1) ELSE Least(written[p], written'[p])

\* Every call until then, and the one that the allocator does not cope with too,
\* keeps the blocks that there are: get() still finds them, with what users
\* wrote.  There are four exceptions, all of them errors of the code: the last
\* word of a node at defrag(); a block whose slot the call wrote over; the block
\* behind a failed realloc(), whose words are kept, but get() throws; and
\* nothing is said of a defrag() that meets a block without words, which
\* realloc() to 0 leaves: the head of such a block is not moved, and the loop
\* goes on from what is there.
CallsKeepContents ==
  [][Undisturbed /\ heap'.ok
       /\ (Defrag => \A p \in Handle : inner[p] # none => size[p] > 0) =>
       \A p \in Handle : inner[p] # none /\ inner'[p] = inner[p] =>
         \/ /\ Gets(p)' \/ (FlagLost(p) /\ HasNode(p)')
            /\ \A i \in 1..KeptWords(p) : heap'.word[NodeOf(p)' + i] = Data(p)
         \/ SlotLost(p)]_vars
=============================================================================
