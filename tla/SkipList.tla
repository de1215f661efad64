------------------------------ MODULE SkipList ------------------------------
(***************************************************************************)
(* The skip list of homework/02-skiplist, down to the steps of the loops of *)
(* search().                                                               *)
(*                                                                         *)
(* Layer 0 are the data nodes, layer l > 0 the index nodes of aHeadIdx[l-1];*)
(* match_at is moved likewise, 0 stands for -1.  A node is identified by    *)
(* its layer and its key, Head and Tail; next[l][n] = NULL says that it     *)
(* does not exist.  pDown of an index node is the node of the same key one  *)
(* layer below, pRoot the data node.                                       *)
(***************************************************************************)
EXTENDS Integers

CONSTANTS
  Key,         \* keys; Less is < on them
  Value,       \* addresses of values
  NULL,        \* nullptr
  Head,        \* pHead and the nodes aHeadIdx[] above it
  Tail,        \* pTail and pTailIdx
  MAXHEIGHT    \* the number of index layers

ASSUME KeyAssumption == Key \subseteq Int
ASSUME SentinelAssumption ==
  /\ NULL \notin Key \cup Value \cup {Head, Tail}
  /\ Head \notin Key /\ Tail \notin Key \cup {Head}
ASSUME HeightAssumption == MAXHEIGHT \in Nat \ {0}

VARIABLES
  next,       \* pNext of the nodes of each layer
  value,      \* pValue of the data nodes
  op,         \* the call being executed
  key,        \* its parameter key
  val,        \* the address of its parameter value
  layer,      \* where search() is, -1 when it returns
  cur,        \* prevIdx, and on the data layer prev
  aIdx,       \* the path; aIdx[0] is its pData
  match_at,   \* the highest layer on which the key was met
  it,         \* pCurrent of an iterator, NULL when there is none
  result      \* what the latest call returned

list == <<next, value>>
call == <<op, key, val>>
path == <<layer, cur, aIdx, match_at>>
vars == <<list, call, path, it, result>>

Layer == 0..MAXHEIGHT
Node == Key \cup {Head}
Ops == {"Put", "PutIfAbsent", "Get", "Delete", "cfind"}

TypeOK ==
  /\ next \in [Layer -> [Node -> Key \cup {Tail, NULL}]]
  /\ value \in [Node -> Value \cup {NULL}]
  /\ op \in Ops \cup {"none"}
  /\ key \in Key \cup {NULL} /\ (op # "none" => key \in Key)
  /\ val \in Value \cup {NULL} /\ (op \in {"Put", "PutIfAbsent"} => val \in Value)
  /\ layer \in Layer \cup {-1}
  /\ cur \in Node
  /\ aIdx \in [Layer -> Node \cup {NULL}]
  /\ match_at \in Layer
  /\ it \in Key \cup {Tail, NULL}
  /\ result \in Value \cup {NULL}

NoPath == [l \in Layer |-> NULL]

Init ==
  /\ next = [l \in Layer |-> [n \in Node |-> IF n = Head THEN Tail ELSE NULL]]
  /\ value = [n \in Node |-> NULL]
  /\ op = "none" /\ key = NULL /\ val = NULL
  /\ layer = MAXHEIGHT /\ cur = Head /\ aIdx = NoPath /\ match_at = 0
  /\ it = NULL /\ result = NULL

-----------------------------------------------------------------------------
(* search()                                                                *)

\* A call of an operation, which begins with search().
Call(o, k, v) ==
  /\ op = "none"
  /\ op' = o /\ key' = k /\ val' = v
  /\ UNCHANGED <<list, path, it, result>>

Searching == op # "none" /\ layer >= 0

\* Mutant of Before: <= for <.
BeforeOrAt(n, k) == n # Tail /\ n <= k

\* The condition of both do-while loops on the node n reached.
Before(n, k) == n # Tail /\ n < k

Matches(n, k) == n # Tail /\ ~ Before(n, k) /\ ~ k < n

MoveForward ==
  /\ Searching
  /\ Before(next[layer][cur], key)
  /\ cur' = next[layer][cur]
  /\ UNCHANGED <<list, call, layer, aIdx, match_at, it, result>>

\* Mutant of MatchAfter: a lower match replaces the one found before.
MatchAfterLast == IF layer > 0 /\ Matches(next[layer][cur], key) THEN layer ELSE match_at

\* Mutant of MatchAfter: one layer too high.
MatchAfterAbove ==
  IF match_at = 0 /\ layer > 0 /\ Matches(next[layer][cur], key) THEN layer + 1 ELSE match_at

\* The highest layer of the first match; the data layer does not count.
MatchAfter ==
  IF match_at = 0 /\ layer > 0 /\ Matches(next[layer][cur], key) THEN layer ELSE match_at

MoveDown ==
  /\ Searching
  /\ ~ Before(next[layer][cur], key)
  /\ aIdx' = [aIdx EXCEPT ![layer] = cur]
  /\ match_at' = MatchAfter
  /\ layer' = layer - 1
  /\ UNCHANGED <<list, call, cur, it, result>>

\* search() returned.
Searched(o) == op = o /\ layer = -1

pData == aIdx[0]
Found == match_at > 0 \/ Matches(next[0][pData], key)

\* The operation returns; the path is gone.
Return(value_returned) ==
  /\ op' = "none" /\ key' = NULL /\ val' = NULL
  /\ layer' = MAXHEIGHT /\ cur' = Head /\ aIdx' = NoPath /\ match_at' = 0
  /\ result' = value_returned

-----------------------------------------------------------------------------
(* The operations                                                          *)

\* Mutant of Linked: the data node is not linked on the lowest index layer
\* although it is above it.
LinkedAbove(h) ==
  [l \in Layer |->
     IF l <= h /\ (l # 1 \/ h = 1)
     THEN [next[l] EXCEPT ![key] = next[l][aIdx[l]], ![aIdx[l]] = key]
     ELSE next[l]]

\* put_new(): the data node and h index nodes above it.
Linked(h) ==
  [l \in Layer |->
     IF l <= h THEN [next[l] EXCEPT ![key] = next[l][aIdx[l]], ![aIdx[l]] = key]
     ELSE next[l]]

put_new(h) ==
  /\ ~ Found
  /\ next' = Linked(h)
  /\ value' = [value EXCEPT ![key] = val]
  /\ Return(NULL)
  /\ UNCHANGED it

\* Put() of a key that is there: it returns the old value and assigns the new
\* one to the node before.
PutReplace ==
  /\ Searched("Put") /\ Found
  /\ value' = [value EXCEPT ![pData] = val]
  /\ Return(value[next[0][pData]])
  /\ UNCHANGED <<next, it>>

\* flip() is true h times.
PutNew(h) == Searched("Put") /\ put_new(h)

PutIfAbsent(h) == Searched("PutIfAbsent") /\ put_new(h)

PutIfAbsentFinds ==
  /\ Searched("PutIfAbsent") /\ Found
  /\ Return(value[next[0][pData]])
  /\ UNCHANGED <<list, it>>

Get ==
  /\ Searched("Get")
  /\ Return(IF Found THEN value[next[0][pData]] ELSE NULL)
  /\ UNCHANGED <<list, it>>

\* Mutant of Unlinked: the highest index node stays.
UnlinkedBelow ==
  [l \in Layer |->
     IF l = 0 \/ l < match_at
     THEN [next[l] EXCEPT ![next[l][aIdx[l]]] = NULL, ![aIdx[l]] = next[l][next[l][aIdx[l]]]]
     ELSE next[l]]

\* delIdx() of what follows the path on the layers up to match_at, and delData().
Unlinked ==
  [l \in Layer |->
     IF l <= match_at
     THEN [next[l] EXCEPT ![next[l][aIdx[l]]] = NULL, ![aIdx[l]] = next[l][next[l][aIdx[l]]]]
     ELSE next[l]]

\* The iterator on the deleted node is not used any more.
Delete ==
  /\ Searched("Delete") /\ Found
  /\ LET data == next[0][pData] IN
     /\ next' = Unlinked
     /\ value' = [value EXCEPT ![data] = NULL]
     /\ Return(value[data])
     /\ it' = IF it = data THEN NULL ELSE it

DeleteAbsent ==
  /\ Searched("Delete") /\ ~ Found
  /\ Return(NULL)
  /\ UNCHANGED <<list, it>>

cfind ==
  /\ Searched("cfind")
  /\ it' = next[0][pData]
  /\ Return(result)
  /\ UNCHANGED list

cbegin ==
  /\ op = "none"
  /\ it' = next[0][Head]
  /\ UNCHANGED <<list, call, path, result>>

\* operator++ and value() of an iterator before the end.
Increment ==
  /\ op = "none" /\ it \in Key
  /\ it' = next[0][it]
  /\ UNCHANGED <<list, call, path, result>>

Dereference ==
  /\ op = "none" /\ it \in Key
  /\ result' = value[it]
  /\ UNCHANGED <<list, call, path, it>>

Step ==
  \/ MoveForward \/ MoveDown
  \/ \E h \in Layer : PutNew(h) \/ PutIfAbsent(h)
  \/ PutReplace \/ PutIfAbsentFinds \/ Get \/ Delete \/ DeleteAbsent \/ cfind

Next ==
  \/ \E k \in Key :
       \/ \E o \in {"Put", "PutIfAbsent"}, v \in Value : Call(o, k, v)
       \/ \E o \in {"Get", "Delete", "cfind"} : Call(o, k, NULL)
  \/ Step
  \/ cbegin \/ Increment \/ Dereference

Spec == Init /\ [][Next]_vars

-----------------------------------------------------------------------------
(* Properties                                                              *)

On(l) == {n \in Node : next[l][n] # NULL}

Precedes(m, n) ==
  IF m = Head THEN n # Head ELSE m # Tail /\ (n = Tail \/ (n # Head /\ m < n))

\* Each layer is the list of its nodes in ascending order, without a gap: no
\* node of the layer lies between a node and its successor.
LayerSorted(l) ==
  /\ Head \in On(l)
  /\ \A n \in On(l) :
       /\ next[l][n] \in On(l) \cup {Tail}
       /\ Precedes(n, next[l][n])
       /\ \A m \in On(l) : ~ (Precedes(n, m) /\ Precedes(m, next[l][n]))

\* The towers are complete: what is on a layer is on the layer below, so pDown
\* and pRoot lead to nodes that exist, and just the data nodes have values.
TowersComplete ==
  /\ \A l \in Layer : l > 0 => On(l) \subseteq On(l - 1)
  /\ \A k \in Key : value[k] # NULL <=> k \in On(0)

\* The skip list stays well formed under all operations, for all heights.
WellFormed == (\A l \in Layer : LayerSorted(l)) /\ TowersComplete

\* The path holds the predecessor of the key on layer l, and match_at tells
\* whether the key is there.
PathDone(l) ==
  /\ aIdx[l] \in On(l) /\ Precedes(aIdx[l], key)
  /\ ~ Precedes(next[l][aIdx[l]], key)
  /\ l > 0 => (l <= match_at <=> key \in On(l))

\* When search() returns it found the key if and only if it is in the list, its
\* path holds the predecessors of the key on all layers, and match_at is the
\* height of its tower: so put_new() and Delete() relink each layer correctly.
SearchExact ==
  op # "none" /\ layer = -1 =>
    /\ Found <=> key \in On(0)
    /\ \A l \in Layer : PathDone(l)

M == INSTANCE OrderedMap WITH map <- [k \in Key |-> value[k]]

\* Apart from Put() of a key that is there, every call does what it does on a
\* map, and iterators visit all keys that are there in ascending order while
\* others come and go.
MapExceptReplace == M!MapInit /\ [][M!MapNext \/ PutReplace]_<<value, it, result>>

-----------------------------------------------------------------------------
(* What a comment says and the code does not do                            *)

\* Put() assigns the new value for the key: "if a such key already has
\* association then old value returns, otherwise nullptr".
ImplementsMap == M!MapSpec
=============================================================================
