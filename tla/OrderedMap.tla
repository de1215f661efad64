----------------------------- MODULE OrderedMap -----------------------------
(***************************************************************************)
(* What the skip list of homework/02-skiplist promises: a map from keys to  *)
(* values, and an iterator that goes through the keys in ascending order    *)
(* while the map changes.                                                  *)
(***************************************************************************)
EXTENDS Integers

CONSTANTS
  Key,     \* keys, which are integers; Less is < on them
  Value,   \* addresses of values
  NULL,    \* nullptr, no value
  Tail     \* where the iterator cend() stands, no key

VARIABLES
  map,      \* the value of every key, NULL for those without
  it,       \* where the iterator stands, NULL when there is none
  result    \* what the latest call returned

mvars == <<map, it, result>>

Present(m) == {k \in Key : m[k] # NULL}

\* The least key of S, Tail if it is empty.
First(S) == IF S = {} THEN Tail ELSE CHOOSE k \in S : \A j \in S : k <= j

MapInit ==
  /\ map = [k \in Key |-> NULL]
  /\ it = NULL
  /\ result = NULL

\* Put() returns the value the key had.
MapPut(k, v) ==
  /\ map' = [map EXCEPT ![k] = v]
  /\ result' = map[k]
  /\ UNCHANGED it

\* PutIfAbsent() returns the value the key has and leaves it alone.
MapPutIfAbsent(k, v) ==
  /\ map' = IF map[k] = NULL THEN [map EXCEPT ![k] = v] ELSE map
  /\ result' = map[k]
  /\ UNCHANGED it

MapGet(k) ==
  /\ result' = map[k]
  /\ UNCHANGED <<map, it>>

\* Delete() returns the value the key had; an iterator on it is no longer valid.
MapDelete(k) ==
  /\ map' = [map EXCEPT ![k] = NULL]
  /\ result' = map[k]
  /\ it' = IF it = k THEN NULL ELSE it

MapFind(k) ==
  /\ it' = First({j \in Present(map) : k <= j})
  /\ UNCHANGED <<map, result>>

MapBegin ==
  /\ it' = First(Present(map))
  /\ UNCHANGED <<map, result>>

MapAdvance ==
  /\ it \in Key
  /\ it' = First({j \in Present(map) : it < j})
  /\ UNCHANGED <<map, result>>

MapRead ==
  /\ it \in Key
  /\ result' = map[it]
  /\ UNCHANGED <<map, it>>

MapNext ==
  \/ \E k \in Key, v \in Value : MapPut(k, v) \/ MapPutIfAbsent(k, v)
  \/ \E k \in Key : MapGet(k) \/ MapDelete(k) \/ MapFind(k)
  \/ MapBegin \/ MapAdvance \/ MapRead

MapSpec == MapInit /\ [][MapNext]_mvars
=============================================================================
