------------------------------ MODULE LRUCache ------------------------------
(***************************************************************************)
(* The LRU cache of lru/src/lib.rs: an array of N optional nodes threaded  *)
(* into a doubly linked list (most recently used first), a hash map from   *)
(* keys to array indices and a stack of free indices.  One action per      *)
(* public operation.  The code reads and writes nodes with get_unchecked   *)
(* and unwrap_unchecked, so a call is only defined when every node it      *)
(* touches is present: UncheckedAccessesDefined says that it always is.    *)
(***************************************************************************)
EXTENDS Integers, Sequences, FiniteSets

CONSTANTS
  Keys,    \* K, the key type
  Values,  \* V, the value type
  N,       \* the const generic capacity
  None     \* Option::None

\* _ASSERT_NONZERO
ASSUME CapacityAssumption == N \in Nat \ {0}

VARIABLES
  cache,   \* the LRUCache struct
  ret      \* what the last call returned

vars == <<cache, ret>>

Slots == 0..(N - 1)

Link == Slots \cup {None}

Node == [key : Keys, value : Values, prev : Link, next : Link]

\* Option::None is neither an index nor a node.
ASSUME NoneAssumption == None \notin Slots /\ None \notin Node

Result(op, hit, entry) == [op |-> op, hit |-> hit, entry |-> entry]

Entry(k, v) == [key |-> k, value |-> v]

EntryAt(c, i) == Entry(c.nodes[i].key, c.nodes[i].value)

\* self.map.len()
MapLen(c) == Cardinality({k \in Keys : c.map[k] # None})

-----------------------------------------------------------------------------
(* nodes[i].next := x and nodes[i].prev := x, when i is Some index         *)

SetNext(nodes, i, x) ==
  IF i = None THEN nodes ELSE [nodes EXCEPT ![i] = [@ EXCEPT !.next = x]]

SetPrev(nodes, i, x) ==
  IF i = None THEN nodes ELSE [nodes EXCEPT ![i] = [@ EXCEPT !.prev = x]]

-----------------------------------------------------------------------------
(* new and new_boxed                                                       *)

NewCache ==
  [nodes |-> [i \in Slots |-> None],
   map |-> [k \in Keys |-> None],
   free_list |-> [i \in 1..N |-> N - i],
   head |-> None,
   tail |-> None]

Init ==
  /\ cache = NewCache
  /\ ret = Result("new", FALSE, None)

-----------------------------------------------------------------------------
(* The private steps, as functions of the struct                           *)

\* A plausible slip: get and a duplicate put do not count as a use.
StayInPlace(c, i) == c

\* A plausible slip: the tail is not moved when the last node goes to front.
MoveToFrontKeepingTail(c, i) ==
  IF c.head = i THEN c ELSE
  LET p == c.nodes[i].prev
      n == c.nodes[i].next
      unlinked == SetPrev(SetNext(c.nodes, p, n), n, p)
      moved == [unlinked EXCEPT ![i] = [@ EXCEPT !.prev = None, !.next = c.head]]
  IN  [c EXCEPT !.nodes = SetPrev(moved, c.head, i), !.head = i]

MoveToFront(c, i) ==
  IF c.head = i THEN c ELSE
  LET p == c.nodes[i].prev
      n == c.nodes[i].next
      unlinked == SetPrev(SetNext(c.nodes, p, n), n, p)
      moved == [unlinked EXCEPT ![i] = [@ EXCEPT !.prev = None, !.next = c.head]]
  IN  [nodes |-> SetPrev(moved, c.head, i),
       map |-> c.map,
       free_list |-> c.free_list,
       head |-> i,
       tail |-> IF n = None THEN p ELSE c.tail]

\* A plausible slip: the wrong end of the list is evicted.
EvictHead(c) ==
  IF c.head = None THEN c ELSE
  LET n == c.nodes[c.head].next
  IN  [nodes |-> SetPrev([c.nodes EXCEPT ![c.head] = None], n, None),
       map |-> [c.map EXCEPT ![c.nodes[c.head].key] = None],
       free_list |-> Append(c.free_list, c.head),
       head |-> n,
       tail |-> IF n = None THEN None ELSE c.tail]

Evict(c) ==
  IF c.tail = None THEN c ELSE
  LET p == c.nodes[c.tail].prev
  IN  [nodes |-> SetNext([c.nodes EXCEPT ![c.tail] = None], p, None),
       map |-> [c.map EXCEPT ![c.nodes[c.tail].key] = None],
       free_list |-> Append(c.free_list, c.tail),
       head |-> IF p = None THEN None ELSE c.head,
       tail |-> p]

\* The part of put after the eviction: the new node takes a free slot and
\* becomes the head.
InsertFront(c, k, v) ==
  LET i == c.free_list[Len(c.free_list)]
      node == [key |-> k, value |-> v, prev |-> None, next |-> c.head]
  IN  [nodes |-> SetPrev([c.nodes EXCEPT ![i] = node], c.head, i),
       map |-> [c.map EXCEPT ![k] = i],
       free_list |-> SubSeq(c.free_list, 1, Len(c.free_list) - 1),
       head |-> i,
       tail |-> IF c.tail = None THEN i ELSE c.tail]

\* A plausible slip: popping the head leaves head pointing at the free slot.
RemoveKeepingHead(c, k) ==
  LET i == c.map[k]
      p == c.nodes[i].prev
      n == c.nodes[i].next
  IN  [nodes |-> SetPrev(SetNext([c.nodes EXCEPT ![i] = None], p, n), n, p),
       map |-> [c.map EXCEPT ![k] = None],
       free_list |-> Append(c.free_list, i),
       head |-> c.head,
       tail |-> IF n = None THEN p ELSE c.tail]

\* The body of pop once the key has been found.
Remove(c, k) ==
  LET i == c.map[k]
      p == c.nodes[i].prev
      n == c.nodes[i].next
  IN  [nodes |-> SetPrev(SetNext([c.nodes EXCEPT ![i] = None], p, n), n, p),
       map |-> [c.map EXCEPT ![k] = None],
       free_list |-> Append(c.free_list, i),
       head |-> IF p = None THEN n ELSE c.head,
       tail |-> IF n = None THEN p ELSE c.tail]

Overwrite(c, i, v) ==
  [c EXCEPT !.nodes = [c.nodes EXCEPT ![i] = [@ EXCEPT !.value = v]]]

-----------------------------------------------------------------------------
(* The public operations                                                   *)

Get(k) ==
  \/ /\ cache.map[k] # None
     /\ cache' = MoveToFront(cache, cache.map[k])
     /\ ret' = Result("get", TRUE, EntryAt(cache', cache.map[k]))
  \/ /\ cache.map[k] = None
     /\ ret' = Result("get", FALSE, None)
     /\ UNCHANGED cache

Contains(k) ==
  /\ ret' = Result("contains", cache.map[k] # None, None)
  /\ UNCHANGED cache

Pop(k) ==
  \/ /\ cache.map[k] # None
     /\ cache' = Remove(cache, k)
     /\ ret' = Result("pop", TRUE, EntryAt(cache, cache.map[k]))
  \/ /\ cache.map[k] = None
     /\ ret' = Result("pop", FALSE, None)
     /\ UNCHANGED cache

PutDuplicate(k, v) ==
  /\ cache.map[k] # None
  /\ cache' = MoveToFront(Overwrite(cache, cache.map[k], v), cache.map[k])
  /\ ret' = Result("put", TRUE, None)

PutFull(k, v) ==
  /\ cache.map[k] = None
  /\ MapLen(cache) = N
  /\ cache' = InsertFront(Evict(cache), k, v)
  /\ ret' = Result("put", FALSE,
                   IF cache.tail = None THEN None ELSE EntryAt(cache, cache.tail))

PutFree(k, v) ==
  /\ cache.map[k] = None
  /\ MapLen(cache) # N
  /\ cache' = InsertFront(cache, k, v)
  /\ ret' = Result("put", FALSE, None)

Put(k, v) == PutDuplicate(k, v) \/ PutFull(k, v) \/ PutFree(k, v)

Next ==
  \E k \in Keys :
    \/ Get(k)
    \/ Contains(k)
    \/ Pop(k)
    \/ \E v \in Values : Put(k, v)

Spec == Init /\ [][Next]_vars

-----------------------------------------------------------------------------
(* Properties                                                              *)

CacheType ==
  [nodes : [Slots -> Node \cup {None}],
   map : [Keys -> Link],
   free_list : Seq(Slots),
   head : Link,
   tail : Link]

EntryType == [key : Keys, value : Values] \cup {None}

RetType ==
  [op : {"new", "get", "contains", "pop", "put"}, hit : BOOLEAN, entry : EntryType]

\* The struct's fields hold what their Rust types say, and indices are in
\* bounds of the nodes array.
TypeOK ==
  /\ cache \in CacheType
  /\ ret \in RetType

Live(c, i) == i \in Slots /\ c.nodes[i] # None

\* The neighbours of an occupied slot are None or other occupied slots.
NeighboursLive(c, i) ==
  \A j \in {c.nodes[i].prev, c.nodes[i].next} : j = None \/ (j # i /\ Live(c, j))

\* Every get_unchecked and unwrap_unchecked the next call may execute is
\* defined: a mapped index, head, tail and their neighbours are occupied slots
\* other than the one just taken out, put always finds a free slot (after an
\* eviction if the map is full), and that slot is vacant, so no node is lost.
UncheckedAccessesDefined ==
  /\ \A k \in Keys : cache.map[k] # None =>
       Live(cache, cache.map[k]) /\ NeighboursLive(cache, cache.map[k])
  /\ \A i \in {cache.head, cache.tail} :
       i = None \/ (Live(cache, i) /\ NeighboursLive(cache, i))
  /\ MapLen(cache) = N => cache.tail # None
  /\ MapLen(cache) # N => cache.free_list # <<>>
  /\ \A n \in 1..Len(cache.free_list) : ~Live(cache, cache.free_list[n])

-----------------------------------------------------------------------------
(* The representation invariant, one conjunct per relation between fields  *)

\* The free list holds each vacant slot exactly once.
FreeListExact(c) ==
  /\ \A m, n \in 1..Len(c.free_list) :
       c.free_list[m] = c.free_list[n] => m = n
  /\ \A i \in Slots :
       c.nodes[i] = None <=> \E n \in 1..Len(c.free_list) : c.free_list[n] = i

\* The map is the inverse of the keys of the occupied slots.
MapExact(c) ==
  /\ \A k \in Keys : c.map[k] # None =>
       c.nodes[c.map[k]] # None /\ c.nodes[c.map[k]].key = k
  /\ \A i \in Slots : c.nodes[i] # None => c.map[c.nodes[i].key] = i

\* prev and next are inverse to each other on the occupied slots, the head is
\* the only slot without prev and the tail the only one without next.
ListLinked(c) ==
  /\ c.head # None => c.nodes[c.head] # None
  /\ c.tail # None => c.nodes[c.tail] # None
  /\ \A i \in Slots : c.nodes[i] # None =>
       /\ c.head # None /\ c.tail # None
       /\ c.nodes[i].prev = None <=> c.head = i
       /\ c.nodes[i].next = None <=> c.tail = i
       /\ c.nodes[i].prev # None =>
            c.nodes[c.nodes[i].prev] # None /\ c.nodes[c.nodes[i].prev].next = i
       /\ c.nodes[i].next # None =>
            c.nodes[c.nodes[i].next] # None /\ c.nodes[c.nodes[i].next].prev = i

\* The list is sorted by the given rank of its slots, greatest first: next and
\* prev lead to the closest rank below and above.
SortedBy(c, rank) ==
  \A i, j \in Slots : c.nodes[i] # None /\ c.nodes[j] # None =>
    /\ i # j => rank[i] # rank[j]
    /\ c.nodes[i].next = j => rank[j] < rank[i]
    /\ rank[j] < rank[i] => c.nodes[i].next # None /\ rank[j] <= rank[c.nodes[i].next]
    /\ rank[i] < rank[j] => c.nodes[i].prev # None /\ rank[c.nodes[i].prev] <= rank[j]

Wellformed(c) == FreeListExact(c) /\ MapExact(c) /\ ListLinked(c)

\* Map, free list and linked list agree after every call.
RepresentationInvariant == Wellformed(cache)
=============================================================================
