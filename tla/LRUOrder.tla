------------------------------ MODULE LRUOrder ------------------------------
(***************************************************************************)
(* What the operations of the LRU cache (lru/src/lib.rs) promise, as pure  *)
(* operators on the recency order of the cached entries: a sequence of     *)
(* [key, value] records, most recently used first, without repeated keys.  *)
(* Module LRU turns them into the abstract cache that LRUCache implements; *)
(* QoSTile uses them for the sidecar's two caches.                         *)
(***************************************************************************)
EXTENDS Naturals, Sequences

Entry(k, v) == [key |-> k, value |-> v]

KeysOf(order) == {order[i].key : i \in DOMAIN order}

\* Where the key is in the order.
Place(order, k) == CHOOSE i \in DOMAIN order : order[i].key = k

EntryOf(order, k) == order[Place(order, k)]

Without(order, k) ==
  IF k \notin KeysOf(order) THEN order
  ELSE [j \in 1..(Len(order) - 1) |->
          IF j < Place(order, k) THEN order[j] ELSE order[j + 1]]

\* get and the duplicate case of put: the entry becomes the most recent one.
Touch(order, k, v) == <<Entry(k, v)>> \o Without(order, k)

\* The entry that put(k, _) evicts from a cache of the given capacity, if any.
Evicts(order, k, cap) == k \notin KeysOf(order) /\ Len(order) = cap

Victim(order) == order[Len(order)]

PutOrder(order, k, v, cap) ==
  IF Evicts(order, k, cap)
    THEN <<Entry(k, v)>> \o SubSeq(order, 1, Len(order) - 1)
    ELSE Touch(order, k, v)
=============================================================================
