--------------------------- MODULE LRURefinement ----------------------------
(***************************************************************************)
(* LRUCache implements the abstract cache of module LRU: the recency order *)
(* is read off the linked list, from the head along next.                  *)
(***************************************************************************)
EXTENDS LRUCache

\* w holds the slots met on the way from the head along next, to the end.
IsWalk(c, w) ==
  IF w = <<>> THEN c.head = None
  ELSE /\ w[1] = c.head
       /\ \A n \in 1..(Len(w) - 1) : c.nodes[w[n]].next = w[n + 1]
       /\ c.nodes[w[Len(w)]].next = None

Paths == UNION {[1..n -> Slots] : n \in 0..N}

Walk(c) == CHOOSE w \in Paths : IsWalk(c, w)

EntriesAlong(c, w) == [n \in 1..Len(w) |-> EntryAt(c, w[n])]

Recency(c) == EntriesAlong(c, Walk(c))

Abstract == INSTANCE LRU WITH order <- Recency(cache)

\* Every call of the cache returns what the abstract LRU returns and leaves the
\* entries in its order: get and a duplicate put move to front, contains does
\* not, put evicts exactly the least recently used entry and only when full.  In
\* particular the list from the head reaches every entry, without a cycle.
ImplementsLRU == Abstract!Spec
=============================================================================
