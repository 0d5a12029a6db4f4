--------------------------- MODULE LRUCacheProofs ---------------------------
(***************************************************************************)
(* Theorems about LRUCache for every capacity and every set of keys and    *)
(* values: the representation invariant, the definedness of the unchecked  *)
(* accesses, the order of last use and the eviction of the least recently  *)
(* used, and that the cache implements the abstract one of LRU.  The steps *)
(* are those of LRUOrderProofs; what is counted is counted here.           *)
(***************************************************************************)
EXTENDS LRUOrderProofs, FiniteSetTheorems

\* A full map has a tail to evict; a map that is not full leaves a free slot.
LEMMA FullOrFree ==
  ASSUME NEW c, NEW rank, Good(c, rank)
  PROVE  Room(c)
<1> DEFINE M == {k \in Keys : c.map[k] # None}
<1>1. ASSUME c.tail = None PROVE MapLen(c) # N
  <2>1. M = {}
    BY <1>1 DEF Good, CacheType, Wellformed, ListLinked, MapExact, Link
  <2> QED BY <2>1, FS_EmptySet, CapacityAssumption DEF MapLen
<1>2. ASSUME c.free_list = <<>> PROVE MapLen(c) = N
  <2> DEFINE g == [i \in Slots |-> c.nodes[i].key]
  <2>1. \A i \in Slots : c.nodes[i] # None
    BY <1>2 DEF Good, Wellformed, FreeListExact
  <2>2. \A i \in Slots : c.nodes[i].key \in Keys /\ c.map[c.nodes[i].key] = i
    BY <2>1 DEF Good, CacheType, Wellformed, MapExact, Node
  <2>3. g \in [Slots -> M]
    BY <2>2, NoneAssumption
  <2>4. \A i, j \in Slots : g[i] = g[j] => i = j
    BY <2>2
  <2>5. \A k \in M : \E i \in Slots : g[i] = k
    BY DEF Good, CacheType, Wellformed, MapExact, Link
  <2>6. ExistsBijection(Slots, M)
    <3> HIDE DEF M, g
    <3>1. g \in Bijection(Slots, M)
      BY <2>3, <2>4, <2>5 DEF Bijection, Injection, Surjection, IsInjective
    <3> QED BY <3>1 DEF ExistsBijection
  <2>7. IsFiniteSet(Slots) /\ Cardinality(Slots) = N
    BY FS_Interval, CapacityAssumption DEF Slots
  <2> HIDE DEF M
  <2>8. Cardinality(M) = N
    BY <2>6, <2>7, FS_Bijection
  <2> QED BY <2>8 DEF MapLen, M
<1> QED BY <1>1, <1>2 DEF Room

\* Both inductive invariants leave room for a put.
LEMMA InvariantRoom == (IInv => Room(cache)) /\ (HInv => Room(cache))
BY FullOrFree DEF IInv, HInv

\* For every capacity, key set and value set: the map, the free list and the
\* linked list of the cache agree after every sequence of calls.
THEOREM RepresentationHolds == Spec => []RepresentationInvariant
<1>1. IInv => RepresentationInvariant
  BY DEF IInv, Good, RepresentationInvariant
<1> QED BY <1>1, InitGood, NextGood, InvariantRoom, PTL DEF Spec

\* For every capacity: no call ever unwraps an absent node, leaves the bounds
\* of the array or overwrites an occupied slot, so the unsafe blocks of the
\* cache have no undefined behaviour.
THEOREM MemorySafety == Spec => []UncheckedAccessesDefined
BY AccessesGood, InitGood, NextGood, InvariantRoom, PTL DEF Spec

\* The fields of the struct and the results of calls have their types.
THEOREM TypeCorrect == Spec => []TypeOK
<1>1. IInv => cache \in CacheType
  BY DEF IInv, Good
<1>2. Init => TypeOK
  <2>1. Init => cache \in CacheType
    BY InitGood, <1>1
  <2> QED BY <2>1 DEF Init, Result, TypeOK, EntryType, RetType
<1> QED BY <1>2, TypeGood, InitGood, NextGood, InvariantRoom, PTL DEF Spec

\* For every capacity and any number of calls: reading the list from the head
\* visits the cached keys from the most to the least recently used.
THEOREM RecencyOrder == HSpec => []ListOrderIsLastUse
<1>1. HInv => ListOrderIsLastUse
  BY DEF HInv, Good, ListOrderIsLastUse
<1> QED BY <1>1, HInitGood, HNextGood, InvariantRoom, PTL DEF HSpec

\* For every capacity: a put that drops a key drops the one whose last get or
\* put is the oldest of all cached keys.
THEOREM EvictionIsLeastRecent == HSpec => EvictsLeastRecentlyUsed
<1>1. HSpec => [][DropsLeastRecent]_hvars
  BY EvictionGood, HInitGood, HNextGood, InvariantRoom, PTL DEF HSpec
<1> QED BY <1>1 DEF EvictsLeastRecentlyUsed, DropsLeastRecent

-----------------------------------------------------------------------------
(* The walk along the list                                                 *)

\* A nonempty set of naturals has a least element.
LEMMA LeastNat ==
  ASSUME NEW S, S \subseteq Nat, S # {}
  PROVE  \E n \in S : \A m \in S : ~(m < n)
<1>1. \E n \in S : \A m \in S : <<m, n>> \notin OpToRel(<, Nat)
  BY NatLessThanWellFounded, WFMin
<1> QED
  BY <1>1, Zenon DEF OpToRel

\* It is as long as the map, hence within the capacity.
LEMMA ListsLength ==
  ASSUME NEW c, NEW rank, Good(c, rank), NEW w, Lists(c, rank, w)
  PROVE  Len(w) \in 0..N /\ MapLen(c) = Len(w)
<1> DEFINE L == {i \in Slots : c.nodes[i] # None}
           M == {k \in Keys : c.map[k] # None}
           g == [i \in L |-> c.nodes[i].key]
<1>1. /\ w \in [1..Len(w) -> L] /\ Len(w) \in Nat
      /\ \A i \in L : \E n \in 1..Len(w) : w[n] = i
  BY DEF Lists
<1>2. \A m, n \in 1..Len(w) : w[m] = w[n] => m = n
  BY ListsOnce
<1>3. \A i \in L : c.nodes[i].key \in M /\ c.map[c.nodes[i].key] = i
  BY NoneAssumption DEF Good, CacheType, Wellformed, MapExact, Node
<1>4. /\ g \in [L -> M]
      /\ \A i, j \in L : g[i] = g[j] => i = j
      /\ \A k \in M : \E i \in L : g[i] = k
  <2>1. \A k \in M : c.map[k] \in L /\ c.nodes[c.map[k]].key = k
    BY DEF Good, CacheType, Wellformed, MapExact, Link
  <2> QED
    BY <1>3, <2>1
<1>5. MapLen(c) = Cardinality(M) /\ L \subseteq Slots
  BY DEF MapLen
<1> HIDE DEF L, M, g
<1>6. ExistsBijection(1..Len(w), L) /\ ExistsBijection(L, M)
  <2>1. w \in Bijection(1..Len(w), L)
    BY <1>1, <1>2 DEF Bijection, Injection, Surjection, IsInjective
  <2>2. g \in Bijection(L, M)
    BY Zenon, <1>4 DEF Bijection, Injection, Surjection, IsInjective
  <2> QED
    BY <2>1, <2>2 DEF ExistsBijection
<1>7. IsFiniteSet(Slots) /\ Cardinality(Slots) = N
  BY FS_Interval, CapacityAssumption DEF Slots
<1>8. IsFiniteSet(L) /\ Cardinality(L) <= N
  BY <1>5, <1>7, FS_Subset
<1>9. IsFiniteSet(1..Len(w)) /\ Cardinality(1..Len(w)) = Len(w)
  <2>1. ASSUME NEW n \in Nat PROVE IsFiniteSet(1..n) /\ Cardinality(1..n) = n
    BY FS_Interval
  <2> QED
    BY <1>1, <2>1
<1>10. Cardinality(1..Len(w)) = Cardinality(L)
  BY <1>6, <1>9, FS_Bijection
<1>11. Cardinality(L) = Cardinality(M)
  BY <1>6, <1>8, FS_Bijection
<1> QED
  BY <1>1, <1>5, <1>8, <1>9, <1>10, <1>11, CapacityAssumption

\* There is one walk only: it is what the recency order is read from.
LEMMA WalkIsLists ==
  ASSUME NEW c, NEW rank, Good(c, rank), NEW w, Lists(c, rank, w)
  PROVE  Walk(c) = w
<1>0. Len(w) <= N
  BY ListsLength, CapacityAssumption
<1>1. w \in Paths /\ IsWalk(c, w)
  BY ListsIsWalk, <1>0
<1> DEFINE u == Walk(c)
<1>2. u \in Paths /\ IsWalk(c, u)
  BY <1>1 DEF Walk
<1> HIDE DEF u
<1>3. /\ w \in Seq(Slots) /\ Len(w) \in Nat /\ w \in [1..Len(w) -> Slots]
      /\ u \in Seq(Slots) /\ Len(u) \in Nat /\ u \in [1..Len(u) -> Slots]
      /\ w = <<>> <=> Len(w) = 0
      /\ u = <<>> <=> Len(u) = 0
  <2>1. \A x \in Paths : x \in Seq(Slots)
    BY CapacityAssumption DEF Paths
  <2> QED
    BY <1>1, <1>2, <2>1
<1>4. w = <<>> <=> u = <<>>
  BY <1>1, <1>2, <1>3, NoneAssumption DEF IsWalk
<1>5. CASE w # <<>>
  <2>1. /\ w[1] = c.head /\ u[1] = c.head
        /\ \A n \in 1..(Len(w) - 1) : c.nodes[w[n]].next = w[n + 1]
        /\ \A n \in 1..(Len(u) - 1) : c.nodes[u[n]].next = u[n + 1]
        /\ c.nodes[w[Len(w)]].next = None /\ c.nodes[u[Len(u)]].next = None
        /\ Len(w) >= 1 /\ Len(u) >= 1
    BY <1>1, <1>2, <1>3, <1>4, <1>5 DEF IsWalk
  <2> DEFINE Apart == {n \in Nat : n >= 1 /\ n <= Len(u) /\ (n > Len(w) \/ u[n] # w[n])}
  <2>2. Apart = {}
    <3> SUFFICES ASSUME Apart # {} PROVE FALSE
      OBVIOUS
    <3>1. PICK n \in Apart : \A m \in Apart : ~(m < n)
      BY LeastNat, Zenon
    <3>2. n \in Nat /\ n >= 1 /\ n <= Len(u) /\ (n > Len(w) \/ u[n] # w[n])
      OBVIOUS
    <3>3. n - 1 \notin Apart
      BY <3>1, <3>2
    <3>4. n # 1
      BY <2>1, <3>2
    <3>5. n - 1 \in 1..(Len(u) - 1) /\ n - 1 <= Len(w) /\ u[n - 1] = w[n - 1]
      BY <1>3, <3>2, <3>3, <3>4
    <3>6. c.nodes[u[n - 1]].next = u[n] /\ u[n] \in Slots
      BY <1>3, <2>1, <3>2, <3>5
    <3>7. n - 1 # Len(w)
      BY Zenon, <2>1, <3>5, <3>6, NoneAssumption
    <3>8. n - 1 \in 1..(Len(w) - 1)
      BY <1>3, <3>5, <3>7
    <3>9. u[n] = w[n] /\ n <= Len(w)
      BY <1>3, <2>1, <3>5, <3>6, <3>8
    <3> QED
      BY <1>3, <3>2, <3>9
  <2>3. \A n \in 1..Len(u) : n <= Len(w) /\ u[n] = w[n]
    BY <1>3, <2>2
  <2>4. Len(u) = Len(w)
    <3>1. Len(u) <= Len(w) /\ u[Len(u)] = w[Len(u)]
      BY <1>3, <2>1, <2>3
    <3>2. ~(Len(u) < Len(w))
      <4> SUFFICES ASSUME Len(u) < Len(w) PROVE FALSE
        OBVIOUS
      <4>1. Len(u) \in 1..(Len(w) - 1) /\ w[Len(u) + 1] \in Slots
        BY <1>3, <2>1
      <4> QED
        BY Zenon, <2>1, <3>1, <4>1, NoneAssumption
    <3>3. Len(u) \in Nat /\ Len(w) \in Nat
      BY <1>3
    <3> QED
      BY <3>1, <3>2, <3>3
  <2>5. u \in [1..Len(w) -> Slots] /\ \A n \in 1..Len(w) : u[n] = w[n]
    BY <1>3, <2>3, <2>4
  <2>6. u = w
    BY <1>3, <2>5
  <2> QED
    BY <2>6 DEF u
<1> QED
  BY <1>4, <1>5 DEF u

-----------------------------------------------------------------------------
(* The refinement                                                          *)

\* The inductive invariant: the occupied slots can be listed by falling rank.
RInv == \E rank, w : Good(cache, rank) /\ Lists(cache, rank, w)

\* The recency order is read off any listing by falling rank.
LEMMA RecencyIs ==
  ASSUME NEW c, NEW rank, Good(c, rank), NEW w, Lists(c, rank, w)
  PROVE  Recency(c) = EntriesAlong(c, w)
BY WalkIsLists DEF Recency

\* get of a cached key, and put of one: the entry is touched.
LEMMA TouchStep ==
  ASSUME NEW rank, Good(cache, rank), NEW w, Lists(cache, rank, w),
         NEW k \in Keys, cache.map[k] # None, NEW v, NEW r, Above(cache, rank, r),
         Good(cache', [rank EXCEPT ![cache.map[k]] = r]),
         Touched(cache, cache', cache.map[k], v)
  PROVE  RInv' /\ Recency(cache') = Abstract!Touch(Recency(cache), k, v)
<1>1. PICK u : /\ Lists(cache', [rank EXCEPT ![cache.map[k]] = r], u)
               /\ EntriesAlong(cache', u) = Abstract!Touch(EntriesAlong(cache, w), k, v)
  BY TouchOrder
<1>2. Recency(cache) = EntriesAlong(cache, w) /\ Recency(cache') = EntriesAlong(cache', u)
  BY <1>1, RecencyIs
<1> QED
  BY <1>1, <1>2 DEF RInv

\* The entry that the order holds for a key is the one at the key's slot.
LEMMA EntryIs ==
  ASSUME NEW c, NEW rank, Good(c, rank), NEW w, Lists(c, rank, w), NEW k \in Keys
  PROVE  /\ k \in Abstract!KeysOf(Recency(c)) <=> c.map[k] # None
         /\ c.map[k] # None => Abstract!EntryOf(Recency(c), k) = EntryAt(c, c.map[k])
<1>1. Recency(c) = EntriesAlong(c, w)
  BY RecencyIs
<1> QED
  BY <1>1, OrderKeys DEF Abstract!EntryOf

\* get is the get of the abstract cache.
LEMMA GetRefines ==
  ASSUME RInv, NEW k \in Keys, Get(k)
  PROVE  RInv' /\ Abstract!Get(k)
<1>1. PICK rank, w : Good(cache, rank) /\ Lists(cache, rank, w)
  BY DEF RInv
<1>2. /\ k \in Abstract!KeysOf(Recency(cache)) <=> cache.map[k] # None
      /\ cache.map[k] # None =>
           Abstract!EntryOf(Recency(cache), k) = EntryAt(cache, cache.map[k])
  BY <1>1, EntryIs
<1>3. CASE cache.map[k] = None
  <2>1. cache' = cache /\ ret' = Result("get", FALSE, None)
    BY <1>3 DEF Get
  <2>2. RInv'
    BY <2>1 DEF RInv
  <2> QED
    BY Zenon, <1>2, <1>3, <2>1, <2>2 DEF Abstract!Get, Abstract!Result, Result
<1>4. CASE cache.map[k] # None
  <2> DEFINE i == cache.map[k]
  <2>1. cache' = MoveToFront(cache, i) /\ ret' = Result("get", TRUE, EntryAt(cache', i))
    BY <1>4, Zenon DEF Get
  <2>2. i \in Slots /\ cache.nodes[i] # None
    BY Zenon, <1>1, <1>4 DEF Good, CacheType, Wellformed, MapExact, Link
  <2>3. PICK r : Above(cache, rank, r)
    BY <1>1, RankAbove
  <2>4. Moved(cache, cache', i, rank, r)
    BY Zenon, <1>1, <2>1, <2>2, <2>3, MoveToFrontGood
  <2>5. RInv' /\ Recency(cache') = Abstract!Touch(Recency(cache), k, cache.nodes[i].value)
    <3>1. Touched(cache, cache', i, cache.nodes[i].value)
      BY Zenon, <2>4 DEF Moved, Touched
    <3>2. Good(cache', [rank EXCEPT ![i] = r])
      BY Zenon, <2>4 DEF Moved
    <3> QED
      BY Zenon, <1>1, <1>4, <2>3, <3>1, <3>2, TouchStep
  <2>6. /\ EntryAt(cache', i) = EntryAt(cache, i)
        /\ EntryAt(cache, i).value = cache.nodes[i].value
    BY Zenon, <2>2, <2>4 DEF Moved, EntryAt, Entry
  <2> QED
    BY <1>2, <1>4, <2>1, <2>5, <2>6, Zenon DEF Abstract!Get, Abstract!Result, Result
<1> QED
  BY <1>3, <1>4

\* contains is the contains of the abstract cache.
LEMMA ContainsRefines ==
  ASSUME RInv, NEW k \in Keys, Contains(k)
  PROVE  RInv' /\ Abstract!Contains(k)
<1>1. PICK rank, w : Good(cache, rank) /\ Lists(cache, rank, w)
  BY DEF RInv
<1>2. (k \in Abstract!KeysOf(Recency(cache))) = (cache.map[k] # None)
  BY <1>1, EntryIs
<1>3. RInv'
  BY DEF Contains, RInv
<1> QED
  BY Zenon, <1>2, <1>3 DEF Contains, Abstract!Contains, Result, Abstract!Result

\* pop is the pop of the abstract cache.
LEMMA PopRefines ==
  ASSUME RInv, NEW k \in Keys, Pop(k)
  PROVE  RInv' /\ Abstract!Pop(k)
<1>1. PICK rank, w : Good(cache, rank) /\ Lists(cache, rank, w)
  BY DEF RInv
<1>2. /\ k \in Abstract!KeysOf(Recency(cache)) <=> cache.map[k] # None
      /\ cache.map[k] # None =>
           Abstract!EntryOf(Recency(cache), k) = EntryAt(cache, cache.map[k])
  BY <1>1, EntryIs
<1>3. CASE cache.map[k] = None
  <2>1. cache' = cache /\ ret' = Result("pop", FALSE, None)
    BY <1>3 DEF Pop
  <2>2. RInv'
    BY <2>1 DEF RInv
  <2> QED
    BY Zenon, <1>2, <1>3, <2>1, <2>2 DEF Abstract!Pop, Abstract!Without, Abstract!Result, Result
<1>4. CASE cache.map[k] # None
  <2>1. cache' = Remove(cache, k) /\ ret' = Result("pop", TRUE, EntryAt(cache, cache.map[k]))
    BY <1>4, Zenon DEF Pop
  <2>2. Removed(cache, cache', k, rank)
    BY <1>1, <1>4, <2>1, RemoveGood
  <2>3. PICK u : /\ Lists(cache', rank, u)
                 /\ EntriesAlong(cache', u) = Abstract!Without(EntriesAlong(cache, w), k)
    BY <1>1, <1>4, <2>2, DropOrder
  <2>4. Good(cache', rank)
    BY Zenon, <2>2 DEF Removed
  <2>5. Recency(cache) = EntriesAlong(cache, w) /\ Recency(cache') = EntriesAlong(cache', u)
    BY <1>1, <2>3, <2>4, RecencyIs
  <2>6. RInv'
    BY <2>3, <2>4 DEF RInv
  <2> QED
    BY <1>2, <1>4, <2>1, <2>3, <2>5, <2>6, Zenon DEF Abstract!Pop, Abstract!Result, Result
<1> QED
  BY <1>3, <1>4

\* A put of a cached key is a put of the abstract cache.
LEMMA PutDuplicateRefines ==
  ASSUME RInv, NEW k \in Keys, NEW v \in Values, PutDuplicate(k, v)
  PROVE  RInv' /\ Abstract!Put(k, v)
<1> DEFINE i == cache.map[k]
           o == Overwrite(cache, i, v)
<1>1. PICK rank, w : Good(cache, rank) /\ Lists(cache, rank, w)
  BY DEF RInv
<1>2. cache.map[k] # None /\ cache' = MoveToFront(o, i) /\ ret' = Result("put", TRUE, None)
  BY DEF PutDuplicate
<1>3. i \in Slots /\ cache.nodes[i] # None
  BY Zenon, <1>1, <1>2 DEF Good, CacheType, Wellformed, MapExact, Link
<1>4. PICK r : Above(cache, rank, r)
  BY <1>1, RankAbove
<1>5. /\ Overwritten(cache, o, rank)
      /\ \A j \in Slots : cache.nodes[j] # None =>
           o.nodes[j].value = IF j = i THEN v ELSE cache.nodes[j].value
  BY <1>1, <1>3, OverwriteGood
<1> HIDE DEF o
<1>6. Good(o, rank) /\ o.nodes[i] # None /\ Above(o, rank, r)
  BY Zenon, <1>3, <1>4, <1>5 DEF Overwritten, Above
<1>7. Moved(o, cache', i, rank, r)
  BY Zenon, <1>2, <1>3, <1>6, MoveToFrontGood
<1>8. Good(cache', [rank EXCEPT ![i] = r]) /\ Touched(cache, cache', i, v)
  BY Zenon, <1>5, <1>7 DEF Moved, Overwritten, Touched
<1>9. RInv' /\ Recency(cache') = Abstract!Touch(Recency(cache), k, v)
  BY Zenon, <1>1, <1>2, <1>4, <1>8, TouchStep
<1>10. k \in Abstract!KeysOf(Recency(cache))
  BY Zenon, <1>1, <1>2, EntryIs
<1>11. ~Abstract!Evicts(Recency(cache), k, N)
  BY <1>10 DEF Abstract!Evicts
<1> QED
  BY <1>2, <1>9, <1>10, <1>11, Zenon DEF Abstract!Put, Abstract!PutOrder, Abstract!Result, Result

\* So is a put into a free slot.
LEMMA PutFreeRefines ==
  ASSUME RInv, NEW k \in Keys, NEW v \in Values, PutFree(k, v)
  PROVE  RInv' /\ Abstract!Put(k, v)
<1>1. PICK rank, w : Good(cache, rank) /\ Lists(cache, rank, w)
  BY DEF RInv
<1> DEFINE i == TopFree(cache)
<1>2. /\ cache.map[k] = None /\ MapLen(cache) # N
      /\ cache' = InsertFront(cache, k, v) /\ ret' = Result("put", FALSE, None)
  BY DEF PutFree
<1>3. PICK r : Above(cache, rank, r)
  BY <1>1, RankAbove
<1>4. cache.free_list # <<>>
  BY Zenon, <1>1, <1>2, FullOrFree DEF Room
<1>5. Inserted(cache, cache', k, i, rank, r) /\ Added(cache, cache', k, v, i)
  BY Zenon, <1>1, <1>2, <1>3, <1>4, InsertFrontGood
<1>6. i \in Slots /\ Good(cache', [rank EXCEPT ![i] = r])
  BY Zenon, <1>5 DEF Inserted
<1> HIDE DEF i
<1>7. PICK u : /\ Lists(cache', [rank EXCEPT ![i] = r], u)
               /\ EntriesAlong(cache', u) = <<Abstract!Entry(k, v)>> \o EntriesAlong(cache, w)
  <2>1. Added(cache, cache', k, v, i) /\ i \in Slots
    BY Zenon, <1>5, <1>6
  <2>2. Pushed(cache, cache', rank, w, k, v, i, r)
    BY Zenon, <1>1, <1>3, <2>1, PushOrder
  <2> QED BY <2>2 DEF Pushed
<1>8. Recency(cache) = EntriesAlong(cache, w) /\ Recency(cache') = EntriesAlong(cache', u)
  BY Zenon, <1>1, <1>6, <1>7, RecencyIs
<1>9. k \notin Abstract!KeysOf(Recency(cache))
  BY Zenon, <1>1, <1>2, EntryIs
<1>10. Len(Recency(cache)) # N
  <2>1. Len(Recency(cache)) = Len(w)
    BY <1>1, <1>8, OrderKeys
  <2>2. MapLen(cache) = Len(w)
    BY Zenon, <1>1, ListsLength
  <2> QED
    BY Zenon, <1>2, <2>1, <2>2
<1>11. ~Abstract!Evicts(Recency(cache), k, N)
  BY <1>10 DEF Abstract!Evicts
<1>12. Recency(cache') = Abstract!Touch(Recency(cache), k, v)
  BY Zenon, <1>7, <1>8, <1>9 DEF Abstract!Touch, Abstract!Without
<1>13. RInv'
  BY Zenon, <1>6, <1>7 DEF RInv
<1>14. (k \in Abstract!KeysOf(Recency(cache))) = FALSE
  BY <1>9
<1>15. ret' = Abstract!Result("put", k \in Abstract!KeysOf(Recency(cache)), None)
  BY <1>2, <1>14, Zenon DEF Abstract!Result, Result
<1>16. Recency(cache') = Abstract!PutOrder(Recency(cache), k, v, N)
  BY Zenon, <1>11, <1>12 DEF Abstract!PutOrder
<1> QED
  BY Zenon, <1>11, <1>13, <1>15, <1>16 DEF Abstract!Put

\* So is a put that evicts: the tail is the last entry of the order.
LEMMA PutFullRefines ==
  ASSUME RInv, NEW k \in Keys, NEW v \in Values, PutFull(k, v)
  PROVE  RInv' /\ Abstract!Put(k, v)
<1>1. PICK rank, w : Good(cache, rank) /\ Lists(cache, rank, w)
  BY DEF RInv
<1> DEFINE e == Evict(cache)
           t == cache.nodes[cache.tail].key
           i == TopFree(e)
           o == EntriesAlong(cache, w)
<1>2. /\ cache.map[k] = None /\ MapLen(cache) = N
      /\ cache' = InsertFront(e, k, v)
      /\ ret' = Result("put", FALSE,
                       IF cache.tail = None THEN None ELSE EntryAt(cache, cache.tail))
  BY Zenon DEF PutFull
<1>3. PICK r : Above(cache, rank, r)
  BY <1>1, RankAbove
<1>4. cache.tail # None
  BY Zenon, <1>1, <1>2, FullOrFree DEF Room
<1>5. cache.tail \in Slots /\ t \in Keys /\ cache.map[t] = cache.tail /\ e = Remove(cache, t)
  BY Zenon, <1>1, <1>4, EvictIsRemove
<1> HIDE DEF e, t
<1>6. Removed(cache, e, t, rank)
  BY Zenon, <1>1, <1>4, <1>5, RemoveGood
<1>7. /\ Good(e, rank) /\ e.map[k] = None /\ e.free_list # <<>> /\ Above(e, rank, r)
  <2>1. Good(e, rank) /\ e.map = [cache.map EXCEPT ![t] = None] /\ e.free_list # <<>>
    BY Zenon, <1>6 DEF Removed
  <2>2. e.map[k] = None
    BY Zenon, <1>1, <1>2, <2>1 DEF Good, CacheType
  <2>3. \A j \in Slots : e.nodes[j] # None => cache.nodes[j] # None
    BY Zenon, <1>6 DEF Removed
  <2>4. Above(e, rank, r)
    BY <1>3, <2>3 DEF Above
  <2> QED
    BY Zenon, <2>1, <2>2, <2>4
<1>8. PICK x : /\ Lists(e, rank, x)
               /\ EntriesAlong(e, x) = Abstract!Without(o, t)
  BY <1>1, <1>4, <1>5, <1>6, DropOrder
<1>9. Inserted(e, cache', k, i, rank, r) /\ Added(e, cache', k, v, i)
  BY Zenon, <1>2, <1>7, InsertFrontGood
<1>10. i \in Slots /\ Good(cache', [rank EXCEPT ![i] = r])
  BY Zenon, <1>9 DEF Inserted
<1> HIDE DEF i
<1>11. PICK u : /\ Lists(cache', [rank EXCEPT ![i] = r], u)
                /\ EntriesAlong(cache', u) = <<Abstract!Entry(k, v)>> \o EntriesAlong(e, x)
  <2>1. Good(e, rank) /\ Lists(e, rank, x) /\ Above(e, rank, r)
    BY Zenon, <1>7, <1>8
  <2>2. Added(e, cache', k, v, i) /\ i \in Slots
    BY Zenon, <1>9, <1>10
  <2>3. Pushed(e, cache', rank, x, k, v, i, r)
    BY Zenon, <2>1, <2>2, PushOrder
  <2> QED BY <2>3 DEF Pushed
<1>12. Recency(cache) = o /\ Recency(cache') = EntriesAlong(cache', u)
  BY Zenon, <1>1, <1>10, <1>11, RecencyIs
<1>13. /\ DOMAIN o = 1..Len(w) /\ Len(o) = Len(w) /\ Len(w) \in Nat
       /\ \A n \in 1..Len(w) : o[n] = EntryAt(cache, w[n])
       /\ t \in Abstract!KeysOf(o)
       /\ Abstract!Place(o, t) \in 1..Len(w) /\ w[Abstract!Place(o, t)] = cache.tail
  BY <1>1, <1>4, <1>5, OrderKeys
<1>14. Len(w) = N
  BY Zenon, <1>1, <1>2, ListsLength
<1>15. Len(w) \in 1..Len(w) /\ w[Len(w)] = cache.tail
  <2>1. Len(w) \in 1..Len(w) /\ w # <<>>
    BY <1>14, CapacityAssumption
  <2>2. cache.nodes[w[Len(w)]].next = None
    BY <1>1, <1>14, <2>1, ListsIsWalk, CapacityAssumption DEF IsWalk
  <2>3. w[Len(w)] \in Slots /\ cache.nodes[w[Len(w)]] # None
    BY <1>1, <2>1 DEF Lists
  <2> QED
    BY Zenon, <1>1, <2>1, <2>2, <2>3 DEF Good, Wellformed, ListLinked
<1>16. Abstract!Place(o, t) = Len(w)
  BY <1>1, <1>13, <1>15, ListsOnce
<1> HIDE DEF o
<1>17. Abstract!Without(o, t) = SubSeq(o, 1, Len(o) - 1)
  <2>1. Abstract!Without(o, t) =
          [j \in 1..(Len(o) - 1) |-> IF j < Len(o) THEN o[j] ELSE o[j + 1]]
    BY <1>13, <1>16 DEF Abstract!Without
  <2>2. o \in Seq({o[n] : n \in 1..Len(w)})
    <3>1. o = [n \in 1..Len(w) |-> o[n]]
      BY DEF o, EntriesAlong
    <3>2. o \in [1..Len(w) -> {o[n] : n \in 1..Len(w)}]
      BY <3>1
    <3> QED
      BY Zenon, <1>13, <3>2, SeqOfLength
  <2>3. SubSeq(o, 1, Len(o) - 1) = [j \in 1..(Len(o) - 1) |-> o[j]]
    BY <1>13, <1>15, <2>2
  <2>4. \A j \in 1..(Len(o) - 1) : j < Len(o)
    BY <1>13
  <2> QED
    BY <2>1, <2>3, <2>4
<1>18. k \notin Abstract!KeysOf(o)
  BY Zenon, <1>1, <1>2, <1>12, EntryIs
<1>19. Abstract!Evicts(o, k, N) /\ Abstract!Victim(o) = EntryAt(cache, cache.tail)
  BY Zenon, <1>13, <1>14, <1>15, <1>18 DEF Abstract!Evicts, Abstract!Victim
<1>20. RInv'
  BY Zenon, <1>10, <1>11 DEF RInv
<1>21. (k \in Abstract!KeysOf(o)) = FALSE
  BY <1>18
<1>22. ret' = Abstract!Result("put", k \in Abstract!KeysOf(o), Abstract!Victim(o))
  BY <1>2, <1>4, <1>19, <1>21, Zenon DEF Abstract!Result, Result
<1>23. Recency(cache') = Abstract!PutOrder(o, k, v, N)
  BY Zenon, <1>8, <1>11, <1>12, <1>17, <1>19 DEF Abstract!PutOrder
<1> QED
  BY Zenon, <1>12, <1>19, <1>20, <1>22, <1>23 DEF Abstract!Put

\* A new cache is an empty abstract one.
LEMMA InitRefines == Init => RInv /\ Abstract!Init
<1> SUFFICES ASSUME Init PROVE RInv /\ Abstract!Init
  OBVIOUS
<1> DEFINE rank == [i \in Slots |-> 0]
<1>1. cache = NewCache /\ Good(cache, rank)
  <2>1. rank \in Ranks
    BY DEF Ranks
  <2> QED
    BY <2>1, NewCacheGood DEF Init
<1> HIDE DEF rank
<1>2. Lists(cache, rank, <<>>)
  <2>1. \A i \in Slots : cache.nodes[i] = None
    BY Zenon, <1>1 DEF NewCache
  <2>2. Len(<<>>) = 0 /\ <<>> \in Seq(Slots) /\ 1..0 = {}
    OBVIOUS
  <2> QED
    BY <2>1, <2>2 DEF Lists
<1>3. Recency(cache) = <<>>
  <2>1. Recency(cache) = EntriesAlong(cache, <<>>)
    BY <1>1, <1>2, RecencyIs
  <2> QED
    BY <2>1 DEF EntriesAlong
<1> QED
  BY Zenon, <1>1, <1>2, <1>3 DEF RInv, Init, Abstract!Init, Result, Abstract!Result

\* Every call is the call of the same name of the abstract cache.
LEMMA NextRefines == RInv /\ [Next]_vars => RInv' /\ [Abstract!Next]_(Abstract!vars)
<1> SUFFICES ASSUME RInv, [Next]_vars PROVE RInv' /\ [Abstract!Next]_(Abstract!vars)
  OBVIOUS
<1>1. CASE UNCHANGED vars
  <2>1. cache' = cache /\ ret' = ret
    BY <1>1 DEF vars
  <2> QED
    BY <2>1 DEF RInv, Abstract!vars
<1>2. ASSUME NEW k \in Keys, Get(k) \/ Contains(k) \/ Pop(k)
      PROVE  RInv' /\ Abstract!Next
  BY Zenon, <1>2, GetRefines, ContainsRefines, PopRefines DEF Abstract!Next
<1>3. ASSUME NEW k \in Keys, NEW v \in Values, Put(k, v)
      PROVE  RInv' /\ Abstract!Next
  <2>1. RInv' /\ Abstract!Put(k, v)
    BY Zenon, <1>3, PutDuplicateRefines, PutFreeRefines, PutFullRefines DEF Put
  <2> QED
    BY <2>1 DEF Abstract!Next
<1> QED
  BY <1>1, <1>2, <1>3 DEF Next

\* For every capacity and every set of keys and values, the array, the map, the
\* links and the free list behave to their callers like the abstract cache: every
\* call returns what the recency order says and leaves the order it promises.
THEOREM CacheImplementsLRU == Spec => ImplementsLRU
BY InitRefines, NextRefines, PTL DEF Spec, ImplementsLRU, Abstract!Spec
=============================================================================
