--------------------- MODULE TransactionContainerProofs ---------------------
(***************************************************************************)
(* For every capacity, target rate and interval, and any number of calls:  *)
(* the heap stays below its capacity, every window of time respects the    *)
(* target rate, no transaction overtakes a better one, and none is lost or *)
(* handed on twice.                                                        *)
(***************************************************************************)
EXTENDS TransactionContainer, FiniteSetTheorems, TLAPS

-----------------------------------------------------------------------------
(* The heap's operations                                                   *)

\* What push guarantees of a heap h that was below its capacity.
Pushed(h, t, cap, r) ==
  /\ r.heap \cup r.leaked = h \cup {t}
  /\ r.heap \cap r.leaked = {}
  /\ IsFiniteSet(r.heap) /\ Cardinality(r.heap) < cap
  /\ IsFiniteSet(r.leaked)
  /\ \A m \in r.leaked, u \in r.heap : m.score <= u.score

\* push keeps the heap below its capacity and takes out nothing but a minimum.
LEMMA PushGood ==
  ASSUME NEW h, NEW t, NEW cap \in Nat \ {0}, NEW r \in Push(h, t, cap),
         IsFiniteSet(h), Cardinality(h) < cap
  PROVE  Pushed(h, t, cap, r)
<1> DEFINE full == h \cup {t}
<1>1. IsFiniteSet(full) /\ Cardinality(full) <= cap /\ Cardinality(full) \in Nat
  <2>1. IsFiniteSet(full) /\ Cardinality(full) =
          (IF t \in h THEN Cardinality(h) ELSE Cardinality(h) + 1)
    BY FS_AddElement
  <2>2. Cardinality(h) \in Nat
    BY FS_CardinalityType
  <2> QED
    BY <2>1, <2>2
<1> HIDE DEF full
<1>2. CASE Cardinality(full) = cap
  <2>1. PICK m \in Least(full) : r = [heap |-> full \ {m}, leaked |-> {m}]
    BY <1>2 DEF Push, full
  <2>2. m \in full /\ \A u \in full : m.score <= u.score
    BY DEF Least
  <2>3. IsFiniteSet(full \ {m}) /\ Cardinality(full \ {m}) = cap - 1
    BY <1>1, <1>2, <2>2, FS_RemoveElement
  <2>4. IsFiniteSet({m})
    BY FS_Singleton, Zenon
  <2>5. r.heap = full \ {m} /\ r.leaked = {m}
    BY <2>1
  <2>6. r.heap \cup r.leaked = full /\ r.heap \cap r.leaked = {}
    BY <2>2, <2>5
  <2>7. \A x \in r.leaked, u \in r.heap : x.score <= u.score
    BY <2>2, <2>5
  <2> QED
    BY <2>3, <2>4, <2>5, <2>6, <2>7 DEF Pushed, full
<1>3. CASE Cardinality(full) # cap
  <2>1. r = [heap |-> full, leaked |-> {}]
    BY <1>3 DEF Push, full
  <2>2. r.heap = full /\ r.leaked = {}
    BY <2>1
  <2> QED
    BY <1>1, <1>3, <2>2, FS_EmptySet DEF Pushed, full
<1> QED
  BY <1>2, <1>3

\* What one run over the filtered iterator guarantees.
Drained(h, known, max, p) ==
  /\ p \subseteq h
  /\ IsFiniteSet(p)
  /\ IsFiniteSet(Fresh(p, known)) /\ Fresh(p, known) \subseteq p
  /\ Cardinality(Fresh(p, known)) \in Nat /\ Cardinality(Fresh(p, known)) <= max
  /\ Cardinality(p \ Fresh(p, known)) = Cardinality(p) - Cardinality(Fresh(p, known))
  /\ IsFiniteSet(p \ Fresh(p, known))
  /\ \A t \in p, u \in h \ p : u.score <= t.score

\* The batch is finite, within its budget, and nothing better stays behind.
LEMMA DrainGood ==
  ASSUME NEW h, NEW known, NEW max \in Nat, NEW p \in Drains(h, known, max),
         IsFiniteSet(h)
  PROVE  Drained(h, known, max, p)
<1>1. p \subseteq h /\ Cardinality(Fresh(p, known)) <= max
      /\ \A t \in p, u \in h \ p : u.score <= t.score
  BY DEF Drains
<1>2. IsFiniteSet(p)
  BY <1>1, FS_Subset
<1> DEFINE f == Fresh(p, known)
<1>3. f \subseteq p
  BY DEF Fresh
<1> HIDE DEF f
<1>4. IsFiniteSet(f) /\ Cardinality(f) \in Nat
  BY <1>2, <1>3, FS_Subset, FS_CardinalityType
<1>5. IsFiniteSet(p \ f) /\ Cardinality(p \ f) = Cardinality(p) - Cardinality(p \cap f)
  BY <1>2, FS_Difference
<1>6. p \cap f = f
  BY <1>3
<1> QED
  BY <1>1, <1>2, <1>3, <1>4, <1>5, <1>6, Zenon DEF Drained, f

\* Counting a disjoint union.
LEMMA DisjointUnion ==
  ASSUME NEW S, NEW T, IsFiniteSet(S), IsFiniteSet(T), S \cap T = {}
  PROVE  /\ IsFiniteSet(S \cup T)
         /\ Cardinality(S \cup T) = Cardinality(S) + Cardinality(T)
         /\ Cardinality(S) \in Nat /\ Cardinality(T) \in Nat
<1>1. Cardinality(S) \in Nat /\ Cardinality(T) \in Nat
  BY FS_CardinalityType
<1>2. Cardinality(S \cap T) = 0
  BY FS_EmptySet
<1>3. IsFiniteSet(S \cup T)
      /\ Cardinality(S \cup T) = Cardinality(S) + Cardinality(T) - Cardinality(S \cap T)
  BY FS_Union
<1> QED
  BY <1>1, <1>2, <1>3

-----------------------------------------------------------------------------
(* The history sets                                                        *)

\* The history of a set has one entry per element.
LEMMA LeftGood ==
  ASSUME NEW s, NEW n, IsFiniteSet(s)
  PROVE  IsFiniteSet(Left(s, n)) /\ Cardinality(Left(s, n)) = Cardinality(s)
<1> DEFINE g == [t \in s |-> [tx |-> t, at |-> n, time |-> now]]
<1>1. g \in Surjection(s, Left(s, n))
  BY DEF Surjection, Left
<1>2. g \in Injection(s, Left(s, n))
  <2>1. g \in [s -> Left(s, n)]
    BY DEF Left
  <2>2. \A t, u \in s : g[t] = g[u] => t = u
    OBVIOUS
  <2> QED
    BY <2>1, <2>2 DEF Injection, IsInjective
<1> QED
  BY <1>1, <1>2, FS_Surjection

\* Each element of the set has an entry, and no two entries share one.
LEMMA LeftEntries ==
  ASSUME NEW s, NEW n
  PROVE  /\ \A e \in Left(s, n) : e.tx \in s /\ e.at = n /\ e.time = now
                                  /\ e \in [tx : s, at : {n}, time : {now}]
         /\ \A m \in s : \E e \in Left(s, n) : e.tx = m
         /\ \A e, f \in Left(s, n) : e.tx = f.tx => e = f
<1>1. \A m \in s : [tx |-> m, at |-> n, time |-> now] \in Left(s, n)
  BY DEF Left
<1>2. \A m \in s : [tx |-> m, at |-> n, time |-> now].tx = m
  OBVIOUS
<1>3. \A m \in s : \E e \in Left(s, n) : e.tx = m
  BY <1>1, <1>2, Zenon
<1>4. \A e \in Left(s, n) : e.tx \in s /\ e.at = n /\ e.time = now
                            /\ e \in [tx : s, at : {n}, time : {now}]
  BY DEF Left
<1>5. \A e, f \in Left(s, n) : e.tx = f.tx => e = f
  BY DEF Left
<1> QED
  BY <1>3, <1>4, <1>5

\* max_send packets per interval are within target_pps.
LEMMA BudgetWithinTarget ==
  MaxSend \in Nat /\ MaxSend * Second <= TargetPps * Interval
<1> DEFINE a == TargetPps * Interval
<1>1. a \in Nat /\ Second \in Nat \ {0}
  BY ContainerAssumption
<1> HIDE DEF a
<1>2. a \div Second \in Nat /\ (a \div Second) * Second <= a
  BY <1>1
<1> QED
  BY <1>2 DEF MaxSend, a

-----------------------------------------------------------------------------
(* The inductive invariant                                                 *)

Handed == sent \cup retrieved

AllFinite ==
  /\ IsFiniteSet(heap) /\ IsFiniteSet(leaked) /\ IsFiniteSet(skipped)
  /\ IsFiniteSet(sent) /\ IsFiniteSet(retrieved)

\* Nothing comes from the future, and no batch is later than last_send.
InThePast ==
  /\ \A t \in heap : t.id <= queued
  /\ \A e \in Gone : e.tx.id <= queued /\ e.at <= queued
  /\ \A e \in Handed : e.time <= last_send

\* The rate limit counted up to the last batch, which makes room for the next.
RateUpToLastSend ==
  \A t \in 0..last_send :
    Cardinality(Since(t)) * Second <= TargetPps * (last_send - t + Interval)

IInv ==
  /\ TypeOK
  /\ AllFinite
  /\ InThePast
  /\ HeapBelowCapacity
  /\ RateUpToLastSend
  /\ NoPriorityInversion
  /\ EveryTransactionAccounted

\* A new container satisfies the invariant.
LEMMA InitGood == Init => IInv
<1> SUFFICES ASSUME Init PROVE IInv
  OBVIOUS
<1> USE ContainerAssumption, FS_EmptySet DEF Init
<1>1. TypeOK
  BY DEF TypeOK
<1>2. AllFinite /\ HeapBelowCapacity
  BY DEF AllFinite, HeapBelowCapacity
<1>3. InThePast /\ NoPriorityInversion
  BY DEF InThePast, NoPriorityInversion, Gone, Handed
<1>4. RateUpToLastSend
  <2>1. \A t : Since(t) = {}
    BY DEF Since
  <2>2. TargetPps * Interval >= 0
    OBVIOUS
  <2> QED
    BY <2>1, <2>2 DEF RateUpToLastSend
<1>5. EveryTransactionAccounted
  BY DEF EveryTransactionAccounted, Gone
<1> QED
  BY <1>1, <1>2, <1>3, <1>4, <1>5 DEF IInv

\* queue keeps the invariant.
LEMMA QueueGood == IInv /\ Queue => IInv'
<1> SUFFICES ASSUME IInv, Queue PROVE IInv'
  OBVIOUS
<1> USE ContainerAssumption
<1>1. PICK score \in Scores, sig \in Sigs :
        \E r \in Push(heap, [id |-> queued + 1, score |-> score, sig |-> sig], HeapCapacity) :
             /\ heap' = r.heap
             /\ leaked' = leaked \cup Left(r.leaked, queued + 1)
             /\ stats' = [stats EXCEPT !.leaked_priority = @ + Cardinality(r.leaked)]
  BY DEF Queue
<1> DEFINE t == [id |-> queued + 1, score |-> score, sig |-> sig]
<1>2. PICK r \in Push(heap, t, HeapCapacity) :
             /\ heap' = r.heap
             /\ leaked' = leaked \cup Left(r.leaked, queued + 1)
             /\ stats' = [stats EXCEPT !.leaked_priority = @ + Cardinality(r.leaked)]
  BY <1>1
<1>3. queued < MaxQueued /\ queued' = queued + 1
      /\ UNCHANGED <<now, last_send, recent, sent, retrieved, skipped>>
  BY DEF Queue
<1>4. queued \in Nat /\ t \in Tx /\ t.id = queued + 1
  BY <1>3 DEF IInv, TypeOK, Tx
<1> HIDE DEF t
<1>5. Pushed(heap, t, HeapCapacity, r)
  BY PushGood DEF IInv, AllFinite, HeapBelowCapacity
<1> DEFINE out == r.leaked
<1> DEFINE new == Left(out, queued + 1)
<1>6. /\ heap' \cup out = heap \cup {t}
      /\ heap' \cap out = {}
      /\ \A m \in out, u \in heap' : m.score <= u.score
      /\ IsFiniteSet(heap') /\ Cardinality(heap') < HeapCapacity
      /\ IsFiniteSet(out)
  BY <1>2, <1>5 DEF Pushed
<1>7. IsFiniteSet(new) /\ Cardinality(new) = Cardinality(out)
  BY <1>6, LeftGood
<1>8. leaked' = leaked \cup new
      /\ stats' = [stats EXCEPT !.leaked_priority = @ + Cardinality(out)]
  BY <1>2
<1>9. \A e \in new : e.tx \in out /\ e.at = queued + 1 /\ e.time = now
                     /\ e \in [tx : out, at : {queued + 1}, time : {now}]
  BY DEF Left
<1>10. \A m \in out : \E e \in new : e.tx = m
  BY LeftEntries
<1>11. \A e, f \in new : e.tx = f.tx => e = f
  BY LeftEntries
<1> HIDE DEF new, out
<1>12. heap \subseteq Tx /\ heap \cup {t} \subseteq Tx /\ out \subseteq Tx /\ heap' \subseteq Tx
  BY <1>4, <1>6 DEF IInv, TypeOK
<1>13. \A u \in heap \cup {t} : u.id <= queued + 1
  BY <1>4, <1>12 DEF IInv, InThePast, Tx
<1>14. Gone' = Gone \cup new /\ Handed' = Handed
  BY <1>3, <1>8 DEF Gone, Handed
<1>20. Cardinality(out) \in Nat
  BY <1>6, FS_CardinalityType
<1>21. TypeOK'
  <2>1. new \subseteq [tx : Tx, at : 0..MaxQueued, time : 0..now]
    BY <1>3, <1>4, <1>9, <1>12 DEF IInv, TypeOK
  <2>2. stats' \in [leaked_priority : Nat, recently_processed_queued : Nat,
                    banking_transmissions : Nat]
    BY <1>8, <1>20 DEF IInv, TypeOK
  <2>3. queued' \in 0..MaxQueued
    BY <1>3 DEF IInv, TypeOK
  <2>4. leaked' \subseteq [tx : Tx, at : 0..MaxQueued, time : 0..now]
    BY <1>8, <2>1 DEF IInv, TypeOK
  <2> QED
    BY <1>3, <1>12, <2>2, <2>3, <2>4 DEF IInv, TypeOK
<1>22. AllFinite'
  BY <1>3, <1>6, <1>7, <1>8, FS_Union, Zenon DEF IInv, AllFinite
<1>23. InThePast'
  <2>1. \A e \in Gone : e.tx.id \in Int /\ e.at \in Int
    BY DEF IInv, TypeOK, Gone, Tx
  <2>2. \A e \in new : e.tx.id <= queued + 1 /\ e.at <= queued + 1
    BY <1>4, <1>6, <1>9, <1>13
  <2>3. \A e \in Gone' : e.tx.id <= queued' /\ e.at <= queued'
    BY <1>3, <1>4, <1>14, <2>1, <2>2 DEF IInv, InThePast
  <2>4. \A u \in heap' : u.id <= queued'
    BY <1>3, <1>6, <1>13
  <2> QED
    BY <1>3, <1>14, <2>3, <2>4 DEF IInv, InThePast
<1>24. HeapBelowCapacity'
  BY <1>6 DEF HeapBelowCapacity
<1>25. RateUpToLastSend'
  BY <1>3 DEF IInv, RateUpToLastSend, Since
<1>26. NoPriorityInversion'
  <2> SUFFICES ASSUME NEW u \in heap'
               PROVE  /\ \A e \in Handed' : u.id <= e.at => u.score <= e.tx.score
                      /\ \A e \in leaked' : u.id <= e.at => e.tx.score <= u.score
    BY DEF NoPriorityInversion, Handed
  <2>1. u \in heap \/ u = t
    BY <1>6
  <2>2. \A e \in Handed \cup leaked : e.at \in Int /\ e.at <= queued
    BY DEF IInv, TypeOK, InThePast, Gone, Handed
  <2>3. \A e \in Handed : u.id <= e.at => u.score <= e.tx.score
    BY <1>4, <2>1, <2>2 DEF IInv, NoPriorityInversion, Handed
  <2>4. \A e \in leaked : u.id <= e.at => e.tx.score <= u.score
    BY <1>4, <2>1, <2>2 DEF IInv, NoPriorityInversion
  <2>5. \A e \in new : e.tx.score <= u.score
    BY <1>6, <1>9
  <2> QED
    BY <1>8, <1>14, <2>3, <2>4, <2>5
<1>27. EveryTransactionAccounted'
  <2> DEFINE all == heap \cup {e.tx : e \in Gone}
  <2>1. /\ \A id \in 1..queued : \E u \in all : u.id = id
        /\ \A u, v \in all : u.id = v.id => u = v
        /\ \A e \in Gone : e.tx \notin heap
        /\ \A e, f \in Gone : e.tx = f.tx => e = f
    BY DEF IInv, EveryTransactionAccounted
  <2>2. \A u \in all : u.id \in Int /\ u.id <= queued
    BY DEF IInv, InThePast, TypeOK, Tx, Gone
  <2>3. heap' \cup {e.tx : e \in Gone'} = all \cup {t}
    <3>1. {e.tx : e \in Gone'} = {e.tx : e \in Gone} \cup out
      BY <1>9, <1>10, <1>14
    <3> QED
      BY <1>6, <3>1
  <2>4. \A id \in 1..queued' : \E u \in all \cup {t} : u.id = id
    <3> SUFFICES ASSUME NEW id \in 1..queued' PROVE \E u \in all \cup {t} : u.id = id
      OBVIOUS
    <3>1. CASE id = queued + 1
      BY <1>4, <3>1
    <3>2. CASE id # queued + 1
      <4>1. id \in 1..queued
        BY <1>3, <1>4, <3>2
      <4> QED
        BY <2>1, <4>1
    <3> QED
      BY <3>1, <3>2
  <2>5. \A u, v \in all \cup {t} : u.id = v.id => u = v
    BY <1>4, <2>1, <2>2
  <2>6. t \notin all
    BY <1>4, <2>2
  <2>7. \A e \in Gone' : e.tx \notin heap'
    <3>1. \A e \in Gone : e.tx \in all /\ e.tx \notin heap
      BY <2>1
    <3>2. \A e \in Gone : e.tx \notin heap'
      BY <1>6, <2>6, <3>1
    <3>3. \A e \in new : e.tx \notin heap'
      BY <1>6, <1>9
    <3> QED
      BY <1>14, <3>2, <3>3
  <2>8. \A e \in Gone, f \in new : e.tx # f.tx
    <3>1. \A e \in Gone : e.tx \in all /\ e.tx \notin heap
      BY <2>1
    <3>2. \A f \in new : f.tx \in heap \cup {t}
      BY <1>6, <1>9
    <3> QED
      BY <2>6, <3>1, <3>2
  <2>9. \A e, f \in Gone' : e.tx = f.tx => e = f
    BY <1>11, <1>14, <2>1, <2>8
  <2>10. Gone \cap new = {}
    BY <2>8
  <2>11. leaked' \cap skipped' = {} /\ sent' \cap retrieved' = {}
         /\ (leaked' \cup skipped') \cap (sent' \cup retrieved') = {}
    BY <1>3, <1>8, <2>10 DEF IInv, EveryTransactionAccounted, Gone
  <2>12. Cardinality(leaked') = Cardinality(leaked) + Cardinality(new)
    <3>1. leaked \cap new = {}
      BY <2>10 DEF Gone
    <3> QED
      BY <1>7, <1>8, <3>1, DisjointUnion, Zenon DEF IInv, AllFinite
  <2>13. stats'.leaked_priority = Cardinality(leaked')
         /\ stats'.recently_processed_queued = Cardinality(skipped')
         /\ stats'.banking_transmissions = Cardinality(sent')
    BY <1>3, <1>7, <1>8, <2>12 DEF IInv, EveryTransactionAccounted, TypeOK
  <2> HIDE DEF all
  <2> QED
    BY <2>3, <2>4, <2>5, <2>7, <2>9, <2>11, <2>13 DEF EveryTransactionAccounted
<1> QED
  BY <1>21, <1>22, <1>23, <1>24, <1>25, <1>26, <1>27 DEF IInv

-----------------------------------------------------------------------------
(* What maybe_transmit and maybe_retrieve have in common                   *)

Batch(p, f) ==
  /\ SendTick
  /\ p \subseteq heap /\ f \subseteq p
  /\ IsFiniteSet(p) /\ IsFiniteSet(f) /\ IsFiniteSet(p \ f)
  /\ Cardinality(f) <= MaxSend
  /\ \A t \in p, u \in heap \ p : u.score <= t.score
  /\ heap' = heap \ p
  /\ skipped' = skipped \cup Left(p \ f, queued)
  /\ \/ sent' = sent \cup Left(f, queued) /\ retrieved' = retrieved
     \/ retrieved' = retrieved \cup Left(f, queued) /\ sent' = sent
  /\ last_send' = now \/ (last_send' = last_send /\ f = {})
  /\ UNCHANGED <<now, recent, queued, leaked>>

BatchStats(p, f) ==
  /\ stats' \in [leaked_priority : Nat, recently_processed_queued : Nat,
                 banking_transmissions : Nat]
  /\ stats'.leaked_priority = stats.leaked_priority
  /\ stats'.recently_processed_queued =
       stats.recently_processed_queued + Cardinality(p \ f)
  /\ stats'.banking_transmissions = stats.banking_transmissions
       + IF sent' = sent THEN 0 ELSE Cardinality(f)

\* A batch keeps the rate: it makes up for the interval since the last one.
LEMMA BatchRate ==
  ASSUME IInv, NEW p, NEW f, Batch(p, f)
  PROVE  RateUpToLastSend'
<1> USE ContainerAssumption
<1>1. CASE last_send' = last_send /\ f = {}
  <2>1. Left(f, queued) = {}
    BY <1>1 DEF Left
  <2>2. sent' = sent /\ retrieved' = retrieved
    BY <2>1 DEF Batch
  <2> QED
    BY <1>1, <2>2 DEF IInv, RateUpToLastSend, Since
<1>2. CASE last_send' = now
  <2> DEFINE new == Left(f, queued)
  <2>1. IsFiniteSet(new) /\ Cardinality(new) = Cardinality(f)
    BY LeftGood DEF Batch
  <2>2. Cardinality(new) \in Nat /\ Cardinality(new) <= MaxSend
    BY <2>1, FS_CardinalityType DEF Batch
  <2>3. Cardinality(new) * Second <= TargetPps * Interval
    <3> DEFINE n == Cardinality(new)
    <3>1. n \in Nat /\ n <= MaxSend /\ MaxSend \in Nat /\ Second \in Nat
      BY <2>2, BudgetWithinTarget
    <3> HIDE DEF n
    <3>2. n * Second <= MaxSend * Second
      BY <3>1
    <3>3. n * Second \in Int /\ MaxSend * Second \in Int /\ TargetPps * Interval \in Int
      BY <3>1
    <3> QED
      BY <3>2, <3>3, BudgetWithinTarget DEF n
  <2>4. \A t : Since(t)' \subseteq Since(t) \cup new
    BY DEF Since, Batch
  <2> HIDE DEF new
  <2>5. now \in Nat /\ last_send \in Nat /\ now - last_send >= Interval
    BY DEF IInv, TypeOK, Batch, SendTick
  <2> SUFFICES ASSUME NEW t \in 0..now
               PROVE  Cardinality(Since(t)') * Second <= TargetPps * (now - t + Interval)
    BY <1>2 DEF RateUpToLastSend
  <2>6. IsFiniteSet(Since(t))
    <3>1. IsFiniteSet(sent \cup retrieved)
      BY FS_Union, Zenon DEF IInv, AllFinite
    <3> QED
      BY <3>1, FS_Subset DEF Since
  <2>7. Cardinality(Since(t)') \in Nat /\ Cardinality(Since(t)) \in Nat
        /\ Cardinality(Since(t)') <= Cardinality(Since(t)) + Cardinality(new)
    <3>1. IsFiniteSet(Since(t) \cup new)
          /\ Cardinality(Since(t) \cup new) =
               Cardinality(Since(t)) + Cardinality(new) - Cardinality(Since(t) \cap new)
      BY <2>1, <2>6, FS_Union
    <3>2. Cardinality(Since(t) \cap new) \in Nat
      BY <2>1, FS_Subset, FS_CardinalityType
    <3>3. Cardinality(Since(t)) \in Nat
      BY <2>6, FS_CardinalityType
    <3>4. IsFiniteSet(Since(t)') /\ Cardinality(Since(t)') <= Cardinality(Since(t) \cup new)
      BY <2>4, <3>1, FS_Subset
    <3>5. Cardinality(Since(t)') \in Nat
      BY <3>4, FS_CardinalityType
    <3> QED
      BY <2>2, <3>1, <3>2, <3>3, <3>4, <3>5
  <2> DEFINE a == Cardinality(Since(t)')
  <2> DEFINE b == Cardinality(Since(t))
  <2> DEFINE n == Cardinality(new)
  <2>8. a \in Nat /\ b \in Nat /\ n \in Nat /\ a <= b + n /\ n * Second <= TargetPps * Interval
    BY <2>2, <2>3, <2>7
  <2>9. b * Second <= TargetPps * (now - t)
    <3>1. CASE t <= last_send
      <4>1. b * Second <= TargetPps * (last_send - t + Interval)
        BY <2>5, <3>1 DEF IInv, RateUpToLastSend
      <4> DEFINE x == last_send - t + Interval
      <4> DEFINE y == now - t
      <4>2. x \in Nat /\ y \in Nat /\ x <= y
        BY <2>5, <3>1
      <4> HIDE DEF x, y, b
      <4>3. TargetPps * x <= TargetPps * y /\ TargetPps * x \in Int /\ TargetPps * y \in Int
        BY <4>2
      <4>4. b * Second <= TargetPps * x /\ b * Second \in Int
        BY <2>8, <4>1 DEF x
      <4> QED
        BY <4>3, <4>4 DEF y
    <3>2. CASE t > last_send
      <4>1. Since(t) = {}
        BY <2>5, <3>2 DEF IInv, InThePast, TypeOK, Handed, Since
      <4>2. b = 0
        BY <4>1, FS_EmptySet
      <4>3. TargetPps * (now - t) \in Nat
        BY <2>5
      <4> QED
        BY <4>2, <4>3
    <3> QED
      BY <2>5, <3>1, <3>2
  <2> HIDE DEF a, b, n
  <2>10. a * Second <= (b + n) * Second /\ a * Second \in Int
    BY <2>8
  <2>11. (b + n) * Second = b * Second + n * Second /\ b * Second \in Int /\ n * Second \in Int
    BY <2>8
  <2>12. TargetPps * (now - t + Interval) = TargetPps * (now - t) + TargetPps * Interval
         /\ TargetPps * (now - t) \in Int /\ TargetPps * Interval \in Int
    BY <2>5
  <2> QED
    BY <2>8, <2>9, <2>10, <2>11, <2>12 DEF a
<1> QED
  BY <1>1, <1>2 DEF Batch

\* A batch moves its transactions from the heap to the history, each once.
LEMMA BatchAccounted ==
  ASSUME IInv, NEW p, NEW f, Batch(p, f), BatchStats(p, f)
  PROVE  EveryTransactionAccounted'
<1> DEFINE nf == Left(f, queued)
<1> DEFINE ns == Left(p \ f, queued)
<1>1. heap' = heap \ p /\ p \subseteq heap /\ f \subseteq p /\ leaked' = leaked
      /\ queued' = queued /\ skipped' = skipped \cup ns
  BY DEF Batch
<1>2. \/ sent' = sent \cup nf /\ retrieved' = retrieved
      \/ retrieved' = retrieved \cup nf /\ sent' = sent
  BY DEF Batch
<1>3. /\ \A e \in nf : e.tx \in f
      /\ \A m \in f : \E e \in nf : e.tx = m
      /\ \A e, g \in nf : e.tx = g.tx => e = g
  BY LeftEntries
<1>4. /\ \A e \in ns : e.tx \in p \ f
      /\ \A m \in p \ f : \E e \in ns : e.tx = m
      /\ \A e, g \in ns : e.tx = g.tx => e = g
  BY LeftEntries
<1>5. IsFiniteSet(nf) /\ Cardinality(nf) = Cardinality(f)
  BY LeftGood DEF Batch
<1>6. IsFiniteSet(ns) /\ Cardinality(ns) = Cardinality(p \ f)
  BY LeftGood DEF Batch
<1> HIDE DEF nf, ns
<1>7. Gone' = Gone \cup nf \cup ns
  BY <1>1, <1>2 DEF Gone
<1> DEFINE all == heap \cup {e.tx : e \in Gone}
<1>8. /\ \A id \in 1..queued : \E u \in all : u.id = id
      /\ \A u, v \in all : u.id = v.id => u = v
      /\ \A e \in Gone : e.tx \notin heap
      /\ \A e, g \in Gone : e.tx = g.tx => e = g
  BY DEF IInv, EveryTransactionAccounted
<1>9. heap' \cup {e.tx : e \in Gone'} = all
  <2>1. {e.tx : e \in Gone'} = {e.tx : e \in Gone} \cup p
    BY <1>1, <1>3, <1>4, <1>7
  <2> QED
    BY <1>1, <2>1
<1> HIDE DEF all
<1>10. \A e \in Gone' : e.tx \notin heap'
  BY <1>1, <1>3, <1>4, <1>7, <1>8
<1>11. \A e \in Gone, g \in nf \cup ns : e.tx # g.tx
  BY <1>1, <1>3, <1>4, <1>8
<1>12. \A e \in nf, g \in ns : e.tx # g.tx
  BY <1>3, <1>4
<1>13. \A e, g \in Gone' : e.tx = g.tx => e = g
  BY <1>3, <1>4, <1>7, <1>8, <1>11, <1>12
<1>14. Gone \cap nf = {} /\ Gone \cap ns = {} /\ nf \cap ns = {}
  BY <1>11, <1>12
<1>15. leaked \cap skipped = {} /\ sent \cap retrieved = {}
       /\ (leaked \cup skipped) \cap (sent \cup retrieved) = {}
  BY DEF IInv, EveryTransactionAccounted
<1>16. leaked \subseteq Gone /\ skipped \subseteq Gone /\ sent \subseteq Gone
       /\ retrieved \subseteq Gone
  BY DEF Gone
<1>17. leaked' \cap skipped' = {} /\ sent' \cap retrieved' = {}
       /\ (leaked' \cup skipped') \cap (sent' \cup retrieved') = {}
  BY <1>1, <1>2, <1>14, <1>15, <1>16
<1>18. Cardinality(skipped') = Cardinality(skipped) + Cardinality(p \ f)
  <2>1. skipped \cap ns = {} /\ IsFiniteSet(skipped)
    BY <1>14, <1>16 DEF IInv, AllFinite
  <2> QED
    BY <1>1, <1>6, <2>1, DisjointUnion, Zenon
<1>19. Cardinality(sent') = Cardinality(sent) + IF sent' = sent THEN 0 ELSE Cardinality(f)
  <2>1. sent \cap nf = {} /\ IsFiniteSet(sent)
    BY <1>14, <1>16 DEF IInv, AllFinite
  <2>2. Cardinality(sent) \in Nat
    BY <2>1, FS_CardinalityType
  <2>3. CASE sent' = sent
    BY <2>2, <2>3
  <2>4. CASE sent' # sent
    <3>1. sent' = sent \cup nf
      BY <1>2, <2>4
    <3>2. Cardinality(sent \cup nf) = Cardinality(sent) + Cardinality(nf)
      BY <1>5, <2>1, DisjointUnion
    <3> QED
      BY <1>5, <2>4, <3>1, <3>2
  <2> QED
    BY <2>3, <2>4
<1>20. stats'.leaked_priority = Cardinality(leaked')
       /\ stats'.recently_processed_queued = Cardinality(skipped')
       /\ stats'.banking_transmissions = Cardinality(sent')
  <2>1. stats.leaked_priority = Cardinality(leaked)
        /\ stats.recently_processed_queued = Cardinality(skipped)
        /\ stats.banking_transmissions = Cardinality(sent)
    BY DEF IInv, EveryTransactionAccounted
  <2> QED
    BY <1>1, <1>18, <1>19, <2>1 DEF BatchStats
<1> QED
  BY <1>1, <1>8, <1>9, <1>10, <1>13, <1>17, <1>20 DEF EveryTransactionAccounted, all

\* A batch keeps the invariant.
LEMMA BatchGood ==
  ASSUME IInv, NEW p, NEW f, Batch(p, f), BatchStats(p, f)
  PROVE  IInv'
<1> DEFINE nf == Left(f, queued)
<1> DEFINE ns == Left(p \ f, queued)
<1>1. heap' = heap \ p /\ p \subseteq heap /\ f \subseteq p /\ skipped' = skipped \cup ns
      /\ UNCHANGED <<now, recent, queued, leaked>>
  BY DEF Batch
<1>2. \/ sent' = sent \cup nf /\ retrieved' = retrieved
      \/ retrieved' = retrieved \cup nf /\ sent' = sent
  BY DEF Batch
<1>3. \A e \in nf : e.tx \in f /\ e.at = queued /\ e.time = now
                    /\ e \in [tx : f, at : {queued}, time : {now}]
  BY LeftEntries
<1>4. \A e \in ns : e.tx \in p \ f /\ e.at = queued /\ e.time = now
                    /\ e \in [tx : p \ f, at : {queued}, time : {now}]
  BY LeftEntries
<1>5. IsFiniteSet(nf) /\ IsFiniteSet(ns)
  BY LeftGood DEF Batch
<1>6. f = {} => nf = {}
  BY DEF Left
<1> HIDE DEF nf, ns
<1>7. Gone' = Gone \cup nf \cup ns /\ Handed' = Handed \cup nf
  BY <1>1, <1>2 DEF Gone, Handed
<1>8. heap \subseteq Tx /\ now \in Nat /\ queued \in 0..MaxQueued /\ last_send \in 0..now
      /\ now \in 0..MaxNow
  BY ContainerAssumption DEF IInv, TypeOK
<1>9. last_send' = now \/ (last_send' = last_send /\ f = {})
  BY DEF Batch
<1>21. TypeOK'
  <2> DEFINE H == [tx : Tx, at : 0..MaxQueued, time : 0..now]
  <2>1. leaked \subseteq H /\ sent \subseteq H /\ retrieved \subseteq H /\ skipped \subseteq H
    BY DEF IInv, TypeOK
  <2>2. nf \subseteq H /\ ns \subseteq H
    BY <1>1, <1>3, <1>4, <1>8
  <2> HIDE DEF H
  <2>3. leaked' \subseteq H /\ sent' \subseteq H /\ retrieved' \subseteq H /\ skipped' \subseteq H
    BY <1>1, <1>2, <2>1, <2>2
  <2>4. heap' \subseteq Tx /\ last_send' \in 0..now
    BY <1>1, <1>8, <1>9
  <2>5. recent' \subseteq Sigs
    BY <1>1 DEF IInv, TypeOK
  <2> QED
    BY <1>1, <1>8, <2>3, <2>4, <2>5 DEF TypeOK, BatchStats, H
<1>22. AllFinite'
  <2>1. IsFiniteSet(heap \ p)
    BY FS_Difference, Zenon DEF IInv, AllFinite
  <2>2. IsFiniteSet(sent \cup nf) /\ IsFiniteSet(retrieved \cup nf) /\ IsFiniteSet(skipped \cup ns)
    BY <1>5, FS_Union, Zenon DEF IInv, AllFinite
  <2> QED
    BY <1>1, <1>2, <2>1, <2>2 DEF IInv, AllFinite
<1>23. InThePast'
  <2>1. \A t \in heap : t.id <= queued
    BY DEF IInv, InThePast
  <2>2. \A e \in nf \cup ns : e.tx.id <= queued /\ e.at <= queued
    BY <1>1, <1>3, <1>4, <1>8, <2>1
  <2>3. \A e \in Handed : e.time <= last_send /\ e.time \in Int
    BY DEF IInv, InThePast, TypeOK, Handed
  <2>4. \A e \in Handed' : e.time <= last_send'
    <3>1. CASE last_send' = now
      BY <1>3, <1>7, <1>8, <2>3, <3>1
    <3>2. CASE last_send' = last_send /\ f = {}
      BY <1>6, <1>7, <2>3, <3>2
    <3> QED
      BY <1>9, <3>1, <3>2
  <2>5. \A e \in Gone : e.tx.id <= queued /\ e.at <= queued
    BY DEF IInv, InThePast
  <2> QED
    BY <1>1, <1>7, <2>1, <2>2, <2>4, <2>5 DEF InThePast
<1>24. HeapBelowCapacity'
  <2>1. IsFiniteSet(heap) /\ Cardinality(heap) < HeapCapacity
    BY DEF IInv, AllFinite, HeapBelowCapacity
  <2>2. IsFiniteSet(heap \ p) /\ Cardinality(heap \ p) <= Cardinality(heap)
    BY <2>1, FS_Subset
  <2>3. Cardinality(heap) \in Nat /\ Cardinality(heap \ p) \in Nat
    BY <2>1, <2>2, FS_CardinalityType
  <2> QED
    BY <1>1, <2>1, <2>2, <2>3, ContainerAssumption DEF HeapBelowCapacity
<1>25. RateUpToLastSend'
  BY BatchRate
<1>26. NoPriorityInversion'
  <2> SUFFICES ASSUME NEW u \in heap'
               PROVE  /\ \A e \in Handed' : u.id <= e.at => u.score <= e.tx.score
                      /\ \A e \in leaked' : u.id <= e.at => e.tx.score <= u.score
    BY DEF NoPriorityInversion, Handed
  <2>1. u \in heap /\ u \in heap \ p
    BY <1>1
  <2>2. \A e \in nf : u.score <= e.tx.score
    BY <1>1, <1>3, <2>1 DEF Batch
  <2>3. /\ \A e \in Handed : u.id <= e.at => u.score <= e.tx.score
        /\ \A e \in leaked : u.id <= e.at => e.tx.score <= u.score
    BY <2>1 DEF IInv, NoPriorityInversion, Handed
  <2> QED
    BY <1>1, <1>7, <2>2, <2>3
<1>27. EveryTransactionAccounted'
  BY BatchAccounted
<1> QED
  BY <1>21, <1>22, <1>23, <1>24, <1>25, <1>26, <1>27 DEF IInv

\* maybe_transmit is a batch.
LEMMA TransmitGood == IInv /\ MaybeTransmit => IInv'
<1> SUFFICES ASSUME IInv, MaybeTransmit PROVE IInv'
  OBVIOUS
<1>1. PICK p \in Drains(heap, recent, MaxSend) :
        /\ Skip(recent, p)
        /\ sent' = sent \cup Left(Fresh(p, recent), queued)
        /\ stats' = [stats EXCEPT
             !.banking_transmissions = @ + Cardinality(Fresh(p, recent)),
             !.recently_processed_queued =
                @ + Cardinality(p) - Cardinality(Fresh(p, recent))]
        /\ last_send' = IF Cardinality(Fresh(p, recent)) > 0 THEN now ELSE last_send
  BY Zenon DEF MaybeTransmit
<1> DEFINE f == Fresh(p, recent)
<1>2. Drained(heap, recent, MaxSend, p)
  BY DrainGood, BudgetWithinTarget DEF IInv, AllFinite
<1>3. p \subseteq heap /\ f \subseteq p /\ IsFiniteSet(p) /\ IsFiniteSet(f)
      /\ IsFiniteSet(p \ f) /\ Cardinality(f) \in Nat /\ Cardinality(f) <= MaxSend
      /\ Cardinality(p \ f) = Cardinality(p) - Cardinality(f)
      /\ \A t \in p, u \in heap \ p : u.score <= t.score
  BY <1>2 DEF Drained
<1>4. Cardinality(p) \in Nat /\ Cardinality(p \ f) \in Nat
  BY <1>3, FS_CardinalityType
<1>5. SendTick /\ UNCHANGED <<now, recent, queued, leaked, retrieved>>
  BY DEF MaybeTransmit
<1>6. heap' = heap \ p /\ skipped' = skipped \cup Left(p \ f, queued)
      /\ sent' = sent \cup Left(f, queued)
      /\ last_send' = (IF Cardinality(f) > 0 THEN now ELSE last_send)
  BY <1>1 DEF Skip
<1>7. stats' = [stats EXCEPT !.banking_transmissions = @ + Cardinality(f),
                !.recently_processed_queued = @ + Cardinality(p) - Cardinality(f)]
  BY <1>1
<1>8. Cardinality(Left(f, queued)) = Cardinality(f) /\ IsFiniteSet(Left(f, queued))
  BY <1>3, LeftGood
<1> HIDE DEF f
<1>9. Batch(p, f)
  <2>1. last_send' = now \/ (last_send' = last_send /\ f = {})
    <3>1. CASE Cardinality(f) > 0
      BY <1>6, <3>1
    <3>2. CASE ~(Cardinality(f) > 0)
      <4>1. Cardinality(f) = 0
        BY <1>3, <3>2
      <4>2. f = {}
        BY <1>3, <4>1, FS_EmptySet
      <4> QED
        BY <1>6, <3>2, <4>2
    <3> QED
      BY <3>1, <3>2
  <2> QED
    BY <1>3, <1>5, <1>6, <2>1 DEF Batch
<1>10. sent' = sent => Cardinality(f) = 0
  <2> SUFFICES ASSUME sent' = sent PROVE Cardinality(f) = 0
    OBVIOUS
  <2>1. Left(f, queued) \subseteq Gone
    BY <1>6 DEF Gone
  <2>2. \A e \in Left(f, queued) : e.tx \in heap /\ e.tx \notin heap
    BY <1>3, <2>1, LeftEntries DEF IInv, EveryTransactionAccounted
  <2>3. Left(f, queued) = {}
    BY <2>2
  <2> QED
    BY <1>8, <2>3, FS_EmptySet
<1>11. BatchStats(p, f)
  <2>1. stats \in [leaked_priority : Nat, recently_processed_queued : Nat,
                   banking_transmissions : Nat]
    BY DEF IInv, TypeOK
  <2>2. /\ stats'.leaked_priority = stats.leaked_priority
        /\ stats'.recently_processed_queued =
             stats.recently_processed_queued + Cardinality(p) - Cardinality(f)
        /\ stats'.banking_transmissions = stats.banking_transmissions + Cardinality(f)
    BY <1>7, <2>1
  <2>3. stats.recently_processed_queued + Cardinality(p) - Cardinality(f)
          = stats.recently_processed_queued + Cardinality(p \ f)
    BY <1>3, <1>4, <2>1
  <2>4. stats' \in [leaked_priority : Nat, recently_processed_queued : Nat,
                    banking_transmissions : Nat]
    <3>1. stats.recently_processed_queued + Cardinality(p) - Cardinality(f) \in Nat
          /\ stats.banking_transmissions + Cardinality(f) \in Nat
      BY <1>3, <1>4, <2>1, <2>3
    <3> QED
      BY <1>7, <2>1, <3>1, Zenon
  <2>5. stats'.banking_transmissions = stats.banking_transmissions
          + IF sent' = sent THEN 0 ELSE Cardinality(f)
    BY <1>3, <1>10, <2>1, <2>2
  <2> QED
    BY <2>2, <2>3, <2>4, <2>5 DEF BatchStats
<1> QED
  BY <1>9, <1>11, BatchGood

\* maybe_retrieve is a batch, whatever it filters and however far its caller
\* pulls the iterator.
LEMMA RetrieveGood ==
  ASSUME NEW known, IInv, MaybeRetrieve(known)
  PROVE  IInv'
<1>1. PICK limit \in 0..MaxSend : \E p \in Drains(heap, known, limit) :
        /\ Skip(known, p)
        /\ retrieved' = retrieved \cup Left(Fresh(p, known), queued)
        /\ stats' = [stats EXCEPT !.recently_processed_queued =
                       @ + Cardinality(p) - Cardinality(Fresh(p, known))]
  BY DEF MaybeRetrieve
<1>2. PICK p \in Drains(heap, known, limit) :
        /\ Skip(known, p)
        /\ retrieved' = retrieved \cup Left(Fresh(p, known), queued)
        /\ stats' = [stats EXCEPT !.recently_processed_queued =
                       @ + Cardinality(p) - Cardinality(Fresh(p, known))]
  BY <1>1
<1> DEFINE f == Fresh(p, known)
<1>3. limit \in Nat /\ limit <= MaxSend
  BY BudgetWithinTarget
<1>4. Drained(heap, known, limit, p)
  BY <1>3, DrainGood DEF IInv, AllFinite
<1>5. p \subseteq heap /\ f \subseteq p /\ IsFiniteSet(p) /\ IsFiniteSet(f)
      /\ IsFiniteSet(p \ f) /\ Cardinality(f) \in Nat /\ Cardinality(f) <= limit
      /\ Cardinality(p \ f) = Cardinality(p) - Cardinality(f)
      /\ \A t \in p, u \in heap \ p : u.score <= t.score
  BY <1>4 DEF Drained
<1>6. Cardinality(p) \in Nat /\ Cardinality(p \ f) \in Nat /\ Cardinality(f) <= MaxSend
  BY <1>3, <1>5, FS_CardinalityType, BudgetWithinTarget
<1>7. SendTick /\ last_send' = now /\ UNCHANGED <<now, recent, queued, leaked, sent>>
  BY DEF MaybeRetrieve
<1>8. heap' = heap \ p /\ skipped' = skipped \cup Left(p \ f, queued)
      /\ retrieved' = retrieved \cup Left(f, queued)
  BY <1>2 DEF Skip
<1>9. stats' = [stats EXCEPT !.recently_processed_queued = @ + Cardinality(p) - Cardinality(f)]
  BY <1>2
<1> HIDE DEF f
<1>10. Batch(p, f)
  BY <1>5, <1>6, <1>7, <1>8 DEF Batch
<1>11. BatchStats(p, f)
  <2>1. stats \in [leaked_priority : Nat, recently_processed_queued : Nat,
                   banking_transmissions : Nat]
    BY DEF IInv, TypeOK
  <2>2. stats.recently_processed_queued + Cardinality(p) - Cardinality(f)
          = stats.recently_processed_queued + Cardinality(p \ f)
    BY <1>5, <1>6, <2>1
  <2>3. stats.recently_processed_queued + Cardinality(p) - Cardinality(f) \in Nat
    BY <1>6, <2>1, <2>2
  <2>4. /\ stats'.leaked_priority = stats.leaked_priority
        /\ stats'.recently_processed_queued =
             stats.recently_processed_queued + Cardinality(p) - Cardinality(f)
        /\ stats'.banking_transmissions = stats.banking_transmissions
    BY <1>9, <2>1
  <2>5. stats' \in [leaked_priority : Nat, recently_processed_queued : Nat,
                    banking_transmissions : Nat]
    BY <1>9, <2>1, <2>3
  <2>6. stats'.banking_transmissions = stats.banking_transmissions
          + IF sent' = sent THEN 0 ELSE Cardinality(f)
    BY <1>7, <2>1, <2>4
  <2> QED
    BY <2>2, <2>4, <2>5, <2>6 DEF BatchStats
<1> QED
  BY <1>10, <1>11, BatchGood

\* Beyond the types the invariant depends neither on the clock nor on what the
\* cluster confirmed.
LEMMA OnlyTypesChange ==
  ASSUME IInv, TypeOK',
         UNCHANGED <<heap, last_send, stats, queued, leaked, sent, retrieved, skipped>>
  PROVE  IInv'
<1>1. AllFinite'
  BY DEF IInv, AllFinite
<1>2. InThePast' /\ HeapBelowCapacity'
  BY DEF IInv, InThePast, HeapBelowCapacity, Gone, Handed
<1>3. RateUpToLastSend'
  BY DEF IInv, RateUpToLastSend, Since, Handed
<1>4. NoPriorityInversion'
  BY DEF IInv, NoPriorityInversion, Gone, Handed
<1>5. EveryTransactionAccounted'
  BY DEF IInv, EveryTransactionAccounted, Gone, Handed
<1> QED BY <1>1, <1>2, <1>3, <1>4, <1>5 DEF IInv

\* No call, and nothing that happens between calls, breaks the invariant.
LEMMA NextGood == IInv /\ [Next]_vars => IInv'
<1> SUFFICES ASSUME IInv, [Next]_vars PROVE IInv'
  OBVIOUS
<1>1. CASE Queue
  BY <1>1, QueueGood
<1>2. CASE MaybeTransmit
  BY <1>2, TransmitGood
<1>3. CASE MaybeRetrieve(recent)
  BY <1>3, RetrieveGood
<1>4. CASE MaybeRetrieve({})
  BY <1>4, RetrieveGood
<1>0. TypeOK
  BY DEF IInv
<1>5. CASE UNCHANGED vars
  <2>1. TypeOK'
    BY <1>0, <1>5 DEF vars, TypeOK
  <2> QED BY <1>5, <2>1, OnlyTypesChange DEF vars
<1>6. CASE Confirm
  <2>1. TypeOK'
    BY <1>0, <1>6 DEF Confirm, TypeOK
  <2> QED BY <1>6, <2>1, OnlyTypesChange DEF Confirm
<1>7. CASE Tick
  <2>1. now' = now + 1 /\ now < MaxNow
        /\ UNCHANGED <<heap, last_send, recent, stats, queued, leaked, sent, retrieved, skipped>>
    BY <1>7 DEF Tick
  <2>2. now' \in 0..MaxNow /\ last_send \in 0..now' /\ 0..now \subseteq 0..now'
    BY <1>0, <2>1, ContainerAssumption DEF TypeOK
  <2>3. TypeOK'
    BY <1>0, <2>1, <2>2 DEF TypeOK
  <2> QED BY <2>1, <2>3, OnlyTypesChange
<1>8. Queue \/ MaybeTransmit \/ MaybeRetrieve(recent) \/ MaybeRetrieve({})
      \/ Confirm \/ Tick \/ UNCHANGED vars
  BY DEF Next, TooEarly
<1> QED
  BY <1>1, <1>2, <1>3, <1>4, <1>5, <1>6, <1>7, <1>8

\* The invariant holds after every sequence of calls.
LEMMA Invariance == Spec => []IInv
  BY InitGood, NextGood, PTL DEF Spec

\* MinMaxHeap never holds N items between calls.
THEOREM HeapStaysBelowCapacity == Spec => []HeapBelowCapacity
<1>1. IInv => HeapBelowCapacity
  BY DEF IInv
<1> QED
  BY <1>1, Invariance, PTL

\* The container never exceeds --target-pps, in any window of time.
THEOREM RateLimit == Spec => []RateWithinTarget
<1>1. IInv => RateWithinTarget
  <2> SUFFICES ASSUME IInv, NEW t \in 0..now
               PROVE  Cardinality(Since(t)) * Second <= TargetPps * (now - t + Interval)
    BY DEF RateWithinTarget
  <2>1. now \in Nat /\ last_send \in Nat /\ last_send <= now
    BY DEF IInv, TypeOK
  <2>2. CASE t <= last_send
    <3> DEFINE c == Cardinality(Since(t)) * Second
    <3> DEFINE x == last_send - t + Interval
    <3> DEFINE y == now - t + Interval
    <3>1. c <= TargetPps * x
      BY <2>1, <2>2 DEF IInv, RateUpToLastSend
    <3>2. x \in Nat /\ y \in Nat /\ x <= y
      BY <2>1, <2>2, ContainerAssumption
    <3>3. c \in Int
      <4>1. IsFiniteSet(Since(t))
        BY FS_Union, FS_Subset, Zenon DEF IInv, AllFinite, Since
      <4> QED
        BY <4>1, FS_CardinalityType, ContainerAssumption
    <3> HIDE DEF c, x, y
    <3>4. TargetPps * x <= TargetPps * y /\ TargetPps * x \in Int /\ TargetPps * y \in Int
      BY <3>2, ContainerAssumption
    <3> QED
      BY <3>1, <3>3, <3>4 DEF c, y
  <2>3. CASE t > last_send
    <3>1. Since(t) = {}
      BY <2>1, <2>3 DEF IInv, InThePast, TypeOK, Handed, Since
    <3>2. Cardinality(Since(t)) * Second = 0
      BY <3>1, FS_EmptySet, ContainerAssumption
    <3>3. TargetPps * (now - t + Interval) \in Nat
      BY <2>1, ContainerAssumption
    <3> QED
      BY <3>2, <3>3
  <2> QED
    BY <2>1, <2>2, <2>3
<1> QED
  BY <1>1, Invariance, PTL

\* The heap never lets a transaction overtake a better one.
THEOREM PriorityRespected == Spec => []NoPriorityInversion
<1>1. IInv => NoPriorityInversion
  BY DEF IInv
<1> QED
  BY <1>1, Invariance, PTL

\* No transaction is lost unaccounted, sent twice or counted wrongly.
THEOREM Accounting == Spec => []EveryTransactionAccounted
<1>1. IInv => EveryTransactionAccounted
  BY DEF IInv
<1> QED
  BY <1>1, Invariance, PTL

\* An iterator cut off by take(0) pops nothing, confirmed transactions included.
LEMMA NothingDrained ==
  ASSUME NEW h, NEW known, NEW p \in Drains(h, known, 0), IsFiniteSet(h)
  PROVE  p = {} /\ Fresh(p, known) = {}
<1>1. Drained(h, known, 0, p)
  BY DrainGood
<1> DEFINE n == Cardinality(Fresh(p, known))
<1>2. IsFiniteSet(Fresh(p, known)) /\ n \in Nat /\ n <= 0
  BY <1>1 DEF Drained
<1> HIDE DEF n
<1>3. n = 0
  BY <1>2
<1>4. Fresh(p, known) = {}
  BY <1>2, <1>3, FS_EmptySet DEF n
<1> QED
  BY <1>3, <1>4 DEF Drains, n

\* With a target below one transaction per interval (max_send rounds down to 0),
\* maybe_transmit and maybe_retrieve never take anything from the heap: what is
\* queued stays there until push evicts it.
THEOREM SmallTargetSendsNothing ==
  ASSUME TargetPps * Interval < Second
  PROVE  Spec => [](sent = {} /\ retrieved = {} /\ skipped = {})
<1> DEFINE Idle == sent = {} /\ retrieved = {} /\ skipped = {}
<1>1. MaxSend = 0
  <2> DEFINE a == TargetPps * Interval
  <2>1. a \in Nat /\ a < Second /\ Second \in Nat \ {0}
    BY ContainerAssumption
  <2> HIDE DEF a
  <2>2. a \div Second = 0
    BY <2>1
  <2> QED
    BY <2>2 DEF MaxSend, a
<1>2. \A n : Left({}, n) = {}
  BY DEF Left
<1>3. IInv /\ Idle /\ [Next]_vars => Idle'
  <2> SUFFICES ASSUME IInv, Idle, [Next]_vars PROVE Idle'
    OBVIOUS
  <2>1. IsFiniteSet(heap)
    BY DEF IInv, AllFinite
  <2>2. CASE MaybeTransmit
    <3>1. PICK p \in Drains(heap, recent, 0) :
            Skip(recent, p) /\ sent' = sent \cup Left(Fresh(p, recent), queued)
      BY <1>1, <2>2 DEF MaybeTransmit
    <3>2. p = {} /\ Fresh(p, recent) = {}
      BY <2>1, NothingDrained
    <3>3. skipped' = {} /\ sent' = {}
      BY <1>2, <3>1, <3>2 DEF Skip
    <3> QED
      BY <2>2, <3>3 DEF MaybeTransmit
  <2>3. ASSUME NEW known, MaybeRetrieve(known) PROVE Idle'
    <3>1. 0..MaxSend = {0}
      BY <1>1
    <3>2. PICK p \in Drains(heap, known, 0) :
            Skip(known, p) /\ retrieved' = retrieved \cup Left(Fresh(p, known), queued)
      BY <2>3, <3>1 DEF MaybeRetrieve
    <3>3. p = {} /\ Fresh(p, known) = {}
      BY <2>1, NothingDrained
    <3>4. skipped' = {} /\ retrieved' = {}
      BY <1>2, <3>2, <3>3 DEF Skip
    <3> QED
      BY <2>3, <3>4 DEF MaybeRetrieve
  <2>4. CASE Queue \/ Confirm \/ Tick \/ TooEarly \/ UNCHANGED vars
    BY <2>4 DEF Queue, Confirm, Tick, TooEarly, vars
  <2> QED
    BY <2>2, <2>3, <2>4 DEF Next
<1>4. Init => Idle
  BY DEF Init
<1> QED
  BY <1>3, <1>4, Invariance, PTL DEF Spec

\* Type correctness.
THEOREM ContainerTypeCorrect == Spec => []TypeOK
<1>1. IInv => TypeOK
  BY DEF IInv
<1> QED
  BY <1>1, Invariance, PTL
=============================================================================
