--------------------------- MODULE LRUOrderProofs ---------------------------
(***************************************************************************)
(* The steps of the proofs about LRUCache: every call is a composition of  *)
(* the private steps of LRUListProofs and keeps the inductive invariants;  *)
(* the list as a sequence of slots, and what the calls do to it.           *)
(***************************************************************************)
EXTENDS LRURefinement, LRUHistory, LRUListProofs

-----------------------------------------------------------------------------
(* The list as a sequence of slots                                         *)

\* w holds the occupied slots, by falling rank.
Lists(c, rank, w) ==
  /\ w \in Seq(Slots)
  /\ \A n \in 1..Len(w) : c.nodes[w[n]] # None
  /\ \A i \in Slots : c.nodes[i] # None => \E n \in 1..Len(w) : w[n] = i
  /\ \A m, n \in 1..Len(w) : m < n => rank[w[n]] < rank[w[m]]

\* A sequence that falls in rank repeats no slot.
LEMMA ListsOnce ==
  ASSUME NEW c, NEW rank, Good(c, rank), NEW w, Lists(c, rank, w)
  PROVE  \A m, n \in 1..Len(w) : w[m] = w[n] => m = n
<1> SUFFICES ASSUME NEW m \in 1..Len(w), NEW n \in 1..Len(w), w[m] = w[n], m # n
             PROVE  FALSE
  OBVIOUS
<1>1. Len(w) \in Nat /\ w[m] \in Slots /\ rank[w[m]] \in Int
  BY DEF Lists, Good, Ranks
<1>2. m < n \/ n < m
  BY <1>1
<1> QED
  BY <1>1, <1>2 DEF Lists

\* It is a walk along next, from the head to the end.
LEMMA ListsIsWalk ==
  ASSUME NEW c, NEW rank, Good(c, rank), NEW w, Lists(c, rank, w), Len(w) <= N
  PROVE  w \in Paths /\ IsWalk(c, w)
<1>1. /\ Len(w) \in 0..N /\ w \in [1..Len(w) -> Slots]
      /\ \A n \in 1..Len(w) : c.nodes[w[n]] # None
      /\ \A i \in Slots : c.nodes[i] # None => \E n \in 1..Len(w) : w[n] = i
      /\ \A m, n \in 1..Len(w) : m < n => rank[w[n]] < rank[w[m]]
      /\ w = <<>> <=> Len(w) = 0
      /\ rank \in [Slots -> Int]
  <2>1. w \in Seq(Slots)
    BY DEF Lists
  <2>2. w \in [1..Len(w) -> Slots] /\ (w = <<>> <=> Len(w) = 0)
    BY <2>1
  <2>3. Len(w) \in 0..N
    BY <2>1, CapacityAssumption
  <2>4. rank \in [Slots -> Int]
    BY DEF Good, Ranks
  <2> QED
    BY <2>2, <2>3, <2>4 DEF Lists
<1>2. w \in Paths
  BY <1>1 DEF Paths
<1>3. CASE w = <<>>
  <2>1. \A i \in Slots : c.nodes[i] = None
    BY <1>1, <1>3
  <2>2. c.head = None
    BY <2>1 DEF Good, CacheType, Wellformed, ListLinked, Link
  <2> QED
    BY <1>2, <1>3, <2>2 DEF IsWalk
<1>4. CASE w # <<>>
  <2>1. Len(w) \in 1..N /\ 1 \in 1..Len(w) /\ Len(w) \in 1..Len(w)
    BY <1>1, <1>4
  \* An occupied slot with a neighbour below has the next entry there.
  <2>2. ASSUME NEW n \in 1..Len(w), c.nodes[w[n]].next # None
        PROVE  n + 1 \in 1..Len(w) /\ c.nodes[w[n]].next = w[n + 1]
    <3> DEFINE x == c.nodes[w[n]].next
    <3>1. x \in Slots /\ c.nodes[x] # None /\ rank[x] < rank[w[n]]
      <4>1. w[n] \in Slots /\ c.nodes[w[n]] # None
        BY <1>1
      <4>2. x \in Slots
        BY <2>2, <4>1 DEF Good, CacheType, Node, Link
      <4>3. c.nodes[x] # None
        BY Zenon, <2>2, <4>1 DEF Good, Wellformed, ListLinked
      <4> QED
        BY Zenon, <4>1, <4>2, <4>3 DEF Good, SortedBy
    <3>2. \A j \in Slots : c.nodes[j] # None /\ rank[j] < rank[w[n]] => rank[j] <= rank[x]
      BY <1>1 DEF Good, SortedBy
    <3> HIDE DEF x
    <3>3. PICK m \in 1..Len(w) : w[m] = x
      BY <1>1, <3>1
    <3>4. n < m
      <4>1. ~(m < n) /\ m # n
        BY <1>1, <3>1, <3>3
      <4> QED
        BY <1>1, <4>1
    <3>5. n + 1 \in 1..Len(w)
      BY <1>1, <3>4
    <3>6. rank[w[n + 1]] <= rank[x]
      BY <1>1, <3>2, <3>5
    <3>7. ~(n + 1 < m)
      <4> SUFFICES ASSUME n + 1 < m PROVE FALSE
        BY Zenon
      <4>1. rank[x] < rank[w[n + 1]]
        BY Zenon, <1>1, <3>3, <3>5
      <4>2. rank[x] \in Int /\ rank[w[n + 1]] \in Int
        BY Zenon, <1>1, <3>1, <3>5
      <4> QED
        BY <3>6, <4>1, <4>2
    <3>8. m = n + 1
      BY <1>1, <3>4, <3>7
    <3> QED
      BY <3>3, <3>5, <3>8 DEF x
  <2>3. ASSUME NEW n \in 1..(Len(w) - 1)
        PROVE  c.nodes[w[n]].next = w[n + 1]
    <3>1. n \in 1..Len(w) /\ n + 1 \in 1..Len(w) /\ n < n + 1
      BY <2>1
    <3>2. rank[w[n + 1]] < rank[w[n]]
      BY <1>1, <3>1
    <3>3. c.nodes[w[n]].next # None
      BY Zenon, <1>1, <3>1, <3>2 DEF Good, SortedBy
    <3> QED
      BY <2>2, <3>1, <3>3
  <2>4. c.nodes[w[Len(w)]].next = None
    <3>1. ~(Len(w) + 1 \in 1..Len(w))
      BY <2>1
    <3> QED
      BY <2>1, <2>2, <3>1
  <2>5. w[1] = c.head
    <3>1. c.head \in Slots /\ c.nodes[c.head] # None /\ rank[w[1]] <= rank[c.head]
      BY <1>1, <2>1, HeadAndTailRank
    <3>2. PICK m \in 1..Len(w) : w[m] = c.head
      BY <1>1, <3>1
    <3>3. ~(1 < m)
      BY <1>1, <2>1, <3>1, <3>2
    <3> QED
      BY <2>1, <3>2, <3>3
  <2> QED
    BY <1>2, <1>4, <2>3, <2>4, <2>5 DEF IsWalk
<1> QED
  BY <1>3, <1>4

-----------------------------------------------------------------------------
(* What the calls do to the sequence                                       *)

\* Entry p of w goes to the front, is dropped; i is put before w.
ToFront(w, p) ==
  [j \in 1..Len(w) |-> IF j = 1 THEN w[p] ELSE IF j <= p THEN w[j - 1] ELSE w[j]]

Drop(w, p) == [j \in 1..(Len(w) - 1) |-> IF j < p THEN w[j] ELSE w[j + 1]]

Push(w, i) == [j \in 1..(Len(w) + 1) |-> IF j = 1 THEN i ELSE w[j - 1]]

\* A function on 1..n is a sequence of length n.
LEMMA SeqOfLength ==
  ASSUME NEW S, NEW n \in Nat, NEW u \in [1..n -> S]
  PROVE  u \in Seq(S) /\ Len(u) = n
OBVIOUS

\* Push is concatenation in front.
LEMMA PushIsConcat ==
  ASSUME NEW S, NEW y \in Seq(S), NEW a
  PROVE  <<a>> \o y = Push(y, a)
<1>1. y \in Seq(S \cup {a}) /\ <<a>> \in Seq(S \cup {a})
  OBVIOUS
<1>2. /\ <<a>> \o y \in Seq(S \cup {a})
      /\ Len(<<a>> \o y) = Len(y) + 1
      /\ \A j \in 1..(Len(y) + 1) : (<<a>> \o y)[j] = IF j = 1 THEN a ELSE y[j - 1]
  BY <1>1
<1>3. <<a>> \o y = [j \in 1..(Len(y) + 1) |-> (<<a>> \o y)[j]]
  BY <1>2
<1> QED
  BY <1>2, <1>3 DEF Push

\* A touched slot is listed first.
LEMMA ToFrontLists ==
  ASSUME NEW c, NEW rank, Good(c, rank), NEW w, Lists(c, rank, w),
         NEW p \in 1..Len(w), NEW r, Above(c, rank, r), NEW d,
         \A j \in Slots : d.nodes[j] = None <=> c.nodes[j] = None
  PROVE  Lists(d, [rank EXCEPT ![w[p]] = r], ToFront(w, p))
<1> DEFINE u == ToFront(w, p)
           s == [rank EXCEPT ![w[p]] = r]
<1>1. /\ Len(w) \in Nat /\ w \in [1..Len(w) -> Slots]
      /\ \A n \in 1..Len(w) : c.nodes[w[n]] # None
      /\ \A i \in Slots : c.nodes[i] # None => \E n \in 1..Len(w) : w[n] = i
      /\ \A m, n \in 1..Len(w) : m < n => rank[w[n]] < rank[w[m]]
      /\ \A m, n \in 1..Len(w) : w[m] = w[n] => m = n
      /\ rank \in [Slots -> Int] /\ r \in Int
      /\ \A n \in 1..Len(w) : rank[w[n]] < r
  <2>1. w \in Seq(Slots)
    BY DEF Lists
  <2>2. Len(w) \in Nat /\ w \in [1..Len(w) -> Slots]
    BY <2>1
  <2>3. rank \in [Slots -> Int]
    BY DEF Good, Ranks
  <2>4. \A m, n \in 1..Len(w) : w[m] = w[n] => m = n
    BY ListsOnce
  <2>5. /\ \A n \in 1..Len(w) : c.nodes[w[n]] # None
        /\ \A i \in Slots : c.nodes[i] # None => \E n \in 1..Len(w) : w[n] = i
        /\ \A m, n \in 1..Len(w) : m < n => rank[w[n]] < rank[w[m]]
    BY DEF Lists
  <2>6. r \in Int /\ \A n \in 1..Len(w) : rank[w[n]] < r
    BY <2>2, <2>5 DEF Above
  <2> QED
    BY <2>2, <2>3, <2>4, <2>5, <2>6
<1>2. /\ u \in [1..Len(w) -> Slots] /\ u[1] = w[p]
      /\ \A j \in 1..Len(w) : j # 1 /\ j <= p => u[j] = w[j - 1] /\ j - 1 \in 1..Len(w)
      /\ \A j \in 1..Len(w) : j # 1 /\ p < j => u[j] = w[j]
  BY <1>1 DEF ToFront
<1> HIDE DEF u
<1>3. u \in Seq(Slots) /\ Len(u) = Len(w)
  BY <1>1, <1>2
<1>4. /\ s \in [Slots -> Int] /\ s[w[p]] = r
      /\ \A n \in 1..Len(w) : n # p => s[w[n]] = rank[w[n]]
  BY Zenon, <1>1
<1> HIDE DEF s
<1>5. ASSUME NEW n \in 1..Len(u) PROVE d.nodes[u[n]] # None
  <2>1. \E m \in 1..Len(w) : u[n] = w[m]
    <3>1. n = 1 \/ (n # 1 /\ n <= p) \/ (n # 1 /\ p < n)
      BY <1>1, <1>3
    <3>2. n \in 1..Len(w)
      BY Zenon, <1>3
    <3> QED
      BY Zenon, <1>1, <1>2, <3>1, <3>2
  <2>2. PICK m \in 1..Len(w) : u[n] = w[m]
    BY Zenon, <2>1
  <2>3. w[m] \in Slots /\ c.nodes[w[m]] # None
    BY Zenon, <1>1
  <2> QED
    BY Zenon, <2>2, <2>3
<1>6. ASSUME NEW i \in Slots, d.nodes[i] # None
      PROVE  \E n \in 1..Len(u) : u[n] = i
  <2>1. PICK n \in 1..Len(w) : w[n] = i
    BY Zenon, <1>1, <1>6
  <2>2. CASE n = p
    BY <1>1, <1>2, <1>3, <2>1, <2>2
  <2>3. CASE n < p
    <3>1. n + 1 \in 1..Len(w) /\ n + 1 # 1 /\ n + 1 <= p /\ (n + 1) - 1 = n
      BY <1>1, <2>3
    <3> QED
      BY <1>2, <1>3, <2>1, <3>1
  <2>4. CASE p < n
    <3>1. n # 1
      BY <1>1, <2>4
    <3> QED
      BY <1>2, <1>3, <2>1, <2>4, <3>1
  <2>5. n = p \/ n < p \/ p < n
    BY <1>1
  <2> QED
    BY <2>2, <2>3, <2>4, <2>5
<1>7. ASSUME NEW m \in 1..Len(u), NEW n \in 1..Len(u), m < n
      PROVE  s[u[n]] < s[u[m]]
  <2>1. n # 1 /\ m \in Int /\ n \in Int /\ p \in Int
    BY <1>1, <1>3, <1>7
  <2>2. PICK y \in 1..Len(w) :
          /\ u[n] = w[y] /\ y # p /\ (n <= p => y = n - 1) /\ (p < n => y = n)
    <3>1. CASE n <= p
      BY <1>2, <1>3, <2>1, <3>1
    <3>2. CASE p < n
      BY <1>2, <1>3, <2>1, <3>2
    <3> QED
      BY <2>1, <3>1, <3>2
  <2>3. s[u[n]] = rank[w[y]] /\ rank[w[y]] < r /\ w[y] \in Slots
    BY <1>1, <1>4, <2>2, Zenon
  <2>4. CASE m = 1
    BY <1>2, <1>4, <2>3, <2>4
  <2>5. CASE m # 1
    <3>1. PICK x \in 1..Len(w) :
            /\ u[m] = w[x] /\ x # p /\ (m <= p => x = m - 1) /\ (p < m => x = m)
      <4>1. CASE m <= p
        BY <1>2, <1>3, <2>1, <2>5, <4>1
      <4>2. CASE p < m
        BY <1>2, <1>3, <2>1, <2>5, <4>2
      <4> QED
        BY <2>1, <4>1, <4>2
    <3>2. x < y
      BY <1>7, <2>1, <2>2, <3>1
    <3>3. s[u[m]] = rank[w[x]]
      <4>1. s[w[x]] = rank[w[x]] /\ u[m] = w[x]
        BY Zenon, <1>4, <3>1
      <4> QED
        BY <4>1
    <3>4. rank[w[y]] < rank[w[x]]
      BY Zenon, <1>1, <2>2, <3>2
    <3> QED
      BY <2>3, <3>3, <3>4
  <2> QED
    BY <2>4, <2>5
<1>8. Lists(d, s, u)
  BY Zenon, <1>3, <1>5, <1>6, <1>7 DEF Lists
<1> QED
  BY <1>8 DEF s, u

\* A freed slot is no longer listed.
LEMMA DropLists ==
  ASSUME NEW c, NEW rank, Good(c, rank), NEW w, Lists(c, rank, w),
         NEW p \in 1..Len(w), NEW d,
         \A j \in Slots : d.nodes[j] # None <=> c.nodes[j] # None /\ j # w[p]
  PROVE  Lists(d, rank, Drop(w, p))
<1> DEFINE u == Drop(w, p)
<1>1. /\ Len(w) \in Nat /\ w \in [1..Len(w) -> Slots]
      /\ \A n \in 1..Len(w) : c.nodes[w[n]] # None
      /\ \A i \in Slots : c.nodes[i] # None => \E n \in 1..Len(w) : w[n] = i
      /\ \A m, n \in 1..Len(w) : m < n => rank[w[n]] < rank[w[m]]
      /\ \A m, n \in 1..Len(w) : w[m] = w[n] => m = n
  <2>1. \A m, n \in 1..Len(w) : w[m] = w[n] => m = n
    BY ListsOnce
  <2> QED
    BY <2>1 DEF Lists
<1>2. /\ u \in [1..(Len(w) - 1) -> Slots]
      /\ \A j \in 1..(Len(w) - 1) : j < p => u[j] = w[j] /\ j \in 1..Len(w)
      /\ \A j \in 1..(Len(w) - 1) : ~(j < p) => u[j] = w[j + 1] /\ j + 1 \in 1..Len(w)
  BY <1>1 DEF Drop
<1> HIDE DEF u
<1>3. u \in Seq(Slots) /\ Len(u) = Len(w) - 1
  <2>1. Len(w) - 1 \in Nat
    BY <1>1
  <2> QED
    BY <1>2, <2>1, SeqOfLength
<1>4. ASSUME NEW n \in 1..Len(u)
      PROVE  \E y \in 1..Len(w) : u[n] = w[y] /\ y # p /\ y = IF n < p THEN n ELSE n + 1
  BY <1>1, <1>2, <1>3
<1>5. \A n \in 1..Len(u) : d.nodes[u[n]] # None
  BY <1>1, <1>4
<1>6. ASSUME NEW i \in Slots, d.nodes[i] # None
      PROVE  \E n \in 1..Len(u) : u[n] = i
  <2>1. PICK n \in 1..Len(w) : w[n] = i /\ n # p
    BY <1>1, <1>6
  <2>2. CASE n < p
    BY <1>1, <1>2, <1>3, <2>1, <2>2
  <2>3. CASE p < n
    <3>1. n - 1 \in 1..Len(u) /\ ~(n - 1 < p) /\ (n - 1) + 1 = n
      BY <1>1, <1>3, <2>3
    <3> QED
      BY <1>2, <1>3, <2>1, <3>1, Zenon
  <2> QED
    BY <1>1, <2>1, <2>2, <2>3
<1>7. ASSUME NEW m \in 1..Len(u), NEW n \in 1..Len(u), m < n
      PROVE  rank[u[n]] < rank[u[m]]
  <2>1. PICK x \in 1..Len(w) : u[m] = w[x] /\ x = IF m < p THEN m ELSE m + 1
    BY <1>4
  <2>2. PICK y \in 1..Len(w) : u[n] = w[y] /\ y = IF n < p THEN n ELSE n + 1
    BY <1>4
  <2>3. x < y
    BY <1>1, <1>3, <1>7, <2>1, <2>2
  <2> QED
    BY <1>1, <2>1, <2>2, <2>3
<1>8. Lists(d, rank, u)
  BY <1>3, <1>5, <1>6, <1>7 DEF Lists
<1> QED
  BY <1>8 DEF u

\* A filled slot is listed first.
LEMMA PushLists ==
  ASSUME NEW c, NEW rank, Good(c, rank), NEW w, Lists(c, rank, w),
         NEW i \in Slots, c.nodes[i] = None, NEW r, Above(c, rank, r), NEW d,
         \A j \in Slots : d.nodes[j] # None <=> c.nodes[j] # None \/ j = i
  PROVE  Lists(d, [rank EXCEPT ![i] = r], Push(w, i))
<1> DEFINE u == Push(w, i)
           s == [rank EXCEPT ![i] = r]
<1>1. /\ Len(w) \in Nat /\ w \in [1..Len(w) -> Slots]
      /\ \A n \in 1..Len(w) : c.nodes[w[n]] # None
      /\ \A j \in Slots : c.nodes[j] # None => \E n \in 1..Len(w) : w[n] = j
      /\ \A m, n \in 1..Len(w) : m < n => rank[w[n]] < rank[w[m]]
      /\ rank \in [Slots -> Int] /\ r \in Int
      /\ \A n \in 1..Len(w) : rank[w[n]] < r
  BY DEF Lists, Good, Ranks, Above
<1>2. /\ u \in [1..(Len(w) + 1) -> Slots] /\ u[1] = i
      /\ \A j \in 1..(Len(w) + 1) : j # 1 => u[j] = w[j - 1] /\ j - 1 \in 1..Len(w)
  BY <1>1 DEF Push
<1> HIDE DEF u
<1>3. u \in Seq(Slots) /\ Len(u) = Len(w) + 1
  <2>1. Len(w) + 1 \in Nat
    BY <1>1
  <2> QED
    BY <1>2, <2>1, SeqOfLength
<1>4. s[i] = r /\ \A n \in 1..Len(w) : s[w[n]] = rank[w[n]] /\ rank[w[n]] \in Int
  BY <1>1
<1> HIDE DEF s
<1>5. ASSUME NEW n \in 1..Len(u) PROVE d.nodes[u[n]] # None
  <2>1. n = 1 \/ \E m \in 1..Len(w) : u[n] = w[m]
    BY Zenon, <1>2, <1>3
  <2>2. CASE n = 1
    BY Zenon, <1>1, <1>2, <2>2
  <2>3. CASE \E m \in 1..Len(w) : u[n] = w[m]
    <3>1. PICK m \in 1..Len(w) : u[n] = w[m]
      BY Zenon, <2>3
    <3>2. w[m] \in Slots /\ c.nodes[w[m]] # None
      BY Zenon, <1>1
    <3> QED
      BY Zenon, <1>1, <3>1, <3>2
  <2> QED
    BY Zenon, <2>1, <2>2, <2>3
<1>6. ASSUME NEW j \in Slots, d.nodes[j] # None
      PROVE  \E n \in 1..Len(u) : u[n] = j
  <2>1. CASE j = i
    BY <1>1, <1>2, <1>3, <2>1
  <2>2. CASE j # i
    <3>1. PICK n \in 1..Len(w) : w[n] = j
      BY <1>1, <1>6, <2>2
    <3>2. n + 1 \in 1..Len(u) /\ n + 1 # 1 /\ (n + 1) - 1 = n
      BY <1>1, <1>3
    <3> QED
      BY <1>2, <1>3, <3>1, <3>2, Zenon
  <2> QED
    BY <2>1, <2>2
<1>7. ASSUME NEW m \in 1..Len(u), NEW n \in 1..Len(u), m < n
      PROVE  s[u[n]] < s[u[m]]
  <2>1. n # 1 /\ u[n] = w[n - 1] /\ n - 1 \in 1..Len(w)
    BY <1>1, <1>2, <1>3, <1>7
  <2>2. CASE m = 1
    BY <1>1, <1>2, <1>4, <2>1, <2>2
  <2>3. CASE m # 1
    <3>1. u[m] = w[m - 1] /\ m - 1 \in 1..Len(w) /\ m - 1 < n - 1
      BY <1>1, <1>2, <1>3, <1>7, <2>3
    <3>2. rank[w[n - 1]] < rank[w[m - 1]]
      BY Zenon, <1>1, <2>1, <3>1
    <3>3. s[u[n]] = rank[w[n - 1]] /\ s[u[m]] = rank[w[m - 1]]
      BY Zenon, <1>4, <2>1, <3>1
    <3> QED
      BY <3>2, <3>3
  <2> QED
    BY <2>2, <2>3
<1>8. Lists(d, s, u)
  BY <1>3, <1>5, <1>6, <1>7 DEF Lists
<1> QED
  BY <1>8 DEF s, u

-----------------------------------------------------------------------------
(* The recency order                                                       *)

\* A key is in the order when it is mapped, and there where its slot is listed.
LEMMA OrderKeys ==
  ASSUME NEW c, NEW rank, Good(c, rank), NEW w, Lists(c, rank, w), NEW k \in Keys
  PROVE  LET o == EntriesAlong(c, w) IN
         /\ DOMAIN o = 1..Len(w) /\ Len(o) = Len(w) /\ Len(w) \in Nat
         /\ \A n \in 1..Len(w) : o[n] = EntryAt(c, w[n])
         /\ k \in Abstract!KeysOf(o) <=> c.map[k] # None
         /\ c.map[k] # None =>
              /\ Abstract!Place(o, k) \in 1..Len(w)
              /\ w[Abstract!Place(o, k)] = c.map[k]
<1> DEFINE o == EntriesAlong(c, w)
<1>1. DOMAIN o = 1..Len(w) /\ Len(o) = Len(w) /\ Len(w) \in Nat
  BY DEF EntriesAlong, Lists
<1>2. \A n \in 1..Len(w) : o[n] = EntryAt(c, w[n]) /\ o[n].key = c.nodes[w[n]].key
  BY DEF EntriesAlong, EntryAt, Entry
<1> HIDE DEF o
<1>3. \A n \in 1..Len(w) : c.nodes[w[n]].key = k <=> c.map[k] = w[n]
  <2> SUFFICES ASSUME NEW n \in 1..Len(w) PROVE c.nodes[w[n]].key = k <=> c.map[k] = w[n]
    OBVIOUS
  <2>1. w[n] \in Slots /\ c.nodes[w[n]] # None
    BY DEF Lists
  <2>2. c.map[c.nodes[w[n]].key] = w[n]
    BY Zenon, <2>1 DEF Good, Wellformed, MapExact
  <2>3. c.map[k] = w[n] => c.nodes[w[n]].key = k
    BY Zenon, <2>1, NoneAssumption DEF Good, Wellformed, MapExact
  <2> QED
    BY Zenon, <2>2, <2>3
<1>4. c.map[k] # None => \E n \in 1..Len(w) : w[n] = c.map[k]
  BY Zenon DEF Lists, Good, CacheType, Wellformed, MapExact, Link
<1>5. k \in Abstract!KeysOf(o) <=> \E n \in 1..Len(w) : o[n].key = k
  BY <1>1 DEF Abstract!KeysOf
<1>6. k \in Abstract!KeysOf(o) <=> c.map[k] # None
  <2>1. \A n \in 1..Len(w) : w[n] \in Slots
    BY DEF Lists
  <2> QED
    BY <1>2, <1>3, <1>4, <1>5, <2>1, NoneAssumption
<1>7. ASSUME c.map[k] # None
      PROVE  Abstract!Place(o, k) \in 1..Len(w) /\ w[Abstract!Place(o, k)] = c.map[k]
  <2>1. \E n \in 1..Len(w) : o[n].key = k
    BY <1>2, <1>3, <1>4, <1>7
  <2>2. Abstract!Place(o, k) \in 1..Len(w) /\ o[Abstract!Place(o, k)].key = k
    BY <1>1, <2>1 DEF Abstract!Place
  <2> QED
    BY <1>2, <1>3, <2>2
<1> QED
  BY Zenon, <1>1, <1>2, <1>6, <1>7 DEF o

\* d has the entries of c, with v at slot i.
Touched(c, d, i, v) ==
  \A j \in Slots :
    /\ d.nodes[j] = None <=> c.nodes[j] = None
    /\ c.nodes[j] # None =>
         /\ d.nodes[j].key = c.nodes[j].key
         /\ d.nodes[j].value = IF j = i THEN v ELSE c.nodes[j].value

\* The entries along the new sequence are the new order, for each of the calls.
LEMMA TouchOrder ==
  ASSUME NEW c, NEW rank, Good(c, rank), NEW w, Lists(c, rank, w),
         NEW k \in Keys, c.map[k] # None, NEW v, NEW r, Above(c, rank, r), NEW d,
         Touched(c, d, c.map[k], v)
  PROVE  \E u : /\ Lists(d, [rank EXCEPT ![c.map[k]] = r], u)
                /\ EntriesAlong(d, u) = Abstract!Touch(EntriesAlong(c, w), k, v)
<1> DEFINE o == EntriesAlong(c, w)
           p == Abstract!Place(o, k)
           u == ToFront(w, p)
           e == EntriesAlong(d, u)
           x == Abstract!Touch(o, k, v)
<1>1. /\ DOMAIN o = 1..Len(w) /\ Len(o) = Len(w) /\ Len(w) \in Nat
      /\ \A n \in 1..Len(w) : o[n] = EntryAt(c, w[n])
      /\ k \in Abstract!KeysOf(o) /\ p \in 1..Len(w) /\ w[p] = c.map[k]
  BY OrderKeys
<1>2. Lists(d, [rank EXCEPT ![c.map[k]] = r], u)
  <2>1. \A j \in Slots : d.nodes[j] = None <=> c.nodes[j] = None
    BY DEF Touched
  <2> QED
    BY Zenon, <1>1, <2>1, ToFrontLists
<1>3. /\ \A n \in 1..Len(w) : w[n] \in Slots /\ c.nodes[w[n]] # None
      /\ \A m, n \in 1..Len(w) : w[m] = w[n] => m = n
      /\ c.nodes[w[p]].key = k
  <2>1. \A m, n \in 1..Len(w) : w[m] = w[n] => m = n
    BY ListsOnce
  <2>2. c.nodes[w[p]].key = k
    BY <1>1, Zenon DEF Good, Wellformed, MapExact
  <2> QED
    BY <2>1, <2>2 DEF Lists
<1> HIDE DEF p, o
<1>4. Abstract!Without(o, k) =
        [j \in 1..(Len(w) - 1) |-> IF j < p THEN o[j] ELSE o[j + 1]]
  BY <1>1 DEF Abstract!Without, p
<1>5. x = [j \in 1..Len(w) |-> IF j = 1 THEN Abstract!Entry(k, v)
                               ELSE IF j - 1 < p THEN o[j - 1] ELSE o[j]]
  <2> DEFINE y == [j \in 1..(Len(w) - 1) |-> IF j < p THEN o[j] ELSE o[j + 1]]
             a == Abstract!Entry(k, v)
  <2>1. x = <<a>> \o y
    BY <1>4 DEF Abstract!Touch
  <2>2. Len(w) - 1 \in Nat
    BY <1>1
  <2>3. /\ y \in [1..(Len(w) - 1) -> {y[j] : j \in 1..(Len(w) - 1)}]
        /\ \A j \in 1..(Len(w) - 1) : y[j] = IF j < p THEN o[j] ELSE o[j + 1]
    OBVIOUS
  <2> HIDE DEF y, a
  <2>4. y \in Seq({y[j] : j \in 1..(Len(w) - 1)}) /\ Len(y) = Len(w) - 1
    BY <2>2, <2>3, SeqOfLength
  <2>5. x = [j \in 1..(Len(y) + 1) |-> IF j = 1 THEN a ELSE y[j - 1]]
    BY <2>1, <2>4, PushIsConcat DEF Push
  <2>6. Len(y) + 1 = Len(w)
    BY <1>1, <2>4
  <2>7. \A j \in 1..Len(w) : j # 1 => j - 1 \in 1..(Len(w) - 1) /\ (j - 1) + 1 = j
    BY <1>1
  <2> QED
    BY <2>3, <2>5, <2>6, <2>7 DEF a
<1>6. /\ u = [j \in 1..Len(w) |-> IF j = 1 THEN w[p] ELSE IF j <= p THEN w[j - 1] ELSE w[j]]
      /\ Len(u) = Len(w)
  <2>1. u \in [1..Len(w) -> Slots]
    BY <1>1, <1>3 DEF ToFront
  <2> QED
    BY <1>1, <2>1, SeqOfLength DEF ToFront
<1> HIDE DEF u, x
<1>7. e = [j \in 1..Len(w) |-> EntryAt(d, u[j])]
  BY <1>6 DEF EntriesAlong
<1>8. ASSUME NEW j \in 1..Len(w) PROVE EntryAt(d, u[j]) = x[j]
  <2>1. CASE j = 1
    <3>1. d.nodes[w[p]].key = k /\ d.nodes[w[p]].value = v
      BY Zenon, <1>1, <1>3 DEF Touched
    <3>2. u[j] = w[p] /\ x[j] = Abstract!Entry(k, v)
      BY <1>5, <1>6, <2>1
    <3> QED
      BY Zenon, <3>1, <3>2 DEF EntryAt, Entry, Abstract!Entry
  <2>2. CASE j # 1
    <3>1. PICK m \in 1..Len(w) : u[j] = w[m] /\ x[j] = o[m] /\ m # p
      <4>1. CASE j <= p
        <5>1. j - 1 < p /\ j - 1 \in 1..Len(w) /\ j - 1 # p
          BY <1>1, <2>2, <4>1
        <5> QED
          BY <1>5, <1>6, <2>2, <4>1, <5>1
      <4>2. CASE ~(j <= p)
        <5>1. ~(j - 1 < p) /\ j # p
          BY <1>1, <4>2
        <5> QED
          BY <1>5, <1>6, <2>2, <4>2, <5>1
      <4> QED
        BY <4>1, <4>2
    <3>2. w[m] # c.map[k]
      BY Zenon, <1>1, <1>3, <3>1
    <3>3. EntryAt(d, w[m]) = EntryAt(c, w[m])
      BY Zenon, <1>3, <3>2 DEF Touched, EntryAt, Entry
    <3> QED
      BY Zenon, <1>1, <3>1, <3>3
  <2> QED
    BY <2>1, <2>2
<1>9. e = x
  BY Zenon, <1>5, <1>7, <1>8
<1> QED
  BY <1>2, <1>9 DEF x, o

\* The removal of a key takes its entry out of the order.
LEMMA DropOrder ==
  ASSUME NEW c, NEW rank, Good(c, rank), NEW w, Lists(c, rank, w),
         NEW k \in Keys, c.map[k] # None, NEW d, Removed(c, d, k, rank)
  PROVE  \E u : /\ Lists(d, rank, u)
                /\ EntriesAlong(d, u) = Abstract!Without(EntriesAlong(c, w), k)
<1> DEFINE o == EntriesAlong(c, w)
           p == Abstract!Place(o, k)
           u == Drop(w, p)
<1>1. /\ DOMAIN o = 1..Len(w) /\ Len(o) = Len(w) /\ Len(w) \in Nat
      /\ \A n \in 1..Len(w) : o[n] = EntryAt(c, w[n])
      /\ k \in Abstract!KeysOf(o) /\ p \in 1..Len(w) /\ w[p] = c.map[k]
  BY OrderKeys
<1>2. \A j \in Slots : d.nodes[j] # None <=> c.nodes[j] # None /\ j # w[p]
  <2>1. c.nodes[c.map[k]].key = k
    BY Zenon DEF Good, Wellformed, MapExact
  <2> QED
    BY <1>1, <2>1 DEF Removed
<1>3. Lists(d, rank, u)
  BY <1>1, <1>2, DropLists, Zenon
<1>4. \A n \in 1..Len(w) : w[n] \in Slots
  BY DEF Lists
<1> HIDE DEF p, o
<1>5. Abstract!Without(o, k) =
        [j \in 1..(Len(w) - 1) |-> IF j < p THEN o[j] ELSE o[j + 1]]
  BY <1>1 DEF Abstract!Without, p
<1>6. u = [j \in 1..(Len(w) - 1) |-> IF j < p THEN w[j] ELSE w[j + 1]]
  BY DEF Drop
<1>7. u \in [1..(Len(w) - 1) -> Slots] /\ Len(w) - 1 \in Nat
  BY <1>1, <1>4, <1>6
<1> HIDE DEF u
<1>8. Len(u) = Len(w) - 1
  BY <1>7, SeqOfLength
<1>9. ASSUME NEW j \in 1..(Len(w) - 1)
      PROVE  EntryAt(d, u[j]) = IF j < p THEN o[j] ELSE o[j + 1]
  <2>1. PICK m \in 1..Len(w) : u[j] = w[m] /\ m = IF j < p THEN j ELSE j + 1
    BY <1>1, <1>6
  <2>2. d.nodes[u[j]] # None /\ u[j] \in Slots
    BY Zenon, <1>3, <1>7, <1>8 DEF Lists
  <2>3. EntryAt(d, u[j]) = EntryAt(c, u[j])
    BY Zenon, <2>2 DEF Removed, EntryAt, Entry
  <2> QED
    BY Zenon, <1>1, <2>1, <2>3
<1>10. EntriesAlong(d, u) = Abstract!Without(o, k)
  BY <1>5, <1>8, <1>9 DEF EntriesAlong
<1> QED
  BY <1>3, <1>10 DEF o

\* d lists what c lists along w, after a new entry of rank r at slot i.
Pushed(c, d, rank, w, k, v, i, r) ==
  \E u : /\ Lists(d, [rank EXCEPT ![i] = r], u)
         /\ EntriesAlong(d, u) = <<Abstract!Entry(k, v)>> \o EntriesAlong(c, w)

\* The insertion of a key puts its entry in front.
LEMMA PushOrder ==
  ASSUME NEW c, NEW rank, Good(c, rank), NEW w, Lists(c, rank, w),
         NEW k, NEW v, NEW i \in Slots, NEW r, Above(c, rank, r), NEW d,
         Added(c, d, k, v, i)
  PROVE  Pushed(c, d, rank, w, k, v, i, r)
<1> DEFINE o == EntriesAlong(c, w)
           u == Push(w, i)
<1>1. /\ Len(w) \in Nat /\ w \in [1..Len(w) -> Slots]
      /\ o = [n \in 1..Len(w) |-> EntryAt(c, w[n])]
      /\ \A n \in 1..Len(w) : w[n] # i /\ c.nodes[w[n]] # None
  <2>1. w \in Seq(Slots) /\ \A n \in 1..Len(w) : c.nodes[w[n]] # None
    BY DEF Lists
  <2>2. Len(w) \in Nat /\ w \in [1..Len(w) -> Slots]
    BY <2>1
  <2>3. c.nodes[i] = None
    BY Zenon DEF Added
  <2> QED
    BY <2>1, <2>2, <2>3 DEF EntriesAlong
<1>2. Lists(d, [rank EXCEPT ![i] = r], u)
  <2>1. \A j \in Slots : d.nodes[j] # None <=> c.nodes[j] # None \/ j = i
    BY DEF Added
  <2>2. c.nodes[i] = None
    BY DEF Added
  <2> QED
    BY <2>1, <2>2, PushLists
<1>3. /\ u \in [1..(Len(w) + 1) -> Slots] /\ Len(w) + 1 \in Nat
      /\ \A j \in 1..(Len(w) + 1) : u[j] = IF j = 1 THEN i ELSE w[j - 1]
  BY <1>1 DEF Push
<1> HIDE DEF u, o
<1>4. Len(u) = Len(w) + 1
  BY <1>3, SeqOfLength
<1>5. o \in Seq({o[n] : n \in 1..Len(w)}) /\ Len(o) = Len(w)
  <2>1. o \in [1..Len(w) -> {o[n] : n \in 1..Len(w)}]
    BY <1>1
  <2> QED
    BY <1>1, <2>1, SeqOfLength
<1>6. <<Abstract!Entry(k, v)>> \o o =
        [j \in 1..(Len(w) + 1) |-> IF j = 1 THEN Abstract!Entry(k, v) ELSE o[j - 1]]
  BY <1>5, PushIsConcat DEF Push
<1>7. ASSUME NEW j \in 1..(Len(w) + 1)
      PROVE  EntryAt(d, u[j]) = IF j = 1 THEN Abstract!Entry(k, v) ELSE o[j - 1]
  <2>1. CASE j = 1
    BY Zenon, <1>3, <2>1 DEF Added, EntryAt, Entry, Abstract!Entry
  <2>2. CASE j # 1
    <3>1. j - 1 \in 1..Len(w) /\ u[j] = w[j - 1]
      BY <1>1, <1>3, <2>2
    <3>2. w[j - 1] \in Slots /\ w[j - 1] # i /\ c.nodes[w[j - 1]] # None
      BY Zenon, <1>1, <3>1
    <3>3. EntryAt(d, w[j - 1]) = EntryAt(c, w[j - 1])
      BY Zenon, <3>2 DEF Added, EntryAt, Entry
    <3> QED
      BY Zenon, <1>1, <2>2, <3>1, <3>3
  <2> QED
    BY <2>1, <2>2
<1>8. EntriesAlong(d, u) = <<Abstract!Entry(k, v)>> \o o
  BY <1>4, <1>6, <1>7 DEF EntriesAlong
<1> QED
  BY <1>2, <1>8 DEF o, Pushed

-----------------------------------------------------------------------------
(* The calls keep the inductive invariants                                 *)

\* A full map has a tail to evict; a map that is not full leaves a free slot.
Room(c) ==
  /\ MapLen(c) = N => c.tail # None
  /\ MapLen(c) # N => c.free_list # <<>>

\* The inductive invariant of Spec: some rank sorts the list.
IInv == \E rank : Good(cache, rank)

\* A new cache satisfies the inductive invariant.
LEMMA InitGood == Init => IInv
<1>1. [i \in Slots |-> 0] \in Ranks
  BY DEF Ranks
<1> QED BY <1>1, NewCacheGood DEF Init, IInv

\* get, contains, pop and put keep the inductive invariant.
LEMMA NextGood == IInv /\ Room(cache) /\ [Next]_vars => IInv'
<1> SUFFICES ASSUME IInv, Room(cache), [Next]_vars PROVE IInv'
  OBVIOUS
<1>1. PICK rank : Good(cache, rank)
  BY DEF IInv
<1>2. PICK r : Above(cache, rank, r)
  BY <1>1, RankAbove
<1>3. \A k \in Keys : cache.map[k] # None => cache.map[k] \in Slots /\ cache.nodes[cache.map[k]] # None
  BY <1>1 DEF Good, CacheType, Wellformed, MapExact, Link
<1>4. CASE UNCHANGED cache
  BY <1>4 DEF IInv
<1>5. ASSUME NEW k \in Keys, Get(k) PROVE IInv'
  <2>1. CASE cache.map[k] # None /\ cache' = MoveToFront(cache, cache.map[k])
    <3>1. Moved(cache, cache', cache.map[k], rank, r)
      BY Zenon, <1>1, <1>2, <1>3, <2>1, MoveToFrontGood
    <3> QED BY <3>1 DEF Moved, IInv
  <2> QED BY <1>4, <1>5, <2>1, Zenon DEF Get
<1>6. ASSUME NEW k \in Keys, Pop(k) PROVE IInv'
  <2>1. CASE cache.map[k] # None /\ cache' = Remove(cache, k)
    <3>1. Removed(cache, cache', k, rank)
      BY Zenon, <1>1, <2>1, RemoveGood
    <3> QED BY <3>1 DEF Removed, IInv
  <2> QED BY <1>4, <1>6, <2>1, Zenon DEF Pop
<1>7. ASSUME NEW k \in Keys, NEW v \in Values, PutDuplicate(k, v) PROVE IInv'
  <2> DEFINE i == cache.map[k]
             o == Overwrite(cache, i, v)
  <2>1. cache.map[k] # None /\ cache' = MoveToFront(o, i)
    BY <1>7 DEF PutDuplicate
  <2>0. Overwritten(cache, o, rank)
    BY Zenon, <1>1, <1>3, <2>1, OverwriteGood
  <2> HIDE DEF o
  <2>2. Good(o, rank) /\ o.nodes[i] # None /\ Above(o, rank, r)
    BY Zenon, <1>2, <1>3, <2>0, <2>1 DEF Above, Overwritten
  <2>3. Moved(o, cache', i, rank, r)
    BY Zenon, <1>3, <2>1, <2>2, MoveToFrontGood
  <2> QED BY Zenon, <2>3 DEF Moved, IInv
<1>8. ASSUME NEW k \in Keys, NEW v \in Values, PutFull(k, v) PROVE IInv'
  <2>1. Inserted([cache EXCEPT !.map = [cache.map EXCEPT ![cache.nodes[cache.tail].key] = None]],
                 cache', k, TopFree(Evict(cache)), rank, r)
    BY <1>1, <1>2, <1>8, EvictAndInsertGood DEF PutFull, Room
  <2> QED BY <2>1 DEF Inserted, IInv
<1>9. ASSUME NEW k \in Keys, NEW v \in Values, PutFree(k, v) PROVE IInv'
  <2>1. cache.free_list # <<>>
    BY <1>9 DEF PutFree, Room
  <2>2. Inserted(cache, cache', k, TopFree(cache), rank, r)
    BY Zenon, <1>1, <1>2, <1>9, <2>1, InsertFrontGood DEF PutFree
  <2> QED BY <2>2 DEF Inserted, IInv
<1> QED BY <1>4, <1>5, <1>6, <1>7, <1>8, <1>9 DEF Next, Contains, Put, vars

\* The inductive invariant defines every unchecked access of the calls.
LEMMA AccessesGood == IInv /\ Room(cache) => UncheckedAccessesDefined
<1> SUFFICES ASSUME IInv, Room(cache) PROVE UncheckedAccessesDefined
  OBVIOUS
<1>1. PICK rank : Good(cache, rank)
  BY DEF IInv
<1>2. ASSUME NEW i \in Slots, cache.nodes[i] # None
      PROVE  Live(cache, i) /\ NeighboursLive(cache, i)
  <2>1. /\ cache.nodes[i].prev \in Link /\ cache.nodes[i].next \in Link
        /\ cache.nodes[i].prev # None => cache.nodes[cache.nodes[i].prev] # None
                                       /\ cache.nodes[cache.nodes[i].prev].next = i
        /\ cache.nodes[i].next # None => cache.nodes[cache.nodes[i].next] # None
    BY Zenon, <1>1, <1>2 DEF Good, CacheType, Wellformed, ListLinked, Node
  <2>2. /\ cache.nodes[i].next # i
        /\ cache.nodes[i].prev # i
    BY <1>1, <1>2, <2>1, NoneAssumption DEF Good, SortedBy, Ranks
  <2> QED BY Zenon, <1>2, <2>1, <2>2 DEF Live, NeighboursLive, Link
<1>3. \A k \in Keys : cache.map[k] # None => cache.map[k] \in Slots /\ cache.nodes[cache.map[k]] # None
  BY <1>1 DEF Good, CacheType, Wellformed, MapExact, Link
<1>4. \A i \in {cache.head, cache.tail} : i = None \/ (i \in Slots /\ cache.nodes[i] # None)
  BY Zenon, <1>1 DEF Good, CacheType, Wellformed, ListLinked, Link
<1>5. \A n \in 1..Len(cache.free_list) : ~Live(cache, cache.free_list[n])
  BY <1>1 DEF Good, CacheType, Wellformed, FreeListExact, Live
<1> QED BY Zenon, <1>1, <1>2, <1>3, <1>4, <1>5 DEF Room, UncheckedAccessesDefined

\* Every call returns a result of its type.
LEMMA TypeGood == IInv /\ IInv' /\ TypeOK /\ [Next]_vars => TypeOK'
<1> SUFFICES ASSUME IInv, IInv', TypeOK, [Next]_vars PROVE TypeOK'
  OBVIOUS
<1>1. cache' \in CacheType
  BY DEF IInv, Good
<1>2. \A i \in Slots : cache.nodes[i] # None => EntryAt(cache, i) \in EntryType
  BY Zenon DEF TypeOK, CacheType, EntryAt, Entry, EntryType, Node
<1>3. \A i \in Slots : cache'.nodes[i] # None => EntryAt(cache', i) \in EntryType
  BY Zenon, <1>1 DEF CacheType, EntryAt, Entry, EntryType, Node
<1>4. /\ \A k \in Keys : cache.map[k] # None => cache.map[k] \in Slots /\ cache.nodes[cache.map[k]] # None
      /\ cache.tail # None => cache.tail \in Slots /\ cache.nodes[cache.tail] # None
  BY Zenon DEF IInv, Good, CacheType, Wellformed, MapExact, ListLinked, Link
<1>5. \A op \in {"get", "contains", "pop", "put"}, hit \in BOOLEAN, entry \in EntryType :
        Result(op, hit, entry) \in RetType
  BY DEF Result, RetType
<1>6. None \in EntryType
  BY DEF EntryType
<1> HIDE DEF EntryType, RetType
<1>7. ASSUME NEW k \in Keys, Get(k) PROVE ret' \in RetType
  <2>1. CASE /\ cache.map[k] # None
             /\ cache' = MoveToFront(cache, cache.map[k])
             /\ ret' = Result("get", TRUE, EntryAt(cache', cache.map[k]))
    <3>1. PICK rank : Good(cache, rank)
      BY DEF IInv
    <3>2. PICK r : Above(cache, rank, r)
      BY <3>1, RankAbove
    <3>3. Moved(cache, cache', cache.map[k], rank, r)
      BY Zenon, <1>4, <2>1, <3>1, <3>2, MoveToFrontGood
    <3>4. EntryAt(cache', cache.map[k]) \in EntryType
      BY Zenon, <1>3, <1>4, <2>1, <3>3 DEF Moved
    <3> QED BY <1>5, <2>1, <3>4, Zenon
  <2> QED BY <1>5, <1>6, <1>7, <2>1, Zenon DEF Get
<1>8. ASSUME NEW k \in Keys, Pop(k) PROVE ret' \in RetType
  BY <1>2, <1>4, <1>5, <1>6, <1>8, Zenon DEF Pop
<1>9. ASSUME NEW k \in Keys, Contains(k) PROVE ret' \in RetType
  <2>1. (cache.map[k] # None) \in BOOLEAN
    OBVIOUS
  <2> QED BY <1>5, <1>6, <1>9, <2>1, Zenon DEF Contains
<1>10. ASSUME NEW k \in Keys, NEW v \in Values, Put(k, v) PROVE ret' \in RetType
  <2>1. PutDuplicate(k, v) => ret' \in RetType
    BY <1>5, <1>6, Zenon DEF PutDuplicate
  <2>2. PutFull(k, v) => ret' \in RetType
    BY <1>2, <1>4, <1>5, <1>6, Zenon DEF PutFull
  <2>3. PutFree(k, v) => ret' \in RetType
    BY <1>5, <1>6, Zenon DEF PutFree
  <2> QED BY <1>10, <2>1, <2>2, <2>3 DEF Put
<1>11. CASE UNCHANGED vars
  BY <1>11 DEF vars, TypeOK
<1> QED BY <1>1, <1>7, <1>8, <1>9, <1>10, <1>11 DEF Next, TypeOK

-----------------------------------------------------------------------------
(* The history of uses: the rank of a slot is the last use of its key      *)

\* The inductive invariant of HSpec: the times of last use sort the list.
HInv ==
  /\ used \in [Keys -> Nat]
  /\ clock \in Nat
  /\ \A k \in Keys : used[k] < clock
  /\ Good(cache, LastUse(cache, used))

\* The times of last use are ranks of the slots.
LEMMA LastUseRanks ==
  ASSUME NEW c \in CacheType, NEW u \in [Keys -> Nat]
  PROVE  /\ LastUse(c, u) \in Ranks
         /\ \A j \in Slots : c.nodes[j] # None =>
              /\ c.nodes[j].key \in Keys
              /\ LastUse(c, u)[j] = u[c.nodes[j].key]
BY DEF LastUse, Ranks, CacheType, Node

\* In a new cache nothing has been used.
LEMMA HInitGood == HInit => HInv
<1> SUFFICES ASSUME HInit PROVE HInv
  OBVIOUS
<1>1. used \in [Keys -> Nat] /\ clock \in Nat /\ \A k \in Keys : used[k] < clock
  BY DEF HInit
<1>2. cache = NewCache /\ cache \in CacheType
  <2>1. [i \in Slots |-> 0] \in Ranks
    BY DEF Ranks
  <2> QED BY <2>1, NewCacheGood DEF HInit, Init, Good
<1>3. LastUse(cache, used) \in Ranks
  BY Zenon, <1>1, <1>2, LastUseRanks
<1> QED BY <1>1, <1>2, <1>3, NewCacheGood DEF HInv

\* Every call keeps the list sorted by the time of last use.
LEMMA HNextGood == HInv /\ Room(cache) /\ [HNext]_hvars => HInv'
<1> SUFFICES ASSUME HInv, Room(cache), [HNext]_hvars PROVE HInv'
  OBVIOUS
<1> DEFINE rank == LastUse(cache, used)
<1>1. /\ used \in [Keys -> Nat] /\ clock \in Nat /\ \A k \in Keys : used[k] < clock
      /\ Good(cache, rank) /\ cache \in CacheType
  BY DEF HInv, Good
<1>2. /\ rank \in Ranks
      /\ \A j \in Slots : cache.nodes[j] # None =>
           cache.nodes[j].key \in Keys /\ rank[j] = used[cache.nodes[j].key]
  BY Zenon, <1>1, LastUseRanks
<1> HIDE DEF rank
<1>3. Above(cache, rank, clock)
  BY <1>1, <1>2 DEF Above
<1>4. \A k \in Keys : cache.map[k] # None =>
        cache.map[k] \in Slots /\ cache.nodes[cache.map[k]] # None /\ cache.nodes[cache.map[k]].key = k
  BY <1>1 DEF Good, CacheType, Wellformed, MapExact, Link
<1>5. CASE UNCHANGED <<cache, used, clock>>
  BY <1>5 DEF HInv, rank
\* A use of key k that leaves it at slot i.
<1>6. ASSUME NEW k \in Keys, Use(k), NEW i \in Slots,
             Good(cache', [rank EXCEPT ![i] = clock]),
             \A j \in Slots : cache'.nodes[j] # None =>
               IF j = i THEN cache'.nodes[j].key = k
               ELSE cache.nodes[j] # None /\ cache'.nodes[j].key = cache.nodes[j].key
                    /\ cache.nodes[j].key # k
      PROVE  HInv'
  <2>1. /\ used' \in [Keys -> Nat] /\ clock' \in Nat /\ \A x \in Keys : used'[x] < clock'
        /\ used'[k] = clock /\ \A x \in Keys : x # k => used'[x] = used[x]
    BY <1>1, <1>6 DEF Use
  <2>2. cache' \in CacheType
    BY Zenon, <1>6 DEF Good
  <2>3. /\ LastUse(cache', used') \in Ranks
        /\ \A j \in Slots : cache'.nodes[j] # None =>
             cache'.nodes[j].key \in Keys /\ LastUse(cache', used')[j] = used'[cache'.nodes[j].key]
    BY Zenon, <2>1, <2>2, LastUseRanks
  <2>4. \A j \in Slots : cache'.nodes[j] # None => LastUse(cache', used')[j] = [rank EXCEPT ![i] = clock][j]
    <3> SUFFICES ASSUME NEW j \in Slots, cache'.nodes[j] # None
                 PROVE  LastUse(cache', used')[j] = [rank EXCEPT ![i] = clock][j]
      BY Zenon
    <3>0. LastUse(cache', used')[j] = used'[cache'.nodes[j].key] /\ cache'.nodes[j].key \in Keys
      BY Zenon, <2>3
    <3>1. CASE j = i
      <4>1. [rank EXCEPT ![i] = clock][j] = clock
        BY <1>2, <3>1 DEF Ranks
      <4>2. cache'.nodes[j].key = k
        BY Zenon, <1>6, <3>1
      <4> QED BY Zenon, <2>1, <3>0, <4>1, <4>2
    <3>2. CASE j # i
      <4>1. [rank EXCEPT ![i] = clock][j] = rank[j]
        BY <1>2, <3>2 DEF Ranks
      <4>2. cache.nodes[j] # None /\ cache'.nodes[j].key = cache.nodes[j].key /\ cache.nodes[j].key # k
        BY Zenon, <1>6, <3>2
      <4>3. rank[j] = used[cache.nodes[j].key]
        BY Zenon, <1>2, <4>2
      <4> QED BY Zenon, <2>1, <3>0, <4>1, <4>2, <4>3
    <3> QED BY Zenon, <3>1, <3>2
  <2>5. Good(cache', LastUse(cache', used'))
    <3> DEFINE before == [rank EXCEPT ![i] = clock]
               after == LastUse(cache', used')
    <3>1. Good(cache', before) /\ after \in Ranks
          /\ \A j \in Slots : cache'.nodes[j] # None => after[j] = before[j]
      BY Zenon, <1>6, <2>3, <2>4
    <3> HIDE DEF before, after
    <3>2. Good(cache', after)
      BY <3>1, RankOfOccupied
    <3> QED BY <3>2 DEF after
  <2> QED BY <2>1, <2>5 DEF HInv
\* move_to_front of the slot of key k, after an overwrite or not.
<1>7. ASSUME NEW k \in Keys, cache.map[k] # None, Use(k), NEW o, Overwritten(cache, o, rank),
             cache' = MoveToFront(o, cache.map[k])
      PROVE  HInv'
  <2> DEFINE i == cache.map[k]
  <2>1. i \in Slots /\ o.nodes[i] # None /\ o.nodes[i].key = k /\ Above(o, rank, clock)
    BY Zenon, <1>3, <1>4, <1>7 DEF Above, Overwritten
  <2>2. Moved(o, cache', i, rank, clock)
    BY Zenon, <1>7, <2>1, MoveToFrontGood DEF Overwritten
  <2>3. \A j \in Slots : cache'.nodes[j] # None => cache'.map[cache'.nodes[j].key] = j
    BY Zenon, <2>2 DEF Moved, Good, Wellformed, MapExact
  <2>4. ASSUME NEW j \in Slots, cache'.nodes[j] # None
        PROVE  IF j = i THEN cache'.nodes[j].key = k
               ELSE cache.nodes[j] # None /\ cache'.nodes[j].key = cache.nodes[j].key
                    /\ cache.nodes[j].key # k
    <3>1. /\ cache.nodes[j] # None /\ cache'.nodes[j].key = cache.nodes[j].key
          /\ cache'.map = cache.map
      BY Zenon, <1>7, <2>2, <2>4 DEF Moved, Overwritten
    <3>2. cache.map[cache.nodes[j].key] = j
      BY <2>3, <2>4, <3>1
    <3>3. CASE j = i
      BY Zenon, <1>4, <1>7, <3>1, <3>3
    <3>4. CASE j # i
      BY Zenon, <3>1, <3>2, <3>4
    <3> QED BY Zenon, <3>3, <3>4
  <2>5. Good(cache', [rank EXCEPT ![i] = clock])
    BY Zenon, <2>2 DEF Moved
  <2> QED BY Zenon, <1>6, <1>7, <2>1, <2>4, <2>5
<1>8. ASSUME NEW k \in Keys, HGet(k) PROVE HInv'
  <2>1. CASE cache.map[k] # None
    <3>1. cache' = MoveToFront(cache, cache.map[k]) /\ Use(k)
      BY <1>8, <2>1, Zenon DEF HGet, Get
    <3>2. Overwritten(cache, cache, rank)
      BY <1>1 DEF Overwritten
    <3> QED BY <1>7, <2>1, <3>1, <3>2
  <2>2. CASE cache.map[k] = None
    BY Zenon, <1>5, <1>8, <2>2 DEF HGet, Get
  <2> QED BY <2>1, <2>2
<1>9. ASSUME NEW k \in Keys, HPop(k) PROVE HInv'
  <2>1. CASE cache.map[k] # None
    <3>1. cache' = Remove(cache, k) /\ used' = used /\ clock' = clock
      BY <1>9, <2>1, Zenon DEF HPop, Pop
    <3>2. /\ Good(cache', rank)
          /\ \A j \in Slots : cache'.nodes[j] # None =>
               cache.nodes[j] # None /\ cache'.nodes[j].key = cache.nodes[j].key
      <4>1. Removed(cache, cache', k, rank)
        BY Zenon, <1>1, <2>1, <3>1, RemoveGood
      <4> QED BY Zenon, <4>1 DEF Removed
    <3>3. /\ LastUse(cache', used) \in Ranks
          /\ \A j \in Slots : cache'.nodes[j] # None =>
               LastUse(cache', used)[j] = used[cache'.nodes[j].key]
      BY Zenon, <1>1, <3>2, LastUseRanks DEF Good
    <3>4. Good(cache', LastUse(cache', used))
      BY <1>2, <3>2, <3>3, RankOfOccupied
    <3> QED BY Zenon, <1>1, <3>1, <3>4 DEF HInv
  <2>2. CASE cache.map[k] = None
    BY <1>5, <1>9, <2>2 DEF HPop, Pop
  <2> QED BY <2>1, <2>2
<1>10. ASSUME NEW k \in Keys, NEW v \in Values, HPut(k, v) PROVE HInv'
  <2>1. CASE PutDuplicate(k, v)
    <3>1. cache.map[k] # None /\ Use(k)
          /\ cache' = MoveToFront(Overwrite(cache, cache.map[k], v), cache.map[k])
      BY <1>10, <2>1 DEF HPut, PutDuplicate
    <3>2. Overwritten(cache, Overwrite(cache, cache.map[k], v), rank)
      BY Zenon, <1>1, <1>4, <3>1, OverwriteGood
    <3> QED BY <1>7, <3>1, <3>2
  <2>2. CASE PutFull(k, v)
    <3>1. Inserted([cache EXCEPT !.map = [cache.map EXCEPT ![cache.nodes[cache.tail].key] = None]],
                   cache', k, TopFree(Evict(cache)), rank, clock)
      BY <1>1, <1>3, <2>2, EvictAndInsertGood, Zenon DEF PutFull, Room
    <3> DEFINE i == TopFree(Evict(cache))
    <3>2. /\ i \in Slots /\ Good(cache', [rank EXCEPT ![i] = clock])
          /\ \A j \in Slots : cache'.nodes[j] # None =>
               IF j = i THEN cache'.nodes[j].key = k
               ELSE cache.nodes[j] # None /\ cache'.nodes[j].key = cache.nodes[j].key
                    /\ cache.nodes[j].key # k
      BY <1>1, <3>1 DEF Inserted, CacheType
    <3> QED BY Zenon, <1>6, <1>10, <3>2 DEF HPut
  <2>3. CASE PutFree(k, v)
    <3>1. cache.free_list # <<>>
      BY Zenon, <2>3 DEF PutFree, Room
    <3>2. Inserted(cache, cache', k, TopFree(cache), rank, clock)
      BY Zenon, <1>1, <1>3, <2>3, <3>1, InsertFrontGood DEF PutFree
    <3> QED BY Zenon, <1>6, <1>10, <3>2 DEF Inserted, HPut
  <2> QED BY <1>10, <2>1, <2>2, <2>3 DEF HPut, Put
<1>11. ASSUME NEW k \in Keys, HContains(k) PROVE HInv'
  BY <1>5, <1>11 DEF HContains, Contains
<1> QED BY Zenon, <1>5, <1>8, <1>9, <1>10, <1>11 DEF HNext, hvars

\* The step of EvictsLeastRecentlyUsed: a put that drops a key drops the one
\* used before all others.
DropsLeastRecent ==
  \A k \in Keys : cache.map[k] # None /\ cache'.map[k] = None /\ ret'.op = "put" =>
    \A other \in Keys \ {k} : cache.map[other] # None => used[k] < used[other]

\* A full put drops the key of the tail, which has the least rank.
LEMMA EvictionGood == HInv /\ Room(cache) /\ [HNext]_hvars => [DropsLeastRecent]_hvars
<1> SUFFICES ASSUME HInv, Room(cache), HNext, NEW k \in Keys, cache.map[k] # None, cache'.map[k] = None,
                    ret'.op = "put", NEW other \in Keys \ {k}, cache.map[other] # None
             PROVE  used[k] < used[other]
  BY DEF DropsLeastRecent
<1> DEFINE rank == LastUse(cache, used)
<1>1. /\ used \in [Keys -> Nat] /\ clock \in Nat
      /\ Good(cache, rank) /\ cache \in CacheType
      /\ \A x \in Keys : used[x] < clock
  BY Zenon DEF HInv, Good
<1>2. /\ rank \in Ranks
      /\ \A j \in Slots : cache.nodes[j] # None =>
           cache.nodes[j].key \in Keys /\ rank[j] = used[cache.nodes[j].key]
  BY Zenon, <1>1, LastUseRanks
<1> HIDE DEF rank
<1>3. Above(cache, rank, clock)
  BY <1>1, <1>2 DEF Above
<1>4. \A x \in Keys : cache.map[x] # None =>
        cache.map[x] \in Slots /\ cache.nodes[cache.map[x]] # None /\ cache.nodes[cache.map[x]].key = x
  <2>1. cache.map \in [Keys -> Link] /\ MapExact(cache)
    BY Zenon, <1>1 DEF Good, CacheType, Wellformed
  <2>2. ASSUME NEW x \in Keys, cache.map[x] # None PROVE cache.map[x] \in Slots
    <3>1. cache.map[x] \in Link
      BY Zenon, <2>1
    <3> QED BY Zenon, <2>2, <3>1 DEF Link
  <2> QED BY Zenon, <2>1, <2>2 DEF MapExact
<1>5. PICK n \in Keys, v \in Values : Put(n, v)
  <2>1. ASSUME NEW x \in Keys, Get(x) \/ Contains(x) \/ Pop(x) PROVE FALSE
    <3>1. ret'.op \in {"get", "contains", "pop"}
      BY <2>1 DEF Get, Contains, Pop, Result
    <3> QED BY Zenon, <3>1
  <2> QED BY Zenon, <2>1 DEF HNext, HGet, HContains, HPop, HPut
<1>6. CASE PutDuplicate(n, v)
  <2>1. cache.map[n] # None /\ cache' = MoveToFront(Overwrite(cache, cache.map[n], v), cache.map[n])
    BY Zenon, <1>6 DEF PutDuplicate
  <2> DEFINE o == Overwrite(cache, cache.map[n], v)
  <2>0. Overwritten(cache, o, rank)
    BY Zenon, <1>1, <1>4, <2>1, OverwriteGood
  <2>a. cache' = MoveToFront(o, cache.map[n])
    BY Zenon, <2>1
  <2> HIDE DEF o
  <2>b. \A j \in Slots : o.nodes[j] = None <=> cache.nodes[j] = None
    BY Zenon, <2>0 DEF Overwritten
  <2>2. Good(o, rank) /\ o.map = cache.map /\ o.nodes[cache.map[n]] # None /\ Above(o, rank, clock)
    <3>1. Good(o, rank) /\ o.map = cache.map
      BY Zenon, <2>0 DEF Overwritten
    <3>2. o.nodes[cache.map[n]] # None
      BY Zenon, <1>4, <2>1, <2>b
    <3>3. Above(o, rank, clock)
      BY Zenon, <1>3, <2>b DEF Above
    <3> QED BY Zenon, <3>1, <3>2, <3>3
  <2>3. Moved(o, cache', cache.map[n], rank, clock)
    <3>1. cache.map[n] \in Slots
      BY Zenon, <1>4, <2>1
    <3> QED BY Zenon, <2>a, <2>2, <3>1, MoveToFrontGood
  <2> QED BY Zenon, <2>2, <2>3 DEF Moved
<1>7. CASE PutFree(n, v)
  <2>1. cache.free_list # <<>>
    BY Zenon, <1>7 DEF PutFree, Room
  <2>2. Inserted(cache, cache', n, TopFree(cache), rank, clock)
    BY Zenon, <1>1, <1>3, <1>7, <2>1, InsertFrontGood DEF PutFree
  <2>3. cache'.map = [cache.map EXCEPT ![n] = TopFree(cache)] /\ TopFree(cache) \in Slots
    BY Zenon, <2>2 DEF Inserted
  <2> QED BY Zenon, <1>1, <2>3, NoneAssumption DEF CacheType
<1>8. CASE PutFull(n, v)
  <2> DEFINE t == cache.nodes[cache.tail].key
  <2>1. /\ cache.tail \in Slots /\ cache.nodes[cache.tail] # None /\ t \in Keys
        /\ Inserted([cache EXCEPT !.map = [cache.map EXCEPT ![t] = None]],
                    cache', n, TopFree(Evict(cache)), rank, clock)
    BY Zenon, <1>1, <1>3, <1>8, EvictAndInsertGood DEF PutFull, Room
  <2>2. /\ cache'.map = [[cache.map EXCEPT ![t] = None] EXCEPT ![n] = TopFree(Evict(cache))]
        /\ TopFree(Evict(cache)) \in Slots
    BY <1>1, <2>1 DEF Inserted, CacheType
  <2>3. k = t
    BY <1>1, <2>1, <2>2, NoneAssumption DEF CacheType
  <2>4. rank[cache.tail] <= rank[cache.map[other]] /\ cache.map[other] # cache.tail
    BY Zenon, <1>1, <1>4, <2>3, HeadAndTailRank
  <2>5. rank[cache.tail] # rank[cache.map[other]]
    BY Zenon, <1>1, <1>4, <2>1, <2>4 DEF Good, SortedBy
  <2>6. rank[cache.tail] = used[k] /\ rank[cache.map[other]] = used[other]
    <3>1. rank[cache.tail] = used[t]
      BY Zenon, <1>2, <2>1
    <3>2. rank[cache.map[other]] = used[cache.nodes[cache.map[other]].key]
      BY Zenon, <1>2, <1>4
    <3>3. cache.nodes[cache.map[other]].key = other
      BY Zenon, <1>4
    <3> HIDE DEF t
    <3> QED BY <2>3, <3>1, <3>2, <3>3
  <2>7. used[k] \in Nat /\ used[other] \in Nat
    BY Zenon, <1>1
  <2>8. used[k] <= used[other] /\ used[k] # used[other]
    BY Zenon, <2>4, <2>5, <2>6
  <2> QED BY <2>7, <2>8
<1> QED BY Zenon, <1>5, <1>6, <1>7, <1>8 DEF Put
=============================================================================
