---------------------------- MODULE FunnelProofs ----------------------------
(***************************************************************************)
(* For every number of generators, every capacity and batch size, and any  *)
(* order of starts, failures, kills and pushes: what the funnel keeps of   *)
(* the traffic, and what the start-up of the programs guarantees.          *)
(***************************************************************************)
EXTENDS Funnel, FiniteSetTheorems, SequenceTheorems, TLAPS

\* The inductive invariants of the funnel.
FunnelType ==
  /\ queue \in [Channels -> Seq(Nat)] /\ spsc \in [Channels -> Seq(Nat)]
  /\ pushes \in [Channels -> Nat] /\ began \in [Channels -> Nat]
  /\ lost \in [Channels -> SUBSET Nat] /\ taken \in [Channels -> SUBSET Nat]
  /\ \A c \in Channels : Len(queue[c]) <= ChannelCap
  /\ last \in 0..(Senders - 1)
  /\ visited \in 0..Senders
  /\ round \in 0..Batch /\ sends \in 0..round
  /\ counted \in Nat
  /\ pc = "pop" => round < Batch

\* What the running pop has left behind was pushed since it began.
Behind ==
  /\ \A c \in Channels : began[c] <= pushes[c]
  /\ pc = "pop" =>
       \A c \in 1..visited : \A k \in 1..Len(queue[c]) : queue[c][k] >= began[c]

\* The p pushes into a ring, of which s went through and q waits.
InOrder(s, q, p) ==
  /\ \A i, j \in 1..Len(s) : i < j => s[i] < s[j]
  /\ \A i, j \in 1..Len(q) : i < j => q[i] < q[j]
  /\ \A i \in 1..Len(s), j \in 1..Len(q) : s[i] < q[j]
  /\ \A i \in 1..Len(s) : s[i] < p
  /\ \A i \in 1..Len(q) : q[i] < p

Entries(q) == {q[i] : i \in 1..Len(q)}

\* What neither went through nor waits is gone, and the rest is not.
Whole(s, q, p, gone) ==
  /\ Entries(s) \cup Entries(q) = (0..(p - 1)) \ gone
  /\ gone \subseteq 0..(p - 1)

Ordered ==
  \A g \in Channels :
    /\ InOrder(spsc[g], queue[g], pushes[g])
    /\ Whole(spsc[g], queue[g], pushes[g], lost[g] \cup taken[g])

FunnelInv == FunnelType /\ Behind /\ Ordered

-----------------------------------------------------------------------------
(* The operators                                                           *)

\* Wherever last splits the channels, the two halves are all of them in order.
LEMMA VisitOrderAll ==
  ASSUME last \in 0..(Senders - 1)
  PROVE  Len(VisitOrder) = Senders /\ \A i \in 1..Senders : VisitOrder[i] = i
<1> DEFINE a == [i \in 1..last |-> i]
           b == [i \in 1..(Senders - last) |-> last + i]
<1>1. Senders \in Nat /\ last \in Nat /\ Senders - last \in Nat
  BY StartupAssumption
<1>2. a \in [1..last -> Nat] /\ b \in [1..(Senders - last) -> Nat]
  BY <1>1
<1>3. /\ \A i \in 1..last : a[i] = i
      /\ \A i \in 1..(Senders - last) : b[i] = last + i
  OBVIOUS
<1> HIDE DEF a, b
<1>4. a \in Seq(Nat) /\ Len(a) = last /\ b \in Seq(Nat) /\ Len(b) = Senders - last
  BY <1>1, <1>2
<1>5. /\ Len(a \o b) = Len(a) + Len(b)
      /\ \A i \in 1..(Len(a) + Len(b)) :
           (a \o b)[i] = IF i <= Len(a) THEN a[i] ELSE b[i - Len(a)]
  BY Zenon, <1>4, ConcatProperties
<1>6. Len(a \o b) = Senders
  BY <1>1, <1>4, <1>5
<1>7. ASSUME NEW i \in 1..Senders PROVE (a \o b)[i] = i
  <2>1. CASE i <= last
    BY <1>1, <1>3, <1>4, <1>5, <2>1
  <2>2. CASE ~(i <= last)
    <3>1. i - last \in 1..(Senders - last) /\ last + (i - last) = i
      BY <1>1, <2>2
    <3>2. i \in 1..(Len(a) + Len(b))
      BY <1>1, <1>4
    <3>3. (a \o b)[i] = b[i - last]
      BY Zenon, <1>4, <1>5, <2>2, <3>2
    <3> QED
      BY Zenon, <1>3, <3>1, <3>3
  <2> QED
    BY <2>1, <2>2, Zenon
<1>8. VisitOrder = a \o b
  BY DEF VisitOrder, a, b
<1> QED
  BY <1>6, <1>7, <1>8

\* The entries of a tail.
LEMMA TailAt ==
  ASSUME NEW S, NEW q \in Seq(S), q # <<>>
  PROVE  /\ Tail(q) \in Seq(S) /\ Len(Tail(q)) = Len(q) - 1 /\ Len(q) \in Nat \ {0}
         /\ \A i \in 1..Len(Tail(q)) : Tail(q)[i] = q[i + 1] /\ i + 1 \in 1..Len(q)
         /\ Head(q) = q[1] /\ Head(q) \in S
OBVIOUS

\* The entries of a sequence with one more.
LEMMA AppendAt ==
  ASSUME NEW S, NEW q \in Seq(S), NEW x \in S
  PROVE  /\ Append(q, x) \in Seq(S) /\ Len(Append(q, x)) = Len(q) + 1 /\ Len(q) \in Nat
         /\ \A i \in 1..Len(q) : Append(q, x)[i] = q[i]
         /\ Append(q, x)[Len(q) + 1] = x
OBVIOUS

\* A push keeps the ring within its capacity: d entries are lost at the front,
\* one if the ring was full and none otherwise.
LEMMA ProduceAt ==
  ASSUME NEW q \in Seq(Nat), Len(q) <= ChannelCap, NEW x \in Nat
  PROVE  \E d \in {0, 1} :
           /\ Produce(q, x) \in Seq(Nat)
           /\ Len(Produce(q, x)) = Len(q) + 1 - d
           /\ Len(Produce(q, x)) <= ChannelCap
           /\ d = 1 => Len(q) = ChannelCap
           /\ \A i \in 1..Len(Produce(q, x)) :
                /\ i + d \in 1..(Len(q) + 1)
                /\ Produce(q, x)[i] = IF i + d = Len(q) + 1 THEN x ELSE q[i + d]
<1> DEFINE full == Append(q, x)
<1>1. /\ full \in Seq(Nat) /\ Len(full) = Len(q) + 1 /\ Len(q) \in Nat
      /\ \A i \in 1..Len(q) : full[i] = q[i]
      /\ full[Len(q) + 1] = x
  BY AppendAt
<1>2. ChannelCap \in Nat \ {0}
  BY FunnelAssumption
<1>3. Produce(q, x) = IF Len(full) > ChannelCap THEN Tail(full) ELSE full
  BY DEF Produce
<1> HIDE DEF full
<1>4. CASE Len(full) > ChannelCap
  <2>1. full # <<>>
    BY <1>1
  <2>2. /\ Tail(full) \in Seq(Nat) /\ Len(Tail(full)) = Len(q)
        /\ \A i \in 1..Len(Tail(full)) : Tail(full)[i] = full[i + 1] /\ i + 1 \in 1..(Len(q) + 1)
    BY <1>1, <2>1, TailAt
  <2>3. Len(q) = ChannelCap
    BY <1>1, <1>2, <1>4
  <2>4. \A i \in 1..Len(Tail(full)) :
          Tail(full)[i] = IF i + 1 = Len(q) + 1 THEN x ELSE q[i + 1]
    <3> SUFFICES ASSUME NEW i \in 1..Len(Tail(full))
                 PROVE  Tail(full)[i] = IF i + 1 = Len(q) + 1 THEN x ELSE q[i + 1]
      OBVIOUS
    <3>1. Tail(full)[i] = full[i + 1] /\ i + 1 \in 1..(Len(q) + 1)
      BY <2>2
    <3>2. i + 1 = Len(q) + 1 \/ i + 1 \in 1..Len(q)
      BY <1>1, <3>1
    <3>3. CASE i + 1 = Len(q) + 1
      BY <1>1, <3>1, <3>3
    <3>4. CASE i + 1 # Len(q) + 1
      BY <1>1, <3>1, <3>2, <3>4
    <3> QED
      BY <3>3, <3>4
  <2>5. Len(Tail(full)) = Len(q) + 1 - 1
    BY <1>1, <2>2
  <2> QED
    BY <1>2, <1>3, <1>4, <2>2, <2>3, <2>4, <2>5
<1>5. CASE ~(Len(full) > ChannelCap)
  <2>1. /\ Len(full) = Len(q) + 1 - 0 /\ Len(full) <= ChannelCap
        /\ \A i \in 1..Len(full) :
             /\ i + 0 \in 1..(Len(q) + 1)
             /\ full[i] = IF i + 0 = Len(q) + 1 THEN x ELSE q[i + 0]
    <3>1. Len(full) = Len(q) + 1 - 0 /\ Len(full) <= ChannelCap
      BY <1>1, <1>2, <1>5
    <3>2. ASSUME NEW i \in 1..Len(full)
          PROVE  /\ i + 0 \in 1..(Len(q) + 1)
                 /\ full[i] = IF i + 0 = Len(q) + 1 THEN x ELSE q[i + 0]
      <4>1. i + 0 = i /\ i \in 1..(Len(q) + 1) /\ (i = Len(q) + 1 \/ i \in 1..Len(q))
        BY <1>1
      <4> QED
        BY Zenon, <1>1, <4>1
    <3> QED
      BY <3>1, <3>2
  <2> QED
    BY <1>1, <1>3, <1>5, <2>1
<1> QED
  BY <1>4, <1>5

\* The order survives a push of p.
LEMMA ProduceInOrder ==
  ASSUME NEW s \in Seq(Nat), NEW q \in Seq(Nat), NEW p \in Nat,
         Len(q) <= ChannelCap, InOrder(s, q, p)
  PROVE  InOrder(s, Produce(q, p), p + 1)
<1> DEFINE r == Produce(q, p)
<1>1. PICK d \in {0, 1} :
        /\ r \in Seq(Nat)
        /\ Len(r) = Len(q) + 1 - d
        /\ d = 1 => Len(q) = ChannelCap
        /\ \A i \in 1..Len(r) :
             /\ i + d \in 1..(Len(q) + 1)
             /\ r[i] = IF i + d = Len(q) + 1 THEN p ELSE q[i + d]
  BY ProduceAt
<1>2. /\ Len(q) \in Nat /\ Len(s) \in Nat /\ Len(r) \in Nat /\ ChannelCap \in Nat
      /\ \A i \in 1..Len(q) : q[i] \in Nat
      /\ \A i \in 1..Len(s) : s[i] \in Nat
  <2>1. Len(q) \in Nat /\ \A i \in 1..Len(q) : q[i] \in Nat
    OBVIOUS
  <2>2. Len(s) \in Nat /\ \A i \in 1..Len(s) : s[i] \in Nat
    OBVIOUS
  <2>3. Len(r) \in Nat
    BY <1>1
  <2> QED
    BY <2>1, <2>2, <2>3, FunnelAssumption
<1> HIDE DEF r
\* An entry of the new ring is p, the last one, or one that was there.
<1>a. ASSUME NEW i \in 1..Len(r)
      PROVE  \/ i = Len(r) /\ r[i] = p
             \/ i # Len(r) /\ i + d \in 1..Len(q) /\ r[i] = q[i + d]
  <2>1. i + d = Len(q) + 1 <=> i = Len(r)
    BY <1>1, <1>2
  <2>2. i # Len(r) => i + d \in 1..Len(q)
    BY <1>1, <1>2, <2>1
  <2> QED
    BY Zenon, <1>1, <2>1, <2>2
<1>3. ASSUME NEW i \in 1..Len(r) PROVE r[i] \in Nat /\ r[i] <= p
  <2>1. CASE r[i] = p
    BY <2>1
  <2>2. CASE i + d \in 1..Len(q) /\ r[i] = q[i + d]
    BY <1>2, <2>2 DEF InOrder
  <2> QED
    BY <1>a, <2>1, <2>2
<1>4. ASSUME NEW i \in 1..Len(r), NEW j \in 1..Len(r), i < j PROVE r[i] < r[j]
  <2>1. i + d \in 1..Len(q) /\ r[i] = q[i + d] /\ i + d < j + d
    BY <1>2, <1>4, <1>a
  <2>2. CASE r[j] = p
    BY <2>1, <2>2 DEF InOrder
  <2>3. CASE j + d \in 1..Len(q) /\ r[j] = q[j + d]
    BY <2>1, <2>3 DEF InOrder
  <2> QED
    BY <1>a, <2>2, <2>3, Zenon
<1>5. ASSUME NEW i \in 1..Len(s), NEW j \in 1..Len(r) PROVE s[i] < r[j]
  BY <1>a, Zenon DEF InOrder
<1>6. \A i \in 1..Len(s) : s[i] < p + 1
  BY <1>2 DEF InOrder
<1>7. \A i \in 1..Len(r) : r[i] < p + 1
  BY <1>3
<1>8. InOrder(s, r, p + 1)
  BY <1>4, <1>5, <1>6, <1>7 DEF InOrder
<1> QED
  BY <1>8 DEF r

\* The order survives a pop.
LEMMA BelowLast ==
  ASSUME NEW n \in Nat, NEW i \in 1..(n + 1), NEW j \in 1..(n + 1), i < j
  PROVE  i \in 1..n /\ (j \in 1..n \/ j = n + 1)
OBVIOUS

\* A pop from a channel keeps its numbers in order.
LEMMA ConsumeInOrder ==
  ASSUME NEW s \in Seq(Nat), NEW q \in Seq(Nat), NEW p \in Nat,
         q # <<>>, InOrder(s, q, p)
  PROVE  InOrder(Append(s, Head(q)), Tail(q), p)
<1> DEFINE u == Append(s, Head(q))
           r == Tail(q)
<1>1. /\ r \in Seq(Nat) /\ Len(r) = Len(q) - 1 /\ Len(q) \in Nat \ {0}
      /\ \A i \in 1..Len(r) : r[i] = q[i + 1] /\ i + 1 \in 1..Len(q)
      /\ Head(q) = q[1] /\ Head(q) \in Nat
  BY TailAt
<1>2. /\ u \in Seq(Nat) /\ Len(u) = Len(s) + 1 /\ Len(s) \in Nat
      /\ \A i \in 1..Len(s) : u[i] = s[i]
      /\ u[Len(s) + 1] = q[1]
  BY <1>1, AppendAt
<1> HIDE DEF u, r
<1>3. /\ 1 \in 1..Len(q) /\ q[1] < p
      /\ \A i \in 1..Len(s) : s[i] < q[1]
      /\ \A i \in 1..Len(r) : q[1] < r[i]
  <2>1. 1 \in 1..Len(q)
    BY <1>1
  <2>2. ASSUME NEW i \in 1..Len(r) PROVE q[1] < q[i + 1]
    <3>1. i + 1 \in 1..Len(q) /\ 1 < i + 1
      BY <1>1
    <3> QED
      BY <2>1, <3>1 DEF InOrder
  <2> QED
    BY Zenon, <1>1, <2>1, <2>2 DEF InOrder
<1>4. ASSUME NEW i \in 1..Len(u), NEW j \in 1..Len(u), i < j PROVE u[i] < u[j]
  <2>1. i \in 1..Len(s) /\ (j \in 1..Len(s) \/ j = Len(s) + 1)
    <3>1. Len(s) \in Nat /\ i \in 1..(Len(s) + 1) /\ j \in 1..(Len(s) + 1)
      BY <1>2
    <3> QED
      BY <1>4, <3>1, BelowLast, Zenon
  <2>2. CASE j \in 1..Len(s)
    <3>1. s[i] < s[j]
      BY <1>4, <2>1, <2>2 DEF InOrder
    <3> QED
      BY <1>2, <2>1, <2>2, <3>1
  <2>3. CASE j = Len(s) + 1
    BY <1>2, <1>3, <2>1, <2>3
  <2> QED
    BY <2>1, <2>2, <2>3
<1>5. ASSUME NEW i \in 1..Len(r), NEW j \in 1..Len(r), i < j PROVE r[i] < r[j]
  <2>1. /\ r[i] = q[i + 1] /\ r[j] = q[j + 1]
        /\ i + 1 \in 1..Len(q) /\ j + 1 \in 1..Len(q) /\ i + 1 < j + 1
    <3>1. r[i] = q[i + 1] /\ i + 1 \in 1..Len(q)
      BY <1>1
    <3>2. r[j] = q[j + 1] /\ j + 1 \in 1..Len(q)
      BY <1>1
    <3>3. i + 1 < j + 1
      BY <1>5
    <3> QED
      BY <3>1, <3>2, <3>3
  <2> QED
    BY <2>1 DEF InOrder
<1>6. ASSUME NEW i \in 1..Len(u), NEW j \in 1..Len(r) PROVE u[i] < r[j]
  <2>1. i \in 1..Len(s) \/ i = Len(s) + 1
    BY <1>2
  <2> QED
    BY <1>1, <1>2, <1>3, <2>1, Zenon DEF InOrder
<1>7. \A i \in 1..Len(u) : u[i] < p
  <2>1. \A i \in 1..Len(u) : i \in 1..Len(s) \/ i = Len(s) + 1
    BY <1>2
  <2> QED
    BY <1>2, <1>3, <2>1, Zenon DEF InOrder
<1>8. \A i \in 1..Len(r) : r[i] < p
  BY <1>1, Zenon DEF InOrder
<1>9. InOrder(u, r, p)
  BY <1>4, <1>5, <1>6, <1>7, <1>8 DEF InOrder
<1> QED
  BY <1>9 DEF u, r

\* So does a pop by somebody else.
LEMMA TakeInOrder ==
  ASSUME NEW s \in Seq(Nat), NEW q \in Seq(Nat), NEW p \in Nat,
         q # <<>>, InOrder(s, q, p)
  PROVE  InOrder(s, Tail(q), p)
<1> DEFINE r == Tail(q)
<1>1. /\ Len(r) = Len(q) - 1 /\ Len(q) \in Nat \ {0}
      /\ \A i \in 1..Len(r) : r[i] = q[i + 1] /\ i + 1 \in 1..Len(q)
  BY TailAt
<1> HIDE DEF r
<1>2. ASSUME NEW i \in 1..Len(r), NEW j \in 1..Len(r), i < j PROVE r[i] < r[j]
  <2>1. i + 1 \in 1..Len(q) /\ j + 1 \in 1..Len(q) /\ i + 1 < j + 1
    BY <1>1, <1>2
  <2>2. q[i + 1] < q[j + 1]
    BY <2>1 DEF InOrder
  <2> QED
    BY <1>1, <2>2
<1>3. \A i \in 1..Len(s), j \in 1..Len(r) : s[i] < r[j]
  BY <1>1, Zenon DEF InOrder
<1>4. \A i \in 1..Len(r) : r[i] < p
  BY <1>1, Zenon DEF InOrder
<1>5. InOrder(s, r, p)
  BY Zenon, <1>2, <1>3, <1>4 DEF InOrder
<1> QED
  BY <1>5 DEF r

\* The entries of a tail of numbers in order.
LEMMA TailEntries ==
  ASSUME NEW q \in Seq(Nat), q # <<>>,
         \A i, j \in 1..Len(q) : i < j => q[i] < q[j]
  PROVE  Entries(Tail(q)) = Entries(q) \ {Head(q)} /\ Head(q) \in Entries(q)
<1> DEFINE r == Tail(q)
<1>1. /\ Len(r) = Len(q) - 1 /\ Len(q) \in Nat \ {0}
      /\ \A i \in 1..Len(r) : r[i] = q[i + 1] /\ i + 1 \in 1..Len(q)
      /\ Head(q) = q[1] /\ q[1] \in Nat
  BY TailAt
<1> HIDE DEF r
<1>2. 1 \in 1..Len(q)
  BY <1>1
<1>3. ASSUME NEW i \in 1..Len(r) PROVE r[i] \in Entries(q) /\ r[i] # q[1]
  <2>1. i + 1 \in 1..Len(q) /\ 1 < i + 1 /\ r[i] = q[i + 1]
    BY <1>1
  <2>2. q[1] < q[i + 1] /\ q[i + 1] \in Nat
    BY <1>2, <2>1
  <2>3. q[i + 1] # q[1]
    BY <1>1, <2>2
  <2> QED
    BY Zenon, <2>1, <2>3 DEF Entries
<1>4. ASSUME NEW i \in 1..Len(q), q[i] # q[1] PROVE q[i] \in Entries(r)
  <2>1. i # 1
    BY <1>4
  <2>2. i - 1 \in 1..Len(r) /\ (i - 1) + 1 = i
    BY <1>1, <2>1
  <2>3. r[i - 1] = q[i]
    BY <1>1, <2>2
  <2> QED
    BY Zenon, <2>2, <2>3 DEF Entries
<1>5. \A y : y \in Entries(r) <=> y \in Entries(q) \ {q[1]}
  BY Zenon, <1>3, <1>4 DEF Entries
<1>6. Entries(r) = Entries(q) \ {q[1]}
  BY Zenon, <1>5
<1>7. q[1] \in Entries(q)
  BY <1>2 DEF Entries
<1> QED
  BY <1>1, <1>6, <1>7 DEF r

\* The entries of a sequence with one more.
LEMMA AppendEntries ==
  ASSUME NEW q \in Seq(Nat), NEW x \in Nat
  PROVE  Entries(Append(q, x)) = Entries(q) \cup {x}
<1> DEFINE u == Append(q, x)
<1>1. /\ Len(u) = Len(q) + 1 /\ Len(q) \in Nat
      /\ \A i \in 1..Len(q) : u[i] = q[i]
      /\ u[Len(q) + 1] = x
  BY AppendAt
<1> HIDE DEF u
<1>2. \A i : i \in 1..Len(u) <=> i \in 1..Len(q) \/ i = Len(q) + 1
  BY <1>1
<1>3. \A y : y \in Entries(u) <=> y \in Entries(q) \/ y = x
  BY Zenon, <1>1, <1>2 DEF Entries
<1>4. Entries(u) = Entries(q) \cup {x}
  BY Zenon, <1>3
<1> QED
  BY <1>4 DEF u

\* The head of a ring has not gone through.
LEMMA HeadIsNew ==
  ASSUME NEW s \in Seq(Nat), NEW q \in Seq(Nat), NEW p \in Nat,
         q # <<>>, InOrder(s, q, p)
  PROVE  Head(q) \in 0..(p - 1) /\ Head(q) \notin Entries(s)
<1>1. Head(q) = q[1] /\ Len(q) \in Nat \ {0} /\ q[1] \in Nat
  BY TailAt
<1>2. 1 \in 1..Len(q)
  BY <1>1
<1>3. q[1] < p /\ \A i \in 1..Len(s) : s[i] < q[1]
  BY <1>2 DEF InOrder
<1>4. \A i \in 1..Len(s) : s[i] # q[1]
  BY <1>1, <1>3
<1>5. q[1] \notin Entries(s)
  BY Zenon, <1>4 DEF Entries
<1> QED
  BY <1>1, <1>3, <1>5

\* A pop of this funnel or of the other one accounts for what it takes.
LEMMA ConsumeWhole ==
  ASSUME NEW s \in Seq(Nat), NEW q \in Seq(Nat), NEW p \in Nat, NEW gone, NEW more,
         q # <<>>, InOrder(s, q, p), Whole(s, q, p, gone),
         \A y : y \in more <=> y \in gone \/ y = Head(q)
  PROVE  /\ Whole(Append(s, Head(q)), Tail(q), p, gone)
         /\ Whole(s, Tail(q), p, more)
<1>1. Entries(Tail(q)) = Entries(q) \ {Head(q)} /\ Head(q) \in Entries(q)
  BY TailEntries DEF InOrder
<1>2. Head(q) \in 0..(p - 1) /\ Head(q) \notin Entries(s) /\ Head(q) \in Nat
  BY HeadIsNew
<1>3. Entries(Append(s, Head(q))) = Entries(s) \cup {Head(q)}
  BY Zenon, <1>2, AppendEntries
<1>4. Entries(s) \cup Entries(q) = (0..(p - 1)) \ gone /\ gone \subseteq 0..(p - 1)
  BY Zenon DEF Whole
<1>5. Entries(Append(s, Head(q))) \cup Entries(Tail(q)) = (0..(p - 1)) \ gone
  BY <1>1, <1>3, <1>4
<1>6. Entries(s) \cup Entries(Tail(q)) = (0..(p - 1)) \ more
  BY <1>1, <1>2, <1>4
<1>7. more \subseteq 0..(p - 1)
  BY Zenon, <1>2, <1>4
<1> QED
  BY Zenon, <1>4, <1>5, <1>6, <1>7 DEF Whole

\* What a push into q overwrites.
Overwritten(q) == IF Overwrites(q) THEN {Head(q)} ELSE {}

\* A push accounts for what it overwrites.
LEMMA ProduceWhole ==
  ASSUME NEW s \in Seq(Nat), NEW q \in Seq(Nat), NEW p \in Nat, NEW gone, NEW more,
         Len(q) <= ChannelCap, InOrder(s, q, p), Whole(s, q, p, gone),
         \A y : y \in more <=> y \in gone \/ y \in Overwritten(q)
  PROVE  Whole(s, Produce(q, p), p + 1, more)
<1> DEFINE full == Append(q, p)
<1>1. /\ full \in Seq(Nat) /\ Len(full) = Len(q) + 1 /\ Len(q) \in Nat
      /\ \A i \in 1..Len(q) : full[i] = q[i]
      /\ full[Len(q) + 1] = p
  BY AppendAt
<1>2. Entries(full) = Entries(q) \cup {p}
  BY Zenon, AppendEntries
<1>3. Produce(q, p) = IF Len(full) > ChannelCap THEN Tail(full) ELSE full
  BY DEF Produce
<1> HIDE DEF full
<1>4. Entries(s) \cup Entries(q) = (0..(p - 1)) \ gone /\ gone \subseteq 0..(p - 1)
  BY Zenon DEF Whole
<1>5. ChannelCap \in Nat \ {0}
  BY FunnelAssumption
<1>6. /\ (p + 1) - 1 = p /\ 0..p = 0..(p - 1) \cup {p} /\ p \notin 0..(p - 1)
      /\ \A y \in 0..(p - 1) : y \in 0..p
  OBVIOUS
<1>7. Entries(s) \cup Entries(full) = (0..p) \ gone
  BY <1>2, <1>4, <1>6
<1>8. CASE Overwrites(q)
  <2>1. Len(q) = ChannelCap /\ Len(full) > ChannelCap
    BY <1>1, <1>5, <1>8 DEF Overwrites
  <2>2. q # <<>> /\ full # <<>>
    BY <1>1, <1>5, <2>1
  <2>3. \A i, j \in 1..Len(full) : i < j => full[i] < full[j]
    <3> SUFFICES ASSUME NEW i \in 1..Len(full), NEW j \in 1..Len(full), i < j
                 PROVE  full[i] < full[j]
      OBVIOUS
    <3>1. i \in 1..Len(q) /\ (j \in 1..Len(q) \/ j = Len(q) + 1)
      <4>1. Len(q) \in Nat /\ i \in 1..(Len(q) + 1) /\ j \in 1..(Len(q) + 1)
        BY <1>1
      <4> QED
        BY <4>1, BelowLast, Zenon
    <3>2. full[i] = q[i] /\ q[i] < p
      BY Zenon, <1>1, <3>1 DEF InOrder
    <3>3. CASE j \in 1..Len(q)
      <4>1. full[j] = q[j] /\ q[i] < q[j]
        BY Zenon, <1>1, <3>1, <3>3 DEF InOrder
      <4> QED
        BY <3>2, <4>1
    <3>4. CASE j = Len(q) + 1
      BY <1>1, <3>2, <3>4
    <3> QED
      BY <3>1, <3>3, <3>4
  <2>4. Head(full) = Head(q)
    <3>1. Head(full) = full[1] /\ Head(q) = q[1]
      BY Zenon, <1>1, <2>2, TailAt
    <3>2. 1 \in 1..Len(q)
      BY <1>5, <2>1
    <3> QED
      BY <1>1, <3>1, <3>2
  <2>5. Entries(Tail(full)) = Entries(full) \ {Head(q)}
    <3>1. Entries(Tail(full)) = Entries(full) \ {Head(full)}
      BY Zenon, <1>1, <2>2, <2>3, TailEntries
    <3> QED
      BY <2>4, <3>1
  <2>6. Head(q) \in 0..(p - 1) /\ Head(q) \notin Entries(s)
    BY <2>2, HeadIsNew
  <2>7. Produce(q, p) = Tail(full)
    BY <1>3, <2>1
  <2>8. \A y : y \in more <=> y \in gone \/ y = Head(q)
    BY Zenon, <1>8 DEF Overwritten
  <2>9. Entries(s) \cup Entries(Tail(full)) = (0..p) \ more
    BY <1>7, <2>5, <2>6, <2>8
  <2>10. more \subseteq 0..p
    BY Zenon, <1>4, <1>6, <2>6, <2>8
  <2> QED
    BY <1>6, <2>7, <2>9, <2>10 DEF Whole
<1>9. CASE ~Overwrites(q)
  <2>1. ~(Len(full) > ChannelCap)
    BY <1>1, <1>5, <1>9 DEF Overwrites
  <2>2. Produce(q, p) = full
    BY <1>3, <2>1
  <2>3. \A y : y \in more <=> y \in gone
    BY Zenon, <1>9 DEF Overwritten
  <2>4. Entries(s) \cup Entries(full) = (0..p) \ more
    BY <1>7, <2>3
  <2>5. more \subseteq 0..p
    BY Zenon, <1>4, <1>6, <2>3
  <2> QED
    BY <1>6, <2>2, <2>4, <2>5 DEF Whole
<1> QED
  BY <1>8, <1>9

-----------------------------------------------------------------------------
(* The steps of the funnel                                                 *)

\* The funnel starts in its invariant.
LEMMA FunnelInit == Init => FunnelInv
<1> SUFFICES ASSUME Init PROVE FunnelInv
  OBVIOUS
<1>1. /\ queue = [c \in Channels |-> <<>>] /\ spsc = [c \in Channels |-> <<>>]
      /\ pushes = [c \in Channels |-> 0] /\ began = [c \in Channels |-> 0]
      /\ lost = [c \in Channels |-> {}] /\ taken = [c \in Channels |-> {}]
      /\ pc = "waiting" /\ last = 0 /\ visited = 0 /\ round = 0 /\ sends = 0 /\ counted = 0
  BY DEF Init
<1>2. /\ <<>> \in Seq(Nat) /\ Len(<<>>) = 0 /\ 1..0 = {}
      /\ Senders \in Nat \ {0} /\ Batch \in Nat \ {0} /\ ChannelCap \in Nat \ {0}
  BY StartupAssumption, FunnelAssumption
<1>3. FunnelType
  BY <1>1, <1>2 DEF FunnelType
<1>4. Behind
  BY <1>1 DEF Behind
<1>5. InOrder(<<>>, <<>>, 0) /\ Whole(<<>>, <<>>, 0, {} \cup {})
  BY <1>2 DEF InOrder, Whole, Entries
<1>6. Ordered
  BY <1>1, <1>5 DEF Ordered
<1> QED
  BY <1>3, <1>4, <1>6 DEF FunnelInv

\* A push of a generator keeps the invariant.
LEMMA GenerateFunnel ==
  ASSUME FunnelInv, NEW g \in Channels, Generate(g)
  PROVE  FunnelInv'
<1> DEFINE q == queue[g]
           p == pushes[g]
           v == IF Overwrites(q) THEN lost[g] \cup {Head(q)} ELSE lost[g]
<1>1. /\ queue' = [queue EXCEPT ![g] = Produce(q, p)]
      /\ pushes' = [pushes EXCEPT ![g] = p + 1]
      /\ lost' = [lost EXCEPT ![g] = v]
      /\ UNCHANGED <<taken, pc, last, visited, round, sends, spsc, began, counted>>
  <2>1. /\ queue' = [queue EXCEPT ![g] = Produce(q, p)]
        /\ pushes' = [pushes EXCEPT ![g] = p + 1]
        /\ lost' = [lost EXCEPT ![g] = v]
    BY Zenon DEF Generate
  <2>2. UNCHANGED <<taken, pc, last, visited, round, sends, spsc, began, counted>>
    BY Zenon DEF Generate, popVars
  <2> QED
    BY Zenon, <2>1, <2>2
<1>2. /\ q \in Seq(Nat) /\ p \in Nat /\ Len(q) <= ChannelCap
      /\ queue \in [Channels -> Seq(Nat)] /\ pushes \in [Channels -> Nat]
      /\ spsc[g] \in Seq(Nat) /\ InOrder(spsc[g], q, p)
      /\ Whole(spsc[g], q, p, lost[g] \cup taken[g])
      /\ lost \in [Channels -> SUBSET Nat] /\ taken \in [Channels -> SUBSET Nat]
      /\ began \in [Channels -> Nat] /\ began[g] <= p
  <2>1. InOrder(spsc[g], q, p) /\ Whole(spsc[g], q, p, lost[g] \cup taken[g])
    BY Zenon DEF FunnelInv, Ordered
  <2> QED
    BY <2>1 DEF FunnelInv, FunnelType, Behind
<1>3. PICK d \in {0, 1} :
        /\ Produce(q, p) \in Seq(Nat)
        /\ Len(Produce(q, p)) <= ChannelCap
        /\ \A i \in 1..Len(Produce(q, p)) :
             /\ i + d \in 1..(Len(q) + 1)
             /\ Produce(q, p)[i] = IF i + d = Len(q) + 1 THEN p ELSE q[i + d]
  BY <1>2, ProduceAt, Zenon
<1>a. \A y : y \in v <=> y \in lost[g] \/ y \in Overwritten(q)
  BY Zenon DEF Overwritten
<1> HIDE DEF q, p, v
<1>4. FunnelType'
  <2>1. queue' \in [Channels -> Seq(Nat)] /\ pushes' \in [Channels -> Nat]
    BY <1>1, <1>2, <1>3
  <2>2. \A c \in Channels : Len(queue'[c]) <= ChannelCap
    BY <1>1, <1>2, <1>3 DEF FunnelInv, FunnelType
  <2>3. Overwritten(q) \subseteq Nat
    <3>1. CASE Overwrites(q)
      <4>1. q # <<>>
        BY <1>2, <3>1, FunnelAssumption DEF Overwrites
      <4>2. Head(q) \in Nat
        BY <1>2, <4>1
      <4> QED
        BY <3>1, <4>2 DEF Overwritten
    <3>2. CASE ~Overwrites(q)
      BY <3>2 DEF Overwritten
    <3> QED
      BY <3>1, <3>2
  <2>4. v \in SUBSET Nat
    BY <1>a, <1>2, <2>3
  <2>5. lost' \in [Channels -> SUBSET Nat]
    BY Zenon, <1>1, <1>2, <2>4
  <2> QED
    BY Zenon, <1>1, <2>1, <2>2, <2>5 DEF FunnelInv, FunnelType
<1>5. Behind'
  <2>1. \A c \in Channels : began'[c] <= pushes'[c]
    BY <1>1, <1>2 DEF FunnelInv, Behind
  <2>2. ASSUME pc' = "pop", NEW c \in 1..visited', NEW k \in 1..Len(queue'[c])
        PROVE  queue'[c][k] >= began'[c]
    <3>1. c \in Channels /\ c \in 1..visited /\ pc = "pop"
      <4>1. visited' = visited /\ pc' = pc /\ visited \in 0..Senders /\ Senders \in Nat
        BY <1>1, StartupAssumption DEF FunnelInv, FunnelType
      <4> QED
        BY <2>2, <4>1 DEF Channels
    <3>2. \A i \in 1..Len(queue[c]) : queue[c][i] >= began[c]
      BY <3>1 DEF FunnelInv, Behind
    <3>3. CASE c = g
      <4>1. queue'[c] = Produce(q, p) /\ began'[c] = began[g]
        BY <1>1, <1>2, <3>3
      <4>2. Len(q) \in Nat /\ k + d \in 1..(Len(q) + 1)
        <5>1. k \in 1..Len(Produce(q, p))
          BY <2>2, <4>1
        <5> QED
          BY <1>2, <1>3, <5>1
      <4>3. CASE k + d = Len(q) + 1
        BY Zenon, <1>2, <1>3, <2>2, <4>1, <4>3
      <4>4. CASE k + d # Len(q) + 1
        <5>1. k + d \in 1..Len(q)
          BY <4>2, <4>4
        <5> QED
          BY <1>3, <2>2, <3>2, <3>3, <4>1, <4>4, <5>1 DEF q
      <4> QED
        BY <4>3, <4>4
    <3>4. CASE c # g
      BY <1>1, <1>2, <2>2, <3>1, <3>2, <3>4
    <3> QED
      BY <3>3, <3>4
  <2> QED
    BY <2>1, <2>2 DEF Behind
<1>6. Ordered'
  <2>1. InOrder(spsc[g], Produce(q, p), p + 1)
    BY <1>2, ProduceInOrder
  <2>2. Whole(spsc[g], Produce(q, p), p + 1, lost'[g] \cup taken[g])
    <3>1. lost'[g] = v
      BY Zenon, <1>1, <1>2
    <3>2. \A y : y \in lost'[g] \cup taken[g] <=>
                y \in lost[g] \cup taken[g] \/ y \in Overwritten(q)
      BY <1>a, <3>1
    <3> QED
      BY Zenon, <1>2, <3>2, ProduceWhole
  <2>3. /\ queue'[g] = Produce(q, p) /\ pushes'[g] = p + 1
        /\ \A c \in Channels \ {g} :
             queue'[c] = queue[c] /\ pushes'[c] = pushes[c] /\ lost'[c] = lost[c]
    BY <1>1, <1>2
  <2> SUFFICES ASSUME NEW c \in Channels
               PROVE  /\ InOrder(spsc[c], queue'[c], pushes'[c])
                      /\ Whole(spsc[c], queue'[c], pushes'[c], lost'[c] \cup taken[c])
    BY Zenon, <1>1 DEF Ordered
  <2>4. CASE c = g
    BY <2>1, <2>2, <2>3, <2>4
  <2>5. CASE c # g
    BY <2>3, <2>5 DEF FunnelInv, Ordered
  <2> QED
    BY <2>4, <2>5
<1> QED
  BY <1>4, <1>5, <1>6 DEF FunnelInv

\* So does a pop of the other engine's funnel.
LEMMA OtherPopFunnel ==
  ASSUME FunnelInv, NEW g \in Channels, OtherPop(g)
  PROVE  FunnelInv'
<1> DEFINE q == queue[g]
           r == Tail(q)
           h == Head(q)
<1>1. /\ q # <<>> /\ queue' = [queue EXCEPT ![g] = r]
      /\ taken' = [taken EXCEPT ![g] = taken[g] \cup {h}]
      /\ UNCHANGED <<pushes, lost, pc, last, visited, round, sends, spsc, began, counted>>
  BY DEF OtherPop, popVars
<1>2. /\ q \in Seq(Nat) /\ pushes[g] \in Nat /\ Len(q) <= ChannelCap
      /\ queue \in [Channels -> Seq(Nat)] /\ ChannelCap \in Nat
      /\ spsc[g] \in Seq(Nat) /\ InOrder(spsc[g], q, pushes[g])
      /\ Whole(spsc[g], q, pushes[g], lost[g] \cup taken[g])
      /\ taken \in [Channels -> SUBSET Nat]
  <2>1. InOrder(spsc[g], q, pushes[g]) /\ Whole(spsc[g], q, pushes[g], lost[g] \cup taken[g])
    BY Zenon DEF FunnelInv, Ordered
  <2> QED
    BY <2>1, FunnelAssumption DEF FunnelInv, FunnelType
<1>3. /\ r \in Seq(Nat) /\ Len(r) = Len(q) - 1 /\ Len(q) \in Nat
      /\ h \in Nat
      /\ \A i \in 1..Len(r) : r[i] = q[i + 1] /\ i + 1 \in 1..Len(q)
  BY Zenon, <1>1, <1>2, TailAt
<1> HIDE DEF q, r, h
<1>4. /\ queue'[g] = r /\ taken'[g] = taken[g] \cup {h}
      /\ \A c \in Channels \ {g} : queue'[c] = queue[c] /\ taken'[c] = taken[c]
  BY <1>1, <1>2
<1>5. queue' \in [Channels -> Seq(Nat)] /\ taken' \in [Channels -> SUBSET Nat]
  BY <1>1, <1>2, <1>3
<1>6. FunnelType'
  <2>1. Len(r) <= ChannelCap
    BY <1>2, <1>3
  <2>2. ASSUME NEW c \in Channels PROVE Len(queue'[c]) <= ChannelCap
    <3>1. Len(queue[c]) <= ChannelCap
      BY Zenon DEF FunnelInv, FunnelType
    <3> QED
      BY <1>4, <2>1, <3>1
  <2> QED
    BY Zenon, <1>1, <1>5, <2>2 DEF FunnelInv, FunnelType
<1>7. Behind'
  <2>1. ASSUME pc' = "pop", NEW c \in 1..visited', NEW k \in 1..Len(queue'[c])
        PROVE  queue'[c][k] >= began'[c]
    <3>1. c \in Channels /\ c \in 1..visited /\ pc = "pop" /\ began' = began
      <4>1. visited' = visited /\ pc' = pc /\ visited \in 0..Senders /\ Senders \in Nat
        BY <1>1, StartupAssumption DEF FunnelInv, FunnelType
      <4> QED
        BY <1>1, <2>1, <4>1 DEF Channels
    <3>2. \A i \in 1..Len(queue[c]) : queue[c][i] >= began[c]
      BY <3>1 DEF FunnelInv, Behind
    <3>3. CASE c = g
      <4>1. queue'[c] = r /\ k \in 1..Len(r)
        BY <1>4, <2>1, <3>3
      <4>2. r[k] = q[k + 1] /\ k + 1 \in 1..Len(q)
        BY Zenon, <1>3, <4>1
      <4> QED
        BY <3>1, <3>2, <3>3, <4>1, <4>2 DEF q
    <3>4. CASE c # g
      BY <1>4, <2>1, <3>1, <3>2, <3>4
    <3> QED
      BY <3>3, <3>4
  <2>2. \A c \in Channels : began'[c] <= pushes'[c]
    BY Zenon, <1>1 DEF FunnelInv, Behind
  <2> QED
    BY Zenon, <2>1, <2>2 DEF Behind
<1>8. Ordered'
  <2>1. InOrder(spsc[g], r, pushes[g])
    BY Zenon, <1>1, <1>2, TakeInOrder DEF r
  <2>2. Whole(spsc[g], r, pushes[g], lost[g] \cup taken'[g])
    <3>1. \A y : y \in lost[g] \cup taken'[g] <=> y \in lost[g] \cup taken[g] \/ y = h
      BY <1>4
    <3> QED
      BY Zenon, <1>1, <1>2, <3>1, ConsumeWhole DEF r, h
  <2> SUFFICES ASSUME NEW c \in Channels
               PROVE  /\ InOrder(spsc[c], queue'[c], pushes[c])
                      /\ Whole(spsc[c], queue'[c], pushes[c], lost[c] \cup taken'[c])
    BY Zenon, <1>1 DEF Ordered
  <2>3. CASE c = g
    BY <1>4, <2>1, <2>2, <2>3
  <2>4. CASE c # g
    BY <1>4, <2>4 DEF FunnelInv, Ordered
  <2> QED
    BY <2>3, <2>4
<1> QED
  BY Zenon, <1>6, <1>7, <1>8 DEF FunnelInv

\* The end of a pop: last is reduced again, and the next pop has begun.
LEMMA EndPopFunnel ==
  ASSUME FunnelInv, pc = "pop", NEW seen \in 0..Senders, EndPop(seen)
  PROVE  /\ last' \in 0..(Senders - 1) /\ visited' = 0 /\ began' = pushes
         /\ round' = round + 1 /\ round' \in 0..Batch
         /\ pc' = "pop" => round' < Batch
         /\ pc' \in {"pop", "sync"}
<1>1. /\ Senders \in Nat \ {0} /\ last \in 0..(Senders - 1)
      /\ Batch \in Nat \ {0} /\ round \in 0..Batch /\ round < Batch
  BY StartupAssumption, FunnelAssumption DEF FunnelInv, FunnelType
<1>2. /\ last' = (last + seen) % Senders /\ round' = round + 1
      /\ pc' = (IF round + 1 = Batch THEN "sync" ELSE "pop")
      /\ visited' = 0 /\ began' = pushes
  BY DEF EndPop, NextLast, BeginPop
<1>3. last' \in 0..(Senders - 1)
  <2>1. ASSUME NEW a \in Nat, NEW b \in Nat \ {0} PROVE a % b \in 0..(b - 1)
    OBVIOUS
  <2>2. last + seen \in Nat
    BY <1>1
  <2> QED
    BY <1>1, <1>2, <2>1, <2>2
<1> QED
  BY <1>1, <1>2, <1>3

\* A visit of pop_packet to a channel keeps the invariant.
LEMMA PopPacketFunnel ==
  ASSUME FunnelInv, PopPacket
  PROVE  /\ FunnelInv' /\ pc' \in {"pop", "sync"} /\ sends' = sends + 1
         /\ \E c \in Channels, x \in Nat : spsc' = [spsc EXCEPT ![c] = Append(@, x)]
<1> DEFINE c == visited + 1
           q == queue[c]
<1>1. /\ Len(VisitOrder) = Senders /\ \A i \in 1..Senders : VisitOrder[i] = i
      /\ Senders \in Nat \ {0}
  BY VisitOrderAll, StartupAssumption DEF FunnelInv, FunnelType
<1>2. visited \in 0..Senders /\ visited < Senders /\ c \in Channels
  BY <1>1 DEF PopPacket, FunnelInv, FunnelType, Channels
<1>3. /\ pc = "pop" /\ q # <<>>
      /\ queue' = [queue EXCEPT ![c] = Tail(q)]
      /\ spsc' = [spsc EXCEPT ![c] = Append(spsc[c], Head(q))]
      /\ sends' = sends + 1 /\ EndPop(c) /\ UNCHANGED <<pushes, lost, taken, counted>>
  BY <1>1, <1>2, Zenon DEF PopPacket, Channels
<1> HIDE DEF c
<1>4. /\ last' \in 0..(Senders - 1) /\ visited' = 0 /\ began' = pushes
      /\ round' = round + 1 /\ round' \in 0..Batch
      /\ pc' = "pop" => round' < Batch
      /\ pc' \in {"pop", "sync"}
  <2>1. c \in 0..Senders
    BY <1>1, <1>2 DEF Channels
  <2> QED
    BY <1>3, <2>1, EndPopFunnel
<1>5. /\ queue \in [Channels -> Seq(Nat)] /\ spsc \in [Channels -> Seq(Nat)]
      /\ pushes \in [Channels -> Nat] /\ counted \in Nat
      /\ lost \in [Channels -> SUBSET Nat] /\ taken \in [Channels -> SUBSET Nat]
      /\ \A g \in Channels : Len(queue[g]) <= ChannelCap
      /\ round \in Nat /\ sends \in 0..round /\ ChannelCap \in Nat
      /\ q \in Seq(Nat) /\ spsc[c] \in Seq(Nat)
  BY <1>2, FunnelAssumption DEF FunnelInv, FunnelType
<1>6. /\ Tail(q) \in Seq(Nat) /\ Len(Tail(q)) = Len(q) - 1 /\ Len(q) \in Nat
      /\ Head(q) \in Nat /\ Append(spsc[c], Head(q)) \in Seq(Nat)
  BY Zenon, <1>3, <1>5, TailAt, AppendAt
<1>7. /\ InOrder(Append(spsc[c], Head(q)), Tail(q), pushes[c])
      /\ Whole(Append(spsc[c], Head(q)), Tail(q), pushes[c], lost[c] \cup taken[c])
  <2>1. /\ InOrder(spsc[c], q, pushes[c]) /\ pushes[c] \in Nat
        /\ Whole(spsc[c], q, pushes[c], lost[c] \cup taken[c])
    BY <1>2, <1>5 DEF FunnelInv, Ordered
  <2>2. \A y : y \in (lost[c] \cup taken[c]) \cup {Head(q)} <=>
              y \in lost[c] \cup taken[c] \/ y = Head(q)
    BY Zenon
  <2> QED
    BY Zenon, <1>3, <1>5, <2>1, <2>2, ConsumeInOrder, ConsumeWhole
<1>8. FunnelType'
  <2>1. queue' \in [Channels -> Seq(Nat)] /\ spsc' \in [Channels -> Seq(Nat)]
    BY <1>3, <1>5, <1>6, Zenon
  <2>2. ASSUME NEW g \in Channels PROVE Len(queue'[g]) <= ChannelCap
    <3>1. Len(q) <= ChannelCap
      BY <1>2, <1>5
    <3>2. Len(Tail(q)) <= ChannelCap
      BY <1>5, <1>6, <3>1
    <3> QED
      BY <1>3, <1>5, <3>2
  <2>3. sends' \in 0..round'
    BY <1>3, <1>4, <1>5
  <2>4. visited' \in 0..Senders
    BY <1>1, <1>4
  <2> QED
    BY Zenon, <1>3, <1>4, <1>5, <2>1, <2>2, <2>3, <2>4 DEF FunnelType
<1>9. Behind'
  <2>1. 1..visited' = {}
    BY <1>4
  <2> QED
    BY <1>3, <1>4, <1>5, <2>1 DEF Behind
<1>10. Ordered'
  <2> SUFFICES ASSUME NEW g \in Channels
               PROVE  /\ InOrder(spsc'[g], queue'[g], pushes[g])
                      /\ Whole(spsc'[g], queue'[g], pushes[g], lost[g] \cup taken[g])
    BY Zenon, <1>3 DEF Ordered
  <2>1. CASE g = c
    <3>1. spsc'[c] = Append(spsc[c], Head(q)) /\ queue'[c] = Tail(q)
      BY Zenon, <1>2, <1>3, <1>5
    <3> QED
      BY <1>7, <2>1, <3>1
  <2>2. CASE g # c
    <3>1. spsc'[g] = spsc[g] /\ queue'[g] = queue[g]
      BY <1>3, <1>5, <2>2
    <3> QED
      BY <3>1 DEF FunnelInv, Ordered
  <2> QED
    BY <2>1, <2>2
<1> QED
  BY <1>2, <1>3, <1>4, <1>6, <1>8, <1>9, <1>10, Zenon DEF FunnelInv

\* Every step keeps the invariant of the funnel.
LEMMA FunnelStep == FunnelInv /\ [Next]_vars => FunnelInv'
<1> SUFFICES ASSUME FunnelInv, [Next]_vars PROVE FunnelInv'
  OBVIOUS
<1>0. /\ Senders \in Nat \ {0} /\ Batch \in Nat \ {0} /\ ChannelCap \in Nat \ {0}
      /\ FunnelType /\ Behind /\ Ordered
  BY StartupAssumption, FunnelAssumption DEF FunnelInv
<1>1. ASSUME UNCHANGED <<queue, pushes, lost, taken, pc, last, visited, round, sends, spsc,
                         began, counted>>
      PROVE  FunnelInv'
  BY Zenon, <1>0, <1>1 DEF FunnelInv, FunnelType, Behind, Ordered
<1>2. CASE \E g \in Channels : Generate(g) \/ OtherPop(g)
  BY Zenon, <1>2, GenerateFunnel, OtherPopFunnel
<1>3. CASE FiveSeconds \/ Beat \/ Programs \/ UNCHANGED vars
  BY <1>1, <1>3 DEF FiveSeconds, Beat, Programs, vars, funnelVars, popVars, ringVars
<1>4. CASE WaitForConsumer \/ Sync
  <2>1. /\ UNCHANGED <<queue, pushes, lost, taken, last, visited, round, sends, spsc, began>>
        /\ pc' = "head" /\ (counted' = counted \/ counted' = counted + sends)
    BY <1>4 DEF WaitForConsumer, Sync, popVars, ringVars
  <2>2. FunnelType'
    <3>1. counted' \in Nat
      BY <1>0, <2>1 DEF FunnelType
    <3> QED
      BY <1>0, <2>1, <3>1 DEF FunnelType
  <2>3. Behind' /\ Ordered'
    BY Zenon, <1>0, <2>1 DEF Behind, Ordered
  <2> QED
    BY <2>2, <2>3 DEF FunnelInv
<1>5. CASE CheckConsumer
  <2>1. /\ UNCHANGED <<queue, pushes, lost, taken, last, spsc, counted>>
        /\ round' = 0 /\ sends' = 0 /\ visited' = 0 /\ began' = pushes
    BY <1>5 DEF CheckConsumer, BeginPop, ringVars
  <2>2. FunnelType'
    BY <1>0, <2>1 DEF FunnelType
  <2>3. Behind' /\ Ordered'
    <3>1. 1..visited' = {} /\ \A c \in Channels : pushes[c] <= pushes[c]
      BY <1>0, <2>1 DEF FunnelType
    <3> QED
      BY <1>0, <2>1, <3>1 DEF Behind, Ordered
  <2> QED
    BY <2>2, <2>3 DEF FunnelInv
<1>6. CASE PopPacket
  BY <1>6, PopPacketFunnel
<1>7. CASE VisitEmpty
  <2>1. Len(VisitOrder) = Senders /\ \A i \in 1..Senders : VisitOrder[i] = i
    BY <1>0, VisitOrderAll DEF FunnelType
  <2>2. /\ visited < Senders /\ queue[visited + 1] = <<>> /\ visited' = visited + 1
        /\ UNCHANGED <<queue, pushes, lost, taken, pc, last, round, sends, spsc, began, counted>>
    BY <1>0, <1>7, <2>1 DEF VisitEmpty, FunnelType, ringVars
  <2>3. FunnelType'
    BY <1>0, <2>2 DEF FunnelType
  <2>4. Behind'
    <3>1. \A c \in 1..visited' : c \in 1..visited \/ c = visited + 1
      BY <1>0, <2>2 DEF FunnelType
    <3>2. 1..Len(queue[visited + 1]) = {}
      BY <2>2
    <3> QED
      BY Zenon, <1>0, <2>2, <3>1, <3>2 DEF Behind
  <2>5. Ordered'
    BY Zenon, <1>0, <2>2 DEF Ordered
  <2> QED
    BY <2>3, <2>4, <2>5 DEF FunnelInv
<1>8. CASE PopNone
  <2>1. Len(VisitOrder) = Senders
    BY <1>0, VisitOrderAll DEF FunnelType
  <2>2. /\ pc = "pop" /\ EndPop(visited) /\ visited \in 0..Senders
        /\ UNCHANGED <<queue, pushes, lost, taken, sends, spsc, counted>>
    BY <1>0, <1>8, <2>1 DEF PopNone, FunnelType, ringVars
  <2>3. /\ last' \in 0..(Senders - 1) /\ visited' = 0 /\ began' = pushes
        /\ round' = round + 1 /\ round' \in 0..Batch
        /\ pc' = "pop" => round' < Batch
    BY <2>2, EndPopFunnel
  <2>4. FunnelType'
    <3>1. sends' \in 0..round' /\ visited' \in 0..Senders
      BY <1>0, <2>2, <2>3 DEF FunnelType
    <3> QED
      BY <1>0, <2>2, <2>3, <3>1 DEF FunnelType
  <2>5. Behind' /\ Ordered'
    <3>1. 1..visited' = {} /\ \A c \in Channels : pushes[c] <= pushes[c]
      BY <1>0, <2>3 DEF FunnelType
    <3> QED
      BY Zenon, <1>0, <2>2, <2>3, <3>1 DEF Behind, Ordered
  <2> QED
    BY <2>4, <2>5 DEF FunnelInv
<1> QED
  BY <1>2, <1>3, <1>4, <1>5, <1>6, <1>7, <1>8 DEF Next, Funnel

-----------------------------------------------------------------------------
(* Counting                                                                *)

\* One more entry in one of the channels' histories.
LEMMA SentAppend ==
  ASSUME FunnelInv, NEW c \in Channels, NEW x \in Nat,
         spsc' = [spsc EXCEPT ![c] = Append(@, x)],
         IsFiniteSet(UNION {{g} \X DOMAIN spsc[g] : g \in Channels})
  PROVE  /\ IsFiniteSet(UNION {{g} \X DOMAIN spsc'[g] : g \in Channels})
         /\ Sent' = Sent + 1
<1> DEFINE A == UNION {{g} \X DOMAIN spsc[g] : g \in Channels}
           B == UNION {{g} \X DOMAIN spsc'[g] : g \in Channels}
           n == Len(spsc[c]) + 1
<1>1. spsc \in [Channels -> Seq(Nat)] /\ spsc[c] \in Seq(Nat)
  BY DEF FunnelInv, FunnelType
<1>2. /\ DOMAIN spsc'[c] = DOMAIN spsc[c] \cup {n} /\ n \notin DOMAIN spsc[c]
      /\ \A g \in Channels : g # c => spsc'[g] = spsc[g]
  <2>1. spsc'[c] = Append(spsc[c], x)
    BY <1>1
  <2>2. DOMAIN spsc[c] = 1..Len(spsc[c]) /\ DOMAIN spsc'[c] = 1..n /\ Len(spsc[c]) \in Nat
    BY <1>1, <2>1
  <2> QED
    BY <1>1, <2>2
<1> HIDE DEF n
<1>3. \A y : y \in A <=> \E g \in Channels : \E i \in DOMAIN spsc[g] : y = <<g, i>>
  OBVIOUS
<1>4. \A y : y \in B <=> \E g \in Channels : \E i \in DOMAIN spsc'[g] : y = <<g, i>>
  OBVIOUS
<1>5. <<c, n>> \notin A
  BY <1>2, <1>3
<1> HIDE DEF A, B
<1>6. B = A \cup {<<c, n>>}
  <2>1. ASSUME NEW y, y \in B PROVE y \in A \/ y = <<c, n>>
    <3>1. PICK g \in Channels : \E i \in DOMAIN spsc'[g] : y = <<g, i>>
      BY <1>4, <2>1
    <3>2. PICK i \in DOMAIN spsc'[g] : y = <<g, i>>
      BY <3>1
    <3>3. (g = c /\ i = n) \/ i \in DOMAIN spsc[g]
      BY <1>2, <3>2
    <3> QED
      BY <1>3, <3>2, <3>3
  <2>2. ASSUME NEW y, y \in A PROVE y \in B
    <3>1. PICK g \in Channels : \E i \in DOMAIN spsc[g] : y = <<g, i>>
      BY <1>3, <2>2
    <3>2. PICK i \in DOMAIN spsc[g] : y = <<g, i>>
      BY <3>1
    <3>3. i \in DOMAIN spsc'[g]
      BY <1>2, <3>2
    <3> QED
      BY <1>4, <3>2, <3>3
  <2>3. <<c, n>> \in B
    BY <1>2, <1>4
  <2> QED
    BY <2>1, <2>2, <2>3
<1>7. IsFiniteSet(A)
  BY DEF A
<1>8. IsFiniteSet(B) /\ Cardinality(B) = Cardinality(A) + 1
  BY <1>5, <1>6, <1>7, FS_AddElement, Zenon
<1> QED
  BY <1>8 DEF A, B, Sent

\* The inductive invariant of the counts.
Counted ==
  /\ IsFiniteSet(UNION {{g} \X DOMAIN spsc[g] : g \in Channels})
  /\ SendsCounted

\* No sends, none counted.
LEMMA CountedInit == Init => Counted
<1> SUFFICES ASSUME Init PROVE Counted
  OBVIOUS
<1>1. /\ spsc = [c \in Channels |-> <<>>] /\ counted = 0 /\ pc = "waiting"
  BY DEF Init
<1>2. UNION {{g} \X DOMAIN spsc[g] : g \in Channels} = {}
  <2>1. \A g \in Channels : DOMAIN spsc[g] = {}
    BY <1>1
  <2> QED
    BY <2>1
<1>3. IsFiniteSet({}) /\ Cardinality({}) = 0
  BY FS_EmptySet
<1> QED
  BY <1>1, <1>2, <1>3 DEF Counted, SendsCounted, Sent

\* Every step counts what it sends.
LEMMA CountedStep == FunnelInv /\ Counted /\ [Next]_vars => Counted'
<1> SUFFICES ASSUME FunnelInv, Counted, [Next]_vars PROVE Counted'
  OBVIOUS
<1>1. /\ counted \in Nat /\ sends \in Nat
      /\ counted + (IF pc \in {"pop", "sync"} THEN sends ELSE 0) = Sent
  BY FunnelAssumption DEF FunnelInv, FunnelType, Counted, SendsCounted
<1>2. ASSUME spsc' = spsc,
             counted' + (IF pc' \in {"pop", "sync"} THEN sends' ELSE 0)
               = counted + (IF pc \in {"pop", "sync"} THEN sends ELSE 0)
      PROVE  Counted'
  <2>1. Sent' = Sent
    BY <1>2 DEF Sent
  <2> QED
    BY <1>1, <1>2, <2>1 DEF Counted, SendsCounted
<1>3. CASE PopPacket
  <2>1. /\ pc' \in {"pop", "sync"} /\ sends' = sends + 1
        /\ \E c \in Channels, x \in Nat : spsc' = [spsc EXCEPT ![c] = Append(@, x)]
    BY <1>3, PopPacketFunnel
  <2>2. pc = "pop" /\ counted' = counted
    BY <1>3 DEF PopPacket
  <2>3. /\ IsFiniteSet(UNION {{g} \X DOMAIN spsc'[g] : g \in Channels})
        /\ Sent' = Sent + 1
    BY <2>1, SentAppend, Zenon DEF Counted
  <2>4. counted' + sends' = Sent'
    BY <1>1, <2>1, <2>2, <2>3
  <2> QED
    BY Zenon, <2>1, <2>3, <2>4 DEF Counted, SendsCounted
<1>4. CASE (\E g \in Channels : Generate(g) \/ OtherPop(g)) \/ FiveSeconds \/ Beat \/ Programs
             \/ VisitEmpty \/ UNCHANGED vars
  <2>1. UNCHANGED <<spsc, counted, pc, sends>>
    BY Zenon, <1>4 DEF Generate, OtherPop, FiveSeconds, Beat, Programs, VisitEmpty, vars,
         funnelVars, popVars
  <2> QED
    BY <1>2, <2>1
<1>5. CASE WaitForConsumer
  <2>1. UNCHANGED <<spsc, counted, sends>> /\ pc = "waiting" /\ pc' = "head"
    BY <1>5 DEF WaitForConsumer, popVars
  <2> QED
    BY <1>2, <2>1
<1>6. CASE CheckConsumer
  <2>1. UNCHANGED <<spsc, counted>> /\ pc = "head" /\ sends' = 0
    BY <1>6 DEF CheckConsumer
  <2> QED
    BY <1>1, <1>2, <2>1
<1>7. CASE PopNone
  <2>1. UNCHANGED <<spsc, counted, sends>> /\ pc = "pop" /\ pc' \in {"pop", "sync"}
    BY <1>7 DEF PopNone, EndPop
  <2> QED
    BY <1>2, <2>1
<1>8. CASE Sync
  <2>1. UNCHANGED <<spsc, sends>> /\ pc = "sync" /\ pc' = "head" /\ counted' = counted + sends
    BY <1>8 DEF Sync, popVars
  <2> QED
    BY <1>1, <1>2, <2>1
<1> QED
  BY <1>3, <1>4, <1>5, <1>6, <1>7, <1>8 DEF Next, Funnel

-----------------------------------------------------------------------------
(* What the runs check of the funnel, for every instance                   *)

\* The types, the order of each generator's pushes, what a pop has left behind and
\* the counts hold in every state.
THEOREM FunnelInvariant == Spec => [](FunnelInv /\ Counted)
<1>1. Init => FunnelInv /\ Counted
  BY FunnelInit, CountedInit
<1>2. (FunnelInv /\ Counted) /\ [Next]_vars => (FunnelInv /\ Counted)'
  BY FunnelStep, CountedStep
<1> QED
  BY <1>1, <1>2, PTL DEF Spec

\* The field last of the mpsc consumer is a valid argument of split_at_mut at
\* every pop, and no channel holds more than its capacity.
THEOREM FunnelTypes == Spec => []TypeOK
<1>1. FunnelInv => TypeOK
  BY DEF FunnelInv, FunnelType, TypeOK
<1> QED
  BY <1>1, FunnelInvariant, PTL

\* A pop that returns None has overlooked no packet that was there when it was
\* called, for every number of channels and every split.
THEOREM NothingOverlooked == Spec => []PopOverlooksNothing
<1>1. FunnelInv => PopOverlooksNothing
  BY Zenon, VisitOrderAll DEF FunnelInv, FunnelType, Behind, PopOverlooksNothing, Channels
<1> QED
  BY <1>1, FunnelInvariant, PTL

\* What the generators push into a ring that two funnels share reaches this one's
\* shared-memory channel in the order of the pushes, each at most once, and exactly
\* those pushes are missing that were overwritten or that the other funnel took.
THEOREM OrderKept == Spec => []GeneratorOrderKept
<1>1. ASSUME FunnelInv, NEW g \in Channels
      PROVE  LET seen == spsc[g] \o queue[g]
             IN  /\ \A i \in 1..(Len(seen) - 1) : seen[i] < seen[i + 1]
                 /\ Range(seen) = (0..(pushes[g] - 1)) \ (lost[g] \cup taken[g])
  <2> DEFINE s == spsc[g]
             q == queue[g]
  <2>1. /\ s \in Seq(Nat) /\ q \in Seq(Nat) /\ InOrder(s, q, pushes[g])
        /\ Whole(s, q, pushes[g], lost[g] \cup taken[g])
    BY <1>1 DEF FunnelInv, FunnelType, Ordered
  <2> HIDE DEF s, q
  <2>2. /\ Len(s) \in Nat /\ Len(q) \in Nat /\ Len(s \o q) = Len(s) + Len(q)
        /\ \A i \in 1..(Len(s) + Len(q)) :
             (s \o q)[i] = IF i <= Len(s) THEN s[i] ELSE q[i - Len(s)]
    BY <2>1
  <2>3. ASSUME NEW i \in 1..(Len(s \o q) - 1) PROVE (s \o q)[i] < (s \o q)[i + 1]
    <3>1. CASE i + 1 <= Len(s)
      <4>1. /\ i \in 1..Len(s) /\ i + 1 \in 1..Len(s) /\ i < i + 1
            /\ i \in 1..(Len(s) + Len(q)) /\ i + 1 \in 1..(Len(s) + Len(q)) /\ i <= Len(s)
        BY <2>2, <3>1
      <4>2. (s \o q)[i] = s[i] /\ (s \o q)[i + 1] = s[i + 1]
        BY <2>2, <3>1, <4>1
      <4> QED
        BY <2>1, <4>1, <4>2 DEF InOrder
    <3>2. CASE i = Len(s)
      <4>1. /\ i \in 1..Len(s) /\ 1 \in 1..Len(q) /\ (i + 1) - Len(s) = 1
            /\ i \in 1..(Len(s) + Len(q)) /\ i + 1 \in 1..(Len(s) + Len(q)) /\ i <= Len(s)
            /\ ~(i + 1 <= Len(s))
        BY <2>2, <3>2
      <4>2. (s \o q)[i] = s[i] /\ (s \o q)[i + 1] = q[1]
        BY <2>2, <4>1
      <4> QED
        BY <2>1, <4>1, <4>2 DEF InOrder
    <3>3. CASE i > Len(s)
      <4> DEFINE j == i - Len(s)
      <4>1. /\ j \in 1..Len(q) /\ j + 1 \in 1..Len(q) /\ j < j + 1
            /\ (i + 1) - Len(s) = j + 1 /\ ~(i <= Len(s)) /\ ~(i + 1 <= Len(s))
            /\ i \in 1..(Len(s) + Len(q)) /\ i + 1 \in 1..(Len(s) + Len(q))
        BY <2>2, <3>3
      <4>2. (s \o q)[i] = q[j] /\ (s \o q)[i + 1] = q[j + 1]
        BY <2>2, <4>1
      <4> QED
        BY <2>1, <4>1, <4>2, Zenon DEF InOrder
    <3>4. i + 1 <= Len(s) \/ i = Len(s) \/ i > Len(s)
      <4>1. i \in Int /\ Len(s) \in Int
        BY <2>2
      <4> QED
        BY <4>1
    <3> QED
      BY <3>1, <3>2, <3>3, <3>4
  <2>4. Range(s \o q) = Entries(s) \cup Entries(q)
    <3>1. DOMAIN (s \o q) = 1..(Len(s) + Len(q))
      BY <2>1, <2>2
    <3>2. ASSUME NEW i \in 1..(Len(s) + Len(q))
          PROVE  (s \o q)[i] \in Entries(s) \cup Entries(q)
      <4>1. CASE i <= Len(s)
        <5>1. i \in 1..Len(s) /\ (s \o q)[i] = s[i]
          BY <2>2, <4>1
        <5> QED
          BY Zenon, <5>1 DEF Entries
      <4>2. CASE ~(i <= Len(s))
        <5>1. i - Len(s) \in 1..Len(q) /\ (s \o q)[i] = q[i - Len(s)]
          BY <2>2, <4>2
        <5> QED
          BY Zenon, <5>1 DEF Entries
      <4> QED
        BY <4>1, <4>2
    <3>3. ASSUME NEW i \in 1..Len(s) PROVE s[i] \in Range(s \o q)
      <4>1. i \in 1..(Len(s) + Len(q)) /\ i <= Len(s)
        BY <2>2
      <4>2. (s \o q)[i] = s[i] /\ i \in DOMAIN (s \o q)
        BY <2>2, <3>1, <4>1
      <4> QED
        BY Zenon, <4>2 DEF Range
    <3>4. ASSUME NEW i \in 1..Len(q) PROVE q[i] \in Range(s \o q)
      <4>1. /\ i + Len(s) \in 1..(Len(s) + Len(q)) /\ ~(i + Len(s) <= Len(s))
            /\ (i + Len(s)) - Len(s) = i
        BY <2>2
      <4>2. (s \o q)[i + Len(s)] = q[i] /\ i + Len(s) \in DOMAIN (s \o q)
        BY <2>2, <3>1, <4>1
      <4> QED
        BY Zenon, <4>2 DEF Range
    <3>5. \A y \in Range(s \o q) : y \in Entries(s) \cup Entries(q)
      BY Zenon, <3>1, <3>2 DEF Range
    <3>6. \A y \in Entries(s) \cup Entries(q) : y \in Range(s \o q)
      BY Zenon, <3>3, <3>4 DEF Entries
    <3> QED
      BY Zenon, <3>5, <3>6
  <2>5. Range(s \o q) = (0..(pushes[g] - 1)) \ (lost[g] \cup taken[g])
    BY Zenon, <2>1, <2>4 DEF Whole
  <2> QED
    BY <2>3, <2>5, Zenon DEF s, q
<1>2. FunnelInv => GeneratorOrderKept
  BY <1>1, Zenon DEF GeneratorOrderKept
<1> QED
  BY <1>2, FunnelInvariant, PTL

\* The statistics are what was pushed into the shared-memory channel, less the
\* sends of the running round.
THEOREM AllSendsCounted == Spec => []SendsCounted
<1>1. Counted => SendsCounted
  BY DEF Counted
<1> QED
  BY <1>1, FunnelInvariant, PTL

-----------------------------------------------------------------------------
(* The start-up                                                            *)

\* The last two steps of the sidecar and the mock validator give up the group
\* and then the user.
Dropped(p) ==
  LET n == Len(Program[p])
  IN  /\ at[p] <= n + 1
      /\ at[p] >= n => gid[p] = "user"
      /\ at[p] = n + 1 => uid[p] = "user"

\* Without the creator's channels, both are held up at a join.
HeldUp ==
  ~huge =>
    /\ <<"standard", "re1_to_qos">> \notin exists
    /\ <<"standard", "qos_to_sig">> \notin exists
    /\ at["qos"] <= 1 /\ at["engine"] <= 7

StartType ==
  /\ at \in [Processes -> Nat]
  /\ uid \in [Processes -> {"root", "user"}] /\ gid \in [Processes -> {"root", "user"}]

StartInv ==
  /\ StartType
  /\ Dropped("qos") /\ Dropped("engine")
  /\ HeldUp

\* The entries of a concatenation.
LEMMA ConcatAt ==
  ASSUME NEW S, NEW s \in Seq(S), NEW u \in Seq(S)
  PROVE  /\ s \o u \in Seq(S) /\ Len(s \o u) = Len(s) + Len(u)
         /\ \A i \in 1..(Len(s) + Len(u)) :
              (s \o u)[i] = IF i <= Len(s) THEN s[i] ELSE u[i - Len(s)]
  OBVIOUS

\* The sequences of a program, one after the other.
LEMMA Concat3 ==
  ASSUME NEW S, NEW s1 \in Seq(S), NEW s2 \in Seq(S), NEW s3 \in Seq(S),
         Len(s1) = 3, Len(s2) = 1, Len(s3) = 2
  PROVE  LET s == s1 \o s2 \o s3
         IN  /\ s \in Seq(S) /\ Len(s) = 6
             /\ s[1] = s1[1] /\ s[2] = s1[2] /\ s[3] = s1[3]
             /\ s[4] = s2[1]
             /\ s[5] = s3[1] /\ s[6] = s3[2]
<1> DEFINE u == s1 \o s2
<1>1. /\ u \in Seq(S) /\ Len(u) = 3 + 1
      /\ \A i \in 1..(3 + 1) : u[i] = IF i <= 3 THEN s1[i] ELSE s2[i - 3]
  <2>1. /\ u \in Seq(S) /\ Len(u) = Len(s1) + Len(s2)
        /\ \A i \in 1..(Len(s1) + Len(s2)) :
             u[i] = IF i <= Len(s1) THEN s1[i] ELSE s2[i - Len(s1)]
    BY ConcatAt, Zenon
  <2> HIDE DEF u
  <2> QED
    BY <2>1
<1> HIDE DEF u
<1> DEFINE v == u \o s3
<1>2. /\ v \in Seq(S) /\ Len(v) = 4 + 2
      /\ \A i \in 1..(4 + 2) : v[i] = IF i <= 4 THEN u[i] ELSE s3[i - 4]
  <2>1. /\ v \in Seq(S) /\ Len(v) = Len(u) + Len(s3)
        /\ \A i \in 1..(Len(u) + Len(s3)) :
             v[i] = IF i <= Len(u) THEN u[i] ELSE s3[i - Len(u)]
    BY <1>1, ConcatAt, Zenon
  <2> HIDE DEF v
  <2> QED
    BY <2>1, <1>1
<1> HIDE DEF v
<1>3. /\ v \in Seq(S) /\ Len(v) = 6
      /\ v[1] = s1[1] /\ v[2] = s1[2] /\ v[3] = s1[3]
      /\ v[4] = s2[1]
      /\ v[5] = s3[1] /\ v[6] = s3[2]
  BY <1>1, <1>2
<1> QED
  BY <1>3, Zenon DEF u, v

\* The fields of an operation.
LEMMA OpFields ==
  /\ \A k, g, n : Op(k, g, n).op = k /\ Op(k, g, n).page = g /\ Op(k, g, n).names = n
  /\ \A n : Join(n).op = "join" /\ Join(n).page = "arg" /\ Join(n).names = n
  /\ \A n : Create(n).op = "create" /\ Create(n).page = "arg" /\ Create(n).names = {n}
<1>1. ASSUME NEW k, NEW g, NEW n
      PROVE  Op(k, g, n).op = k /\ Op(k, g, n).page = g /\ Op(k, g, n).names = n
  BY DEF Op
<1>2. ASSUME NEW n
      PROVE  Join(n).op = "join" /\ Join(n).page = "arg" /\ Join(n).names = n
  BY DEF Join, Op
<1>3. ASSUME NEW n
      PROVE  Create(n).op = "create" /\ Create(n).page = "arg" /\ Create(n).names = {n}
  BY DEF Create, Op
<1> QED
  BY Zenon, <1>1, <1>2, <1>3

\* The programs, step by step.
LEMMA QosSteps ==
  /\ Program["qos"] = Qos /\ Len(Qos) = 6 /\ DOMAIN Qos = 1..6
  /\ Qos[1].op = "join" /\ Qos[2].op = "create" /\ Qos[3].op = "join"
  /\ Qos[4].op = "create" /\ Qos[5].op = "setgid" /\ Qos[6].op = "setuid"
  /\ Qos[1].page = "arg" /\ Qos[1].names = Inbound \cup Signals
<1>1. Program["qos"] = Qos
  BY DEF Program
<1> DEFINE a == Join(Inbound \cup Signals)
           b == Create("qos_to_sig")
           c == Join({"status_cache"})
           d == Op("create", "standard", {"qos_stats"})
           e == Op("setgid", "", {})
           f == Op("setuid", "", {})
<1>2. Qos = <<a, b, c>> \o <<d>> \o <<e, f>>
  BY DEF Qos, JoinIpc, OpenStats, DropPrivileges
<1> HIDE DEF a, b, c, d, e, f
<1>3. /\ Len(Qos) = 6 /\ DOMAIN Qos = 1..6
      /\ Qos[1] = a /\ Qos[2] = b /\ Qos[3] = c /\ Qos[4] = d /\ Qos[5] = e /\ Qos[6] = f
  <2> DEFINE S == {a, b, c, d, e, f}
             s1 == <<a, b, c>>
             s2 == <<d>>
             s3 == <<e, f>>
  <2>1. a \in S /\ b \in S /\ c \in S /\ d \in S /\ e \in S /\ f \in S
    OBVIOUS
  <2> HIDE DEF S
  <2>2. s1 \in Seq(S) /\ Len(s1) = 3 /\ s1[1] = a /\ s1[2] = b /\ s1[3] = c
    BY <2>1
  <2>3. s2 \in Seq(S) /\ Len(s2) = 1 /\ s2[1] = d
    BY <2>1
  <2>4. s3 \in Seq(S) /\ Len(s3) = 2 /\ s3[1] = e /\ s3[2] = f
    BY <2>1
  <2> HIDE DEF s1, s2, s3
  <2> DEFINE s == s1 \o s2 \o s3
  <2>5. /\ s \in Seq(S) /\ Len(s) = 6
        /\ s[1] = s1[1] /\ s[2] = s1[2] /\ s[3] = s1[3]
        /\ s[4] = s2[1]
        /\ s[5] = s3[1] /\ s[6] = s3[2]
    BY <2>2, <2>3, <2>4, Concat3
  <2> HIDE DEF s
  <2>6. DOMAIN s = 1..6
    BY <2>5
  <2> QED
    BY <1>2, <2>2, <2>3, <2>4, <2>5, <2>6, Zenon DEF s, s1, s2, s3
<1>4. Qos[1] = a /\ Qos[2] = b /\ Qos[3] = c /\ Qos[4] = d /\ Qos[5] = e /\ Qos[6] = f
  BY <1>3
<1>5. /\ Qos[1].op = "join" /\ Qos[2].op = "create" /\ Qos[3].op = "join"
      /\ Qos[4].op = "create" /\ Qos[5].op = "setgid" /\ Qos[6].op = "setuid"
  <2>1. a.op = "join" /\ c.op = "join" /\ b.op = "create"
    BY Zenon, OpFields DEF a, b, c
  <2>2. d.op = "create" /\ e.op = "setgid" /\ f.op = "setuid"
    BY DEF d, e, f, Op
  <2> QED
    BY <1>4, <2>1, <2>2
<1>6. Qos[1].page = "arg" /\ Qos[1].names = Inbound \cup Signals
  BY <1>4, OpFields DEF a
<1> QED
  BY Zenon, <1>1, <1>3, <1>5, <1>6

\* The program of the mock validator, step by step.
LEMMA EngineSteps ==
  /\ Program["engine"] = EngineIpc /\ Len(EngineIpc) = 11 /\ DOMAIN EngineIpc = 1..11
  /\ EngineIpc[1].op = "bounded" /\ EngineIpc[2].op = "create"
  /\ EngineIpc[3].op = "bounded" /\ EngineIpc[4].op = "create"
  /\ EngineIpc[5].op = "create" /\ EngineIpc[6].op = "create"
  /\ EngineIpc[7].op = "join" /\ EngineIpc[8].op = "create" /\ EngineIpc[9].op = "create"
  /\ EngineIpc[10].op = "setgid" /\ EngineIpc[11].op = "setuid"
  /\ EngineIpc[1].page = "tpu_engine" /\ EngineIpc[3].page = "tpu_engine"
  /\ EngineIpc[2].names = {"tpu_to_qos"} /\ EngineIpc[4].names = {"fwd_to_qos"}
  /\ EngineIpc[5].names = {"status_cache"} /\ EngineIpc[6].names = {"qos_stats"}
  /\ EngineIpc[7].page = "arg" /\ EngineIpc[7].names = {"qos_to_sig"}
<1>1. Program["engine"] = EngineIpc
  BY DEF Program
<1> DEFINE a == Op("bounded", "tpu_engine", {"tpu_to_qos"})
           b == Create("tpu_to_qos")
           c == Op("bounded", "tpu_engine", {"fwd_to_qos"})
           d == Create("fwd_to_qos")
           e == Create("status_cache")
           f == Op("create", "standard", {"qos_stats"})
           g == Join({"qos_to_sig"})
           h == Create("sig_to_qos")
           i == Create("sch_to_qos")
           j == Op("setgid", "", {})
           k == Op("setuid", "", {})
<1>2. EngineIpc = <<a, b>> \o <<c, d>> \o <<e>> \o <<f>> \o <<g, h, i>> \o <<j, k>>
  BY DEF EngineIpc, InitializeEngine, OpenStats, DropPrivileges
<1> HIDE DEF a, b, c, d, e, f, g, h, i, j, k
<1>3. /\ Len(EngineIpc) = 11 /\ DOMAIN EngineIpc = 1..11
      /\ EngineIpc[1] = a /\ EngineIpc[2] = b /\ EngineIpc[3] = c /\ EngineIpc[4] = d
      /\ EngineIpc[5] = e /\ EngineIpc[6] = f /\ EngineIpc[7] = g /\ EngineIpc[8] = h
      /\ EngineIpc[9] = i /\ EngineIpc[10] = j /\ EngineIpc[11] = k
  <2> DEFINE S == {a, b, c, d, e, f, g, h, i, j, k}
             s1 == <<a, b>>
             s2 == <<c, d>>
             s3 == <<e>>
             s4 == <<f>>
             s5 == <<g, h, i>>
             s6 == <<j, k>>
  <2>1. /\ a \in S /\ b \in S /\ c \in S /\ d \in S /\ e \in S /\ f \in S
        /\ g \in S /\ h \in S /\ i \in S /\ j \in S /\ k \in S
    BY Zenon
  <2> HIDE DEF S
  <2>2. /\ s1 \in Seq(S) /\ Len(s1) = 2 /\ s1[1] = a /\ s1[2] = b
        /\ s2 \in Seq(S) /\ Len(s2) = 2 /\ s2[1] = c /\ s2[2] = d
    BY <2>1
  <2>3. /\ s3 \in Seq(S) /\ Len(s3) = 1 /\ s3[1] = e
        /\ s4 \in Seq(S) /\ Len(s4) = 1 /\ s4[1] = f
    BY <2>1
  <2>4. s5 \in Seq(S) /\ Len(s5) = 3 /\ s5[1] = g /\ s5[2] = h /\ s5[3] = i
    BY <2>1
  <2>5. s6 \in Seq(S) /\ Len(s6) = 2 /\ s6[1] = j /\ s6[2] = k
    BY <2>1
  <2> HIDE DEF s1, s2, s3, s4, s5, s6
  <2> DEFINE u == s1 \o s2
  <2>6. /\ u \in Seq(S) /\ Len(u) = 2 + 2
        /\ \A n \in 1..(2 + 2) : u[n] = IF n <= 2 THEN s1[n] ELSE s2[n - 2]
    <3>1. /\ u \in Seq(S) /\ Len(u) = Len(s1) + Len(s2)
          /\ \A n \in 1..(Len(s1) + Len(s2)) :
               u[n] = IF n <= Len(s1) THEN s1[n] ELSE s2[n - Len(s1)]
      BY <2>2, ConcatAt, Zenon
    <3> HIDE DEF u
    <3> QED
      BY Zenon, <3>1, <2>2
  <2> HIDE DEF u
  <2> DEFINE v == u \o s3
  <2>7. /\ v \in Seq(S) /\ Len(v) = 4 + 1
        /\ \A n \in 1..(4 + 1) : v[n] = IF n <= 4 THEN u[n] ELSE s3[n - 4]
    <3>1. /\ v \in Seq(S) /\ Len(v) = Len(u) + Len(s3)
          /\ \A n \in 1..(Len(u) + Len(s3)) :
               v[n] = IF n <= Len(u) THEN u[n] ELSE s3[n - Len(u)]
      BY <2>3, <2>6, ConcatAt, Zenon
    <3> HIDE DEF v
    <3> QED
      BY <3>1, <2>3, <2>6
  <2> HIDE DEF v
  <2> DEFINE w == v \o s4
  <2>8. /\ w \in Seq(S) /\ Len(w) = 5 + 1
        /\ \A n \in 1..(5 + 1) : w[n] = IF n <= 5 THEN v[n] ELSE s4[n - 5]
    <3>1. /\ w \in Seq(S) /\ Len(w) = Len(v) + Len(s4)
          /\ \A n \in 1..(Len(v) + Len(s4)) :
               w[n] = IF n <= Len(v) THEN v[n] ELSE s4[n - Len(v)]
      BY <2>3, <2>7, ConcatAt, Zenon
    <3> HIDE DEF w
    <3> QED
      BY <3>1, <2>3, <2>7
  <2> HIDE DEF w
  <2> DEFINE x == w \o s5
  <2>9. /\ x \in Seq(S) /\ Len(x) = 6 + 3
        /\ \A n \in 1..(6 + 3) : x[n] = IF n <= 6 THEN w[n] ELSE s5[n - 6]
    <3>1. /\ x \in Seq(S) /\ Len(x) = Len(w) + Len(s5)
          /\ \A n \in 1..(Len(w) + Len(s5)) :
               x[n] = IF n <= Len(w) THEN w[n] ELSE s5[n - Len(w)]
      BY <2>4, <2>8, ConcatAt, Zenon
    <3> HIDE DEF x
    <3> QED
      BY <3>1, <2>4, <2>8
  <2> HIDE DEF x
  <2> DEFINE y == x \o s6
  <2>10. /\ y \in Seq(S) /\ Len(y) = 9 + 2
        /\ \A n \in 1..(9 + 2) : y[n] = IF n <= 9 THEN x[n] ELSE s6[n - 9]
    <3>1. /\ y \in Seq(S) /\ Len(y) = Len(x) + Len(s6)
          /\ \A n \in 1..(Len(x) + Len(s6)) :
               y[n] = IF n <= Len(x) THEN x[n] ELSE s6[n - Len(x)]
      BY <2>5, <2>9, ConcatAt, Zenon
    <3> HIDE DEF y
    <3> QED
      BY <3>1, <2>5, <2>9
  <2> HIDE DEF y
  <2>11. y \in Seq(S) /\ Len(y) = 11 /\ y[10] = s6[1] /\ y[11] = s6[2]
    BY <2>10
  <2>12. y[7] = s5[1] /\ y[8] = s5[2] /\ y[9] = s5[3]
    BY <2>9, <2>10
  <2>13. y[5] = s3[1] /\ y[6] = s4[1]
    BY <2>7, <2>8, <2>9, <2>10
  <2>14. y[1] = s1[1] /\ y[2] = s1[2] /\ y[3] = s2[1] /\ y[4] = s2[2]
    <3>1. u[1] = s1[1] /\ u[2] = s1[2] /\ u[3] = s2[1] /\ u[4] = s2[2]
      BY <2>6
    <3>2. \A n \in 1..4 : y[n] = u[n]
      BY <2>7, <2>8, <2>9, <2>10
    <3> QED
      BY <3>1, <3>2
  <2>15. DOMAIN y = 1..11
    BY <2>11
  <2> QED
    BY <1>2, <2>2, <2>3, <2>4, <2>5, <2>11, <2>12, <2>13, <2>14, <2>15, Zenon
       DEF u, v, w, x, y, s1, s2, s3, s4, s5, s6
<1>4. /\ EngineIpc[1] = a /\ EngineIpc[2] = b /\ EngineIpc[3] = c /\ EngineIpc[4] = d
      /\ EngineIpc[5] = e /\ EngineIpc[6] = f /\ EngineIpc[7] = g /\ EngineIpc[8] = h
      /\ EngineIpc[9] = i /\ EngineIpc[10] = j /\ EngineIpc[11] = k
  BY <1>3
<1>5. /\ EngineIpc[1].op = "bounded" /\ EngineIpc[2].op = "create"
      /\ EngineIpc[3].op = "bounded" /\ EngineIpc[4].op = "create"
      /\ EngineIpc[5].op = "create" /\ EngineIpc[6].op = "create"
      /\ EngineIpc[7].op = "join" /\ EngineIpc[8].op = "create" /\ EngineIpc[9].op = "create"
      /\ EngineIpc[10].op = "setgid" /\ EngineIpc[11].op = "setuid"
  <2>1. /\ b.op = "create" /\ d.op = "create" /\ e.op = "create" /\ g.op = "join"
        /\ h.op = "create" /\ i.op = "create"
    BY Zenon, OpFields DEF b, d, e, g, h, i
  <2>2. a.op = "bounded" /\ c.op = "bounded" /\ f.op = "create"
    BY DEF a, c, f, Op
  <2>3. j.op = "setgid" /\ k.op = "setuid"
    BY DEF j, k, Op
  <2> QED
    BY Zenon, <1>4, <2>1, <2>2, <2>3
<1>6. /\ EngineIpc[1].page = "tpu_engine" /\ EngineIpc[3].page = "tpu_engine"
      /\ EngineIpc[2].names = {"tpu_to_qos"} /\ EngineIpc[4].names = {"fwd_to_qos"}
      /\ EngineIpc[5].names = {"status_cache"} /\ EngineIpc[6].names = {"qos_stats"}
      /\ EngineIpc[7].page = "arg" /\ EngineIpc[7].names = {"qos_to_sig"}
  BY <1>4, OpFields DEF a, b, c, d, e, f, g
<1> QED
  BY Zenon, <1>1, <1>3, <1>5, <1>6

\* What the creator creates is on huge pages.
LEMMA CliSteps ==
  /\ Program["cli"] = Cli /\ Len(Cli) = 8 /\ DOMAIN Cli = 1..8
  /\ \A i \in 1..8 : Cli[i].op = "create" /\ Cli[i].page = "huge"
<1>1. Program["cli"] = Cli
  BY DEF Program
<1>2. Len(Cli) = 8 /\ DOMAIN Cli = 1..8
  BY DEF Cli
<1>3. \A i \in 1..8 : Cli[i].op = "create" /\ Cli[i].page = "huge"
  BY DEF Cli, Op
<1> QED
  BY <1>1, <1>2, <1>3

\* Only the last two steps change the group and the user.
LEMMA LastSteps ==
  ASSUME NEW p \in {"qos", "engine"}
  PROVE  LET n == Len(Program[p])
         IN  /\ n \in Nat /\ n > 5 /\ DOMAIN Program[p] = 1..n
             /\ \A i \in 1..n : /\ Program[p][i].op = "setgid" <=> i = n - 1
                                /\ Program[p][i].op = "setuid" <=> i = n
<1>1. CASE p = "qos"
  <2>1. /\ Qos[1].op = "join" /\ Qos[2].op = "create" /\ Qos[3].op = "join"
        /\ Qos[4].op = "create" /\ Qos[5].op = "setgid" /\ Qos[6].op = "setuid"
    BY Zenon, QosSteps
  <2>2. \A i \in 1..6 : i = 1 \/ i = 2 \/ i = 3 \/ i = 4 \/ i = 5 \/ i = 6
    OBVIOUS
  <2>3. \A i \in 1..6 : /\ Qos[i].op = "setgid" <=> i = 5
                        /\ Qos[i].op = "setuid" <=> i = 6
    BY Zenon, <2>1, <2>2
  <2>4. Program[p] = Qos /\ Len(Qos) = 6 /\ DOMAIN Qos = 1..6
    BY <1>1, QosSteps
  <2> QED
    BY <2>3, <2>4
<1>2. CASE p = "engine"
  <2>1. /\ EngineIpc[1].op = "bounded" /\ EngineIpc[2].op = "create"
        /\ EngineIpc[3].op = "bounded" /\ EngineIpc[4].op = "create"
        /\ EngineIpc[5].op = "create" /\ EngineIpc[6].op = "create"
        /\ EngineIpc[7].op = "join" /\ EngineIpc[8].op = "create"
        /\ EngineIpc[9].op = "create"
        /\ EngineIpc[10].op = "setgid" /\ EngineIpc[11].op = "setuid"
    BY Zenon, EngineSteps
  <2>2. \A i \in 1..11 : \/ i = 1 \/ i = 2 \/ i = 3 \/ i = 4 \/ i = 5 \/ i = 6
                         \/ i = 7 \/ i = 8 \/ i = 9 \/ i = 10 \/ i = 11
    OBVIOUS
  <2>3. \A i \in 1..11 : /\ EngineIpc[i].op = "setgid" <=> i = 10
                         /\ EngineIpc[i].op = "setuid" <=> i = 11
    BY Zenon, <2>1, <2>2
  <2>4. Program[p] = EngineIpc /\ Len(EngineIpc) = 11 /\ DOMAIN EngineIpc = 1..11
    BY Zenon, <1>2, EngineSteps
  <2> QED
    BY <2>3, <2>4
<1> QED
  BY Zenon, <1>1, <1>2

\* What the steps of a process do to its place and its ids.
LEMMA StepEffect ==
  ASSUME NEW q, Start(q) \/ Step(q)
  PROVE  /\ at' = [at EXCEPT ![q] = @ + 1] \/ at' = [at EXCEPT ![q] = 0]
         /\ uid' = uid \/ uid' = [uid EXCEPT ![q] = "user"] \/ uid' = [uid EXCEPT ![q] = Starter]
         /\ gid' = gid \/ gid' = [gid EXCEPT ![q] = "user"] \/ gid' = [gid EXCEPT ![q] = Starter]
<1>1. CASE Start(q)
  BY <1>1, Zenon DEF Start, Advance
<1>2. CASE JoinShmem(q)
  BY <1>2, Zenon DEF JoinShmem, Advance, Panic
<1>3. CASE CreateShmem(q)
  BY <1>3, Zenon DEF CreateShmem, Advance
<1>4. CASE Bounded(q)
  BY <1>4, Zenon DEF Bounded, Advance
<1>5. CASE SetGid(q)
  BY <1>5, Zenon DEF SetGid, Advance, Panic
<1>6. CASE SetUid(q)
  BY <1>6, Zenon DEF SetUid, Advance, Panic
<1> QED
  BY <1>1, <1>2, <1>3, <1>4, <1>5, <1>6, Zenon DEF Step

\* Every step of the start-up keeps the types.
LEMMA StartTypeStep == StartType /\ [StartupNext]_startVars => StartType'
<1> SUFFICES ASSUME StartType, [StartupNext]_startVars PROVE StartType'
  OBVIOUS
<1>1. CASE Kill
  BY <1>1 DEF StartType, Kill, Panic, Processes
<1>2. ASSUME NEW p \in Processes, Start(p) \/ Step(p) PROVE StartType'
  <2>1. at' \in [Processes -> Nat]
    <3>1. at' = [at EXCEPT ![p] = @ + 1] \/ at' = [at EXCEPT ![p] = 0]
      BY <1>2, StepEffect, Zenon
    <3> QED
      BY <3>1 DEF StartType
  <2>2. /\ uid' = uid \/ uid' = [uid EXCEPT ![p] = "user"] \/ uid' = [uid EXCEPT ![p] = Starter]
        /\ gid' = gid \/ gid' = [gid EXCEPT ![p] = "user"] \/ gid' = [gid EXCEPT ![p] = Starter]
    BY <1>2, StepEffect, Zenon
  <2>3. Starter \in {"root", "user"}
    BY DEF Starter
  <2> QED
    BY <2>1, <2>2, <2>3 DEF StartType
<1>3. CASE UNCHANGED startVars
  BY <1>3 DEF StartType, startVars
<1> QED
  BY <1>1, <1>2, <1>3 DEF StartupNext

\* A step of another program leaves this one where it was.
LEMMA DroppedStep ==
  ASSUME StartType, [StartupNext]_startVars, NEW p \in {"qos", "engine"}, Dropped(p)
  PROVE  Dropped(p)'
<1> DEFINE n == Len(Program[p])
<1>1. /\ n \in Nat /\ n > 5 /\ DOMAIN Program[p] = 1..n
      /\ \A i \in 1..n : /\ Program[p][i].op = "setgid" <=> i = n - 1
                         /\ Program[p][i].op = "setuid" <=> i = n
  BY Zenon, LastSteps
<1>2. p \in Processes
  BY DEF Processes
<1>3. /\ at[p] \in Nat /\ at[p] <= n + 1
      /\ at[p] >= n => gid[p] = "user"
      /\ at[p] = n + 1 => uid[p] = "user"
  BY <1>2 DEF StartType, Dropped
<1> HIDE DEF n
<1>4. SUFFICES /\ at'[p] <= n + 1
               /\ at'[p] >= n => gid'[p] = "user"
               /\ at'[p] = n + 1 => uid'[p] = "user"
  BY DEF Dropped, n
<1>5. ASSUME at'[p] = at[p], uid'[p] = uid[p], gid'[p] = gid[p]
      PROVE  /\ at'[p] <= n + 1
             /\ at'[p] >= n => gid'[p] = "user"
             /\ at'[p] = n + 1 => uid'[p] = "user"
  BY <1>3, <1>5
<1>6. ASSUME at'[p] < n
      PROVE  /\ at'[p] <= n + 1
             /\ at'[p] >= n => gid'[p] = "user"
             /\ at'[p] = n + 1 => uid'[p] = "user"
  <2>1. at'[p] \in Nat
    BY <1>2, StartTypeStep DEF StartType
  <2> QED
    BY <1>1, <1>6, <2>1
<1>7. CASE Kill \/ UNCHANGED startVars
  <2>1. at'[p] = 0 \/ (at'[p] = at[p] /\ uid'[p] = uid[p] /\ gid'[p] = gid[p])
    BY Zenon, <1>2, <1>7 DEF Kill, Panic, startVars, StartType, Processes
  <2> QED
    BY <1>1, <1>5, <1>6, <2>1
<1>8. ASSUME NEW q \in Processes, Start(q) \/ Step(q), q # p
      PROVE  at'[p] = at[p] /\ uid'[p] = uid[p] /\ gid'[p] = gid[p]
  <2>1. at' = [at EXCEPT ![q] = @ + 1] \/ at' = [at EXCEPT ![q] = 0]
    BY <1>8, StepEffect, Zenon
  <2>2. /\ uid' = uid \/ uid' = [uid EXCEPT ![q] = "user"] \/ uid' = [uid EXCEPT ![q] = Starter]
        /\ gid' = gid \/ gid' = [gid EXCEPT ![q] = "user"] \/ gid' = [gid EXCEPT ![q] = Starter]
    BY <1>8, StepEffect, Zenon
  <2> QED
    BY Zenon, <1>2, <1>8, <2>1, <2>2 DEF StartType
<1>9. CASE Start(p)
  <2>1. at'[p] = 1
    BY <1>2, <1>9 DEF Start, Advance, StartType
  <2> QED
    BY <1>1, <1>6, <2>1
<1>10. CASE JoinShmem(p) \/ CreateShmem(p) \/ Bounded(p)
  <2>1. /\ at[p] \in 1..n /\ Program[p][at[p]].op \in {"join", "create", "bounded"}
        /\ at' = [at EXCEPT ![p] = @ + 1] \/ at' = [at EXCEPT ![p] = 0]
    BY <1>1, <1>10, Zenon DEF JoinShmem, CreateShmem, Bounded, Advance, Panic, Doing
  <2>2. at[p] # n - 1 /\ at[p] # n
    BY Zenon, <1>1, <2>1
  <2>3. at'[p] = at[p] + 1 \/ at'[p] = 0
    BY Zenon, <1>2, <2>1 DEF StartType
  <2>4. at'[p] < n
    BY <1>1, <2>1, <2>2, <2>3
  <2> QED
    BY Zenon, <1>6, <2>4
<1>11. CASE SetGid(p)
  <2>1. at[p] = n - 1
    BY Zenon, <1>1, <1>11 DEF SetGid, Doing
  <2>2. \/ at'[p] = at[p] + 1 /\ gid'[p] = "user"
        \/ at'[p] = 0
    BY <1>2, <1>11 DEF SetGid, Advance, Panic, StartType
  <2>3. CASE at'[p] = 0
    BY <1>1, <1>6, <2>3
  <2>4. CASE at'[p] = at[p] + 1 /\ gid'[p] = "user"
    BY <1>1, <2>1, <2>4
  <2> QED
    BY Zenon, <2>2, <2>3, <2>4
<1>12. CASE SetUid(p)
  <2>1. at[p] = n
    BY Zenon, <1>1, <1>12 DEF SetUid, Doing
  <2>2. /\ gid'[p] = gid[p]
        /\ \/ at'[p] = at[p] + 1 /\ uid'[p] = "user"
           \/ at'[p] = 0
    BY Zenon, <1>2, <1>12 DEF SetUid, Advance, Panic, StartType
  <2>3. CASE at'[p] = 0
    BY <1>1, <1>6, <2>3
  <2>4. CASE at'[p] = at[p] + 1 /\ uid'[p] = "user"
    BY <1>1, <1>3, <2>1, <2>2, <2>4
  <2> QED
    BY Zenon, <2>2, <2>3, <2>4
<1>13. CASE \E q \in Processes : Start(q) \/ Step(q)
  <2>1. PICK q \in Processes : Start(q) \/ Step(q)
    BY <1>13
  <2>2. CASE q # p
    BY Zenon, <1>5, <1>8, <2>1, <2>2
  <2>3. CASE q = p
    BY Zenon, <1>9, <1>10, <1>11, <1>12, <2>1, <2>3 DEF Step
  <2> QED
    BY Zenon, <2>2, <2>3
<1> QED
  BY Zenon, <1>7, <1>13 DEF StartupNext

\* On standard pages neither program passes its first join of a channel that only
\* the creator prepares, or that the other one creates behind a join of its own.
LEMMA HeldUpStep ==
  ASSUME StartType, HeldUp, [StartupNext]_startVars
  PROVE  HeldUp'
<1> DEFINE re1 == <<"standard", "re1_to_qos">>
           sig == <<"standard", "qos_to_sig">>
<1>1. huge' = huge
  BY Zenon DEF startVars, configVars, StartupNext, Kill, Start, Step, JoinShmem, CreateShmem,
         Bounded, SetGid, SetUid
<1> SUFFICES ASSUME ~huge
             PROVE  re1 \notin exists' /\ sig \notin exists' /\ at'["qos"] <= 1 /\ at'["engine"] <= 7
  BY <1>1 DEF HeldUp
<1>2. /\ re1 \notin exists /\ sig \notin exists /\ at["qos"] <= 1 /\ at["engine"] <= 7
      /\ at["qos"] \in Nat /\ at["engine"] \in Nat /\ at["cli"] \in Nat
  BY DEF HeldUp, StartType, Processes
<1>3. ASSUME NEW p \in Processes, NEW k, Doing(p, k)
      PROVE  /\ p = "qos" => k = "join" /\ at[p] = 1
             /\ p = "engine" /\ k \in {"setgid", "setuid"} => FALSE
             /\ p = "engine" /\ k = "join" => at[p] = 7
             /\ p = "engine" /\ k = "create" => at[p] \in {2, 4, 5, 6}
             /\ p = "engine" /\ k = "bounded" => at[p] \in {1, 3}
             /\ p = "cli" => k = "create"
  <2>1. CASE p = "qos"
    <3>1. at[p] \in 1..6 /\ k = Qos[at[p]].op
      BY Zenon, <1>3, <2>1, QosSteps DEF Doing
    <3>2. at[p] = 1
      BY <1>2, <2>1, <3>1
    <3>3. Qos[1].op = "join"
      BY Zenon, QosSteps
    <3> QED
      BY Zenon, <2>1, <3>1, <3>2, <3>3
  <2>2. CASE p = "engine"
    <3>1. at[p] \in 1..11 /\ k = EngineIpc[at[p]].op
      BY Zenon, <1>3, <2>2, EngineSteps DEF Doing
    <3>2. \/ at[p] = 1 \/ at[p] = 2 \/ at[p] = 3 \/ at[p] = 4
          \/ at[p] = 5 \/ at[p] = 6 \/ at[p] = 7
      BY <1>2, <2>2, <3>1
    <3>3. /\ EngineIpc[1].op = "bounded" /\ EngineIpc[2].op = "create"
          /\ EngineIpc[3].op = "bounded" /\ EngineIpc[4].op = "create"
          /\ EngineIpc[5].op = "create" /\ EngineIpc[6].op = "create"
          /\ EngineIpc[7].op = "join"
      BY Zenon, EngineSteps
    <3> QED
      BY Zenon, <2>2, <3>1, <3>2, <3>3
  <2>3. CASE p = "cli"
    <3>1. at[p] \in 1..8 /\ k = Cli[at[p]].op
      BY Zenon, <1>3, <2>3, CliSteps DEF Doing
    <3> QED
      BY Zenon, <2>3, <3>1, CliSteps
  <2> QED
    BY Zenon, <2>1, <2>2, <2>3 DEF Processes
<1>4. ASSUME exists' = exists,
             at'["qos"] <= 1, at'["engine"] <= 7
      PROVE  re1 \notin exists' /\ sig \notin exists' /\ at'["qos"] <= 1 /\ at'["engine"] <= 7
  BY <1>2, <1>4
<1>5. ASSUME NEW p \in Processes, at' = [at EXCEPT ![p] = 0]
      PROVE  at'["qos"] <= 1 /\ at'["engine"] <= 7
  BY <1>2, <1>5 DEF StartType, Processes
<1>6. ASSUME NEW p \in Processes, at' = [at EXCEPT ![p] = @ + 1],
             (p = "qos" => at[p] = 0) /\ (p = "engine" => at[p] <= 6)
      PROVE  at'["qos"] <= 1 /\ at'["engine"] <= 7
  BY <1>2, <1>6 DEF StartType, Processes
<1>7. CASE Kill \/ UNCHANGED startVars
  <2>1. "qos" \in Processes
    BY DEF Processes
  <2>2. exists' = exists /\ (at' = [at EXCEPT !["qos"] = 0] \/ at' = at)
    BY Zenon, <1>7 DEF Kill, Panic, startVars
  <2> QED
    BY Zenon, <1>2, <1>4, <1>5, <2>1, <2>2
<1>8. ASSUME NEW p \in Processes, Start(p)
      PROVE  re1 \notin exists' /\ sig \notin exists' /\ at'["qos"] <= 1 /\ at'["engine"] <= 7
  <2>1. exists' = exists /\ at[p] = 0 /\ at' = [at EXCEPT ![p] = @ + 1]
    BY <1>8 DEF Start, Advance
  <2>2. (p = "qos" => at[p] = 0) /\ (p = "engine" => at[p] <= 6)
    BY <2>1
  <2> QED
    BY <1>4, <1>6, <2>1, <2>2, Zenon
<1>9. ASSUME NEW p \in Processes, JoinShmem(p)
      PROVE  re1 \notin exists' /\ sig \notin exists' /\ at'["qos"] <= 1 /\ at'["engine"] <= 7
  <2>1. Doing(p, "join") /\ exists' = exists
    BY Zenon, <1>9 DEF JoinShmem
  <2>2. (p = "qos" /\ at[p] = 1) \/ (p = "engine" /\ at[p] = 7)
    BY <1>3, <2>1 DEF Processes
  <2>3. ~(Places(Program[p][at[p]]) \subseteq exists)
    <3>1. CASE p = "qos"
      <4>1. Program[p][at[p]].page = "arg" /\ Program[p][at[p]].names = Inbound \cup Signals
        BY Zenon, <2>2, <3>1, QosSteps
      <4>2. re1 \in Places(Program[p][at[p]])
        BY Zenon, <4>1 DEF Places, Inbound
      <4> QED
        BY Zenon, <1>2, <4>2
    <3>2. CASE p = "engine"
      <4>1. Program[p][at[p]].page = "arg" /\ Program[p][at[p]].names = {"qos_to_sig"}
        BY <2>2, <3>2, EngineSteps
      <4>2. sig \in Places(Program[p][at[p]])
        BY Zenon, <4>1 DEF Places
      <4> QED
        BY Zenon, <1>2, <4>2
    <3> QED
      BY Zenon, <2>2, <3>1, <3>2
  <2>4. at' = [at EXCEPT ![p] = 0]
    BY Zenon, <1>9, <2>3 DEF JoinShmem, Panic
  <2> QED
    BY <1>4, <1>5, <2>1, <2>4, Zenon
<1>10. ASSUME NEW p \in Processes, CreateShmem(p)
       PROVE  re1 \notin exists' /\ sig \notin exists' /\ at'["qos"] <= 1 /\ at'["engine"] <= 7
  <2>1. /\ Doing(p, "create") /\ exists' = exists \cup Places(Program[p][at[p]])
        /\ at' = [at EXCEPT ![p] = @ + 1]
    BY Zenon, <1>10 DEF CreateShmem, Advance
  <2>2. p = "cli" \/ (p = "engine" /\ at[p] \in {2, 4, 5, 6})
    BY Zenon, <1>3, <2>1 DEF Processes
  <2>3. re1 \notin Places(Program[p][at[p]]) /\ sig \notin Places(Program[p][at[p]])
    <3>1. CASE p = "cli"
      <4>1. Program[p][at[p]].page = "huge"
        BY Zenon, <2>1, <3>1, CliSteps DEF Doing
      <4> QED
        BY Zenon, <4>1 DEF Places
    <3>2. CASE p = "engine"
      <4>1. /\ EngineIpc[2].names = {"tpu_to_qos"} /\ EngineIpc[4].names = {"fwd_to_qos"}
            /\ EngineIpc[5].names = {"status_cache"} /\ EngineIpc[6].names = {"qos_stats"}
        BY Zenon, EngineSteps
      <4>2. Program[p][at[p]] = EngineIpc[at[p]]
        BY Zenon, <3>2, EngineSteps
      <4>3. /\ "re1_to_qos" \notin Program[p][at[p]].names
            /\ "qos_to_sig" \notin Program[p][at[p]].names
        BY <2>2, <3>2, <4>1, <4>2
      <4> QED
        BY Zenon, <4>3 DEF Places
    <3> QED
      BY Zenon, <2>2, <3>1, <3>2
  <2>4. at'["qos"] <= 1 /\ at'["engine"] <= 7
    <3>1. (p = "qos" => at[p] = 0) /\ (p = "engine" => at[p] <= 6)
      BY <2>2
    <3> QED
      BY <1>6, <2>1, <3>1, Zenon
  <2> QED
    BY Zenon, <1>2, <2>1, <2>3, <2>4
<1>11. ASSUME NEW p \in Processes, Bounded(p)
       PROVE  re1 \notin exists' /\ sig \notin exists' /\ at'["qos"] <= 1 /\ at'["engine"] <= 7
  <2> DEFINE o == Program[p][at[p]]
             rings == {<<o.page, i>> : i \in 0..(Senders - 1)}
  <2>1. /\ Doing(p, "bounded") /\ at' = [at EXCEPT ![p] = @ + 1]
        /\ exists' = exists \cup {<<"standard", r[1], r[2]>> : r \in rings}
    BY Zenon, <1>11 DEF Bounded, Advance
  <2>2. p = "engine" /\ at[p] \in {1, 3}
    BY <1>3, <2>1 DEF Processes
  <2>3. o.page = "tpu_engine"
    <3>1. EngineIpc[1].page = "tpu_engine" /\ EngineIpc[3].page = "tpu_engine"
      BY Zenon, EngineSteps
    <3>2. o = EngineIpc[at[p]]
      BY Zenon, <2>2, EngineSteps
    <3> QED
      BY Zenon, <2>2, <3>1, <3>2
  <2>4. \A r \in rings : r[1] = "tpu_engine"
    BY <2>3
  <2> HIDE DEF rings
  <2>5. \A r \in rings : /\ re1 # <<"standard", r[1], r[2]>>
                         /\ sig # <<"standard", r[1], r[2]>>
    <3>1. /\ re1[2] = "re1_to_qos" /\ sig[2] = "qos_to_sig"
          /\ \A a, b, c : <<a, b, c>>[2] = b
      OBVIOUS
    <3> QED
      BY <2>4, <3>1
  <2>6. at'["qos"] <= 1 /\ at'["engine"] <= 7
    <3>1. (p = "qos" => at[p] = 0) /\ (p = "engine" => at[p] <= 6)
      BY <2>2
    <3> QED
      BY <1>6, <2>1, <3>1, Zenon
  <2> QED
    BY Zenon, <1>2, <2>1, <2>5, <2>6
<1>12. ASSUME NEW p \in Processes, SetGid(p) \/ SetUid(p) PROVE FALSE
  <2>1. Doing(p, "setgid") \/ Doing(p, "setuid")
    BY Zenon, <1>12 DEF SetGid, SetUid
  <2> QED
    BY Zenon, <1>3, <2>1 DEF Processes
<1> QED
  BY Zenon, <1>7, <1>8, <1>9, <1>10, <1>11, <1>12 DEF StartupNext, Step

\* The start-up begins in its invariant.
LEMMA StartInit == StartupInit => StartInv
<1> SUFFICES ASSUME StartupInit PROVE StartInv
  OBVIOUS
<1>1. /\ at = [p \in Processes |-> 0] /\ uid = [p \in Processes |-> Starter] /\ gid = uid
      /\ exists = {} /\ Starter \in {"root", "user"}
  BY DEF StartupInit, Starter
<1>2. StartType
  BY <1>1 DEF StartType
<1>3. at["qos"] = 0 /\ at["engine"] = 0
  BY <1>1 DEF Processes
<1>4. HeldUp
  BY <1>1, <1>3 DEF HeldUp
<1>5. ASSUME NEW p \in {"qos", "engine"} PROVE Dropped(p)
  <2>1. Len(Program[p]) \in Nat /\ Len(Program[p]) > 5 /\ at[p] = 0
    BY Zenon, <1>3, LastSteps
  <2> QED
    BY <2>1 DEF Dropped
<1> QED
  BY <1>2, <1>4, <1>5 DEF StartInv

\* Every step keeps the invariant of the start-up.
LEMMA StartStep == StartInv /\ [StartupNext]_startVars => StartInv'
  BY StartTypeStep, DroppedStep, HeldUpStep DEF StartInv

\* Standard pages bring up neither program.
NotUpOnStandardPages == ~huge => ~Running("qos") /\ ~Running("engine")

\* The invariant of the start-up gives both of its properties.
LEMMA StartImplies == StartInv => RunsUnprivileged /\ NotUpOnStandardPages
<1> SUFFICES ASSUME StartInv PROVE RunsUnprivileged /\ NotUpOnStandardPages
  OBVIOUS
<1>1. ASSUME NEW p \in {"qos", "engine"}, Running(p)
      PROVE  uid[p] = "user" /\ gid[p] = "user"
  <2>1. Len(Program[p]) \in Nat /\ at[p] \in Nat /\ Dropped(p)
    BY Zenon, LastSteps DEF StartInv, StartType, Processes
  <2>2. at[p] = Len(Program[p]) + 1
    BY <1>1, <2>1 DEF Running, Dropped
  <2> QED
    BY <2>1, <2>2 DEF Dropped
<1>2. ASSUME ~huge PROVE ~Running("qos") /\ ~Running("engine")
  <2>1. at["qos"] \in Nat /\ at["engine"] \in Nat /\ at["qos"] <= 1 /\ at["engine"] <= 7
    BY <1>2 DEF StartInv, StartType, HeldUp, Processes
  <2>2. Len(Program["qos"]) = 6 /\ Len(Program["engine"]) = 11
    BY Zenon, QosSteps, EngineSteps
  <2> QED
    BY <2>1, <2>2 DEF Running
<1> QED
  BY <1>1, <1>2 DEF RunsUnprivileged, NotUpOnStandardPages

\* The invariant of the start-up holds in the composition.
LEMMA StartInvariant == Spec => []StartInv
<1>1. Init => StartInv
  BY StartInit DEF Init
<1>2. [Next]_vars => [StartupNext]_startVars
  BY Zenon DEF Next, Funnel, Generate, OtherPop, FiveSeconds, Beat, WaitForConsumer,
         CheckConsumer, PopPacket, VisitEmpty, PopNone, Sync, Programs, vars
<1>3. StartInv /\ [Next]_vars => StartInv'
  BY <1>2, StartStep
<1> QED
  BY <1>1, <1>3, PTL DEF Spec

\* Whatever failures, kills and restarts came before, a sidecar or mock validator
\* that has come up runs with neither root's user nor root's group.
THEOREM PrivilegesDropped == Spec => []RunsUnprivileged
  BY StartInvariant, StartImplies, PTL

\* On standard pages no order of starts and restarts brings up the sidecar or the
\* mock validator, so that StandardPagesSuffice fails in every instance.
THEOREM CreatorNeeded == Spec => []NotUpOnStandardPages
  BY StartInvariant, StartImplies, PTL
=============================================================================
