--------------------------- MODULE QoSTileProofs ----------------------------
(***************************************************************************)
(* For every number of channels, every capacity and batch size, any        *)
(* traffic and any number of restarts of the sidecar: every packet is      *)
(* accounted for, only IPv4 packets come back from sigverify, nothing      *)
(* known to be confirmed is sent there, no transaction is in flight twice  *)
(* and what sigverify reports is credited to the sender.                   *)
(***************************************************************************)
EXTENDS QoSTile, FiniteSetTheorems, TLAPS

Ipv4Packets == {p \in Packets : ~NotIpv4(p)}

\* The counters of the packets that leave try_process_packet with an error.
RejectStats ==
  {"non_ipv4", "invalid_meta_size", "failed_sanitize", "failed_view",
   "invalid_packet_data", "recently_processed", "duplicate_packets"}

\* The packets that left the tile, by their counters.
Gone(s) ==
  s["non_ipv4"] + s["invalid_meta_size"] + s["failed_sanitize"] + s["failed_view"]
    + s["invalid_packet_data"] + s["recently_processed"] + s["duplicate_packets"]
    + s["leaked_priority"] + s["recently_processed_queued"] + s["banking_transmissions"]

StatsType == [StatNames -> Nat]

\* The heap is finite and below its capacity.
HeapType == IsFiniteSet(heap) /\ Cardinality(heap) < HeapCapacity

ChannelType ==
  /\ port \in 1..Ports
  /\ inbound \in [1..Ports -> Seq(Packets)]
  /\ sigQ \in Seq(Ipv4Packets)
  /\ schQ \in Seq({PacketHash(p) : p \in Packets})
  /\ IsFiniteSet(out)
  /\ \A t \in heap \cup out : t.packet \in Ipv4Packets

\* What arrives next is not in the heap yet.
HeapIds == \A t \in heap : \E n \in 0..stats["total_packets"] : t.id = <<life, n>>

Accounted ==
  stats["total_packets"] = Gone(stats) + Cardinality(heap)

\* Every report belongs to a transmission, of this life or of the one before.
ReportsCovered ==
  stats["completed"] + Len(schQ) + Cardinality(out)
    <= stats["banking_transmissions"] + carried

TileInv ==
  /\ stats \in StatsType /\ carried \in Nat
  /\ HeapType
  /\ ChannelType
  /\ HeapIds
  /\ Accounted
  /\ ReportsCovered

-----------------------------------------------------------------------------
(* Lemmas                                                                  *)

\* Pushing one more transaction: it is in the heap or leaked, and so are the
\* others; the count grows by one and the heap stays below its capacity.
LEMMA PushCounts ==
  ASSUME NEW h, NEW t, NEW cap \in Nat \ {0}, NEW r \in Push(h, t, cap),
         IsFiniteSet(h), Cardinality(h) < cap, t \notin h
  PROVE  /\ r.heap \cup r.leaked = h \cup {t}
         /\ IsFiniteSet(r.heap) /\ Cardinality(r.heap) < cap
         /\ Cardinality(r.heap) + Cardinality(r.leaked) = Cardinality(h) + 1
         /\ Cardinality(r.heap) \in Nat /\ Cardinality(r.leaked) \in Nat
         /\ Cardinality(h) \in Nat
<1> DEFINE full == h \cup {t}
<1>1. IsFiniteSet(full) /\ Cardinality(full) = Cardinality(h) + 1
  BY FS_AddElement
<1>2. Cardinality(h) \in Nat
  BY FS_CardinalityType
<1> HIDE DEF full
<1>3. CASE Cardinality(full) = cap
  <2>1. PICK m \in Least(full) : r = [heap |-> full \ {m}, leaked |-> {m}]
    BY <1>3 DEF Push, full
  <2>2. m \in full
    BY DEF Least
  <2>3. r.heap = full \ {m} /\ r.leaked = {m} /\ r.heap \cup r.leaked = full
    BY <2>1, <2>2
  <2>4. IsFiniteSet(full \ {m}) /\ Cardinality(full \ {m}) = Cardinality(full) - 1
    BY <1>1, <2>2, FS_RemoveElement, Zenon
  <2>5. Cardinality({m}) = 1
    BY FS_Singleton, Zenon
  <2> QED
    BY <1>1, <1>2, <1>3, <2>3, <2>4, <2>5 DEF full
<1>4. CASE Cardinality(full) # cap
  <2>1. r.heap = full /\ r.leaked = {}
    BY <1>4 DEF Push, full
  <2>2. Cardinality({}) = 0
    BY FS_EmptySet
  <2> QED
    BY <1>1, <1>2, <1>4, <2>1, <2>2 DEF full
<1> QED
  BY <1>3, <1>4

\* What is popped for a batch is either sent or already confirmed.
LEMMA BatchCounts ==
  ASSUME NEW h, NEW known, NEW max, NEW p \in Drains(h, known, max), IsFiniteSet(h)
  PROVE  /\ p \subseteq h /\ IsFiniteSet(p) /\ Cardinality(p) \in Nat
         /\ Fresh(p, known) \subseteq p /\ IsFiniteSet(Fresh(p, known))
         /\ Cardinality(Fresh(p, known)) \in Nat
         /\ Cardinality(p \ Fresh(p, known)) = Cardinality(p) - Cardinality(Fresh(p, known))
         /\ Cardinality(p \ Fresh(p, known)) \in Nat
<1> DEFINE f == Fresh(p, known)
<1>1. p \subseteq h /\ f \subseteq p
  BY DEF Drains, Fresh
<1> HIDE DEF f
<1>2. IsFiniteSet(p) /\ IsFiniteSet(f)
  BY <1>1, FS_Subset
<1>3. IsFiniteSet(p \ f) /\ Cardinality(p \ f) = Cardinality(p) - Cardinality(p \cap f)
  BY Zenon, <1>2, FS_Difference
<1>4. p \cap f = f
  BY <1>1
<1>5. Cardinality(p) \in Nat /\ Cardinality(f) \in Nat /\ Cardinality(p \ f) \in Nat
  BY <1>2, <1>3, FS_CardinalityType
<1> QED
  BY <1>1, <1>2, <1>3, <1>4, <1>5, Zenon DEF f

\* A producer's push keeps the ring's elements of one kind and adds at most one.
LEMMA ProduceGood ==
  ASSUME NEW S, NEW q \in Seq(S), NEW x \in S
  PROVE  Produce(q, x) \in Seq(S) /\ Len(Produce(q, x)) <= Len(q) + 1
<1> DEFINE full == Append(q, x)
<1>1. full \in Seq(S) /\ Len(full) = Len(q) + 1
  OBVIOUS
<1>2. Tail(full) \in Seq(S) /\ Len(Tail(full)) = Len(q)
  BY <1>1, Len(q) \in Nat
<1> QED
  BY <1>1, <1>2 DEF Produce

\* A set of check numbers has a least one.
LEMMA FirstFailing ==
  ASSUME NEW F \in SUBSET (1..8), F # {}
  PROVE  \E i \in F : \A j \in F : i <= j
<1>1. PICK x \in F : TRUE
  BY Zenon
<1>2. x = 1 \/ x = 2 \/ x = 3 \/ x = 4 \/ x = 5 \/ x = 6 \/ x = 7 \/ x = 8
  OBVIOUS
<1>3. CASE 1 \in F \/ 2 \in F \/ 3 \in F
  BY <1>3
<1>4. CASE 1 \notin F /\ 2 \notin F /\ 3 \notin F
  BY <1>2, <1>4
<1> QED
  BY <1>3, <1>4

\* A packet that is not accepted is counted in exactly one of the error counters,
\* and an accepted one is IPv4 and not a duplicate.
LEMMA VerdictGood ==
  ASSUME NEW p
  PROVE  /\ Verdict(p) = "ok" \/ Verdict(p) \in RejectStats
         /\ Verdict(p) = "ok" => ~NotIpv4(p) /\ ~Duplicate(p)
<1> DEFINE F == {i \in DOMAIN Checks(p) : Checks(p)[i].fails}
<1>1. DOMAIN Checks(p) = 1..8
  BY DEF Checks
<1>2. /\ \A i \in 1..8 : Checks(p)[i].stat \in RejectStats
      /\ Checks(p)[1].fails = NotIpv4(p) /\ Checks(p)[8].fails = Duplicate(p)
  BY DEF Checks, RejectStats
<1>3. "ok" \notin RejectStats
  BY DEF RejectStats
<1>4. CASE F = {}
  <2>1. Verdict(p) = "ok"
    BY Zenon, <1>4 DEF Verdict
  <2>2. 1 \in 1..8 /\ 8 \in 1..8
    OBVIOUS
  <2>3. ~Checks(p)[1].fails /\ ~Checks(p)[8].fails
    BY Zenon, <1>1, <1>4, <2>2
  <2> QED
    BY Zenon, <1>2, <2>1, <2>3
<1>5. CASE F # {}
  <2>1. PICK i \in F : \A j \in F : i <= j
    BY <1>1, <1>5, FirstFailing
  <2>2. (CHOOSE k \in F : \A j \in F : k <= j) \in F
    BY <2>1
  <2>3. Verdict(p) = Checks(p)[CHOOSE k \in F : \A j \in F : k <= j].stat
    BY <1>5 DEF Verdict
  <2> QED
    BY <1>1, <1>2, <1>3, <2>2, <2>3, Zenon
<1> QED
  BY <1>4, <1>5

-----------------------------------------------------------------------------
(* A packet                                                                *)

\* What the processing of a packet leaves true.
Processed ==
  /\ stats' \in StatsType
  /\ HeapType'
  /\ IsFiniteSet(out') /\ \A t \in heap' \cup out' : t.packet \in Ipv4Packets
  /\ HeapIds'
  /\ Accounted'
  /\ stats'["completed"] = stats["completed"]
  /\ Cardinality(out') + stats["banking_transmissions"]
       <= Cardinality(out) + stats'["banking_transmissions"]

\* A rejected packet is counted and leaves the invariant.
LEMMA RejectStep ==
  ASSUME TileInv, NEW p \in Packets, Reject(p), life' = life
  PROVE  Processed
<1> DEFINE v == Verdict(p)
<1>1. v \in RejectStats
  BY VerdictGood DEF Reject
<1>2. stats' = [stats EXCEPT !["total_packets"] = @ + 1, ![v] = @ + 1]
  BY DEF Reject
<1>3. heap' = heap /\ out' = out
  BY DEF Reject
<1>4. stats \in StatsType /\ HeapType /\ HeapIds /\ Accounted
      /\ IsFiniteSet(out) /\ \A t \in heap \cup out : t.packet \in Ipv4Packets
  BY DEF TileInv, ChannelType
<1> HIDE DEF v
<1>5. /\ stats' \in StatsType
      /\ stats'["total_packets"] = stats["total_packets"] + 1
      /\ stats'["completed"] = stats["completed"]
      /\ stats'["banking_transmissions"] = stats["banking_transmissions"]
      /\ Gone(stats') = Gone(stats) + 1
  BY <1>1, <1>2, <1>4 DEF StatsType, StatNames, RejectStats, Gone
<1>6. Cardinality(heap) \in Nat /\ Cardinality(out) \in Nat
  BY <1>4, FS_CardinalityType DEF HeapType
<1>7. Gone(stats) \in Nat /\ stats["total_packets"] \in Nat
      /\ stats["banking_transmissions"] \in Nat
  BY <1>4 DEF StatsType, StatNames, Gone
<1>8. HeapType' /\ Accounted'
  BY <1>3, <1>4, <1>5, <1>6, <1>7 DEF HeapType, Accounted
<1>9. HeapIds'
  BY <1>3, <1>4, <1>5, <1>7 DEF HeapIds
<1> QED
  BY <1>3, <1>4, <1>5, <1>6, <1>7, <1>8, <1>9 DEF Processed

\* An accepted packet is queued and counted.
LEMMA AcceptStep ==
  ASSUME TileInv, NEW p \in Packets, Accept(p), life' = life
  PROVE  Processed
<1>1. stats \in StatsType /\ HeapType /\ HeapIds /\ Accounted
      /\ IsFiniteSet(out) /\ \A u \in heap \cup out : u.packet \in Ipv4Packets
  BY DEF TileInv, ChannelType
<1>2. /\ Gone(stats) \in Nat /\ stats["total_packets"] \in Nat
      /\ stats["banking_transmissions"] \in Nat
      /\ HeapCapacity \in Nat \ {0} /\ MaxSend \in Nat
  BY <1>1, TileAssumption DEF StatsType, StatNames, Gone
<1> DEFINE Tx(s) == [id |-> <<life, stats["total_packets"] + 1>>, score |-> s,
                     sig |-> p.sig, packet |-> p]
           Counted(s, r) ==
             [stats EXCEPT !["total_packets"] = @ + 1,
                           !["zero_score"] = @ + (IF s = 0 THEN 1 ELSE 0),
                           !["leaked_priority"] = @ + Cardinality(r.leaked)]
<1>3. PICK s \in Scores : \E r \in Push(heap, Tx(s), HeapCapacity) :
        Transmit(r.heap, Counted(s, r))
  BY Zenon DEF Accept
<1>4. PICK r \in Push(heap, Tx(s), HeapCapacity) : Transmit(r.heap, Counted(s, r))
  BY <1>3, Zenon
<1> DEFINE t == Tx(s)
           counted == Counted(s, r)
<1>5. t.id = <<life, stats["total_packets"] + 1>> /\ t.packet = p
  OBVIOUS
<1>6. p \in Ipv4Packets
  BY VerdictGood DEF Accept, Ipv4Packets
<1>7. t \notin heap
  BY <1>1, <1>2, <1>5 DEF HeapIds
<1>8. /\ IsFiniteSet(r.heap) /\ Cardinality(r.heap) < HeapCapacity
      /\ r.heap \cup r.leaked = heap \cup {t}
      /\ Cardinality(r.heap) + Cardinality(r.leaked) = Cardinality(heap) + 1
      /\ Cardinality(r.heap) \in Nat /\ Cardinality(r.leaked) \in Nat
      /\ Cardinality(heap) \in Nat
  BY <1>1, <1>2, <1>7, PushCounts DEF HeapType
<1> HIDE DEF t
<1>9. /\ counted \in StatsType
       /\ counted["total_packets"] = stats["total_packets"] + 1
       /\ counted["completed"] = stats["completed"]
       /\ counted["banking_transmissions"] = stats["banking_transmissions"]
       /\ Gone(counted) = Gone(stats) + Cardinality(r.leaked)
  BY <1>1, <1>8 DEF StatsType, StatNames, Gone
<1> HIDE DEF counted
<1>10. Transmit(r.heap, counted)
  BY <1>4 DEF counted
<1> HIDE DEF Tx, Counted
<1>11. /\ counted["total_packets"] = Gone(counted) + Cardinality(r.heap)
       /\ Gone(counted) \in Nat
  BY <1>1, <1>2, <1>8, <1>9 DEF Accounted
<1>12. \A u \in r.heap : \E n \in 0..counted["total_packets"] : u.id = <<life, n>>
  BY <1>1, <1>2, <1>5, <1>8, <1>9 DEF HeapIds
<1>13. \A u \in r.heap : u.packet \in Ipv4Packets
  BY <1>1, <1>5, <1>6, <1>8
<1>14. Cardinality(out) \in Nat
  BY <1>1, FS_CardinalityType
<1>15. CASE ~due
  <2>1. heap' = r.heap /\ stats' = counted /\ out' = out
    BY Zenon, <1>10, <1>15 DEF Transmit
  <2>2. HeapType' /\ Accounted' /\ HeapIds'
    BY <1>8, <1>11, <1>12, <2>1 DEF HeapType, Accounted, HeapIds
  <2> QED
    BY <1>1, <1>2, <1>9, <1>13, <1>14, <2>1, <2>2 DEF Processed
<1>16. CASE due
  <2>1. PICK batch \in Drains(r.heap, KeysOf(recents), MaxSend) :
          /\ heap' = r.heap \ batch
          /\ out' = out \cup Fresh(batch, KeysOf(recents))
          /\ stats' = [counted EXCEPT
               !["banking_transmissions"] =
                  @ + Cardinality(Fresh(batch, KeysOf(recents))),
               !["recently_processed_queued"] =
                  @ + Cardinality(batch \ Fresh(batch, KeysOf(recents)))]
    BY Zenon, <1>10, <1>16 DEF Transmit
  <2> DEFINE sent == Fresh(batch, KeysOf(recents))
  <2>2. /\ batch \subseteq r.heap /\ IsFiniteSet(batch) /\ Cardinality(batch) \in Nat
        /\ sent \subseteq batch /\ IsFiniteSet(sent) /\ Cardinality(sent) \in Nat
        /\ Cardinality(batch \ sent) = Cardinality(batch) - Cardinality(sent)
        /\ Cardinality(batch \ sent) \in Nat
    BY Zenon, <1>8, BatchCounts
  <2> HIDE DEF sent
  <2>3. IsFiniteSet(heap') /\ Cardinality(heap') = Cardinality(r.heap) - Cardinality(batch)
    <3>1. r.heap \cap batch = batch
      BY Zenon, <2>2
    <3>2. IsFiniteSet(r.heap \ batch)
          /\ Cardinality(r.heap \ batch) = Cardinality(r.heap) - Cardinality(r.heap \cap batch)
      BY <1>8, FS_Difference, Zenon
    <3>3. heap' = r.heap \ batch
      BY Zenon, <2>1
    <3> QED
      BY Zenon, <3>1, <3>2, <3>3
  <2>4. IsFiniteSet(out') /\ Cardinality(out') <= Cardinality(out) + Cardinality(sent)
        /\ Cardinality(out') \in Nat
    <3>1. IsFiniteSet(out) /\ IsFiniteSet(sent)
      BY Zenon, <1>1, <2>2
    <3>2. IsFiniteSet(out \cup sent) /\ Cardinality(out \cup sent) =
            Cardinality(out) + Cardinality(sent) - Cardinality(out \cap sent)
      BY <3>1, FS_Union
    <3>3. Cardinality(out \cap sent) \in Nat /\ Cardinality(out \cup sent) \in Nat
      BY <3>1, <3>2, FS_Intersection, FS_CardinalityType
    <3>4. out' = out \cup sent
      BY Zenon, <2>1 DEF sent
    <3> QED
      BY <1>14, <2>2, <3>2, <3>3, <3>4
  <2>5. /\ stats' \in StatsType
        /\ stats'["total_packets"] = counted["total_packets"]
        /\ stats'["completed"] = counted["completed"]
        /\ stats'["banking_transmissions"] =
             counted["banking_transmissions"] + Cardinality(sent)
        /\ Gone(stats') = Gone(counted) + Cardinality(batch)
    <3> DEFINE q == "recently_processed_queued"
               b == "banking_transmissions"
               x == counted[b] + Cardinality(sent)
               y == counted[q] + Cardinality(batch \ sent)
    <3>1. stats' = [counted EXCEPT ![b] = x, ![q] = y]
      BY Zenon, <2>1 DEF sent
    <3>2. counted \in [StatNames -> Nat] /\ b \in StatNames /\ q \in StatNames /\ b # q
      BY <1>9 DEF StatsType, StatNames
    <3>3. x \in Nat /\ y \in Nat
      BY <2>2, <3>2
    <3> HIDE DEF x, y
    <3>4. stats' \in StatsType
      BY Zenon, <3>1, <3>2, <3>3 DEF StatsType
    <3>5. stats'[b] = x /\ stats'[q] = y
          /\ \A n \in StatNames : n # b /\ n # q => stats'[n] = counted[n]
      BY Zenon, <3>1, <3>2
    <3>6. stats'["total_packets"] = counted["total_packets"]
          /\ stats'["completed"] = counted["completed"]
      BY <3>5 DEF StatNames
    <3>7. Gone(stats') = Gone(counted) + Cardinality(sent) + Cardinality(batch \ sent)
      <4> DEFINE rest == {"non_ipv4", "invalid_meta_size", "failed_sanitize", "failed_view",
                          "invalid_packet_data", "recently_processed", "duplicate_packets",
                          "leaked_priority"}
      <4>1. \A n \in rest : stats'[n] = counted[n] /\ counted[n] \in Nat
        <5>1. \A n \in rest : n \in StatNames /\ n # b /\ n # q
          BY DEF StatNames
        <5> QED BY Zenon, <3>2, <3>5, <5>1
      <4> QED BY <2>2, <3>2, <3>5, <4>1 DEF Gone, x, y
    <3>8. Gone(counted) \in Nat
      BY <3>2 DEF Gone, StatNames
    <3>9. Gone(stats') = Gone(counted) + Cardinality(batch)
      BY <2>2, <3>7, <3>8
    <3> QED BY Zenon, <3>4, <3>5, <3>6, <3>9 DEF x
  <2>6. HeapType' /\ Accounted'
    <3>1. /\ Cardinality(r.heap) \in Nat /\ Cardinality(r.heap) < HeapCapacity
          /\ HeapCapacity \in Nat
      BY Zenon, <1>2, <1>8, TileAssumption
    <3>2. HeapType'
      BY <2>2, <2>3, <3>1 DEF HeapType
    <3>3. Gone(counted) \in Nat
          /\ stats'["total_packets"] = Gone(counted) + Cardinality(r.heap)
      BY Zenon, <1>11, <2>5
    <3>4. stats'["total_packets"] = Gone(stats') + Cardinality(heap')
      BY <2>2, <2>3, <2>5, <3>1, <3>3
    <3> QED BY Zenon, <3>2, <3>4 DEF Accounted
  <2>7. heap' \subseteq r.heap /\ out' \subseteq out \cup r.heap
    <3>1. heap' = r.heap \ batch /\ out' = out \cup sent
      BY Zenon, <2>1 DEF sent
    <3> QED
      BY Zenon, <2>2, <3>1
  <2>8. HeapIds'
    BY Zenon, <1>12, <2>5, <2>7 DEF HeapIds
  <2>9. \A u \in heap' \cup out' : u.packet \in Ipv4Packets
    BY <1>1, <1>13, <2>7
  <2> QED
    BY <1>2, <1>9, <1>14, <2>2, <2>4, <2>5, <2>6, <2>8, <2>9 DEF Processed
<1> QED
  BY <1>15, <1>16

-----------------------------------------------------------------------------
(* The invariant                                                           *)

\* The tile starts in its invariant.
LEMMA TileInit == Init => TileInv
<1> SUFFICES ASSUME Init PROVE TileInv
  OBVIOUS
<1>1. IsFiniteSet({}) /\ Cardinality({}) = 0
  BY FS_EmptySet
<1>2. /\ heap = {} /\ out = {} /\ sigQ = <<>> /\ schQ = <<>> /\ carried = 0 /\ port = 1
      /\ inbound = [i \in 1..Ports |-> <<>>] /\ stats = [n \in StatNames |-> 0]
  BY DEF Init
<1>3. stats \in StatsType /\ Gone(stats) = 0 /\ stats["total_packets"] = 0
      /\ stats["completed"] = 0 /\ stats["banking_transmissions"] = 0
  BY <1>2 DEF StatsType, StatNames, Gone
<1>4. HeapType /\ HeapIds /\ Accounted
  BY <1>1, <1>2, <1>3, TileAssumption DEF HeapType, HeapIds, Accounted
<1>5. ChannelType
  BY <1>1, <1>2, TileAssumption DEF ChannelType
<1>6. ReportsCovered
  BY <1>1, <1>2, <1>3 DEF ReportsCovered
<1> QED
  BY <1>2, <1>3, <1>4, <1>5, <1>6 DEF TileInv

\* Sums that the steps below reason about are of numbers.
LEMMA TileNumbers ==
  ASSUME TileInv
  PROVE  /\ stats["completed"] \in Nat /\ stats["banking_transmissions"] \in Nat
         /\ Cardinality(out) \in Nat /\ Len(schQ) \in Nat /\ carried \in Nat
BY FS_CardinalityType DEF TileInv, StatsType, StatNames, ChannelType

\* What is underway may grow by as much as has been transmitted.
LEMMA StillCovered ==
  ASSUME NEW d \in Nat, NEW l \in Nat, NEW o \in Nat, NEW b \in Nat, NEW k \in Nat,
         NEW o2 \in Nat, NEW b2 \in Nat,
         d + l + o <= b + k, o2 + b <= o + b2
  PROVE  d + l + o2 <= b2 + k
OBVIOUS

\* A report may become a completed one.
LEMMA CoveredWithLess ==
  ASSUME NEW d \in Nat, NEW l \in Nat, NEW o \in Nat, NEW b \in Nat, NEW k \in Nat,
         NEW d2 \in Nat, NEW l2 \in Nat,
         d + l + o <= b + k, d2 + l2 <= d + l
  PROVE  d2 + l2 + o <= b + k
OBVIOUS

\* The reading of one packet keeps the invariant.
LEMMA ConsumePacketStep ==
  ASSUME TileInv, ConsumePacket
  PROVE  TileInv'
<1> DEFINE p == Head(inbound[port])
<1>1. inbound[port] \in Seq(Packets) /\ inbound[port] # <<>> /\ port \in 1..Ports
  BY Zenon DEF TileInv, ChannelType, ConsumePacket
<1>2. p \in Packets /\ Tail(inbound[port]) \in Seq(Packets)
  BY <1>1
<1>3. inbound' = [inbound EXCEPT ![port] = Tail(@)]
      /\ UNCHANGED <<port, schQ, sigQ, life, carried>>
  BY DEF ConsumePacket
<1>4. Processed
  <2>1. Reject(p) \/ Accept(p)
    BY DEF ConsumePacket
  <2> HIDE DEF p
  <2> QED
    BY <1>2, <1>3, <2>1, RejectStep, AcceptStep
<1> HIDE DEF p
<1>5. ChannelType'
  BY Zenon, <1>2, <1>3, <1>4 DEF TileInv, ChannelType, Processed
<1>6. stats'["banking_transmissions"] \in Nat /\ Cardinality(out') \in Nat
  BY <1>4, FS_CardinalityType DEF Processed, StatsType, StatNames
<1>7. ReportsCovered'
  <2>1. stats["completed"] + Len(schQ) + Cardinality(out)
          <= stats["banking_transmissions"] + carried
    BY DEF TileInv, ReportsCovered
  <2>2. /\ stats'["completed"] = stats["completed"]
        /\ Cardinality(out') + stats["banking_transmissions"]
             <= Cardinality(out) + stats'["banking_transmissions"]
    BY <1>4 DEF Processed
  <2>3. /\ stats["completed"] \in Nat /\ stats["banking_transmissions"] \in Nat
        /\ Cardinality(out) \in Nat /\ Len(schQ) \in Nat /\ carried \in Nat
    BY TileNumbers
  <2>4. stats["completed"] + Len(schQ) + Cardinality(out')
          <= stats'["banking_transmissions"] + carried
    BY <1>6, <2>1, <2>2, <2>3, StillCovered, Zenon
  <2> QED
    BY <1>3, <2>2, <2>4 DEF ReportsCovered
<1> QED
  BY Zenon, <1>3, <1>4, <1>5, <1>7 DEF TileInv, Processed

\* Counting a recent signature touches none of the sums.
LEMMA ConsumeRecentStep ==
  ASSUME TileInv, ConsumeRecent
  PROVE  TileInv'
<1>1. UNCHANGED <<port, inbound, schQ, sigQ, out, heap, life, carried>>
  BY DEF ConsumeRecent
<1>2. stats' = stats
      \/ stats' = [stats EXCEPT !["recent_signatures_received"] = @ + 1]
  BY DEF ConsumeRecent
<1>3. /\ stats' \in StatsType /\ Gone(stats') = Gone(stats)
      /\ \A n \in {"total_packets", "completed", "banking_transmissions"} :
           stats'[n] = stats[n]
  BY <1>2 DEF TileInv, StatsType, StatNames, Gone
<1> QED
  BY Zenon, <1>1, <1>3 DEF TileInv, HeapType, ChannelType, HeapIds, Accounted, ReportsCovered

\* A report is taken and counted at most once.
LEMMA ConsumeMetaStep ==
  ASSUME TileInv, ConsumeMeta
  PROVE  TileInv'
<1>1. UNCHANGED <<port, inbound, sigQ, out, heap, life, carried>>
  BY Zenon DEF ConsumeMeta
<1>2. \/ schQ' = schQ /\ stats' = stats
      \/ schQ # <<>> /\ schQ' = Tail(schQ)
         /\ (stats' = stats \/ stats' = [stats EXCEPT !["completed"] = @ + 1])
  BY Zenon DEF ConsumeMeta
<1>3. /\ stats' \in StatsType /\ Gone(stats') = Gone(stats)
      /\ \A n \in {"total_packets", "banking_transmissions"} : stats'[n] = stats[n]
      /\ stats'["completed"] \in Nat
      /\ stats' = stats \/ stats'["completed"] = stats["completed"] + 1
  <2>1. stats \in StatsType
    BY DEF TileInv
  <2>2. CASE stats' = stats
    BY <2>1, <2>2 DEF StatsType, StatNames
  <2>3. CASE stats' = [stats EXCEPT !["completed"] = @ + 1]
    BY <2>1, <2>3 DEF StatsType, StatNames, Gone
  <2> QED
    BY Zenon, <1>2, <2>2, <2>3
<1>4. schQ' \in Seq({PacketHash(p) : p \in Packets})
      /\ (schQ # <<>> /\ schQ' = Tail(schQ) => Len(schQ') = Len(schQ) - 1)
  <2>1. schQ \in Seq({PacketHash(p) : p \in Packets})
    BY DEF TileInv, ChannelType
  <2> QED
    BY <1>2, <2>1
<1>5. ReportsCovered'
  <2>1. /\ stats["completed"] + Len(schQ) + Cardinality(out)
             <= stats["banking_transmissions"] + carried
        /\ Len(schQ) \in Nat /\ Cardinality(out) \in Nat /\ stats["completed"] \in Nat
    BY TileNumbers DEF TileInv, ReportsCovered
  <2>2. stats'["completed"] + Len(schQ') <= stats["completed"] + Len(schQ)
    BY <1>2, <1>3, <1>4, <2>1
  <2>3. Len(schQ') \in Nat
    BY <1>4
  <2>4. /\ stats'["completed"] \in Nat
        /\ stats'["banking_transmissions"] = stats["banking_transmissions"]
        /\ stats["banking_transmissions"] \in Nat /\ carried \in Nat
        /\ carried' = carried /\ out' = out
    BY <1>1, <1>3, TileNumbers
  <2>5. stats'["completed"] + Len(schQ') + Cardinality(out)
          <= stats["banking_transmissions"] + carried
    BY Zenon, <2>1, <2>2, <2>3, <2>4, CoveredWithLess
  <2> QED
    BY <2>4, <2>5 DEF ReportsCovered
<1>6. ChannelType'
  BY <1>1, <1>4 DEF TileInv, ChannelType
<1> QED
  BY Zenon, <1>1, <1>3, <1>5, <1>6 DEF TileInv, HeapType, HeapIds, Accounted

\* The reading of one answer keeps the invariant.
LEMMA ConsumeSignalStep ==
  ASSUME TileInv, ConsumeSignal
  PROVE  TileInv'
<1>1. UNCHANGED <<port, inbound, schQ, out, heap, stats, life, carried>>
  BY DEF ConsumeSignal
<1>2. sigQ' = sigQ \/ (sigQ # <<>> /\ sigQ' = Tail(sigQ))
  BY Zenon DEF ConsumeSignal
<1>3. sigQ' \in Seq(Ipv4Packets)
  <2>1. sigQ \in Seq(Ipv4Packets)
    BY Zenon DEF TileInv, ChannelType
  <2> QED
    BY <1>2, <2>1
<1> QED
  BY Zenon, <1>1, <1>3 DEF TileInv, HeapType, ChannelType, HeapIds, Accounted, ReportsCovered

\* An arriving message keeps the invariant.
LEMMA ArriveStep ==
  ASSUME TileInv, Arrive
  PROVE  TileInv'
<1>1. UNCHANGED <<port, schQ, sigQ, out, heap, stats, life, carried>>
  BY DEF Arrive, tileVars
<1>2. PICK i \in 1..Ports, p \in Packets :
        inbound' = [inbound EXCEPT ![i] = Produce(@, p)]
  BY Zenon DEF Arrive
<1>3. inbound \in [1..Ports -> Seq(Packets)]
  BY DEF TileInv, ChannelType
<1>4. Produce(inbound[i], p) \in Seq(Packets)
  BY <1>3, ProduceGood
<1>5. inbound' \in [1..Ports -> Seq(Packets)]
  BY <1>2, <1>3, <1>4
<1> QED
  BY Zenon, <1>1, <1>5 DEF TileInv, HeapType, ChannelType, HeapIds, Accounted, ReportsCovered

\* What sigverify took is answered at most once, with the packet it got.
LEMMA SigverifyStep ==
  ASSUME TileInv, Sigverify
  PROVE  TileInv'
<1>1. UNCHANGED <<port, inbound, heap, stats, life, carried>>
  BY Zenon DEF Sigverify, tileVars
<1>2. PICK t \in out :
        /\ out' = out \ {t}
        /\ \/ sigQ' = Produce(sigQ, t.packet) /\ schQ' = schQ
           \/ schQ' = Produce(schQ, PacketHash(t.packet)) /\ sigQ' = sigQ
  BY Zenon DEF Sigverify
<1>3. /\ sigQ \in Seq(Ipv4Packets) /\ schQ \in Seq({PacketHash(p) : p \in Packets})
      /\ t.packet \in Ipv4Packets /\ t.packet \in Packets /\ IsFiniteSet(out)
  BY DEF TileInv, ChannelType, Ipv4Packets
<1>4. IsFiniteSet(out') /\ Cardinality(out') = Cardinality(out) - 1
  BY <1>2, <1>3, FS_RemoveElement
<1>5. sigQ' \in Seq(Ipv4Packets)
  BY Zenon, <1>2, <1>3, ProduceGood
<1>6. /\ schQ' \in Seq({PacketHash(p) : p \in Packets})
      /\ Len(schQ') \in Nat /\ Len(schQ') <= Len(schQ) + 1
  <2>1. PacketHash(t.packet) \in {PacketHash(p) : p \in Packets}
    BY <1>3
  <2>2. schQ' = schQ \/ schQ' = Produce(schQ, PacketHash(t.packet))
    BY <1>2
  <2>3. Produce(schQ, PacketHash(t.packet)) \in Seq({PacketHash(p) : p \in Packets})
        /\ Len(Produce(schQ, PacketHash(t.packet))) <= Len(schQ) + 1
    BY Zenon, <1>3, <2>1, ProduceGood
  <2> HIDE DEF Produce
  <2> QED
    BY <1>3, <2>2, <2>3
<1>7. ReportsCovered'
  <2> DEFINE done == stats["completed"]
             o == Cardinality(out)
             l == Len(schQ)
             b == stats["banking_transmissions"] + carried
  <2>1. done \in Nat /\ o \in Nat /\ l \in Nat /\ b \in Nat /\ done + l + o <= b
    BY TileNumbers DEF TileInv, ReportsCovered
  <2>2. ReportsCovered' <=> done + Len(schQ') + Cardinality(out') <= b
    BY Zenon, <1>1 DEF ReportsCovered
  <2>3. Cardinality(out') = o - 1 /\ Len(schQ') \in Nat /\ Len(schQ') <= l + 1
    BY <1>4, <1>6
  <2> HIDE DEF done, o, l, b
  <2> QED
    BY <2>1, <2>2, <2>3
<1>8. ChannelType'
  BY Zenon, <1>1, <1>2, <1>4, <1>5, <1>6 DEF TileInv, ChannelType
<1> QED
  BY Zenon, <1>1, <1>7, <1>8 DEF TileInv, HeapType, HeapIds, Accounted

\* A new process counts from zero, owing what the old one left in the channels.
LEMMA RestartStep ==
  ASSUME TileInv, Restart
  PROVE  TileInv'
<1>1. IsFiniteSet({}) /\ Cardinality({}) = 0
  BY FS_EmptySet
<1>2. /\ heap' = {} /\ port' = 1 /\ stats' = [n \in StatNames |-> 0]
      /\ carried' = Cardinality(out) + Len(schQ)
      /\ UNCHANGED <<inbound, schQ, sigQ, out>>
  BY Zenon DEF Restart
<1>3. stats' \in StatsType /\ Gone(stats') = 0 /\ stats'["total_packets"] = 0
      /\ stats'["completed"] = 0 /\ stats'["banking_transmissions"] = 0
  BY <1>2 DEF StatsType, StatNames, Gone
<1>4. HeapType' /\ HeapIds' /\ Accounted'
  BY <1>1, <1>2, <1>3, TileAssumption DEF HeapType, HeapIds, Accounted
<1>5. ChannelType'
  BY <1>2, TileAssumption DEF TileInv, ChannelType
<1>6. ReportsCovered' /\ carried' \in Nat
  BY <1>2, <1>3, TileNumbers DEF ReportsCovered
<1> QED
  BY <1>3, <1>4, <1>5, <1>6 DEF TileInv

\* Every step keeps the invariant of the tile.
LEMMA TileStep == TileInv /\ [Next]_vars => TileInv'
<1> SUFFICES ASSUME TileInv, [Next]_vars PROVE TileInv'
  OBVIOUS
<1>1. CASE ConsumePacket
  BY <1>1, ConsumePacketStep
<1>2. CASE NextPort
  <2>1. port' \in 1..Ports /\ UNCHANGED <<inbound, schQ, sigQ, out, heap, stats, life, carried>>
    BY <1>2, TileAssumption DEF NextPort, TileInv, ChannelType
  <2> QED
    BY Zenon, <2>1 DEF TileInv, HeapType, ChannelType, HeapIds, Accounted, ReportsCovered
<1>3. CASE ConsumeRecent
  BY <1>3, ConsumeRecentStep
<1>4. CASE ConsumeMeta
  BY <1>4, ConsumeMetaStep
<1>5. CASE ConsumeSignal
  BY <1>5, ConsumeSignalStep
<1>6. CASE Arrive
  BY <1>6, ArriveStep
<1>7. CASE Sigverify
  BY <1>7, SigverifyStep
<1>8. CASE Elapse \/ RaiseExit \/ UNCHANGED vars
  <2>1. UNCHANGED <<port, inbound, schQ, sigQ, out, heap, stats, life, carried>>
    BY Zenon, <1>8 DEF Elapse, RaiseExit, vars, tileVars
  <2> QED
    BY Zenon, <2>1 DEF TileInv, HeapType, ChannelType, HeapIds, Accounted, ReportsCovered
<1>9. CASE Restart
  BY <1>9, RestartStep
<1> QED
  BY <1>1, <1>2, <1>3, <1>4, <1>5, <1>6, <1>7, <1>8, <1>9 DEF Next, Tile

-----------------------------------------------------------------------------
(* One copy of each packet                                                 *)

Hashes == {PacketHash(p) : p \in Packets}

\* The entries of the partial meta cache: each has the address of its packet.
Credits == {Entry(PacketHash(p), FromLeBytes(p.addr)) : p \in Packets}

Queued(h) == {t \in heap : PacketHash(t.packet) = h}

Sent(h) == {t \in out : PacketHash(t.packet) = h}

Failed(h) == {i \in DOMAIN sigQ : PacketHash(sigQ[i]) = h}

Reported(h) == {i \in DOMAIN schQ : schQ[i] = h}

\* The set has at most one element.
Single(S) == \A x, y \in S : x = y

\* At most one of the four places has the packet, and has it once.
Alone(h) ==
  /\ Single(Queued(h)) /\ Single(Sent(h)) /\ Single(Failed(h)) /\ Single(Reported(h))
  /\ Queued(h) = {} \/ Sent(h) = {}
  /\ Failed(h) = {} \/ Reported(h) = {}
  /\ (Queued(h) = {} /\ Sent(h) = {}) \/ (Failed(h) = {} /\ Reported(h) = {})

Absent(h) == Queued(h) = {} /\ Sent(h) = {} /\ Failed(h) = {} /\ Reported(h) = {}

\* What is in flight, and was not given up, has its partial meta cached.
FlightInv ==
  /\ partial \in Seq(Credits)
  /\ \A h \in Hashes \ forgotten : Alone(h) /\ (h \notin KeysOf(partial) => Absent(h))

-----------------------------------------------------------------------------
(* The cache                                                               *)

\* Taking a key out of an order keeps the entries of all others.
LEMMA WithoutKeeps ==
  ASSUME NEW S, NEW order \in Seq(S), NEW k
  PROVE  /\ Without(order, k) \in Seq(S)
         /\ \A h \in KeysOf(order) : h # k => h \in KeysOf(Without(order, k))
<1> DEFINE w == Without(order, k)
           i == Place(order, k)
<1>1. CASE k \notin KeysOf(order)
  BY Zenon, <1>1 DEF Without
<1>2. CASE k \in KeysOf(order)
  <2>1. i \in 1..Len(order) /\ order[i].key = k
    BY <1>2 DEF KeysOf, Place
  <2>2. w = [j \in 1..(Len(order) - 1) |-> IF j < i THEN order[j] ELSE order[j + 1]]
    BY <1>2 DEF Without
  <2> HIDE DEF w, i
  <2>3. w \in Seq(S) /\ Len(w) = Len(order) - 1
    BY <2>1, <2>2
  <2>4. ASSUME NEW h \in KeysOf(order), h # k PROVE h \in KeysOf(w)
    <3>1. PICK j \in 1..Len(order) : order[j].key = h
      BY DEF KeysOf
    <3>2. CASE j < i
      <4>1. j \in DOMAIN w /\ w[j] = order[j]
        BY <2>1, <2>2, <3>2
      <4> QED
        BY Zenon, <3>1, <4>1 DEF KeysOf
    <3>3. CASE j > i
      <4>1. j - 1 \in DOMAIN w /\ w[j - 1] = order[j]
        BY <2>1, <2>2, <3>3
      <4> QED
        BY Zenon, <3>1, <4>1 DEF KeysOf
    <3> QED
      BY <2>1, <2>4, <3>1, <3>2, <3>3
  <2> QED
    BY <2>3, <2>4 DEF w
<1> QED
  BY <1>1, <1>2

\* put caches its key, and loses no other than the one it evicts.
LEMMA PutKeeps ==
  ASSUME NEW S, NEW order \in Seq(S), NEW k, NEW v, Entry(k, v) \in S,
         NEW cap \in Nat \ {0}
  PROVE  /\ PutOrder(order, k, v, cap) \in Seq(S)
         /\ k \in KeysOf(PutOrder(order, k, v, cap))
         /\ \A h \in KeysOf(order) :
              \/ h \in KeysOf(PutOrder(order, k, v, cap))
              \/ Evicts(order, k, cap) /\ h = Victim(order).key
<1> DEFINE e == Entry(k, v)
           put == PutOrder(order, k, v, cap)
<1>0. e.key = k
  BY DEF Entry
<1> HIDE DEF e
<1>1. ASSUME NEW s \in Seq(S)
      PROVE  /\ <<e>> \o s \in Seq(S)
             /\ k \in KeysOf(<<e>> \o s)
             /\ \A h \in KeysOf(s) : h \in KeysOf(<<e>> \o s)
  <2>1. /\ <<e>> \o s \in Seq(S) /\ Len(<<e>> \o s) = Len(s) + 1
        /\ (<<e>> \o s)[1] = e /\ \A n \in 1..Len(s) : (<<e>> \o s)[n + 1] = s[n]
    BY DEF e
  <2> DEFINE r == <<e>> \o s
  <2> HIDE DEF r
  <2>2. r \in Seq(S) /\ Len(r) = Len(s) + 1 /\ r[1] = e /\ \A n \in 1..Len(s) : r[n + 1] = s[n]
    BY Zenon, <2>1 DEF r
  <2>3. k \in KeysOf(r)
    BY <1>0, <2>2 DEF KeysOf
  <2>4. ASSUME NEW h \in KeysOf(s) PROVE h \in KeysOf(r)
    <3>1. PICK n \in 1..Len(s) : s[n].key = h
      <4>1. DOMAIN s = 1..Len(s)
        OBVIOUS
      <4> QED
        BY Zenon, <4>1 DEF KeysOf
    <3>2. n + 1 \in DOMAIN r /\ r[n + 1].key = h
      BY <2>2, <3>1
    <3> QED
      BY Zenon, <3>2 DEF KeysOf
  <2> QED
    BY Zenon, <2>2, <2>3, <2>4 DEF r
<1>2. CASE Evicts(order, k, cap)
  <2> DEFINE s == SubSeq(order, 1, Len(order) - 1)
  <2>1. Len(order) = cap /\ put = <<e>> \o s
    BY <1>2 DEF Evicts, PutOrder, e
  <2>2. s \in Seq(S) /\ Len(s) = Len(order) - 1 /\ \A n \in 1..Len(s) : s[n] = order[n]
    BY <2>1
  <2> HIDE DEF s
  <2>3. ASSUME NEW h \in KeysOf(order) PROVE h \in KeysOf(s) \/ h = Victim(order).key
    <3>1. PICK n \in 1..Len(order) : order[n].key = h
      BY DEF KeysOf
    <3>2. n \in DOMAIN s \/ n = Len(order)
      BY <2>2
    <3> QED
      BY <2>2, <3>1, <3>2 DEF KeysOf, Victim
  <2> HIDE DEF put
  <2> QED
    BY Zenon, <1>1, <1>2, <2>1, <2>2, <2>3 DEF put
<1>3. CASE ~Evicts(order, k, cap)
  <2> DEFINE s == Without(order, k)
  <2>1. put = <<e>> \o s
    BY <1>3 DEF PutOrder, Touch, e
  <2>2. s \in Seq(S) /\ \A h \in KeysOf(order) : h # k => h \in KeysOf(s)
    BY WithoutKeeps
  <2> HIDE DEF s, put
  <2> QED
    BY Zenon, <1>1, <2>1, <2>2 DEF put
<1> QED
  BY Zenon, <1>2, <1>3

-----------------------------------------------------------------------------
(* The steps                                                               *)

\* What FlightInv does not mention does not disturb it.
LEMMA FlightUnchanged ==
  ASSUME FlightInv, UNCHANGED <<heap, out, sigQ, schQ, partial, forgotten>>
  PROVE  FlightInv'
<1>1. \A h : /\ Queued(h)' = Queued(h) /\ Sent(h)' = Sent(h)
             /\ Failed(h)' = Failed(h) /\ Reported(h)' = Reported(h)
  BY Zenon DEF Queued, Sent, Failed, Reported
<1> QED
  BY Zenon, <1>1 DEF FlightInv, Alone, Absent

\* What StorePartial drops from the cache it puts on record.
LEMMA StorePartialKeeps ==
  ASSUME partial \in Seq(Credits), NEW p \in Packets, StorePartial(p)
  PROVE  /\ partial' \in Seq(Credits)
         /\ PacketHash(p) \in KeysOf(partial')
         /\ forgotten \subseteq forgotten'
         /\ \A h \in KeysOf(partial) : h \in KeysOf(partial') \/ h \in forgotten'
<1> DEFINE k == PacketHash(p)
           v == FromLeBytes(p.addr)
<1>1. /\ partial' = PutOrder(partial, k, v, CACHE_SIZE)
      /\ forgotten' = IF Evicts(partial, k, CACHE_SIZE)
                        THEN forgotten \cup {Victim(partial).key} ELSE forgotten
  BY Zenon DEF StorePartial
<1>2. Entry(k, v) \in Credits /\ CACHE_SIZE \in Nat \ {0}
  BY Zenon, TileAssumption DEF Credits
<1> HIDE DEF k, v
<1>3. /\ PutOrder(partial, k, v, CACHE_SIZE) \in Seq(Credits)
      /\ k \in KeysOf(PutOrder(partial, k, v, CACHE_SIZE))
      /\ \A h \in KeysOf(partial) :
           \/ h \in KeysOf(PutOrder(partial, k, v, CACHE_SIZE))
           \/ Evicts(partial, k, CACHE_SIZE) /\ h = Victim(partial).key
  BY Zenon, <1>2, PutKeeps
<1> QED
  BY Zenon, <1>1, <1>3 DEF k

\* A rejected packet goes nowhere; a duplicate refreshes the meta of its twin.
LEMMA RejectFlight ==
  ASSUME FlightInv, NEW p \in Packets, Reject(p), UNCHANGED <<sigQ, schQ>>
  PROVE  FlightInv'
<1>1. heap' = heap /\ out' = out
  BY Zenon DEF Reject
<1>2. CASE UNCHANGED <<partial, forgotten>>
  BY <1>1, <1>2, FlightUnchanged
<1>3. CASE StorePartial(p)
  <2>1. /\ partial' \in Seq(Credits) /\ forgotten \subseteq forgotten'
        /\ \A h \in KeysOf(partial) : h \in KeysOf(partial') \/ h \in forgotten'
    BY Zenon, <1>3, StorePartialKeeps DEF FlightInv
  <2>2. ASSUME NEW h \in Hashes \ forgotten'
        PROVE  Alone(h)' /\ (h \notin KeysOf(partial') => Absent(h)')
    <3>1. h \in Hashes \ forgotten /\ (h \in KeysOf(partial) => h \in KeysOf(partial'))
      BY <2>1
    <3>2. Alone(h) /\ (h \notin KeysOf(partial) => Absent(h))
      BY <3>1 DEF FlightInv
    <3>3. /\ Queued(h)' = Queued(h) /\ Sent(h)' = Sent(h)
          /\ Failed(h)' = Failed(h) /\ Reported(h)' = Reported(h)
      BY Zenon, <1>1 DEF Queued, Sent, Failed, Reported
    <3> QED
      BY Zenon, <3>1, <3>2, <3>3 DEF Alone, Absent
  <2> QED
    BY Zenon, <2>1, <2>2 DEF FlightInv
<1> QED
  BY Zenon, <1>2, <1>3 DEF Reject

\* What maybe_transmit sends it takes out of the heap that push left.
LEMMA AcceptMoves ==
  ASSUME NEW p, Accept(p)
  PROVE  \E t, h : /\ t.packet = p
                   /\ h \subseteq heap \cup {t}
                   /\ heap' \subseteq h /\ out' \subseteq out \cup (h \ heap')
<1> DEFINE Tx(s) == [id |-> <<life, stats["total_packets"] + 1>>, score |-> s,
                     sig |-> p.sig, packet |-> p]
<1>1. PICK s \in Scores : \E r \in Push(heap, Tx(s), HeapCapacity) :
        \E counted : Transmit(r.heap, counted)
  BY Zenon DEF Accept
<1>2. PICK r \in Push(heap, Tx(s), HeapCapacity) : \E counted : Transmit(r.heap, counted)
  BY Zenon, <1>1
<1>3. PICK counted : Transmit(r.heap, counted)
  BY Zenon, <1>2
<1> DEFINE t == Tx(s)
<1>4. t.packet = p
  BY Zenon
<1> HIDE DEF t
<1>5. r \in Push(heap, t, HeapCapacity)
  BY Zenon, <1>2 DEF t
<1> HIDE DEF Tx
<1>6. r.heap \subseteq heap \cup {t}
  BY <1>5 DEF Push
<1>7. heap' \subseteq r.heap /\ out' \subseteq out \cup (r.heap \ heap')
  <2>1. CASE heap' = r.heap /\ out' = out
    BY Zenon, <2>1
  <2>2. CASE \E batch \in Drains(r.heap, KeysOf(recents), MaxSend) :
               /\ heap' = r.heap \ batch
               /\ out' = out \cup Fresh(batch, KeysOf(recents))
    <3>1. PICK batch \in Drains(r.heap, KeysOf(recents), MaxSend) :
             /\ heap' = r.heap \ batch
             /\ out' = out \cup Fresh(batch, KeysOf(recents))
      BY Zenon, <2>2
    <3>2. batch \subseteq r.heap /\ Fresh(batch, KeysOf(recents)) \subseteq batch
      BY DEF Drains, Fresh
    <3> QED
      BY Zenon, <3>1, <3>2
  <2> QED
    BY <1>3, <2>1, <2>2, Zenon DEF Transmit
<1> QED
  BY Zenon, <1>4, <1>6, <1>7

\* An accepted packet was in none of the places, and is now in one of two.
LEMMA AcceptFlight ==
  ASSUME FlightInv, NEW p \in Packets, Accept(p), UNCHANGED <<sigQ, schQ>>
  PROVE  FlightInv'
<1> DEFINE k == PacketHash(p)
<1>1. /\ partial' \in Seq(Credits) /\ k \in KeysOf(partial') /\ forgotten \subseteq forgotten'
      /\ \A h \in KeysOf(partial) : h \in KeysOf(partial') \/ h \in forgotten'
  BY Zenon, StorePartialKeeps DEF FlightInv, Accept
<1>2. k \notin KeysOf(partial)
  BY Zenon, VerdictGood DEF Accept, Duplicate
<1>3. PICK t, left : /\ t.packet = p
                     /\ left \subseteq heap \cup {t}
                     /\ heap' \subseteq left /\ out' \subseteq out \cup (left \ heap')
  BY AcceptMoves
<1> HIDE DEF k
<1>4. ASSUME NEW h \in Hashes \ forgotten'
      PROVE  Alone(h)' /\ (h \notin KeysOf(partial') => Absent(h)')
  <2>1. h \in Hashes \ forgotten /\ (h \in KeysOf(partial) => h \in KeysOf(partial'))
    BY <1>1
  <2>2. Alone(h) /\ (h \notin KeysOf(partial) => Absent(h))
    BY <2>1 DEF FlightInv
  <2>3. Failed(h)' = Failed(h) /\ Reported(h)' = Reported(h)
    BY Zenon DEF Failed, Reported
  <2>4. CASE h = k
    <3>1. Absent(h)
      BY <1>2, <2>2, <2>4
    <3>2. Queued(h)' \subseteq {t} \cap heap' /\ Sent(h)' \subseteq {t} \ heap'
      BY Zenon, <1>3, <3>1 DEF Absent, Queued, Sent
    <3> QED
      BY <1>1, <2>3, <2>4, <3>1, <3>2 DEF Alone, Absent, Single
  <2>5. CASE h # k
    <3>1. PacketHash(t.packet) # h
      BY <1>3, <2>5 DEF k
    <3>2. /\ Queued(h)' \subseteq Queued(h) \cap heap'
          /\ Sent(h)' \subseteq Sent(h) \cup (Queued(h) \ heap')
      BY Zenon, <1>3, <3>1 DEF Queued, Sent
    <3>3. Alone(h)'
      BY Zenon, <2>2, <2>3, <3>2 DEF Alone, Single
    <3>4. Absent(h) => Absent(h)'
      BY Zenon, <2>3, <3>2 DEF Absent
    <3> QED
      BY <2>1, <2>2, <3>3, <3>4
  <2> QED
    BY <2>4, <2>5
<1> QED
  BY Zenon, <1>1, <1>4 DEF FlightInv

\* A consumer takes the oldest entry of a channel: every place it leaves is that
\* of the entry after it.
LEMMA TailPlaces ==
  ASSUME NEW S, NEW q \in Seq(S), q # <<>>
  PROVE  /\ DOMAIN Tail(q) = 1..(Len(q) - 1) /\ 1 \in DOMAIN q
         /\ \A i \in DOMAIN Tail(q) : i + 1 \in DOMAIN q /\ Tail(q)[i] = q[i + 1]
OBVIOUS

\* A report takes the partial meta of the only copy with it.
LEMMA ConsumeMetaFlight ==
  ASSUME TileInv, FlightInv, ConsumeMeta
  PROVE  FlightInv'
<1>1. UNCHANGED <<heap, out, sigQ, forgotten>>
  BY Zenon DEF ConsumeMeta
<1>2. CASE UNCHANGED <<schQ, partial>>
  BY <1>1, <1>2, FlightUnchanged
<1>3. CASE schQ # <<>> /\ schQ' = Tail(schQ)
           /\ \/ partial' = Without(partial, Head(schQ))
              \/ Head(schQ) \notin KeysOf(partial) /\ partial' = partial
  <2> DEFINE k == Head(schQ)
  <2>1. partial \in Seq(Credits) /\ schQ \in Seq(Hashes)
    BY Zenon DEF FlightInv, TileInv, ChannelType, Hashes
  <2>2. partial' \in Seq(Credits)
        /\ \A h \in KeysOf(partial) : h # k => h \in KeysOf(partial')
    BY Zenon, <1>3, <2>1, WithoutKeeps
  <2>3. 1 \in DOMAIN schQ /\ schQ[1] = k
    BY <1>3, <2>1
  <2>4. \A i \in DOMAIN schQ' : i \in Nat \ {0} /\ i + 1 \in DOMAIN schQ /\ schQ'[i] = schQ[i + 1]
    BY <1>3, <2>1, TailPlaces
  <2> HIDE DEF k
  <2>5. ASSUME NEW h \in Hashes \ forgotten'
        PROVE  Alone(h)' /\ (h \notin KeysOf(partial') => Absent(h)')
    <3>1. Alone(h) /\ (h \notin KeysOf(partial) => Absent(h))
      BY <1>1 DEF FlightInv
    <3>2. Queued(h)' = Queued(h) /\ Sent(h)' = Sent(h) /\ Failed(h)' = Failed(h)
      BY Zenon, <1>1 DEF Queued, Sent, Failed
    <3>3. \A i \in Reported(h)' : i \in Nat \ {0} /\ i + 1 \in Reported(h)
      BY Zenon, <2>4 DEF Reported
    <3>4. Single(Reported(h)') /\ (Reported(h) = {} => Reported(h)' = {})
      <4>1. \A i, j \in Reported(h)' : i + 1 = j + 1
        BY Zenon, <3>1, <3>3 DEF Alone, Single
      <4> QED
        BY <3>3, <4>1 DEF Single
    <3>5. Alone(h)' /\ (Absent(h) => Absent(h)')
      BY Zenon, <3>1, <3>2, <3>4 DEF Alone, Absent
    <3>6. CASE h = k
      <4>1. 1 \in Reported(h)
        BY <2>3, <3>6 DEF Reported
      <4>2. Reported(h)' = {}
        <5>1. \A i \in Reported(h)' : i + 1 = 1
          BY Zenon, <3>1, <3>3, <4>1 DEF Alone, Single
        <5> QED
          BY <3>3, <5>1
      <4>3. Absent(h)'
        BY Zenon, <3>1, <3>2, <4>1, <4>2 DEF Alone, Absent
      <4> QED
        BY <3>5, <4>3
    <3>7. CASE h # k
      BY Zenon, <2>2, <3>1, <3>5, <3>7
    <3> QED
      BY Zenon, <3>6, <3>7
  <2> QED
    BY Zenon, <2>2, <2>5 DEF FlightInv
<1>4. \/ UNCHANGED <<schQ, partial>>
      \/ /\ schQ # <<>> /\ schQ' = Tail(schQ)
         /\ \/ partial' = Merge(partial, Head(schQ))
            \/ Head(schQ) \notin KeysOf(partial) /\ partial' = partial
  BY Zenon DEF ConsumeMeta
<1> QED
  BY Zenon, <1>2, <1>3, <1>4 DEF Merge

\* The reading of one answer keeps the invariant on flights.
LEMMA ConsumeSignalFlight ==
  ASSUME TileInv, FlightInv, ConsumeSignal
  PROVE  FlightInv'
<1>1. UNCHANGED <<heap, out, schQ, partial, forgotten>>
  BY Zenon DEF ConsumeSignal
<1>2. CASE UNCHANGED sigQ
  BY <1>1, <1>2, FlightUnchanged
<1>3. CASE sigQ # <<>> /\ sigQ' = Tail(sigQ)
  <2>1. sigQ \in Seq(Ipv4Packets)
    BY DEF TileInv, ChannelType
  <2>2. \A i \in DOMAIN sigQ' : i \in Nat /\ i + 1 \in DOMAIN sigQ /\ sigQ'[i] = sigQ[i + 1]
    BY <1>3, <2>1, TailPlaces
  <2>3. ASSUME NEW h \in Hashes \ forgotten
        PROVE  Alone(h)' /\ (h \notin KeysOf(partial) => Absent(h)')
    <3>1. Alone(h) /\ (h \notin KeysOf(partial) => Absent(h))
      BY DEF FlightInv
    <3>2. Queued(h)' = Queued(h) /\ Sent(h)' = Sent(h) /\ Reported(h)' = Reported(h)
      BY Zenon, <1>1 DEF Queued, Sent, Reported
    <3>3. \A i \in Failed(h)' : i \in Nat /\ i + 1 \in Failed(h)
      BY Zenon, <2>2 DEF Failed
    <3>4. Single(Failed(h)') /\ (Failed(h) = {} => Failed(h)' = {})
      <4>1. \A i, j \in Failed(h)' : i + 1 = j + 1
        BY Zenon, <3>1, <3>3 DEF Alone, Single
      <4> QED
        BY <3>3, <4>1 DEF Single
    <3> QED
      BY Zenon, <3>1, <3>2, <3>4 DEF Alone, Absent
  <2> QED
    BY Zenon, <1>1, <2>3 DEF FlightInv
<1> QED
  BY Zenon, <1>2, <1>3 DEF ConsumeSignal

\* After a producer's push every entry is an old one, or the new one at the end,
\* all moved down by as many places as entries were lost.
LEMMA ProducePlaces ==
  ASSUME NEW S, NEW q \in Seq(S), NEW x \in S
  PROVE  \E d \in {0, 1} : \A i \in DOMAIN Produce(q, x) :
           /\ i \in Nat
           /\ \/ i + d \in DOMAIN q /\ Produce(q, x)[i] = q[i + d]
              \/ i + d = Len(q) + 1 /\ Produce(q, x)[i] = x
<1> DEFINE full == Append(q, x)
<1>1. /\ full \in Seq(S) /\ full # <<>> /\ Len(full) = Len(q) + 1
      /\ \A i \in 1..Len(q) : full[i] = q[i]
      /\ full[Len(q) + 1] = x
  OBVIOUS
<1>2. DOMAIN q = 1..Len(q) /\ DOMAIN full = 1..(Len(q) + 1) /\ Len(q) \in Nat
  BY <1>1
<1> HIDE DEF full
<1>3. CASE Produce(q, x) = full
  <2>1. ASSUME NEW i \in DOMAIN full
        PROVE  /\ i \in Nat
               /\ \/ i + 0 \in DOMAIN q /\ full[i] = q[i + 0]
                  \/ i + 0 = Len(q) + 1 /\ full[i] = x
    BY <1>1, <1>2
  <2> QED
    BY Zenon, <1>3, <2>1
<1>4. CASE Produce(q, x) = Tail(full)
  <2>1. /\ DOMAIN Tail(full) = 1..Len(q)
        /\ \A i \in DOMAIN Tail(full) : Tail(full)[i] = full[i + 1]
    BY <1>1, <1>2, TailPlaces
  <2>2. ASSUME NEW i \in DOMAIN Tail(full)
        PROVE  /\ i \in Nat
               /\ \/ i + 1 \in DOMAIN q /\ Tail(full)[i] = q[i + 1]
                  \/ i + 1 = Len(q) + 1 /\ Tail(full)[i] = x
    BY <1>1, <1>2, <2>1
  <2> QED
    BY Zenon, <1>4, <2>2
<1> QED
  BY <1>3, <1>4, Zenon DEF Produce, full

\* The answer of sigverify replaces the packet it took.
LEMMA SigverifyFlight ==
  ASSUME TileInv, FlightInv, Sigverify
  PROVE  FlightInv'
<1>1. UNCHANGED <<heap, partial, forgotten>>
  BY Zenon DEF Sigverify, tileVars
<1>2. PICK t \in out :
        /\ out' = out \ {t}
        /\ \/ sigQ' = Produce(sigQ, t.packet) /\ schQ' = schQ
           \/ schQ' = Produce(schQ, PacketHash(t.packet)) /\ sigQ' = sigQ
  BY Zenon DEF Sigverify
<1> DEFINE k == PacketHash(t.packet)
<1>3. /\ sigQ \in Seq(Ipv4Packets) /\ schQ \in Seq(Hashes)
      /\ t.packet \in Ipv4Packets /\ k \in Hashes
  BY DEF TileInv, ChannelType, Ipv4Packets, Hashes
<1>4. ASSUME NEW h \in Hashes \ forgotten
      PROVE  Alone(h)' /\ (h \notin KeysOf(partial) => Absent(h)')
  <2>1. Alone(h) /\ (h \notin KeysOf(partial) => Absent(h))
    BY DEF FlightInv
  <2>2. Queued(h)' = Queued(h) /\ Sent(h)' = Sent(h) \ {t} /\ (h = k <=> t \in Sent(h))
    BY Zenon, <1>1, <1>2 DEF Queued, Sent
  <2>3. CASE sigQ' = Produce(sigQ, t.packet) /\ schQ' = schQ
    <3>1. PICK d \in {0, 1} : \A i \in DOMAIN sigQ' :
            /\ i \in Nat
            /\ \/ i + d \in DOMAIN sigQ /\ sigQ'[i] = sigQ[i + d]
               \/ i + d = Len(sigQ) + 1 /\ sigQ'[i] = t.packet
      BY <1>3, <2>3, ProducePlaces
    <3>2. Reported(h)' = Reported(h)
      BY <2>3 DEF Reported
    <3>3. \A i \in Failed(h)' : i \in Nat
            /\ (i + d \in Failed(h) \/ (h = k /\ i + d = Len(sigQ) + 1))
      BY Zenon, <3>1 DEF Failed
    <3>4. CASE h = k
      <4>1. Queued(h) = {} /\ Sent(h)' = {} /\ Failed(h) = {} /\ Reported(h) = {}
            /\ h \in KeysOf(partial)
        BY Zenon, <2>1, <2>2, <3>4 DEF Alone, Absent, Single
      <4>2. Single(Failed(h)')
        <5>1. \A i \in Failed(h)' : i \in Nat /\ i + d = Len(sigQ) + 1
          BY Zenon, <3>3, <4>1
        <5> QED
          BY <5>1 DEF Single
      <4> QED
        BY Zenon, <2>2, <3>2, <4>1, <4>2 DEF Alone, Single
    <3>5. CASE h # k
      <4>1. \A i \in Failed(h)' : i \in Nat /\ i + d \in Failed(h)
        BY Zenon, <3>3, <3>5
      <4>2. Single(Failed(h)') /\ (Failed(h) = {} => Failed(h)' = {})
        <5>1. \A i, j \in Failed(h)' : i + d = j + d
          BY Zenon, <2>1, <4>1 DEF Alone, Single
        <5> QED
          BY <3>1, <4>1, <5>1 DEF Single
      <4>3. Sent(h)' = Sent(h)
        BY Zenon, <2>2, <3>5
      <4> QED
        BY Zenon, <2>1, <2>2, <3>2, <4>2, <4>3 DEF Alone, Absent
    <3> QED
      BY <3>4, <3>5
  <2>4. CASE schQ' = Produce(schQ, k) /\ sigQ' = sigQ
    <3>1. PICK d \in {0, 1} : \A i \in DOMAIN schQ' :
            /\ i \in Nat
            /\ \/ i + d \in DOMAIN schQ /\ schQ'[i] = schQ[i + d]
               \/ i + d = Len(schQ) + 1 /\ schQ'[i] = k
      BY <1>3, <2>4, ProducePlaces
    <3>2. Failed(h)' = Failed(h)
      BY Zenon, <2>4 DEF Failed
    <3>3. \A i \in Reported(h)' : i \in Nat
            /\ (i + d \in Reported(h) \/ (h = k /\ i + d = Len(schQ) + 1))
      BY Zenon, <3>1 DEF Reported
    <3>4. CASE h = k
      <4>1. Queued(h) = {} /\ Sent(h)' = {} /\ Failed(h) = {} /\ Reported(h) = {}
            /\ h \in KeysOf(partial)
        BY <2>1, <2>2, <3>4 DEF Alone, Absent, Single
      <4>2. Single(Reported(h)')
        <5>1. \A i \in Reported(h)' : i \in Nat /\ i + d = Len(schQ) + 1
          BY Zenon, <3>3, <4>1
        <5> QED
          BY <5>1 DEF Single
      <4> QED
        BY Zenon, <2>2, <3>2, <4>1, <4>2 DEF Alone, Single
    <3>5. CASE h # k
      <4>1. \A i \in Reported(h)' : i \in Nat /\ i + d \in Reported(h)
        BY <3>3, <3>5
      <4>2. Single(Reported(h)') /\ (Reported(h) = {} => Reported(h)' = {})
        <5>1. \A i, j \in Reported(h)' : i + d = j + d
          BY Zenon, <2>1, <4>1 DEF Alone, Single
        <5> QED
          BY <3>1, <4>1, <5>1 DEF Single
      <4>3. Sent(h)' = Sent(h)
        BY <2>2, <3>5
      <4> QED
        BY Zenon, <2>1, <2>2, <3>2, <4>2, <4>3 DEF Alone, Absent
    <3> QED
      BY <3>4, <3>5
  <2> QED
    BY Zenon, <1>2, <2>3, <2>4
<1> QED
  BY Zenon, <1>1, <1>4 DEF FlightInv

\* A new process counts all that is underway as forgotten.
LEMMA RestartFlight ==
  ASSUME Restart
  PROVE  FlightInv'
<1>1. /\ heap' = {} /\ partial' = <<>> /\ forgotten' = Stale
      /\ UNCHANGED <<out, sigQ, schQ>>
  BY DEF Restart
<1>2. ASSUME NEW h, h \notin Stale PROVE Absent(h)'
  BY Zenon, <1>1, <1>2 DEF Stale, Absent, Queued, Sent, Failed, Reported
<1>3. \A h : Absent(h)' => Alone(h)'
  BY Zenon DEF Absent, Alone, Single
<1> QED
  BY <1>1, <1>2, <1>3 DEF FlightInv

\* Nothing is in flight at first.
LEMMA FlightInit == Init => FlightInv
<1> SUFFICES ASSUME Init PROVE FlightInv
  OBVIOUS
<1>1. heap = {} /\ out = {} /\ sigQ = <<>> /\ schQ = <<>> /\ partial = <<>>
  BY DEF Init
<1>2. \A h : Absent(h)
  BY <1>1 DEF Absent, Queued, Sent, Failed, Reported
<1> QED
  BY <1>1, <1>2 DEF FlightInv, Absent, Alone, Single

\* Every step keeps the invariant on flights.
LEMMA FlightStep == TileInv /\ FlightInv /\ [Next]_vars => FlightInv'
<1> SUFFICES ASSUME TileInv, FlightInv, [Next]_vars PROVE FlightInv'
  OBVIOUS
<1>1. CASE ConsumePacket
  <2> DEFINE p == Head(inbound[port])
  <2>1. inbound[port] \in Seq(Packets) /\ inbound[port] # <<>>
    BY Zenon, <1>1 DEF TileInv, ChannelType, ConsumePacket
  <2>2. p \in Packets
    BY <2>1
  <2>3. (Reject(p) \/ Accept(p)) /\ UNCHANGED <<sigQ, schQ>>
    BY Zenon, <1>1 DEF ConsumePacket
  <2> HIDE DEF p
  <2> QED
    BY <2>2, <2>3, RejectFlight, AcceptFlight
<1>2. CASE NextPort
  BY Zenon, <1>2, FlightUnchanged DEF NextPort
<1>3. CASE ConsumeRecent
  BY Zenon, <1>3, FlightUnchanged DEF ConsumeRecent
<1>4. CASE ConsumeMeta
  BY <1>4, ConsumeMetaFlight
<1>5. CASE ConsumeSignal
  BY <1>5, ConsumeSignalFlight
<1>6. CASE Sigverify
  BY <1>6, SigverifyFlight
<1>7. CASE Arrive \/ Elapse \/ RaiseExit \/ UNCHANGED vars
  <2>1. UNCHANGED <<heap, out, sigQ, schQ, partial, forgotten>>
    BY Zenon, <1>7 DEF Arrive, Elapse, RaiseExit, vars, tileVars
  <2> QED
    BY <2>1, FlightUnchanged
<1>8. CASE Restart
  BY <1>8, RestartFlight
<1> QED
  BY <1>1, <1>2, <1>3, <1>4, <1>5, <1>6, <1>7, <1>8 DEF Next, Tile

-----------------------------------------------------------------------------
(* Theorems                                                                *)

\* consume_transaction_packets, maybe_transmit and consume_remaining_metas count
\* every packet exactly once, and complete no more than was transmitted.
THEOREM EveryPacketIsAccounted == Spec => []PacketsAccounted
<1>1. TileInv => PacketsAccounted
  <2> SUFFICES ASSUME TileInv PROVE PacketsAccounted
    OBVIOUS
  <2>1. stats["total_packets"] = Gone(stats) + Cardinality(heap)
    BY DEF TileInv, Accounted
  <2>2. stats["completed"] <= stats["banking_transmissions"] + carried
    BY TileNumbers DEF TileInv, ReportsCovered
  <2> QED
    BY Zenon, <2>1, <2>2 DEF PacketsAccounted, Gone
<1> QED
  BY <1>1, TileInit, TileStep, PTL DEF Spec

\* The unreachable! of process_failed_sigverify is: nothing but IPv4 packets is
\* ever transmitted, so that nothing else is reported back, across restarts.
THEOREM FailuresStayIpv4 == Spec => []FailuresAreIpv4
<1>1. TileInv => FailuresAreIpv4
  <2> SUFFICES ASSUME TileInv, NEW i \in DOMAIN sigQ PROVE ~NotIpv4(sigQ[i])
    BY Zenon DEF FailuresAreIpv4, NotIpv4
  <2>1. sigQ \in Seq(Ipv4Packets)
    BY Zenon DEF TileInv, ChannelType
  <2>2. sigQ[i] \in Ipv4Packets
    BY <2>1
  <2> QED
    BY Zenon, <2>2 DEF Ipv4Packets
<1> QED
  BY <1>1, TileInit, TileStep, PTL DEF Spec

\* maybe_transmit sends no transaction whose signature is in the cache of
\* confirmed ones.
THEOREM ConfirmedStayUnsent == Spec => ConfirmedNeverSent
<1> DEFINE Kept == \A t \in out' \ out : t.sig \notin KeysOf(recents)
<1>1. [Next]_vars => [Kept]_vars
  <2> SUFFICES ASSUME Next PROVE Kept
    OBVIOUS
  <2>1. CASE ConsumePacket
    <3>1. PICK p : Reject(p) \/ Accept(p)
      BY Zenon, <2>1 DEF ConsumePacket
    <3>2. CASE Reject(p)
      BY Zenon, <3>2 DEF Reject
    <3>3. CASE Accept(p)
      <4>1. PICK h, counted : Transmit(h, counted)
        BY Zenon, <3>3 DEF Accept
      <4>2. out' = out \/ \E b : out' = out \cup Fresh(b, KeysOf(recents))
        BY <4>1, Zenon DEF Transmit
      <4> QED
        BY <4>2 DEF Fresh
    <3> QED
      BY <3>1, <3>2, <3>3
  <2>2. CASE Sigverify
    BY Zenon, <2>2 DEF Sigverify
  <2>3. ASSUME out' = out PROVE Kept
    BY <2>3
  <2>4. CASE NextPort
    BY Zenon, <2>3, <2>4 DEF NextPort
  <2>5. CASE ConsumeRecent
    BY Zenon, <2>3, <2>5 DEF ConsumeRecent
  <2>6. CASE ConsumeMeta
    <3>1. out' = out
      BY Zenon, <2>6 DEF ConsumeMeta
    <3> QED
      BY <2>3, <3>1
  <2>7. CASE ConsumeSignal
    <3>1. out' = out
      BY Zenon, <2>7 DEF ConsumeSignal
    <3> QED
      BY <2>3, <3>1
  <2>8. CASE Arrive \/ Elapse \/ RaiseExit \/ Restart
    <3>1. out' = out
      BY Zenon, <2>8 DEF Arrive, Elapse, RaiseExit, Restart
    <3> QED
      BY <2>3, <3>1
  <2> QED
    BY Zenon, <2>1, <2>2, <2>4, <2>5, <2>6, <2>7, <2>8 DEF Next, Tile
<1> QED
  BY <1>1, PTL DEF Spec, ConfirmedNeverSent

\* The duplicate check of try_process_packet is enough, although the cache behind
\* it is bounded and emptied by reports: as long as the hash of a packet was not
\* evicted, nor underway when the process ended, there is one copy of the packet
\* at most in the heap, in sigverify and in the channels back.
THEOREM OneCopyInFlight == Spec => []AtMostOneInFlight
<1>1. FlightInv => AtMostOneInFlight
  <2> SUFFICES ASSUME FlightInv, NEW p \in Packets, PacketHash(p) \notin forgotten
               PROVE  InFlight(PacketHash(p)) <= 1
    BY DEF AtMostOneInFlight
  <2> DEFINE h == PacketHash(p)
             A == {t \in heap \cup out : PacketHash(t.packet) = h}
             B == {i \in DOMAIN sigQ : PacketHash(sigQ[i]) = h}
             C == {i \in DOMAIN schQ : schQ[i] = h}
  <2>1. Alone(h)
    BY Zenon DEF FlightInv, Hashes
  <2>2. InFlight(h) = Cardinality(A) + Cardinality(B) + Cardinality(C)
    BY Zenon DEF InFlight, Count
  <2>3. A = Queued(h) \cup Sent(h) /\ B = Failed(h) /\ C = Reported(h)
    BY Zenon DEF Queued, Sent, Failed, Reported
  <2> HIDE DEF A, B, C, h
  <2>4. /\ Single(A) /\ Single(B) /\ Single(C)
        /\ A = {} \/ B = {}
        /\ A = {} \/ C = {}
        /\ B = {} \/ C = {}
    BY Zenon, <2>1, <2>3 DEF Alone, Single
  <2>5. ASSUME NEW S, Single(S) PROVE Cardinality(S) = IF S = {} THEN 0 ELSE 1
    <3>1. CASE S = {}
      BY <3>1, FS_EmptySet
    <3>2. CASE S # {}
      <4>1. PICK x \in S : TRUE
        BY <3>2
      <4>2. S = {x}
        BY <2>5, <4>1 DEF Single
      <4> QED
        BY <4>2, FS_Singleton, Zenon
    <3> QED
      BY <3>1, <3>2
  <2>6. /\ Cardinality(A) = IF A = {} THEN 0 ELSE 1
        /\ Cardinality(B) = IF B = {} THEN 0 ELSE 1
        /\ Cardinality(C) = IF C = {} THEN 0 ELSE 1
    BY Zenon, <2>4, <2>5
  <2>7. InFlight(h) <= 1
    BY <2>2, <2>4, <2>6
  <2> QED
    BY <2>7 DEF h
<1> QED
  BY <1>1, TileInit, TileStep, FlightInit, FlightStep, PTL DEF Spec

\* Whoever sent the same transaction, a report finds the address of the packet it
\* is about: the address is part of the hash that the partial meta is stored by.
THEOREM CreditGoesToSender == Spec => []ReportsCreditSender
<1>1. FlightInv => ReportsCreditSender
  <2> SUFFICES ASSUME FlightInv, NEW t \in heap \cup out, NEW i \in DOMAIN partial,
                      partial[i].key = PacketHash(t.packet)
               PROVE  partial[i].value = FromLeBytes(t.packet.addr)
    BY Zenon DEF ReportsCreditSender
  <2>1. partial[i] \in Credits
    BY DEF FlightInv
  <2>2. PICK p \in Packets : partial[i] = Entry(PacketHash(p), FromLeBytes(p.addr))
    BY Zenon, <2>1 DEF Credits
  <2>3. partial[i].key = PacketHash(p) /\ partial[i].value = FromLeBytes(p.addr)
    <3> DEFINE e == Entry(PacketHash(p), FromLeBytes(p.addr))
    <3>1. e.key = PacketHash(p) /\ e.value = FromLeBytes(p.addr)
      BY Zenon DEF Entry
    <3> HIDE DEF e
    <3>2. partial[i] = e
      BY Zenon, <2>2 DEF e
    <3> QED
      BY <3>1, <3>2
  <2>4. p.addr = t.packet.addr
    <3>1. PacketHash(p) = PacketHash(t.packet)
      BY Zenon, <2>3
    <3> QED
      BY <3>1 DEF PacketHash, MetaBytes
  <2> QED
    BY Zenon, <2>3, <2>4
<1> QED
  BY <1>1, TileInit, TileStep, FlightInit, FlightStep, PTL DEF Spec
=============================================================================
