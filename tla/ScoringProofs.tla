---------------------------- MODULE ScoringProofs ---------------------------
(***************************************************************************)
(* What a transaction is worth: for every transaction, price and machine   *)
(* width, the fee it is ranked by, and for every batch, capacity and       *)
(* limit, the score tables that weigh it.                                  *)
(***************************************************************************)
EXTENDS Generator, IpSignerStakeModel, FiniteSetTheorems, TLAPS

-----------------------------------------------------------------------------
(* The fee                                                                 *)

Leading == Smaller(FirstIxs, Len(ixs))

\* What is found with this tag among the first n instructions of q.
FoundIn(q, n, option, tag) ==
  \/ /\ option = None
     /\ \A i \in 1..n : q[i].tag # tag
  \/ \E i \in 1..n :
       /\ q[i].tag = tag /\ option = q[i].val
       /\ \A j \in 1..(i - 1) : q[j].tag # tag

Found(option, tag) == FoundIn(ixs, next - 1, option, tag)

FeeInv ==
  /\ Len(ixs) \in Nat /\ \A i \in 1..Len(ixs) : ixs[i].val \in Nat
  /\ signatures \in 1..MaxSignatures
  /\ next \in 1..(Leading + 1)
  /\ Found(requested_cus, "limit") /\ Found(cu_price, "price")
  /\ total_fee # None =>
       /\ ~Looking
       /\ total_fee = (SIGNATURE_COST * signatures
                         + PriorityFee(UnwrapOr(requested_cus, DEFAULT_CUS),
                                       UnwrapOr(cu_price, 0))) % U64

\* The generator's packet, and what the sidecar reads from it.
Fields == {"signature", "blockhash", "price", "last"}

Buffers == [Fields -> Nat]

Packets ==
  [buffer : Buffers, size : {0, TX_LEN}, addr : {None} \cup GoodIps \cup BadIps]

GenInv ==
  /\ packet \in Packets
  /\ outcome \in {"foreign", "none", "malformed", "failed", "passed"}
  /\ outcome = "foreign" => packet.addr = None
  /\ outcome \in {"none", "failed", "passed"} /\ packet.addr # None =>
       /\ packet.buffer.price = sampled
       /\ ixs = <<[tag |-> "price", val |-> sampled], [tag |-> "other", val |-> 0]>>
  /\ packet.addr \in GoodIps =>
       /\ packet.size = TX_LEN /\ packet.buffer.last = 0
       /\ outcome \notin {"malformed", "failed"}

\* A function on 1..n is a sequence.
LEMMA TupleLength ==
  ASSUME NEW S, NEW n \in Nat, NEW u \in [1..n -> S]
  PROVE  u \in Seq(S) /\ Len(u) = n
  OBVIOUS

\* The loop of total_fee starts in its invariant.
LEMMA FeeInitial == FeeInit => FeeInv
<1> SUFFICES ASSUME FeeInit PROVE FeeInv
  OBVIOUS
<1>1. PICK n \in 0..MaxLen : ixs \in [1..n -> Instructions]
  BY DEF FeeInit, Transactions
<1>2. n \in Nat /\ Len(ixs) = n
  BY <1>1, TupleLength, FeeAssumption
<1>3. \A i \in 1..Len(ixs) : ixs[i].val \in Nat
  BY <1>1, <1>2, FeeAssumption
<1>4. Leading \in Nat
  BY <1>2, FeeAssumption DEF Leading, Smaller
<1>5. signatures \in 1..MaxSignatures /\ next = 1 /\ requested_cus = None /\ cu_price = None /\ total_fee = None
  BY FeeAssumption DEF FeeInit
<1>6. next \in 1..(Leading + 1) /\ 1..(next - 1) = {}
  BY <1>4, <1>5
<1> QED
  BY <1>2, <1>3, <1>5, <1>6 DEF FeeInv, Found, FoundIn

\* The loop's step keeps what it has found.
LEMMA FoundStep ==
  ASSUME NEW k \in Nat \ {0}, NEW o, NEW tag, NEW q,
         \A i \in 1..k : q[i].val \in Nat,
         FoundIn(q, k - 1, o, tag)
  PROVE  FoundIn(q, k, IF q[k].tag = tag THEN TakeFirst(o, q[k].val) ELSE o, tag)
<1> DEFINE n == IF q[k].tag = tag THEN TakeFirst(o, q[k].val) ELSE o
<1>1. /\ k \in 1..k
      /\ \A i \in 1..k : i = k \/ i \in 1..(k - 1)
      /\ \A i \in 1..(k - 1) : i \in 1..k
  OBVIOUS
<1>2. CASE \E i \in 1..(k - 1) :
             /\ q[i].tag = tag /\ o = q[i].val
             /\ \A j \in 1..(i - 1) : q[j].tag # tag
  <2>1. PICK i \in 1..(k - 1) : /\ q[i].tag = tag /\ o = q[i].val
                                /\ \A j \in 1..(i - 1) : q[j].tag # tag
    BY <1>2
  <2>2. o # None
    BY <1>1, <2>1, FeeAssumption
  <2>3. n = o
    BY <2>2 DEF TakeFirst
  <2> QED
    BY <1>1, <2>1, <2>3 DEF FoundIn
<1>3. CASE o = None /\ \A i \in 1..(k - 1) : q[i].tag # tag
  <2>1. CASE q[k].tag = tag
    BY <1>1, <1>3, <2>1 DEF TakeFirst, FoundIn
  <2>2. CASE q[k].tag # tag
    BY <1>1, <1>3, <2>2 DEF FoundIn
  <2> QED
    BY <2>1, <2>2
<1> QED
  BY <1>2, <1>3 DEF FoundIn

\* Every iteration keeps the invariant of the loop.
LEMMA FeeStep == FeeInv /\ (Scan \/ Finish) => FeeInv'
<1> SUFFICES ASSUME FeeInv, Scan \/ Finish PROVE FeeInv'
  OBVIOUS
<1>1. /\ Len(ixs) \in Nat /\ Leading \in Nat /\ Leading <= Len(ixs)
      /\ next \in 1..(Leading + 1) /\ next \in Nat \ {0}
  BY FeeAssumption DEF FeeInv, Leading, Smaller
<1>2. CASE Scan
  <2>1. /\ total_fee = None /\ total_fee' = None /\ ixs' = ixs /\ signatures' = signatures
        /\ next <= Leading /\ next' = next + 1
    BY <1>2 DEF Scan, Looking, Leading
  <2>2. Leading' = Leading /\ next' \in 1..(Leading + 1) /\ \A i \in 1..next : i \in 1..Len(ixs)
    BY <1>1, <2>1 DEF Leading
  <2>3. \A i \in 1..next : ixs[i].val \in Nat
    BY <2>2 DEF FeeInv
  <2>0. next' - 1 = next
    BY <1>1, <2>1
  <2>4. Found(requested_cus, "limit")'
    <3>1. requested_cus' = IF ixs[next].tag = "limit"
                             THEN TakeFirst(requested_cus, ixs[next].val) ELSE requested_cus
      BY <1>2 DEF Scan
    <3>2. Found(requested_cus, "limit")
      BY DEF FeeInv
    <3> QED
      BY <1>1, <2>0, <2>1, <2>3, <3>1, <3>2, FoundStep DEF Found
  <2>5. Found(cu_price, "price")'
    <3>1. cu_price' = IF ixs[next].tag = "price"
                        THEN TakeFirst(cu_price, ixs[next].val) ELSE cu_price
      BY <1>2 DEF Scan
    <3>2. Found(cu_price, "price")
      BY DEF FeeInv
    <3> QED
      BY <1>1, <2>0, <2>1, <2>3, <3>1, <3>2, FoundStep DEF Found
  <2> QED
    BY <2>1, <2>2, <2>4, <2>5 DEF FeeInv
<1>3. CASE Finish
  <2>1. /\ ~Looking /\ UNCHANGED <<ixs, signatures, next, requested_cus, cu_price>>
        /\ total_fee' = (SIGNATURE_COST * signatures
                          + PriorityFee(UnwrapOr(requested_cus, DEFAULT_CUS),
                                        UnwrapOr(cu_price, 0))) % U64
    BY <1>3 DEF Finish
  <2>2. ~Looking' /\ Leading' = Leading
    BY <2>1 DEF Looking, Leading
  <2>3. Found(requested_cus, "limit")' /\ Found(cu_price, "price")'
    BY <2>1 DEF Found, FeeInv
  <2> QED
    BY <2>1, <2>2, <2>3 DEF FeeInv
<1> QED
  BY <1>2, <1>3

\* When the loop is over, it has found the first instruction with the tag.
LEMMA FoundFirst ==
  ASSUME FeeInv, ~Looking, NEW o, NEW tag, NEW default \in Nat, Found(o, tag)
  PROVE  UnwrapOr(o, default) = FirstWith(tag, default) /\ UnwrapOr(o, default) \in Nat
<1> DEFINE hits == {i \in 1..Leading : ixs[i].tag = tag}
<1>1. /\ Leading \in Nat /\ Leading <= Len(ixs) /\ Len(ixs) \in Nat /\ next - 1 = Leading
  BY FeeAssumption DEF FeeInv, Leading, Smaller, Looking
<1>2. FirstWith(tag, default) =
        IF hits = {} THEN default ELSE ixs[CHOOSE i \in hits : \A j \in hits : i <= j].val
  BY DEF FirstWith, Leading
<1>3. CASE o = None /\ \A i \in 1..(next - 1) : ixs[i].tag # tag
  <2>1. hits = {}
    BY <1>1, <1>3
  <2> QED
    BY <1>2, <1>3, <2>1 DEF UnwrapOr
<1>4. CASE \E i \in 1..(next - 1) : /\ ixs[i].tag = tag /\ o = ixs[i].val
                                    /\ \A j \in 1..(i - 1) : ixs[j].tag # tag
  <2>1. PICK i \in 1..Leading : /\ ixs[i].tag = tag /\ o = ixs[i].val
                                /\ \A j \in 1..(i - 1) : ixs[j].tag # tag
    BY <1>1, <1>4
  <2>2. i \in hits /\ \A j \in hits : i <= j
    <3>1. ASSUME NEW j \in hits PROVE i <= j
      <4>1. j \in 1..Leading /\ ~(j \in 1..(i - 1))
        BY <2>1, <3>1
      <4> QED
        BY <1>1, <4>1
    <3> QED
      BY <2>1, <3>1
  <2>3. \A k \in hits : (\A j \in hits : k <= j) => k = i
    <3>1. \A k \in hits : k \in Nat
      BY <1>1
    <3> HIDE DEF hits
    <3> QED
      BY <2>2, <3>1
  <2> HIDE DEF hits
  <2>4. (CHOOSE k \in hits : \A j \in hits : k <= j) = i
    BY Zenon, <2>2, <2>3
  <2>5. o = ixs[i].val /\ ixs[i].val \in Nat /\ o # None
    BY <1>1, <2>1, FeeAssumption DEF FeeInv
  <2> QED
    BY Zenon, <1>2, <2>2, <2>4, <2>5 DEF UnwrapOr
<1> QED
  BY <1>3, <1>4 DEF Found, FoundIn

\* A sum of two numbers of the machine's width wraps around at most once.
LEMMA WrapsOnce ==
  ASSUME NEW w \in Nat \ {0}, NEW a \in 0..(w - 1), NEW b \in 0..(w - 1), a + b >= w
  PROVE  (a + b) % w < a
<1> DEFINE q == (a + b) \div w
           r == (a + b) % w
<1>1. q \in Nat /\ r \in 0..(w - 1) /\ a + b = w * q + r
  OBVIOUS
<1> HIDE DEF q, r
<1>2. q >= 1
  BY <1>1
<1>3. w * q >= w
  BY <1>1, <1>2
<1>4. w * q \in Nat
  BY <1>1
<1>5. r <= a + b - w
  BY <1>1, <1>3, <1>4
<1> QED
  BY <1>1, <1>5 DEF r

\* The signatures alone cost something, and less than the machine's width.
LEMMA SignaturesCost ==
  ASSUME NEW n \in 1..MaxSignatures
  PROVE  SIGNATURE_COST * n \in 1..(U64 - 1)
<1>1. /\ n \in Nat /\ n >= 1 /\ n <= MaxSignatures /\ MaxSignatures \in Nat
      /\ SIGNATURE_COST \in Nat /\ SIGNATURE_COST >= 1
      /\ U64 \in Nat /\ SIGNATURE_COST * MaxSignatures < U64
  BY FeeAssumption
<1>2. /\ SIGNATURE_COST * n \in Nat /\ SIGNATURE_COST * MaxSignatures \in Nat
      /\ SIGNATURE_COST * n <= SIGNATURE_COST * MaxSignatures
  BY <1>1
<1>3. SIGNATURE_COST * n >= SIGNATURE_COST
  BY <1>1
<1> QED
  BY <1>1, <1>2, <1>3

\* The invariant of the loop gives the exact fee if it fits, and less than the cost
\* of the signatures if it does not.
LEMMA FeeExact == FeeInv => FeeExactUnlessWrapped
<1> SUFFICES ASSUME FeeInv, total_fee # None
             PROVE  IF ExactFee < U64 THEN total_fee = ExactFee
                    ELSE total_fee < SIGNATURE_COST * signatures
  BY DEF FeeExactUnlessWrapped
<1> DEFINE cus == UnwrapOr(requested_cus, DEFAULT_CUS)
           price == UnwrapOr(cu_price, 0)
           base == SIGNATURE_COST * signatures
           prio == (cus * price) \div MICRO
<1>1. /\ cus = FirstWith("limit", DEFAULT_CUS) /\ cus \in Nat
      /\ price = FirstWith("price", 0) /\ price \in Nat
  BY FoundFirst, FeeAssumption DEF FeeInv
<1>2. ExactFee = base + prio
  BY <1>1 DEF ExactFee
<1>3. total_fee = (base + Smaller(prio, U64 - 1)) % U64
  BY DEF FeeInv, PriorityFee
<1>4. base \in 1..(U64 - 1)
  BY SignaturesCost DEF FeeInv
<1>5. prio \in Nat
  <2>1. cus * price \in Nat
    BY <1>1
  <2> HIDE DEF cus, price
  <2> QED
    BY <2>1, FeeAssumption
<1> HIDE DEF base, prio
<1>6. U64 \in Nat \ {0}
  BY FeeAssumption
<1>7. CASE ExactFee < U64
  <2>1. Smaller(prio, U64 - 1) = prio
    BY <1>2, <1>4, <1>5, <1>6, <1>7 DEF Smaller
  <2>2. (base + prio) % U64 = base + prio
    BY <1>2, <1>4, <1>5, <1>6, <1>7
  <2> QED
    BY <1>2, <1>3, <1>7, <2>1, <2>2
<1>8. CASE ~(ExactFee < U64)
  <2> DEFINE low == Smaller(prio, U64 - 1)
  <2>1. low \in 0..(U64 - 1) /\ base + low >= U64
    BY <1>2, <1>4, <1>5, <1>6, <1>8 DEF Smaller
  <2>2. base \in 0..(U64 - 1)
    BY <1>4, <1>6
  <2> HIDE DEF low
  <2>3. (base + low) % U64 < base
    BY <1>6, <2>1, <2>2, WrapsOnce
  <2> QED
    BY <1>3, <1>8, <2>3 DEF low, base
<1> QED
  BY <1>7, <1>8

-----------------------------------------------------------------------------
(* The generator                                                           *)

\* No write into the buffer touches the bytes of another field.
LEMMA NoOverlap == \A f, g \in Fields : f # g => ~Overlap(f, g)
<1>1. /\ Offsets["signature"] = <<1, 64>> /\ Offsets["blockhash"] = <<197, 32>>
      /\ Offsets["price"] = <<234, 8>> /\ Offsets["last"] = <<1231, 1>>
  BY DEF Offsets, PACKET_DATA_SIZE
<1>2. /\ ~Overlap("signature", "blockhash") /\ ~Overlap("blockhash", "signature")
      /\ ~Overlap("signature", "price") /\ ~Overlap("price", "signature")
      /\ ~Overlap("signature", "last") /\ ~Overlap("last", "signature")
  BY <1>1 DEF Overlap
<1>3. /\ ~Overlap("blockhash", "price") /\ ~Overlap("price", "blockhash")
      /\ ~Overlap("blockhash", "last") /\ ~Overlap("last", "blockhash")
      /\ ~Overlap("price", "last") /\ ~Overlap("last", "price")
  BY <1>1 DEF Overlap
<1> QED
  BY <1>2, <1>3 DEF Fields

\* A write changes its own field and no other.
LEMMA WriteAt ==
  ASSUME NEW b \in Buffers, NEW f \in Fields, NEW val \in Nat
  PROVE  /\ Write(b, f, val) \in Buffers
         /\ \A g \in Fields : Write(b, f, val)[g] = IF g = f THEN val ELSE b[g]
<1>1. ASSUME NEW g \in Fields PROVE Write(b, f, val)[g] = IF g = f THEN val ELSE b[g]
  BY NoOverlap DEF Write, Buffers
<1>2. Write(b, f, val) \in Buffers
  BY GeneratorAssumption DEF Write, Buffers
<1> QED
  BY <1>1, <1>2

\* What a turn of the loop makes of the packet.
LEMMA UpdatesGood ==
  ASSUME packet \in Packets, NEW ip \in GoodIps \cup BadIps, NEW price \in Prices,
         NEW q \in Updates(ip, price)
  PROVE  /\ q \in Packets /\ q.addr = ip /\ q.buffer["price"] = price
         /\ ip \in GoodIps => q.size = TX_LEN /\ q.buffer["last"] = 0
<1> DEFINE b == packet.buffer
           r == Refreshed(b, price)
           p == [packet EXCEPT !.buffer = r, !.addr = ip]
           zero == 0
           one == 1
<1>0. /\ "price" \in Fields /\ "blockhash" \in Fields /\ "signature" \in Fields
      /\ "last" \in Fields /\ price \in Nat /\ b \in Buffers
      /\ zero \in Nat /\ one \in Nat
      /\ "price" # "blockhash" /\ "price" # "signature" /\ "price" # "last"
  BY GeneratorAssumption DEF Fields, Packets
<1> HIDE DEF zero, one
<1>1. r \in Buffers /\ r["price"] = price
  <2> DEFINE x == Write(b, "price", price)
             y == Write(x, "blockhash", zero)
  <2>1. x \in Buffers /\ x["price"] = price
    BY <1>0, WriteAt
  <2> HIDE DEF x
  <2>2. y \in Buffers /\ y["price"] = price
    <3>1. y \in Buffers /\ \A g \in Fields : y[g] = IF g = "blockhash" THEN zero ELSE x[g]
      BY <1>0, <2>1, WriteAt
    <3> QED
      BY <1>0, <2>1, <3>1
  <2> HIDE DEF y
  <2>3. Write(y, "signature", zero) \in Buffers /\ Write(y, "signature", zero)["price"] = price
    <3>1. /\ Write(y, "signature", zero) \in Buffers
          /\ \A g \in Fields : Write(y, "signature", zero)[g] =
                               IF g = "signature" THEN zero ELSE y[g]
      BY <1>0, <2>2, WriteAt
    <3> QED
      BY <1>0, <2>2, <3>1
  <2>4. r = Write(y, "signature", zero)
    BY DEF Refreshed, UpdateComputeUnitPrice, UpdateBlockhash, UpdateSignatureInvalid, x, y, zero
  <2> HIDE DEF r
  <2> QED
    BY <2>3, <2>4
<1> HIDE DEF b, r
<1>2. p \in Packets /\ p.buffer = r /\ p.addr = ip
  BY Zenon, <1>1 DEF Packets, zero, one
<1>3. q \in IF ip \in BadIps THEN Unsound(p) ELSE Sound(p)
  BY DEF Updates, b, r
<1> HIDE DEF p
<1>4. /\ Write(r, "last", zero) \in Buffers
      /\ Write(r, "last", zero)["last"] = zero /\ Write(r, "last", zero)["price"] = price
  <2>1. /\ Write(r, "last", zero) \in Buffers
        /\ \A g \in Fields : Write(r, "last", zero)[g] = IF g = "last" THEN zero ELSE r[g]
    BY <1>0, <1>1, WriteAt
  <2> QED
    BY <1>0, <1>1, <2>1
<1>5. Write(r, "last", one) \in Buffers /\ Write(r, "last", one)["price"] = price
  <2>1. /\ Write(r, "last", one) \in Buffers
        /\ \A g \in Fields : Write(r, "last", one)[g] = IF g = "last" THEN one ELSE r[g]
    BY <1>0, <1>1, WriteAt
  <2> QED
    BY <1>0, <1>1, <2>1
<1>6. CASE ip \in BadIps
  <2>1. ip \notin GoodIps
    BY <1>6, GeneratorAssumption
  <2>2. CASE q = p
    BY <1>1, <1>2, <2>1, <2>2
  <2>3. CASE q = [p EXCEPT !.size = 0, !.buffer = Write(r, "last", zero)]
    BY Zenon, <1>2, <1>4, <2>1, <2>3 DEF Packets, zero, one
  <2>4. CASE q = [p EXCEPT !.size = TX_LEN, !.buffer = Write(r, "last", one)]
    BY Zenon, <1>2, <1>5, <2>1, <2>4 DEF Packets, zero, one
  <2> QED
    BY <1>2, <1>3, <1>6, <2>2, <2>3, <2>4 DEF Unsound, zero, one
<1>7. CASE ip \notin BadIps
  <2>1. q = [p EXCEPT !.size = TX_LEN, !.buffer = Write(r, "last", zero)]
    BY <1>2, <1>3, <1>7 DEF Sound, zero
  <2> QED
    BY Zenon, <1>2, <1>4, <2>1 DEF Packets, zero, one
<1> QED
  BY <1>6, <1>7

\* The generator starts in its invariant.
LEMMA GenInitial == GInit => FeeInv /\ GenInv
<1> SUFFICES ASSUME GInit PROVE FeeInv /\ GenInv
  OBVIOUS
<1>1. FeeInv
  BY FeeInitial DEF GInit
<1>2. packet = NullTransfer /\ outcome = "foreign"
  BY DEF GInit
<1>3. NullTransfer \in Packets
  BY DEF NullTransfer, Packets, Buffers, Fields
<1>4. NullTransfer.size = TX_LEN /\ NullTransfer.buffer.last = 0 /\ NullTransfer.addr = None
  BY DEF NullTransfer
<1> QED
  BY <1>1, <1>2, <1>3, <1>4 DEF GenInv

\* The transaction that the sidecar reads from a generated packet.
LEMMA GeneratedFee ==
  ASSUME NEW v \in Nat,
         ixs' = <<[tag |-> "price", val |-> v], [tag |-> "other", val |-> 0]>>,
         signatures' = 1, next' = 1, requested_cus' = None, cu_price' = None,
         total_fee' = None
  PROVE  FeeInv'
<1>1. Len(ixs') = 2 /\ ixs'[1].val = v /\ ixs'[2].val = 0
  OBVIOUS
<1>2. \A i \in 1..Len(ixs') : ixs'[i].val \in Nat
  BY <1>1
<1>3. Leading' \in Nat
  BY <1>1, FeeAssumption DEF Leading, Smaller
<1>4. next' \in 1..(Leading' + 1) /\ 1..(next' - 1) = {}
  <2>1. (\A n \in Nat : 1 \in 1..(n + 1)) /\ 1..(1 - 1) = {}
    OBVIOUS
  <2> QED
    BY <1>3, <2>1, Zenon
<1>5. Len(ixs') \in Nat /\ signatures' \in 1..MaxSignatures
  BY <1>1, FeeAssumption
<1> QED
  BY <1>2, <1>4, <1>5 DEF FeeInv, Found, FoundIn

\* Every step of an update keeps the invariants.
LEMMA GenStep == FeeInv /\ GenInv /\ [GNext]_gvars => FeeInv' /\ GenInv'
<1> SUFFICES ASSUME FeeInv, GenInv, [GNext]_gvars PROVE FeeInv' /\ GenInv'
  OBVIOUS
<1>1. ASSUME NEW ip \in GoodIps \cup BadIps, NEW price \in Prices, Generate(ip, price)
      PROVE  FeeInv' /\ GenInv'
  <2>1. packet \in Packets /\ packet' \in Updates(ip, price) /\ sampled' = price /\ price \in Nat
    BY <1>1, GeneratorAssumption DEF Generate, GenInv
  <2>2. /\ packet' \in Packets /\ packet'.addr = ip /\ packet'.buffer["price"] = price
        /\ ip \in GoodIps => packet'.size = TX_LEN /\ packet'.buffer["last"] = 0
    BY <2>1, UpdatesGood
  <2>3. CASE packet'.size = 0
    <3>1. UNCHANGED feeVars /\ outcome' = "malformed"
      BY <1>1, <2>3 DEF Generate
    <3>2. FeeInv'
      BY Zenon, <3>1 DEF feeVars, FeeInv, Found, FoundIn, Leading, Looking
    <3>3. ip \notin GoodIps
      BY <2>2, <2>3 DEF TX_LEN
    <3> QED
      BY <2>2, <3>1, <3>2, <3>3 DEF GenInv
  <2>4. CASE packet'.size # 0
    <3>1. /\ ixs' = <<[tag |-> "price", val |-> price], [tag |-> "other", val |-> 0]>>
          /\ signatures' = 1 /\ next' = 1 /\ outcome' = "none"
          /\ requested_cus' = None /\ cu_price' = None /\ total_fee' = None
      BY <1>1, <2>2, <2>4 DEF Generate
    <3>2. FeeInv'
      BY <2>1, <3>1, GeneratedFee
    <3> QED
      BY <2>1, <2>2, <3>1, <3>2 DEF GenInv
  <2> QED
    BY <2>3, <2>4
<1>2. CASE Fee
  <2>1. FeeInv' /\ UNCHANGED <<packet, sampled, outcome, ixs>>
    BY Zenon, <1>2, FeeStep DEF Fee, genVars, Scan, Finish
  <2> QED
    BY <2>1 DEF GenInv
<1>3. CASE MockSigverify \/ Dismiss \/ UNCHANGED gvars
  <2>1. UNCHANGED feeVars /\ UNCHANGED <<packet, sampled>>
    BY <1>3 DEF MockSigverify, Dismiss, gvars, genVars
  <2>2. FeeInv'
    BY Zenon, <2>1 DEF feeVars, FeeInv, Found, FoundIn, Leading, Looking
  <2>3. CASE MockSigverify
    <3>1. /\ outcome = "none" /\ outcome' \in {"passed", "failed"}
          /\ packet.buffer.last = 0 => outcome' = "passed"
      BY <2>3 DEF MockSigverify
    <3> QED
      BY <2>1, <2>2, <3>1 DEF GenInv, feeVars
  <2>4. CASE Dismiss
    <3>1. outcome = "foreign" /\ outcome' = "passed"
      BY <2>4 DEF Dismiss
    <3>2. packet.addr = None
      BY <3>1 DEF GenInv
    <3> QED
      BY <2>1, <2>2, <3>1, <3>2 DEF GenInv, feeVars
  <2>5. CASE UNCHANGED gvars
    BY Zenon, <2>1, <2>2, <2>5 DEF GenInv, gvars, genVars, feeVars
  <2> QED
    BY <1>3, <2>3, <2>4, <2>5
<1> QED
  BY <1>1, <1>2, <1>3 DEF GNext

\* The invariants of generator and fee hold in every reachable state.
LEMMA GeneratorInvariant == GSpec => [](FeeInv /\ GenInv)
<1>1. GInit => FeeInv /\ GenInv
  BY GenInitial
<1>2. (FeeInv /\ GenInv) /\ [GNext]_gvars => (FeeInv /\ GenInv)'
  BY GenStep
<1> QED
  BY <1>1, <1>2, PTL DEF GSpec

\* For every transaction, every number of leading instructions and every width,
\* the fee that total_fee returns is the exact one whenever that fits.
THEOREM FeeIsExact == GSpec => []FeeExactUnlessWrapped
  BY GeneratorInvariant, FeeExact, PTL

\* The price sampled for a generated packet is the one its fee is made of, for
\* every sequence of good and bad ips and every set of prices.
THEOREM SampledPriceCounts == GSpec => []GeneratedPriceCounts
<1>1. FeeInv /\ GenInv => GeneratedPriceCounts
  <2> SUFFICES ASSUME FeeInv, GenInv, outcome \in {"none", "failed", "passed"},
                      packet.addr # None, total_fee # None
               PROVE  cu_price = sampled /\ ReadPrice = sampled
    BY DEF GeneratedPriceCounts
  <2>1. /\ packet.buffer.price = sampled
        /\ ixs = <<[tag |-> "price", val |-> sampled], [tag |-> "other", val |-> 0]>>
    BY DEF GenInv
  <2>2. /\ Len(ixs) = 2 /\ ixs[1].tag = "price" /\ ixs[1].val = sampled
        /\ ixs[2].tag = "other"
    BY <2>1
  <2>3. ~Looking /\ Found(cu_price, "price") /\ next \in 1..(Leading + 1)
    BY DEF FeeInv
  <2>4. Leading \in 1..2 /\ next - 1 = Leading
    BY <2>2, <2>3, FeeAssumption DEF Looking, Leading, Smaller
  <2>5. 1 \in 1..(next - 1) /\ \A i \in 1..(next - 1) : i = 1 \/ i = 2
    BY <2>4
  <2>6. PICK i \in 1..(next - 1) : ixs[i].tag = "price" /\ cu_price = ixs[i].val
    BY <2>2, <2>3, <2>5 DEF Found, FoundIn
  <2>7. i = 1
    BY <2>2, <2>5, <2>6
  <2> QED
    BY <2>1, <2>2, <2>6, <2>7 DEF ReadPrice
<1> QED
  BY <1>1, GeneratorInvariant, PTL

\* Whatever bad ips did to the shared packet, every packet of a good ip is whole
\* and passes the mock sigverify.
THEOREM GoodIpsPass == GSpec => []GoodIpsUnharmed
<1>1. GenInv => GoodIpsUnharmed
  BY DEF GenInv, GoodIpsUnharmed
<1> QED
  BY <1>1, GeneratorInvariant, PTL

-----------------------------------------------------------------------------
(* The score tables                                                        *)

GoodTable(t, cap) ==
  /\ t.score \in [Ids(t) -> 0..MaxScore]
  /\ Ids(t) \subseteq Int /\ IsFiniteSet(Ids(t)) /\ Cardinality(Ids(t)) <= cap
  /\ Mirrored(t)

\* A table from which prune is removing roots.
Pruning(before, t, limit) ==
  /\ \A e \in before : e[1] \in Int /\ e[2] \in Int
  /\ t.inverse \subseteq before
  /\ ExtremesKept(before, t, limit)

ModelInv ==
  /\ GoodTable(ips, MAX_IPS) /\ GoodTable(signers, MAX_SIGNERS)
  /\ phase \in {"idle", "prune_ips", "prune_signers"}
  /\ phase # "idle" => Pruning(unpruned.ips, ips, max_ips)
                         /\ Pruning(unpruned.signers, signers, max_signers)
  /\ phase = "prune_signers" => Cardinality(Ids(ips)) <= max_ips

\* The stakes in force are those of one call.
StakeInv ==
  /\ update_meta \in Stakings
  /\ \E s \in Stakings : total_stake = s.total_stake /\ stake_lookup = s.stake_lookup

\* A nonempty set of subsets of a finite set has a minimal one.
Minimal(T, F) == \A x \in T : T \ {x} \notin F

\* A nonempty family of subsets of a finite set has a minimal member.
LEMMA MinimalSet ==
  ASSUME NEW S, IsFiniteSet(S), NEW F, F \subseteq SUBSET S, F # {}
  PROVE  \E T \in F : Minimal(T, F)
<1>1. IsWellFoundedOn(StrictSubsetOrdering(S), SUBSET S)
  BY Zenon, FS_StrictSubsetOrderingWellFounded, FS_FiniteSubsetsOfFinite
<1>2. \E T \in F : \A U \in F : ~(<<U, T>> \in StrictSubsetOrdering(S))
  BY <1>1, WFMin
<1>3. PICK T \in F : \A U \in F : ~(<<U, T>> \in StrictSubsetOrdering(S))
  BY <1>2
<1>4. ASSUME NEW x \in T, T \ {x} \in F PROVE FALSE
  <2>1. T \ {x} \in SUBSET S /\ T \in SUBSET S /\ T \ {x} \subseteq T /\ T \ {x} # T
    BY <1>4
  <2>2. <<T \ {x}, T>> \in StrictSubsetOrdering(S)
    BY <2>1 DEF StrictSubsetOrdering
  <2> QED BY Zenon, <1>3, <1>4, <2>2
<1> QED
  BY <1>3, <1>4 DEF Minimal

\* A finite nonempty set of integers has a greatest element.
LEMMA Greatest ==
  ASSUME NEW S, IsFiniteSet(S), S \subseteq Int, S # {}
  PROVE  \E x \in S : \A y \in S : x >= y
<1> DEFINE F == {T \in SUBSET S : T # {} /\ ~ \E x \in T : \A y \in T : x >= y}
<1> SUFFICES ASSUME F # {} PROVE FALSE
  OBVIOUS
<1>1. PICK T \in F : Minimal(T, F)
  <2>1. F \subseteq SUBSET S /\ F # {}
    OBVIOUS
  <2> HIDE DEF F
  <2> QED BY Zenon, <2>1, MinimalSet
<1>2. PICK x \in T : TRUE
  BY Zenon, <1>1
<1>3. T \ {x} \notin F
  BY <1>1, <1>2 DEF Minimal
<1>4. CASE T \ {x} = {}
  BY <1>1, <1>2, <1>4
<1>5. CASE T \ {x} # {}
  <2>1. PICK y \in T \ {x} : \A z \in T \ {x} : y >= z
    BY <1>1, <1>3, <1>5
  <2>2. x \in Int /\ y \in Int /\ T \subseteq Int
    BY <1>1, <1>2, <2>1
  <2>3. \A z \in T : z = x \/ y >= z
    BY <2>1
  <2>4. \E w \in T : \A z \in T : w >= z
    <3>1. CASE x >= y
      BY <1>2, <2>2, <2>3, <3>1
    <3>2. CASE ~(x >= y)
      BY <2>1, <2>2, <2>3, <3>2
    <3> QED BY <3>1, <3>2
  <2> QED BY <1>1, <2>4
<1> QED BY <1>4, <1>5

\* The best value of a meta exists and bounds them all.
LEMMA BestValue ==
  MaxScore \in Nat /\ \A m \in Metas : m.value <= MaxScore
<1> DEFINE V == {m.value : m \in Metas}
           g == [m \in Metas |-> m.value]
<1>1. g \in Surjection(Metas, V)
  BY DEF Surjection
<1>2. IsFiniteSet(V)
  BY Zenon, <1>1, FS_Surjection, ModelAssumption
<1>3. IsFiniteSet(V \cup {0}) /\ V \cup {0} \subseteq Nat
  <2>1. V \subseteq Nat
    BY ModelAssumption
  <2> HIDE DEF V
  <2> QED BY <1>2, <2>1, FS_AddElement
<1>4. \E x \in V \cup {0} : \A y \in V \cup {0} : x >= y
  <2> HIDE DEF V
  <2> QED BY <1>3, Greatest
<1>5. MaxScore \in V \cup {0} /\ \A y \in V \cup {0} : MaxScore >= y
  BY <1>4 DEF MaxScore, Max
<1>6. \A m \in Metas : m.value \in V \cup {0}
  OBVIOUS
<1> QED
  <2> HIDE DEF V
  <2> QED BY <1>3, <1>5, <1>6

\* The inverse tree of a good table has as many entries as the score tree.
LEMMA MirrorSize ==
  ASSUME NEW t, NEW cap, GoodTable(t, cap)
  PROVE  IsFiniteSet(t.inverse) /\ Cardinality(t.inverse) = Cardinality(Ids(t))
<1> DEFINE g == [id \in Ids(t) |-> Entry(id, t.score[id])]
<1>1. g \in Bijection(Ids(t), t.inverse)
  BY Zenon DEF GoodTable, Mirrored, Entry, Bijection, Injection, Surjection, IsInjective
<1>2. ExistsBijection(Ids(t), t.inverse)
  BY <1>1 DEF ExistsBijection
<1> QED BY <1>2, FS_Bijection DEF GoodTable

\* No more of the learnable ids are admitted than there is room for.
LEMMA AdmittedFit ==
  ASSUME NEW ids, IsFiniteSet(ids), ids \subseteq Int, NEW room \in Nat
  PROVE  /\ Admitted(ids, room) \subseteq ids /\ IsFiniteSet(Admitted(ids, room))
         /\ Cardinality(Admitted(ids, room)) <= room
<1> DEFINE A == Admitted(ids, room)
           Less(x) == {j \in ids : j < x}
<1>1. A \subseteq ids /\ \A x \in A : Cardinality(Less(x)) < room
  BY DEF Admitted
<1> HIDE DEF A
<1>2. IsFiniteSet(A) /\ A \subseteq Int /\ Cardinality(A) \in Nat
  BY Zenon, <1>1, FS_Subset, FS_CardinalityType
<1>3. CASE A = {}
  BY <1>1, <1>2, <1>3, FS_EmptySet DEF A
<1>4. CASE A # {}
  <2>1. PICK x \in A : \A y \in A : x >= y
    BY Zenon, <1>2, <1>4, Greatest
  <2>2. A \ {x} \subseteq Less(x)
    BY <1>1, <1>2, <2>1
  <2>3. IsFiniteSet(Less(x)) /\ Cardinality(Less(x)) \in Nat
    <3>1. Less(x) \subseteq ids
      OBVIOUS
    <3> HIDE DEF Less
    <3> QED BY <3>1, FS_Subset, FS_CardinalityType
  <2>4. Cardinality(A \ {x}) <= Cardinality(Less(x)) /\ Cardinality(A \ {x}) = Cardinality(A) - 1
    <3> HIDE DEF Less
    <3> QED BY Zenon, <1>2, <2>1, <2>2, <2>3, FS_Subset, FS_RemoveElement
  <2>5. Cardinality(Less(x)) < room
    BY <1>1, <2>1
  <2> HIDE DEF Less
  <2> QED BY <1>1, <1>2, <2>3, <2>4, <2>5 DEF A
<1> QED BY <1>3, <1>4

-----------------------------------------------------------------------------
(* The operations on one table                                             *)

Scored(f, inv) == inv = {Entry(id, f[id]) : id \in DOMAIN f}

\* What makes a table of these scores and this inverse good.
LEMMA Tabled ==
  ASSUME NEW D, D \subseteq Int, IsFiniteSet(D), NEW cap, Cardinality(D) <= cap,
         NEW f \in [D -> 0..MaxScore], NEW inv, Scored(f, inv)
  PROVE  GoodTable([score |-> f, inverse |-> inv], cap)
<1>1. DOMAIN f = D
  OBVIOUS
<1> QED
  BY Zenon, <1>1 DEF GoodTable, Ids, Mirrored, Scored

\* Feedback on an id keeps the table good.
LEMMA FeedbackGood ==
  ASSUME NEW t, NEW cap, NEW id, GoodTable(t, cap)
  PROVE  GoodTable(Feedback(t, id), cap)
<1>1. CASE id \notin Ids(t)
  BY <1>1 DEF Feedback
<1>2. CASE id \in Ids(t)
  <2> DEFINE low == t.score[id] \div 100
             f == [t.score EXCEPT ![id] = low]
             inv == (t.inverse \ {Entry(id, t.score[id])}) \cup {Entry(id, low)}
  <2>1. t.score \in [Ids(t) -> 0..MaxScore] /\ t.score[id] \in 0..MaxScore /\ MaxScore \in Nat
    BY Zenon, <1>2, BestValue DEF GoodTable
  <2>2. low \in 0..MaxScore
    <3>1. \A k \in 0..MaxScore : k \div 100 \in 0..MaxScore
      BY <2>1
    <3> QED BY <2>1, <3>1
  <2>3. f \in [Ids(t) -> 0..MaxScore]
    BY Zenon, <2>1, <2>2
  <2>4. Scored(f, inv)
    <3> HIDE DEF low
    <3>1. DOMAIN f = Ids(t) /\ f[id] = low /\ \A j \in Ids(t) \ {id} : f[j] = t.score[j]
      BY <1>2, <2>1
    <3>2. t.inverse = {Entry(j, t.score[j]) : j \in Ids(t)}
      BY DEF GoodTable, Mirrored
    <3> HIDE DEF f
    <3> QED BY <1>2, <3>1, <3>2 DEF Scored, Entry
  <2>5. Feedback(t, id) = [score |-> f, inverse |-> inv]
    BY <1>2 DEF Feedback
  <2> HIDE DEF f, inv
  <2> QED BY <2>3, <2>4, <2>5, Tabled DEF GoodTable
<1> QED BY <1>1, <1>2

\* Removing an id from both trees.
LEMMA RemoveGood ==
  ASSUME NEW t, NEW cap \in Nat, GoodTable(t, cap), NEW id \in Ids(t)
  PROVE  GoodTable([score |-> [i \in Ids(t) \ {id} |-> t.score[i]],
                    inverse |-> t.inverse \ {Entry(id, t.score[id])}], cap)
<1> DEFINE D == Ids(t) \ {id}
           f == [i \in Ids(t) \ {id} |-> t.score[i]]
           inv == t.inverse \ {Entry(id, t.score[id])}
<1>1. t.score \in [Ids(t) -> 0..MaxScore] /\ Ids(t) \subseteq Int /\ IsFiniteSet(Ids(t))
        /\ Cardinality(Ids(t)) <= cap /\ t.inverse = {Entry(j, t.score[j]) : j \in Ids(t)}
  BY Zenon DEF GoodTable, Mirrored
<1>2. f \in [D -> 0..MaxScore]
  BY Zenon, <1>1
<1>3. IsFiniteSet(D) /\ Cardinality(D) <= cap /\ D \subseteq Int
  <2>1. IsFiniteSet(D) /\ Cardinality(D) = Cardinality(Ids(t)) - 1
    BY Zenon, <1>1, FS_RemoveElement
  <2>2. Cardinality(Ids(t)) \in Nat
    BY Zenon, <1>1, FS_CardinalityType
  <2> QED BY <1>1, <2>1, <2>2
<1>4. Scored(f, inv)
  <2>1. DOMAIN f = D /\ \A j \in D : f[j] = t.score[j]
    OBVIOUS
  <2> HIDE DEF f
  <2> QED BY <1>1, <2>1 DEF Scored, Entry
<1> HIDE DEF f, inv, D
<1>5. GoodTable([score |-> f, inverse |-> inv], cap)
  BY Zenon, <1>2, <1>3, <1>4, Tabled
<1> QED BY <1>5 DEF f, inv

\* The insertion of a score keeps the table good.
LEMMA AddScoreGood ==
  ASSUME NEW t, NEW cap \in Nat, GoodTable(t, cap), NEW id \in Int, NEW s \in 0..MaxScore
  PROVE  GoodTable(AddScore(t, id, s, cap), cap)
<1> DEFINE f == [i \in Ids(t) \ {id} |-> t.score[i]]
           inv == IF id \in Ids(t) THEN t.inverse \ {Entry(id, t.score[id])} ELSE t.inverse
           u == [score |-> f, inverse |-> inv]
           e == Entry(id, s)
           D == DOMAIN f
<1>1. GoodTable(u, cap)
  <2>1. CASE id \in Ids(t)
    BY Zenon, <2>1, RemoveGood
  <2>2. CASE id \notin Ids(t)
    <3>1. Ids(t) \ {id} = Ids(t) /\ t.score \in [Ids(t) -> 0..MaxScore]
      BY Zenon, <2>2 DEF GoodTable
    <3>2. f = t.score /\ inv = t.inverse
      BY Zenon, <2>2, <3>1
    <3> HIDE DEF f, inv
    <3> QED BY Zenon, <3>2 DEF GoodTable, Ids, Mirrored
  <2> QED BY Zenon, <2>1, <2>2
<1>2. id \notin D
  OBVIOUS
<1> HIDE DEF f, inv
<1>3. f \in [D -> 0..MaxScore] /\ D \subseteq Int /\ IsFiniteSet(D)
        /\ Cardinality(D) <= cap /\ inv = {Entry(j, f[j]) : j \in D}
  BY Zenon, <1>1 DEF GoodTable, Ids, Mirrored
<1>4. IsFiniteSet(inv) /\ Cardinality(inv) = Cardinality(D) /\ Cardinality(D) \in Nat
  <2>1. Ids(u) = D /\ u.inverse = inv
    BY DEF Ids
  <2>2. IsFiniteSet(u.inverse) /\ Cardinality(u.inverse) = Cardinality(Ids(u))
    BY <1>1, MirrorSize
  <2>3. Cardinality(D) \in Nat
    BY <1>3, FS_CardinalityType
  <2> QED BY <2>1, <2>2, <2>3
<1>5. e \notin inv
  BY <1>2, <1>3 DEF Entry
<1>6. AddScore(t, id, s, cap) = [score |-> InsertScore(f, id, s, cap),
                                 inverse |-> InsertInverse(inv, e, cap)]
  BY Zenon DEF AddScore, f, inv
<1>7. CASE Cardinality(D) < cap
  <2> DEFINE h == [i \in D \cup {id} |-> IF i = id THEN s ELSE f[i]]
  <2>1. InsertScore(f, id, s, cap) = h
    BY <1>7 DEF InsertScore
  <2>2. InsertInverse(inv, e, cap) = inv \cup {e}
    BY <1>4, <1>7 DEF InsertInverse
  <2>3. h \in [D \cup {id} -> 0..MaxScore]
    BY <1>3
  <2>4. D \cup {id} \subseteq Int /\ IsFiniteSet(D \cup {id}) /\ Cardinality(D \cup {id}) <= cap
    <3> HIDE DEF D
    <3>1. IsFiniteSet(D \cup {id}) /\ Cardinality(D \cup {id}) = Cardinality(D) + 1
      BY Zenon, <1>2, <1>3, FS_AddElement
    <3> QED BY <1>3, <1>4, <1>7, <3>1
  <2>5. Scored(h, inv \cup {e})
    <3>1. DOMAIN h = D \cup {id} /\ h[id] = s /\ \A j \in D : h[j] = f[j]
      BY <1>2
    <3> HIDE DEF h, D
    <3> QED BY Zenon, <1>3, <3>1 DEF Scored, Entry
  <2> HIDE DEF h, D
  <2>6. GoodTable([score |-> h, inverse |-> inv \cup {e}], cap)
    BY Zenon, <2>3, <2>4, <2>5, Tabled
  <2>7. AddScore(t, id, s, cap) = [score |-> h, inverse |-> inv \cup {e}]
    BY Zenon, <1>6, <2>1, <2>2
  <2> QED BY Zenon, <2>6, <2>7
<1>8. CASE ~(Cardinality(D) < cap)
  <2>1. InsertScore(f, id, s, cap) = f
    BY <1>2, <1>8 DEF InsertScore
  <2>2. InsertInverse(inv, e, cap) = inv
    BY Zenon, <1>4, <1>5, <1>8 DEF InsertInverse
  <2> QED BY Zenon, <1>1, <1>6, <2>1, <2>2
<1> QED BY <1>7, <1>8

\* The removal of the root keeps the table good.
LEMMA PruneGood ==
  ASSUME NEW t, NEW cap \in Nat, GoodTable(t, cap), NEW u \in Prunes(t)
  PROVE  /\ GoodTable(u, cap)
         /\ \E e \in Roots(t.inverse) : u.inverse = t.inverse \ {e}
<1>1. PICK e \in Roots(t.inverse) :
        u = [score |-> [i \in Ids(t) \ {e[2]} |-> t.score[i]], inverse |-> t.inverse \ {e}]
  BY Zenon DEF Prunes
<1>2. PICK id \in Ids(t) : e = Entry(id, t.score[id])
  BY Zenon, <1>1 DEF Roots, GoodTable, Mirrored
<1>3. e[2] = id
  BY <1>2 DEF Entry
<1>4. GoodTable(u, cap)
  BY Zenon, <1>1, <1>2, <1>3, RemoveGood
<1>5. u.inverse = t.inverse \ {e}
  BY Zenon, <1>1
<1> QED BY Zenon, <1>1, <1>4, <1>5

\* The median lies within the scores.
LEMMA MedianInRange ==
  ASSUME NEW t, NEW cap, GoodTable(t, cap), NEW m \in Medians(t.inverse), Ids(t) # {}
  PROVE  m \in 0..MaxScore
<1>1. t.inverse # {} /\ \A e \in t.inverse : e[1] \in 0..MaxScore
  <2>1. PICK i \in Ids(t) : TRUE
    OBVIOUS
  <2>2. t.inverse = {<<t.score[id], id>> : id \in Ids(t)}
    BY Zenon DEF GoodTable, Mirrored, Entry
  <2>3. \A id \in Ids(t) : t.score[id] \in 0..MaxScore
    BY Zenon DEF GoodTable
  <2>4. t.inverse # {}
    BY Zenon, <2>1, <2>2
  <2>5. ASSUME NEW e \in t.inverse PROVE e[1] \in 0..MaxScore
    <3>1. PICK id \in Ids(t) : e = <<t.score[id], id>>
      BY Zenon, <2>2
    <3> QED BY Zenon, <2>3, <3>1
  <2> QED BY Zenon, <2>4, <2>5
<1>2. PICK e \in Roots(t.inverse) : m = e[1]
  BY Zenon, <1>1 DEF Medians
<1> QED BY Zenon, <1>1, <1>2 DEF Roots

\* What update_model gathers from a batch for one table.
GoodCandidates(cand) ==
  /\ DOMAIN cand \subseteq Int /\ IsFiniteSet(DOMAIN cand)
  /\ \A id \in DOMAIN cand : cand[id].average \in 0..MaxScore

\* A moving average lies between its arguments.
LEMMA EmaInRange ==
  ASSUME NEW a \in 0..MaxScore, NEW b \in 0..MaxScore
  PROVE  Ema(a, b) \in 0..MaxScore
  BY BestValue DEF Ema

\* The update of a table keeps it good.
LEMMA UpdateGood ==
  ASSUME NEW t, NEW cap \in Nat, GoodTable(t, cap), NEW cand, GoodCandidates(cand),
         NEW m \in Medians(t.inverse), NEW min
  PROVE  GoodTable(Update(t, cand, m, min, cap), cap)
<1> DEFINE I == Ids(t)
           L == Learnable(t, cand, min)
           A == Admitted(L, cap - Cardinality(I))
           d == Drift(t, cand, m, min)
           f == [id \in I \cup A |-> IF id \in I THEN d[id] ELSE cand[id].average]
           inv == (t.inverse \ {Entry(id, t.score[id]) : id \in I})
                    \cup {Entry(id, d[id]) : id \in I}
                    \cup {Entry(id, cand[id].average) : id \in A}
<1>1. t.score \in [I -> 0..MaxScore] /\ I \subseteq Int /\ IsFiniteSet(I)
        /\ Cardinality(I) \in Nat /\ Cardinality(I) <= cap
        /\ t.inverse = {Entry(id, t.score[id]) : id \in I}
  BY Zenon, FS_CardinalityType DEF GoodTable, Mirrored
<1>2. L \subseteq DOMAIN cand /\ L \cap I = {}
  BY Zenon DEF Learnable
<1>3. L \subseteq Int /\ IsFiniteSet(L)
  BY Zenon, <1>2, FS_Subset DEF GoodCandidates
<1>4. cap - Cardinality(I) \in Nat
  <2>1. Cardinality(I) \in Nat /\ Cardinality(I) <= cap
    BY Zenon, <1>1
  <2> QED BY <2>1
<1>5. A \subseteq L /\ IsFiniteSet(A) /\ Cardinality(A) <= cap - Cardinality(I)
  <2> HIDE DEF L, I
  <2> QED BY Zenon, <1>3, <1>4, AdmittedFit
<1>6. Cardinality(t.inverse) = Cardinality(I)
  BY MirrorSize
<1>7. Update(t, cand, m, min, cap) = [score |-> f, inverse |-> inv]
  BY Zenon, <1>6 DEF Update
<1>8. \A id \in I : d[id] \in 0..MaxScore
  <2> SUFFICES ASSUME NEW id \in I PROVE d[id] \in 0..MaxScore
    OBVIOUS
  <2>1. Target(cand, id, m, min) \in 0..MaxScore
    BY Zenon, MedianInRange DEF Target, GoodCandidates
  <2>2. t.score[id] \in 0..MaxScore
    BY Zenon, <1>1
  <2>3. d[id] = Ema(t.score[id], Target(cand, id, m, min))
    BY DEF Drift
  <2> QED BY Zenon, <2>1, <2>2, <2>3, EmaInRange
<1>9. \A id \in A : cand[id].average \in 0..MaxScore
  BY Zenon, <1>2, <1>5 DEF GoodCandidates
<1>10. I \cap A = {} /\ I \cup A \subseteq Int
  BY Zenon, <1>1, <1>2, <1>3, <1>5
<1>11. IsFiniteSet(I \cup A) /\ Cardinality(I \cup A) <= cap
  <2> HIDE DEF I, A
  <2>1. IsFiniteSet(I \cup A)
          /\ Cardinality(I \cup A) = Cardinality(I) + Cardinality(A) - Cardinality(I \cap A)
    BY Zenon, <1>1, <1>5, FS_Union
  <2>2. Cardinality(I \cap A) = 0
    BY <1>10, FS_EmptySet
  <2>3. Cardinality(A) \in Nat
    BY <1>5, FS_CardinalityType
  <2>4. /\ Cardinality(I) \in Nat /\ Cardinality(A) <= cap - Cardinality(I)
        /\ IsFiniteSet(I \cup A)
    BY Zenon, <1>1, <1>5, <2>1
  <2> QED BY <2>1, <2>2, <2>3, <2>4
<1> HIDE DEF I, L, A, d
<1>12. f \in [I \cup A -> 0..MaxScore]
  BY Zenon, <1>8, <1>9
<1>13. Scored(f, inv)
  <2>1. DOMAIN f = I \cup A
    OBVIOUS
  <2>2. \A id \in I : f[id] = d[id]
    BY Zenon
  <2>3. \A id \in A : f[id] = cand[id].average
    BY Zenon, <1>10
  <2>4. inv = {Entry(id, d[id]) : id \in I} \cup {Entry(id, cand[id].average) : id \in A}
    BY Zenon, <1>1
  <2> HIDE DEF f, inv
  <2>5. inv = {Entry(id, f[id]) : id \in I \cup A}
    BY Zenon, <2>2, <2>3, <2>4
  <2> QED BY <2>1, <2>5 DEF Scored
<1> HIDE DEF f, inv
<1> QED BY <1>7, <1>10, <1>11, <1>12, <1>13, Tabled

\* The order of the entries is strict.
LEMMA BelowAsymmetric ==
  ASSUME NEW x, NEW y, x[1] \in Int, x[2] \in Int, y[1] \in Int, y[2] \in Int, Below(x, y)
  PROVE  ~Below(y, x)
  BY DEF Below

\* The worst and the best entry are not at the root, and stay.
LEMMA PruneExtremes ==
  ASSUME NEW t, NEW cap, GoodTable(t, cap), NEW before, NEW limit \in Nat,
         Pruning(before, t, limit), Cardinality(t.inverse) > limit,
         NEW u, NEW r \in Roots(t.inverse), u.inverse = t.inverse \ {r}
  PROVE  Pruning(before, u, limit)
<1>1. /\ \A e \in before : e[1] \in Int /\ e[2] \in Int
      /\ t.inverse \subseteq before
  BY Zenon DEF Pruning
<1>2. u.inverse \subseteq before
  BY Zenon, <1>1
<1> SUFFICES ASSUME limit >= 2, NEW e \in before,
                    \/ \A f \in before \ {e} : Below(e, f)
                    \/ \A f \in before \ {e} : Below(f, e)
             PROVE  e \in u.inverse
  BY Zenon, <1>1, <1>2 DEF Pruning, ExtremesKept
<1>3. e \in t.inverse
  BY Zenon DEF Pruning, ExtremesKept
<1>4. e # r
  <2>1. Cardinality(t.inverse) \in Nat
    BY Zenon, MirrorSize, FS_CardinalityType DEF GoodTable
  <2>2. PICK lo \in t.inverse, hi \in t.inverse : Below(lo, r) /\ Below(r, hi)
    BY <2>1 DEF Roots
  <2>3. r \in before /\ lo \in before /\ hi \in before
    BY Zenon, <1>1, <2>2 DEF Roots
  <2> SUFFICES ASSUME e = r PROVE FALSE
    BY Zenon
  <2>4. ASSUME NEW x \in before, NEW y \in before, Below(x, y) PROVE ~Below(y, x)
    BY Zenon, <1>1, <2>4, BelowAsymmetric
  <2>5. lo # e /\ hi # e
    BY Zenon, <2>2, <2>3, <2>4
  <2>6. Below(e, lo) \/ Below(hi, e)
    BY Zenon, <2>3, <2>5
  <2> QED BY Zenon, <2>2, <2>3, <2>4, <2>6
<1> QED BY Zenon, <1>3, <1>4

-----------------------------------------------------------------------------
(* The sums over a batch                                                   *)

Pick(s) == CHOOSE x \in s : TRUE

\* g gives for each subset of S the sum of F over it.
Sums(g, S, F) ==
  \A s \in SUBSET S : g[s] = IF s = {} THEN 0 ELSE F[Pick(s)] + g[s \ {Pick(s)}]

\* A nonempty set of naturals has a least element.
LEMMA LeastNat ==
  ASSUME NEW S, S \subseteq Nat, S # {}
  PROVE  \E n \in S : \A m \in S : ~(m < n)
<1>1. \E n \in S : \A m \in S : <<m, n>> \notin OpToRel(<, Nat)
  BY NatLessThanWellFounded, WFMin
<1> QED
  BY Zenon, <1>1 DEF OpToRel

Level(S, n) == {s \in SUBSET S : Cardinality(s) <= n}

\* Without the chosen element a set is one level lower.
LEMMA LevelStep ==
  ASSUME NEW S, IsFiniteSet(S), NEW n \in Nat \ {0}, NEW s \in Level(S, n), s # {}
  PROVE  Pick(s) \in s /\ s \ {Pick(s)} \in Level(S, n - 1)
<1>1. Pick(s) \in s
  BY DEF Pick
<1>2. s \in SUBSET S /\ Cardinality(s) <= n
  BY DEF Level
<1>3. IsFiniteSet(s) /\ Cardinality(s) \in Nat
  BY <1>2, FS_Subset, FS_CardinalityType
<1>4. Cardinality(s \ {Pick(s)}) = Cardinality(s) - 1
  BY Zenon, <1>1, <1>3, FS_RemoveElement
<1>5. Cardinality(s \ {Pick(s)}) <= n - 1
  BY <1>2, <1>3, <1>4
<1>6. s \ {Pick(s)} \in SUBSET S
  BY <1>2
<1> QED BY <1>1, <1>5, <1>6 DEF Level

SumsUpTo(S, F, n, g) ==
  \A s \in Level(S, n) : g[s] = IF s = {} THEN 0 ELSE F[Pick(s)] + g[s \ {Pick(s)}]

\* Sums exist over the sets of up to n elements.
LEMMA SumsExistUpTo ==
  ASSUME NEW S, IsFiniteSet(S), NEW F
  PROVE  \A n \in Nat : \E g : SumsUpTo(S, F, n, g)
<1> DEFINE Bad == {n \in Nat : ~ \E g : SumsUpTo(S, F, n, g)}
<1> SUFFICES ASSUME Bad # {} PROVE FALSE
  OBVIOUS
<1>1. PICK n \in Bad : \A m \in Bad : ~(m < n)
  <2>1. Bad \subseteq Nat /\ Bad # {}
    OBVIOUS
  <2> HIDE DEF Bad
  <2> QED BY Zenon, <2>1, LeastNat
<1>2. n \in Nat /\ ~ \E g : SumsUpTo(S, F, n, g)
  BY <1>1
<1>3. CASE n = 0
  <2>1. \A s \in Level(S, 0) : s = {}
    <3> SUFFICES ASSUME NEW s \in Level(S, 0) PROVE s = {}
      OBVIOUS
    <3>1. s \in SUBSET S /\ Cardinality(s) <= 0
      BY DEF Level
    <3>2. IsFiniteSet(s) /\ Cardinality(s) \in Nat
      BY <3>1, FS_Subset, FS_CardinalityType
    <3>3. Cardinality(s) = 0
      BY <3>1, <3>2
    <3> QED BY <3>2, <3>3, FS_EmptySet
  <2> DEFINE g == [s \in Level(S, 0) |-> 0]
  <2>2. SumsUpTo(S, F, 0, g)
    BY Zenon, <2>1 DEF SumsUpTo
  <2> QED BY <1>2, <1>3, <2>2
<1>4. CASE n # 0
  <2>1. n - 1 \in Nat /\ n - 1 < n /\ n \in Nat \ {0}
    BY <1>2, <1>4
  <2>2. PICK g : SumsUpTo(S, F, n - 1, g)
    BY <1>1, <2>1
  <2> DEFINE h == [s \in Level(S, n) |-> IF s = {} THEN 0 ELSE F[Pick(s)] + g[s \ {Pick(s)}]]
  <2>3. \A s \in Level(S, n - 1) : s \in Level(S, n)
    <3> SUFFICES ASSUME NEW s \in Level(S, n - 1) PROVE s \in Level(S, n)
      OBVIOUS
    <3>1. s \in SUBSET S /\ Cardinality(s) <= n - 1
      BY DEF Level
    <3>2. Cardinality(s) \in Nat
      BY Zenon, <3>1, FS_Subset, FS_CardinalityType
    <3>3. Cardinality(s) <= n
      BY <2>1, <3>1, <3>2
    <3> QED BY <3>1, <3>3 DEF Level
  <2>4. \A s \in Level(S, n - 1) : h[s] = g[s]
    BY <2>2, <2>3 DEF SumsUpTo
  <2>5. \A s \in Level(S, n) : s # {} => s \ {Pick(s)} \in Level(S, n - 1)
    BY Zenon, <2>1, LevelStep
  <2>6. SumsUpTo(S, F, n, h)
    BY Zenon, <2>4, <2>5 DEF SumsUpTo
  <2> QED BY Zenon, <1>2, <2>6
<1> QED BY <1>3, <1>4

\* The sum of F over S as the fold of the library defines it.
Table(g, S, F) ==
  [s \in SUBSET S |-> IF s = {} THEN 0 ELSE F[Pick(s)] + g[s \ {Pick(s)}]]

\* Sums exist over all finite sets.
LEMMA SumsExist ==
  ASSUME NEW S, IsFiniteSet(S), NEW F
  PROVE  \E g : g = Table(g, S, F)
<1>1. Cardinality(S) \in Nat
  BY FS_CardinalityType
<1>2. PICK h : SumsUpTo(S, F, Cardinality(S), h)
  BY <1>1, SumsExistUpTo
<1>3. \A s \in SUBSET S : s \in Level(S, Cardinality(S))
  BY FS_Subset DEF Level
<1> DEFINE g == [s \in SUBSET S |-> h[s]]
<1>4. \A s \in SUBSET S : s \ {Pick(s)} \in SUBSET S
  OBVIOUS
<1>5. \A s \in SUBSET S : g[s] = IF s = {} THEN 0 ELSE F[Pick(s)] + g[s \ {Pick(s)}]
  BY Zenon, <1>2, <1>3, <1>4 DEF SumsUpTo
<1>6. g = [s \in SUBSET S |-> g[s]]
  BY Zenon
<1>7. g = Table(g, S, F)
  <2> HIDE DEF g
  <2> QED BY Zenon, <1>5, <1>6 DEF Table
<1> QED BY Zenon, <1>7

\* What update_model counts and adds up for one id.
CountOf(batch, S) == MapThenSumSet(LAMBDA m : batch[m], S)

SumOf(batch, S) == MapThenSumSet(LAMBDA m : batch[m] * m.value, S)

\* The count of a batch is a sum.
LEMMA CountIsSum ==
  ASSUME NEW S, IsFiniteSet(S), NEW F
  PROVE  \E g : /\ g = Table(g, S, F)
                /\ CountOf(F, S) = g[S]
<1> DEFINE T(g) == [s \in SUBSET S |-> IF s = {} THEN 0
                       ELSE F[CHOOSE x \in s : TRUE] + g[s \ {CHOOSE x \in s : TRUE}]]
           g0 == CHOOSE g : g = T(g)
<1>1. CountOf(F, S) = g0[S]
  BY Zenon DEF CountOf, MapThenSumSet, MapThenFoldSet
<1>2. \A g : T(g) = Table(g, S, F)
  BY Zenon DEF Table, Pick
<1>3. \E g : g = T(g)
  <2>1. PICK g : g = Table(g, S, F)
    BY SumsExist
  <2>2. T(g) = Table(g, S, F)
    BY Zenon, <1>2
  <2> HIDE DEF T
  <2> QED BY <2>1, <2>2
<1>4. g0 = T(g0)
  <2> HIDE DEF T
  <2> QED BY <1>3
<1> HIDE DEF g0
<1> QED BY Zenon, <1>1, <1>2, <1>4

Worth(batch) == [m \in Metas |-> batch[m] * m.value]

\* The worth of a batch is a sum.
LEMMA WorthIsSum ==
  ASSUME NEW S, IsFiniteSet(S), S \subseteq Metas, NEW batch
  PROVE  \E g : /\ g = Table(g, S, Worth(batch))
                /\ SumOf(batch, S) = g[S]
<1> DEFINE T(g) == [s \in SUBSET S |-> IF s = {} THEN 0
                       ELSE batch[CHOOSE x \in s : TRUE] * (CHOOSE x \in s : TRUE).value
                              + g[s \ {CHOOSE x \in s : TRUE}]]
           g0 == CHOOSE g : g = T(g)
<1>1. SumOf(batch, S) = g0[S]
  BY Zenon DEF SumOf, MapThenSumSet, MapThenFoldSet
<1>2. \A s \in SUBSET S : s # {} => Worth(batch)[Pick(s)] = batch[Pick(s)] * Pick(s).value
  BY Zenon DEF Worth, Pick
<1>3. \A g : T(g) = Table(g, S, Worth(batch))
  <2> SUFFICES ASSUME NEW g PROVE T(g) = Table(g, S, Worth(batch))
    BY Zenon
  <2>1. T(g) = [s \in SUBSET S |-> IF s = {} THEN 0
                  ELSE batch[Pick(s)] * Pick(s).value + g[s \ {Pick(s)}]]
    BY Zenon DEF Pick
  <2> HIDE DEF T
  <2> QED BY Zenon, <1>2, <2>1 DEF Table
<1>4. \E g : g = T(g)
  <2>1. PICK g : g = Table(g, S, Worth(batch))
    BY SumsExist
  <2>2. T(g) = Table(g, S, Worth(batch))
    BY Zenon, <1>3
  <2> HIDE DEF T
  <2> QED BY <2>1, <2>2
<1>5. g0 = T(g0)
  <2> HIDE DEF T
  <2> QED BY <1>4
<1> HIDE DEF g0
<1> QED BY Zenon, <1>1, <1>3, <1>5

\* Products grow with their factors.
LEMMA TimesMonotone ==
  ASSUME NEW a \in Nat, NEW b \in Nat, NEW c \in Nat, b <= c
  PROVE  a * b <= a * c
  OBVIOUS

\* Products distribute over sums.
LEMMA TimesDistributes ==
  ASSUME NEW a \in Nat, NEW b \in Nat, NEW c \in Nat
  PROVE  a * (b + c) = b * a + a * c /\ b * a \in Nat /\ a * c \in Nat
  OBVIOUS

\* The quotient of a sum bounded by M times the count is bounded by M.
LEMMA AverageBound ==
  ASSUME NEW M \in Nat, NEW sum \in Nat, NEW count \in Nat \ {0}, sum <= M * count
  PROVE  sum \div count \in 0..M
  OBVIOUS

\* Values no greater than MaxScore, each counted at least once.
LEMMA SumsBounded ==
  ASSUME NEW S, IsFiniteSet(S), S \subseteq Metas, NEW batch,
         \A m \in S : batch[m] \in Nat \ {0},
         NEW c, c = Table(c, S, batch), NEW w, w = Table(w, S, Worth(batch))
  PROVE  \A s \in SUBSET S : c[s] \in Nat /\ w[s] \in Nat /\ w[s] <= MaxScore * c[s]
                               /\ (s # {} => c[s] # 0)
<1> DEFINE Fine(s) == c[s] \in Nat /\ w[s] \in Nat /\ w[s] <= MaxScore * c[s]
                               /\ (s # {} => c[s] # 0)
           Bad == {s \in SUBSET S : ~Fine(s)}
<1> SUFFICES ASSUME Bad # {} PROVE FALSE
  BY Zenon
<1>1. PICK s \in Bad : Minimal(s, Bad)
  <2>1. Bad \subseteq SUBSET S /\ Bad # {}
    BY Zenon
  <2> HIDE DEF Bad
  <2> QED BY Zenon, <2>1, MinimalSet
<1>2. s \in SUBSET S /\ ~Fine(s)
  BY Zenon, <1>1
<1>3. /\ c[s] = IF s = {} THEN 0 ELSE batch[Pick(s)] + c[s \ {Pick(s)}]
      /\ w[s] = IF s = {} THEN 0 ELSE Worth(batch)[Pick(s)] + w[s \ {Pick(s)}]
  BY Zenon, <1>2 DEF Table
<1>4. MaxScore \in Nat
  BY Zenon, BestValue
<1>5. CASE s = {}
  <2>1. c[s] = 0 /\ w[s] = 0
    BY Zenon, <1>3, <1>5
  <2>2. 0 \in Nat /\ 0 <= MaxScore * 0
    BY <1>4
  <2> QED BY Zenon, <1>2, <1>5, <2>1, <2>2
<1>6. CASE s # {}
  <2> DEFINE x == Pick(s)
             b == batch[x]
             v == x.value
             c1 == c[s \ {x}]
             w1 == w[s \ {x}]
  <2>1. x \in s
    BY Zenon, <1>6 DEF Pick
  <2>2. s \ {x} \in SUBSET S /\ s \ {x} \notin Bad
    BY Zenon, <1>1, <1>2, <2>1 DEF Minimal
  <2>3. c1 \in Nat /\ w1 \in Nat /\ w1 <= MaxScore * c1
    BY Zenon, <2>2
  <2>4. b \in Nat \ {0} /\ v \in Nat /\ v <= MaxScore
    BY Zenon, <1>2, <2>1, BestValue, ModelAssumption
  <2>5. c[s] = b + c1 /\ w[s] = b * v + w1
    BY Zenon, <1>2, <1>3, <1>6, <2>1 DEF Worth
  <2> HIDE DEF x, b, v, c1, w1
  <2>6. b * v <= b * MaxScore
    BY Zenon, <1>4, <2>4, TimesMonotone
  <2>7. b * v \in Nat /\ MaxScore * (b + c1) = b * MaxScore + MaxScore * c1
          /\ b * MaxScore \in Nat /\ MaxScore * c1 \in Nat
    <3>1. b \in Nat
      BY Zenon, <2>4
    <3> QED BY Zenon, <1>4, <2>3, <2>4, <3>1, TimesDistributes
  <2>8. b * v + w1 <= MaxScore * (b + c1)
    <3> DEFINE p == b * v
               q == b * MaxScore
               r == MaxScore * c1
    <3> HIDE DEF p, q, r
    <3>1. p \in Nat /\ q \in Nat /\ r \in Nat /\ p <= q /\ w1 <= r
      BY Zenon, <2>3, <2>6, <2>7 DEF p, q, r
    <3>2. p + w1 <= q + r
      BY <2>3, <3>1
    <3> QED BY Zenon, <2>7, <3>2 DEF p, q, r
  <2>9. b + c1 \in Nat /\ b * v + w1 \in Nat /\ b + c1 # 0
    <3>1. b \in Nat /\ b # 0 /\ c1 \in Nat
      BY Zenon, <2>3, <2>4
    <3>2. b + c1 \in Nat /\ b + c1 # 0
      BY <3>1
    <3>3. b * v + w1 \in Nat
      BY <2>3, <2>7
    <3> QED BY Zenon, <3>2, <3>3
  <2> QED BY Zenon, <1>2, <2>5, <2>8, <2>9
<1> QED BY Zenon, <1>5, <1>6

\* Every average of a batch is an average of values of its transactions.
LEMMA CandidatesGood ==
  ASSUME NEW batch \in [Metas -> 0..MaxRepeat], NEW field,
         \A m \in Metas : m[field] \in Int
  PROVE  GoodCandidates(Candidates(batch, field))
<1> DEFINE seen == {m \in Metas : batch[m] > 0}
           With(id) == {m \in seen : m[field] = id}
           Count(id) == MapThenSumSet(LAMBDA m : batch[m], With(id))
           Sum(id) == MapThenSumSet(LAMBDA m : batch[m] * m.value, With(id))
           D == {m[field] : m \in seen}
           g == [m \in seen |-> m[field]]
<1>1. Candidates(batch, field)
        = [id \in D |-> [count |-> Count(id), average |-> Sum(id) \div Count(id)]]
  BY Zenon DEF Candidates
<1> HIDE DEF Count, Sum
<1>2. seen \subseteq Metas /\ \A m \in seen : batch[m] \in Nat \ {0}
  BY ModelAssumption
<1>3. IsFiniteSet(seen)
  BY Zenon, <1>2, FS_Subset, ModelAssumption
<1>4. D \subseteq Int /\ IsFiniteSet(D)
  <2>1. g \in Surjection(seen, D)
    BY Zenon DEF Surjection
  <2>2. D \subseteq Int
    BY Zenon, <1>2
  <2> HIDE DEF g, seen, D
  <2> QED BY <1>3, <2>1, <2>2, FS_Surjection
<1>5. ASSUME NEW id \in D PROVE Sum(id) \div Count(id) \in 0..MaxScore
  <2> DEFINE W == With(id)
  <2>1. W \subseteq seen /\ W \subseteq Metas /\ W # {}
    BY Zenon, <1>2, <1>5
  <2>2. IsFiniteSet(W)
    <3> HIDE DEF W, seen
    <3> QED BY Zenon, <1>3, <2>1, FS_Subset
  <2>3. \A m \in W : batch[m] \in Nat \ {0}
    BY Zenon, <1>2
  <2>4. Count(id) = CountOf(batch, W)
    BY Zenon DEF Count, CountOf
  <2>5. Sum(id) = SumOf(batch, W)
    BY Zenon DEF Sum, SumOf
  <2> HIDE DEF W
  <2>6. PICK c : c = Table(c, W, batch) /\ Count(id) = c[W]
    BY Zenon, <2>2, <2>4, CountIsSum
  <2>7. PICK w : w = Table(w, W, Worth(batch)) /\ Sum(id) = w[W]
    BY Zenon, <2>1, <2>2, <2>5, WorthIsSum
  <2>8. W \in SUBSET W
    OBVIOUS
  <2>9. c[W] \in Nat /\ w[W] \in Nat /\ w[W] <= MaxScore * c[W] /\ c[W] # 0
    BY Zenon, <2>1, <2>2, <2>3, <2>6, <2>7, <2>8, SumsBounded
  <2>10. Sum(id) \in Nat /\ Count(id) \in Nat \ {0} /\ Sum(id) <= MaxScore * Count(id)
    BY Zenon, <2>6, <2>7, <2>9
  <2>11. MaxScore \in Nat
    BY Zenon, BestValue
  <2> QED BY Zenon, <2>10, <2>11, AverageBound
<1> HIDE DEF D
<1> DEFINE cand == Candidates(batch, field)
<1>6. DOMAIN cand = D
  BY Zenon, <1>1
<1>7. \A id \in D : cand[id].average = Sum(id) \div Count(id)
  BY <1>1
<1> HIDE DEF cand
<1>8. GoodCandidates(cand)
  BY Zenon, <1>4, <1>5, <1>6, <1>7 DEF GoodCandidates
<1> QED BY <1>8 DEF cand

-----------------------------------------------------------------------------
(* The models                                                              *)

\* The model starts in its invariant.
LEMMA ModelInitial == Init => ModelInv
<1> SUFFICES ASSUME Init PROVE ModelInv
  OBVIOUS
<1>1. Ids(EmptyTable) = {} /\ EmptyTable.inverse = {} /\ EmptyTable.score \in [{} -> 0..MaxScore]
  BY Zenon DEF EmptyTable, Ids
<1>2. \A cap \in Nat : GoodTable(EmptyTable, cap)
  <2> SUFFICES ASSUME NEW cap \in Nat PROVE GoodTable(EmptyTable, cap)
    OBVIOUS
  <2>1. IsFiniteSet({}) /\ Cardinality({}) = 0
    BY FS_EmptySet
  <2>2. Mirrored(EmptyTable)
    BY Zenon, <1>1 DEF Mirrored
  <2>3. 0 <= cap /\ {} \subseteq Int
    OBVIOUS
  <2> QED BY Zenon, <1>1, <2>1, <2>2, <2>3 DEF GoodTable
<1> QED BY Zenon, <1>2, ModelAssumption DEF Init, ModelInv

\* A table that prune has not yet touched.
LEMMA PruningStarts ==
  ASSUME NEW t, NEW cap, GoodTable(t, cap), NEW limit
  PROVE  Pruning(t.inverse, t, limit)
<1>1. ASSUME NEW e \in t.inverse PROVE e[1] \in Int /\ e[2] \in Int
  <2>1. PICK id \in Ids(t) : e = <<t.score[id], id>>
    BY Zenon DEF GoodTable, Mirrored, Entry
  <2>2. id \in Int /\ t.score[id] \in 0..MaxScore
    BY Zenon DEF GoodTable
  <2>3. t.score[id] \in Int
    BY <2>2, BestValue
  <2> QED BY Zenon, <2>1, <2>2, <2>3
<1> QED BY Zenon, <1>1 DEF Pruning, ExtremesKept

\* The update of both tables keeps the invariant.
LEMMA UpdateStep ==
  ASSUME ModelInv, NEW batch \in [Metas -> 0..MaxRepeat], UpdateModel(batch)
  PROVE  ModelInv'
<1>1. PICK m \in Medians(ips.inverse), n \in Medians(signers.inverse) :
        /\ ips' = Update(ips, Candidates(batch, "ip"), m, MinCount, MAX_IPS)
        /\ signers' = Update(signers, Candidates(batch, "signer"), n, MinCount, MAX_SIGNERS)
  BY Zenon DEF UpdateModel
<1>2. GoodTable(ips, MAX_IPS) /\ GoodTable(signers, MAX_SIGNERS)
        /\ MAX_IPS \in Nat /\ MAX_SIGNERS \in Nat
  BY Zenon, ModelAssumption DEF ModelInv
<1>3. \A x \in Metas : x["ip"] \in Int /\ x["signer"] \in Int
  BY Zenon, ModelAssumption
<1>4. GoodCandidates(Candidates(batch, "ip")) /\ GoodCandidates(Candidates(batch, "signer"))
  BY Zenon, <1>3, CandidatesGood
<1>5. GoodTable(ips', MAX_IPS)
  BY Zenon, <1>1, <1>2, <1>4, UpdateGood
<1>6. GoodTable(signers', MAX_SIGNERS)
  BY Zenon, <1>1, <1>2, <1>4, UpdateGood
<1>7. Pruning(ips'.inverse, ips', max_ips) /\ Pruning(signers'.inverse, signers', max_signers)
  BY Zenon, <1>5, <1>6, PruningStarts
<1>8. phase' = "prune_ips" /\ unpruned'.ips = ips'.inverse /\ unpruned'.signers = signers'.inverse
  BY Zenon DEF UpdateModel
<1> QED BY Zenon, <1>5, <1>6, <1>7, <1>8 DEF ModelInv

\* A step of prune on the ips keeps the invariant.
LEMMA PruneIpsStep ==
  ASSUME ModelInv, PruneIps
  PROVE  ModelInv'
<1>1. GoodTable(ips, MAX_IPS) /\ GoodTable(signers, MAX_SIGNERS) /\ MAX_IPS \in Nat
        /\ max_ips \in Nat
        /\ Pruning(unpruned.ips, ips, max_ips) /\ Pruning(unpruned.signers, signers, max_signers)
  BY Zenon, ModelAssumption DEF ModelInv, PruneIps
<1>2. phase = "prune_ips" /\ signers' = signers /\ unpruned' = unpruned
  BY DEF PruneIps
<1>a. \/ Cardinality(ips.inverse) > max_ips /\ ips' \in Prunes(ips) /\ phase' = phase
      \/ Cardinality(ips.inverse) <= max_ips /\ phase' = "prune_signers" /\ ips' = ips
  BY DEF PruneIps, PruneArgs
<1>3. CASE Cardinality(ips.inverse) > max_ips /\ ips' \in Prunes(ips) /\ phase' = phase
  <2>1. GoodTable(ips', MAX_IPS)
    BY Zenon, <1>1, <1>3, PruneGood
  <2>2. PICK e \in Roots(ips.inverse) : ips'.inverse = ips.inverse \ {e}
    BY Zenon, <1>1, <1>3, PruneGood
  <2>3. Pruning(unpruned.ips, ips', max_ips)
    BY Zenon, <1>1, <1>3, <2>2, PruneExtremes
  <2> QED BY Zenon, <1>1, <1>2, <1>3, <2>1, <2>3 DEF ModelInv
<1>4. CASE Cardinality(ips.inverse) <= max_ips /\ phase' = "prune_signers" /\ ips' = ips
  <2>1. Cardinality(Ids(ips)) <= max_ips
    BY Zenon, <1>1, <1>4, MirrorSize
  <2>2. Ids(ips)' = Ids(ips)
    BY <1>4 DEF Ids
  <2> QED BY Zenon, <1>1, <1>2, <1>4, <2>1, <2>2 DEF ModelInv
<1> QED BY Zenon, <1>a, <1>3, <1>4

\* What a step of prune on the signers does.
LEMMA PruneSignersEffect ==
  ASSUME PruneSigners
  PROVE  /\ phase = "prune_signers" /\ ips' = ips /\ unpruned' = unpruned
         /\ \/ /\ Cardinality(signers.inverse) > max_signers
               /\ signers' \in Prunes(signers) /\ phase' = phase
            \/ /\ Cardinality(signers.inverse) <= max_signers
               /\ signers' = signers /\ phase' = "idle"
  BY DEF PruneSigners, PruneArgs

\* A step of prune on the signers keeps the invariant.
LEMMA PruneSignersStep ==
  ASSUME ModelInv, PruneSigners
  PROVE  ModelInv'
<1>1. GoodTable(ips, MAX_IPS) /\ GoodTable(signers, MAX_SIGNERS) /\ MAX_SIGNERS \in Nat
        /\ max_signers \in Nat
        /\ Pruning(unpruned.ips, ips, max_ips) /\ Pruning(unpruned.signers, signers, max_signers)
        /\ Cardinality(Ids(ips)) <= max_ips
  BY Zenon, ModelAssumption DEF ModelInv, PruneSigners
<1>2. phase = "prune_signers" /\ ips' = ips /\ unpruned' = unpruned /\ Ids(ips)' = Ids(ips)
  BY DEF PruneSigners, Ids
<1>3. CASE /\ Cardinality(signers.inverse) > max_signers
           /\ signers' \in Prunes(signers) /\ phase' = phase
  <2>1. GoodTable(signers', MAX_SIGNERS)
    BY Zenon, <1>1, <1>3, PruneGood
  <2>2. PICK e \in Roots(signers.inverse) : signers'.inverse = signers.inverse \ {e}
    BY Zenon, <1>1, <1>3, PruneGood
  <2>3. Pruning(unpruned.signers, signers', max_signers)
    BY Zenon, <1>1, <1>3, <2>2, PruneExtremes
  <2> QED BY Zenon, <1>1, <1>2, <1>3, <2>1, <2>3 DEF ModelInv
<1>4. CASE phase' = "idle" /\ signers' = signers
  BY Zenon, <1>1, <1>2, <1>4 DEF ModelInv
<1> QED BY Zenon, PruneSignersEffect, <1>3, <1>4

\* Every step keeps the invariant of the model.
LEMMA ModelStep == ModelInv /\ [Next]_vars => ModelInv'
<1> SUFFICES ASSUME ModelInv, [Next]_vars PROVE ModelInv'
  OBVIOUS
<1>1. GoodTable(ips, MAX_IPS) /\ GoodTable(signers, MAX_SIGNERS)
        /\ MAX_IPS \in Nat /\ MAX_SIGNERS \in Nat
  BY Zenon, ModelAssumption DEF ModelInv
<1>2. ASSUME NEW ip \in Ips, IpFeedback(ip) PROVE ModelInv'
  <2>1. GoodTable(ips', MAX_IPS)
    BY Zenon, <1>1, <1>2, FeedbackGood DEF IpFeedback
  <2>2. signers' = signers /\ phase' = "idle"
    BY <1>2 DEF IpFeedback, Call
  <2> QED BY Zenon, <1>1, <2>1, <2>2 DEF ModelInv
<1>3. ASSUME NEW x \in Metas, AddIpScore(x.ip, x.value) PROVE ModelInv'
  <2>1. x.ip \in Int /\ x.value \in 0..MaxScore
    BY BestValue, ModelAssumption
  <2>2. GoodTable(ips', MAX_IPS)
    BY Zenon, <1>1, <1>3, <2>1, AddScoreGood DEF AddIpScore
  <2>3. signers' = signers /\ phase' = "idle"
    BY <1>3 DEF AddIpScore, Call
  <2> QED BY Zenon, <1>1, <2>2, <2>3 DEF ModelInv
<1>4. ASSUME NEW x \in Metas, AddSignerScore(x.signer, x.value) PROVE ModelInv'
  <2>1. x.signer \in Int /\ x.value \in 0..MaxScore
    BY BestValue, ModelAssumption
  <2>2. GoodTable(signers', MAX_SIGNERS)
    BY Zenon, <1>1, <1>4, <2>1, AddScoreGood DEF AddSignerScore
  <2>3. ips' = ips /\ phase' = "idle"
    BY <1>4 DEF AddSignerScore, Call
  <2> QED BY Zenon, <1>1, <2>2, <2>3 DEF ModelInv
<1>5. CASE UNCHANGED vars
  BY Zenon, <1>5 DEF vars, ModelInv, GoodTable, Mirrored, Ids, Pruning, ExtremesKept
<1>6. ASSUME NEW ip, NEW signer, Forward(ip, signer) PROVE ModelInv'
  BY <1>5, <1>6 DEF Forward
<1> QED
  BY Zenon, <1>2, <1>3, <1>4, <1>5, <1>6, UpdateStep, PruneIpsStep, PruneSignersStep DEF Next

\* Whatever the capacities, limits, transactions and batches, the tables are
\* good between any two calls and any two iterations of prune.
THEOREM ModelInvariant == Spec => []ModelInv
  BY ModelInitial, ModelStep, PTL DEF Spec

\* update_model, ip_feedback and the rest keep each score tree and its inverse
\* tree holding the same entries, also when the trees are full.
THEOREM TreesMirror == Spec => []InverseMirrorsScores
<1>1. ModelInv => InverseMirrorsScores
  BY Zenon DEF ModelInv, GoodTable, InverseMirrorsScores
<1> QED BY <1>1, ModelInvariant, PTL

\* The two trees of a good table have the same size.
LEMMA TableSizes ==
  ASSUME ModelInv
  PROVE  /\ Cardinality(ips.inverse) = Cardinality(Ids(ips))
         /\ Cardinality(signers.inverse) = Cardinality(Ids(signers))
  BY Zenon, MirrorSize DEF ModelInv

\* No tree outgrows its capacity, and when update_model returns, prune has left
\* at most max_ips ips and at most max_signers signers in their two trees.
THEOREM TablesFit == Spec => SizesBounded
<1>1. ModelInv => WithinCapacity
  <2> SUFFICES ASSUME ModelInv PROVE WithinCapacity
    OBVIOUS
  <2>1. Cardinality(Ids(ips)) <= MAX_IPS /\ Cardinality(Ids(signers)) <= MAX_SIGNERS
    BY Zenon DEF ModelInv, GoodTable
  <2> QED BY <2>1, TableSizes DEF WithinCapacity, AtMost
<1>2. ModelInv /\ [Next]_vars => [UpdateReturns => WithinLimits']_vars
  <2> SUFFICES ASSUME ModelInv, [Next]_vars, UpdateReturns PROVE WithinLimits'
    OBVIOUS
  <2>1. phase = "prune_signers" /\ phase' = "idle"
    BY DEF UpdateReturns
  <2>2. PruneSigners
    <3>1. phase' # phase /\ phase # "idle" /\ phase # "prune_ips"
      BY <2>1
    <3> QED
      BY Zenon, <3>1
      DEF Next, vars, IpFeedback, Forward, AddIpScore, AddSignerScore, UpdateModel, Call, PruneIps
  <2>3. ips' = ips /\ signers' = signers /\ Cardinality(signers.inverse) <= max_signers
    BY <2>1, <2>2, PruneSignersEffect
  <2>4. Cardinality(Ids(ips)) <= max_ips
    BY Zenon, <2>1 DEF ModelInv
  <2>5. AtMost(ips, max_ips) /\ AtMost(signers, max_signers)
    BY <2>3, <2>4, TableSizes DEF AtMost
  <2> QED BY <2>3, <2>5 DEF WithinLimits, AtMost, Ids
<1> QED BY <1>1, <1>2, ModelInvariant, PTL DEF Spec, SizesBounded

\* However many roots prune takes, the best and the worst entry stay.
THEOREM ExtremesSurvive == Spec => []PruneKeepsExtremes
<1>1. ModelInv => PruneKeepsExtremes
  BY Zenon DEF ModelInv, Pruning, PruneKeepsExtremes
<1> QED BY <1>1, ModelInvariant, PTL

\* Averages, decay and feedback never take a score below zero or above the
\* best value of any transaction, for batches of any size.
THEOREM ScoresInRange == Spec => []ScoresWithinValues
<1>1. ModelInv => ScoresWithinValues
  BY Zenon DEF ModelInv, GoodTable, ScoresWithinValues
<1> QED BY <1>1, ModelInvariant, PTL

\* The tables of the stake model behave as those of the plain one, so that
\* every theorem above holds of ip_signer_stake.rs as well.
THEOREM StakesLeaveTables == SSpec => Spec
<1>1. SInit => Init
  BY DEF SInit
<1>2. [SNext]_svars => [Next]_vars
  <2> SUFFICES ASSUME [SNext]_svars PROVE [Next]_vars
    OBVIOUS
  <2>1. CASE UNCHANGED svars
    BY <2>1 DEF svars
  <2>2. ASSUME NEW ip, NEW signer, SForward(ip, signer) PROVE UNCHANGED vars
    BY <2>2 DEF SForward, svars
  <2>3. CASE \E ip \in Ips : SIpFeedback(ip)
    BY <2>3 DEF SIpFeedback, Next
  <2>4. CASE \E m \in Metas : SAddIpScore(m.ip, m.value)
    BY <2>4 DEF SAddIpScore, Next
  <2>5. CASE \E m \in Metas : SAddSignerScore(m.signer, m.value)
    BY <2>5 DEF SAddSignerScore, Next
  <2>6. CASE \E batch \in [Metas -> 0..MaxRepeat], meta \in Stakings : SUpdateModel(batch, meta)
    BY <2>6 DEF SUpdateModel, Next
  <2>7. CASE SPruneIps
    BY <2>7 DEF SPruneIps, Next
  <2>8. CASE SPruneSigners
    BY <2>8 DEF SPruneSigners, Next
  <2> QED BY Zenon, <2>1, <2>2, <2>3, <2>4, <2>5, <2>6, <2>7, <2>8 DEF SNext
<1> QED BY <1>1, <1>2, PTL DEF SSpec, Spec

\* Every step keeps the invariant of the stakes.
LEMMA StakeStep == StakeInv /\ [SNext]_svars => StakeInv'
<1> SUFFICES ASSUME StakeInv, [SNext]_svars PROVE StakeInv'
  OBVIOUS
<1>1. update_meta \in Stakings
        /\ \E s \in Stakings : total_stake = s.total_stake /\ stake_lookup = s.stake_lookup
  BY DEF StakeInv
<1>2. CASE UNCHANGED stakeVars
  BY Zenon, <1>1, <1>2 DEF stakeVars, StakeInv
<1>3. ASSUME NEW batch, NEW meta \in Stakings, SUpdateModel(batch, meta) PROVE StakeInv'
  BY Zenon, <1>1, <1>3 DEF SUpdateModel, StakeInv
<1>4. CASE SPruneSigners
  BY <1>1, <1>4 DEF SPruneSigners, StoreStakes, StakeInv
<1> QED
  BY Zenon, <1>2, <1>3, <1>4
  DEF SNext, svars, SIpFeedback, SForward, SAddIpScore, SAddSignerScore, SPruneIps

\* The total an update stores is that of the stakes it stores with it, so that
\* the multiplier of forward stays between one and two for every cluster.
THEOREM MultiplierInRange == SSpec => []MultiplierBounded
<1>1. SInit => StakeInv
  BY DEF SInit, StakeInv
<1>2. StakeInv => MultiplierBounded
  <2> SUFFICES ASSUME StakeInv, NEW ip \in Ips
               PROVE  LET m == StakeScore(StakeOf(ip), total_stake)
                      IN  m[2] > 0 /\ m[2] <= m[1] /\ m[1] <= 2 * m[2]
    BY Zenon DEF MultiplierBounded
  <2>1. PICK s \in Stakings : total_stake = s.total_stake /\ stake_lookup = s.stake_lookup
    BY DEF StakeInv
  <2>2. total_stake \in Nat \ {0} /\ StakeOf(ip) \in 0..total_stake
    BY <2>1, StakingsAssumption DEF StakeOf
  <2> QED BY <2>2 DEF StakeScore
<1> QED BY <1>1, <1>2, StakeStep, PTL DEF SSpec
=============================================================================
