------------------------------ MODULE Generator -----------------------------
(***************************************************************************)
(* A traffic generator and what becomes of its packets.  A thread of       *)
(* engine/src/lib.rs owns one packet and, for each packet it sends, picks  *)
(* an ip and overwrites parts of that packet in place                      *)
(* (update_transfer_with_priority of engine/src/agent.rs), so that what an *)
(* update leaves alone it inherits from the one before.  The sidecar       *)
(* parses its copy and computes the fee; the mock sigverify of             *)
(* engine-ipc/src/main.rs looks at the last byte of the buffer.            *)
(*                                                                         *)
(* The buffer is reduced to the fields the generator writes; a field whose *)
(* bytes overlap those of a later write is spoilt by it.  The first packet *)
(* that the sidecar sees is anybody's: an arbitrary transaction.           *)
(***************************************************************************)
EXTENDS TransactionFee

CONSTANTS
  GoodIps, BadIps,  \* made by Ip::new and by Ip::bad
  Prices,           \* what sample_cu_price may return
  Spoilt            \* what is read from a field that was partly overwritten

ASSUME GeneratorAssumption ==
  /\ GoodIps \cap BadIps = {} /\ Prices \subseteq Nat /\ Spoilt \in Nat \ Prices

VARIABLES
  packet,    \* the generator's packet: its fields, and meta
  sampled,   \* history: the price sampled for it
  outcome    \* of the packet in process: "none", "foreign", "malformed",
             \* "failed" or "passed"

genVars == <<packet, sampled, outcome>>

gvars == <<feeVars, genVars>>

PACKET_DATA_SIZE == 1232

TX_LEN == 259

-----------------------------------------------------------------------------
(* agent.rs                                                                *)

\* A plausible slip: the price goes to the offset of the transfer's lamports that
\* the commented-out constant gives.
LamportsOffset ==
  [signature |-> <<1, 64>>, blockhash |-> <<197, 32>>, price |-> <<219, 8>>,
   last |-> <<PACKET_DATA_SIZE - 1, 1>>]

\* Offset and length of each write into the buffer.
Offsets ==
  [signature |-> <<1, 64>>, blockhash |-> <<197, 32>>, price |-> <<234, 8>>,
   last |-> <<PACKET_DATA_SIZE - 1, 1>>]

Overlap(f, g) ==
  /\ Offsets[f][1] < Offsets[g][1] + Offsets[g][2]
  /\ Offsets[g][1] < Offsets[f][1] + Offsets[f][2]

\* copy_nonoverlapping into the buffer.
Write(buffer, f, val) ==
  [g \in DOMAIN buffer |->
     IF g = f THEN val ELSE IF Overlap(f, g) THEN Spoilt ELSE buffer[g]]

\* null_transfer_transaction_with_compute_unit_price
NullTransfer ==
  [buffer |-> [signature |-> 0, blockhash |-> 0, price |-> 115, last |-> 0],
   size |-> TX_LEN, addr |-> None]

UpdateComputeUnitPrice(buffer, price) == Write(buffer, "price", price)

\* Blockhash and signature are fresh random bytes, on which nothing below depends.
UpdateBlockhash(buffer) == Write(buffer, "blockhash", 0)

UpdateSignatureInvalid(buffer) == Write(buffer, "signature", 0)

Refreshed(buffer, price) ==
  UpdateSignatureInvalid(UpdateBlockhash(UpdateComputeUnitPrice(buffer, price)))

\* A plausible slip: a good ip restores the size and not the last byte.
SizeOnly(p) == {[p EXCEPT !.size = TX_LEN]}

Sound(p) == {[p EXCEPT !.size = TX_LEN, !.buffer = Write(p.buffer, "last", 0)]}

\* Of a bad ip's packets some are cut to nothing, some are marked, and the rest
\* is as the packet before left it.
Unsound(p) ==
  {[p EXCEPT !.size = 0, !.buffer = Write(p.buffer, "last", 0)],
   [p EXCEPT !.size = TX_LEN, !.buffer = Write(p.buffer, "last", 1)],
   p}

\* update_transfer_with_priority: what the packet may become.
Updates(ip, price) ==
  LET p == [packet EXCEPT !.buffer = Refreshed(packet.buffer, price), !.addr = ip]
  IN  IF ip \in BadIps THEN Unsound(p) ELSE Sound(p)

\* read_price
ReadPrice == packet.buffer.price

-----------------------------------------------------------------------------
(* One packet at a time: the pushed bytes are a copy, so that nothing here *)
(* races with the generator's next update.                                 *)

GInit ==
  /\ FeeInit
  /\ packet = NullTransfer /\ sampled = None /\ outcome = "foreign"

\* The packet before has been dealt with.
Ready == outcome \in {"malformed", "failed", "passed"}

\* A turn of the generator's loop, and the sidecar's view of the packet: empty
\* data is no transaction; any other has the price and the transfer instruction.
Generate(ip, price) ==
  /\ Ready
  /\ packet' \in Updates(ip, price)
  /\ sampled' = price
  /\ outcome' = IF packet'.size = 0 THEN "malformed" ELSE "none"
  /\ IF packet'.size = 0
       THEN UNCHANGED feeVars
       ELSE /\ ixs' = <<[tag |-> "price", val |-> packet'.buffer.price],
                        [tag |-> "other", val |-> 0]>>
            /\ signatures' = 1 /\ next' = 1
            /\ requested_cus' = None /\ cu_price' = None /\ total_fee' = None

Fee == (Scan \/ Finish) /\ UNCHANGED genVars

\* mockBanking: the last byte decides.
MockSigverify ==
  /\ total_fee # None /\ outcome = "none"
  /\ outcome' = IF packet.buffer.last = 0 THEN "passed" ELSE "failed"
  /\ UNCHANGED <<feeVars, packet, sampled>>

\* Of somebody else's packet only the fee is of interest.
Dismiss ==
  /\ total_fee # None /\ outcome = "foreign"
  /\ outcome' = "passed"
  /\ UNCHANGED <<feeVars, packet, sampled>>

GNext ==
  \/ \E ip \in GoodIps \cup BadIps, price \in Prices : Generate(ip, price)
  \/ Fee
  \/ MockSigverify
  \/ Dismiss

GSpec == GInit /\ [][GNext]_gvars

-----------------------------------------------------------------------------
(* Properties                                                              *)

\* The fee the sidecar computes for a generated packet is made of the price that
\* was sampled for this very packet and that read_price logs: none of the writes
\* that follow in the update spoils it, and none of an earlier packet's shows
\* through.
GeneratedPriceCounts ==
  outcome \in {"none", "failed", "passed"} /\ packet.addr # None /\ total_fee # None =>
    cu_price = sampled /\ ReadPrice = sampled

\* Whatever a bad ip did to the shared packet before, the packets of a good ip
\* are whole transactions and pass the mock sigverify.
GoodIpsUnharmed ==
  packet.addr \in GoodIps => packet.size = TX_LEN /\ outcome \notin {"malformed", "failed"}
=============================================================================
