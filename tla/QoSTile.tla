------------------------------- MODULE QoSTile ------------------------------
(***************************************************************************)
(* The QoS process (qos/src/main.rs): one thread that loops over           *)
(*                                                                         *)
(*   packets  four inbound packet channels in turn, at most BATCH packets  *)
(*            from each: classify, score, queue and maybe transmit         *)
(*   recent   the signatures confirmed by the validator                    *)
(*   metas    what the scheduler reports of transmitted transactions       *)
(*   signals  the packets that failed signature verification               *)
(*                                                                         *)
(* until EXIT is seen at the head of the loop.  Each pop from a channel,   *)
(* with all that follows from it, is one step: the channels are the only   *)
(* state shared with other processes, which run between any two pops.  The *)
(* process may end at any step and be started again; it comes back with    *)
(* empty caches to channels that still hold what the others sent to the    *)
(* process before.                                                         *)
(*                                                                         *)
(* The caches are the abstract LRU orders that module LRU specifies and    *)
(* LRUCache implements; the heap is the one of PriorityQueue.  Scores are  *)
(* an arbitrary choice: the tile's control only compares them.  Time is a  *)
(* Boolean, whether SEND_INTERVAL_MS have passed since the last batch.     *)
(***************************************************************************)
EXTENDS LRUOrder, PriorityQueue, Functions

CONSTANTS
  Packets,       \* inbound packets [data, addr, sig, faults]
  Ports,         \* number of inbound packet channels (4)
  BATCH,         \* packets per channel and loop (1000)
  CACHE_SIZE,    \* capacity of the partial meta cache
  SIG_CACHE_SIZE,\* capacity of the recent signature cache
  HeapCapacity,  \* capacity of the heap
  MaxSend,       \* max_send of the container
  MetasPerUpdate,\* complete metas that trigger a model update (400)
  RingCap,       \* capacity of a channel
  Scores,        \* scores the model may give
  Base,          \* byte values per octet of an address (256)
  MaxArrivals,   \* bound on the packets that arrive
  AllowExit,     \* whether the exit signal may be raised
  MaxRestarts    \* bound on the restarts of the process

ASSUME TileAssumption ==
  /\ Ports \in Nat \ {0} /\ BATCH \in Nat \ {0}
  /\ CACHE_SIZE \in Nat \ {0} /\ SIG_CACHE_SIZE \in Nat \ {0}
  /\ HeapCapacity \in Nat \ {0} /\ MaxSend \in Nat
  /\ MetasPerUpdate \in Nat /\ RingCap \in Nat \ {0}
  /\ Scores \subseteq Nat /\ Base \in Nat \ {0} /\ MaxArrivals \in Nat
  /\ AllowExit \in BOOLEAN /\ MaxRestarts \in Nat

VARIABLES
  stage,       \* which part of the loop is running, or "done"
  port,        \* the packet channel being consumed
  popped,      \* packets taken from it in this loop
  inbound,     \* per port, the packets waiting
  recentQ, schQ, sigQ,  \* the other three inbound channels
  out,         \* transactions pushed to sigverify, not yet taken
  partial,     \* qos_tx_partial_metas
  recents,     \* recent_signatures
  heap,        \* the container's priority_queue_heap
  due,         \* last_send.elapsed_ms() >= SEND_INTERVAL_MS
  complete,    \* qos_tx_complete_metas.len()
  stats,
  exit,        \* EXIT
  feedback,    \* history: <<address, key>> of each ip_feedback call
  forgotten,   \* history: hashes evicted from the partial meta cache, or in
               \* flight when the process ended
  life,        \* number of restarts so far
  carried,     \* history: transmitted and reported packets not yet dealt with
               \* when the process last ended
  arrivals     \* number of packets that have arrived so far

tileVars == <<stage, port, popped, partial, recents, heap, due, complete, stats,
              feedback, forgotten, life, carried>>

vars == <<tileVars, inbound, recentQ, schQ, sigQ, out, exit, arrivals>>

-----------------------------------------------------------------------------
(* The channels (crate que): a ring buffer whose producer never waits, so  *)
(* that a slow consumer loses the oldest entries.                          *)

Produce(q, x) ==
  LET full == Append(q, x)
  IN  IF Len(full) > RingCap THEN Tail(full) ELSE full

-----------------------------------------------------------------------------
(* Addresses are sequences of octets.                                      *)

\* u32::from_le_bytes(ip.octets())
FromLeBytes(addr) == addr[1] + Base * addr[2]

\* Ipv4Addr::to_bits, which is big endian.
ToBits(addr) == Base * addr[1] + addr[2]

-----------------------------------------------------------------------------
(* The key of a packet's partial meta: a hash of its payload and of a part *)
(* of its meta.  Hashes of different preimages are taken to differ.        *)

\* A plausible slip: nothing of the meta enters.
NoMetaBytes(p) == <<>>

\* write_packet_meta_bytes: the address; neither port nor flags.  The size, which
\* is written too, is that of the payload.
MetaBytes(p) == p.addr

\* packet_hash
PacketHash(p) == <<p.data, MetaBytes(p)>>

StatNames ==
  {"total_packets", "non_ipv4", "recently_processed", "recently_processed_queued",
   "recent_signatures_received", "invalid_meta_size", "failed_sanitize",
   "failed_view", "invalid_packet_data", "leaked_priority", "duplicate_packets",
   "banking_transmissions", "zero_score", "completed"}

Init ==
  /\ stage = "packets" /\ port = 1 /\ popped = 0
  /\ inbound = [i \in 1..Ports |-> <<>>]
  /\ recentQ = <<>> /\ schQ = <<>> /\ sigQ = <<>>
  /\ out = {}
  /\ partial = <<>> /\ recents = <<>>
  /\ heap = {} /\ due = FALSE
  /\ complete = 0
  /\ stats = [s \in StatNames |-> 0]
  /\ exit = FALSE
  /\ feedback = {} /\ forgotten = {} /\ arrivals = 0
  /\ life = 0 /\ carried = 0

-----------------------------------------------------------------------------
(* try_process_packet                                                      *)

\* A plausible slip: the address family is not looked at.
AnyAddress(p) == FALSE

NotIpv4(p) == "not_ipv4" \in p.faults

\* A plausible slip: put's duplicate flag is ignored.
NeverDuplicate(p) == FALSE

Duplicate(p) == PacketHash(p) \in KeysOf(partial)

RecentlyProcessed(p) == p.sig \in KeysOf(recents)

\* The checks in the order the code makes them, with the counter of each.
Checks(p) ==
  << [fails |-> NotIpv4(p), stat |-> "non_ipv4"],
     [fails |-> "oversize" \in p.faults, stat |-> "invalid_meta_size"],
     [fails |-> "no_data" \in p.faults, stat |-> "invalid_packet_data"],
     [fails |-> "malformed" \in p.faults, stat |-> "failed_view"],
     [fails |-> "unsanitary" \in p.faults, stat |-> "failed_sanitize"],
     [fails |-> RecentlyProcessed(p), stat |-> "recently_processed"],
     [fails |-> "no_payer" \in p.faults, stat |-> "invalid_packet_data"],
     [fails |-> Duplicate(p), stat |-> "duplicate_packets"] >>

\* The counter a packet ends up in, "ok" if it becomes a scored transaction.
Verdict(p) ==
  LET failing == {i \in DOMAIN Checks(p) : Checks(p)[i].fails}
  IN  IF failing = {} THEN "ok"
      ELSE Checks(p)[CHOOSE i \in failing : \A j \in failing : i <= j].stat

\* The partial meta is stored, or refreshed if the packet is a duplicate; a full
\* cache gives up its least recently used entry.
StorePartial(p) ==
  /\ partial' = PutOrder(partial, PacketHash(p), FromLeBytes(p.addr), CACHE_SIZE)
  /\ forgotten' = IF Evicts(partial, PacketHash(p), CACHE_SIZE)
                    THEN forgotten \cup {Victim(partial).key} ELSE forgotten

\* A plausible slip: duplicates are not counted.
RejectUncounted(p) ==
  /\ Verdict(p) # "ok"
  /\ stats' = [stats EXCEPT !["total_packets"] = @ + 1,
                            ![Verdict(p)] = IF Duplicate(p) THEN @ ELSE @ + 1]
  /\ IF Verdict(p) = "duplicate_packets"
       THEN StorePartial(p) ELSE UNCHANGED <<partial, forgotten>>
  /\ UNCHANGED <<feedback, heap, due, out>>

\* A packet that fails a check.  Only data that cannot be parsed is held against
\* its sender.
Reject(p) ==
  /\ Verdict(p) # "ok"
  /\ stats' = [stats EXCEPT !["total_packets"] = @ + 1, ![Verdict(p)] = @ + 1]
  /\ feedback' = IF Verdict(p) = "failed_view"
                   THEN feedback \cup {<<p.addr, ToBits(p.addr)>>} ELSE feedback
  /\ IF Verdict(p) = "duplicate_packets"
       THEN StorePartial(p) ELSE UNCHANGED <<partial, forgotten>>
  /\ UNCHANGED <<heap, due, out>>

\* TransactionContainer::maybe_transmit on the heap h, when the interval is
\* over; tx counts what is popped.
Transmit(h, counted) ==
  \/ /\ ~due
     /\ heap' = h /\ stats' = counted
     /\ UNCHANGED <<due, out>>
  \/ /\ due
     /\ \E batch \in Drains(h, KeysOf(recents), MaxSend) :
          LET sent == Fresh(batch, KeysOf(recents))
          IN  /\ heap' = h \ batch
              /\ out' = out \cup sent
              /\ due' = (sent = {})
              /\ stats' = [counted EXCEPT
                   !["banking_transmissions"] = @ + Cardinality(sent),
                   !["recently_processed_queued"] = @ + Cardinality(batch \ sent)]

\* A packet that passes: scored, queued, and maybe a batch transmitted.
Accept(p) ==
  /\ Verdict(p) = "ok"
  /\ StorePartial(p)
  /\ \E score \in Scores :
       LET t == [id |-> <<life, stats["total_packets"] + 1>>, score |-> score,
                 sig |-> p.sig, packet |-> p]
       IN  \E r \in Push(heap, t, HeapCapacity) :
             Transmit(r.heap,
               [stats EXCEPT !["total_packets"] = @ + 1,
                             !["zero_score"] = @ + (IF score = 0 THEN 1 ELSE 0),
                             !["leaked_priority"] = @ + Cardinality(r.leaked)])
  /\ UNCHANGED feedback

-----------------------------------------------------------------------------
(* consume_transaction_packets                                             *)

ConsumePacket ==
  /\ stage = "packets" /\ popped < BATCH /\ inbound[port] # <<>>
  /\ LET p == Head(inbound[port]) IN Reject(p) \/ Accept(p)
  /\ inbound' = [inbound EXCEPT ![port] = Tail(@)]
  /\ popped' = popped + 1
  /\ UNCHANGED <<stage, port, recentQ, schQ, sigQ, recents, complete, exit, life,
                 carried, arrivals>>

\* A plausible slip: the loop over the channels ends after the first.
NextPortFirstOnly ==
  /\ stage = "packets" /\ (popped = BATCH \/ inbound[port] = <<>>)
  /\ popped' = 0 /\ port' = 1 /\ stage' = "recent"
  /\ UNCHANGED <<inbound, recentQ, schQ, sigQ, out, partial, recents, heap, due,
                 complete, stats, exit, feedback, forgotten, life, carried, arrivals>>

\* The channel is empty or its share used up: on to the next one.
NextPort ==
  /\ stage = "packets" /\ (popped = BATCH \/ inbound[port] = <<>>)
  /\ popped' = 0
  /\ port' = IF port < Ports THEN port + 1 ELSE 1
  /\ stage' = IF port < Ports THEN "packets" ELSE "recent"
  /\ UNCHANGED <<inbound, recentQ, schQ, sigQ, out, partial, recents, heap, due,
                 complete, stats, exit, feedback, forgotten, life, carried, arrivals>>

\* consume_recent_signatures, until the channel is empty; then the periodic log.
ConsumeRecent ==
  /\ stage = "recent"
  /\ \/ /\ recentQ # <<>>
        /\ recents' = PutOrder(recents, Head(recentQ), 0, SIG_CACHE_SIZE)
        /\ recentQ' = Tail(recentQ)
        /\ stats' = [stats EXCEPT !["recent_signatures_received"] = @ + 1]
        /\ UNCHANGED stage
     \/ /\ recentQ = <<>>
        /\ stage' = "metas"
        /\ UNCHANGED <<recents, recentQ, stats>>
  /\ UNCHANGED <<port, popped, inbound, schQ, sigQ, out, partial, heap, due,
                 complete, exit, feedback, forgotten, life, carried, arrivals>>

\* qos_tx_partial_metas.pop
Merge(order, hash) == Without(order, hash)

\* consume_remaining_metas: a reported transaction completes its partial meta if
\* that is still cached.  Enough complete ones update the model and end the loop
\* even if more are waiting.
ConsumeMeta ==
  /\ stage = "metas"
  /\ \/ /\ schQ # <<>>
        /\ schQ' = Tail(schQ)
        /\ IF Head(schQ) \in KeysOf(partial)
             THEN LET full == complete + 1 > MetasPerUpdate
                  IN  /\ partial' = Merge(partial, Head(schQ))
                      /\ stats' = [stats EXCEPT !["completed"] = @ + 1]
                      /\ complete' = IF full THEN 0 ELSE complete + 1
                      /\ stage' = IF full THEN "signals" ELSE stage
             ELSE UNCHANGED <<partial, stats, complete, stage>>
     \/ /\ schQ = <<>>
        /\ stage' = "signals"
        /\ UNCHANGED <<schQ, partial, stats, complete>>
  /\ UNCHANGED <<port, popped, inbound, recentQ, sigQ, out, recents, heap, due,
                 exit, feedback, forgotten, life, carried, arrivals>>

\* A plausible slip: EXIT is not looked at.
LoopForever == "packets"

\* The head of the loop: while !EXIT.
LoopHead == IF exit THEN "done" ELSE "packets"

\* consume_sigverify_signals, then the head of the loop.
\* process_failed_sigverify panics on an address that is not IPv4:
\* FailuresAreIpv4 says that it meets none.
ConsumeSignal ==
  /\ stage = "signals"
  /\ \/ /\ sigQ # <<>>
        /\ sigQ' = Tail(sigQ)
        /\ feedback' = feedback \cup {<<Head(sigQ).addr, FromLeBytes(Head(sigQ).addr)>>}
        /\ UNCHANGED stage
     \/ /\ sigQ = <<>>
        /\ stage' = LoopHead
        /\ UNCHANGED <<sigQ, feedback>>
  /\ UNCHANGED <<port, popped, inbound, recentQ, schQ, out, partial, recents, heap,
                 due, complete, stats, exit, forgotten, life, carried, arrivals>>

Tile == ConsumePacket \/ NextPort \/ ConsumeRecent \/ ConsumeMeta \/ ConsumeSignal

-----------------------------------------------------------------------------
(* The other processes (external): the validator's fetch stages, sigverify *)
(* and scheduler, as engine-ipc/src/main.rs imitates them, and the clock.  *)

Arrive ==
  /\ arrivals < MaxArrivals
  /\ arrivals' = arrivals + 1
  /\ \E i \in 1..Ports, p \in Packets :
       inbound' = [inbound EXCEPT ![i] = Produce(@, p)]
  /\ UNCHANGED <<tileVars, recentQ, schQ, sigQ, out, exit>>

\* A transmitted packet fails verification, or is reported to have been
\* executed or not; what was executed is confirmed later.
Sigverify ==
  /\ \E t \in out :
       /\ out' = out \ {t}
       /\ \/ sigQ' = Produce(sigQ, t.packet) /\ UNCHANGED <<schQ, recentQ>>
          \/ schQ' = Produce(schQ, PacketHash(t.packet)) /\ UNCHANGED <<sigQ, recentQ>>
          \/ /\ schQ' = Produce(schQ, PacketHash(t.packet))
             /\ recentQ' = Produce(recentQ, t.sig)
             /\ UNCHANGED sigQ
  /\ UNCHANGED <<tileVars, inbound, exit, arrivals>>

\* SEND_INTERVAL_MS pass.
Elapse ==
  /\ ~due /\ due' = TRUE
  /\ UNCHANGED <<stage, port, popped, inbound, recentQ, schQ, sigQ, out, partial,
                 recents, heap, complete, stats, exit, feedback, forgotten, life,
                 carried, arrivals>>

RaiseExit ==
  /\ AllowExit /\ ~exit /\ exit' = TRUE
  /\ UNCHANGED <<tileVars, inbound, recentQ, schQ, sigQ, out, arrivals>>

\* Hashes the process no longer knows of although their packets are underway.
Stale ==
  {PacketHash(t.packet) : t \in out} \cup {PacketHash(sigQ[i]) : i \in DOMAIN sigQ}
    \cup {schQ[i] : i \in DOMAIN schQ}

\* The process ends, by its exit or otherwise, and is started again with the same
\* seed.  The others keep their ends of the channels meanwhile.
Restart ==
  /\ life < MaxRestarts
  /\ life' = life + 1
  /\ stage' = "packets" /\ port' = 1 /\ popped' = 0
  /\ partial' = <<>> /\ recents' = <<>>
  /\ heap' = {} /\ due' = FALSE
  /\ complete' = 0
  /\ stats' = [s \in StatNames |-> 0]
  /\ exit' = FALSE
  /\ carried' = Cardinality(out) + Len(schQ)
  /\ forgotten' = Stale
  /\ UNCHANGED <<inbound, recentQ, schQ, sigQ, out, feedback, arrivals>>

Next == Tile \/ Arrive \/ Sigverify \/ Elapse \/ RaiseExit \/ Restart

Spec == Init /\ [][Next]_vars

\* The thread is never descheduled for good, and time passes.
FairSpec == Spec /\ WF_vars(Tile) /\ WF_vars(Elapse)

-----------------------------------------------------------------------------
(* Properties                                                              *)

\* Every packet taken from a channel is in exactly one place: one counter of
\* Stats, or the heap.  What was completed was transmitted before, by this
\* process or by the one that it replaced.
PacketsAccounted ==
  /\ stats["total_packets"] =
       stats["non_ipv4"] + stats["invalid_meta_size"] + stats["failed_sanitize"]
       + stats["failed_view"] + stats["invalid_packet_data"]
       + stats["recently_processed"] + stats["duplicate_packets"]
       + stats["leaked_priority"] + stats["recently_processed_queued"]
       + stats["banking_transmissions"] + Cardinality(heap)
  /\ stats["completed"] <= stats["banking_transmissions"] + carried

Count(q, x) == Cardinality({i \in DOMAIN q : q[i] = x})

\* The copies of a packet between its acceptance and the end of its processing.
InFlight(hash) ==
  Cardinality({t \in heap \cup out : PacketHash(t.packet) = hash})
    + Cardinality({i \in DOMAIN sigQ : PacketHash(sigQ[i]) = hash}) + Count(schQ, hash)

\* The cache of partial metas stops every copy of a packet that is queued, being
\* verified, or not yet reported on, as long as it did not have to evict it and
\* the process was not restarted meanwhile.
AtMostOneInFlight ==
  \A p \in Packets : PacketHash(p) \notin forgotten => InFlight(PacketHash(p)) <= 1

\* A report is credited to the sender of the packet it is about: while a
\* transaction is queued or being verified, a partial meta under its hash has the
\* address it came from, even if another sender sent the same transaction
\* ("Identical packets could come from a different ip/port"), whose copy would
\* otherwise replace the meta.
ReportsCreditSender ==
  \A t \in heap \cup out : \A i \in DOMAIN partial :
    partial[i].key = PacketHash(t.packet) => partial[i].value = FromLeBytes(t.packet.addr)

\* process_failed_sigverify's unreachable!: "ipv4 has been enforced by this
\* stage".
FailuresAreIpv4 == \A i \in DOMAIN sigQ : "not_ipv4" \notin sigQ[i].faults

\* A transaction known to be confirmed is not sent to sigverify, even if it was
\* confirmed while it was queued.
ConfirmedNeverSent ==
  [][\A t \in out' \ out : t.sig \notin KeysOf(recents)]_vars

\* No input starves: each channel that has something is emptied again.
InputsServed ==
  /\ \A i \in 1..Ports : inbound[i] # <<>> ~> (inbound[i] = <<>> \/ stage = "done")
  /\ (recentQ # <<>>) ~> (recentQ = <<>> \/ stage = "done")
  /\ (schQ # <<>>) ~> (schQ = <<>> \/ stage = "done")
  /\ (sigQ # <<>>) ~> (sigQ = <<>> \/ stage = "done")

\* The exit signal ends the loop of the process it was sent to.
ExitHonoured == exit ~> (stage = "done" \/ ~exit)

\* "Stores and prioritizes scored transactions, and periodically transmits them
\* to the sigverify stage": what is queued leaves the heap in the end.
PeriodicTransmission == (heap # {}) ~> (heap = {})

\* "Source is sending bad data. Reduce score": the feedback reaches the entry of
\* the sender's address, the one that partial metas and scoring use.
FeedbackReachesSender == \A f \in feedback : f[2] = FromLeBytes(f[1])
=============================================================================
