# A TLA+ verification of the QoS sidecar

The repository is a *sidecar* that sits between a Solana validator's packet
ingress and its signature verification: it scores inbound transactions by sender
and fee, keeps the best in a bounded queue, and hands them on at a limited rate.
It is one thread that loops over shared-memory channels; the validator's stages
run beside it and answer in their own time.

This directory holds TLA+ modules translated from the code, TLC models for small
instances, and TLAPS proofs for all instances. `PROJECT.json` maps every
definition to the lines it models.

## 1. Inventory

| part | state | operations | concurrency, faults, bounds | assertions and comments |
|---|---|---|---|---|
| LRU cache `lru/` | node array, map, free list, head, tail | `new`, `get`, `contains`, `pop`, `put` (private `move_to_front`, `evict`) | sequential; every access unchecked; full cache evicts | `_ASSERT_NONZERO`, doc of `put`'s four results |
| priority queue `minmax/` | a min-max heap | `push`, `get_max_values` | evicts the minimum at N | "heap holds up to N - 1 items" |
| container `qos-core/src/banking.rs` | heap, timer, `max_send` | `queue`, `maybe_transmit`, `maybe_retrieve`, `beat` | rate limit; signatures confirmed while queued | "periodically transmits" |
| packet classification `qos-core/src/lib.rs` | partial meta cache, counters | `try_process_packet` | eight ways to fail, in order | "Reduce score" |
| fees `qos-core/src/lib.rs` | a loop over instructions | `total_fee` | 64- and 128-bit arithmetic | "strictly bound compute" |
| score model `model/` | two tables, each a tree and its inverse | `forward`, `ip_feedback`, `update_model`, `prune`, `add_*` | trees of fixed capacity | "keeping most valuable and least valuable" |
| stake model `model/` | as above, plus stakes | as above | not used by the sidecar | "Multiplier bounded between 1 and 2" |
| main loop `qos/src/main.rs` | all of the above | four consume functions, exit | interleaves with the validator at every pop; rings lose old messages; the process restarts while messages wait | `unreachable!("ipv4 has been enforced ...")` |
| statistics page `common/` | lock, struct, reset flag | `update`, `read`, `reset` | two processes that may die in a call | "not robust" |
| engine counters `common/`, `engine-ipc/` | three atomics and three locals | batch publication, `load` | two threads | |
| start-up `cli/`, `qos/`, `engine-ipc/`, `common/src/lib.rs` | which shared memory exists, user and group | joins, creations, `checked_drop_privileges` | three programs in any order; a failed `unwrap` ends one | "circular IPC topology", "privileges are dropped" |
| traffic engine `engine/src/lib.rs`, mpsc wrapper `mpsc/` | one channel per generator, index `last` | `pop`, `funnel_into_ipc` | generators push during a pop; channels overflow; the consumer leaves | "unfair, non-fifo", "single consumer" |
| generated packets `engine/src/agent.rs` | one packet per thread | `update_transfer_with_priority` | overwritten in place by good and bad ips | |
| timer, demos, analysis | | | not part of the sidecar's protocol | |

What is hard to test here is listed, line by line, under `hazards` in
`PROJECT.json`.

## 2. How the parts interact

The creator (`cli`) makes the channels. The sidecar (`qos`) and the validator,
here the mock in `engine-ipc`, join them (or create those they produce into). Two traffic engines of the mock push
generated packets towards the sidecar, which classifies, scores, queues and
transmits them. The mock's banking thread takes what the sidecar transmits and
answers on three channels: failed signatures, reports, confirmed signatures. The
answers update caches and score model. In the demo build the sidecar publishes its
counters on a shared page that the mock's terminal interface reads.

`Startup` covers the first two sentences, `Funnel` (composed with `Startup`) and
`Generator` the third, `QoSTile` the fourth to sixth, the score models the effect on
scores, and `DemoStats` (composed of `SharedStats` and `EngineStats`) the last.

## 3. Modules

| module | models | role |
|---|---|---|
| `LRUOrder` | LRU promises as operators on a recency order | used by `LRU`, `QoSTile` |
| `LRU` | the abstract cache | refined by `LRUCache` |
| `LRUCache` | `lru/src/lib.rs` | one action per public operation |
| `LRURefinement` | mapping from linked list to recency order | `MCLRUCache` |
| `LRUHistory` | `LRUCache` and the time of each key's last use | states "least recently used" without the list |
| `LRUListProofs` | the private steps of the cache | lemmas |
| `LRUOrderProofs` | the calls, and the list as a sequence of slots | inductive invariants and their step lemmas |
| `LRUCacheProofs` | | theorems on `LRUCache`, `LRUHistory` and the refinement |
| `PriorityQueue` | `minmax/src/lib.rs` and the draining iterator | operators on finite sets |
| `TransactionContainer` | `qos-core/src/banking.rs` | one action per call |
| `TransactionContainerProofs` | | lemmas on the heap's operations, theorems |
| `TransactionFee` | `total_fee` | one step per instruction |
| `Generator` | `engine/src/agent.rs`, and the mock sigverify | generated packets, from their update to fee and verdict |
| `ScoreTable`, `IpSignerModel` | `model/src/models/ip_signer.rs` | one table; the model with two of them |
| `IpSignerStakeModel` | `model/src/models/ip_signer_stake.rs` | `IpSignerModel` and the stakes |
| `ScoringProofs` | | theorems on fees, generated packets and both score models |
| `QoSTile` | `qos/src/main.rs`, `try_process_packet`, `packet_hash` | the composition |
| `QoSTileProofs` | | theorems |
| `SharedStats` | `SharedStats` of `common/src/shared_stats.rs` | two processes, one step per access |
| `StatsPage` | | abstract: calls on the page that happen at one instant |
| `EngineStats` | `EngineStats` of the same file, the counters of `engine-ipc/src/main.rs` | two threads, one step per atomic |
| `DemoStats` | `engine-ipc/src/tui.rs` | the composition of the two |
| `DemoStatsProofs` | | theorems |
| `Startup` | `cli/src/main.rs`, `join_ipc`, `checked_drop_privileges`, the heads of the `main`s | three programs, one step per join or creation |
| `Funnel` | `mpsc/src/lib.rs`, `engine/src/lib.rs` | generators, the merging consumer and its loop, composed with `Startup` |
| `FunnelProofs` | | theorems on `Funnel` and `Startup` |

`MC*` modules and `.cfg` files give the constants values. Operators commented as
"a plausible slip" are deliberately wrong variants of the definition that follows
them; no specification uses them. Each shows that some property would notice
that mistake (`mutants` in `PROJECT.json`).

### How state and actions correspond to the code

**LRUCache.** `cache` is the struct; `nodes[i]` is a node or `None`, links are
indices or `None`. The private functions are operators on the struct (`MoveToFront`,
`Evict`, `InsertFront`, `Remove`), the public ones actions. `ret` is the value
returned. The hash map is a function from keys to an index or `None`.

**TransactionContainer.** The heap is a set of transactions; since `Ord` looks at
the score only, ties are broken in every way. `Drains` is the set of possible
results of `get_max_values().filter(..).take(max_send)` run to its end: what is
confirmed is popped and dropped, `take` stops pulling at its limit. The timer is
the clock reading at which it was made. Histories record what left, when.

**QoSTile.** One step per `pop` of a channel, with everything the code does before
the next `pop`; the other processes act between any two steps. Addresses are
sequences of two octets so that `to_bits` and `from_le_bytes` differ as in the
code. A channel is a bounded sequence that drops its oldest element when full
(`que`'s producer never waits). The validator (`Sigverify`) answers each
transmitted transaction at any time, in any order or never: it fails
verification, is not scheduled, or is scheduled and confirmed, as in
`engine-ipc/src/main.rs`. The model is of the build without the `demo` feature.
`PacketHash` keeps what the preimage is made of, payload and address, and leaves
port and flags out as the code does; that different preimages have different
hashes is assumed. `Restart` ends the process at any step: everything in its memory
starts anew, what is in the channels stays, and reports of the earlier life may
complete metas of the new one (`carried` and `forgotten` record how many and which).

**IpSignerModel.** Scores are integers in hundredths and divisions round down; the
shape of the red-black trees is reduced to where their root may be. `prune` is one
step per iteration; `PruneArgs` is the pair of limits that `update_model` hands to it.

**IpSignerStakeModel.** The file repeats `ip_signer.rs` but for the stakes, so each
action conjoins one of `IpSignerModel` with what happens to `total_stake` and
`stake_lookup`; `update_model` stores them when pruning is done. The multiplier is
kept as a fraction. `StakingsAssumption` says what callers are trusted with: a
positive total that no stake exceeds. With the stakes left out, a behaviour of it
is one of `IpSignerModel`, and conversely, so one run answers for both models.

**Generator.** The buffer is reduced to the fields that are written, each with its
offset and length; a write spoils the fields it overlaps. The updates for good and
for bad ips are sets of possible packets. The first packet is an arbitrary
transaction, so that the run covers the fee of any packet too.

**Startup.** Each program is a sequence of operations on names of shared memory
(`Cli`, `Qos`, `EngineIpc`), executed one per step. Joining what does not exist ends
the program, as does dropping privileges without being root; a program that ended
may be started again. `gid` is the primary group, which is all that
`checked_drop_privileges` sets; supplementary groups are not modelled. Consecutive joins are one step, which is explained at `Join`.

**Funnel.** A pop visits one channel per step. `VisitOrder` is the chain of the two
halves of `split_at_mut(last)`, in the code's order, so a pop always begins with
the first channel. The timer is the flag `due`, set every five seconds and cleared
where `last_check` is stored; `beat` is what `consumer_heartbeat` looks at. The
demo's two engines share the rings (run `generator_rings`), so `Generate` is a push of
either engine's generator, and the other engine's funnel may take an entry out of any
ring between any two steps (`OtherPop`), or never: where its own scan stands is left
open, which allows it more than the code does. The histories `lost` and `taken` record
the pushes that were overwritten and those that the other funnel took. A push and a pop
of `que`'s ring are one step each; what `que` does when two threads push into one ring
at once is outside this repository.

**SharedStats, EngineStats, DemoStats.** Each access to the page or to an atomic is a
step; the struct is copied in two halves. Histories count resets and say after which
of them the sidecar's counters were begun. A process dies at any step, with the lock
if it holds it, and is started again. Sequential consistency is assumed: the code
runs on x86_64, where `compare_exchange` is a full barrier, and the compiler treats
one with release ordering as touching all memory. The relaxed loads of `load` are in
program order on that machine.

## 4. Runs

| run | shows | bounds |
|---|---|---|
| `lru` | unchecked accesses defined; representation invariant; refinement of `LRU`; recency order; only the least recently used is evicted | 3 slots, 4 keys, 2 values, 7 uses: eviction after every order of uses of a full list |
| `container` | capacity, rate in every window, accounting, priority | heap of 3 (holds 2), batches of 2, 4 transactions with 2 scores and 2 signatures, 2 intervals |
| `packets` | the fee is exact whenever it fits, below the cost of the signatures when it wraps, and made of the price sampled for the packet; bad ips do not spoil the packets of good ones | u32 and u64 scaled to 4 and 6 bits, 4 instructions of which 3 are read; 2 good ips and a bad one, any number of packets |
| `score_model` | trees mirror each other; capacities at all times and each table's own limit when an update returns; pruning from the middle; range; stake multiplier between 1 and 2 | 4 ips and 4 signers; ips with capacity 3 and pruned to 2, signers with capacity 4 and pruned to 3, so that neither limit stands in for another; 3 calls, every batch; two stakings that contradict each other |
| `tile` | accounting, duplicates, credit to the sender, late confirmation | 4 arrivals of 4 packets, two of them the same transaction from two senders; every cache, ring and the heap overflow |
| `tile_liveness` | accounting, duplicates and address family across a restart, channels served, exit honoured | 2 channels with a share of 1, 8 packets with every fault, 2 arrivals, 1 restart |
| `demo_stats` | the page implements an atomic one (`StatsPage`), no torn read, no reset undone, exact and ordered counters, wrap-around only when torn, the lock is freed | 1 event (enough to tell old counters from new), 1 death of either process at any step and its restart, any number of reads; 3 packets in batches of 2 |
| `engine` | on huge pages programs come up in any order, unprivileged; no waiting packet overlooked, order, every missing push overwritten or taken by the other funnel, counts | 2 rings with 3 pushes together, of capacity 2 (one overflows), rounds of 2, any number of pops by the other funnel, 1 kill of the sidecar |

Four runs show where the code differs from what the repository says (`findings`):

* `tile_feedback`: `try_process_packet` reports unparsable data under
  `ipv4.to_bits()` while everything else keys addresses with
  `u32::from_le_bytes`, so the feedback misses the sender (and may hit the sender
  with the reversed address).
* `tile_periodic`: `maybe_transmit` is called only after an accepted packet;
  without one, queued transactions stay queued.
* `standard_pages`: `README.md:62` says that creating the channels is "only necessary
  if using huge pages". Without huge pages the sidecar and the mock validator, started
  again and again, never come up: nobody creates the two `re` channels, and each of the
  two programs joins a channel of the other before it creates its own.
  (`ipc_parameters.rs` calls the topology circular.) The statement is checked of the
  programs in this repository; a validator that creates the channels is not one of them.
* `generator_rings`: both traffic engines open their rings as `tpu_engine_000` and so
  on, so each ring has two consumers (and two producers), where `mpsc` promises one.

Things met while modelling that are no finding of a run:

* A funnel that stopped because the sidecar was away for five seconds does not start
  again, although its comment says "This blocks forever!". One step shows it
  (`CheckConsumer`), so there is no run for it.
* `README.md:30` says that feedback reduces the score of the source ip. `ip_feedback`
  does nothing for an ip that is not in the table, which one call shows as well.
* The differences in the interface are of `usize` values loaded one by one, so they
  wrap around when a batch is published in between (`WrapsOnlyWhenTorn` bounds when).
* Quitting the interface does not end the mock validator: its banking thread does not
  return.
* Packets of a bad ip that are neither cut nor marked keep size and last byte of the
  packet before.

**Deadlock** is checked everywhere but in `tile_liveness`, `engine`, `standard_pages`
and `generator_rings`, where programs really end, and in `demo_stats`, where a process that
died with the lock stops both for good. `TooEarly` and
`Forward` are calls that change nothing, so a run does not end merely because a bound
is reached.

**Fairness.** In `QoSTile` (`FairSpec`): weak fairness of the sidecar's own steps (it
is a busy loop that never blocks) and of time. Nothing is assumed of the validator or
of arriving packets. Because arrivals are bounded, `InputsServed` says that channels
are emptied once traffic pauses; under traffic that never pauses the stages that drain
a channel completely may not end. In `Startup` (`StartupFairSpec`) and `Funnel`: weak
fairness of each program's start-up (`Proceed`), as it never waits for anything and is
started again when it failed; a killed sidecar may stay down, and nothing is assumed of
generators, funnels or heartbeats. In `DemoStats`: weak fairness of each process's use of the page (neither blocks in
a call but in the loop of `take`, which need not succeed while the lock keeps
changing hands); nothing is assumed of events, of loads (an interface that quits
loads nothing more), of deaths or of restarts.

## 5. Proofs

Every safety property that a passing run checks, and the refinement of the abstract
cache and of the atomic statistics page, is also a theorem: TLC shows it on the instance of the run, TLAPS for arbitrary
constants under the named assumptions of the modules (`CapacityAssumption`,
`NoneAssumption`, `MaxClockAssumption`, `ContainerAssumption`, `TileAssumption`,
`BoundsAssumption`, `BatchAssumption`, `StartupAssumption`, `FunnelAssumption`,
`FeeAssumption`, `GeneratorAssumption`, `ModelAssumption`, `StakingsAssumption`).
They say of which kind the constants are: capacities, costs and bounds are natural
numbers, positive where the code divides by them or indexes with them. Four say more:
`FeeAssumption` takes a signature to cost something and all of a transaction's
signatures to cost less than the machine's width (5000 times at most 255),
`ModelAssumption` takes the set of transactions to be finite, `StakingsAssumption`
trusts the callers with stakes as described above, and `GeneratorAssumption` keeps
good ips apart from bad ones and prices from the value of a spoilt field. The inductive
invariants `FunnelInv`, `StartInv`, `FeeInv`, `GenInv`, `ModelInv` and `StakeInv` were
checked with TLC on the instances of the runs before they were proved.

Where an argument is by induction over data, it is given as a least counterexample:
a nonempty set of numbers has a least element (`LeastNat`), a nonempty family of
subsets of a finite set a minimal one (`MinimalSet`).

**LRUListProofs, LRUOrderProofs, LRUCacheProofs.** The invariant the code relies on is a conjunction of
relations between fields (`Wellformed`): the free list holds each vacant slot once, the
map is the inverse of the stored keys, `prev` and `next` are mutually inverse with
`head` and `tail` at the ends. It is not enough on its own: that a full map has a
tail, and that the list has no cycle, needs an order on the slots. `Good(c, rank)`
adds that the list is sorted by some rank. Each private step preserves `Good` for
a suitable new rank (`MoveToFrontGood`, `RemoveGood`, `InsertFrontGood`,
`OverwriteGood`; `EvictIsRemove` reduces eviction to removal of the tail's key).
That a full map has a tail to evict and any other a free slot (`Room`) is counted
separately (`FullOrFree`: keys and occupied slots are in bijection). With any rank this gives `RepresentationHolds`, `MemorySafety` and the type
invariant `TypeCorrect` (proved only, no run repeats it);
with the time of last use as rank it gives `RecencyOrder` and
`EvictionIsLeastRecent`.

*The refinement* (`CacheImplementsLRU`). `RInv` adds to `Good` a sequence that lists the
occupied slots by falling rank (`Lists`). Such a sequence is the only walk along `next`
from the head, so it is what the mapping `Recency` reads off the list; each private
step moves one slot of it (`ToFront`, `Drop`, `Push`), which is what the operators of
`LRUOrder` do to the entries. Initial states map to initial states and every call to
the call of the same name.

**TransactionContainerProofs.** `IInv` joins the checked invariants with: all sets
are finite, histories lie in the past, and the rate bound up to `last_send`, with
no allowance for the interval since (`RateUpToLastSend`). The last is the
strengthening that makes the rate limit inductive: a new batch of at most
`max_send` is paid for by the interval since `last_send`
(`BudgetWithinTarget`, `BatchRate`). Theorems: `HeapStaysBelowCapacity`,
`RateLimit`, `PriorityRespected`, `Accounting`; the type invariant is a conjunct of
`IInv`. `SmallTargetSendsNothing` is about targets the run does not have: if `max_send`
rounds down to 0, an iterator cut off there pops nothing (`NothingDrained`).

**QoSTileProofs.** `TileInv` joins the accounting equation with: the heap is finite,
below its capacity and holds transactions of this life with numbers up to
`total_packets` (so a new one is new), the channels hold packets and hashes of packets,
nothing transmitted or failed has an address that is not IPv4, and
`ReportsCovered`: completed reports, waiting reports and packets being verified
together do not exceed what was transmitted or carried over from the life before. The
last is what makes `completed <= banking_transmissions + carried` inductive, as a
report moves from one term to the next. `PushCounts` and `BatchCounts`
say what a push and a drain do to the number of elements. Theorems: `EveryPacketIsAccounted`,
`FailuresStayIpv4`, `ConfirmedStayUnsent`.

`FlightInv` is about the cache of partial metas. A hash that was not given up (evicted,
or forgotten by a restart) is in at most one of four places, once: queued, being
verified, failed, or to be reported (`Alone`); and in none of them when the cache does
not have it. The second half is what is missing from `AtMostOneInFlight`: a new copy
is accepted just when the cache does not have the hash. With it, `OneCopyInFlight`.
`CreditGoesToSender` needs only that every cached entry has the address of a packet
with that hash, since the hash depends on the address.

**DemoStatsProofs.** The lock is taken exactly if somebody, alive or dead, holds it, and
a process between take and release is the holder. With this mutual
exclusion, the page is torn only while a writer is inside or died inside, in which case
nobody reads again (`ReadsAreSnapshots`), and old counters are published only while the
flag that stops them is set (`ResetsAreNotUndone`). For the mock validator the invariant
relates locals and atomics at every point of a publication. Theorems besides:
`CountersStayConsistent`, `WrapsAreTorn`.

*The refinement* (`CallsAreAtomic`). A call takes effect with its first access to the
struct, or with the clearing of the flag if it takes a reset: `PageValue`,
`LiveCount` and `LastShown` of `SharedStats` read the abstract state off the places the
two processes are in. What is missing from the invariant above is that update acts on
the flag as it tested it (`PageFlag`), which holds because only the lock's holder
touches it. A death inside a call maps to the step that jams the abstract page, after
which no call is a step of it, so that the theorem also says that nothing is read or
written any more.

**FunnelProofs.** Wherever `last` splits the channels, the two halves in the code's order
are all channels in order (`VisitOrderAll`). `FunnelInv` says of the running pop that
what it left behind in the channels it visited was pushed since it began (`Behind`),
which at the end of the scan is `NothingOverlooked`; and of each ring that what
went through, what waits and what is still to be pushed are in order, each number once
(`InOrder`), and that what went through and what waits are together all the pushes but
the lost and the taken ones (`Whole`), which is `OrderKept`. Order is what makes the second
part inductive: the entry that a push or the other funnel removes is in the ring once
and has not gone through before, so it is missing from then on (`HeadIsNew`,
`TailEntries`).
`AllSendsCounted` follows from the number of elements that a send adds, and
`FunnelTypes` is a part of the invariant. For the start-up, `StartInv` relates the
position of a program to what it has done: at its end it has given up group and user
(`PrivilegesDropped`), and on standard pages neither program gets past the join of a
channel that nobody has created (`CreatorNeeded`, which gives the counterexample of
`standard_pages` for every number of generators and kills).

**ScoringProofs.** *Fees and packets.* `FeeInv` says what the loop of `total_fee` has found among
the instructions read so far; at its end that is the first limit and the first price, and
modular arithmetic is exact below the modulus and wraps around once above it
(`WrapsOnce`), as the signatures alone cost less than the modulus (`FeeIsExact`). `GenInv` relates the
packet to the transaction that is being read: the writes of an update do not overlap
(`NoOverlap`), so the price that is read is the sampled one (`SampledPriceCounts`), and a
good ip restores size and last byte (`GoodIpsPass`).

*Score tables.* `GoodTable` says that a table is finite, within its capacity, has scores
between zero and the best value, and is mirrored by its inverse. Every operation
preserves it; that both trees refuse the same insertions when full needs that they are
of equal size, which mirroring gives (`MirrorSize`). `AdmittedFit` bounds the ids that an
update admits by the room there is. `CandidatesGood` bounds the averages of a batch:
sums over finite sets exist (`SumsExist`) and are bounded by the count times the best
value (`SumsBounded`), for batches of any size. `ModelInv` adds, during `prune`, that what is
left is a part of what there was, with both extremes (`Pruning`): in a tree of three or
more entries the root has one below and one above it, so it is neither. That an update
returns with each table within its own limit follows from where `prune` stops: the ips
are done before the signers are begun (`PruneSignersEffect`, `TableSizes`). Theorems:
`TreesMirror`, `TablesFit`, `ExtremesSurvive`, `ScoresInRange`. `StakesLeaveTables` proves that
a behaviour of the stake model is one of the plain model, so that the four hold of
both, and `MultiplierInRange` follows as the two stake fields come from one staking
(`StakeInv`).

**Only model-checked:** the liveness properties `InputsServed`, `ExitHonoured`,
`LockReleased` and `ComesUp`, because fairness is outside the prover's
reach; and the four runs that end in a counterexample.

## 6. Not modelled

* The two throughput demos (`ipc-demo`, `std-demo`) and `packet-analysis`: they
  measure channels or read files offline, and use only the helpers for time and set-up.
* Logging, the score and packet files, and what the interface draws: output only.
* `packet_bytes`, the hash function and the signature key's folding: pure conversions of
  bytes. What the hash depends on is modelled, its collisions are not.
* Floating-point rounding, and the value that `merge` computes: an arbitrary score to the
  tile, an arbitrary value to the score models.
* The internals of `que`, `sokoban` and `min_max_heap`: used through what their callers
  rely on. Heartbeats of the sidecar towards `sigverify` have no effect in this code.
* `update_payer_and_signature` of the generator, which nothing calls, and calibration of
  the timer.
* The state of the second engine's funnel: of it, only the entries it takes.
