----------------------------- MODULE EngineStats ----------------------------
(***************************************************************************)
(* The counters of the mock validator (EngineStats in                      *)
(* common/src/shared_stats.rs, STATS in engine/src/lib.rs): the mockBanking*)
(* thread of engine-ipc/src/main.rs counts what it receives in locals and  *)
(* adds them to three atomics once per batch, one fetch_add at a time; the *)
(* interface of engine-ipc/src/tui.rs loads them one at a time and shows   *)
(* their differences.  tpu_sends and fwd_sends are in module Funnel.       *)
(***************************************************************************)
EXTENDS Naturals

CONSTANTS
  Batch,      \* packets per publication, 32 * 1024
  MaxPops     \* bound on the packets received

ASSUME BatchAssumption == Batch \in Nat \ {0} /\ MaxPops \in Nat

VARIABLES
  STATS,      \* the atomics sigverify_recvs, sigverify_sends, scheduler_sends
  local,      \* received, failed and sched of the thread
  bankAt,     \* the thread's place: "pop", or the counter it adds to next
  popped,     \* history: all packets so far, by kind
  loaded,     \* the values the interface has loaded
  loadAt      \* the counter it loads next, or "draw"

bankVars == <<STATS, local, bankAt, popped>>
loadVars == <<loaded, loadAt>>
engineVars == <<bankVars, loadVars>>

Counters == {"recvs", "sends", "sched"}

NoCounts == [c \in Counters |-> 0]

EngineInit ==
  /\ STATS = NoCounts /\ local = NoCounts /\ popped = NoCounts
  /\ bankAt = "pop"
  /\ loaded = NoCounts /\ loadAt = "recvs"

-----------------------------------------------------------------------------
(* mockBanking                                                             *)

\* A packet fails signature verification, is scheduled, or is neither.
Kinds == {[recvs |-> 1, sends |-> 1, sched |-> 0],
          [recvs |-> 1, sends |-> 0, sched |-> 1],
          [recvs |-> 1, sends |-> 0, sched |-> 0]}

Plus(a, b) == [c \in Counters |-> a[c] + b[c]]

BatchFull(received) == received % Batch = 0

\* A plausible slip: failures are added before the packets they are among.
AddsFailuresFirst ==
  [pop |-> "sends", sends |-> "recvs", recvs |-> "sched", sched |-> "pop"]

\* The order of the fetch_adds.
AddsNext ==
  [pop |-> "recvs", recvs |-> "sends", sends |-> "sched", sched |-> "pop"]

\* One turn of the loop up to the test of received, with a packet...
MockPop ==
  /\ bankAt = "pop" /\ popped.recvs < MaxPops
  /\ \E kind \in Kinds : local' = Plus(local, kind) /\ popped' = Plus(popped, kind)
  /\ bankAt' = IF BatchFull(local'.recvs) THEN AddsNext["pop"] ELSE "pop"
  /\ UNCHANGED <<STATS, loadVars>>

\* ... and without one.
MockIdle ==
  /\ bankAt = "pop" /\ BatchFull(local.recvs)
  /\ bankAt' = AddsNext["pop"]
  /\ UNCHANGED <<STATS, local, popped, loadVars>>

\* A plausible slip: the local counter is not reset.
MockAddAgain(c) ==
  /\ bankAt = c /\ bankAt' = AddsNext[c]
  /\ STATS' = [STATS EXCEPT ![c] = @ + local[c]]
  /\ UNCHANGED <<local, popped, loadVars>>

MockAdd(c) ==
  /\ bankAt = c /\ bankAt' = AddsNext[c]
  /\ STATS' = [STATS EXCEPT ![c] = @ + local[c]]
  /\ local' = [local EXCEPT ![c] = 0]
  /\ UNCHANGED <<popped, loadVars>>

MockBanking == MockPop \/ MockIdle \/ \E c \in Counters : MockAdd(c)

-----------------------------------------------------------------------------
(* The interface                                                           *)

LoadsNext == [recvs |-> "sends", sends |-> "sched", sched |-> "draw"]

Load(c) ==
  /\ loadAt = c /\ loadAt' = LoadsNext[c]
  /\ loaded' = [loaded EXCEPT ![c] = STATS[c]]
  /\ UNCHANGED bankVars

\* The values are used for one frame.
Forget ==
  /\ loadAt = "draw" /\ loadAt' = "recvs"
  /\ loaded' = NoCounts
  /\ UNCHANGED bankVars

-----------------------------------------------------------------------------
(* Properties                                                              *)

\* At any point of a publication, although the three counters are not updated
\* together: nothing is counted twice or lost between the locals and the atomics,
\* and in the atomics failed and scheduled packets never outnumber the received.
CountersConsistent ==
  /\ popped = Plus(STATS, local)
  /\ STATS.sends + STATS.sched <= STATS.recvs

\* The difference the interface shows is negative (so wraps around) only if a
\* batch was published between its first and its last load.
WrapsOnlyWhenTorn ==
  loadAt = "draw" /\ loaded.recvs < loaded.sends + loaded.sched
    => STATS.recvs > loaded.recvs
=============================================================================
