------------------------ MODULE TransactionContainer ------------------------
(***************************************************************************)
(* The TransactionContainer of qos-core/src/banking.rs: it keeps scored    *)
(* transactions in the bounded heap of PriorityQueue and hands a batch of  *)
(* at most max_send of the best ones to the sigverify stage, at most once  *)
(* per SEND_INTERVAL_MS.  The caller decides when queue, maybe_transmit    *)
(* and maybe_retrieve are called; time passes and signatures are confirmed *)
(* in between.  The history variables record what left the heap, when, and *)
(* how many transactions had been queued by then.                          *)
(***************************************************************************)
EXTENDS PriorityQueue

CONSTANTS
  HeapCapacity,  \* the const generic of MinMaxHeap (16384)
  TargetPps,     \* --target-pps
  Interval,      \* SEND_INTERVAL_MS
  Second,        \* milliseconds per second
  Scores,        \* the scores a transaction may have
  Sigs,          \* first signatures, as u64 keys
  MaxQueued,     \* bound on the number of queue calls
  MaxNow         \* bound on the clock

ASSUME ContainerAssumption ==
  /\ HeapCapacity \in Nat \ {0}
  /\ TargetPps \in Nat
  /\ Interval \in Nat \ {0}
  /\ Second \in Nat \ {0}
  /\ Scores \subseteq Nat
  /\ MaxQueued \in Nat
  /\ MaxNow \in Nat

VARIABLES
  heap,         \* priority_queue_heap
  now,          \* the time in ms since the container was made
  last_send,    \* the time at which the timer last_send was made
  recent,       \* the keys in the recent_signatures cache
  stats,        \* the counters of Stats that the container updates
  queued,       \* history: the number of transactions queued so far
  leaked,       \* history: what push evicted
  sent,         \* history: what maybe_transmit pushed to the transmitter
  retrieved,    \* history: what maybe_retrieve handed to its caller
  skipped       \* history: what was dropped as recently processed

vars == <<heap, now, last_send, recent, stats, queued, leaked, sent, retrieved,
          skipped>>

MaxSend == (TargetPps * Interval) \div Second

Tx == [id : 1..MaxQueued, score : Scores, sig : Sigs]

\* The history of a set of transactions that leave the heap in this step.
Left(s, n) == {[tx |-> t, at |-> n, time |-> now] : t \in s}

Init ==
  /\ heap = {}
  /\ now = 0
  /\ last_send = 0
  /\ recent = {}
  /\ stats = [leaked_priority |-> 0, recently_processed_queued |-> 0,
              banking_transmissions |-> 0]
  /\ queued = 0
  /\ leaked = {} /\ sent = {} /\ retrieved = {} /\ skipped = {}

Queue ==
  /\ queued < MaxQueued
  /\ \E score \in Scores, sig \in Sigs :
       LET t == [id |-> queued + 1, score |-> score, sig |-> sig]
       IN  \E r \in Push(heap, t, HeapCapacity) :
             /\ heap' = r.heap
             /\ leaked' = leaked \cup Left(r.leaked, queued + 1)
             /\ stats' = [stats EXCEPT !.leaked_priority =
                                         @ + Cardinality(r.leaked)]
  /\ queued' = queued + 1
  /\ UNCHANGED <<now, last_send, recent, sent, retrieved, skipped>>

SendTick == now - last_send >= Interval

\* A plausible slip: a confirmed transaction is passed over but not popped.
SkipPeeking(known, p) ==
  /\ heap' = heap \ Fresh(p, known)
  /\ skipped' = skipped \cup Left(p \ Fresh(p, known), queued)

\* What leaves the heap without being handed on, in the loop over the high
\* priority iterator.
Skip(known, p) ==
  /\ heap' = heap \ p
  /\ skipped' = skipped \cup Left(p \ Fresh(p, known), queued)

\* A plausible slip: the timer restarts only after a full batch.
MaybeTransmitFullBatch ==
  /\ SendTick
  /\ \E p \in Drains(heap, recent, MaxSend) :
       LET n == Cardinality(Fresh(p, recent))
       IN  /\ Skip(recent, p)
           /\ sent' = sent \cup Left(Fresh(p, recent), queued)
           /\ stats' = [stats EXCEPT
                          !.banking_transmissions = @ + n,
                          !.recently_processed_queued = @ + Cardinality(p) - n]
           /\ last_send' = IF n = MaxSend THEN now ELSE last_send
  /\ UNCHANGED <<now, recent, queued, leaked, retrieved>>

\* maybe_transmit, with a transmitter.  last_send moves only if something was
\* sent.
MaybeTransmit ==
  /\ SendTick
  /\ \E p \in Drains(heap, recent, MaxSend) :
       LET n == Cardinality(Fresh(p, recent))
       IN  /\ Skip(recent, p)
           /\ sent' = sent \cup Left(Fresh(p, recent), queued)
           /\ stats' = [stats EXCEPT
                          !.banking_transmissions = @ + n,
                          !.recently_processed_queued = @ + Cardinality(p) - n]
           /\ last_send' = IF n > 0 THEN now ELSE last_send
  /\ UNCHANGED <<now, recent, queued, leaked, retrieved>>

\* maybe_retrieve: last_send moves on every tick and banking_transmissions
\* not at all.  The iterator is lazy: a caller who drops it after limit items
\* pops no further.  Without a cache of recent signatures nothing is filtered.
MaybeRetrieve(known) ==
  /\ SendTick
  /\ \E limit \in 0..MaxSend : \E p \in Drains(heap, known, limit) :
       /\ Skip(known, p)
       /\ retrieved' = retrieved \cup Left(Fresh(p, known), queued)
       /\ stats' = [stats EXCEPT
                      !.recently_processed_queued =
                         @ + Cardinality(p) - Cardinality(Fresh(p, known))]
  /\ last_send' = now
  /\ UNCHANGED <<now, recent, queued, leaked, sent>>

\* Either call before the interval is over.
TooEarly == ~SendTick /\ UNCHANGED vars

\* The caller puts a confirmed signature into recent_signatures.
Confirm ==
  /\ \E sig \in Sigs \ recent : recent' = recent \cup {sig}
  /\ UNCHANGED <<heap, now, last_send, stats, queued, leaked, sent, retrieved,
                 skipped>>

Tick ==
  /\ now < MaxNow
  /\ now' = now + 1
  /\ UNCHANGED <<heap, last_send, recent, stats, queued, leaked, sent, retrieved,
                 skipped>>

Next ==
  \/ Queue
  \/ MaybeTransmit
  \/ MaybeRetrieve(recent)
  \/ MaybeRetrieve({})
  \/ TooEarly
  \/ Confirm
  \/ Tick

Spec == Init /\ [][Next]_vars

-----------------------------------------------------------------------------
(* Properties                                                              *)

TypeOK ==
  /\ heap \subseteq Tx
  /\ now \in 0..MaxNow
  /\ last_send \in 0..now
  /\ recent \subseteq Sigs
  /\ stats \in [leaked_priority : Nat, recently_processed_queued : Nat,
                banking_transmissions : Nat]
  /\ queued \in 0..MaxQueued
  /\ \A s \in {leaked, sent, retrieved, skipped} :
       s \subseteq [tx : Tx, at : 0..MaxQueued, time : 0..now]

\* The heap holds at most N - 1 items outside of push (the comment in
\* minmax/src/lib.rs), so with_capacity(N) never has to grow.
HeapBelowCapacity == Cardinality(heap) < HeapCapacity

Since(t) == {e \in sent \cup retrieved : e.time >= t}

\* In every window of time, not only on average, the transactions handed on by
\* maybe_transmit and maybe_retrieve stay within target_pps, up to one batch.
RateWithinTarget ==
  \A t \in 0..now :
    Cardinality(Since(t)) * Second <= TargetPps * (now - t + Interval)

Gone == leaked \cup skipped \cup sent \cup retrieved

\* Every queued transaction is in the heap, or was evicted by push, dropped as
\* recently processed, sent or retrieved: exactly one of them, exactly once, and
\* the counters that main logs agree.
EveryTransactionAccounted ==
  /\ \A id \in 1..queued : \E t \in heap \cup {e.tx : e \in Gone} : t.id = id
  /\ \A t, u \in heap \cup {e.tx : e \in Gone} : t.id = u.id => t = u
  /\ \A e \in Gone : e.tx \notin heap
  /\ \A e, f \in Gone : e.tx = f.tx => e = f
  /\ leaked \cap skipped = {}
  /\ sent \cap retrieved = {}
  /\ (leaked \cup skipped) \cap (sent \cup retrieved) = {}
  /\ stats.leaked_priority = Cardinality(leaked)
  /\ stats.recently_processed_queued = Cardinality(skipped)
  /\ stats.banking_transmissions = Cardinality(sent)

\* A transaction that was in the heap when another one left it, and is still
\* there, is no better than one that was handed on and no worse than one that
\* was evicted: priority is never inverted by what happens in between.
NoPriorityInversion ==
  \A t \in heap :
    /\ \A e \in sent \cup retrieved : t.id <= e.at => t.score <= e.tx.score
    /\ \A e \in leaked : t.id <= e.at => e.tx.score <= t.score
=============================================================================
