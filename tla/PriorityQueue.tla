---------------------------- MODULE PriorityQueue ---------------------------
(***************************************************************************)
(* The bounded priority queue of minmax/src/lib.rs as pure operators.  A   *)
(* heap is a finite set of transactions, records with fields id (which     *)
(* arrival this is), score and sig (the key of the first signature).       *)
(* Ord on ScoredTransaction looks at the score only, so which of several   *)
(* transactions of equal score leaves first is left open.                  *)
(***************************************************************************)
EXTENDS Integers, FiniteSets

Least(h) == {t \in h : \A u \in h : t.score <= u.score}

\* A plausible slip: the comparison in push is against N + 1.
PushOffByOne(h, t, cap) ==
  LET full == h \cup {t}
  IN  IF Cardinality(full) = cap + 1
        THEN {[heap |-> full \ {m}, leaked |-> {m}] : m \in Least(full)}
        ELSE {[heap |-> full, leaked |-> {}]}

\* A plausible slip: the incoming transaction is turned away when full.
PushTurnAway(h, t, cap) ==
  {IF Cardinality(h) + 1 = cap
     THEN [heap |-> h, leaked |-> {t}]
     ELSE [heap |-> h \cup {t}, leaked |-> {}]}

\* MinMaxHeap::push: what is left in a heap of capacity cap after pushing t,
\* with the transaction that pop_min took out again, if any.
Push(h, t, cap) ==
  LET full == h \cup {t}
  IN  IF Cardinality(full) = cap
        THEN {[heap |-> full \ {m}, leaked |-> {m}] : m \in Least(full)}
        ELSE {[heap |-> full, leaked |-> {}]}

\* A plausible slip: the filter is missing.
FreshAll(h, recent) == h

\* The filter of the high priority iterator: not recently processed.
Fresh(h, recent) == {t \in h : t.sig \notin recent}

\* PopDesc filtered by the recent signatures and cut off by take(max): the
\* sets p of transactions the loop over this iterator may pop.  Transactions
\* leave by descending score.  The ones already confirmed are popped without
\* being sent.  take stops pulling as soon as max are sent, so the last one
\* popped is one that is sent; before that it goes on until the heap is empty.
Drains(h, recent, max) ==
  {p \in SUBSET h :
     LET sent == Fresh(p, recent)
     IN  /\ \A t \in p, u \in h \ p : u.score <= t.score
         /\ Cardinality(sent) <= max
         /\ Cardinality(sent) < max => p = h
         /\ Cardinality(sent) = max => p = {} \/ \E t \in sent : t \in Least(p)}
=============================================================================
