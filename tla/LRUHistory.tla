----------------------------- MODULE LRUHistory -----------------------------
(***************************************************************************)
(* LRUCache with a history of last uses: used[k] is the time at which get  *)
(* or put last touched key k.  The history never constrains the cache; it  *)
(* states what "least recently used" means without reference to the list.  *)
(***************************************************************************)
EXTENDS LRUCache

CONSTANT MaxClock   \* bound on the number of recorded uses

ASSUME MaxClockAssumption == MaxClock \in Nat

VARIABLES
  used,    \* the time of each key's last use
  clock    \* the time of the next use

hvars == <<cache, ret, used, clock>>

\* The rank of a slot: the last use of the key stored there.
LastUse(c, lastUse) ==
  [i \in Slots |-> IF c.nodes[i] = None THEN 0 ELSE lastUse[c.nodes[i].key]]

HInit ==
  /\ Init
  /\ used = [k \in Keys |-> 0]
  /\ clock = 1

Use(k) ==
  /\ clock < MaxClock
  /\ used' = [used EXCEPT ![k] = clock]
  /\ clock' = clock + 1

HGet(k) ==
  /\ Get(k)
  /\ IF cache.map[k] # None THEN Use(k) ELSE UNCHANGED <<used, clock>>

HContains(k) == Contains(k) /\ UNCHANGED <<used, clock>>

HPop(k) == Pop(k) /\ UNCHANGED <<used, clock>>

HPut(k, v) == Put(k, v) /\ Use(k)

HNext ==
  \E k \in Keys :
    \/ HGet(k)
    \/ HContains(k)
    \/ HPop(k)
    \/ \E v \in Values : HPut(k, v)

HSpec == HInit /\ [][HNext]_hvars

\* The linked list is always in the order of the last get or put of its keys,
\* although move_to_front, put, pop and evict only ever relink neighbours.
ListOrderIsLastUse == SortedBy(cache, LastUse(cache, used))

\* The key that a full put drops was used before every key that stays.
EvictsLeastRecentlyUsed ==
  [][\A k \in Keys : cache.map[k] # None /\ cache'.map[k] = None /\ ret'.op = "put" =>
       \A other \in Keys \ {k} : cache.map[other] # None => used[k] < used[other]]_hvars
=============================================================================
