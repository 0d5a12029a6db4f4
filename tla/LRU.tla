--------------------------------- MODULE LRU --------------------------------
(***************************************************************************)
(* The abstract LRU cache: its state is the recency order of its entries.  *)
(* ret is what the last call returned: "hit" is the Boolean part (the key  *)
(* was present) and "entry" the entry handed back, None if there is none.  *)
(***************************************************************************)
EXTENDS LRUOrder

CONSTANTS Keys, Values, N, None

VARIABLES order, ret

vars == <<order, ret>>

Result(op, hit, entry) == [op |-> op, hit |-> hit, entry |-> entry]

Init ==
  /\ order = <<>>
  /\ ret = Result("new", FALSE, None)

Get(k) ==
  \/ /\ k \in KeysOf(order)
     /\ order' = Touch(order, k, EntryOf(order, k).value)
     /\ ret' = Result("get", TRUE, EntryOf(order, k))
  \/ /\ k \notin KeysOf(order)
     /\ ret' = Result("get", FALSE, None)
     /\ UNCHANGED order

Contains(k) ==
  /\ ret' = Result("contains", k \in KeysOf(order), None)
  /\ UNCHANGED order

Pop(k) ==
  /\ order' = Without(order, k)
  /\ ret' = IF k \in KeysOf(order)
              THEN Result("pop", TRUE, EntryOf(order, k))
              ELSE Result("pop", FALSE, None)

Put(k, v) ==
  /\ order' = PutOrder(order, k, v, N)
  /\ ret' = Result("put", k \in KeysOf(order),
                   IF Evicts(order, k, N) THEN Victim(order) ELSE None)

Next ==
  \E k \in Keys :
    \/ Get(k)
    \/ Contains(k)
    \/ Pop(k)
    \/ \E v \in Values : Put(k, v)

Spec == Init /\ [][Next]_vars
=============================================================================
