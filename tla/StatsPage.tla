------------------------------ MODULE StatsPage -----------------------------
(***************************************************************************)
(* What the statistics page promises the two processes that share it       *)
(* (common/src/shared_stats.rs): update, reset and read each happen at one *)
(* instant.  An update publishes all of the sidecar's counters, or, if a   *)
(* reset is pending, takes it and drops them.  A process that dies in a    *)
(* call jams the page for good: nobody reads what it left half written.    *)
(***************************************************************************)
EXTENDS Naturals

VARIABLES
  value,    \* the struct on the page, as two halves
  pending,  \* whether a reset is waiting to be taken
  count,    \* the counters of the sidecar
  shown,    \* what the interface read last
  jammed    \* whether a process died in a call

vars == <<value, pending, count, shown, jammed>>

\* A struct all of which was written at once.
Copy(n) == [lo |-> n, hi |-> n]

Structs == [lo : Nat, hi : Nat]

Init ==
  /\ value = Copy(0) /\ ~pending
  /\ count = 0 /\ shown = Copy(0)
  /\ ~jammed

CountEvent ==
  /\ count' = count + 1
  /\ UNCHANGED <<value, pending, shown, jammed>>

Publish ==
  /\ ~jammed /\ ~pending
  /\ value' = Copy(count)
  /\ UNCHANGED <<pending, count, shown, jammed>>

\* update returns true and main drops the counters.
TakeReset ==
  /\ ~jammed /\ pending
  /\ ~pending' /\ count' = 0
  /\ UNCHANGED <<value, shown, jammed>>

Reset ==
  /\ ~jammed
  /\ pending' /\ value' = Copy(0)
  /\ UNCHANGED <<count, shown, jammed>>

Read ==
  /\ ~jammed
  /\ shown' = value
  /\ UNCHANGED <<value, pending, count, jammed>>

\* A death outside of a call leaves the page alone.
Jam ==
  \/ UNCHANGED <<value, jammed>>
  \/ ~jammed /\ jammed' /\ value' \in Structs

SidecarDies == count' = 0 /\ Jam /\ UNCHANGED <<pending, shown>>

InterfaceDies == shown' = Copy(0) /\ Jam /\ UNCHANGED <<pending, count>>

Next ==
  \/ CountEvent \/ Publish \/ TakeReset \/ Reset \/ Read
  \/ SidecarDies \/ InterfaceDies

Spec == Init /\ [][Next]_vars
=============================================================================
