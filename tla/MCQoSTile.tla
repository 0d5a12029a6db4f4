----------------------------- MODULE MCQoSTile ------------------------------
(* Instance of QoSTile for TLC: two transactions, one of which is sent      *)
(* from both addresses, that are each other's byte reversal, and a packet   *)
(* that is turned away.                                                     *)
EXTENDS QoSTile

Packet(data, addr, sig, faults) ==
  [data |-> data, addr |-> addr, sig |-> sig, faults |-> faults]

ConstPackets ==
  {Packet(1, <<1, 0>>, 1, {}), Packet(2, <<0, 1>>, 2, {}),
   Packet(1, <<0, 1>>, 1, {}), Packet(4, <<1, 0>>, 3, {"not_ipv4"})}

\* For the questions about classification and feedback: one transaction and one
\* packet for every check that can fail.
FaultyPackets ==
  {Packet(1, <<1, 0>>, 1, {}), Packet(2, <<0, 1>>, 2, {"malformed"}),
   Packet(3, <<1, 0>>, 1, {"no_payer"}), Packet(4, <<1, 0>>, 3, {"not_ipv4"}),
   Packet(5, <<1, 0>>, 3, {"oversize", "no_data"}), Packet(6, <<1, 0>>, 3, {"no_data"}),
   Packet(7, <<1, 0>>, 3, {"unsanitary"})}

\* Two transactions and nothing else.
SmallPackets == {Packet(1, <<1, 0>>, 1, {}), Packet(2, <<0, 1>>, 2, {})}

\* For the liveness questions: a second transaction besides.
MixedPackets == FaultyPackets \cup {Packet(8, <<0, 1>>, 2, {})}
=============================================================================
