---------------------------- MODULE MCGenerator -----------------------------
(* Instance of Generator for TLC: u32 scaled to 4 and u64 to 6 bits.        *)
EXTENDS Generator

ConstInstructions ==
  {[tag |-> "other", val |-> 7]}
    \cup {[tag |-> "limit", val |-> v] : v \in {0, 5, 15}}
    \cup {[tag |-> "price", val |-> v] : v \in {0, 9, 63}}
=============================================================================
