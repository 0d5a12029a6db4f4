--------------------------- MODULE TransactionFee ---------------------------
(***************************************************************************)
(* total_fee of qos-core/src/lib.rs: the loop over the first instructions  *)
(* of a transaction that looks for the compute budget program's limit and  *)
(* price, one step per instruction, and the fee computed from them in      *)
(* machine arithmetic.  An instruction is reduced to its tag: "limit" and  *)
(* "price" for a compute budget instruction of the right length and        *)
(* discriminator, "other" for everything else, with the value read from    *)
(* its data.  Widths are scaled: U64 stands for 2^64.                      *)
(***************************************************************************)
EXTENDS Integers, Sequences

CONSTANTS
  Instructions,  \* [tag, val]: the instructions that may occur
  MaxLen,        \* bound on the number of instructions
  FirstIxs,      \* how many are looked at (8)
  MaxSignatures, \* bound on the number of signatures
  SIGNATURE_COST,\* 5000
  DEFAULT_CUS,   \* 200_000
  MICRO,         \* price units per lamport, 1_000_000
  U64,           \* 2^64
  None           \* Option::None

ASSUME FeeAssumption ==
  /\ \A ix \in Instructions : ix.val \in Nat
  /\ MaxLen \in Nat /\ FirstIxs \in Nat \ {0} /\ MaxSignatures \in Nat \ {0}
  /\ SIGNATURE_COST \in Nat \ {0} /\ DEFAULT_CUS \in Nat
  /\ MICRO \in Nat \ {0} /\ U64 \in Nat \ {0}
  /\ SIGNATURE_COST * MaxSignatures < U64
  /\ None \notin Nat

VARIABLES
  ixs,           \* the transaction's instructions
  signatures,    \* the number of its signatures
  next,          \* index of the next instruction to look at
  requested_cus, cu_price,  \* Option<u32>, Option<u64>
  total_fee      \* the result, None while the loop runs

feeVars == <<ixs, signatures, next, requested_cus, cu_price, total_fee>>

Transactions == UNION {[1..n -> Instructions] : n \in 0..MaxLen}

Smaller(a, b) == IF a < b THEN a ELSE b

UnwrapOr(option, default) == IF option = None THEN default ELSE option

FeeInit ==
  /\ ixs \in Transactions /\ signatures \in 1..MaxSignatures
  /\ next = 1
  /\ requested_cus = None /\ cu_price = None
  /\ total_fee = None

\* The first instruction of each kind wins.
TakeFirst(option, val) == IF option = None THEN val ELSE option

\* instructions_iter().take(8)
Looking == next <= Smaller(FirstIxs, Len(ixs))

Scan ==
  /\ total_fee = None /\ Looking
  /\ LET ix == ixs[next]
     IN  /\ requested_cus' = IF ix.tag = "limit"
                               THEN TakeFirst(requested_cus, ix.val) ELSE requested_cus
         /\ cu_price' = IF ix.tag = "price"
                          THEN TakeFirst(cu_price, ix.val) ELSE cu_price
  /\ next' = next + 1
  /\ UNCHANGED <<ixs, signatures, total_fee>>

\* A plausible slip: the product is computed in 64 bits.
PriorityFeeNarrow(cus, price) == Smaller(((cus * price) % U64) \div MICRO, U64 - 1)

\* The product is computed in 128 bits, which hold it, and cut down to 64.
PriorityFee(cus, price) == Smaller((cus * price) \div MICRO, U64 - 1)

\* The sum is computed in 64 bits and wraps around.
Finish ==
  /\ total_fee = None /\ ~Looking
  /\ total_fee' = (SIGNATURE_COST * signatures
                     + PriorityFee(UnwrapOr(requested_cus, DEFAULT_CUS),
                                   UnwrapOr(cu_price, 0))) % U64
  /\ UNCHANGED <<ixs, signatures, next, requested_cus, cu_price>>

-----------------------------------------------------------------------------
(* Properties                                                              *)

\* The value of the first of the leading instructions with this tag.
FirstWith(tag, default) ==
  LET hits == {i \in 1..Smaller(FirstIxs, Len(ixs)) : ixs[i].tag = tag}
  IN  IF hits = {} THEN default
      ELSE ixs[CHOOSE i \in hits : \A j \in hits : i <= j].val

ExactFee ==
  SIGNATURE_COST * signatures
    + (FirstWith("limit", DEFAULT_CUS) * FirstWith("price", 0)) \div MICRO

\* The fee that transactions are ranked by is the exact one, from the first limit
\* and the first price among the leading instructions, whenever it fits 64 bits:
\* the intermediate product may exceed them without harm.  One that does not fit
\* wraps around once, whatever the limit and the price are: it is then lower than
\* without any priority fee.
FeeExactUnlessWrapped ==
  total_fee # None =>
    IF ExactFee < U64 THEN total_fee = ExactFee
    ELSE total_fee < SIGNATURE_COST * signatures
=============================================================================
