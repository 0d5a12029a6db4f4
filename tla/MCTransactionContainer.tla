----------------------- MODULE MCTransactionContainer -----------------------
(* Instance of TransactionContainer for TLC.                               *)
EXTENDS TransactionContainer, TLC

\* Signatures are only compared for equality.
SigSymmetry == Permutations(Sigs)
=============================================================================
