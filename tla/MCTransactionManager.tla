------------------------ MODULE MCTransactionManager ------------------------
(* Instances of TransactionManager for TLC. *)
EXTENDS TransactionManager, TLC

\* Transactions are interchangeable: no action and no safety property tells
\* one from another.
Symmetry == Permutations(Tx)
=============================================================================
