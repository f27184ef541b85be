----------------------------- MODULE MCDataTable -----------------------------
(* Instances of DataTable for TLC. *)
EXTENDS DataTable, TLC

\* Transactions are interchangeable; rows are not, new ones come in order.
Symmetry == Permutations(Tx)
=============================================================================
