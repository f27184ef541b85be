--------------------------- MODULE MCWriteAheadLog ---------------------------
(* Instances of WriteAheadLog for TLC. *)
EXTENDS WriteAheadLog, TLC

\* Transactions are interchangeable, and so are rows.
Symmetry == Permutations(Tx) \cup Permutations(Row)
=============================================================================
