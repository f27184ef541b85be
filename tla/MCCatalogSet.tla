---------------------------- MODULE MCCatalogSet ----------------------------
(* Instances of CatalogSet for TLC. *)
EXTENDS CatalogSet, TLC

\* Transactions are interchangeable, and so are names.
Symmetry == Permutations(Tx) \cup Permutations(Name)
=============================================================================
