------------------------------ MODULE MCDriver ------------------------------
(* Small instance of Driver: handles are alike.                            *)
EXTENDS Driver, TLC

Symmetry == Permutations(Handles)

=============================================================================
