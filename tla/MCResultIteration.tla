-------------------------- MODULE MCResultIteration --------------------------
(* Small instance of ResultIteration.  Three loops are the fewest that let *)
(* one start before, one between and one after the steps of another.       *)
EXTENDS ResultIteration, TLC

=============================================================================
