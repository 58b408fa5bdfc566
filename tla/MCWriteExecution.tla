-------------------------- MODULE MCWriteExecution --------------------------
(* Small instance of WriteExecution.  The writeable server is not the      *)
(* first, so that a constructed Server's number for its own server names   *)
(* another one to the Manager.                                             *)
EXTENDS WriteExecution, TLC

=============================================================================
