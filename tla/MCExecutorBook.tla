--------------------------- MODULE MCExecutorBook ---------------------------
(* ExecutorBook with the transaction sets of MCExecutor.                   *)
EXTENDS ExecutorBook, MCExecutor

=============================================================================
