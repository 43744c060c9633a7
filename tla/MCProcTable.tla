---------------------------- MODULE MCProcTable -----------------------------
(* ProcTable with initproc, three further processes and nine pids. *)
EXTENDS ProcTable, TLC
=============================================================================
