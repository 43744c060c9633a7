------------------------------- MODULE MCLock -------------------------------
(* Lock with four processes and the value 1, which the locks of the kernel have. *)
EXTENDS Lock, TLC
=============================================================================
