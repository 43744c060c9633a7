------------------------------ MODULE MCTimer -------------------------------
(* Timer with four sleepers and sleeps of up to four ticks. *)
EXTENDS Timer, TLC
=============================================================================
