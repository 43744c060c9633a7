---------------------------- MODULE MCCheckSync -----------------------------
(* CheckSync with four philosophers, of whom two may eat at a time. *)
EXTENDS CheckSync, TLC
=============================================================================
