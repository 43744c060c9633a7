------------------------------ MODULE MCSerial ------------------------------
(* Serial with small rings, in the order of size of the real ones. *)
EXTENDS Serial, TLC

CONSTANTS r1, r2

TwoReaders == {r1, r2}
=============================================================================
