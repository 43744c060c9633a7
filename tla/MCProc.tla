------------------------------- MODULE MCProc -------------------------------
(* Proc on small process tables.  User processes are interchangeable: they *)
(* occur only in sets and quantifiers.                                     *)
EXTENDS Proc, TLC

UserSymmetry == Permutations(User)
=============================================================================
