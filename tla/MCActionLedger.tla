-------------------------- MODULE MCActionLedger --------------------------
(* Rows never interact, so one row and two overlapping requests reach every *)
(* interleaving of two handlers over the row.                              *)
EXTENDS ActionLedger, TLC

Symmetry == Permutations(Requests)
===========================================================================
