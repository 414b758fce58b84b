------------------------------ MODULE MCSession ------------------------------
(***************************************************************************)
(* Session for TLC, with a few calls (and as many runners).                *)
(***************************************************************************)
EXTENDS Session, TLC

CONSTANTS k1, k2, k3

Symmetry == Permutations(Calls)
=============================================================================
