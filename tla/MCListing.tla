----------------------------- MODULE MCListing -----------------------------
(* Listing for TLC: `afk sessions` beside the calls of MCSession.           *)
EXTENDS Listing, TLC

CONSTANTS k1, k2, k3

Symmetry == Permutations(Calls)
=============================================================================
