----------------------------- MODULE MCConsole -----------------------------
(* Console for TLC: refreshes are alike, and so are the calls that disconnect. *)
EXTENDS Console, TLC

Symmetry == Permutations(Refreshes) \union Permutations(Disconnects)
=============================================================================
