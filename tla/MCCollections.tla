--------------------------- MODULE MCCollections ---------------------------
(* Collections for TLC: items are interchangeable.                          *)
EXTENDS Collections, TLC

Symmetry == Permutations(Items)
=============================================================================
