---------------------------- MODULE MCStateWriter ----------------------------
(* Small instances of the state writer for TLC. *)
EXTENDS StateWriter, TLC

CONSTANTS w1, w2, w3

Symmetry == Permutations({w1, w2, w3})
=============================================================================
