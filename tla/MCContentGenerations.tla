------------------------ MODULE MCContentGenerations ------------------------
(***************************************************************************)
(* Instances of ContentGenerations for TLC.                                *)
(***************************************************************************)
EXTENDS ContentGenerations, TLC

\* The ids, the readers and the switchers are interchangeable.
Symmetry == Permutations(Gens) \cup Permutations(Readers) \cup Permutations(Switchers)
=============================================================================
