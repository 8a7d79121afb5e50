----------------------------- MODULE MCStateStore -----------------------------
(* Small instances of the state store for TLC. *)
EXTENDS StateStore, TLC

\* Ids to be drawn, calls and users are interchangeable.
Symmetry == Permutations(ProfileIds \ Found) \cup Permutations(Requests) \cup Permutations(Users)
=============================================================================
