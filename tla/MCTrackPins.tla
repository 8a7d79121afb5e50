------------------------------ MODULE MCTrackPins ------------------------------
(* One pack in two versions.  Version 2 drops card b and adds card c to an item *)
(* that version 1 already lists; d is the reverse of a.                         *)
EXTENDS TrackPins, TLC

MCPackCards == [v \in {1, 2} |-> Cards \ IF v = 1 THEN {} ELSE {"b"}]
MCPackageCards == [v \in {1, 2} |-> Cards \ IF v = 1 THEN {"c"} ELSE {"b"}]
MCDirectionOf == [x \in Cards |-> IF x = "d" THEN "back" ELSE "fwd"]
CallerSymmetry == Permutations(Callers)
=============================================================================
