------------------------------ MODULE MCSessions ------------------------------
(* Small instances of the shared session for TLC. *)
EXTENDS Sessions, TLC

CONSTANTS a1, a2, a3, s1, s2, s3

\* Answer requests are interchangeable, and so are subscriptions.
Symmetry == Permutations(Answerers \ Outsiders) \cup Permutations(Subscribers \ Outsiders)
=============================================================================
