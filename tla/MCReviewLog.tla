------------------------------ MODULE MCReviewLog ------------------------------
(* Small instances of the review log for TLC.  The ids of the events decide   *)
(* ties, so nothing here is symmetric.                                        *)
EXTENDS ReviewLog

CONSTANTS t1, t2, c1
=============================================================================
