------------------------------- MODULE MCLcLimit -------------------------------
(* Three lets-code sessions under a limit of two.                              *)
EXTENDS LcEngine, TLC

CONSTANTS s1, s2, s3, k1, k2, k3, k4, k5

ThreeSids == {s1, s2, s3}
FiveCalls == {k1, k2, k3, k4, k5}
LimitSymmetry == Permutations(ThreeSids) \union Permutations(FiveCalls)
================================================================================
