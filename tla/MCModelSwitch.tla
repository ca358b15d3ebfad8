---------------------------- MODULE MCModelSwitch ----------------------------
(* An instance of ModelSwitch for TLC: two switches, each to a model of its *)
(* own.                                                                     *)
EXTENDS ModelSwitch

Models == [s1 |-> "opus", s2 |-> "gpt"]
=============================================================================
