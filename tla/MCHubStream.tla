----------------------------- MODULE MCHubStream -----------------------------
(* Instances of HubStream for TLC: two connections, a ring that evicts, and *)
(* the writers each run allows.                                             *)
EXTENDS HubStream, TLC

CONSTANTS c1, c2
MCConns == {c1, c2}
Symmetry == Permutations(MCConns)
AllWriters == {"feed", "seed", "official"}
=============================================================================
