------------------------------ MODULE MCStanding ------------------------------
(* Standing orders and the messages sent under them, in one run of two        *)
(* instances of OverseerActions: two callers whose messages race for the last *)
(* use of an order, with nothing else in the way (`race`, the instance this   *)
(* module extends), and a caller whose messages meet restarts (`faults`).     *)
(* `part` says which of them runs.                                            *)
EXTENDS MCOverseerActions

VARIABLE part

Faults == INSTANCE OverseerActions WITH
  Callers <- {"p"}, Happens <- {"restart"}

RaceNext == part = "race" /\ Next /\ UNCHANGED part
FaultsNext == part = "faults" /\ Faults!Next /\ UNCHANGED part
StandingInit ==
  /\ part \in {"race", "faults"}
  /\ IF part = "race" THEN Init ELSE Faults!Init
StandingSpec == StandingInit /\ [][RaceNext \/ FaultsNext]_<<part, vars>>
================================================================================
