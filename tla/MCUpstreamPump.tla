---------------------------- MODULE MCUpstreamPump ----------------------------
(* The relay pump, in one run of two instances of UpstreamPump: two restarts  *)
(* of the upstream under a session that may come from the phone (`restarts`,  *)
(* the instance this module extends), and one while the pump stops, is        *)
(* replaced, and phones leave (`leaves`).  `part` says which of them runs.    *)
EXTENDS UpstreamPump

VARIABLE part

New == {"new"}

Leaves == INSTANCE UpstreamPump WITH
  MaxRestarts <- 1, Happens <- {"quiet", "leave"}

RestartsNext == part = "restarts" /\ Next /\ UNCHANGED part
LeavesNext == part = "leaves" /\ Leaves!Next /\ UNCHANGED part
PumpInit == part \in {"restarts", "leaves"} /\ Init
PumpSpec == PumpInit /\ [][RestartsNext \/ LeavesNext]_<<part, vars>>
===============================================================================
