-------------------------------- MODULE MCGate --------------------------------
(* The gate of the overseer's actions, in one run of two instances: every kind *)
(* of request while confirms cross expiry, denials and restarts (`actions`,    *)
(* the instance this module extends); and prompts on the phone that cross the  *)
(* answers to the ones before them (`phone`).  `part` says which runs.         *)
EXTENDS MCOverseerActions

VARIABLE part

(* The overseer asks to send a message, twice.                                *)
Prompts == INSTANCE OverseerActions WITH
  RequestIds <- {"r1"}, Requests <- Messages, Keep <- 2, Happens <- {"restart", "phone", "expiry"}

AllInit ==
  \/ part = "actions" /\ Init
  \/ part = "phone" /\ Prompts!Init
ActionsNext == part = "actions" /\ Next /\ UNCHANGED part
PhoneNext == part = "phone" /\ Prompts!Next /\ UNCHANGED part
AllSpec == AllInit /\ [][ActionsNext \/ PhoneNext]_<<part, vars>>
===============================================================================
