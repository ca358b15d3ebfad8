--------------------------- MODULE MCOverseerActions ---------------------------
(* Instances of OverseerActions for TLC.                                       *)
EXTENDS OverseerActions, TLC

CONSTANTS p1, p2

Ask(kind, origin, requestId, handoff, text) ==
  [kind |-> kind, origin |-> origin, requestId |-> requestId,
   handoff |-> handoff, text |-> text]

TwoCallers == {p1, p2}
OneCaller == {p1}
CallerSymmetry == Permutations(TwoCallers)

(* Even AI always sends a requestId.                                          *)
Gated == {Ask("session_start", "evenai", "r1", FALSE, "none"),
          Ask("session_stop", "evenai", "r2", FALSE, "none")}
Handoff == {Ask("session_start", "overseer", "none", TRUE, "none")}
Messages == {Ask("session_message", "overseer", "none", FALSE, "t1")}
StandingOrders == {Ask("standing_order", "evenai", "r1", FALSE, "t1")} \union Messages
Everything == Gated \union StandingOrders
================================================================================
