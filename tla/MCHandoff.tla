------------------------------- MODULE MCHandoff -------------------------------
(* One run of two instances: hand-offs proposed, confirmed and restarted over,*)
(* of OverseerActions, whose definitions this module extends (`actions`), and *)
(* how runs of lets-code end (`runs`).  `part` says which runs; the other     *)
(* stays in its initial state.                                                *)
EXTENDS MCOverseerActions

CONSTANT s1

VARIABLES part, st, rec, archived, tasks, prompts, accepted, crossed, crashes, restarts

Lc == INSTANCE LcEngine WITH
  Sids <- {s1}, Calls <- {"k1", "k2"}, RequestIds <- {}, NoRequest <- "none",
  MaxLive <- 1, RestartLimit <- 1, MaxCrashes <- 1, MaxRestarts <- 1, MaxMishaps <- 1,
  Happens <- {"stop", "refusal", "cap", "interrupt"}, calls <- prompts

lcVars == <<st, rec, archived, tasks, prompts, accepted, crossed, crashes, restarts>>
allVars == <<part, vars, lcVars>>

BothInit == part \in {"actions", "runs"} /\ Init /\ Lc!Init
ActionsNext == part = "actions" /\ Next /\ UNCHANGED <<part, lcVars>>
RunsNext == part = "runs" /\ Lc!Next /\ UNCHANGED <<part, vars>>

(* The fairness of OverseerActions!FairSpec and LcEngine!FairSpec.            *)
BothSpec ==
  /\ BothInit /\ [][ActionsNext \/ RunsNext]_allVars
  /\ \A i \in Ids : /\ WF_vars(part = "actions" /\ Lapse(i))
                    /\ WF_vars(part = "actions" /\ Sweep(i))
                    /\ WF_vars(part = "actions" /\ Confirming(i))
  /\ \A c \in {"k1", "k2"} : WF_lcVars(part = "runs" /\ Lc!CallStep(c))
  /\ \A t \in 1 .. 2 : WF_lcVars(part = "runs" /\ t \in Lc!TaskIds /\ Lc!TaskStep(t))
  /\ WF_lcVars(part = "runs" /\ Lc!Dies(s1))
  /\ WF_lcVars(part = "runs" /\ Lc!SaveSent(s1))
  /\ WF_lcVars(part = "runs" /\ Lc!CapTimer(s1))
  /\ WF_lcVars(part = "runs" /\ st[s1].stop # "none" /\ Lc!StopStep(s1))

(* A run of lets-code comes into a running child's hands or ends, also at a  *)
(* cap and after an abort; its child counts as busy, and stopping a session  *)
(* leaves neither task nor child (LcEngine).                                 *)
RunsEnd ==
  /\ \A t \in 1 .. 2 : []<>~(part = "runs" /\ (Lc!Driverless(t) \/ Lc!Aborting(t)))
  /\ []<>~(part = "runs" /\ Lc!PastCap(s1))
  /\ [](part = "runs" => Lc!RunIsBusy /\ Lc!StopLeavesNothing)
================================================================================
