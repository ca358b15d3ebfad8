----------------------------- MODULE GatedActions -----------------------------
(***************************************************************************)
(* What the overseer's gated actions promise (actions.mjs:3-14), without   *)
(* how: an action is asked about, allowed or refused, and runs at most     *)
(* once, only once it was allowed.  An answer is final.  Settled actions   *)
(* may be forgotten.                                                       *)
(***************************************************************************)
EXTENDS Naturals

CONSTANT Actions

VARIABLES
  status,    (* per action: where it stands with the user                   *)
  runs       (* per action: how often it was executed                       *)

Status == {"none", "asked", "allowed", "refused", "forgotten"}

Init ==
  /\ status = [a \in Actions |-> "none"]
  /\ runs = [a \in Actions |-> 0]

(* Where an action may go next.  One may be asked about and refused at once *)
(* only in two steps.                                                       *)
Moves == {<<"none", "asked">>, <<"asked", "allowed">>, <<"asked", "refused">>,
          <<"allowed", "forgotten">>, <<"refused", "forgotten">>}

(* A restart settles several actions in one step, so a step moves a set of  *)
(* them.                                                                    *)
Settle ==
  /\ status' \in [Actions -> Status]
  /\ \A a \in Actions : status'[a] = status[a] \/ <<status[a], status'[a]>> \in Moves
  /\ UNCHANGED runs

Run(a) ==
  /\ status[a] = "allowed"
  /\ runs[a] = 0
  /\ runs' = [runs EXCEPT ![a] = 1]
  /\ UNCHANGED status

Next == Settle \/ \E a \in Actions : Run(a)

Spec == Init /\ [][Next]_<<status, runs>>
===============================================================================
