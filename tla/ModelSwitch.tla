---------------------------- MODULE ModelSwitch ----------------------------
(***************************************************************************)
(* A confirmed model switch (overseer/actions.mjs modelSwitch): one question*)
(* asked of the overseer on another model, the model put back when the      *)
(* question settles.  The busy check, the switch and the question are three *)
(* awaits; other switches and other inputs (Even AI's questions, check-ins) *)
(* come in between, and an input for a running root joins its run.          *)
(***************************************************************************)
EXTENDS Integers, Sequences, FiniteSets

CONSTANTS Switches,  (* confirmed switches; each is also its question       *)
          Inputs,    (* other inputs of the overseer                        *)
          ModelOf,   (* the model of each switch                            *)
          Default,   (* the overseer's own model                            *)
          Happens    (* "fail": the question is refused; "restart"          *)

VARIABLES step,     (* each switch: where its handler stands                *)
          model,    (* the model the overseer's root is configured with     *)
          run,      (* the running inputs, first to be answered first       *)
          on,       (* the model of the run                                 *)
          given,    (* each input: the model it was answered on             *)
          asked     (* the inputs submitted                                 *)

msVars == <<step, model, run, on, given, asked>>

None == "none"
Questions == Switches \union Inputs

Init ==
  /\ step = [s \in Switches |-> "new"]
  /\ model = Default /\ run = <<>> /\ on = None
  /\ given = [q \in Questions |-> None] /\ asked = {}

Goes(s, to) == step' = [step EXCEPT ![s] = to]

(* root.submit, followUp: joins the run, or starts one on the model that is *)
(* configured now.                                                          *)
Submit(q) ==
  /\ run' = Append(run, q) /\ asked' = asked \union {q}
  /\ on' = IF run = <<>> THEN model ELSE on

-----------------------------------------------------------------------------
(* overseerBusy: 409 while the root runs.                                   *)
BusyCheck(s) ==
  /\ step[s] = "new"
  /\ Goes(s, IF run # <<>> THEN "refused" ELSE "free")
  /\ UNCHANGED <<model, run, on, given, asked>>

SetModel(s) ==
  /\ step[s] = "free" /\ Goes(s, "set")
  /\ model' = ModelOf[s]
  /\ UNCHANGED <<run, on, given, asked>>

(* Slip: a refused question leaves the model.                               *)
AskOnly(s) ==
  \/ Goes(s, "asked") /\ Submit(s)
  \/ "fail" \in Happens /\ Goes(s, "done") /\ UNCHANGED <<run, on, asked>>
(* overseer.ask, waitMs 0; the model goes back when it throws.              *)
AskOrRevert(s) ==
  \/ Goes(s, "asked") /\ Submit(s)
  \/ "fail" \in Happens /\ Goes(s, "reverting") /\ UNCHANGED <<run, on, asked>>

Ask(s) == step[s] = "set" /\ AskOrRevert(s) /\ UNCHANGED <<model, given>>

(* overseer.settled: its submission is answered, or no longer pending.      *)
Settles(s) ==
  /\ step[s] = "asked" /\ given[s] # None /\ Goes(s, "reverting")
  /\ UNCHANGED <<model, run, on, given, asked>>

Revert(s) ==
  /\ step[s] = "reverting" /\ Goes(s, "done") /\ model' = Default
  /\ UNCHANGED <<run, on, given, asked>>

-----------------------------------------------------------------------------
Input(q) ==
  /\ q \in Inputs \ asked /\ Submit(q)
  /\ UNCHANGED <<step, model, given>>

Answer ==
  /\ run # <<>>
  /\ given' = [given EXCEPT ![Head(run)] = on]
  /\ run' = Tail(run)
  /\ on' = IF Len(run) = 1 THEN None ELSE on
  /\ UNCHANGED <<step, model, asked>>

(* The run is resumed after a restart, on the model it had; the root is set *)
(* up with its own model first; the handlers are gone.                      *)
Restart ==
  /\ "restart" \in Happens
  /\ model' = Default
  /\ step' = [s \in Switches |-> IF step[s] \in {"refused", "done"} THEN step[s] ELSE "done"]
  /\ step' # step
  /\ UNCHANGED <<run, on, given, asked>>

Next ==
  \/ \E s \in Switches : BusyCheck(s) \/ SetModel(s) \/ Ask(s) \/ Settles(s) \/ Revert(s)
  \/ \E q \in Inputs : Input(q)
  \/ Answer \/ Restart

Spec == Init /\ [][Next]_msVars
(* The handlers go on and the model answers.                                *)
FairSpec ==
  /\ Spec /\ WF_msVars(Answer)
  /\ \A s \in Switches : WF_msVars(SetModel(s)) /\ WF_msVars(Ask(s)) /\ WF_msVars(Settles(s)) /\ WF_msVars(Revert(s))

-----------------------------------------------------------------------------
TypeOK ==
  /\ step \in [Switches -> {"new", "refused", "free", "set", "asked", "reverting", "done"}]
  /\ asked \subseteq Questions
  /\ given \in [Questions -> {None, Default} \union {ModelOf[s] : s \in Switches}]

(* Once no switch is under way, the overseer is on its own model again: the *)
(* reverts of overlapping switches, each of the model the other set, leave  *)
(* no other model behind.                                                   *)
ModelReverted ==
  (\A s \in Switches : step[s] \in {"new", "refused", "free", "done"}) => model = Default

(* A model other than the overseer's own is set; it does not stay (MCEnds). *)
Waits == model # Default

(* Only an input that arrives during the switched run joins that model: a   *)
(* run on another model began with the question of a switch.                *)
OthersOnOwn ==
  [][run = <<>> /\ run' # <<>> /\ on' # Default => Head(run') \in Switches]_msVars
=============================================================================
