------------------------------- MODULE LcFactory -------------------------------
(***************************************************************************)
(* The factory of a lets-code agent (lc/engine.mjs): the toggle, kept in    *)
(* the session's record and applied to a live child with a /mode command    *)
(* that a notify acknowledges, and the passes that trust the worktrees of   *)
(* the session's runs while they go on.  lets-code, which creates and ends  *)
(* runs, and pi's trust file are external.                                  *)
(***************************************************************************)
EXTENDS Naturals, Sequences, FiniteSets

CONSTANTS Toggles,     (* setFactory calls that can overlap                  *)
          Worktrees,
          MaxStarts,   (* bound on children                                  *)
          MaxSets,     (* bound on setFactory calls                          *)
          Happens      (* what may happen besides: "slow" (an acknowledgement *)
                       (* comes too late), "torn" (the bridge dies in a pass), *)
                       (* "race" (a session is forgotten during a pass)      *)

VARIABLES
  factory,   (* the record's flag: what the user wants                      *)
  child,     (* none, start, sent (its mode command waits for the notify)   *)
             (* or up                                                       *)
  mode,      (* the child's mode                                            *)
  commands,  (* the modes sent to the child and not taken yet               *)
  toggle,    (* the calls: idle, wait (for a start) or ack, what they want  *)
             (* and what the flag was                                       *)
  made,      (* starts and calls                                            *)
  tree,      (* each worktree: none, live or ended                          *)
  trust,     (* pi's trust file                                             *)
  guarded,   (* worktrees guarded by this process                           *)
  trusted,   (* the record's                                                *)
  watch,     (* the passes go on: set by a factory run's first dialog       *)
  guard,     (* guardFactory: the pass and the worktrees it found           *)
  again,     (* one more pass after it                                      *)
  known      (* the session has not been forgotten                          *)

flags == <<factory, child, mode, commands, toggle, made>>
passes == <<watch, guard, again>>
trusts == <<trust, guarded, trusted, passes>>
vars == <<flags, tree, trusts, known>>

None == [at |-> "idle", on |-> FALSE, prev |-> FALSE]
NoPass == [at |-> "idle", live |-> {}]

Init ==
  /\ factory = FALSE /\ child = "none" /\ mode = "ask" /\ commands = << >>
  /\ toggle = [t \in Toggles |-> None] /\ made = [starts |-> 0, sets |-> 0]
  /\ tree = [w \in Worktrees |-> "none"] /\ trust = {} /\ guarded = {} /\ trusted = {}
  /\ watch = FALSE /\ guard = NoPass /\ again = FALSE /\ known = TRUE

ModeOf(on) == IF on THEN "orchestration" ELSE "ask"
Live == {w \in Worktrees : tree[w] = "live"}

(* guardFactory: never two passes at once; one more is asked for instead.   *)
Guard ==
  /\ guard' = IF guard = NoPass /\ known THEN [at |-> "trust", live |-> Live] ELSE guard
  /\ again' = IF guard = NoPass \/ ~known THEN again ELSE TRUE

-----------------------------------------------------------------------------
(* The toggle.                                                              *)

SetFactory(t, on) ==
  /\ known /\ toggle[t] = None /\ made.sets < MaxSets
  /\ made' = [made EXCEPT !.sets = @ + 1]
  /\ toggle' = [toggle EXCEPT ![t] = [at |-> "wait", on |-> on, prev |-> FALSE]]
  /\ UNCHANGED <<factory, child, mode, commands, tree, trusts, known>>

(* A child that is starting is waited for, its own mode command included.   *)
(* The child that runs is told; one that starts later reads the flag.       *)
Set(t) ==
  /\ toggle[t].at = "wait" /\ child \in {"none", "up"}
  /\ factory' = toggle[t].on
  /\ IF child = "up"
     THEN /\ commands' = Append(commands, ModeOf(toggle[t].on))
          /\ toggle' = [toggle EXCEPT ![t] = [@ EXCEPT !.at = "ack", !.prev = factory]]
     ELSE toggle' = [toggle EXCEPT ![t] = None] /\ UNCHANGED commands
  /\ UNCHANGED <<child, mode, made, tree, trusts, known>>

(* Its mode is not confirmed: the flag goes back to what it was.            *)
Unconfirmed(t) ==
  /\ "slow" \in Happens /\ toggle[t].at = "ack"
  /\ factory' = toggle[t].prev
  /\ toggle' = [toggle EXCEPT ![t] = None]
  /\ UNCHANGED <<child, mode, commands, made, tree, trusts, known>>

-----------------------------------------------------------------------------
(* The child.                                                               *)

Start ==
  /\ known /\ child = "none" /\ made.starts < MaxStarts
  /\ child' = "start" /\ mode' = "ask" /\ commands' = << >>
  /\ made' = [made EXCEPT !.starts = @ + 1]
  /\ UNCHANGED <<factory, toggle, tree, trusts, known>>

(* The flag as it is now.                                                   *)
Started ==
  /\ child = "start"
  /\ IF factory THEN child' = "sent" /\ commands' = Append(commands, "orchestration")
     ELSE child' = "up" /\ UNCHANGED commands
  /\ UNCHANGED <<factory, mode, toggle, made, tree, trusts, known>>

(* A command is taken; its notify resolves whoever waits for that mode.     *)
Notify ==
  /\ commands # << >> /\ child # "none"
  /\ mode' = Head(commands) /\ commands' = Tail(commands)
  /\ toggle' = [t \in Toggles |-> IF toggle[t].at = "ack" /\ ModeOf(toggle[t].on) = Head(commands)
                                  THEN None ELSE toggle[t]]
  /\ child' = IF child = "sent" /\ Head(commands) = "orchestration" THEN "up" ELSE child
  /\ UNCHANGED <<factory, made, tree, trusts, known>>

(* Who waits for a mode is refused, and the flag goes back, in any order.   *)
Refused ==
  /\ child # "none" /\ child' = "none" /\ commands' = << >>
  /\ toggle' = [t \in Toggles |-> IF toggle[t].at = "ack" THEN None ELSE toggle[t]]
  /\ factory' \in LET asked == {t \in Toggles : toggle[t].at = "ack"}
                   IN  IF asked = {} THEN {factory} ELSE {toggle[t].prev : t \in asked}
  /\ watch' = FALSE
  /\ UNCHANGED <<mode, made, tree, trust, guarded, trusted, known>>

(* Slip: no last pass when the child exits.                                 *)
ExitUnguarded == Refused /\ UNCHANGED <<guard, again>>

(* The last pass drops the trust of runs that ended.                        *)
Exit ==
  /\ Refused
  /\ IF watch \/ guarded # {} THEN Guard ELSE UNCHANGED <<guard, again>>

(* A checkpoint of a factory run, or its resumption, starts the passes.     *)
Checkpoint ==
  /\ child = "up" /\ mode = "orchestration" /\ known
  /\ watch' = TRUE /\ Guard
  /\ UNCHANGED <<flags, tree, trust, guarded, trusted, known>>

(* A run's worktree, made in orchestration mode; it ends with the run.      *)
RunStarts(w) ==
  /\ child = "up" /\ watch /\ tree[w] = "none"
  /\ tree' = [tree EXCEPT ![w] = "live"]
  /\ UNCHANGED <<flags, trusts, known>>

RunEnds(w) ==
  /\ child = "up" /\ watch /\ tree[w] = "live"
  /\ tree' = [tree EXCEPT ![w] = "ended"]
  /\ UNCHANGED <<flags, trusts, known>>

-----------------------------------------------------------------------------
(* The passes: every few seconds during a run, on a notify, at its end.     *)

Watch ==
  /\ child = "up" /\ (watch \/ guarded # {})
  /\ Guard
  /\ UNCHANGED <<flags, tree, trust, guarded, trusted, watch, known>>

Trust ==
  /\ guard.at = "trust"
  /\ trust' = trust \cup (guard.live \ guarded) /\ guarded' = guarded \cup guard.live
  /\ guard' = [guard EXCEPT !.at = "drop"]
  /\ UNCHANGED <<flags, tree, trusted, watch, again, known>>

(* Slip: the pass that was asked for meanwhile is not made.                 *)
DropOnce ==
  /\ guard.at = "drop"
  /\ trust' = trust \cap guard.live /\ guarded' = guarded \cap guard.live
  /\ trusted' = guard.live /\ guard' = NoPass /\ again' = FALSE
  /\ UNCHANGED <<flags, tree, watch, known>>

(* Worktrees this session trusted and the pass did not find.                *)
Drop ==
  /\ guard.at = "drop"
  /\ LET gone == (trusted \cup guarded) \ guard.live
     IN  /\ trust' = trust \ gone /\ guarded' = guarded \ gone
         /\ trusted' = (trusted \cup guard.live) \ gone
  /\ guard' = IF again /\ known THEN [at |-> "trust", live |-> Live] ELSE NoPass
  /\ again' = FALSE
  /\ UNCHANGED <<flags, tree, watch, known>>

(* forget, once its child is stopped: the trust its record names.           *)
Forget ==
  /\ known /\ child = "none" /\ ("race" \in Happens \/ guard = NoPass)
  /\ known' = FALSE
  /\ trust' = trust \ trusted
  /\ UNCHANGED <<flags, tree, guarded, trusted, passes>>

Restart ==
  /\ "torn" \in Happens \/ guard = NoPass
  /\ child = "none" /\ \A t \in Toggles : toggle[t] = None
  /\ guarded' = {} /\ guard' = NoPass /\ again' = FALSE
  /\ UNCHANGED <<flags, tree, trust, trusted, watch, known>>

Next ==
  \/ \E t \in Toggles : (\E on \in BOOLEAN : SetFactory(t, on)) \/ Set(t) \/ Unconfirmed(t)
  \/ Start \/ Started \/ Notify \/ Exit
  \/ \E w \in Worktrees : RunStarts(w) \/ RunEnds(w)
  \/ Checkpoint \/ Watch \/ Trust \/ Drop \/ Forget \/ Restart

Spec == Init /\ [][Next]_vars

-----------------------------------------------------------------------------
TypeOK ==
  /\ {factory, watch, again, known} \subseteq BOOLEAN /\ child \in {"none", "start", "sent", "up"}
  /\ mode \in {"ask", "orchestration"} /\ commands \in Seq({"ask", "orchestration"})
  /\ \A t \in Toggles : toggle[t].at \in {"idle", "wait", "ack"}
  /\ trust \cup guarded \cup trusted \subseteq Worktrees

(* A child that has settled works in the mode the user's flag says, however *)
(* toggles, starts and exits interleave (engine.mjs:639-642, 1207-1229).    *)
FlagMatchesMode ==
  child = "up" /\ commands = << >> => mode = ModeOf(factory)

(* When the child is gone and the last pass is done, no worktree of an      *)
(* ended run is trusted, and none at all of a session that was forgotten    *)
(* (engine.mjs:455-457, 1112-1121).                                         *)
TrustEnds ==
  child = "none" /\ guard = NoPass =>
    trust \cap {w \in Worktrees : tree[w] = "ended"} = {} /\ (known \/ trust = {})
=============================================================================
