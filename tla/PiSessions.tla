------------------------------ MODULE PiSessions ------------------------------
(***************************************************************************)
(* Who runs a pi conversation, and its turns (pi/provider.mjs, session.mjs, *)
(* rpc-client.mjs): prompts that find a terminal, the bridge's child or     *)
(* nobody there, children that start, exit and are dropped, and a turn's    *)
(* dialogs, which pi waits for until the phone has answered them.  The      *)
(* terminal and pi itself are external; pi's lines arrive in order.         *)
(***************************************************************************)
EXTENDS Naturals, Sequences, FiniteSets, SequencesExt

CONSTANTS Calls,        (* prompts that can overlap                         *)
          MaxSpawns,    (* bound on children                                *)
          MaxDialogs,   (* bound on dialogs                                 *)
          MaxLag,       (* bound on lines of pi not handled yet             *)
          Happens       (* what may happen besides: "refuse" (pi does not   *)
                        (* take a prompt), "slow" (it does not tell its     *)
                        (* session id in time), "race" (a prompt comes or a  *)
                        (* child exits while another looks, starts or drops) *)

None == "none"

VARIABLES
  terminal,   (* a terminal pi runs the conversation                        *)
  live,       (* the sessions map: the child registered, 0 for none         *)
  proc,       (* each child: none, starting, up, stopping or gone           *)
  busy,       (* _busy of its session                                       *)
  agent,      (* pi works on a turn                                         *)
  asks,       (* the dialogs pi waits for                                   *)
  lines,      (* what pi wrote and the session has not handled yet          *)
  pending,    (* pendingPermissions and pendingQuestions                    *)
  call,       (* the prompts: where they are and for which child            *)
  shown,      (* the last status the phone was told                         *)
  dialogs     (* dialogs opened                                             *)

children == <<live, proc>>
turns == <<busy, agent, asks, lines, pending>>
vars == <<terminal, children, turns, call, shown, dialogs>>

Children == 1 .. MaxSpawns
Kinds == {"confirm", "select"}
Idle == [at |-> "idle", child |-> 0]

Living == {s \in Children : proc[s] \in {"starting", "up", "stopping"}}
Spawns == Cardinality({s \in Children : proc[s] # None})

(* No prompt is between its lookup of the session and what it does of it.   *)
Alone == "race" \in Happens \/ \A c \in Calls : call[c].at \notin {"probe", "start", "drop"}

Init ==
  /\ terminal = FALSE /\ live = 0 /\ proc = [s \in Children |-> None]
  /\ busy = [s \in Children |-> FALSE] /\ agent = [s \in Children |-> FALSE]
  /\ asks = [s \in Children |-> {}] /\ lines = [s \in Children |-> << >>]
  /\ pending = [s \in Children |-> [k \in Kinds |-> << >>]]
  /\ call = [c \in Calls |-> Idle] /\ shown = "idle" /\ dialogs = 0

-----------------------------------------------------------------------------
(* prompt()                                                                 *)

(* The session is looked up before the probes are awaited.                  *)
Prompt(c) ==
  /\ call[c] = Idle /\ Alone
  /\ call' = [call EXCEPT ![c] = [at |-> "probe", child |-> live]]
  /\ UNCHANGED <<terminal, children, turns, shown, dialogs>>

(* A terminal runs the conversation: a child of ours is stopped first.      *)
ToTerminal(c) ==
  /\ call[c].at = "probe" /\ terminal
  /\ IF call[c].child = 0 THEN call' = [call EXCEPT ![c] = Idle] /\ UNCHANGED proc
     ELSE /\ call' = [call EXCEPT ![c].at = "drop"]
          /\ proc' = [proc EXCEPT ![call[c].child] = IF @ = "up" THEN "stopping" ELSE @]
  /\ UNCHANGED <<terminal, live, turns, shown, dialogs>>

(* The child is gone (SIGTERM, then SIGKILL), whatever is registered is     *)
(* forgotten, the prompt is typed or refused.                               *)
Dropped(c) ==
  /\ call[c].at = "drop" /\ proc[call[c].child] = "gone"
  /\ live' = 0
  /\ call' = [call EXCEPT ![c] = Idle]
  /\ UNCHANGED <<terminal, proc, turns, shown, dialogs>>

(* Nobody runs it and no child is registered: spawn one.                    *)
Spawn(c) ==
  /\ call[c].at = "probe" /\ ~terminal /\ call[c].child = 0 /\ Spawns < MaxSpawns
  /\ LET s == Spawns + 1
     IN  /\ proc' = [proc EXCEPT ![s] = "starting"]
         /\ call' = [call EXCEPT ![c] = [at |-> "start", child |-> s]]
  /\ UNCHANGED <<terminal, live, turns, shown, dialogs>>

(* status: awaiting an answer comes before busy.                            *)
Awaiting(s) == \E k \in Kinds : pending[s][k] # << >>

(* A busy session is steered; pi takes it as the next turn if its turn has  *)
(* just ended.                                                              *)
Steer(s) ==
  /\ busy[s] /\ ~Awaiting(s) /\ Len(lines[s]) < MaxLag
  /\ agent' = [agent EXCEPT ![s] = proc[s] = "up"]
  /\ UNCHANGED <<busy, shown>>

(* run: busy is told before pi has the prompt, which it does not take       *)
(* during a turn.                                                           *)
Run(s) ==
  /\ ~busy[s] \/ Awaiting(s)
  /\ busy' = [busy EXCEPT ![s] = TRUE] /\ shown' = "busy"
  /\ \/ agent' = [agent EXCEPT ![s] = @ \/ proc[s] \in {"starting", "up"}]
     \/ "refuse" \in Happens /\ UNCHANGED agent

(* A prompt that is a /model command is answered without a turn.            *)
Command(s) ==
  /\ ~busy[s] \/ Awaiting(s)
  /\ shown' = "idle" /\ UNCHANGED <<busy, agent>>

Take(s) == Steer(s) \/ Run(s) \/ Command(s)

Reuse(c) ==
  /\ call[c].at = "probe" /\ ~terminal /\ call[c].child # 0
  /\ Take(call[c].child)
  /\ call' = [call EXCEPT ![c] = Idle]
  /\ UNCHANGED <<terminal, children, asks, lines, pending, dialogs>>

(* Slip: a session that has started is not registered.                      *)
StartedUnnoted(c) ==
  /\ call[c].at = "start" /\ proc[call[c].child] = "starting"
  /\ proc' = [proc EXCEPT ![call[c].child] = "up"]
  /\ Take(call[c].child)
  /\ call' = [call EXCEPT ![c] = Idle]
  /\ UNCHANGED <<terminal, live, asks, lines, pending, dialogs>>

(* start: get_state tells the session's id, which registers it.             *)
Started(c) ==
  /\ call[c].at = "start" /\ proc[call[c].child] = "starting"
  /\ proc' = [proc EXCEPT ![call[c].child] = "up"]
  /\ \/ live' = call[c].child
     \/ "slow" \in Happens /\ UNCHANGED live
  /\ Take(call[c].child)
  /\ call' = [call EXCEPT ![c] = Idle]
  /\ UNCHANGED <<terminal, asks, lines, pending, dialogs>>

(* It exited meanwhile: the prompt fails.                                   *)
StartFails(c) ==
  /\ call[c].at = "start" /\ proc[call[c].child] \in {"starting", "gone"}
  /\ proc' = [proc EXCEPT ![call[c].child] = "gone"] /\ live' = 0
  /\ call' = [call EXCEPT ![c] = Idle]
  /\ UNCHANGED <<terminal, turns, shown, dialogs>>

-----------------------------------------------------------------------------
(* pi and its lines.                                                        *)

(* A dialog, in a turn that several tools may be running in.                *)
Ask(s, kind) ==
  /\ agent[s] /\ dialogs < MaxDialogs
  /\ dialogs' = dialogs + 1
  /\ asks' = [asks EXCEPT ![s] = @ \union {dialogs'}]
  /\ lines' = [lines EXCEPT ![s] = Append(@, [type |-> kind, n |-> dialogs'])]
  /\ UNCHANGED <<terminal, children, busy, agent, pending, call, shown>>

TurnEnds(s) ==
  /\ agent[s] /\ asks[s] = {}
  /\ agent' = [agent EXCEPT ![s] = FALSE]
  /\ lines' = [lines EXCEPT ![s] = Append(@, [type |-> "agent_end", n |-> 0])]
  /\ UNCHANGED <<terminal, children, busy, asks, pending, call, shown, dialogs>>

(* onEvent, onUiRequest                                                     *)
Handle(s) ==
  /\ lines[s] # << >>
  /\ LET line == Head(lines[s])
     IN  IF line.type = "agent_end"
         THEN busy' = [busy EXCEPT ![s] = FALSE] /\ shown' = "idle" /\ UNCHANGED pending
         ELSE pending' = [pending EXCEPT ![s][line.type] = Append(@, line.n)]
              /\ UNCHANGED <<busy, shown>>
  /\ lines' = [lines EXCEPT ![s] = Tail(@)]
  /\ UNCHANGED <<terminal, children, agent, asks, call, dialogs>>

(* The exit of a child ends its turn and forgets the session, whichever     *)
(* child is registered by then.                                             *)
Exit(s) ==
  /\ proc[s] = "stopping" \/ (proc[s] = "up" /\ \A c \in Calls :
                                call[c] = Idle \/ "race" \in Happens)
  /\ proc' = [proc EXCEPT ![s] = "gone"] /\ live' = 0
  /\ busy' = [busy EXCEPT ![s] = FALSE] /\ shown' = "idle"
  /\ agent' = [agent EXCEPT ![s] = FALSE] /\ asks' = [asks EXCEPT ![s] = {}]
  /\ lines' = [lines EXCEPT ![s] = << >>]
  /\ UNCHANGED <<terminal, pending, call, dialogs>>

-----------------------------------------------------------------------------
(* The phone.                                                               *)

(* respondPermission, respondQuestion: the oldest dialog of that kind.      *)
Respond(kind) ==
  /\ live # 0 /\ pending[live][kind] # << >>
  /\ asks' = [asks EXCEPT ![live] = @ \ {Head(pending[live][kind])}]
  /\ pending' = [pending EXCEPT ![live][kind] = Tail(@)]
  /\ UNCHANGED <<terminal, children, busy, agent, lines, call, shown, dialogs>>

(* Slip: an interrupt aborts the turn and drops its dialogs unanswered.     *)
Abort ==
  /\ live # 0 /\ (agent[live] \/ busy[live] \/ Awaiting(live))
  /\ pending' = [pending EXCEPT ![live] = [k \in Kinds |-> << >>]]
  /\ IF agent[live] /\ asks[live] = {}
     THEN /\ agent' = [agent EXCEPT ![live] = FALSE]
          /\ lines' = [lines EXCEPT ![live] = Append(@, [type |-> "agent_end", n |-> 0])]
     ELSE UNCHANGED <<agent, lines>>
  /\ UNCHANGED <<terminal, children, busy, asks, call, shown, dialogs>>

(* interrupt: the open dialogs are cancelled first, then the turn is        *)
(* aborted; pi does not end it while it waits for another one.              *)
Interrupt ==
  /\ live # 0 /\ (agent[live] \/ busy[live] \/ Awaiting(live))
  /\ LET left == asks[live] \ UNION {Range(pending[live][k]) : k \in Kinds}
     IN  /\ asks' = [asks EXCEPT ![live] = left]
         /\ IF agent[live] /\ left = {}
            THEN /\ agent' = [agent EXCEPT ![live] = FALSE]
                 /\ lines' = [lines EXCEPT ![live] = Append(@, [type |-> "agent_end", n |-> 0])]
            ELSE UNCHANGED <<agent, lines>>
  /\ pending' = [pending EXCEPT ![live] = [k \in Kinds |-> << >>]]
  /\ UNCHANGED <<terminal, children, busy, call, shown, dialogs>>

TerminalChanges ==
  /\ terminal' = ~terminal
  /\ UNCHANGED <<children, turns, call, shown, dialogs>>

-----------------------------------------------------------------------------
Going(c) ==
  \/ ToTerminal(c) \/ Dropped(c) \/ Spawn(c) \/ Reuse(c) \/ Started(c) \/ StartFails(c)

Next ==
  \/ \E c \in Calls : Prompt(c) \/ Going(c)
  \/ \E s \in Children : TurnEnds(s) \/ Handle(s) \/ Exit(s) \/ \E k \in Kinds : Ask(s, k)
  \/ \E k \in Kinds : Respond(k)
  \/ Interrupt \/ TerminalChanges

(* Calls, lines and turns go on, a child that is stopped exits, and the     *)
(* phone answers what it is asked.                                          *)
Fair ==
  /\ \A c \in Calls : WF_vars(Going(c))
  /\ \A s \in Children : WF_vars(TurnEnds(s)) /\ WF_vars(Handle(s))
                         /\ WF_vars(proc[s] = "stopping" /\ Exit(s))
  /\ \A k \in Kinds : WF_vars(Respond(k))
Spec == Init /\ [][Next]_vars
FairSpec == Spec /\ Fair

-----------------------------------------------------------------------------
TypeOK ==
  /\ terminal \in BOOLEAN /\ live \in 0 .. MaxSpawns /\ shown \in {"idle", "busy"}
  /\ \A s \in Children :
       /\ proc[s] \in {None, "starting", "up", "stopping", "gone"}
       /\ asks[s] \subseteq 1 .. dialogs
  /\ \A c \in Calls : call[c].at \in {"idle", "probe", "drop", "start"}

(* "NEVER spawn a second instance" (provider.mjs:455): one conversation has *)
(* one child, over prompts, exits and a terminal that comes and goes.       *)
OneChild == Cardinality(Living) <= 1

(* Nobody waits for an answer that cannot be given: every dialog pi waits   *)
(* for is on its way to the phone or first to be answered some time, at the *)
(* session that is registered.                                              *)
DialogsPending ==
  \A s \in Children, d \in 1 .. MaxDialogs :
    d \in asks[s] /\ proc[s] = "up" =>
      /\ s = live
      /\ \/ \E k \in Kinds : d \in Range(pending[s][k])
         \/ \E i \in 1 .. Len(lines[s]) : lines[s][i].n = d

(* The phone was told busy; it is told idle: the turn ends, fails or dies   *)
(* (MCEnds).                                                                *)
Waits == shown = "busy"
===============================================================================
