--------------------------- MODULE OverseerActions ---------------------------
(***************************************************************************)
(* The overseer's gated actions (overseer/actions.mjs): proposals written  *)
(* to the even.overseer.actions document, confirmed, denied or expired,    *)
(* and executed; standing orders, which send a message without a question; *)
(* the phone, whose answer carries no action id; and a restart of the      *)
(* bridge at any point.  Document commits are serialized by the harness;   *)
(* everything between two commits interleaves.                             *)
(*                                                                         *)
(* An action's id is the position at which its item was inserted.          *)
(***************************************************************************)
EXTENDS Naturals, Sequences, FiniteSets

CONSTANTS
  Callers,        (* propose() calls that may be in progress together       *)
  RequestIds,     (* the ids Even AI's one gate sends                       *)
  Texts,          (* the texts of messages and standing orders              *)
  Requests,       (* what a caller may propose                              *)
  MaxItems,       (* bound on the actions ever proposed                     *)
  Keep,           (* ACTIONS_KEEP: settled items the document holds         *)
  AgentLimit,     (* AGENT_LIMIT                                            *)
  MaxTimes,       (* maxTimes of every standing order                       *)
  Happens,        (* what the surroundings do: "restart" (of the bridge),   *)
                  (* "kill switch" (agents.disabled exists at a confirm),   *)
                  (* "phone" (one is connected to dur-overseer), "expiry"   *)
                  (* (questions and orders run out of time)                 *)
  AnswersInTime   (* prompts and answers cross the network within           *)
                  (* PHONE_ANSWER_MIN_MS                                    *)

Ids == 1 .. MaxItems
Kinds == {"session_start", "session_message", "standing_order", "session_stop"}
Request == [kind : Kinds, origin : {"overseer", "evenai"},
            requestId : RequestIds \union {"none"}, handoff : BOOLEAN,
            text : Texts \union {"none"}]

ASSUME ActionsAssumption ==
  /\ MaxItems \in Nat
  /\ Keep \in Nat
  /\ AgentLimit \in Nat
  /\ MaxTimes \in Nat \ {0}
  /\ Happens \subseteq {"restart", "kill switch", "phone", "expiry"}
  /\ AnswersInTime \in BOOLEAN
  /\ Requests \subseteq Request
  /\ \A r \in Requests : r.handoff => r.kind = "session_start" /\ r.origin = "overseer"

VARIABLES
  items,        (* the document's items by id; "none" before, "dropped" by  *)
                (* prune after                                              *)
  made,         (* the newest id                                            *)
  lapsed,       (* ids whose expiresAt has passed                           *)
  orders,       (* the standing orders document, by the order's action id   *)
  over,         (* standing orders whose `until` has passed                 *)
  agents,       (* per session_start: the agent it created                  *)
  runs,         (* per action: how often it had an effect                   *)
  calls,        (* propose() calls in progress                              *)
  confirms,     (* inflight: per action, where its confirmOnce is           *)
  phonePrompt,  (* the last prompt sent to the phone                        *)
  wire,         (* prompts on their way to the phone                        *)
  screen,       (* the prompt on the phone's screen, 0 when none            *)
  answer,       (* the phone's answer on its way back                       *)
  denying,      (* phone denials whose commit has not happened yet          *)
  misheard      (* an answer was taken for another action than it was about *)

vars == <<items, made, lapsed, orders, over, agents, runs, calls,
          confirms, phonePrompt, wire, screen, answer, denying, misheard>>
docVars == <<items, made, orders>>
phoneVars == <<phonePrompt, wire, screen, answer, misheard>>
worldVars == <<lapsed, over>>

-----------------------------------------------------------------------------
NoItem == [state |-> "none", result |-> FALSE, kind |-> "none",
           origin |-> "none", requestId |-> "none", handoff |-> FALSE,
           text |-> "none", standing |-> 0]
NewItem(r, order) ==
  [state |-> "pending", result |-> FALSE, kind |-> r.kind, origin |-> r.origin,
   requestId |-> r.requestId, handoff |-> r.handoff, text |-> r.text,
   standing |-> order]

Idle == [step |-> "idle", req |-> NoItem, past |-> {}, id |-> 0]
NoAnswer == [about |-> 0, allow |-> FALSE]

Settled(its) == {i \in Ids : its[i].state \in {"confirmed", "denied", "expired", "failed"}}

(* prune: the oldest settled items past Keep leave the document.            *)
Prune(its) ==
  LET old == {i \in Settled(its) : Cardinality({j \in Settled(its) : j >= i}) > Keep}
  IN  [i \in Ids |-> IF i \in old THEN [its[i] EXCEPT !.state = "dropped"] ELSE its[i]]

Push(item) ==
  /\ made < MaxItems
  /\ made' = made + 1
  /\ items' = Prune([items EXCEPT ![made + 1] = item])

(* waitsForUser at a moment when the ids of `past` had expired.             *)
WaitsForUser(i, past) ==
  /\ items[i].state = "pending" /\ i \notin past
  /\ items[i].origin = "overseer" /\ items[i].standing = 0

(* Slip: only a hand-off still waiting to be confirmed counts.              *)
HandoffWaiting == \E i \in Ids : items[i].handoff /\ items[i].state = "pending"

HandoffTaken == \E i \in Ids : items[i].handoff /\ items[i].state \in {"pending", "confirmed"}

(* The item a requestId finds: the oldest one of the same origin.           *)
Same(r) ==
  LET found == {i \in Ids : /\ items[i].state \notin {"none", "dropped"}
                            /\ items[i].requestId = r.requestId
                            /\ items[i].origin = r.origin}
  IN  IF r.requestId = "none" THEN {}
      ELSE {i \in found : \A j \in found : i <= j}

(* listAgents shows an agent once it has its conversation.                  *)
AtAgentLimit == Cardinality({i \in Ids : agents[i] \in {"idle", "tasked"}}) >= AgentLimit

(* Slip: an order with every use taken stays in the document.               *)
FilteredLate(o) ==
  [a \in Ids |-> [o[a] EXCEPT !.listed = @ /\ a \notin over /\ o[a].used <= MaxTimes]]

(* Every read or write of the standing orders first drops the used-up and   *)
(* the ended ones.                                                          *)
Filtered(o) ==
  [a \in Ids |-> [o[a] EXCEPT !.listed = @ /\ a \notin over /\ o[a].used < MaxTimes]]

(* Steps of confirmOnce after the action was claimed.                       *)
Executing == {"check", "run", "created", "record", "fail"}

-----------------------------------------------------------------------------
Init ==
  /\ items = [i \in Ids |-> NoItem]
  /\ made = 0
  /\ lapsed = {}
  /\ orders = [a \in Ids |-> [listed |-> FALSE, used |-> 0]]
  /\ over = {}
  /\ agents = [i \in Ids |-> "none"]
  /\ runs = [i \in Ids |-> 0]
  /\ calls = [p \in Callers |-> Idle]
  /\ confirms = [i \in Ids |-> "none"]
  /\ phonePrompt = [id |-> 0, fresh |-> FALSE]
  /\ wire = <<>>
  /\ screen = 0
  /\ answer = NoAnswer
  /\ denying = {}
  /\ misheard = FALSE

-----------------------------------------------------------------------------
(* propose                                                                  *)

Returns(p) == calls' = [calls EXCEPT ![p] = Idle]
Goes(p, step) == calls' = [calls EXCEPT ![p].step = step]

Propose(p, r) ==
  /\ calls[p].step = "idle"
  /\ calls' = [calls EXCEPT ![p].req = r,
        ![p].step = IF r.kind = "session_message" /\ r.origin = "overseer"
                    THEN "order" ELSE "read"]
  /\ UNCHANGED <<docVars, agents, runs, confirms, denying, phoneVars, worldVars>>

(* underStandingOrder, first commit: an order with the same text gives one  *)
(* use and the message is written as an action that asks nobody.            *)
TakeUse(p) ==
  /\ calls[p].step = "order"
  /\ \E a \in Ids :
       LET o == Filtered(orders)
       IN  /\ o[a].listed /\ items[a].text = calls[p].req.text
           /\ orders' = [o EXCEPT ![a].used = @ + 1]
           /\ Push(NewItem(calls[p].req, a))
  /\ calls' = [calls EXCEPT ![p].step = "send", ![p].id = made']
  /\ UNCHANGED <<agents, runs, confirms, denying, phoneVars, worldVars>>

NoOrder(p) ==
  /\ calls[p].step = "order"
  /\ orders' = Filtered(orders)
  /\ \A a \in Ids : orders'[a].listed => items[a].text # calls[p].req.text
  /\ Goes(p, "read")
  /\ UNCHANGED <<items, made, agents, runs, confirms, denying, phoneVars, worldVars>>

(* It is confirmed like any action; a confirm in flight is shared.          *)
Send(p) ==
  /\ calls[p].step = "send"
  /\ confirms' = [confirms EXCEPT ![calls[p].id] = IF @ = "none" THEN "read" ELSE @]
  /\ Goes(p, "sending")
  /\ UNCHANGED <<docVars, agents, runs, denying, phoneVars, worldVars>>

(* A send that did not happen gives its use back.                           *)
GiveBack(p) ==
  /\ calls[p].step = "unsent"
  /\ LET a == items[calls[p].id].standing
     IN  orders' = [orders EXCEPT ![a].used = IF orders[a].listed /\ @ > 0 THEN @ - 1 ELSE @]
  /\ Returns(p)
  /\ UNCHANGED <<items, made, agents, runs, confirms, denying, phoneVars, worldVars>>

(* The document is read: a retried requestId gets its action back, a second *)
(* question or a second agent for the hand-off is refused.                  *)
ReadItems(p) ==
  /\ calls[p].step = "read"
  /\ LET r == calls[p].req
     IN  IF \/ \E i \in Same(r) : items[i].state \in {"pending", "confirmed"}
            \/ r.origin = "overseer" /\ \E i \in Ids : WaitsForUser(i, lapsed)
            \/ r.handoff /\ HandoffTaken
         THEN Returns(p)
         ELSE calls' = [calls EXCEPT
                ![p].step = IF r.kind = "session_start" THEN "limits" ELSE "insert",
                ![p].past = IF r.kind = "session_start" THEN {} ELSE lapsed]
  /\ UNCHANGED <<docVars, agents, runs, confirms, denying, phoneVars, worldVars>>

CheckLimits(p) ==
  /\ calls[p].step = "limits"
  /\ IF AtAgentLimit THEN Returns(p)
     ELSE calls' = [calls EXCEPT ![p].step = "insert", ![p].past = lapsed]
  /\ UNCHANGED <<docVars, agents, runs, confirms, denying, phoneVars, worldVars>>

(* Slip: the commit trusts what was read before it.                         *)
InsertUnchecked(p) ==
  /\ calls[p].step = "insert"
  /\ Push(NewItem(calls[p].req, 0))
  /\ IF calls[p].req.origin = "overseer"
     THEN calls' = [calls EXCEPT ![p].step = "prompt", ![p].id = made']
     ELSE Returns(p)
  /\ UNCHANGED <<orders, agents, runs, confirms, denying, phoneVars, worldVars>>

(* The commit checks again and writes the item.                             *)
Insert(p) ==
  /\ calls[p].step = "insert"
  /\ LET r == calls[p].req
     IN  IF \/ r.origin = "overseer" /\ \E i \in Ids : WaitsForUser(i, calls[p].past)
            \/ r.handoff /\ HandoffTaken
         THEN Returns(p) /\ UNCHANGED <<items, made>>
         ELSE /\ Push(NewItem(r, 0))
              /\ IF r.origin = "overseer"
                 THEN calls' = [calls EXCEPT ![p].step = "prompt", ![p].id = made']
                 ELSE Returns(p)
  /\ UNCHANGED <<orders, agents, runs, confirms, denying, phoneVars, worldVars>>

(* Slip: a prompt just sent may be answered at once.                        *)
PromptAtOnce(p) ==
  /\ calls[p].step = "prompt"
  /\ phonePrompt' = [id |-> calls[p].id, fresh |-> FALSE]
  /\ wire' = IF "phone" \in Happens THEN Append(wire, calls[p].id) ELSE wire
  /\ Returns(p)
  /\ UNCHANGED <<docVars, agents, runs, confirms, denying, screen, answer,
                 misheard, worldVars>>

(* The permission_request goes to the phone.                                *)
Prompt(p) ==
  /\ calls[p].step = "prompt"
  /\ phonePrompt' = [id |-> calls[p].id, fresh |-> TRUE]
  /\ wire' = IF "phone" \in Happens THEN Append(wire, calls[p].id) ELSE wire
  /\ Returns(p)
  /\ UNCHANGED <<docVars, agents, runs, confirms, denying, screen, answer,
                 misheard, worldVars>>

-----------------------------------------------------------------------------
(* confirm                                                                  *)

(* Anybody who knows the id may confirm; concurrent confirms share one.     *)
Confirm(i) ==
  /\ i <= made /\ confirms[i] = "none"
  /\ confirms' = [confirms EXCEPT ![i] = "read"]
  /\ UNCHANGED <<docVars, agents, runs, calls, denying, phoneVars, worldVars>>

At(i, step) == confirms' = [confirms EXCEPT ![i] = step]

(* The promise settles: callers sending under a standing order learn how.   *)
Finish(i, ok) ==
  /\ At(i, "none")
  /\ calls' = [p \in Callers |->
       IF calls[p].step # "sending" \/ calls[p].id # i THEN calls[p]
       ELSE IF ok THEN Idle ELSE [calls[p] EXCEPT !.step = "unsent"]]

(* confirmOnce's first look: a settled action reports how it went, a        *)
(* pending one is expired, claimed or, with the kill switch on, left.       *)
ConfirmRead(i) ==
  /\ confirms[i] = "read"
  /\ IF items[i].state # "pending"
     THEN Finish(i, items[i].state = "confirmed" /\ items[i].result)
     ELSE IF i \in lapsed THEN At(i, "expire") /\ UNCHANGED calls
     ELSE \/ At(i, "claim") /\ UNCHANGED calls
          \/ "kill switch" \in Happens /\ Finish(i, FALSE)
  /\ UNCHANGED <<docVars, agents, runs, denying, phoneVars, worldVars>>

(* Slip: the state is spelled as no reader of the document knows it.        *)
ExpireMisspelt(i) ==
  items' = [items EXCEPT ![i].state = IF @ = "pending" THEN "timed out" ELSE @]

(* expire(id): a commit.                                                    *)
Expire(i) ==
  items' = [items EXCEPT ![i].state = IF @ = "pending" THEN "expired" ELSE @]

ConfirmExpire(i) ==
  /\ confirms[i] = "expire"
  /\ Expire(i)
  /\ Finish(i, FALSE)
  /\ UNCHANGED <<made, orders, agents, runs, denying, phoneVars, worldVars>>

(* Slip: an item denied since it was read is claimed all the same.          *)
ClaimBlindly(i) ==
  /\ confirms[i] = "claim"
  /\ items' = [items EXCEPT ![i].state = "confirmed"] /\ At(i, "check")
  /\ UNCHANGED <<made, orders, agents, runs, calls, denying, phoneVars, worldVars>>

(* The claim's commit; an item settled meanwhile is read again.             *)
Claim(i) ==
  /\ confirms[i] = "claim"
  /\ IF items[i].state = "pending"
     THEN items' = [items EXCEPT ![i].state = "confirmed"] /\ At(i, "check")
     ELSE UNCHANGED items /\ At(i, "read")
  /\ UNCHANGED <<made, orders, agents, runs, calls, denying, phoneVars, worldVars>>

(* The limits again for a start, the session's driver for the rest.         *)
Recheck(i) ==
  /\ confirms[i] = "check"
  /\ \/ /\ items[i].kind = "session_start" => ~AtAgentLimit
        /\ At(i, "run")
     \/ At(i, "fail")
  /\ UNCHANGED <<docVars, agents, runs, calls, denying, phoneVars, worldVars>>

Ran(i) == runs' = [runs EXCEPT ![i] = @ + 1]

(* host.execute of a start: the agent's row and its requestId are written,  *)
(* then its conversation is created and the task submitted.                 *)
CreateAgent(i) ==
  /\ confirms[i] = "run" /\ items[i].kind = "session_start"
  /\ agents' = [agents EXCEPT ![i] = "row"]
  /\ Ran(i)
  /\ At(i, "created")
  /\ UNCHANGED <<docVars, calls, denying, phoneVars, worldVars>>

SubmitTask(i) ==
  /\ confirms[i] = "created"
  /\ \/ agents' = [agents EXCEPT ![i] = "tasked"] /\ At(i, "record")
     \/ /\ \E left \in {"row", "idle", "gone"} : agents' = [agents EXCEPT ![i] = left]
        /\ At(i, "fail")
  /\ UNCHANGED <<docVars, runs, calls, denying, phoneVars, worldVars>>

(* recordStanding: the confirmed order joins the document.                  *)
RecordStanding(i) ==
  /\ confirms[i] = "run" /\ items[i].kind = "standing_order"
  /\ orders' = [Filtered(orders) EXCEPT ![i] = [listed |-> TRUE, used |-> 0]]
  /\ Ran(i)
  /\ At(i, "record")
  /\ UNCHANGED <<items, made, agents, calls, denying, phoneVars, worldVars>>

(* host.execute of a message or a stop.                                     *)
Execute(i) ==
  /\ confirms[i] = "run" /\ items[i].kind \in {"session_message", "session_stop"}
  /\ Ran(i)
  /\ At(i, "record")
  /\ UNCHANGED <<docVars, agents, calls, denying, phoneVars, worldVars>>

(* Any of them may throw before it had an effect.                           *)
Throws(i) ==
  /\ confirms[i] = "run"
  /\ At(i, "fail")
  /\ UNCHANGED <<docVars, agents, runs, calls, denying, phoneVars, worldVars>>

Record(i) ==
  /\ confirms[i] = "record"
  /\ items' = [items EXCEPT ![i].result = (items[i].state # "dropped")]
  /\ Finish(i, TRUE)
  /\ UNCHANGED <<made, orders, agents, runs, denying, phoneVars, worldVars>>

(* Slip: the error is reported to the caller only.                          *)
FailUnwritten(i) ==
  /\ confirms[i] = "fail"
  /\ Finish(i, FALSE)
  /\ UNCHANGED <<docVars, agents, runs, denying, phoneVars, worldVars>>

Fail(i) ==
  /\ confirms[i] = "fail"
  /\ items' = [items EXCEPT ![i].state = IF @ = "dropped" THEN @ ELSE "failed"]
  /\ Finish(i, FALSE)
  /\ UNCHANGED <<made, orders, agents, runs, denying, phoneVars, worldVars>>

-----------------------------------------------------------------------------
(* deny, sweep, the phone, time, restart                                    *)

Refuse(i) == items' = [items EXCEPT ![i].state = IF @ = "pending" THEN "denied" ELSE @]

Deny(i) ==
  /\ items[i].state = "pending"
  /\ Refuse(i)
  /\ UNCHANGED <<made, orders, agents, runs, calls, confirms, denying, phoneVars,
                 worldVars>>

(* Slip: what waits for the phone is left to the phone.                     *)
SweepUnasked(i) ==
  /\ items[i].state = "pending" /\ i \in lapsed /\ items[i].origin = "evenai"
  /\ Expire(i)
  /\ UNCHANGED <<made, orders, agents, runs, calls, confirms, denying, phoneVars,
                 worldVars>>

Sweep(i) ==
  /\ items[i].state = "pending" /\ i \in lapsed
  /\ Expire(i)
  /\ UNCHANGED <<made, orders, agents, runs, calls, confirms, denying, phoneVars,
                 worldVars>>

(* The phone shows the next prompt.                                         *)
Show ==
  /\ wire # <<>>
  /\ screen' = Head(wire)
  /\ wire' = Tail(wire)
  /\ UNCHANGED <<docVars, agents, runs, calls, confirms, denying, phonePrompt,
                 answer, misheard, worldVars>>

(* The user presses Yes or No.                                              *)
Press(allow) ==
  /\ screen # 0 /\ answer = NoAnswer
  /\ answer' = [about |-> screen, allow |-> allow]
  /\ screen' = 0
  /\ UNCHANGED <<docVars, agents, runs, calls, confirms, denying, phonePrompt,
                 wire, misheard, worldVars>>

(* PHONE_ANSWER_MIN_MS after the prompt.                                    *)
PromptAges ==
  /\ phonePrompt.fresh
  /\ AnswersInTime => wire = <<>> /\ answer.about \in {0, phonePrompt.id}
  /\ phonePrompt' = [phonePrompt EXCEPT !.fresh = FALSE]
  /\ UNCHANGED <<docVars, agents, runs, calls, confirms, denying, wire, screen,
                 answer, misheard, worldVars>>

(* respond: the answer is taken for the oldest waiting action, when that    *)
(* one's prompt was the last sent and not just now.                         *)
Respond ==
  /\ answer # NoAnswer
  /\ answer' = NoAnswer
  /\ LET waiting == {i \in Ids : WaitsForUser(i, lapsed)}
     IN  \E oldest \in waiting \union {0} :
           /\ IF waiting = {} THEN oldest = 0
              ELSE oldest # 0 /\ \A j \in waiting : oldest <= j
           /\ IF oldest = 0 \/ phonePrompt # [id |-> oldest, fresh |-> FALSE]
              THEN UNCHANGED <<confirms, denying, misheard>>
              ELSE /\ misheard' = (misheard \/ answer.about # oldest)
                   /\ IF answer.allow
                      THEN /\ confirms' = [confirms EXCEPT ![oldest] =
                                             IF @ = "none" THEN "read" ELSE @]
                           /\ UNCHANGED denying
                      ELSE denying' = denying \union {oldest} /\ UNCHANGED confirms
  /\ UNCHANGED <<docVars, agents, runs, calls, phonePrompt, wire, screen, worldVars>>

PhoneDeny(i) ==
  /\ i \in denying
  /\ Refuse(i)
  /\ denying' = denying \ {i}
  /\ UNCHANGED <<made, orders, agents, runs, calls, confirms, phoneVars, worldVars>>

Lapse(i) ==
  /\ "expiry" \in Happens
  /\ items[i].state = "pending" /\ i \notin lapsed
  /\ lapsed' = lapsed \union {i}
  /\ UNCHANGED <<docVars, agents, runs, calls, confirms, denying, phoneVars,
                 over>>

OrderEnds(a) ==
  /\ "expiry" \in Happens
  /\ orders[a].listed /\ a \notin over
  /\ over' = over \union {a}
  /\ UNCHANGED <<docVars, agents, runs, calls, confirms, denying, phoneVars,
                 lapsed>>

(* An agent is archived.                                                    *)
AgentEnds(i) ==
  /\ agents[i] \in {"idle", "tasked"}
  /\ agents' = [agents EXCEPT ![i] = "gone"]
  /\ UNCHANGED <<docVars, runs, calls, confirms, denying, phoneVars, worldVars>>

(* Slip: an execution that was cut off is taken for done.                   *)
RestartTrusting ==
  /\ "restart" \in Happens
  /\ items' = [i \in Ids |->
       IF items[i].state = "pending" THEN [items[i] EXCEPT !.state = "expired"]
       ELSE IF items[i].state = "confirmed" THEN [items[i] EXCEPT !.result = TRUE]
       ELSE items[i]]
  /\ calls' = [p \in Callers |-> Idle]
  /\ confirms' = [i \in Ids |-> "none"]
  /\ denying' = {}
  /\ phonePrompt' = [id |-> 0, fresh |-> FALSE]
  /\ UNCHANGED <<made, orders, agents, runs, wire, screen, answer, misheard, worldVars>>

(* The bridge dies and `ready` runs: pending actions expire, an execution   *)
(* that was cut off failed unless its agent is found by its requestId.      *)
Restart ==
  /\ "restart" \in Happens
  /\ items' = [i \in Ids |->
       IF items[i].state = "pending" THEN [items[i] EXCEPT !.state = "expired"]
       ELSE IF items[i].state # "confirmed" \/ items[i].result THEN items[i]
       ELSE IF agents[i] \notin {"none", "gone"} THEN [items[i] EXCEPT !.result = TRUE]
       ELSE [items[i] EXCEPT !.state = "failed"]]
  /\ calls' = [p \in Callers |-> Idle]
  /\ confirms' = [i \in Ids |-> "none"]
  /\ denying' = {}
  /\ phonePrompt' = [id |-> 0, fresh |-> FALSE]
  /\ UNCHANGED <<made, orders, agents, runs, wire, screen, answer, misheard, worldVars>>

-----------------------------------------------------------------------------
Proposing(p) ==
  \/ \E r \in Requests : Propose(p, r)
  \/ TakeUse(p) \/ NoOrder(p) \/ Send(p) \/ GiveBack(p)
  \/ ReadItems(p) \/ CheckLimits(p) \/ Insert(p) \/ Prompt(p)

Confirming(i) ==
  \/ ConfirmRead(i) \/ ConfirmExpire(i) \/ Claim(i) \/ Recheck(i)
  \/ CreateAgent(i) \/ SubmitTask(i) \/ RecordStanding(i) \/ Execute(i)
  \/ Throws(i) \/ Record(i) \/ Fail(i)

Phone ==
  \/ Show \/ PromptAges \/ Respond
  \/ \E allow \in BOOLEAN : Press(allow)

Next ==
  \/ \E p \in Callers : Proposing(p)
  \/ \E i \in Ids : \/ Confirm(i) \/ Confirming(i)
                    \/ Deny(i) \/ Sweep(i) \/ PhoneDeny(i)
                    \/ Lapse(i) \/ OrderEnds(i) \/ AgentEnds(i)
  \/ Phone
  \/ Restart

Spec == Init /\ [][Next]_vars

(* Time passes, the sweep's interval keeps firing, and a confirm's awaits   *)
(* resolve.                                                                 *)
FairSpec ==
  /\ Spec
  /\ \A i \in Ids : /\ WF_vars(Lapse(i))
                    /\ WF_vars(Sweep(i))
                    /\ WF_vars(Confirming(i))

-----------------------------------------------------------------------------
Item == [state : {"none", "pending", "confirmed", "denied", "expired", "failed", "dropped"},
         result : BOOLEAN, kind : Kinds \union {"none"},
         origin : {"none", "overseer", "evenai"},
         requestId : RequestIds \union {"none"}, handoff : BOOLEAN,
         text : Texts \union {"none"}, standing : Ids \union {0}]
Call == [step : {"idle", "order", "send", "sending", "unsent", "read", "limits",
                 "insert", "prompt"},
         req : Requests \union {NoItem}, past : SUBSET Ids, id : Ids \union {0}]

TypeOK ==
  /\ items \in [Ids -> Item]
  /\ made \in 0 .. MaxItems
  /\ lapsed \subseteq Ids
  /\ orders \in [Ids -> [listed : BOOLEAN, used : 0 .. MaxTimes]]
  /\ over \subseteq Ids
  /\ agents \in [Ids -> {"none", "row", "idle", "tasked", "gone"}]
  /\ runs \in [Ids -> Nat]
  /\ calls \in [Callers -> Call]
  /\ confirms \in [Ids -> {"none", "read", "expire", "claim"} \union Executing]
  /\ phonePrompt \in [id : Ids \union {0}, fresh : BOOLEAN]
  /\ wire \in Seq(Ids)
  /\ screen \in Ids \union {0}
  /\ answer \in [about : Ids \union {0}, allow : BOOLEAN]
  /\ denying \subseteq Ids
  /\ misheard \in BOOLEAN

(* The document, prune and the confirms in flight carry out what            *)
(* GatedActions promises: nothing runs twice, nothing runs that the user    *)
(* (or a standing order) did not allow, and a denied or expired action      *)
(* never comes back, whatever confirms, denials, sweeps and restarts race.  *)
Standing(i) ==
  CASE items[i].state = "none" -> "none"
    [] items[i].state = "pending" -> "asked"
    [] items[i].state \in {"confirmed", "failed"} -> "allowed"
    [] items[i].state \in {"denied", "expired"} -> "refused"
    [] items[i].state = "dropped" ->
         IF confirms[i] \in Executing THEN "allowed" ELSE "forgotten"

Gate == INSTANCE GatedActions WITH
  Actions <- Ids, status <- [i \in Ids |-> Standing(i)], runs <- runs
KeepsGate == Gate!Spec

(* One question at a time: two actions never wait for the phone's answer,   *)
(* which carries no id (actions.mjs:440-443, 462-463).                      *)
OneQuestion ==
  Cardinality({i \in Ids : WaitsForUser(i, lapsed)}) <= 1

(* The phone's answer is only ever taken for the action whose prompt the    *)
(* user saw (actions.mjs:54-60, 805-812), as long as prompts and answers    *)
(* cross the network within PHONE_ANSWER_MIN_MS.                            *)
AnswerMeansPrompt == ~misheard

(* A standing order never sends more messages than the user allowed, though *)
(* uses are taken before the send and given back after a failed one.        *)
SentUnder(a) == {i \in Ids : items[i].standing = a /\ runs[i] > 0}
StandingWithinUses == \A a \in Ids : Cardinality(SentUnder(a)) <= MaxTimes

(* A hand-off gets one agent with its task, whatever is proposed again,     *)
(* fails or is cut off.                                                     *)
OneHandoffAgent ==
  Cardinality({i \in Ids : items[i].handoff /\ agents[i] = "tasked"}) <= 1

(* What a confirm reports as done had its effect, across restarts too.      *)
ResultMeansRun == \A i \in Ids : items[i].result => runs[i] = 1

(* Every action leaves pending, and an execution always ends in a result or *)
(* an error.                                                                *)
QuestionsEnd == \A i \in Ids : []<>(items[i].state # "pending")
ExecutionsEnd == \A i \in Ids : []<>(items[i].state # "confirmed" \/ items[i].result)
ActionsEnd == QuestionsEnd /\ ExecutionsEnd
===============================================================================
