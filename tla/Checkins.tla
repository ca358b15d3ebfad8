------------------------------- MODULE Checkins -------------------------------
(***************************************************************************)
(* The overseer's check-ins (overseer/checkins.mjs): reminders the model    *)
(* schedules for itself under caps, each a task that sleeps in the store    *)
(* and then submits one follow-up input, and the nightly reset of its       *)
(* context.  Time is in steps of the shortest gap; pi-durable (tasks that   *)
(* survive restarts, commits, the root's runs and inbox) is external.       *)
(***************************************************************************)
EXTENDS Naturals, FiniteSets

CONSTANTS Calls,       (* schedule calls that can overlap                    *)
          MaxTime,     (* bound on the clock                                 *)
          Ahead,       (* the longest time ahead                             *)
          DayLength,
          MaxPending, MaxPerDay,
          Happens      (* what may happen besides: "midnight" (a day ends    *)
                       (* during a call), "overlap" (a check-in comes while  *)
                       (* the run of an earlier one goes on)                 *)

None == 0

VARIABLES
  now,
  pending,  (* doc.pending: id and at of each                               *)
  ids,      (* tasks created                                                *)
  day, made,       (* doc.day, doc.count                                    *)
  hop, from,       (* doc.fromCheckin; doc.fromSubmission, its check-in     *)
  inbox,    (* inputs queued: check-ins, or User                            *)
  inputs,   (* the inputs of the root's run, {} between runs                *)
  calls,    (* each call: idle, or what it read before its commit           *)
  nightly,  (* the nightly task: sleep, due, or checked                     *)
  perDay,   (* reference: check-ins scheduled on each day                   *)
  chained   (* reference: check-ins each check-in's run has scheduled       *)

vars == <<now, pending, ids, day, made, hop, from, inbox, inputs, calls, nightly, perDay, chained>>

MaxIds == MaxPerDay * (MaxTime \div DayLength + 1)
User == MaxIds + 1
Day(t) == t \div DayLength
Days == 0 .. Day(MaxTime)
Idle == [at |-> None, t |-> 0, inputs |-> {}]

Init ==
  /\ now = 0 /\ pending = {} /\ ids = 0 /\ day = 0 /\ made = 0 /\ hop = "false" /\ from = None
  /\ inbox = {} /\ inputs = {} /\ calls = [c \in Calls |-> Idle] /\ nightly = "sleep"
  /\ perDay = [d \in Days |-> 0] /\ chained = [i \in 1 .. MaxIds |-> 0]

-----------------------------------------------------------------------------
(* checkin_schedule and checkin_cancel, called in a run.                    *)

(* The time and the run's inputs are read before the commit.                *)
Schedule(c, ahead) ==
  /\ calls[c] = Idle /\ inputs # {} /\ now + ahead <= MaxTime
  /\ calls' = [calls EXCEPT ![c] = [at |-> now + ahead, t |-> now, inputs |-> inputs]]
  /\ UNCHANGED <<now, pending, ids, day, made, hop, from, inbox, inputs, nightly, perDay, chained>>

Hop(c) == from # None /\ from \in calls[c].inputs

(* Slip: the caps are not looked at again in the commit.                    *)
Unchecked(c, count) == TRUE

(* The caps, in the commit that creates the task.                           *)
Allowed(c, count) ==
  /\ Cardinality(pending) < MaxPending
  /\ \A p \in pending : p.at # calls[c].at
  /\ count < MaxPerDay
  /\ ~(Hop(c) /\ hop = "spent")

(* Slip: a check-in run's own check-in is not noted.                        *)
SpentUnnoted(c) == UNCHANGED hop

Spent(c) == hop' = IF Hop(c) THEN "spent" ELSE hop

Commit(c) ==
  /\ calls[c] # Idle
  /\ "midnight" \in Happens \/ Day(calls[c].t) = Day(now)
  /\ LET today == Day(calls[c].t)
         count == IF day = today THEN made ELSE 0
     IN  /\ day' = today
         /\ IF Allowed(c, count) /\ ids < MaxIds
            THEN /\ ids' = ids + 1 /\ made' = count + 1
                 /\ pending' = pending \cup {[id |-> ids + 1, at |-> calls[c].at]}
                 /\ Spent(c)
                 /\ perDay' = [perDay EXCEPT ![today] = @ + 1]
                 /\ chained' = [i \in 1 .. MaxIds |-> chained[i] + IF i \in calls[c].inputs THEN 1 ELSE 0]
            ELSE made' = count /\ UNCHANGED <<pending, ids, hop, perDay, chained>>
  /\ calls' = [calls EXCEPT ![c] = Idle]
  /\ UNCHANGED <<now, from, inbox, inputs, nightly>>

(* Its task finds itself gone when it is due.                               *)
Cancel(p) ==
  /\ inputs # {} /\ p \in pending
  /\ pending' = pending \ {p}
  /\ UNCHANGED <<now, ids, day, made, hop, from, inbox, inputs, calls, nightly, perDay, chained>>

-----------------------------------------------------------------------------
(* The tasks.                                                               *)

(* deliver: one follow-up input, in the commit that ends the task.          *)
Deliver(p) ==
  /\ p \in pending /\ p.at <= now
  /\ "overlap" \in Happens \/ (inputs = {} /\ inbox \subseteq {User})
  /\ pending' = pending \ {p} /\ inbox' = inbox \cup {p.id}
  /\ hop' = "true" /\ from' = p.id
  /\ UNCHANGED <<now, ids, day, made, inputs, calls, nightly, perDay, chained>>

(* The kill switch is on: it is skipped.                                    *)
Skip(p) ==
  /\ p \in pending /\ p.at <= now
  /\ pending' = pending \ {p}
  /\ UNCHANGED <<now, ids, day, made, hop, from, inbox, inputs, calls, nightly, perDay, chained>>

NightFalls ==
  /\ nightly = "sleep" /\ now > 0 /\ now % DayLength = 0
  /\ nightly' = "due"
  /\ UNCHANGED <<now, pending, ids, day, made, hop, from, inbox, inputs, calls, perDay, chained>>

(* A run: again in ten minutes.                                             *)
NightlyLooks ==
  /\ nightly = "due" /\ inputs = {} /\ nightly' = "checked"
  /\ UNCHANGED <<now, pending, ids, day, made, hop, from, inbox, inputs, calls, perDay, chained>>

(* Slip: the root is not looked at again before its reset.                  *)
ResetUnchecked ==
  /\ nightly = "checked" /\ nightly' = "sleep" /\ inbox' = {} /\ inputs' = {}
  /\ UNCHANGED <<now, pending, ids, day, made, hop, from, calls, perDay, chained>>

(* resetRoot: a run or a queued input that came meanwhile puts it off; the  *)
(* reset drops the context, and what would be in the inbox with it.         *)
Reset ==
  /\ nightly = "checked"
  /\ IF inputs = {} /\ inbox = {} THEN nightly' = "sleep" /\ inbox' = {} /\ inputs' = {}
     ELSE nightly' = "due" /\ UNCHANGED <<inbox, inputs>>
  /\ UNCHANGED <<now, pending, ids, day, made, hop, from, calls, perDay, chained>>

-----------------------------------------------------------------------------
(* The root: asks, runs; time.                                              *)

Ask ==
  /\ User \notin inbox /\ inbox' = inbox \cup {User}
  /\ UNCHANGED <<now, pending, ids, day, made, hop, from, inputs, calls, nightly, perDay, chained>>

(* A run takes what is queued, at its start and as follow-ups.              *)
Take ==
  /\ inbox # {} /\ inputs' = inputs \cup inbox /\ inbox' = {}
  /\ UNCHANGED <<now, pending, ids, day, made, hop, from, calls, nightly, perDay, chained>>

RunEnds ==
  /\ inputs # {} /\ inbox = {} /\ \A c \in Calls : calls[c] = Idle
  /\ inputs' = {}
  /\ UNCHANGED <<now, pending, ids, day, made, hop, from, inbox, calls, nightly, perDay, chained>>

Tick ==
  /\ now < MaxTime /\ now' = now + 1
  /\ "midnight" \in Happens \/ Day(now + 1) = Day(now) \/ \A c \in Calls : calls[c] = Idle
  /\ UNCHANGED <<pending, ids, day, made, hop, from, inbox, inputs, calls, nightly, perDay, chained>>

Root == Take \/ RunEnds \/ \E c \in Calls : Commit(c)
Due == \E p \in pending : Deliver(p) \/ Skip(p)

Next ==
  \/ \E c \in Calls : \E ahead \in 1 .. Ahead : Schedule(c, ahead)
  \/ \E p \in pending : Cancel(p)
  \/ Due \/ NightFalls \/ NightlyLooks \/ Reset
  \/ Ask \/ Root \/ Tick

Spec == Init /\ [][Next]_vars

-----------------------------------------------------------------------------
TypeOK ==
  /\ now \in 0 .. MaxTime /\ pending \subseteq [id : 1 .. ids, at : 1 .. MaxTime]
  /\ ids \in 0 .. MaxIds /\ made \in 0 .. MaxPerDay /\ hop \in {"false", "true", "spent"}
  /\ from \in 0 .. ids /\ inbox \subseteq 1 .. User /\ inputs \subseteq 1 .. User
  /\ nightly \in {"sleep", "due", "checked"}

(* Calls that overlap, days that change and restarts never let more than    *)
(* the caps pend, come closer than the gap, or be scheduled in a day; and a *)
(* run started by a check-in schedules at most one more (checkins.mjs:5-7). *)
PendingCap == Cardinality(pending) <= MaxPending /\ \A p, q \in pending : p # q => p.at # q.at
DayCap == \A d \in Days : perDay[d] <= MaxPerDay
OneHop == \A i \in 1 .. MaxIds : chained[i] <= 1
CapsHold == PendingCap /\ DayCap /\ OneHop

(* The nightly reset takes nothing that was asked with it: what waits or    *)
(* runs is still there after it (checkins.mjs:256-257).                     *)
ResetWhenQuiet == nightly = "checked" /\ nightly' = "sleep" => inbox = {} /\ inputs = {}
NothingCutOff == [][ResetWhenQuiet]_vars
=============================================================================
