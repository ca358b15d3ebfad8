----------------------------- MODULE DurableWatch -----------------------------
(***************************************************************************)
(* How a native durable session reaches the ring (durable/provider.mjs,     *)
(* durable/wire.mjs): a watcher follows the conversation while it is busy   *)
(* or a client is attached, and a translator turns successive views of it   *)
(* into frames by comparing them.  A watch that dies during a run is        *)
(* attached again with the translator of the dead one.  pi-durable is       *)
(* external: it commits entries, runs and their failures, and a watch       *)
(* delivers the conversation as it is, any number of commits at a time.     *)
(***************************************************************************)
EXTENDS Naturals, Sequences, SequencesExt

CONSTANTS
  MaxEntries,   (* bound on the conversation's entries                      *)
  TextLen,      (* length of an answer's text; 0: no answers                *)
  MaxTries,     (* backoff.maxTries                                         *)
  MaxFaults,    (* bound on watches that die or are refused, and restarts   *)
  Continues,    (* afterFailedRun: "continue", a failed run goes on as a new one *)
  Clients       (* phones that attach and leave                             *)

VARIABLES
  entries,   (* the conversation: prompts and answers, by id                *)
  run,       (* pi.live.run: id of its first entry and its task             *)
  failure,   (* pi.live.runFailure: the same of the run that failed         *)
  inbox,     (* inputs queued for the run                                   *)
  partial,   (* the answer being generated: run and place, attempt, length  *)
  tasks,     (* tasks so far                                                *)
  ring,      (* the frames of this process                                  *)
  state,     (* states.get(sid)                                             *)
  live,      (* the watcher: "none", "starting" or "ready"                  *)
  tr,        (* its translator                                              *)
  work,      (* its last view shows a run or queued inputs                  *)
  due,       (* the check it makes a moment after it was attached           *)
  carried,   (* translators whose re-attachment is planned                  *)
  tries,     (* reattachTries                                               *)
  call,      (* a prompt(): where it is, and whether its watcher is live    *)
  clients,   (* clientCounts                                                *)
  seed,      (* seedTranscript: where it is, and the entries it read        *)
  recent,    (* after a restart: the session is busy and not yet watched    *)
  base,      (* the entries the newest translator took for history          *)
  lost,      (* a run is not followed, or by a translator that begins anew *)
  seen,      (* the task of the last run that a view showed                 *)
  faults

convVars == <<entries, run, failure, inbox, partial, tasks>>
watchVars == <<live, tr, work, due>>
planVars == <<carried, tries>>
askVars == <<call, clients, seed, recent>>
ghostVars == <<base, lost, seen, faults>>
vars == <<convVars, ring, state, watchVars, planVars, askVars, ghostVars>>

None == [first |-> 0, task |-> 0]
NoText == [gen |-> <<0, 0>>, attempt |-> 0, len |-> 0]
Shown == [n |-> Len(entries), run |-> run, failure |-> failure, inbox |-> inbox,
          partial |-> partial]

-----------------------------------------------------------------------------
(* ViewTranslator.  Its state includes the frames it has emitted (`out`);   *)
(* thinking and tool frames are left out.                                   *)

Fresh == [primed |-> FALSE, last |-> 0, busy |-> FALSE, first |-> 0, tasks |-> {},
          told |-> 0, attempt |-> 0, text |-> NoText, user |-> FALSE, out |-> <<>>]

Text == [gen : Nat \X Nat, attempt : Nat, len : 0 .. TextLen]
Frame == [k : {"status"}, state : {"busy", "idle"}] \union [k : {"prompt"}, id : Nat]
         \union [k : {"result"}, task : Nat]
         \union [k : {"text"}, id : Nat, attempt : Nat, from : Nat, to : Nat]
Translator ==
  [primed : BOOLEAN, last : Nat, busy : BOOLEAN, first : Nat, tasks : SUBSET Nat, told : Nat,
   attempt : Nat, text : Text, user : BOOLEAN, out : Seq(Frame)]

Emit(t, f) == [t EXCEPT !.out = Append(@, f)]
Status(s) == [k |-> "status", state |-> s]
Prompted(id) == [k |-> "prompt", id |-> id]
Result(failed) == [k |-> "result", task |-> failed.task]

EnsureBusy(t) ==
  IF t.busy THEN t
  ELSE Emit([t EXCEPT !.busy = TRUE, !.first = 0, !.tasks = {}], Status("busy"))

NoteRun(t, r) ==
  IF r = None THEN t ELSE [t EXCEPT !.first = r.first, !.tasks = @ \union {r.task}]

ResetMessage(t) == [t EXCEPT !.attempt = 0, !.text = NoText]

(* streamContent: what the text adds to what was sent; a text that is no    *)
(* extension of it is sent again in full.                                   *)
Stream(t, id, text) ==
  IF text = t.text \/ (t.text = NoText /\ text.len = 0) THEN t
  ELSE Emit([t EXCEPT !.text = text],
            [k |-> "text", id |-> id, attempt |-> text.attempt, to |-> text.len,
             from |-> IF [t.text EXCEPT !.len = 0] = [text EXCEPT !.len = 0]
                      THEN t.text.len ELSE 0])

(* onEntry: an answer outside any run that is visible is not shown.         *)
OnEntry(t, visible) ==
  LET id == t.last + 1
      s  == [t EXCEPT !.last = id]
  IN  IF entries[id].kind = "user"
      THEN [EnsureBusy(Emit(s, Prompted(id))) EXCEPT !.user = TRUE]
      ELSE IF t.busy \/ visible \/ t.user
      THEN ResetMessage(Stream(EnsureBusy(s), id, entries[id].text))
      ELSE s

ProcessEntries(t, to, visible) ==
  LET upTo[s \in Translator] == IF s.last >= to THEN s ELSE upTo[OnEntry(s, visible)]
  IN  upTo[[t EXCEPT !.user = FALSE]]

(* onLive: another attempt abandons the text of the one before it.          *)
OnLive(t, v) ==
  LET new[s \in Translator] ==
        IF s.attempt \in {0, v.partial.attempt} THEN s ELSE ResetMessage(s)
      at[s \in Translator] == [s EXCEPT !.attempt = v.partial.attempt]
      u == at[new[t]]
  IN  IF v.partial.attempt = 0 THEN t
      ELSE IF u.busy THEN Stream(u, v.n + 1, v.partial) ELSE u

(* failureOfCurrentRun                                                      *)
FailureOfCurrentRun(t, f) ==
  /\ f # None /\ f.task # t.told
  /\ t.first # 0 => f.first = t.first

EndRun(t, failed) ==
  LET s == Emit(Emit(ResetMessage(t), Result(failed)), Status("idle"))
  IN  [s EXCEPT !.busy = FALSE, !.first = 0, !.tasks = {},
                !.told = IF failed = None THEN @ ELSE failed.task]

Failed(t, v) == IF FailureOfCurrentRun(t, v.failure) THEN v.failure ELSE None

(* The first view is history, but for a run in flight: its newest prompt    *)
(* and busy are reported.                                                   *)
Prime(t, v) ==
  LET s == [t EXCEPT !.primed = TRUE, !.told = v.failure.task, !.last = v.n]
      users == {i \in v.run.first .. v.n : i > 0 /\ entries[i].kind = "user"}
  IN  IF v.run = None THEN s
      ELSE NoteRun(EnsureBusy(IF users = {} THEN s ELSE Emit(s, Prompted(Max(users)))), v.run)

(* One commit may end a run and start the next: the entries before the new  *)
(* run's first belong to the old one.                                       *)
Split(t, v) ==
  LET next   == t.first # 0 /\ v.run.first # t.first
      failed == Failed(t, v)
  IN  IF t.busy /\ v.run # None /\ (next \/ failed # None)
      THEN EndRun(ProcessEntries(t, IF next THEN v.run.first - 1 ELSE v.n, TRUE), failed)
      ELSE t

(* apply                                                                    *)
Apply(t, v) ==
  LET primed[s \in Translator] == IF s.primed THEN s ELSE Prime(s, v)
      split[s \in Translator] == Split(s, v)
      shown[s \in Translator] == ProcessEntries(s, v.n, v.run # None)
      noted[s \in Translator] == IF v.run = None THEN s ELSE NoteRun(EnsureBusy(s), v.run)
      lived[s \in Translator] == OnLive(s, v)
      ended[s \in Translator] ==
        IF s.busy /\ v.run = None THEN EndRun(s, Failed(s, v)) ELSE s
  IN  ended[lived[noted[shown[split[primed[t]]]]]]

-----------------------------------------------------------------------------
Init ==
  /\ entries = <<>> /\ run = None /\ failure = None /\ inbox = 0
  /\ partial = NoText /\ tasks = 0
  /\ ring = <<>> /\ state = "idle"
  /\ live = "none" /\ tr = Fresh /\ work = FALSE /\ due = FALSE
  /\ carried = {} /\ tries = 0
  /\ call = [at |-> "idle", live |-> FALSE] /\ clients = {}
  /\ seed = [at |-> "none", n |-> 0] /\ recent = FALSE
  /\ base = 0 /\ lost = FALSE /\ seen = 0 /\ faults = 0

-----------------------------------------------------------------------------
(* The conversation (external).                                             *)

Input == <<[kind |-> "user", text |-> NoText]>>
Room == Len(entries) + inbox < MaxEntries
Conversing == UNCHANGED <<ring, state, watchVars, planVars, askVars, ghostVars>>

StartsRun(r) == run' = r /\ tasks' = r.task /\ partial' = NoText

(* An input that finds nothing running starts a run.                        *)
Submit ==
  IF run = None
  THEN /\ entries' = entries \o Input
       /\ StartsRun([first |-> Len(entries) + 1, task |-> tasks + 1])
       /\ failure' = None
       /\ UNCHANGED inbox
  ELSE inbox' = inbox + 1 /\ UNCHANGED <<entries, run, failure, partial, tasks>>

(* A generation streams, or is tried again.                                 *)
Generate ==
  /\ run # None /\ Room
  /\ \E again \in BOOLEAN :
       partial' = [gen |-> <<run.task, Len(entries)>>,
                   attempt |-> IF again \/ partial.attempt = 0 THEN partial.attempt + 1 ELSE partial.attempt,
                   len |-> IF again THEN 1 ELSE partial.len + 1]
  /\ partial'.attempt <= 2 /\ partial'.len <= TextLen
  /\ UNCHANGED <<entries, run, failure, inbox, tasks>> /\ Conversing

(* An answer is committed, and a queued input placed after it (a steer).    *)
Commit ==
  /\ run # None /\ partial.attempt # 0
  /\ entries' = Append(entries, [kind |-> "answer", text |-> [partial EXCEPT !.len = TextLen]])
                  \o (IF inbox > 0 THEN Input ELSE <<>>)
  /\ inbox' = IF inbox > 0 THEN inbox - 1 ELSE 0
  /\ partial' = NoText
  /\ UNCHANGED <<run, failure, tasks>> /\ Conversing

(* The run ends, with a failure or not.  The same commit may place a queued *)
(* input as the next run's prompt, or continue a run that failed.           *)
RunEnds(failed) ==
  /\ run # None
  /\ failure' = IF failed THEN run ELSE failure
  /\ \/ /\ inbox > 0
        /\ entries' = entries \o Input
        /\ inbox' = inbox - 1
        /\ StartsRun([first |-> Len(entries) + 1, task |-> tasks + 1])
     \/ /\ inbox = 0
        /\ run' = None /\ partial' = NoText
        /\ UNCHANGED <<entries, inbox, tasks>>
     \/ /\ failed /\ Continues /\ failure = None
        /\ StartsRun([run EXCEPT !.task = tasks + 1])
        /\ UNCHANGED <<entries, inbox>>
  /\ Conversing

-----------------------------------------------------------------------------
(* The watcher.                                                             *)

Idled(out) == \E i \in DOMAIN out : out[i] = Status("idle")
StateAfter(out) ==
  LET told == SelectSeq(out, LAMBDA f : f.k = "status")
  IN  IF told = <<>> THEN state ELSE told[Len(told)].state

Working == run # None \/ inbox > 0
Submits == call.at \in {"submitting", "asking"} /\ call.live
Gone == live' = "none" /\ tr' = Fresh /\ work' = FALSE

(* maybeStop: the watcher leaves once nothing needs it.                     *)
Needed(t, shows, submits, s) ==
  clients' # {} \/ submits \/ s = "busy" \/ shows \/ t.busy
MaybeStop(submits, s) ==
  IF live = "ready" /\ ~Needed(tr, work, submits, s)
  THEN Gone ELSE UNCHANGED <<live, tr, work>>

(* A view is applied: its frames, the state they leave, and the check that  *)
(* an idle frame sets off.                                                  *)
Show(submits) ==
  \E s \in {Apply(tr, Shown)} :
      /\ ring' = ring \o s.out
      /\ seen' = IF run = None THEN seen ELSE run.task
      /\ state' = StateAfter(s.out)
      /\ IF Idled(s.out) /\ ~Needed(s, Working, submits, StateAfter(s.out))
         THEN Gone
         ELSE /\ live' = "ready" /\ work' = Working
              /\ tr' = [s EXCEPT !.out = <<>>, !.user = FALSE]

(* ensureWatcher with a fresh translator; a watcher there is is used.       *)
EnsureWatcher ==
  IF live = "none"
  THEN /\ live' = "starting" /\ tr' = Fresh
       /\ lost' = (lost \/ carried # {})
       /\ UNCHANGED <<work, due>>
  ELSE UNCHANGED <<watchVars, lost>>

(* The watch is there: its first view is applied at once, and a prompt()    *)
(* that waited for it goes on.                                              *)
Attached ==
  /\ live = "starting"
  /\ UNCHANGED <<convVars, carried, clients, seed, recent, faults>>
  /\ lost' = (lost \/ (state = "busy" /\ run = None /\ ~tr.primed))
  /\ call' = [call EXCEPT !.at = IF @ = "waiting" THEN "submitting" ELSE @]
  /\ Show(call'.at = "submitting" /\ call.live)
  /\ tries' = 0 /\ due' = TRUE
  /\ base' = IF tr.primed THEN base ELSE Len(entries)

(* Slip: every re-attachment starts with a translator of its own.           *)
PlanAfresh(t) ==
  IF tries < MaxTries
  THEN tries' = tries + 1 /\ carried' = carried \union {Fresh}
  ELSE tries' = 0 /\ UNCHANGED carried

(* scheduleReattach: the translator is carried, and given up at maxTries.   *)
Plan(t) ==
  IF tries < MaxTries
  THEN tries' = tries + 1 /\ carried' = carried \union {t}
  ELSE tries' = 0 /\ UNCHANGED carried

(* A watch ends on its own or cannot be had.  A prompt() that waits for it  *)
(* fails with it; one that has it submits to a watcher that is gone.        *)
Breaks ==
  /\ live # "none" /\ faults < MaxFaults
  /\ faults' = faults + 1
  /\ Gone /\ due' = due
  /\ IF state = "busy" /\ tr.primed THEN Plan(tr) ELSE UNCHANGED planVars
  /\ lost' = (lost \/ Submits \/ (state = "busy" /\ tr.primed /\ tries = MaxTries))
  /\ call' = [at |-> IF call.at = "waiting" THEN "idle" ELSE call.at, live |-> FALSE]
  /\ UNCHANGED <<convVars, ring, state, clients, seed, recent, base, seen>>

(* The back-off is over.                                                    *)
Reattach(t) ==
  /\ t \in carried
  /\ carried' = carried \ {t}
  /\ IF live = "none" /\ state = "busy"
     THEN live' = "starting" /\ tr' = t
     ELSE UNCHANGED <<live, tr>>
  /\ UNCHANGED <<convVars, ring, state, work, due, tries, askVars, ghostVars>>

Deliver ==
  /\ live = "ready"
  /\ Apply(tr, Shown) # tr \/ work # Working
  /\ UNCHANGED <<convVars, planVars, due, askVars, base, lost, faults>>
  /\ Show(Submits)

LeaveIfIdle ==
  /\ due /\ due' = FALSE
  /\ UNCHANGED <<convVars, ring, state, planVars, askVars, ghostVars>>
  /\ MaybeStop(Submits, state)

-----------------------------------------------------------------------------
(* Clients and prompts.                                                     *)

Watch(c) ==
  /\ c \notin clients
  /\ clients' = clients \union {c}
  /\ EnsureWatcher
  /\ UNCHANGED <<convVars, ring, state, planVars, call, seed, recent, base, seen, faults>>

Unwatch(c) ==
  /\ c \in clients
  /\ clients' = clients \ {c}
  /\ UNCHANGED <<convVars, ring, state, due, planVars, call, seed, recent, ghostVars>>
  /\ MaybeStop(Submits, state)

(* prompt(): a watcher is attached before the input is submitted.           *)
Prompt ==
  /\ call.at = "idle" /\ Room
  /\ call' = [at |-> IF live = "ready" THEN "submitting" ELSE "waiting", live |-> TRUE]
  /\ EnsureWatcher
  /\ UNCHANGED <<convVars, ring, state, planVars, clients, seed, recent, base, seen, faults>>

Submitted ==
  /\ call.at = "submitting" /\ Room
  /\ Submit
  /\ call' = [call EXCEPT !.at = "asking"]
  /\ UNCHANGED <<ring, state, watchVars, planVars, clients, seed, recent, ghostVars>>

(* The submission's status: queued or placed means busy at once; it is      *)
(* settled when its run has already ended.                                  *)
Answered ==
  /\ call.at = "asking"
  /\ call' = [at |-> "idle", live |-> FALSE]
  /\ state' = IF Working THEN "busy" ELSE state
  /\ UNCHANGED <<convVars, ring, due, planVars, clients, seed, recent, ghostVars>>
  /\ MaybeStop(FALSE, state')

-----------------------------------------------------------------------------
(* Restarts.                                                                *)

(* seedTranscript reads the entries, then whether a run is in flight: what  *)
(* is finished is replayed turn by turn into a ring that is still empty.    *)
SeedStart ==
  /\ seed.at = "none" /\ ring = <<>> /\ live = "none"
  /\ seed' = [at |-> "read", n |-> Len(entries)]
  /\ UNCHANGED <<convVars, ring, state, watchVars, planVars, call, clients, recent, ghostVars>>

SeedEnd == IF run # None /\ run.first <= seed.n THEN run.first - 1 ELSE seed.n

Replayed(n) ==
  LET starts == SelectSeq([i \in 1 .. n |-> i], LAMBDA i : entries[i].kind = "user")
      upTo(k) == IF k < Len(starts) THEN starts[k + 1] - 1 ELSE n
      turn(t, k) == Apply(t, [n |-> upTo(k), run |-> None, failure |-> None, partial |-> NoText])
  IN  FoldLeft(turn, [Fresh EXCEPT !.primed = TRUE], [k \in DOMAIN starts |-> k]).out

SeedEmit ==
  /\ seed.at = "read"
  /\ seed' = [at |-> "none", n |-> 0]
  /\ ring' = IF ring = <<>> /\ live = "none" THEN Replayed(SeedEnd) ELSE ring
  /\ lost' = (lost \/ (ring' # ring /\ carried # {}))
  /\ UNCHANGED <<convVars, state, watchVars, planVars, call, clients, recent, base, seen, faults>>

(* The bridge stops and starts: a run in flight goes on and is watched.     *)
Restart ==
  /\ faults < MaxFaults
  /\ faults' = faults + 1
  /\ ring' = <<>> /\ state' = IF run = None THEN "idle" ELSE "busy"
  /\ recent' = (run # None)
  /\ Gone /\ due' = FALSE /\ carried' = {} /\ tries' = 0
  /\ call' = [at |-> "idle", live |-> FALSE] /\ clients' = {}
  /\ seed' = [at |-> "none", n |-> 0]
  /\ base' = 0 /\ lost' = FALSE /\ seen' = 0
  /\ UNCHANGED convVars

Resumed ==
  /\ recent /\ recent' = FALSE
  /\ EnsureWatcher
  /\ UNCHANGED <<convVars, ring, state, planVars, call, clients, seed, base, seen, faults>>

-----------------------------------------------------------------------------
Conversation == Generate \/ Commit \/ \E failed \in BOOLEAN : RunEnds(failed)
Watcher == Attached \/ Deliver \/ LeaveIfIdle \/ \E t \in carried : Reattach(t)
Prompting == Prompt \/ Submitted \/ Answered

Next ==
  \/ Conversation \/ Watcher \/ Prompting \/ Breaks
  \/ \E c \in Clients : Watch(c) \/ Unwatch(c)
  \/ SeedStart \/ SeedEmit \/ Restart \/ Resumed

Spec == Init /\ [][Next]_vars

(* Timers fire, watches deliver and calls resolve.                          *)
FairSpec ==
  /\ Spec
  /\ WF_vars(Watcher) /\ WF_vars(Resumed)
  /\ WF_vars(Submitted \/ Answered)

-----------------------------------------------------------------------------
Run == [first : Nat, task : Nat]

(* The conversation, the watcher and its translators stay within their      *)
(* types.                                                                   *)
TypeOK ==
  /\ entries \in Seq([kind : {"user", "answer"}, text : Text])
  /\ run \in Run /\ failure \in Run /\ inbox \in Nat /\ partial \in Text /\ tasks \in Nat
  /\ state \in {"idle", "busy"} /\ live \in {"none", "starting", "ready"}
  /\ \A t \in carried \union {tr} :
       /\ t \in Translator /\ t.last <= Len(entries) /\ t.out = <<>>
       /\ t.first # 0 => t.busy
  /\ work \in BOOLEAN /\ due \in BOOLEAN /\ tries \in 0 .. MaxTries
  /\ call.at \in {"idle", "waiting", "submitting", "asking"}
  /\ call.at = "waiting" => live = "starting"
  /\ seed.n \in 0 .. Len(entries) /\ recent \in BOOLEAN

Is(i, k, id) == ring[i].k = k /\ ring[i].id = id

(* Every step of the translator is "idempotent and tolerates skipped        *)
(* intermediate states" (wire.mjs:5): however commits fold into views, and  *)
(* over watches that die, an entry is reported once, in order, each piece   *)
(* of an answer's text once, and a failed run as failed once.               *)
ReportedOnce ==
  lost \/ \A i, j \in DOMAIN ring : i < j =>
    /\ ring[i].k = "prompt" /\ ring[j].k = "prompt" => ring[i].id < ring[j].id
    /\ ring[i].k = "text" /\ ring[j].k = "text" =>
         \/ ring[i].id < ring[j].id
         \/ ring[i].id = ring[j].id /\ ring[i].attempt < ring[j].attempt
         \/ ring[i].id = ring[j].id /\ ring[i].attempt = ring[j].attempt
                                    /\ ring[i].to <= ring[j].from
    /\ ring[i].k = "result" /\ ring[j].k = "result" /\ ring[i].task # 0 =>
         ring[i].task # ring[j].task

(* What a watcher has seen go by is in the ring: every prompt, every answer *)
(* to its end, and that the last run some view showed failed if it did.     *)
NothingMissed ==
  (live = "ready" /\ ~lost) =>
    /\ \A id \in base + 1 .. tr.last :
         \/ entries[id].kind = "user" /\ \E i \in DOMAIN ring : Is(i, "prompt", id)
         \/ entries[id].kind = "answer" /\ \E i \in DOMAIN ring :
                                Is(i, "text", id) /\ ring[i].to = TextLen
    /\ (Apply(tr, Shown) = tr /\ run = None /\ failure.task = seen /\ failure.first > base) =>
         \E i \in DOMAIN ring : ring[i].k = "result" /\ ring[i].task = failure.task

(* Once the watcher has nothing left to do, the state that the phone polls  *)
(* is the conversation's, and the watcher is gone if nobody is attached.    *)
StateSettled ==
  LET pending == \/ live = "starting" \/ due \/ carried # {} \/ call.at # "idle" \/ recent
                 \/ (live = "ready" /\ (Apply(tr, Shown) # tr \/ work # Working))
  IN  ~pending /\ ~lost /\ ~Working => state = "idle" /\ (clients = {} => live = "none")

RingFollows == ReportedOnce /\ NothingMissed /\ StateSettled

(* The phone polls /status, and a watcher holds a subscription: a session   *)
(* that is busy there becomes idle once nothing runs, and its watcher       *)
(* leaves once nobody is attached either.  Not so when a run ended while    *)
(* nothing followed it.                                                     *)
BusyEnds ==
  /\ (state = "busy" /\ ~Working) ~> (state = "idle" \/ Working \/ lost)
  /\ LET Quiet == ~Working /\ clients = {} /\ call.at = "idle"
     IN  (live # "none" /\ Quiet) ~> (live = "none" \/ ~Quiet \/ lost)

===============================================================================
