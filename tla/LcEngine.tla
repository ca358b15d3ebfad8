-------------------------------- MODULE LcEngine --------------------------------
(***************************************************************************)
(* The lets-code engine (providers/durable/lc/engine.mjs, task.mjs):       *)
(* sessions whose prompts become run tasks, each driven through a child    *)
(* process of the session.  A prompt of an idle session is admitted        *)
(* against the live limit, where a child kept while idle makes room; one   *)
(* of a busy session steers the run.  A run is retried when its child      *)
(* crashes and rerun when the bridge restarts, stopped at its turn cap,    *)
(* and aborted with its session.  Durable (commits in the order they are   *)
(* asked for, tasks that survive a restart) and the child are external.    *)
(***************************************************************************)
EXTENDS Naturals, Sequences, FiniteSets

CONSTANTS
  Sids,
  Calls,          (* the prompts of a behaviour                             *)
  RequestIds,
  NoRequest,
  MaxLive,        (* maxLive                                                *)
  RestartLimit,   (* LC_RESTART_LIMIT                                       *)
  MaxCrashes,     (* bound on the children that exit by themselves          *)
  MaxRestarts,    (* bound on the restarts of the bridge                    *)
  MaxMishaps,     (* bound on both together                                 *)
  Happens         (* what else may happen: "stop" (a session is stopped and *)
                  (* archived), "refusal" (lets-code refuses a prompt),     *)
                  (* "cap" (a run reaches one of its caps), "idle" (a child *)
                  (* is stopped after LC_IDLE_KEEP_MS), "interrupt"         *)

ASSUME LcAssumption ==
  /\ IsFiniteSet(Sids) /\ IsFiniteSet(Calls)
  /\ NoRequest \notin RequestIds
  /\ {MaxLive, RestartLimit, MaxCrashes, MaxRestarts, MaxMishaps} \subseteq Nat

VARIABLES
  st,        (* of a session: the engine's state of it, in memory           *)
  rec,       (* of a session: its record document                           *)
  archived,  (* the sessions whose row is archived                          *)
  tasks,     (* the run tasks, oldest first                                 *)
  calls,     (* of a prompt: how far it is, and what it is about            *)
  accepted,  (* the tasks whose text a child accepted                       *)
  crossed,   (* history, of a session: how often a prompt came while        *)
             (* another one waited for room or a stop, abort or stopped     *)
             (* child was at work, or a stop while a prompt was not written *)
             (* (counted up to 2)                                           *)
  crashes, restarts

worldVars == <<crossed, crashes, restarts>>
vars == <<st, rec, archived, tasks, calls, accepted, worldVars>>

-----------------------------------------------------------------------------
TaskIds == 1 .. Len(tasks)

(* What a session's state is when it is first asked for.                    *)
Fresh ==
  [child |-> "none",      (* "up", "dying" while stopPromise is in flight   *)
   work |-> 0,            (* the task whose prompt the child works on       *)
   busy |-> FALSE, reserved |-> FALSE,
   making |-> FALSE,      (* stopping: its child makes room for another one *)
   idle |-> FALSE,        (* idleTimer is armed                             *)
   waiter |-> 0,          (* the task whose drive() awaits the run's end    *)
   task |-> 0,            (* taskId                                         *)
   pendingSend |-> 0, sentTask |-> 0,
   saving |-> 0,          (* sentTaskId on its way to the record            *)
   capped |-> FALSE,      (* a cap was reached, and the turn is aborted     *)
   known |-> {},          (* requestIds                                     *)
   stop |-> "none"]       (* where stopSession is                           *)

(* A task whose drive() uses the session's child, or is about to.           *)
Driven == {"again", "spawn", "boot", "send", "driving"}
Booting(s) == \E t \in TaskIds : tasks[t].sid = s /\ tasks[t].at = "boot"
IsLive(s) == st[s].child = "up" \/ Booting(s)
IdleKept(s) == IsLive(s) /\ ~st[s].busy /\ ~st[s].reserved

Live(t) == tasks[t].at \notin {"ended", "over"}
LiveOf(s) == {t \in TaskIds : tasks[t].sid = s /\ Live(t)}

(* Slip: a prompt that waits for room holds no place of its own.            *)
CountedWithoutReserved(s) ==
  {o \in Sids \ {s} : ~st[o].making /\ (IsLive(o) \/ st[o].busy)}

(* The other sessions that count when s is admitted.                        *)
Counted(s) ==
  {o \in Sids \ {s} : ~st[o].making /\ (IsLive(o) \/ st[o].busy \/ st[o].reserved)}
HasRoom(s) == IsLive(s) \/ Cardinality(Counted(s)) < MaxLive

(* stopChild: a child that runs is told to stop, one stop at a time.        *)
Stopped(e) ==
  [e EXCEPT !.child = IF @ = "up" THEN "dying" ELSE @, !.idle = FALSE]

(* A run is over for the engine; its child is kept while it has one.        *)
Idle(e) ==
  [e EXCEPT !.busy = FALSE, !.waiter = 0, !.idle = (e.child = "up")]

(* runFailed, finish                                                        *)
RunFailed(e) == [Idle(e) EXCEPT !.task = 0]
Finished(e) == [Idle(e) EXCEPT !.work = 0, !.capped = FALSE]

(* abortChild: a child that runs is stopped first, and awaited.             *)
Aborted(e) ==
  Stopped([e EXCEPT !.busy = FALSE, !.task = 0, !.capped = FALSE,
                    !.waiter = IF e.child = "up" THEN @ ELSE 0])

(* A prompt that is about no session: not made yet, or answered.            *)
Call(at) == [at |-> at, sid |-> 0, req |-> NoRequest, spare |-> 0]

-----------------------------------------------------------------------------
Init ==
  /\ st = [s \in Sids |-> Fresh]
  /\ rec = [s \in Sids |-> [lastRequest |-> NoRequest, sentTask |-> 0]]
  /\ archived = {}
  /\ tasks = <<>>
  /\ calls = [c \in Calls |-> Call("new")]
  /\ accepted = {}
  /\ crossed = [s \in Sids |-> 0] /\ crashes = 0 /\ restarts = 0

-----------------------------------------------------------------------------
(* prompt()                                                                 *)

Goes(c, s, r, at, spare) ==
  calls' = [calls EXCEPT ![c] = [at |-> at, sid |-> s, req |-> r, spare |-> spare]]

Returns(c) == calls' = [calls EXCEPT ![c] = Call("done")]

(* The session has a prompt at one of these points, or is being stopped, or *)
(* a task of it aborted, or a child that was told to stop still works.      *)
Meets(s, points) ==
  \/ st[s].child = "dying" /\ st[s].work # 0
  \/ \E c \in Calls : calls[c].sid = s /\ calls[c].at \in points
  \/ st[s].stop # "none"
  \/ \E t \in TaskIds : tasks[t].sid = s /\ tasks[t].abort /\ tasks[t].at # "over"

Crosses(s, points) ==
  crossed' = [crossed EXCEPT ![s] = IF Meets(s, points) /\ @ < 2 THEN @ + 1 ELSE @]

(* Slip: the session is busy only once its task is written.                 *)
TakesLater(e) == [e EXCEPT !.reserved = FALSE, !.idle = FALSE]

(* The run is the session's: busy before the task is written.               *)
Takes(e) == [e EXCEPT !.busy = TRUE, !.reserved = FALSE, !.idle = FALSE]

(* A prompt of a busy session, which is not ending at its cap.              *)
PromptBusy(c, s, r) ==
  /\ st[s].busy /\ ~st[s].capped
  /\ Goes(c, s, r, "steer", 0)
  /\ UNCHANGED st

(* admit: there is room, or a child kept while idle makes room.             *)
PromptAdmitted(c, s, r) ==
  /\ ~st[s].busy /\ HasRoom(s)
  /\ Goes(c, s, r, "commit", 0)
  /\ st' = [st EXCEPT ![s] = Takes(@)]

PromptMakesRoom(c, s, r) ==
  /\ ~st[s].busy /\ ~HasRoom(s)
  /\ \E spare \in {o \in Counted(s) : IdleKept(o)} :
       /\ Goes(c, s, r, "admit", spare)
       /\ st' = [st EXCEPT ![s].reserved = TRUE,
                           ![spare] = [Stopped(@) EXCEPT !.making = TRUE]]

(* Slip: any refused prompt leaves its session idle.                        *)
PromptRefusedIdle(c, s, r) ==
  /\ \/ st[s].busy /\ st[s].capped
     \/ /\ ~st[s].busy /\ ~HasRoom(s) /\ \A o \in Counted(s) : ~IdleKept(o)
  /\ Returns(c)
  /\ st' = [st EXCEPT ![s].reserved = FALSE, ![s].busy = FALSE]

(* There is neither, or the session's run is ending at its cap.             *)
PromptRefused(c, s, r) ==
  /\ \/ st[s].busy /\ st[s].capped
     \/ /\ ~st[s].busy /\ ~HasRoom(s) /\ \A o \in Counted(s) : ~IdleKept(o)
  /\ Returns(c)
  /\ st' = IF st[s].busy THEN st ELSE [st EXCEPT ![s].reserved = FALSE]

Prompt(c, s, r) ==
  /\ calls[c].at = "new"
  /\ s \notin archived
  /\ r \notin st[s].known
  /\ \/ PromptBusy(c, s, r) \/ PromptAdmitted(c, s, r)
     \/ PromptMakesRoom(c, s, r) \/ PromptRefused(c, s, r)
  /\ Crosses(s, {"admit"})
  /\ UNCHANGED <<rec, archived, tasks, accepted, crashes, restarts>>

NewTask(s, r) ==
  [sid |-> s, req |-> r, attempt |-> 0, at |-> "ready",
   cont |-> FALSE, abort |-> FALSE]

(* remember                                                                 *)
Known(e, r) == [e EXCEPT !.known = IF r = NoRequest THEN @ ELSE @ \union {r}]

(* Nothing Durable was asked to commit before is still on its way.          *)
InOrder ==
  /\ \A s \in Sids : st[s].saving = 0
  /\ \A t \in TaskIds : tasks[t].at # "ended"

(* Slip: only the requests of this process are known.                       *)
RetriedOfThisProcess(s, r) == r \in st[s].known

(* The record keeps the last request across restarts.                       *)
Retried(s, r) == r # NoRequest /\ rec[s].lastRequest = r

(* The commit that checks the requestId and creates the run's task.         *)
Create(c) ==
  LET s == calls[c].sid
      r == calls[c].req
  IN
  /\ calls[c].at = "commit" /\ InOrder
  /\ Returns(c)
  /\ IF Retried(s, r)
     THEN st' = [st EXCEPT ![s].busy = FALSE] /\ UNCHANGED <<rec, tasks>>
     ELSE /\ rec' = [rec EXCEPT ![s].lastRequest = r]
          /\ tasks' = Append(tasks, NewTask(s, r))
          /\ st' = [st EXCEPT ![s] = [Known(@, r) EXCEPT !.task = Len(tasks) + 1]]
  /\ UNCHANGED <<archived, accepted, worldVars>>

(* The record was read: the input goes to the running child, or waits for   *)
(* the prompt of one that is starting.  Inputs that wait are the run's data *)
(* and are left out.                                                        *)
Steer(c) ==
  LET s == calls[c].sid
      r == calls[c].req
  IN
  /\ calls[c].at = "steer"
  /\ Returns(c)
  /\ IF Retried(s, r)
     THEN UNCHANGED <<st, rec>>
     ELSE /\ st' = [st EXCEPT ![s] = Known(@, r)]
          /\ rec' = IF r = NoRequest THEN rec ELSE [rec EXCEPT ![s].lastRequest = r]
  /\ UNCHANGED <<archived, tasks, accepted, worldVars>>

-----------------------------------------------------------------------------
(* The run's task, and drive()                                              *)

Moves(t, at) == tasks' = [tasks EXCEPT ![t].at = at]
Ends(t) == Moves(t, "ended")

(* drive() of an aborted task throws, and the task's abort handler runs.    *)
Throws(t) == tasks[t].abort /\ Moves(t, "aborting") /\ UNCHANGED st

(* Slip: one attempt more.                                                  *)
OneTooManyLate(t) == tasks[t].attempt > RestartLimit + 1
OneTooMany(t) == tasks[t].attempt > RestartLimit

(* The next attempt, unless it is one too many or the session is gone.      *)
Attempt(t) ==
  LET s == tasks[t].sid IN
  /\ tasks[t].at = "ready" /\ ~tasks[t].abort
  /\ IF OneTooMany(t) \/ s \in archived
     THEN Ends(t) /\ st' = [st EXCEPT ![s] = RunFailed(@)]
     ELSE /\ tasks' = [tasks EXCEPT ![t].attempt = @ + 1,
                         ![t].at = IF tasks[t].attempt > 0 THEN "again" ELSE "spawn",
                         ![t].cont = FALSE]
          /\ st' = [st EXCEPT ![s].busy = TRUE, ![s].idle = FALSE, ![s].capped = FALSE]
  /\ UNCHANGED <<rec, archived, calls, accepted, worldVars>>

(* Slip: any run tried again is continued.                                  *)
SentAlways(t) == tasks[t].attempt > 1

(* Slip: an acceptance is remembered by the process only.                   *)
SentOfThisProcess(t) == st[tasks[t].sid].sentTask = t

(* lets-code accepted the prompt, as the engine or the record knows.        *)
Sent(t) ==
  LET s == tasks[t].sid IN st[s].sentTask = t \/ rec[s].sentTask = t

(* After a crash or a restart: a prompt lets-code accepted is continued,    *)
(* not sent again.                                                          *)
Again(t) ==
  /\ tasks[t].at = "again"
  /\ \/ Throws(t)
     \/ /\ ~tasks[t].abort
        /\ tasks' = [tasks EXCEPT ![t].at = "spawn",
                       ![t].cont = Sent(t)]
        /\ UNCHANGED st
  /\ UNCHANGED <<rec, archived, calls, accepted, worldVars>>

(* ensureChild: a stop in flight is awaited, a running child is used.       *)
Spawn(t) ==
  LET s == tasks[t].sid IN
  /\ tasks[t].at = "spawn"
  /\ \/ Throws(t)
     \/ /\ st[s].child = "up" /\ ~Booting(s)
        /\ Moves(t, "send") /\ UNCHANGED st
     \/ /\ st[s].child = "none" /\ ~Booting(s)
        /\ Moves(t, "boot")
        /\ st' = [st EXCEPT ![s].child = "up", ![s].work = 0]
  /\ UNCHANGED <<rec, archived, calls, accepted, worldVars>>

(* The child has started, or is gone before that and the run fails.         *)
Boot(t) ==
  LET s == tasks[t].sid IN
  /\ tasks[t].at = "boot"
  /\ \/ Moves(t, "send") /\ UNCHANGED st
     \/ st[s].child = "none" /\ Throws(t)
     \/ /\ st[s].child = "none" /\ ~tasks[t].abort
        /\ Ends(t) /\ st' = [st EXCEPT ![s] = RunFailed(@)]
  /\ UNCHANGED <<rec, archived, calls, accepted, worldVars>>

(* Slip: the run's end is awaited of a child that may be gone.              *)
SendAnyway(t) ==
  LET s == tasks[t].sid IN
  /\ tasks[t].at = "send"
  /\ \/ Throws(t)
     \/ /\ ~tasks[t].abort
        /\ Moves(t, "driving")
        /\ st' = [st EXCEPT ![s] =
             [st[s] EXCEPT !.waiter = t, !.pendingSend = t, !.work = IF @ = 0 THEN t ELSE @]]
  /\ UNCHANGED <<rec, archived, calls, accepted, worldVars>>

(* The prompt goes to the child; one that is gone again counts as a crash.  *)
Send(t) ==
  LET s == tasks[t].sid IN
  /\ tasks[t].at = "send"
  /\ \/ Throws(t)
     \/ /\ ~tasks[t].abort /\ st[s].child # "up"
        /\ Moves(t, "ready") /\ UNCHANGED st
     \/ /\ ~tasks[t].abort /\ st[s].child = "up"
        /\ Moves(t, "driving")
        /\ st' = [st EXCEPT ![s] =
             [st[s] EXCEPT !.waiter = t, !.pendingSend = t, !.work = IF @ = 0 THEN t ELSE @]]
  /\ UNCHANGED <<rec, archived, calls, accepted, worldVars>>

(* Slip: the wait for the run's end does not hear the abort.                *)
ThrowsWhenWoken(t) ==
  LET s == tasks[t].sid IN
  /\ tasks[t].at = "driving" /\ tasks[t].abort /\ st[s].waiter # t
  /\ Moves(t, "aborting")
  /\ UNCHANGED <<st, rec, archived, calls, accepted, worldVars>>

(* drive() was aborted while it awaited the run's end.                      *)
ThrowsDriving(t) ==
  LET s == tasks[t].sid IN
  /\ tasks[t].at = "driving" /\ tasks[t].abort
  /\ Moves(t, "aborting")
  /\ st' = [st EXCEPT ![s].waiter = IF @ = t THEN 0 ELSE @]
  /\ UNCHANGED <<rec, archived, calls, accepted, worldVars>>

(* The abort handler: abortChild, then the terminal commit (see Dies).      *)
AbortHandler(t) ==
  LET s == tasks[t].sid IN
  /\ \/ tasks[t].at = "aborting"
     \/ tasks[t].at = "ready" /\ tasks[t].abort
  /\ IF st[s].child = "up" THEN Moves(t, "killing") ELSE Ends(t)
  /\ st' = [st EXCEPT ![s] = Aborted(@)]
  /\ UNCHANGED <<rec, archived, calls, accepted, worldVars>>

(* The terminal commit.                                                     *)
Terminal(t) ==
  /\ tasks[t].at = "ended"
  /\ Moves(t, "over")
  /\ UNCHANGED <<st, rec, archived, calls, accepted, worldVars>>

-----------------------------------------------------------------------------
(* The child.  One that was told to stop is still heard until it is gone.   *)

(* markSent: anything it does after the prompt shows that it accepted it.   *)
Accept(s) ==
  LET e == st[s] IN
  /\ e.child # "none" /\ e.work # 0 /\ e.pendingSend # 0
  /\ st' = [st EXCEPT ![s].pendingSend = 0, ![s].sentTask = e.pendingSend,
                      ![s].saving = e.pendingSend]
  /\ accepted' = accepted \union {e.work}
  /\ UNCHANGED <<rec, archived, tasks, calls, worldVars>>

(* The record's commit.                                                     *)
SaveSent(s) ==
  /\ st[s].saving # 0
  /\ rec' = [rec EXCEPT ![s].sentTask = st[s].saving]
  /\ st' = [st EXCEPT ![s].saving = 0]
  /\ UNCHANGED <<archived, tasks, calls, accepted, worldVars>>

(* capRun: a cap of turns, calls or repeated calls aborts the turn.         *)
CapRun(s) ==
  LET e == st[s] IN
  /\ "cap" \in Happens
  /\ e.child # "none" /\ e.work # 0 /\ e.pendingSend = 0
  /\ e.busy /\ ~e.capped
  /\ st' = [st EXCEPT ![s].capped = TRUE]
  /\ UNCHANGED <<rec, archived, tasks, calls, accepted, worldVars>>

(* A task that awaited the run's end gets it.                               *)
WaiterEnds(s) ==
  IF st[s].waiter = 0 THEN UNCHANGED tasks ELSE Ends(st[s].waiter)

(* finish(): the answer is recorded, and the child is kept.                 *)
AgentEnd(s) ==
  LET e == st[s] IN
  /\ e.child # "none" /\ e.work # 0 /\ e.pendingSend = 0
  /\ WaiterEnds(s)
  /\ st' = [st EXCEPT ![s] = Finished(@)]
  /\ UNCHANGED <<rec, archived, calls, accepted, worldVars>>

(* The prompt is refused: its response says so.                             *)
Refuse(s) ==
  LET e == st[s] IN
  /\ e.child # "none" /\ e.waiter # 0 /\ e.pendingSend = e.waiter
  /\ "refusal" \in Happens \/ e.work # e.waiter
  /\ Ends(e.waiter)
  /\ st' = [st EXCEPT ![s] = [RunFailed(e) EXCEPT !.work = IF @ = e.waiter THEN 0 ELSE @]]
  /\ UNCHANGED <<rec, archived, calls, accepted, worldVars>>

(* onChildExit of a child nobody stopped: its run is tried again.           *)
Crash(s) ==
  LET e == st[s] IN
  /\ e.child = "up" /\ crashes < MaxCrashes /\ crashes + restarts < MaxMishaps
  /\ crashes' = crashes + 1
  /\ IF e.waiter = 0 THEN UNCHANGED tasks ELSE Moves(e.waiter, "ready")
  /\ st' = [st EXCEPT ![s] =
       [@ EXCEPT !.child = "none", !.work = 0, !.idle = FALSE, !.waiter = 0]]
  /\ UNCHANGED <<rec, archived, calls, accepted, crossed, restarts>>

(* Slip: the state is dropped at once, whatever came since the abort.       *)
StopDoneAtOnce(s, e) == [Fresh EXCEPT !.stop = "gone"]

(* stopSession and forgetSession, after the child: the row is archived, and *)
(* the second of the two drops the session's state.                         *)
StopDone(s, e) ==
  IF s \in archived THEN [Fresh EXCEPT !.stop = "gone"]
  ELSE [e EXCEPT !.busy = FALSE, !.stop = "forget"]

(* A child told to stop is gone, and what waited for that goes on at once:  *)
(* its run fails, aborted tasks end, a prompt that needed room is admitted, *)
(* and a stop of the session is done.                                       *)
Dies(s) ==
  LET e == st[s]
      failed == IF e.waiter = 0 THEN e ELSE RunFailed(e)
      after == [failed EXCEPT !.child = "none", !.work = 0, !.idle = FALSE,
                              !.waiter = 0, !.making = FALSE]
      stopped == [st EXCEPT ![s] = IF e.stop = "kill" THEN StopDone(s, after) ELSE after]
      waiting == {c \in Calls : calls[c].at = "admit" /\ calls[c].spare = s}
      taken == {calls[c].sid : c \in waiting}
  IN
  /\ e.child = "dying"
  /\ tasks' = [t \in TaskIds |->
       IF t = e.waiter THEN [tasks[t] EXCEPT !.at = "ended"]
       ELSE IF tasks[t].sid = s /\ tasks[t].at = "killing"
       THEN [tasks[t] EXCEPT !.at = "ended"]
       ELSE tasks[t]]
  /\ calls' = [c \in Calls |->
       IF c \in waiting THEN [calls[c] EXCEPT !.at = "commit", !.spare = 0] ELSE calls[c]]
  /\ st' = [o \in Sids |-> IF o \in taken THEN Takes(stopped[o]) ELSE stopped[o]]
  /\ archived' = IF e.stop = "kill" THEN archived \union {s} ELSE archived
  /\ UNCHANGED <<rec, accepted, worldVars>>

-----------------------------------------------------------------------------
(* Timers                                                                   *)

(* Slip: like the idle timer, it lets a busy session be.                    *)
CapTimerIfIdle(s) ==
  LET e == st[s] IN
  /\ e.capped /\ e.child = "up" /\ ~e.busy
  /\ WaiterEnds(s)
  /\ st' = [st EXCEPT ![s] = Stopped([Idle(e) EXCEPT !.capped = FALSE])]
  /\ UNCHANGED <<rec, archived, calls, accepted, worldVars>>

(* LC_CAP_ABORT_MS after the abort of a capped run that did not end.        *)
CapTimer(s) ==
  LET e == st[s] IN
  /\ e.capped /\ e.child = "up"
  /\ WaiterEnds(s)
  /\ st' = [st EXCEPT ![s] = Stopped([Idle(e) EXCEPT !.capped = FALSE])]
  /\ UNCHANGED <<rec, archived, calls, accepted, worldVars>>

IdleTimer(s) ==
  /\ "idle" \in Happens
  /\ st[s].idle /\ st[s].child = "up"
  /\ st' = [st EXCEPT ![s] = IF @.busy THEN [@ EXCEPT !.idle = FALSE] ELSE Stopped(@)]
  /\ UNCHANGED <<rec, archived, tasks, calls, accepted, worldVars>>

-----------------------------------------------------------------------------
(* stopSession: the task is aborted and waited for, the child stopped, and  *)
(* the row archived; forgetSession then stops whatever came in between in   *)
(* the same way, and drops the session's state.  The wait of five seconds   *)
(* is taken to be long enough.                                              *)
(* The task a stop aborts: taskId, or the oldest live task.                 *)
Aims(s) ==
  IF st[s].task # 0 THEN LiveOf(s) \cap {st[s].task}
  ELSE {t \in LiveOf(s) : \A u \in LiveOf(s) : t <= u}

Abort(T) == tasks' = [t \in TaskIds |-> [tasks[t] EXCEPT !.abort = @ \/ t \in T]]

Stop(s) ==
  /\ \/ "stop" \in Happens /\ s \notin archived /\ st[s].stop = "none"
     \/ st[s].stop = "forget"
  /\ Abort(Aims(s))
  /\ st' = [st EXCEPT ![s].stop = "abort"]
  /\ IF s \in archived THEN UNCHANGED crossed ELSE Crosses(s, {"admit", "commit"})
  /\ UNCHANGED <<rec, archived, calls, accepted, crashes, restarts>>

StopChild(s) ==
  /\ st[s].stop = "abort"
  /\ \A t \in TaskIds : tasks[t].sid = s /\ tasks[t].abort => tasks[t].at = "over"
  /\ IF st[s].child = "none"
     THEN /\ st' = [st EXCEPT ![s] = StopDone(s, Aborted(@))]
          /\ archived' = archived \union {s}
     ELSE /\ st' = [st EXCEPT ![s] = [Aborted(@) EXCEPT !.stop = "kill"]]
          /\ UNCHANGED archived
  /\ UNCHANGED <<rec, tasks, calls, accepted, worldVars>>

(* The task of a run that has no child yet is aborted; a child's turn is    *)
(* aborted by the child (AgentEnd).                                         *)
Interrupt(s) ==
  /\ "interrupt" \in Happens /\ s \notin archived
  /\ st[s].child # "up"
  /\ Abort(LiveOf(s) \cap {st[s].task})
  /\ UNCHANGED <<st, rec, archived, calls, accepted, worldVars>>

-----------------------------------------------------------------------------
(* The bridge stops or dies with its children; the tasks that are not over  *)
(* are run again, and their sessions busy (noteRunning).                    *)
Unfinished(t) == tasks[t].at # "over"

Restart ==
  /\ restarts < MaxRestarts /\ crashes + restarts < MaxMishaps
  /\ restarts' = restarts + 1
  /\ tasks' = [t \in TaskIds |->
       IF ~Unfinished(t) THEN tasks[t]
       ELSE [tasks[t] EXCEPT !.at = "ready",
                             !.abort = @ \/ tasks[t].sid \in archived]]
  /\ st' = [s \in Sids |->
       LET T == {t \in TaskIds : tasks[t].sid = s /\ Unfinished(t)} IN
       IF s \in archived THEN [Fresh EXCEPT !.stop = "gone"]
       ELSE [Fresh EXCEPT !.busy = (T # {}),
                          !.task = IF T = {} THEN 0
                                   ELSE CHOOSE t \in T : \A u \in T : u <= t]]
  /\ calls' = [c \in Calls |->
       IF calls[c].at = "new" THEN calls[c] ELSE Call("done")]
  /\ UNCHANGED <<rec, archived, accepted, crossed, crashes>>

-----------------------------------------------------------------------------
CallStep(c) == Create(c) \/ Steer(c)

TaskStep(t) ==
  \/ Attempt(t) \/ Again(t) \/ Spawn(t) \/ Boot(t) \/ Send(t)
  \/ ThrowsDriving(t) \/ AbortHandler(t) \/ Terminal(t)

ChildStep(s) == Accept(s) \/ CapRun(s) \/ AgentEnd(s) \/ Refuse(s)
StopStep(s) == Stop(s) \/ StopChild(s)

Next ==
  \/ \E c \in Calls :
       \/ \E s \in Sids, r \in RequestIds \union {NoRequest} : Prompt(c, s, r)
       \/ CallStep(c)
  \/ \E t \in TaskIds : TaskStep(t)
  \/ \E s \in Sids :
       \/ ChildStep(s) \/ Crash(s) \/ Dies(s) \/ SaveSent(s)
       \/ CapTimer(s) \/ IdleTimer(s)
       \/ StopStep(s) \/ Interrupt(s)
  \/ Restart

Spec == Init /\ [][Next]_vars

(* The bridge's own steps go on: promises resolve, commits land, timers     *)
(* fire and a child told to stop is killed in the end.  What a child does   *)
(* with its prompt is its own.                                              *)
MaxTasks == Cardinality(Calls)
FairSpec ==
  /\ Spec
  /\ \A c \in Calls : WF_vars(CallStep(c))
  /\ \A t \in 1 .. MaxTasks : WF_vars(t \in TaskIds /\ TaskStep(t))
  /\ \A s \in Sids :
       /\ WF_vars(Dies(s)) /\ WF_vars(SaveSent(s)) /\ WF_vars(CapTimer(s))
       /\ WF_vars(st[s].stop # "none" /\ StopStep(s))

-----------------------------------------------------------------------------
TypeOK ==
  /\ \A s \in Sids :
       /\ st[s].child \in {"none", "up", "dying"}
       /\ {st[s].work, st[s].waiter, st[s].task, st[s].pendingSend, st[s].sentTask,
           st[s].saving, rec[s].sentTask} \subseteq TaskIds \union {0}
       /\ st[s].known \subseteq RequestIds
       /\ st[s].stop \in {"none", "abort", "kill", "forget", "gone"}
  /\ archived \subseteq Sids
  /\ accepted \subseteq TaskIds
  /\ Len(tasks) <= MaxTasks
  /\ \A t \in TaskIds : tasks[t].attempt <= RestartLimit + 1

(* A session is in one run at a time: no second task drives or waits to     *)
(* drive its child (engine.mjs:14 "one child, one run"; task.mjs:1).        *)
Runs(s) == {t \in LiveOf(s) : tasks[t].at \in Driven \union {"ready"} /\ ~tasks[t].abort}
OneRun == \A s \in Sids : crossed[s] = 0 => Cardinality(Runs(s)) <= 1

(* The sessions that work, hold a place or have a child are never more than *)
(* the limit, though a place is awaited while another child stops.  This is *)
(* so of a limit of one only (ChildrenLimit).                               *)
HoldsPlace(s) ==
  /\ ~st[s].making
  /\ \/ IsLive(s) \/ st[s].reserved
     \/ st[s].busy /\ \A t \in LiveOf(s) : ~tasks[t].abort
LiveLimit ==
  (\A s \in Sids : crossed[s] = 0) => Cardinality({s \in Sids : HoldsPlace(s)}) <= MaxLive

(* "at most `maxLive` live children" (engine.mjs:19): false from a limit of *)
(* two on, where a session whose child makes room for another one counts    *)
(* for nobody and is itself given a place (MCLcLimit).                      *)
ChildrenLimit ==
  (\A s \in Sids : crossed[s] = 0) => Cardinality({s \in Sids : st[s].child = "up"}) <= MaxLive

(* The child of a run in progress counts as busy, so that neither the idle  *)
(* timer nor a prompt that needs room stops it.                             *)
RunIsBusy ==
  \A t \in TaskIds :
    LET s == tasks[t].sid IN
    tasks[t].at \in Driven /\ ~tasks[t].abort /\ crossed[s] = 0 => st[s].busy

(* A prompt is replaced by "continue" only when lets-code had accepted it,  *)
(* so that no prompt is lost.                                               *)
NothingLost ==
  \A t \in TaskIds : crossed[tasks[t].sid] = 0 /\ tasks[t].cont => t \in accepted

(* A prompt whose acceptance is on record is never sent again.              *)
NothingResent ==
  \A t \in TaskIds :
    tasks[t].at \in {"spawn", "boot", "send"} /\ tasks[t].attempt > 1
      /\ rec[tasks[t].sid].sentTask = t => tasks[t].cont

(* A retried prompt starts no second run, unless the bridge restarted and   *)
(* the session took another prompt since: the record has one requestId only *)
(* (engine.mjs:914), the last of a run or of an input.                      *)
OncePerRequest ==
  \A t, u \in TaskIds :
    /\ t < u /\ tasks[t].sid = tasks[u].sid /\ crossed[tasks[t].sid] = 0
    /\ tasks[t].req # NoRequest /\ tasks[t].req = tasks[u].req
    => /\ restarts > 0
       /\ \/ \E v \in t + 1 .. u - 1 : tasks[v].sid = tasks[t].sid
          \/ RequestIds # {tasks[t].req}

(* The engine's promise about work: a session is in one run, and busy while *)
(* its child is driven; and the limit is kept where it is one, as the       *)
(* bridge's is (server.mjs:131).                                            *)
OneAtWork == OneRun /\ RunIsBusy /\ (MaxLive = 1 => LiveLimit)

(* Its promise about prompts: none is lost, sent again or run twice.        *)
PromptsKept == NothingLost /\ NothingResent /\ OncePerRequest

(* What stopSession leaves: no task that drives the session, and no child.  *)
StopLeavesNothing ==
  \A s \in Sids : st[s].stop = "gone" /\ crossed[s] <= 1 =>
    \A t \in LiveOf(s) : tasks[t].at \notin Driven

(* A run is in the hands of a running child; one that is not and has not    *)
(* ended does not stay so, whatever its child does (MCEnds).                *)
InHand(t) ==
  /\ tasks[t].at = "driving"
  /\ st[tasks[t].sid].waiter = t /\ st[tasks[t].sid].child = "up"
Driverless(t) ==
  t \in TaskIds /\ tasks[t].at # "over" /\ ~InHand(t) /\ \A s \in Sids : crossed[s] = 0

(* A run was stopped at a cap and is not let go of.                         *)
PastCap(s) == st[s].capped /\ st[s].waiter # 0 /\ crossed[s] = 0

(* A run was aborted and has not ended.                                     *)
Aborting(t) == t \in TaskIds /\ tasks[t].abort /\ tasks[t].at # "over"

=============================================================================
