---------------------------- MODULE LcEngine_proofs ----------------------------
(***************************************************************************)
(* Proofs about the lets-code engine (LcEngine): its types, that a session *)
(* nothing crossed has one run, that a limit of one child is kept, and that *)
(* no prompt is lost or sent again; and, at the end, about the dialogs of   *)
(* its children (LcDialogs): none is forgotten, and an answer is the one    *)
(* the user gave to it.                                                     *)
(*                                                                          *)
(* The inductive invariant is Ind = Inv /\ Asked /\ IndLimit.  Inv says of  *)
(* every session what its fields and its record may name (Own), and of a    *)
(* session that nothing crossed that it has one run, or one prompt that is  *)
(* not yet written, and that what the engine remembers of it is true        *)
(* (Alone).  Asked counts the runs by the prompts and ties them to their    *)
(* requests.  IndLimit is the limit of one: a session at most has a place,  *)
(* counted from its admission and through a restart (Limit).                *)
(*                                                                          *)
(* There is one lemma per action of LcEngine: the action keeps Inv.  An     *)
(* action of one session leaves the others Apart, so that the lemma looks   *)
(* at the one (LocalInv).  All actions but those that make a run or write a *)
(* request are Quiet or Kept, which keeps Asked, and all but those that     *)
(* admit, make room, die and restart are Steady, which keeps Limit.         *)
(***************************************************************************)
EXTENDS LcEngine, FiniteSetTheorems, SequenceTheorems, WellFoundedInduction, TLAPS

Reqs == RequestIds \union {NoRequest}
Stages == {"ready", "again", "spawn", "boot", "send", "driving", "aborting", "killing",
           "ended", "over"}
Engine ==
  [child : {"none", "up", "dying"}, work : Nat, busy : BOOLEAN, reserved : BOOLEAN,
   making : BOOLEAN, idle : BOOLEAN, waiter : Nat, task : Nat, pendingSend : Nat,
   sentTask : Nat, saving : Nat, capped : BOOLEAN, known : SUBSET RequestIds,
   stop : {"none", "abort", "kill", "forget", "gone"}]
Task == [sid : Sids, req : Reqs, attempt : Nat, at : Stages, cont : BOOLEAN, abort : BOOLEAN]
Asking == [at : {"new", "admit", "commit", "steer", "done"}, sid : Sids \union {0},
           req : Reqs, spare : Sids \union {0}]

Record == [lastRequest : Reqs, sentTask : Nat]

Types ==
  /\ st \in [Sids -> Engine]
  /\ rec \in [Sids -> Record]
  /\ archived \subseteq Sids
  /\ tasks \in Seq(Task)
  /\ calls \in [Calls -> Asking]
  /\ \A c \in Calls : /\ calls[c].at \in {"admit", "commit", "steer"} => calls[c].sid \in Sids
                      /\ calls[c].at = "admit" => calls[c].spare \in Sids \ {calls[c].sid}
  /\ crossed \in [Sids -> Nat]
  /\ crashes \in Nat /\ restarts \in Nat

-----------------------------------------------------------------------------
(* f is e but for some of its fields.                                       *)
Fields == {"child", "work", "busy", "reserved", "making", "waiter", "task", "pendingSend",
           "sentTask", "saving", "capped", "known", "stop"}
But(e, f, changed) == f \in Engine /\ \A x \in Fields \ changed : f[x] = e[x]

(* What the operators on a session's state make of it.                      *)
LEMMA StoppedBut ==
  ASSUME NEW e \in Engine
  PROVE  /\ But(e, Stopped(e), {"child"})
         /\ Stopped(e).child = IF e.child = "up" THEN "dying" ELSE e.child
BY DEF Stopped, Engine, But, Fields

LEMMA IdleBut ==
  ASSUME NEW e \in Engine
  PROVE  /\ But(e, Idle(e), {"busy", "waiter"})
         /\ ~Idle(e).busy /\ Idle(e).waiter = 0
BY DEF Idle, Engine, But, Fields

LEMMA RunFailedBut ==
  ASSUME NEW e \in Engine
  PROVE  /\ But(e, RunFailed(e), {"busy", "waiter", "task"})
         /\ ~RunFailed(e).busy /\ RunFailed(e).waiter = 0 /\ RunFailed(e).task = 0
BY DEF RunFailed, Idle, Engine, But, Fields

LEMMA FinishedBut ==
  ASSUME NEW e \in Engine
  PROVE  /\ But(e, Finished(e), {"busy", "waiter", "work", "capped"})
         /\ ~Finished(e).busy /\ Finished(e).waiter = 0
         /\ Finished(e).work = 0 /\ ~Finished(e).capped
BY DEF Finished, Idle, Engine, But, Fields

LEMMA AbortedBut ==
  ASSUME NEW e \in Engine
  PROVE  /\ But(e, Aborted(e), {"child", "busy", "waiter", "task", "capped"})
         /\ Aborted(e).child = IF e.child = "up" THEN "dying" ELSE e.child
         /\ Aborted(e).waiter = IF e.child = "up" THEN e.waiter ELSE 0
         /\ ~Aborted(e).busy /\ Aborted(e).task = 0 /\ ~Aborted(e).capped
BY ZenonT(60) DEF Aborted, Stopped, Engine, But, Fields

LEMMA TakesBut ==
  ASSUME NEW e \in Engine
  PROVE  But(e, Takes(e), {"busy", "reserved"}) /\ Takes(e).busy /\ ~Takes(e).reserved
BY DEF Takes, Engine, But, Fields

LEMMA KnownBut ==
  ASSUME NEW e \in Engine, NEW r \in Reqs
  PROVE  /\ But(e, Known(e, r), {"known"})
         /\ Known(e, r).known = IF r = NoRequest THEN e.known ELSE e.known \union {r}
BY DEF Known, Engine, But, Fields, Reqs

LEMMA StopDoneBut ==
  ASSUME NEW e \in Engine, NEW s \in Sids
  PROVE  /\ s \notin archived => /\ But(e, StopDone(s, e), {"busy", "stop"})
                                 /\ ~StopDone(s, e).busy /\ StopDone(s, e).stop = "forget"
         /\ s \in archived => /\ But(Fresh, StopDone(s, e), {"stop"})
                              /\ StopDone(s, e).stop = "gone"
<1>1. But(Fresh, [Fresh EXCEPT !.stop = "gone"], {"stop"}) /\ [Fresh EXCEPT !.stop = "gone"].stop = "gone"
  BY DEF Fresh, Engine, But, Fields
<1>2. /\ But(e, [e EXCEPT !.busy = FALSE, !.stop = "forget"], {"busy", "stop"})
      /\ ~[e EXCEPT !.busy = FALSE, !.stop = "forget"].busy
      /\ [e EXCEPT !.busy = FALSE, !.stop = "forget"].stop = "forget"
  BY DEF Engine, But, Fields
<1> QED BY <1>1, <1>2 DEF StopDone

(* A record that gets a request, or an acceptance.                          *)
LEMMA RecordAsked ==
  ASSUME rec \in [Sids -> Record], NEW s \in Sids, NEW r \in Reqs,
         rec' = [rec EXCEPT ![s].lastRequest = r]
  PROVE  /\ rec' \in [Sids -> Record] /\ \A o \in Sids \ {s} : rec'[o] = rec[o]
         /\ rec'[s].lastRequest = r /\ rec'[s].sentTask = rec[s].sentTask
BY DEF Record

LEMMA RecordSent ==
  ASSUME rec \in [Sids -> Record], NEW s \in Sids, NEW n \in Nat,
         rec' = [rec EXCEPT ![s].sentTask = n]
  PROVE  /\ rec' \in [Sids -> Record] /\ \A o \in Sids \ {s} : rec'[o] = rec[o]
         /\ rec'[s].lastRequest = rec[s].lastRequest /\ rec'[s].sentTask = n
BY DEF Record

(* A task that moves to another stage, and tasks that are aborted.          *)
OnlyAt(t, a) ==
  /\ tasks' \in Seq(Task) /\ TaskIds' = TaskIds
  /\ \A u \in TaskIds :
       /\ tasks'[u].sid = tasks[u].sid /\ tasks'[u].req = tasks[u].req
       /\ tasks'[u].attempt = tasks[u].attempt /\ tasks'[u].cont = tasks[u].cont
       /\ tasks'[u].abort = tasks[u].abort
       /\ tasks'[u].at = IF u = t THEN a ELSE tasks[u].at

LEMMA MovesTask ==
  ASSUME tasks \in Seq(Task), NEW t \in TaskIds, NEW a \in Stages, Moves(t, a)
  PROVE  OnlyAt(t, a)
<1>1. \A u \in TaskIds : tasks[u] \in Task
  BY DEF TaskIds
<1>2. [tasks[t] EXCEPT !.at = a] \in Task
  BY <1>1 DEF Task
<1>3. tasks' \in Seq(Task) /\ Len(tasks') = Len(tasks)
  BY <1>2 DEF Moves, TaskIds
<1> QED BY <1>1, <1>2, <1>3 DEF Moves, TaskIds, Task, OnlyAt

LEMMA AbortsTasks ==
  ASSUME tasks \in Seq(Task), NEW T, Abort(T)
  PROVE  /\ tasks' \in Seq(Task) /\ TaskIds' = TaskIds
         /\ \A u \in TaskIds :
              /\ tasks'[u].sid = tasks[u].sid /\ tasks'[u].req = tasks[u].req
              /\ tasks'[u].attempt = tasks[u].attempt /\ tasks'[u].cont = tasks[u].cont
              /\ tasks'[u].at = tasks[u].at
              /\ tasks'[u].abort <=> tasks[u].abort \/ u \in T
              /\ u \notin T => tasks'[u].abort = tasks[u].abort
<1>1. \A t \in TaskIds : tasks[t] \in Task
  BY DEF TaskIds
<1>2. \A t \in TaskIds : [tasks[t] EXCEPT !.abort = @ \/ t \in T] \in Task
  BY <1>1 DEF Task
<1>3. tasks' \in Seq(Task) /\ Len(tasks') = Len(tasks)
  BY <1>2 DEF Abort, TaskIds
<1> QED BY <1>1, <1>2, <1>3 DEF Abort, TaskIds, Task

-----------------------------------------------------------------------------
(* What holds of every session.                                             *)
Pre == {"ready", "again", "spawn", "boot", "send"}

(* An id is a task of the session, or none.                                 *)
Belongs(s, x) == x # 0 => x \in TaskIds /\ tasks[x].sid = s

Own(s) ==
  /\ Belongs(s, st[s].work) /\ Belongs(s, st[s].waiter) /\ Belongs(s, st[s].task)
  /\ Belongs(s, st[s].pendingSend) /\ Belongs(s, st[s].sentTask) /\ Belongs(s, st[s].saving)
  /\ Belongs(s, rec[s].sentTask)
  /\ st[s].waiter # 0 => tasks[st[s].waiter].at = "driving"
  /\ st[s].saving # 0 => st[s].sentTask = st[s].saving
  /\ st[s].child = "none" => st[s].work = 0
  /\ st[s].work # 0 /\ st[s].pendingSend # 0 => tasks[st[s].pendingSend].at \notin Pre
  /\ s \in archived => st[s].stop # "none"
  /\ \A t \in TaskIds : tasks[t].sid = s =>
       /\ tasks[t].at \in {"spawn", "boot", "send"} /\ tasks[t].attempt > 1
            /\ (st[s].sentTask = t \/ rec[s].sentTask = t) => tasks[t].cont
       /\ tasks[t].at \in {"aborting", "killing"} => tasks[t].abort
       /\ tasks[t].attempt <= RestartLimit + 1

(* What holds of a session that nothing crossed.                            *)
Clear(s) == crossed[s] = 0
Placing(c, s) == calls[c].sid = s /\ calls[c].at \in {"admit", "commit"}

(* It has one run that is not over.                                         *)
Single(s) ==
  \A t, u \in TaskIds :
    tasks[t].sid = s /\ tasks[u].sid = s /\ tasks[t].at # "over" /\ tasks[u].at # "over" => t = u

(* A prompt that is not written yet has it to itself.                       *)
Waits(s) ==
  \A c \in Calls : Placing(c, s) =>
    /\ \A d \in Calls : Placing(d, s) => d = c
    /\ \A t \in TaskIds : tasks[t].sid = s => tasks[t].at \in {"ended", "over"}
    /\ st[s].work = 0 /\ st[s].stop = "none"
    /\ calls[c].at = "commit" => st[s].busy /\ ~st[s].reserved
    /\ calls[c].at = "admit" => ~st[s].busy /\ st[s].reserved

(* Its run is the one the session knows.                                    *)
Works(s) ==
  /\ \A t \in TaskIds : tasks[t].sid = s /\ Live(t) =>
       /\ tasks[t].at \in Driven \/ (tasks[t].at = "ready" /\ ~tasks[t].abort) => st[s].busy
       /\ tasks[t].at \in Pre => st[s].work = 0
       /\ tasks[t].at = "driving" => st[s].waiter = t
       /\ tasks[t].at \in {"again", "spawn", "boot", "send"} => ~st[s].capped
       /\ st[s].task \in {0, t}
       /\ st[s].stop # "none" => tasks[t].abort
  /\ st[s].stop \in {"kill", "forget"} => \A t \in TaskIds : tasks[t].sid = s => ~Live(t)

(* What its child works on.                                                 *)
WorksOn(s) ==
  /\ st[s].child = "up" /\ st[s].work # 0 => tasks[st[s].work].at \in {"driving", "aborting"}
  /\ st[s].child = "up" /\ st[s].capped => st[s].work # 0
  /\ st[s].capped => st[s].pendingSend = 0
  /\ st[s].work # 0 /\ st[s].pendingSend # 0 => st[s].work = st[s].pendingSend

(* What it knows of acceptances is true.                                    *)
Heard(s) ==
  /\ st[s].sentTask # 0 => st[s].sentTask \in accepted
  /\ rec[s].sentTask # 0 => rec[s].sentTask \in accepted
  /\ \A t \in TaskIds : tasks[t].sid = s /\ tasks[t].cont => t \in accepted

Alone(s) == Single(s) /\ Waits(s) /\ Works(s) /\ WorksOn(s) /\ Heard(s)

Holds(s) == Own(s) /\ (Clear(s) => Alone(s))
Inv == Types /\ \A s \in Sids : Holds(s)

LEMMA Before ==
  ASSUME Inv, NEW s \in Sids
  PROVE  /\ Types /\ Own(s) /\ (Clear(s) => Alone(s))
         /\ st[s] \in Engine /\ rec[s] \in Record
         /\ tasks \in Seq(Task) /\ 0 \notin TaskIds /\ \A t \in TaskIds : tasks[t] \in Task
BY DEF Inv, Holds, Types, TaskIds

-----------------------------------------------------------------------------
(* A step leaves a session as it is, and that of one session the others.    *)
Apart(o) ==
  /\ TaskIds \subseteq TaskIds' /\ \A t \in TaskIds' \ TaskIds : tasks'[t].sid # o
  /\ \A t \in TaskIds :
       /\ tasks'[t].sid = tasks[t].sid
       /\ tasks[t].sid = o => /\ tasks'[t].attempt = tasks[t].attempt
                              /\ tasks'[t].at = tasks[t].at /\ tasks'[t].cont = tasks[t].cont
                              /\ tasks'[t].abort = tasks[t].abort
  /\ st'[o] = st[o] /\ rec'[o] = rec[o] /\ crossed'[o] = crossed[o]
  /\ o \in archived' => o \in archived
  /\ \A c \in Calls : /\ Placing(c, o)' <=> Placing(c, o)
                      /\ Placing(c, o) => calls'[c].at = calls[c].at
  /\ accepted \subseteq accepted'

Local(s) == \A o \in Sids \ {s} : Apart(o)

LEMMA ApartHolds ==
  ASSUME Inv, NEW o \in Sids, Apart(o)
  PROVE  Holds(o)'
<1>1. Own(o) /\ (Clear(o) => Alone(o)) /\ 0 \notin TaskIds
  BY Before
<1>2. /\ st'[o] = st[o] /\ rec'[o] = rec[o] /\ crossed'[o] = crossed[o]
      /\ o \in archived' => o \in archived
      /\ \A c \in Calls : /\ Placing(c, o)' <=> Placing(c, o)
                          /\ Placing(c, o) => calls'[c].at = calls[c].at
      /\ accepted \subseteq accepted'
  BY DEF Apart
<1>3. /\ TaskIds \subseteq TaskIds'
      /\ \A t \in TaskIds' : tasks'[t].sid = o => t \in TaskIds
      /\ \A t \in TaskIds : tasks'[t].sid = tasks[t].sid
      /\ \A t \in TaskIds : tasks[t].sid = o =>
           /\ tasks'[t].attempt = tasks[t].attempt /\ tasks'[t].at = tasks[t].at
           /\ tasks'[t].cont = tasks[t].cont /\ tasks'[t].abort = tasks[t].abort
  BY DEF Apart
<1>4. Own(o)'
  BY <1>1, <1>2, <1>3 DEF Own, Belongs
<1>5. Clear(o)' => Single(o)' /\ Heard(o)'
  BY <1>1, <1>2, <1>3 DEF Own, Belongs, Alone, Single, Heard, Clear
<1>6. Clear(o)' => Waits(o)'
  BY <1>1, <1>2, <1>3 DEF Own, Belongs, Alone, Waits, Clear
<1>7. Clear(o)' => Works(o)' /\ WorksOn(o)'
  BY <1>1, <1>2, <1>3 DEF Own, Belongs, Alone, Works, WorksOn, Clear, Live
<1> QED BY <1>4, <1>5, <1>6, <1>7 DEF Holds, Alone

LEMMA LocalInv ==
  ASSUME Inv, NEW s \in Sids, Local(s), Types', Holds(s)'
  PROVE  Inv'
BY ApartHolds DEF Inv, Local

(* A step that says nothing new about requests.                             *)
Quiet ==
  /\ TaskIds' = TaskIds
  /\ \A t \in TaskIds : tasks'[t].sid = tasks[t].sid /\ tasks'[t].req = tasks[t].req
  /\ archived \subseteq archived' /\ restarts' = restarts /\ accepted' \subseteq accepted \union TaskIds
  /\ \A o \in Sids :
       /\ rec'[o].lastRequest = rec[o].lastRequest
       /\ o \notin archived' => st[o].known \subseteq st'[o].known
       /\ Clear(o)' => Clear(o)
       /\ \A c \in Calls :
            Clear(o)' /\ Placing(c, o)' => Placing(c, o) /\ calls'[c].req = calls[c].req
  /\ \A c \in Calls : calls[c].at = "done" => calls'[c].at = "done"

-----------------------------------------------------------------------------
(* A limit of one.  A session has a place when its child runs, a prompt of  *)
(* it was admitted or waits for room, or a task of it uses its child.       *)
Commits(c, s) == calls[c].sid = s /\ calls[c].at = "commit"
AtWork(t) == tasks[t].at \in Driven \/ (tasks[t].at = "ready" /\ ~tasks[t].abort)
Place(s) ==
  \/ st[s].child = "up" \/ st[s].reserved
  \/ \E c \in Calls : Commits(c, s)
  \/ \E t \in TaskIds : tasks[t].sid = s /\ AtWork(t)

(* What a restart runs again.                                               *)
Remaining(t) == tasks[t].at # "over" /\ ~tasks[t].abort

(* A busy session has a prompt or a task to be busy with.                   *)
BusyTrue(s) ==
  /\ st[s].busy => \/ \E c \in Calls : Commits(c, s)
                   \/ \E t \in TaskIds : tasks[t].sid = s /\ Live(t)
  /\ \A t \in TaskIds : tasks[t].sid = s /\ tasks[t].at = "killing" => ~st[s].busy

(* A child makes room for a prompt that waits for that, and for nothing     *)
(* else: its session has no run.                                            *)
MakesRoom(s) ==
  st[s].making => /\ st[s].child = "dying" /\ ~st[s].busy /\ ~st[s].reserved
                  /\ \E c \in Calls : calls[c].at = "admit" /\ calls[c].spare = s

AllClear == \A s \in Sids : Clear(s)
OnePlace == \A s, o \in Sids : Place(s) /\ Place(o) => s = o
OneRemains ==
  \A t, u \in TaskIds : Remaining(t) /\ Remaining(u) => tasks[t].sid = tasks[u].sid

Limit ==
  /\ \A s \in Sids : Clear(s) => BusyTrue(s)
  /\ AllClear => (\A s \in Sids : MakesRoom(s)) /\ OnePlace /\ OneRemains

KeepsLimit == MaxLive = 1 /\ Limit => Limit'

(* A step of a session gives it no place it had not, and leaves the prompts *)
(* that wait for room; one that makes no task leaves no more of them.       *)
SteadyPlace(s) ==
  /\ \A c \in Calls : calls[c].at = "admit" => calls'[c] = calls[c]
  /\ Clear(s)' =>
       /\ Clear(s) /\ (Place(s)' => Place(s)) /\ (BusyTrue(s) => BusyTrue(s)')
       /\ MakesRoom(s) /\ (st[s].making => ~Place(s)) => MakesRoom(s)'
SteadyTasks ==
  \A t \in TaskIds' : Remaining(t)' =>
    t \in TaskIds /\ Remaining(t) /\ tasks'[t].sid = tasks[t].sid
Steady(s) == SteadyPlace(s) /\ SteadyTasks

(* One that makes room has no place itself: the prompt that waits has it.   *)
LEMMA MakingHasNone ==
  ASSUME Inv, Limit, AllClear, NEW s \in Sids, st[s].making
  PROVE  ~Place(s)
<1>1. PICK c \in Calls : calls[c].at = "admit" /\ calls[c].spare = s
  BY DEF Limit, MakesRoom
<1>2. calls[c].sid \in Sids \ {s}
  BY <1>1 DEF Inv, Types
<1>3. st[calls[c].sid].reserved
  BY <1>1, <1>2, Before DEF AllClear, Alone, Waits, Placing
<1> QED BY <1>2, <1>3 DEF Limit, OnePlace, Place

(* The other sessions are as they were.                                     *)
LEMMA ApartLimit ==
  ASSUME Inv, NEW o \in Sids, Apart(o),
         \A c \in Calls : calls[c].at = "admit" => calls'[c] = calls[c]
  PROVE  /\ Clear(o)' <=> Clear(o)
         /\ Place(o)' <=> Place(o)
         /\ BusyTrue(o) => BusyTrue(o)'
         /\ MakesRoom(o) => MakesRoom(o)'
<1>1. /\ st'[o] = st[o] /\ crossed'[o] = crossed[o] /\ TaskIds \subseteq TaskIds'
      /\ \A c \in Calls : /\ Placing(c, o)' <=> Placing(c, o)
                          /\ Placing(c, o) => calls'[c].at = calls[c].at
      /\ \A t \in TaskIds' : tasks'[t].sid = o => t \in TaskIds /\ tasks[t].sid = o
      /\ \A t \in TaskIds : tasks[t].sid = o =>
           /\ tasks'[t].sid = o /\ tasks'[t].at = tasks[t].at
           /\ tasks'[t].abort = tasks[t].abort
  BY DEF Apart
<1>2. \A c \in Calls : Commits(c, o)' <=> Commits(c, o)
  BY <1>1 DEF Commits, Placing
<1>3. \A t \in TaskIds : tasks[t].sid = o =>
        /\ AtWork(t)' <=> AtWork(t)
        /\ Live(t)' <=> Live(t)
  BY <1>1 DEF AtWork, Live, Driven
<1>4. Place(o)' <=> Place(o)
  BY <1>1, <1>2, <1>3 DEF Place
<1>5. BusyTrue(o) => BusyTrue(o)'
  BY <1>1, <1>2, <1>3 DEF BusyTrue
<1>6. MakesRoom(o) => MakesRoom(o)'
  BY <1>1 DEF MakesRoom
<1> QED BY <1>1, <1>3, <1>4, <1>5, <1>6 DEF Clear

LEMMA PlaceLimit ==
  ASSUME Inv, NEW s \in Sids, Local(s), SteadyPlace(s),
         Limit /\ AllClear => OneRemains'
  PROVE  KeepsLimit
<1> SUFFICES ASSUME MaxLive = 1, Limit
             PROVE  Limit'
  BY DEF KeepsLimit
<1>1. \A c \in Calls : calls[c].at = "admit" => calls'[c] = calls[c]
  BY DEF SteadyPlace
<1>2. ASSUME NEW o \in Sids, o # s
      PROVE  /\ Clear(o)' <=> Clear(o)
             /\ Place(o)' <=> Place(o)
             /\ BusyTrue(o) => BusyTrue(o)'
             /\ MakesRoom(o) => MakesRoom(o)'
  BY <1>1, <1>2, ApartLimit DEF Local
<1>3. ASSUME NEW o \in Sids, Clear(o)'
      PROVE  BusyTrue(o)'
  BY <1>2, <1>3 DEF Limit, SteadyPlace
<1>4. ASSUME AllClear'
      PROVE  (\A o \in Sids : MakesRoom(o)') /\ OnePlace' /\ OneRemains'
  <2>1. AllClear
    <3>1. Clear(s)
      BY <1>4 DEF AllClear, SteadyPlace
    <3>2. ASSUME NEW o \in Sids PROVE Clear(o)
      BY <1>2, <1>4, <3>1 DEF AllClear
    <3> QED BY <3>2 DEF AllClear
  <2>2. (\A o \in Sids : MakesRoom(o)) /\ OnePlace /\ OneRemains
    BY <2>1 DEF Limit
  <2>3. Clear(s)'
    BY <1>4 DEF AllClear
  <2>4. MakesRoom(s)'
    BY <2>1, <2>2, <2>3, MakingHasNone DEF SteadyPlace
  <2>5. \A o \in Sids : MakesRoom(o)'
    BY <1>2, <2>2, <2>4
  <2>6. \A o \in Sids : Place(o)' => Place(o)
    BY <1>2, <2>3 DEF SteadyPlace
  <2>7. OnePlace'
    BY <2>2, <2>6 DEF OnePlace
  <2>8. OneRemains'
    BY <2>1
  <2> QED BY <2>5, <2>7, <2>8
<1> QED BY <1>3, <1>4 DEF Limit

LEMMA LocalLimit ==
  ASSUME Inv, NEW s \in Sids, Local(s), Steady(s)
  PROVE  KeepsLimit
<1>1. Limit /\ AllClear => OneRemains'
  BY DEF Limit, OneRemains, Steady, SteadyTasks
<1> QED BY <1>1, PlaceLimit DEF Steady

-----------------------------------------------------------------------------
(* The child's steps.                                                       *)
LEMMA WaiterMoves ==
  ASSUME Inv, NEW s \in Sids, NEW a \in Stages,
         IF st[s].waiter = 0 THEN UNCHANGED tasks ELSE Moves(st[s].waiter, a)
  PROVE  OnlyAt(st[s].waiter, a)
<1>1. CASE st[s].waiter = 0
  <2>1. tasks' = tasks /\ tasks \in Seq(Task) /\ 0 \notin TaskIds
    BY <1>1, Before
  <2> QED BY <1>1, <2>1 DEF OnlyAt, TaskIds
<1>2. CASE st[s].waiter # 0
  <2>1. st[s].waiter \in TaskIds /\ Moves(st[s].waiter, a)
    BY <1>2, Before DEF Own, Belongs
  <2> QED BY <2>1, Before, MovesTask
<1> QED BY <1>1, <1>2

LEMMA AcceptInv ==
  ASSUME Inv, NEW s \in Sids, Accept(s)
  PROVE  Inv' /\ Quiet /\ KeepsLimit
<1> DEFINE e == st[s]
           f == [st[s] EXCEPT !.pendingSend = 0, !.sentTask = st[s].pendingSend, !.saving = st[s].pendingSend]
<1>0. /\ Own(s) /\ (Clear(s) => Alone(s)) /\ e \in Engine
      /\ 0 \notin TaskIds /\ \A t \in TaskIds : tasks[t] \in Task
  BY Before
<1>t. Types /\ st \in [Sids -> Engine] /\ rec \in [Sids -> Record] /\ tasks \in Seq(Task)
  BY Before DEF Types
<1>1. /\ st' = [st EXCEPT ![s] = f] /\ rec' = rec /\ archived' = archived /\ tasks' = tasks
      /\ calls' = calls /\ crossed' = crossed /\ crashes' = crashes /\ restarts' = restarts
      /\ accepted' = accepted \union {e.work} /\ e.child # "none" /\ e.work # 0
      /\ e.pendingSend # 0
  BY <1>0, <1>t DEF Accept, worldVars
<1>2. /\ f \in Engine /\ f.pendingSend = 0 /\ f.sentTask = e.pendingSend
      /\ f.saving = e.pendingSend /\ f.child = e.child /\ f.work = e.work /\ f.busy = e.busy
      /\ f.reserved = e.reserved /\ f.making = e.making /\ f.waiter = e.waiter
      /\ f.task = e.task /\ f.capped = e.capped /\ f.known = e.known /\ f.stop = e.stop
  <2>1. e \in Engine
    BY <1>0
  <2> QED  BY <2>1 DEF Engine
<1> HIDE DEF f
<1>3. st'[s] = f
  BY <1>t, <1>1
<1>4. TaskIds' = TaskIds /\ tasks' = tasks
  BY <1>1 DEF TaskIds
<1>5. Own(s)'
  BY <1>0, <1>1, <1>2, <1>3, <1>4
  DEF Own, Belongs, Pre
<1>6. Clear(s)' => Single(s)' /\ Waits(s)'
  BY <1>0, <1>1, <1>2, <1>3, <1>4
  DEF Own, Belongs, Clear, Alone, Single, Waits, Works, WorksOn, Placing, Live
<1>7. Clear(s)' => Works(s)'
  BY <1>0, <1>1, <1>2, <1>3, <1>4
  DEF Own, Belongs, Clear, Alone, Single, Works, WorksOn, Live, Driven, Pre
<1>8. Clear(s)' => WorksOn(s)' /\ Heard(s)'
  BY <1>0, <1>1, <1>2, <1>3, <1>4
  DEF Own, Belongs, Clear, Alone, Single, Works, WorksOn, Heard, Live, Pre
<1>9. Local(s)
  BY <1>0, <1>1, <1>2, <1>3, <1>4
  DEF Local, Apart, Own, Belongs, Placing
<1>10. Types'
  BY <1>0, <1>1, <1>2, <1>3, <1>4, <1>t
  DEF Types
<1>11. Holds(s)'
  BY <1>5, <1>6, <1>7, <1>8 DEF Holds, Alone
<1>12. Quiet
  BY <1>0, <1>1, <1>2, <1>3, <1>4
  DEF Quiet, Placing, Clear, Own, Belongs
<1>13. Steady(s)
  BY <1>0, <1>1, <1>2, <1>3, <1>4
  DEF Steady, SteadyPlace, SteadyTasks, Remaining, Place, Commits, AtWork, BusyTrue, MakesRoom, Clear,
      Own, Alone, Single, Waits, Works, Live, Driven, Placing
<1> QED BY <1>9, <1>10, <1>11, <1>12, <1>13, LocalInv, LocalLimit

LEMMA SaveSentInv ==
  ASSUME Inv, NEW s \in Sids, SaveSent(s)
  PROVE  Inv' /\ Quiet /\ KeepsLimit
<1> DEFINE e == st[s]
           f == [st[s] EXCEPT !.saving = 0]
<1>0. /\ Own(s) /\ (Clear(s) => Alone(s)) /\ e \in Engine
      /\ 0 \notin TaskIds /\ \A t \in TaskIds : tasks[t] \in Task
  BY Before
<1>t. Types /\ st \in [Sids -> Engine] /\ rec \in [Sids -> Record] /\ tasks \in Seq(Task)
  BY Before DEF Types
<1>1. /\ st' = [st EXCEPT ![s] = f] /\ archived' = archived /\ tasks' = tasks /\ calls' = calls
      /\ accepted' = accepted /\ crossed' = crossed /\ crashes' = crashes
      /\ restarts' = restarts /\ rec' = [rec EXCEPT ![s].sentTask = e.saving] /\ e.saving # 0
  BY <1>0, <1>t DEF SaveSent, worldVars
<1>2. /\ f \in Engine /\ f.saving = 0 /\ f.child = e.child /\ f.work = e.work
      /\ f.busy = e.busy /\ f.reserved = e.reserved /\ f.making = e.making
      /\ f.waiter = e.waiter /\ f.task = e.task /\ f.pendingSend = e.pendingSend
      /\ f.sentTask = e.sentTask /\ f.capped = e.capped /\ f.known = e.known /\ f.stop = e.stop
  <2>1. e \in Engine
    BY <1>0
  <2> QED  BY <2>1 DEF Engine
<1> HIDE DEF f
<1>3. st'[s] = f
  BY <1>t, <1>1
<1>4. TaskIds' = TaskIds /\ tasks' = tasks
  BY <1>1 DEF TaskIds
<1>5. e.saving \in Nat
  BY <1>0 DEF Engine
<1>6. /\ rec' \in [Sids -> Record] /\ rec'[s].sentTask = e.saving
      /\ rec'[s].lastRequest = rec[s].lastRequest /\ \A o \in Sids \ {s} : rec'[o] = rec[o]
  BY <1>1, <1>5, <1>t, RecordSent
<1>7. Own(s)'
  BY <1>0, <1>1, <1>2, <1>3, <1>4, <1>5, <1>6
  DEF Own, Belongs, Pre
<1>8. Clear(s)' => Single(s)' /\ Waits(s)'
  BY <1>0, <1>1, <1>2, <1>3, <1>4, <1>5, <1>6
  DEF Own, Belongs, Clear, Alone, Single, Waits, Works, WorksOn, Placing, Live
<1>9. Clear(s)' => Works(s)'
  BY <1>0, <1>1, <1>2, <1>3, <1>4, <1>5, <1>6
  DEF Own, Belongs, Clear, Alone, Single, Works, WorksOn, Live, Driven, Pre
<1>10. Clear(s)' => WorksOn(s)' /\ Heard(s)'
  BY <1>0, <1>1, <1>2, <1>3, <1>4, <1>5, <1>6
  DEF Own, Belongs, Clear, Alone, Single, Works, WorksOn, Heard, Live, Pre
<1>11. Local(s)
  BY <1>0, <1>1, <1>2, <1>3, <1>4, <1>5, <1>6
  DEF Local, Apart, Own, Belongs, Placing
<1>12. Types'
  BY <1>0, <1>1, <1>2, <1>3, <1>4, <1>5, <1>6, <1>t
  DEF Types
<1>13. Holds(s)'
  BY <1>7, <1>8, <1>9, <1>10 DEF Holds, Alone
<1>14. Quiet
  BY <1>0, <1>1, <1>2, <1>3, <1>4, <1>5, <1>6
  DEF Quiet, Placing, Clear
<1>15. Steady(s)
  BY <1>0, <1>1, <1>2, <1>3, <1>4, <1>5, <1>6
  DEF Steady, SteadyPlace, SteadyTasks, Remaining, Place, Commits, AtWork, BusyTrue, MakesRoom, Clear,
      Own, Alone, Single, Waits, Works, Live, Driven, Placing
<1> QED BY <1>11, <1>12, <1>13, <1>14, <1>15, LocalInv, LocalLimit

LEMMA CapRunInv ==
  ASSUME Inv, NEW s \in Sids, CapRun(s)
  PROVE  Inv' /\ Quiet /\ KeepsLimit
<1> DEFINE e == st[s]
           f == [st[s] EXCEPT !.capped = TRUE]
<1>0. /\ Own(s) /\ (Clear(s) => Alone(s)) /\ e \in Engine
      /\ 0 \notin TaskIds /\ \A t \in TaskIds : tasks[t] \in Task
  BY Before
<1>t. Types /\ st \in [Sids -> Engine] /\ rec \in [Sids -> Record] /\ tasks \in Seq(Task)
  BY Before DEF Types
<1>1. /\ st' = [st EXCEPT ![s] = f] /\ rec' = rec /\ archived' = archived /\ tasks' = tasks
      /\ calls' = calls /\ accepted' = accepted /\ crossed' = crossed /\ crashes' = crashes
      /\ restarts' = restarts /\ e.child # "none" /\ e.work # 0 /\ e.pendingSend = 0
  BY <1>0, <1>t DEF CapRun, worldVars
<1>2. /\ f \in Engine /\ f.capped /\ f.child = e.child /\ f.work = e.work /\ f.busy = e.busy
      /\ f.reserved = e.reserved /\ f.making = e.making /\ f.waiter = e.waiter
      /\ f.task = e.task /\ f.pendingSend = e.pendingSend /\ f.sentTask = e.sentTask
      /\ f.saving = e.saving /\ f.known = e.known /\ f.stop = e.stop
  <2>1. e \in Engine
    BY <1>0
  <2> QED  BY <2>1 DEF Engine
<1> HIDE DEF f
<1>3. st'[s] = f
  BY <1>t, <1>1
<1>4. TaskIds' = TaskIds /\ tasks' = tasks
  BY <1>1 DEF TaskIds
<1>5. Own(s)'
  BY <1>0, <1>1, <1>2, <1>3, <1>4
  DEF Own, Belongs, Pre
<1>6. Clear(s)' => Single(s)' /\ Waits(s)'
  BY <1>0, <1>1, <1>2, <1>3, <1>4
  DEF Own, Belongs, Clear, Alone, Single, Waits, Works, WorksOn, Placing, Live
<1>7. Clear(s)' => Works(s)'
  BY <1>0, <1>1, <1>2, <1>3, <1>4
  DEF Own, Belongs, Clear, Alone, Single, Works, WorksOn, Live, Driven, Pre
<1>8. Clear(s)' => WorksOn(s)' /\ Heard(s)'
  BY <1>0, <1>1, <1>2, <1>3, <1>4
  DEF Own, Belongs, Clear, Alone, Single, Works, WorksOn, Heard, Live, Pre
<1>9. Local(s)
  BY <1>0, <1>1, <1>2, <1>3, <1>4
  DEF Local, Apart, Own, Belongs, Placing
<1>10. Types'
  BY <1>0, <1>1, <1>2, <1>3, <1>4, <1>t
  DEF Types
<1>11. Holds(s)'
  BY <1>5, <1>6, <1>7, <1>8 DEF Holds, Alone
<1>12. Quiet
  BY <1>0, <1>1, <1>2, <1>3, <1>4
  DEF Quiet, Placing, Clear
<1>13. Steady(s)
  BY <1>0, <1>1, <1>2, <1>3, <1>4
  DEF Steady, SteadyPlace, SteadyTasks, Remaining, Place, Commits, AtWork, BusyTrue, MakesRoom, Clear,
      Own, Alone, Single, Waits, Works, Live, Driven, Placing
<1> QED BY <1>9, <1>10, <1>11, <1>12, <1>13, LocalInv, LocalLimit

LEMMA AgentEndInv ==
  ASSUME Inv, NEW s \in Sids, AgentEnd(s)
  PROVE  Inv' /\ Quiet /\ KeepsLimit
<1> DEFINE e == st[s]
           f == Finished(st[s])
<1>0. /\ Own(s) /\ (Clear(s) => Alone(s)) /\ e \in Engine
      /\ 0 \notin TaskIds /\ \A t \in TaskIds : tasks[t] \in Task
  BY Before
<1>t. Types /\ st \in [Sids -> Engine] /\ rec \in [Sids -> Record] /\ tasks \in Seq(Task)
  BY Before DEF Types
<1>1. /\ st' = [st EXCEPT ![s] = f] /\ rec' = rec /\ archived' = archived /\ calls' = calls
      /\ accepted' = accepted /\ crossed' = crossed /\ crashes' = crashes
      /\ restarts' = restarts /\ e.child # "none" /\ e.work # 0 /\ e.pendingSend = 0
  BY <1>0, <1>t DEF AgentEnd, worldVars
<1>2. /\ But(e, f, {"busy", "waiter", "work", "capped"}) /\ ~f.busy /\ f.waiter = 0
      /\ f.work = 0 /\ ~f.capped
  BY <1>0, FinishedBut
<1> HIDE DEF f
<1>3. /\ f \in Engine /\ st'[s] = f /\ f.child = e.child /\ f.reserved = e.reserved
      /\ f.making = e.making /\ f.task = e.task /\ f.pendingSend = e.pendingSend
      /\ f.sentTask = e.sentTask /\ f.saving = e.saving /\ f.known = e.known /\ f.stop = e.stop
  BY <1>0, <1>1, <1>2, <1>t DEF But, Fields
<1>4. OnlyAt(e.waiter, "ended")
  BY WaiterMoves DEF AgentEnd, WaiterEnds, Ends, Stages
<1>5. Own(s)'
  BY <1>0, <1>1, <1>2, <1>3, <1>4
  DEF Own, Belongs, Pre, OnlyAt
<1>6. Clear(s)' => Single(s)' /\ Waits(s)'
  BY <1>0, <1>1, <1>2, <1>3, <1>4
  DEF Own, Belongs, Clear, Alone, Single, Waits, Works, WorksOn, Placing, Live, OnlyAt
<1>7. Clear(s)' => Works(s)'
  BY <1>0, <1>1, <1>2, <1>3, <1>4
  DEF Own, Belongs, Clear, Alone, Single, Works, WorksOn, Live, Driven, Pre, OnlyAt
<1>8. Clear(s)' => WorksOn(s)' /\ Heard(s)'
  BY <1>0, <1>1, <1>2, <1>3, <1>4
  DEF Own, Belongs, Clear, Alone, Single, Works, WorksOn, Heard, Live, Pre, OnlyAt
<1>9. Local(s)
  BY <1>0, <1>1, <1>2, <1>3, <1>4
  DEF Local, Apart, Own, Belongs, Placing, OnlyAt
<1>10. Types'
  BY <1>0, <1>1, <1>2, <1>3, <1>4, <1>t
  DEF Types, OnlyAt
<1>11. Holds(s)'
  BY <1>5, <1>6, <1>7, <1>8 DEF Holds, Alone
<1>12. Quiet
  BY <1>0, <1>1, <1>2, <1>3, <1>4
  DEF Quiet, Placing, Clear, OnlyAt
<1>13. Steady(s)
  BY <1>0, <1>1, <1>2, <1>3, <1>4
  DEF Steady, SteadyPlace, SteadyTasks, Remaining, Place, Commits, AtWork, BusyTrue, MakesRoom, Clear,
      Own, Alone, Single, Waits, Works, Live, Driven, Placing, OnlyAt
<1> QED BY <1>9, <1>10, <1>11, <1>12, <1>13, LocalInv, LocalLimit

LEMMA RefuseInv ==
  ASSUME Inv, NEW s \in Sids, Refuse(s)
  PROVE  Inv' /\ Quiet /\ KeepsLimit
<1> DEFINE e == st[s]
           f == [RunFailed(st[s]) EXCEPT !.work = IF @ = st[s].waiter THEN 0 ELSE @]
<1>0. /\ Own(s) /\ (Clear(s) => Alone(s)) /\ e \in Engine
      /\ 0 \notin TaskIds /\ \A t \in TaskIds : tasks[t] \in Task
  BY Before
<1>t. Types /\ st \in [Sids -> Engine] /\ rec \in [Sids -> Record] /\ tasks \in Seq(Task)
  BY Before DEF Types
<1>1. /\ st' = [st EXCEPT ![s] = f] /\ rec' = rec /\ archived' = archived /\ calls' = calls
      /\ accepted' = accepted /\ crossed' = crossed /\ crashes' = crashes
      /\ restarts' = restarts /\ e.child # "none" /\ e.waiter # 0 /\ e.pendingSend = e.waiter
  BY <1>0, <1>t DEF Refuse, worldVars
<1>2. /\ f \in Engine /\ ~f.busy /\ f.waiter = 0 /\ f.task = 0
      /\ f.work = (IF e.work = e.waiter THEN 0 ELSE e.work) /\ f.child = e.child
      /\ f.reserved = e.reserved /\ f.making = e.making /\ f.pendingSend = e.pendingSend
      /\ f.sentTask = e.sentTask /\ f.saving = e.saving /\ f.capped = e.capped
      /\ f.known = e.known /\ f.stop = e.stop
  <2>1. e \in Engine
    BY <1>0
  <2> QED  BY <2>1 DEF Engine, RunFailed, Idle
<1> HIDE DEF f
<1>3. st'[s] = f
  BY <1>t, <1>1
<1>4. OnlyAt(e.waiter, "ended")
  BY WaiterMoves DEF Refuse, Ends, Stages
<1>5. Own(s)'
  BY <1>0, <1>1, <1>2, <1>3, <1>4
  DEF Own, Belongs, Pre, OnlyAt
<1>6. Clear(s)' => Single(s)' /\ Waits(s)'
  BY <1>0, <1>1, <1>2, <1>3, <1>4
  DEF Own, Belongs, Clear, Alone, Single, Waits, Works, WorksOn, Placing, Live, OnlyAt
<1>7. Clear(s)' => Works(s)'
  BY <1>0, <1>1, <1>2, <1>3, <1>4
  DEF Own, Belongs, Clear, Alone, Single, Works, WorksOn, Live, Driven, Pre, OnlyAt
<1>8. Clear(s)' => WorksOn(s)' /\ Heard(s)'
  BY <1>0, <1>1, <1>2, <1>3, <1>4
  DEF Own, Belongs, Clear, Alone, Single, Works, WorksOn, Heard, Live, Pre, OnlyAt
<1>9. Local(s)
  BY <1>0, <1>1, <1>2, <1>3, <1>4
  DEF Local, Apart, Own, Belongs, Placing, OnlyAt
<1>10. Types'
  BY <1>0, <1>1, <1>2, <1>3, <1>4, <1>t
  DEF Types, OnlyAt
<1>11. Holds(s)'
  BY <1>5, <1>6, <1>7, <1>8 DEF Holds, Alone
<1>12. Quiet
  BY <1>0, <1>1, <1>2, <1>3, <1>4
  DEF Quiet, Placing, Clear, OnlyAt
<1>13. Steady(s)
  BY <1>0, <1>1, <1>2, <1>3, <1>4
  DEF Steady, SteadyPlace, SteadyTasks, Remaining, Place, Commits, AtWork, BusyTrue, MakesRoom, Clear,
      Own, Alone, Single, Waits, Works, Live, Driven, Placing, OnlyAt
<1> QED BY <1>9, <1>10, <1>11, <1>12, <1>13, LocalInv, LocalLimit

LEMMA CrashInv ==
  ASSUME Inv, NEW s \in Sids, Crash(s)
  PROVE  Inv' /\ Quiet /\ KeepsLimit
<1> DEFINE e == st[s]
           f == [st[s] EXCEPT !.child = "none", !.work = 0, !.idle = FALSE, !.waiter = 0]
<1>0. /\ Own(s) /\ (Clear(s) => Alone(s)) /\ e \in Engine
      /\ 0 \notin TaskIds /\ \A t \in TaskIds : tasks[t] \in Task
  BY Before
<1>t. Types /\ st \in [Sids -> Engine] /\ rec \in [Sids -> Record] /\ tasks \in Seq(Task)
  BY Before DEF Types
<1>1. /\ st' = [st EXCEPT ![s] = f] /\ rec' = rec /\ archived' = archived /\ calls' = calls
      /\ accepted' = accepted /\ crossed' = crossed /\ restarts' = restarts
      /\ crashes' = crashes + 1 /\ e.child = "up"
  BY <1>0, <1>t DEF Crash, worldVars
<1>2. /\ f \in Engine /\ f.child = "none" /\ f.work = 0 /\ f.waiter = 0 /\ f.busy = e.busy
      /\ f.reserved = e.reserved /\ f.making = e.making /\ f.task = e.task
      /\ f.pendingSend = e.pendingSend /\ f.sentTask = e.sentTask /\ f.saving = e.saving
      /\ f.capped = e.capped /\ f.known = e.known /\ f.stop = e.stop
  <2>1. e \in Engine
    BY <1>0
  <2> QED  BY <2>1 DEF Engine
<1> HIDE DEF f
<1>3. st'[s] = f
  BY <1>t, <1>1
<1>4. OnlyAt(e.waiter, "ready")
  BY WaiterMoves DEF Crash, Stages
<1>5. Own(s)'
  BY <1>0, <1>1, <1>2, <1>3, <1>4
  DEF Own, Belongs, Pre, OnlyAt
<1>6. Clear(s)' => Single(s)' /\ Waits(s)'
  BY SMTT(30), <1>0, <1>1, <1>2, <1>3, <1>4
  DEF Own, Belongs, Clear, Alone, Single, Waits, Works, WorksOn, Placing, Live, OnlyAt
<1>7. Clear(s)' => Works(s)'
  BY <1>0, <1>1, <1>2, <1>3, <1>4
  DEF Own, Belongs, Clear, Alone, Single, Works, WorksOn, Live, Driven, Pre, OnlyAt
<1>8. Clear(s)' => WorksOn(s)' /\ Heard(s)'
  BY <1>0, <1>1, <1>2, <1>3, <1>4
  DEF Own, Belongs, Clear, Alone, Single, Works, WorksOn, Heard, Live, Pre, OnlyAt
<1>9. Local(s)
  BY <1>0, <1>1, <1>2, <1>3, <1>4
  DEF Local, Apart, Own, Belongs, Placing, OnlyAt
<1>10. Types'
  BY <1>0, <1>1, <1>2, <1>3, <1>4, <1>t
  DEF Types, OnlyAt
<1>11. Holds(s)'
  BY <1>5, <1>6, <1>7, <1>8 DEF Holds, Alone
<1>12. Quiet
  BY <1>0, <1>1, <1>2, <1>3, <1>4
  DEF Quiet, Placing, Clear, OnlyAt
<1>13. Steady(s)
  BY <1>0, <1>1, <1>2, <1>3, <1>4
  DEF Steady, SteadyPlace, SteadyTasks, Remaining, Place, Commits, AtWork, BusyTrue, MakesRoom, Clear,
      Own, Alone, Single, Waits, Works, Live, Driven, Placing, OnlyAt
<1> QED BY <1>9, <1>10, <1>11, <1>12, <1>13, LocalInv, LocalLimit

(* Timers.                                                                  *)
LEMMA CapTimerInv ==
  ASSUME Inv, NEW s \in Sids, CapTimer(s)
  PROVE  Inv' /\ Quiet /\ KeepsLimit
<1> DEFINE e == st[s]
           f == Stopped([Idle(st[s]) EXCEPT !.capped = FALSE])
<1>0. /\ Own(s) /\ (Clear(s) => Alone(s)) /\ e \in Engine
      /\ 0 \notin TaskIds /\ \A t \in TaskIds : tasks[t] \in Task
  BY Before
<1>t. Types /\ st \in [Sids -> Engine] /\ rec \in [Sids -> Record] /\ tasks \in Seq(Task)
  BY Before DEF Types
<1>1. /\ st' = [st EXCEPT ![s] = f] /\ rec' = rec /\ archived' = archived /\ calls' = calls
      /\ accepted' = accepted /\ crossed' = crossed /\ crashes' = crashes
      /\ restarts' = restarts /\ e.capped /\ e.child = "up"
  BY <1>0, <1>t DEF CapTimer, worldVars
<1>2. /\ f \in Engine /\ f.child = "dying" /\ ~f.busy /\ f.waiter = 0 /\ ~f.capped
      /\ f.work = e.work /\ f.reserved = e.reserved /\ f.making = e.making /\ f.task = e.task
      /\ f.pendingSend = e.pendingSend /\ f.sentTask = e.sentTask /\ f.saving = e.saving
      /\ f.known = e.known /\ f.stop = e.stop
  <2>1. e \in Engine
    BY <1>0
  <2> QED  BY <2>1 DEF Engine, Stopped, Idle, CapTimer
<1> HIDE DEF f
<1>3. st'[s] = f
  BY <1>t, <1>1
<1>4. OnlyAt(e.waiter, "ended")
  BY WaiterMoves DEF CapTimer, WaiterEnds, Ends, Stages
<1>5. Own(s)'
  BY <1>0, <1>1, <1>2, <1>3, <1>4
  DEF Own, Belongs, Pre, OnlyAt
<1>6. Clear(s)' => Single(s)' /\ Waits(s)'
  BY <1>0, <1>1, <1>2, <1>3, <1>4
  DEF Own, Belongs, Clear, Alone, Single, Waits, Works, WorksOn, Placing, Live, OnlyAt
<1>7. Clear(s)' => Works(s)'
  BY <1>0, <1>1, <1>2, <1>3, <1>4
  DEF Own, Belongs, Clear, Alone, Single, Works, WorksOn, Live, Driven, Pre, OnlyAt
<1>8. Clear(s)' => WorksOn(s)' /\ Heard(s)'
  BY <1>0, <1>1, <1>2, <1>3, <1>4
  DEF Own, Belongs, Clear, Alone, Single, Works, WorksOn, Heard, Live, Pre, OnlyAt
<1>9. Local(s)
  BY <1>0, <1>1, <1>2, <1>3, <1>4
  DEF Local, Apart, Own, Belongs, Placing, OnlyAt
<1>10. Types'
  BY <1>0, <1>1, <1>2, <1>3, <1>4, <1>t
  DEF Types, OnlyAt
<1>11. Holds(s)'
  BY <1>5, <1>6, <1>7, <1>8 DEF Holds, Alone
<1>12. Quiet
  BY <1>0, <1>1, <1>2, <1>3, <1>4
  DEF Quiet, Placing, Clear, OnlyAt
<1>13. Steady(s)
  BY <1>0, <1>1, <1>2, <1>3, <1>4
  DEF Steady, SteadyPlace, SteadyTasks, Remaining, Place, Commits, AtWork, BusyTrue, MakesRoom, Clear,
      Own, Alone, Single, Waits, Works, Live, Driven, Placing, OnlyAt
<1> QED BY <1>9, <1>10, <1>11, <1>12, <1>13, LocalInv, LocalLimit

LEMMA IdleTimerInv ==
  ASSUME Inv, NEW s \in Sids, IdleTimer(s)
  PROVE  Inv' /\ Quiet /\ KeepsLimit
<1> DEFINE e == st[s]
           f == (IF st[s].busy THEN [st[s] EXCEPT !.idle = FALSE] ELSE Stopped(st[s]))
<1>0. /\ Own(s) /\ (Clear(s) => Alone(s)) /\ e \in Engine
      /\ 0 \notin TaskIds /\ \A t \in TaskIds : tasks[t] \in Task
  BY Before
<1>t. Types /\ st \in [Sids -> Engine] /\ rec \in [Sids -> Record] /\ tasks \in Seq(Task)
  BY Before DEF Types
<1>1. /\ st' = [st EXCEPT ![s] = f] /\ rec' = rec /\ archived' = archived /\ tasks' = tasks
      /\ calls' = calls /\ accepted' = accepted /\ crossed' = crossed /\ crashes' = crashes
      /\ restarts' = restarts /\ e.child = "up"
  BY <1>0, <1>t DEF IdleTimer, worldVars
<1>2. /\ f \in Engine /\ f.child = (IF e.busy THEN "up" ELSE "dying") /\ f.work = e.work
      /\ f.busy = e.busy /\ f.reserved = e.reserved /\ f.making = e.making
      /\ f.waiter = e.waiter /\ f.task = e.task /\ f.pendingSend = e.pendingSend
      /\ f.sentTask = e.sentTask /\ f.saving = e.saving /\ f.capped = e.capped
      /\ f.known = e.known /\ f.stop = e.stop
  <2>1. e \in Engine
    BY <1>0
  <2> QED  BY <2>1 DEF Engine, Stopped, IdleTimer
<1> HIDE DEF f
<1>3. st'[s] = f
  BY <1>t, <1>1
<1>4. TaskIds' = TaskIds /\ tasks' = tasks
  BY <1>1 DEF TaskIds
<1>5. Own(s)'
  BY <1>0, <1>1, <1>2, <1>3, <1>4
  DEF Own, Belongs, Pre
<1>6. Clear(s)' => Single(s)' /\ Waits(s)'
  BY <1>0, <1>1, <1>2, <1>3, <1>4
  DEF Own, Belongs, Clear, Alone, Single, Waits, Works, WorksOn, Placing, Live
<1>7. Clear(s)' => Works(s)'
  BY <1>0, <1>1, <1>2, <1>3, <1>4
  DEF Own, Belongs, Clear, Alone, Single, Works, WorksOn, Live, Driven, Pre
<1>8. Clear(s)' => WorksOn(s)' /\ Heard(s)'
  BY <1>0, <1>1, <1>2, <1>3, <1>4
  DEF Own, Belongs, Clear, Alone, Single, Works, WorksOn, Heard, Live, Pre
<1>9. Local(s)
  BY <1>0, <1>1, <1>2, <1>3, <1>4
  DEF Local, Apart, Own, Belongs, Placing
<1>10. Types'
  BY <1>0, <1>1, <1>2, <1>3, <1>4, <1>t
  DEF Types
<1>11. Holds(s)'
  BY <1>5, <1>6, <1>7, <1>8 DEF Holds, Alone
<1>12. Quiet
  BY <1>0, <1>1, <1>2, <1>3, <1>4
  DEF Quiet, Placing, Clear
<1>13. Steady(s)
  BY <1>0, <1>1, <1>2, <1>3, <1>4
  DEF Steady, SteadyPlace, SteadyTasks, Remaining, Place, Commits, AtWork, BusyTrue, MakesRoom, Clear,
      Own, Alone, Single, Waits, Works, Live, Driven, Placing
<1> QED BY <1>9, <1>10, <1>11, <1>12, <1>13, LocalInv, LocalLimit

-----------------------------------------------------------------------------
(* The steps of a task.                                                     *)
LEMMA TriedTask ==
  ASSUME NEW k \in Task, NEW a \in Stages
  PROVE  [k EXCEPT !.attempt = k.attempt + 1, !.at = a, !.cont = FALSE] \in Task
<1>1. k.attempt + 1 \in Nat /\ FALSE \in BOOLEAN
  BY DEF Task
<1> QED BY <1>1 DEF Task

LEMMA AttemptEndsInv ==
  ASSUME Inv, NEW s \in Sids, NEW t \in TaskIds, tasks[t].sid = s, Attempt(t), OneTooMany(t) \/ s \in archived
  PROVE  Inv' /\ Quiet /\ KeepsLimit
<1> DEFINE e == st[s]
           f == RunFailed(st[s])
<1>0. /\ Own(s) /\ (Clear(s) => Alone(s)) /\ e \in Engine
      /\ 0 \notin TaskIds /\ \A u \in TaskIds : tasks[u] \in Task
  BY Before
<1>t. Types /\ st \in [Sids -> Engine] /\ rec \in [Sids -> Record] /\ tasks \in Seq(Task)
  BY Before DEF Types
<1>s. t \in TaskIds /\ tasks[t].sid = s /\ tasks[t] \in Task
  BY <1>0
<1>1. /\ st' = [st EXCEPT ![s] = f] /\ rec' = rec /\ archived' = archived /\ calls' = calls
      /\ accepted' = accepted /\ crossed' = crossed /\ crashes' = crashes
      /\ restarts' = restarts /\ tasks[t].at = "ready"
  BY <1>0, <1>t, <1>s DEF Attempt, worldVars
<1>2. But(e, f, {"busy", "waiter", "task"}) /\ ~f.busy /\ f.waiter = 0 /\ f.task = 0
  BY <1>0, RunFailedBut
<1> HIDE DEF f
<1>3. /\ f \in Engine /\ st'[s] = f /\ f.child = e.child /\ f.work = e.work
      /\ f.reserved = e.reserved /\ f.making = e.making /\ f.pendingSend = e.pendingSend
      /\ f.sentTask = e.sentTask /\ f.saving = e.saving /\ f.capped = e.capped
      /\ f.known = e.known /\ f.stop = e.stop
  BY <1>0, <1>1, <1>2, <1>t DEF But, Fields
<1>4. OnlyAt(t, "ended")
  BY <1>0, <1>s, <1>t, MovesTask DEF Attempt, Stages, Ends
<1>5. Own(s)'
  BY <1>0, <1>1, <1>2, <1>3, <1>s, <1>4
  DEF Own, Belongs, Pre, OnlyAt
<1>6. Clear(s)' => Single(s)' /\ Waits(s)'
  BY <1>0, <1>1, <1>2, <1>3, <1>s, <1>4
  DEF Own, Belongs, Clear, Alone, Single, Waits, Works, WorksOn, Placing, Live, OnlyAt
<1>7. Clear(s)' => Works(s)'
  BY <1>0, <1>1, <1>2, <1>3, <1>s, <1>4
  DEF Own, Belongs, Clear, Alone, Single, Works, WorksOn, Live, Driven, Pre, OnlyAt
<1>8. Clear(s)' => WorksOn(s)' /\ Heard(s)'
  BY <1>0, <1>1, <1>2, <1>3, <1>s, <1>4
  DEF Own, Belongs, Clear, Alone, Single, Works, WorksOn, Heard, Live, Pre, OnlyAt
<1>9. Local(s)
  BY <1>0, <1>1, <1>2, <1>3, <1>s, <1>4
  DEF Local, Apart, Own, Belongs, Placing, OnlyAt
<1>10. Types'
  BY <1>0, <1>1, <1>2, <1>3, <1>s, <1>4, <1>t
  DEF Types, OnlyAt
<1>11. Holds(s)'
  BY <1>5, <1>6, <1>7, <1>8 DEF Holds, Alone
<1>12. Quiet
  BY <1>0, <1>1, <1>2, <1>3, <1>s, <1>4
  DEF Quiet, Placing, Clear, OnlyAt
<1>13. Steady(s)
  BY <1>0, <1>1, <1>2, <1>3, <1>s, <1>4
  DEF Steady, SteadyPlace, SteadyTasks, Remaining, Place, Commits, AtWork, BusyTrue, MakesRoom, Clear,
      Own, Alone, Single, Waits, Works, Live, Driven, Placing, OnlyAt
<1> QED BY <1>9, <1>10, <1>11, <1>12, <1>13, LocalInv, LocalLimit

LEMMA AttemptGoesInv ==
  ASSUME Inv, NEW s \in Sids, NEW t \in TaskIds, tasks[t].sid = s, Attempt(t), ~(OneTooMany(t) \/ s \in archived)
  PROVE  Inv' /\ Quiet /\ KeepsLimit
<1> DEFINE e == st[s]
           f == [st[s] EXCEPT !.busy = TRUE, !.idle = FALSE, !.capped = FALSE]
           w == [tasks[t] EXCEPT !.attempt = tasks[t].attempt + 1,
                                 !.at = IF tasks[t].attempt > 0 THEN "again" ELSE "spawn",
                                 !.cont = FALSE]
<1>0. /\ Own(s) /\ (Clear(s) => Alone(s)) /\ e \in Engine
      /\ 0 \notin TaskIds /\ \A u \in TaskIds : tasks[u] \in Task
  BY Before
<1>t. Types /\ st \in [Sids -> Engine] /\ rec \in [Sids -> Record] /\ tasks \in Seq(Task)
  BY Before DEF Types
<1>s. t \in TaskIds /\ tasks[t].sid = s /\ tasks[t] \in Task
  BY <1>0
<1>1. /\ st' = [st EXCEPT ![s] = f] /\ rec' = rec /\ archived' = archived /\ calls' = calls
      /\ accepted' = accepted /\ crossed' = crossed /\ crashes' = crashes
      /\ restarts' = restarts /\ tasks[t].at = "ready" /\ ~tasks[t].abort
  BY <1>0, <1>t, <1>s DEF Attempt, worldVars
<1>2. /\ f \in Engine /\ f.busy /\ ~f.capped /\ f.child = e.child /\ f.work = e.work
      /\ f.reserved = e.reserved /\ f.making = e.making /\ f.waiter = e.waiter
      /\ f.task = e.task /\ f.pendingSend = e.pendingSend /\ f.sentTask = e.sentTask
      /\ f.saving = e.saving /\ f.known = e.known /\ f.stop = e.stop
  <2>1. e \in Engine
    BY <1>0
  <2> QED  BY <2>1 DEF Engine
<1> HIDE DEF f
<1>3. st'[s] = f
  BY <1>t, <1>1
<1>4. tasks' = [tasks EXCEPT ![t] = w]
  BY <1>0, <1>t, <1>s DEF Attempt, TaskIds
<1>5. tasks[t].attempt \in Nat /\ tasks[t].attempt + 1 <= RestartLimit + 1
  BY <1>s, LcAssumption DEF OneTooMany, Task
<1>6. w \in Task
  BY <1>s, <1>5, TriedTask DEF Stages
<1>7. /\ w.sid = s /\ w.req = tasks[t].req /\ w.abort = tasks[t].abort
      /\ w.attempt = tasks[t].attempt + 1 /\ ~w.cont /\ w.at \in {"again", "spawn"}
      /\ (w.at # "again" => w.attempt = 1)
  BY <1>s, <1>5 DEF Task
<1> HIDE DEF w
<1>8. /\ TaskIds' = TaskIds /\ tasks' \in Seq(Task) /\ tasks'[t] = w
      /\ \A u \in TaskIds \ {t} : tasks'[u] = tasks[u]
  BY <1>t, <1>4, <1>6 DEF TaskIds
<1>9. /\ \A u \in TaskIds : tasks'[u].sid = tasks[u].sid /\ tasks'[u].req = tasks[u].req
      /\ \A u \in TaskIds : tasks'[u].abort = tasks[u].abort
      /\ \A u \in TaskIds \ {t} : tasks'[u].at = tasks[u].at /\ tasks'[u].cont = tasks[u].cont
      /\ \A u \in TaskIds \ {t} : tasks'[u].attempt = tasks[u].attempt
      /\ tasks'[t].attempt <= RestartLimit + 1 /\ ~tasks'[t].cont
      /\ tasks'[t].at \in {"again", "spawn"}
      /\ (tasks'[t].attempt > 1 => tasks'[t].at = "again")
  BY <1>s, <1>5, <1>7, <1>8
<1>10. Own(s)'
  BY <1>0, <1>1, <1>2, <1>3, <1>s, <1>8, <1>9
  DEF Own, Belongs, Pre
<1>11. Clear(s)' => Single(s)' /\ Waits(s)'
  BY <1>0, <1>1, <1>2, <1>3, <1>s, <1>8, <1>9
  DEF Own, Belongs, Clear, Alone, Single, Waits, Works, WorksOn, Placing, Live
<1>12. Clear(s)' => Works(s)'
  BY <1>0, <1>1, <1>2, <1>3, <1>s, <1>8, <1>9
  DEF Own, Belongs, Clear, Alone, Single, Works, WorksOn, Live, Driven, Pre
<1>13. Clear(s)' => WorksOn(s)' /\ Heard(s)'
  BY <1>0, <1>1, <1>2, <1>3, <1>s, <1>8, <1>9
  DEF Own, Belongs, Clear, Alone, Single, Works, WorksOn, Heard, Live, Pre
<1>14. Local(s)
  BY <1>0, <1>1, <1>2, <1>3, <1>s, <1>8, <1>9
  DEF Local, Apart, Own, Belongs, Placing
<1>15. Types'
  BY <1>0, <1>1, <1>2, <1>3, <1>s, <1>8, <1>9, <1>t
  DEF Types
<1>16. Holds(s)'
  BY <1>10, <1>11, <1>12, <1>13 DEF Holds, Alone
<1>17. Quiet
  BY <1>0, <1>1, <1>2, <1>3, <1>s, <1>8, <1>9
  DEF Quiet, Placing, Clear
<1>18. Steady(s)
  BY <1>0, <1>1, <1>2, <1>3, <1>s, <1>8, <1>9
  DEF Steady, SteadyPlace, SteadyTasks, Remaining, Place, Commits, AtWork, BusyTrue, MakesRoom, Clear,
      Own, Alone, Single, Waits, Works, Live, Driven, Placing
<1> QED BY <1>14, <1>15, <1>16, <1>17, <1>18, LocalInv, LocalLimit

LEMMA ThrowsInv ==
  ASSUME Inv, NEW s \in Sids, NEW t \in TaskIds, tasks[t].sid = s, Throws(t), tasks[t].at \in {"again", "spawn", "boot", "send"},
         UNCHANGED <<rec, archived, calls, accepted, worldVars>>
  PROVE  Inv' /\ Quiet /\ KeepsLimit
<1> DEFINE e == st[s]
<1>0. /\ Own(s) /\ (Clear(s) => Alone(s)) /\ e \in Engine
      /\ 0 \notin TaskIds /\ \A u \in TaskIds : tasks[u] \in Task
  BY Before
<1>t. Types /\ st \in [Sids -> Engine] /\ rec \in [Sids -> Record] /\ tasks \in Seq(Task)
  BY Before DEF Types
<1>s. t \in TaskIds /\ tasks[t].sid = s /\ tasks[t] \in Task
  BY <1>0
<1>1. /\ st' = st /\ rec' = rec /\ archived' = archived /\ calls' = calls
      /\ accepted' = accepted /\ crossed' = crossed /\ crashes' = crashes
      /\ restarts' = restarts /\ tasks[t].at \in {"again", "spawn", "boot", "send"}
      /\ tasks[t].abort
  BY <1>0, <1>t, <1>s DEF Throws, worldVars
<1>2. OnlyAt(t, "aborting")
  BY <1>0, <1>s, <1>t, MovesTask DEF Throws, Stages
<1>3. Own(s)'
  BY <1>0, <1>1, <1>s, <1>2
  DEF Own, Belongs, Pre, OnlyAt
<1>4. Clear(s)' => Single(s)' /\ Waits(s)'
  BY <1>0, <1>1, <1>s, <1>2
  DEF Own, Belongs, Clear, Alone, Single, Waits, Works, WorksOn, Placing, Live, OnlyAt
<1>5. Clear(s)' => Works(s)'
  BY <1>0, <1>1, <1>s, <1>2
  DEF Own, Belongs, Clear, Alone, Single, Works, WorksOn, Live, Driven, Pre, OnlyAt
<1>6. Clear(s)' => WorksOn(s)' /\ Heard(s)'
  BY <1>0, <1>1, <1>s, <1>2
  DEF Own, Belongs, Clear, Alone, Single, Works, WorksOn, Heard, Live, Pre, OnlyAt
<1>7. Local(s)
  BY <1>0, <1>1, <1>s, <1>2
  DEF Local, Apart, Own, Belongs, Placing, OnlyAt
<1>8. Types'
  BY <1>0, <1>1, <1>s, <1>2, <1>t
  DEF Types, OnlyAt
<1>9. Holds(s)'
  BY <1>3, <1>4, <1>5, <1>6 DEF Holds, Alone
<1>10. Quiet
  BY <1>0, <1>1, <1>s, <1>2
  DEF Quiet, Placing, Clear, OnlyAt
<1>11. Steady(s)
  BY <1>0, <1>1, <1>s, <1>2
  DEF Steady, SteadyPlace, SteadyTasks, Remaining, Place, Commits, AtWork, BusyTrue, MakesRoom, Clear,
      Own, Alone, Single, Waits, Works, Live, Driven, Placing, OnlyAt
<1> QED BY <1>7, <1>8, <1>9, <1>10, <1>11, LocalInv, LocalLimit

LEMMA AgainInv ==
  ASSUME Inv, NEW s \in Sids, NEW t \in TaskIds, tasks[t].sid = s, Again(t), ~Throws(t)
  PROVE  Inv' /\ Quiet /\ KeepsLimit
<1> DEFINE e == st[s]
           w == [tasks[t] EXCEPT !.at = "spawn", !.cont = Sent(t)]
<1>0. /\ Own(s) /\ (Clear(s) => Alone(s)) /\ e \in Engine
      /\ 0 \notin TaskIds /\ \A u \in TaskIds : tasks[u] \in Task
  BY Before
<1>t. Types /\ st \in [Sids -> Engine] /\ rec \in [Sids -> Record] /\ tasks \in Seq(Task)
  BY Before DEF Types
<1>s. t \in TaskIds /\ tasks[t].sid = s /\ tasks[t] \in Task
  BY <1>0
<1>1. /\ st' = st /\ rec' = rec /\ archived' = archived /\ calls' = calls
      /\ accepted' = accepted /\ crossed' = crossed /\ crashes' = crashes
      /\ restarts' = restarts /\ tasks[t].at = "again"
  BY <1>0, <1>t, <1>s DEF Again, worldVars
<1>2. tasks' = [tasks EXCEPT ![t] = w]
  BY <1>0, <1>t, <1>s DEF Again, TaskIds
<1>3. Sent(t) \in BOOLEAN
  BY DEF Sent
<1>4. w \in Task
  BY <1>s, <1>3 DEF Task, Stages
<1>5. /\ w.sid = s /\ w.req = tasks[t].req /\ w.abort = tasks[t].abort
      /\ w.attempt = tasks[t].attempt /\ w.cont = Sent(t) /\ w.at = "spawn"
  BY <1>s DEF Task
<1> HIDE DEF w
<1>6. /\ TaskIds' = TaskIds /\ tasks' \in Seq(Task) /\ tasks'[t] = w
      /\ \A u \in TaskIds \ {t} : tasks'[u] = tasks[u]
  BY <1>t, <1>2, <1>4 DEF TaskIds
<1>7. /\ \A u \in TaskIds : tasks'[u].sid = tasks[u].sid /\ tasks'[u].req = tasks[u].req
      /\ \A u \in TaskIds : tasks'[u].abort = tasks[u].abort
      /\ \A u \in TaskIds : tasks'[u].attempt = tasks[u].attempt
      /\ \A u \in TaskIds \ {t} : tasks'[u].at = tasks[u].at /\ tasks'[u].cont = tasks[u].cont
      /\ (tasks'[t].cont <=> st[s].sentTask = t \/ rec[s].sentTask = t)
      /\ tasks'[t].at = "spawn"
  BY <1>s, <1>5, <1>6 DEF Sent
<1>8. Own(s)'
  BY <1>0, <1>1, <1>s, <1>6, <1>7
  DEF Own, Belongs, Pre
<1>9. Clear(s)' => Single(s)' /\ Waits(s)'
  BY <1>0, <1>1, <1>s, <1>6, <1>7
  DEF Own, Belongs, Clear, Alone, Single, Waits, Works, WorksOn, Placing, Live
<1>10. Clear(s)' => Works(s)'
  BY <1>0, <1>1, <1>s, <1>6, <1>7
  DEF Own, Belongs, Clear, Alone, Single, Works, WorksOn, Live, Driven, Pre
<1>11. Clear(s)' => WorksOn(s)' /\ Heard(s)'
  BY <1>0, <1>1, <1>s, <1>6, <1>7
  DEF Own, Belongs, Clear, Alone, Single, Works, WorksOn, Heard, Live, Pre
<1>12. Local(s)
  BY <1>0, <1>1, <1>s, <1>6, <1>7
  DEF Local, Apart, Own, Belongs, Placing
<1>13. Types'
  BY <1>0, <1>1, <1>s, <1>6, <1>7, <1>t
  DEF Types
<1>14. Holds(s)'
  BY <1>8, <1>9, <1>10, <1>11 DEF Holds, Alone
<1>15. Quiet
  BY <1>0, <1>1, <1>s, <1>6, <1>7
  DEF Quiet, Placing, Clear
<1>16. Steady(s)
  BY <1>0, <1>1, <1>s, <1>6, <1>7
  DEF Steady, SteadyPlace, SteadyTasks, Remaining, Place, Commits, AtWork, BusyTrue, MakesRoom, Clear,
      Own, Alone, Single, Waits, Works, Live, Driven, Placing
<1> QED BY <1>12, <1>13, <1>14, <1>15, <1>16, LocalInv, LocalLimit

LEMMA SpawnUpInv ==
  ASSUME Inv, NEW s \in Sids, NEW t \in TaskIds, tasks[t].sid = s, Spawn(t), ~Throws(t), st[s].child = "up"
  PROVE  Inv' /\ Quiet /\ KeepsLimit
<1> DEFINE e == st[s]
<1>0. /\ Own(s) /\ (Clear(s) => Alone(s)) /\ e \in Engine
      /\ 0 \notin TaskIds /\ \A u \in TaskIds : tasks[u] \in Task
  BY Before
<1>t. Types /\ st \in [Sids -> Engine] /\ rec \in [Sids -> Record] /\ tasks \in Seq(Task)
  BY Before DEF Types
<1>s. t \in TaskIds /\ tasks[t].sid = s /\ tasks[t] \in Task
  BY <1>0
<1>1. /\ st' = st /\ rec' = rec /\ archived' = archived /\ calls' = calls
      /\ accepted' = accepted /\ crossed' = crossed /\ crashes' = crashes
      /\ restarts' = restarts /\ tasks[t].at = "spawn"
  BY <1>0, <1>t, <1>s DEF Spawn, worldVars
<1>2. OnlyAt(t, "send")
  BY <1>0, <1>s, <1>t, MovesTask DEF Spawn, Stages
<1>3. Own(s)'
  BY <1>0, <1>1, <1>s, <1>2
  DEF Own, Belongs, Pre, OnlyAt
<1>4. Clear(s)' => Single(s)' /\ Waits(s)'
  BY <1>0, <1>1, <1>s, <1>2
  DEF Own, Belongs, Clear, Alone, Single, Waits, Works, WorksOn, Placing, Live, OnlyAt
<1>5. Clear(s)' => Works(s)'
  BY <1>0, <1>1, <1>s, <1>2
  DEF Own, Belongs, Clear, Alone, Single, Works, WorksOn, Live, Driven, Pre, OnlyAt
<1>6. Clear(s)' => WorksOn(s)' /\ Heard(s)'
  BY <1>0, <1>1, <1>s, <1>2
  DEF Own, Belongs, Clear, Alone, Single, Works, WorksOn, Heard, Live, Pre, OnlyAt
<1>7. Local(s)
  BY <1>0, <1>1, <1>s, <1>2
  DEF Local, Apart, Own, Belongs, Placing, OnlyAt
<1>8. Types'
  BY <1>0, <1>1, <1>s, <1>2, <1>t
  DEF Types, OnlyAt
<1>9. Holds(s)'
  BY <1>3, <1>4, <1>5, <1>6 DEF Holds, Alone
<1>10. Quiet
  BY <1>0, <1>1, <1>s, <1>2
  DEF Quiet, Placing, Clear, OnlyAt
<1>11. Steady(s)
  BY <1>0, <1>1, <1>s, <1>2
  DEF Steady, SteadyPlace, SteadyTasks, Remaining, Place, Commits, AtWork, BusyTrue, MakesRoom, Clear,
      Own, Alone, Single, Waits, Works, Live, Driven, Placing, OnlyAt
<1> QED BY <1>7, <1>8, <1>9, <1>10, <1>11, LocalInv, LocalLimit

LEMMA SpawnInv ==
  ASSUME Inv, NEW s \in Sids, NEW t \in TaskIds, tasks[t].sid = s, Spawn(t), ~Throws(t), st[s].child # "up"
  PROVE  Inv' /\ Quiet /\ KeepsLimit
<1> DEFINE e == st[s]
           f == [st[s] EXCEPT !.child = "up", !.work = 0]
<1>0. /\ Own(s) /\ (Clear(s) => Alone(s)) /\ e \in Engine
      /\ 0 \notin TaskIds /\ \A u \in TaskIds : tasks[u] \in Task
  BY Before
<1>t. Types /\ st \in [Sids -> Engine] /\ rec \in [Sids -> Record] /\ tasks \in Seq(Task)
  BY Before DEF Types
<1>s. t \in TaskIds /\ tasks[t].sid = s /\ tasks[t] \in Task
  BY <1>0
<1>1. /\ st' = [st EXCEPT ![s] = f] /\ rec' = rec /\ archived' = archived /\ calls' = calls
      /\ accepted' = accepted /\ crossed' = crossed /\ crashes' = crashes
      /\ restarts' = restarts /\ tasks[t].at = "spawn"
  BY <1>0, <1>t, <1>s DEF Spawn, worldVars
<1>2. /\ f \in Engine /\ f.child = "up" /\ f.work = 0 /\ f.busy = e.busy
      /\ f.reserved = e.reserved /\ f.making = e.making /\ f.waiter = e.waiter
      /\ f.task = e.task /\ f.pendingSend = e.pendingSend /\ f.sentTask = e.sentTask
      /\ f.saving = e.saving /\ f.capped = e.capped /\ f.known = e.known /\ f.stop = e.stop
  <2>1. e \in Engine
    BY <1>0
  <2> QED  BY <2>1 DEF Engine
<1> HIDE DEF f
<1>3. st'[s] = f
  BY <1>t, <1>1
<1>4. OnlyAt(t, "boot")
  BY <1>0, <1>s, <1>t, MovesTask DEF Spawn, Stages
<1>5. Own(s)'
  BY <1>0, <1>1, <1>2, <1>3, <1>s, <1>4
  DEF Own, Belongs, Pre, OnlyAt
<1>6. Clear(s)' => Single(s)' /\ Waits(s)'
  BY <1>0, <1>1, <1>2, <1>3, <1>s, <1>4
  DEF Own, Belongs, Clear, Alone, Single, Waits, Works, WorksOn, Placing, Live, OnlyAt
<1>7. Clear(s)' => Works(s)'
  BY <1>0, <1>1, <1>2, <1>3, <1>s, <1>4
  DEF Own, Belongs, Clear, Alone, Single, Works, WorksOn, Live, Driven, Pre, OnlyAt
<1>8. Clear(s)' => WorksOn(s)' /\ Heard(s)'
  BY <1>0, <1>1, <1>2, <1>3, <1>s, <1>4
  DEF Own, Belongs, Clear, Alone, Single, Works, WorksOn, Heard, Live, Pre, OnlyAt
<1>9. Local(s)
  BY <1>0, <1>1, <1>2, <1>3, <1>s, <1>4
  DEF Local, Apart, Own, Belongs, Placing, OnlyAt
<1>10. Types'
  BY <1>0, <1>1, <1>2, <1>3, <1>s, <1>4, <1>t
  DEF Types, OnlyAt
<1>11. Holds(s)'
  BY <1>5, <1>6, <1>7, <1>8 DEF Holds, Alone
<1>12. Quiet
  BY <1>0, <1>1, <1>2, <1>3, <1>s, <1>4
  DEF Quiet, Placing, Clear, OnlyAt
<1>13. Steady(s)
  BY <1>0, <1>1, <1>2, <1>3, <1>s, <1>4
  DEF Steady, SteadyPlace, SteadyTasks, Remaining, Place, Commits, AtWork, BusyTrue, MakesRoom, Clear,
      Own, Alone, Single, Waits, Works, Live, Driven, Placing, OnlyAt
<1> QED BY <1>9, <1>10, <1>11, <1>12, <1>13, LocalInv, LocalLimit

LEMMA BootUpInv ==
  ASSUME Inv, NEW s \in Sids, NEW t \in TaskIds, tasks[t].sid = s, Boot(t), Moves(t, "send"), UNCHANGED st
  PROVE  Inv' /\ Quiet /\ KeepsLimit
<1> DEFINE e == st[s]
<1>0. /\ Own(s) /\ (Clear(s) => Alone(s)) /\ e \in Engine
      /\ 0 \notin TaskIds /\ \A u \in TaskIds : tasks[u] \in Task
  BY Before
<1>t. Types /\ st \in [Sids -> Engine] /\ rec \in [Sids -> Record] /\ tasks \in Seq(Task)
  BY Before DEF Types
<1>s. t \in TaskIds /\ tasks[t].sid = s /\ tasks[t] \in Task
  BY <1>0
<1>1. /\ st' = st /\ rec' = rec /\ archived' = archived /\ calls' = calls
      /\ accepted' = accepted /\ crossed' = crossed /\ crashes' = crashes
      /\ restarts' = restarts /\ tasks[t].at = "boot"
  BY <1>0, <1>t, <1>s DEF Boot, worldVars
<1>2. OnlyAt(t, "send")
  BY <1>0, <1>s, <1>t, MovesTask DEF Boot, Stages
<1>3. Own(s)'
  BY <1>0, <1>1, <1>s, <1>2
  DEF Own, Belongs, Pre, OnlyAt
<1>4. Clear(s)' => Single(s)' /\ Waits(s)'
  BY <1>0, <1>1, <1>s, <1>2
  DEF Own, Belongs, Clear, Alone, Single, Waits, Works, WorksOn, Placing, Live, OnlyAt
<1>5. Clear(s)' => Works(s)'
  BY <1>0, <1>1, <1>s, <1>2
  DEF Own, Belongs, Clear, Alone, Single, Works, WorksOn, Live, Driven, Pre, OnlyAt
<1>6. Clear(s)' => WorksOn(s)' /\ Heard(s)'
  BY <1>0, <1>1, <1>s, <1>2
  DEF Own, Belongs, Clear, Alone, Single, Works, WorksOn, Heard, Live, Pre, OnlyAt
<1>7. Local(s)
  BY <1>0, <1>1, <1>s, <1>2
  DEF Local, Apart, Own, Belongs, Placing, OnlyAt
<1>8. Types'
  BY <1>0, <1>1, <1>s, <1>2, <1>t
  DEF Types, OnlyAt
<1>9. Holds(s)'
  BY <1>3, <1>4, <1>5, <1>6 DEF Holds, Alone
<1>10. Quiet
  BY <1>0, <1>1, <1>s, <1>2
  DEF Quiet, Placing, Clear, OnlyAt
<1>11. Steady(s)
  BY <1>0, <1>1, <1>s, <1>2
  DEF Steady, SteadyPlace, SteadyTasks, Remaining, Place, Commits, AtWork, BusyTrue, MakesRoom, Clear,
      Own, Alone, Single, Waits, Works, Live, Driven, Placing, OnlyAt
<1> QED BY <1>7, <1>8, <1>9, <1>10, <1>11, LocalInv, LocalLimit

LEMMA BootFailsInv ==
  ASSUME Inv, NEW s \in Sids, NEW t \in TaskIds, tasks[t].sid = s, Boot(t), Ends(t), st' = [st EXCEPT ![s] = RunFailed(@)]
  PROVE  Inv' /\ Quiet /\ KeepsLimit
<1> DEFINE e == st[s]
           f == RunFailed(st[s])
<1>0. /\ Own(s) /\ (Clear(s) => Alone(s)) /\ e \in Engine
      /\ 0 \notin TaskIds /\ \A u \in TaskIds : tasks[u] \in Task
  BY Before
<1>t. Types /\ st \in [Sids -> Engine] /\ rec \in [Sids -> Record] /\ tasks \in Seq(Task)
  BY Before DEF Types
<1>s. t \in TaskIds /\ tasks[t].sid = s /\ tasks[t] \in Task
  BY <1>0
<1>1. /\ st' = [st EXCEPT ![s] = f] /\ rec' = rec /\ archived' = archived /\ calls' = calls
      /\ accepted' = accepted /\ crossed' = crossed /\ crashes' = crashes
      /\ restarts' = restarts /\ tasks[t].at = "boot"
  BY <1>0, <1>t, <1>s DEF Boot, worldVars
<1>2. But(e, f, {"busy", "waiter", "task"}) /\ ~f.busy /\ f.waiter = 0 /\ f.task = 0
  BY <1>0, RunFailedBut
<1> HIDE DEF f
<1>3. /\ f \in Engine /\ st'[s] = f /\ f.child = e.child /\ f.work = e.work
      /\ f.reserved = e.reserved /\ f.making = e.making /\ f.pendingSend = e.pendingSend
      /\ f.sentTask = e.sentTask /\ f.saving = e.saving /\ f.capped = e.capped
      /\ f.known = e.known /\ f.stop = e.stop
  BY <1>0, <1>1, <1>2, <1>t DEF But, Fields
<1>4. OnlyAt(t, "ended")
  BY <1>0, <1>s, <1>t, MovesTask DEF Boot, Stages, Ends
<1>5. Own(s)'
  BY <1>0, <1>1, <1>2, <1>3, <1>s, <1>4
  DEF Own, Belongs, Pre, OnlyAt
<1>6. Clear(s)' => Single(s)' /\ Waits(s)'
  BY <1>0, <1>1, <1>2, <1>3, <1>s, <1>4
  DEF Own, Belongs, Clear, Alone, Single, Waits, Works, WorksOn, Placing, Live, OnlyAt
<1>7. Clear(s)' => Works(s)'
  BY <1>0, <1>1, <1>2, <1>3, <1>s, <1>4
  DEF Own, Belongs, Clear, Alone, Single, Works, WorksOn, Live, Driven, Pre, OnlyAt
<1>8. Clear(s)' => WorksOn(s)' /\ Heard(s)'
  BY <1>0, <1>1, <1>2, <1>3, <1>s, <1>4
  DEF Own, Belongs, Clear, Alone, Single, Works, WorksOn, Heard, Live, Pre, OnlyAt
<1>9. Local(s)
  BY <1>0, <1>1, <1>2, <1>3, <1>s, <1>4
  DEF Local, Apart, Own, Belongs, Placing, OnlyAt
<1>10. Types'
  BY <1>0, <1>1, <1>2, <1>3, <1>s, <1>4, <1>t
  DEF Types, OnlyAt
<1>11. Holds(s)'
  BY <1>5, <1>6, <1>7, <1>8 DEF Holds, Alone
<1>12. Quiet
  BY <1>0, <1>1, <1>2, <1>3, <1>s, <1>4
  DEF Quiet, Placing, Clear, OnlyAt
<1>13. Steady(s)
  BY <1>0, <1>1, <1>2, <1>3, <1>s, <1>4
  DEF Steady, SteadyPlace, SteadyTasks, Remaining, Place, Commits, AtWork, BusyTrue, MakesRoom, Clear,
      Own, Alone, Single, Waits, Works, Live, Driven, Placing, OnlyAt
<1> QED BY <1>9, <1>10, <1>11, <1>12, <1>13, LocalInv, LocalLimit

LEMMA SendAgainInv ==
  ASSUME Inv, NEW s \in Sids, NEW t \in TaskIds, tasks[t].sid = s, Send(t), ~Throws(t), st[s].child # "up"
  PROVE  Inv' /\ Quiet /\ KeepsLimit
<1> DEFINE e == st[s]
<1>0. /\ Own(s) /\ (Clear(s) => Alone(s)) /\ e \in Engine
      /\ 0 \notin TaskIds /\ \A u \in TaskIds : tasks[u] \in Task
  BY Before
<1>t. Types /\ st \in [Sids -> Engine] /\ rec \in [Sids -> Record] /\ tasks \in Seq(Task)
  BY Before DEF Types
<1>s. t \in TaskIds /\ tasks[t].sid = s /\ tasks[t] \in Task
  BY <1>0
<1>1. /\ st' = st /\ rec' = rec /\ archived' = archived /\ calls' = calls
      /\ accepted' = accepted /\ crossed' = crossed /\ crashes' = crashes
      /\ restarts' = restarts /\ tasks[t].at = "send" /\ ~tasks[t].abort
  BY <1>0, <1>t, <1>s DEF Send, worldVars
<1>2. OnlyAt(t, "ready")
  BY <1>0, <1>s, <1>t, MovesTask DEF Send, Stages
<1>3. Own(s)'
  BY <1>0, <1>1, <1>s, <1>2
  DEF Own, Belongs, Pre, OnlyAt
<1>4. Clear(s)' => Single(s)' /\ Waits(s)'
  BY <1>0, <1>1, <1>s, <1>2
  DEF Own, Belongs, Clear, Alone, Single, Waits, Works, WorksOn, Placing, Live, OnlyAt
<1>5. Clear(s)' => Works(s)'
  BY <1>0, <1>1, <1>s, <1>2
  DEF Own, Belongs, Clear, Alone, Single, Works, WorksOn, Live, Driven, Pre, OnlyAt
<1>6. Clear(s)' => WorksOn(s)' /\ Heard(s)'
  BY <1>0, <1>1, <1>s, <1>2
  DEF Own, Belongs, Clear, Alone, Single, Works, WorksOn, Heard, Live, Pre, OnlyAt
<1>7. Local(s)
  BY <1>0, <1>1, <1>s, <1>2
  DEF Local, Apart, Own, Belongs, Placing, OnlyAt
<1>8. Types'
  BY <1>0, <1>1, <1>s, <1>2, <1>t
  DEF Types, OnlyAt
<1>9. Holds(s)'
  BY <1>3, <1>4, <1>5, <1>6 DEF Holds, Alone
<1>10. Quiet
  BY <1>0, <1>1, <1>s, <1>2
  DEF Quiet, Placing, Clear, OnlyAt
<1>11. Steady(s)
  BY <1>0, <1>1, <1>s, <1>2
  DEF Steady, SteadyPlace, SteadyTasks, Remaining, Place, Commits, AtWork, BusyTrue, MakesRoom, Clear,
      Own, Alone, Single, Waits, Works, Live, Driven, Placing, OnlyAt
<1> QED BY <1>7, <1>8, <1>9, <1>10, <1>11, LocalInv, LocalLimit

LEMMA SendInv ==
  ASSUME Inv, NEW s \in Sids, NEW t \in TaskIds, tasks[t].sid = s, Send(t), ~Throws(t), st[s].child = "up"
  PROVE  Inv' /\ Quiet /\ KeepsLimit
<1> DEFINE e == st[s]
           f == [st[s] EXCEPT !.waiter = t, !.pendingSend = t, !.work = IF @ = 0 THEN t ELSE @]
<1>0. /\ Own(s) /\ (Clear(s) => Alone(s)) /\ e \in Engine
      /\ 0 \notin TaskIds /\ \A u \in TaskIds : tasks[u] \in Task
  BY Before
<1>t. Types /\ st \in [Sids -> Engine] /\ rec \in [Sids -> Record] /\ tasks \in Seq(Task)
  BY Before DEF Types
<1>n. t \in Nat
  BY DEF TaskIds
<1>s. t \in TaskIds /\ tasks[t].sid = s /\ tasks[t] \in Task
  BY <1>0
<1>1. /\ st' = [st EXCEPT ![s] = f] /\ rec' = rec /\ archived' = archived /\ calls' = calls
      /\ accepted' = accepted /\ crossed' = crossed /\ crashes' = crashes
      /\ restarts' = restarts /\ tasks[t].at = "send" /\ e.child = "up"
  BY <1>0, <1>t, <1>s DEF Send, worldVars
<1>2. /\ f \in Engine /\ f.waiter = t /\ f.pendingSend = t
      /\ f.work = (IF e.work = 0 THEN t ELSE e.work) /\ f.child = e.child /\ f.busy = e.busy
      /\ f.reserved = e.reserved /\ f.making = e.making /\ f.task = e.task
      /\ f.sentTask = e.sentTask /\ f.saving = e.saving /\ f.capped = e.capped
      /\ f.known = e.known /\ f.stop = e.stop
  <2>1. e \in Engine
    BY <1>0
  <2> QED  BY <2>1, <1>n DEF Engine
<1> HIDE DEF f
<1>3. st'[s] = f
  BY <1>t, <1>1
<1>4. OnlyAt(t, "driving")
  BY <1>0, <1>s, <1>t, MovesTask DEF Send, Stages
<1>5. Own(s)'
  BY <1>0, <1>1, <1>2, <1>3, <1>s, <1>4
  DEF Own, Belongs, Pre, OnlyAt
<1>6. Clear(s)' => Single(s)' /\ Waits(s)'
  BY <1>0, <1>1, <1>2, <1>3, <1>s, <1>4
  DEF Own, Belongs, Clear, Alone, Single, Waits, Works, WorksOn, Placing, Live, OnlyAt
<1>7. Clear(s)' => Works(s)'
  BY <1>0, <1>1, <1>2, <1>3, <1>s, <1>4
  DEF Own, Belongs, Clear, Alone, Single, Works, WorksOn, Live, Driven, Pre, OnlyAt
<1>8. Clear(s)' => WorksOn(s)' /\ Heard(s)'
  BY <1>0, <1>1, <1>2, <1>3, <1>s, <1>4
  DEF Own, Belongs, Clear, Alone, Single, Works, WorksOn, Heard, Live, Pre, OnlyAt
<1>9. Local(s)
  BY <1>0, <1>1, <1>2, <1>3, <1>s, <1>4
  DEF Local, Apart, Own, Belongs, Placing, OnlyAt
<1>10. Types'
  BY <1>0, <1>1, <1>2, <1>3, <1>s, <1>4, <1>t
  DEF Types, OnlyAt
<1>11. Holds(s)'
  BY <1>5, <1>6, <1>7, <1>8 DEF Holds, Alone
<1>12. Quiet
  BY <1>0, <1>1, <1>2, <1>3, <1>s, <1>4
  DEF Quiet, Placing, Clear, OnlyAt
<1>13. Steady(s)
  BY <1>0, <1>1, <1>2, <1>3, <1>s, <1>4
  DEF Steady, SteadyPlace, SteadyTasks, Remaining, Place, Commits, AtWork, BusyTrue, MakesRoom, Clear,
      Own, Alone, Single, Waits, Works, Live, Driven, Placing, OnlyAt
<1> QED BY <1>9, <1>10, <1>11, <1>12, <1>13, LocalInv, LocalLimit

LEMMA ThrowsDrivingInv ==
  ASSUME Inv, NEW s \in Sids, NEW t \in TaskIds, tasks[t].sid = s, ThrowsDriving(t)
  PROVE  Inv' /\ Quiet /\ KeepsLimit
<1> DEFINE e == st[s]
           f == [st[s] EXCEPT !.waiter = IF st[s].waiter = t THEN 0 ELSE st[s].waiter]
<1>0. /\ Own(s) /\ (Clear(s) => Alone(s)) /\ e \in Engine
      /\ 0 \notin TaskIds /\ \A u \in TaskIds : tasks[u] \in Task
  BY Before
<1>t. Types /\ st \in [Sids -> Engine] /\ rec \in [Sids -> Record] /\ tasks \in Seq(Task)
  BY Before DEF Types
<1>s. t \in TaskIds /\ tasks[t].sid = s /\ tasks[t] \in Task
  BY <1>0
<1>1. /\ st' = [st EXCEPT ![s] = f] /\ rec' = rec /\ archived' = archived /\ calls' = calls
      /\ accepted' = accepted /\ crossed' = crossed /\ crashes' = crashes
      /\ restarts' = restarts /\ tasks[t].at = "driving" /\ tasks[t].abort
  BY <1>0, <1>t, <1>s DEF ThrowsDriving, worldVars
<1>2. /\ f \in Engine /\ f.waiter = (IF e.waiter = t THEN 0 ELSE e.waiter) /\ f.child = e.child
      /\ f.work = e.work /\ f.busy = e.busy /\ f.reserved = e.reserved /\ f.making = e.making
      /\ f.task = e.task /\ f.pendingSend = e.pendingSend /\ f.sentTask = e.sentTask
      /\ f.saving = e.saving /\ f.capped = e.capped /\ f.known = e.known /\ f.stop = e.stop
  <2>1. e \in Engine
    BY <1>0
  <2> QED  BY <2>1 DEF Engine
<1> HIDE DEF f
<1>3. st'[s] = f
  BY <1>t, <1>1
<1>4. OnlyAt(t, "aborting")
  BY <1>0, <1>s, <1>t, MovesTask DEF ThrowsDriving, Stages
<1>5. Own(s)'
  BY <1>0, <1>1, <1>2, <1>3, <1>s, <1>4
  DEF Own, Belongs, Pre, OnlyAt
<1>6. Clear(s)' => Single(s)' /\ Waits(s)'
  BY <1>0, <1>1, <1>2, <1>3, <1>s, <1>4
  DEF Own, Belongs, Clear, Alone, Single, Waits, Works, WorksOn, Placing, Live, OnlyAt
<1>7. Clear(s)' => Works(s)'
  BY <1>0, <1>1, <1>2, <1>3, <1>s, <1>4
  DEF Own, Belongs, Clear, Alone, Single, Works, WorksOn, Live, Driven, Pre, OnlyAt
<1>8. Clear(s)' => WorksOn(s)' /\ Heard(s)'
  BY <1>0, <1>1, <1>2, <1>3, <1>s, <1>4
  DEF Own, Belongs, Clear, Alone, Single, Works, WorksOn, Heard, Live, Pre, OnlyAt
<1>9. Local(s)
  BY <1>0, <1>1, <1>2, <1>3, <1>s, <1>4
  DEF Local, Apart, Own, Belongs, Placing, OnlyAt
<1>10. Types'
  BY <1>0, <1>1, <1>2, <1>3, <1>s, <1>4, <1>t
  DEF Types, OnlyAt
<1>11. Holds(s)'
  BY <1>5, <1>6, <1>7, <1>8 DEF Holds, Alone
<1>12. Quiet
  BY <1>0, <1>1, <1>2, <1>3, <1>s, <1>4
  DEF Quiet, Placing, Clear, OnlyAt
<1>13. Steady(s)
  BY <1>0, <1>1, <1>2, <1>3, <1>s, <1>4
  DEF Steady, SteadyPlace, SteadyTasks, Remaining, Place, Commits, AtWork, BusyTrue, MakesRoom, Clear,
      Own, Alone, Single, Waits, Works, Live, Driven, Placing, OnlyAt
<1> QED BY <1>9, <1>10, <1>11, <1>12, <1>13, LocalInv, LocalLimit

LEMMA KillsInv ==
  ASSUME Inv, NEW s \in Sids, NEW t \in TaskIds, tasks[t].sid = s, AbortHandler(t), st[s].child = "up"
  PROVE  Inv' /\ Quiet /\ KeepsLimit
<1> DEFINE e == st[s]
           f == Aborted(st[s])
<1>0. /\ Own(s) /\ (Clear(s) => Alone(s)) /\ e \in Engine
      /\ 0 \notin TaskIds /\ \A u \in TaskIds : tasks[u] \in Task
  BY Before
<1>t. Types /\ st \in [Sids -> Engine] /\ rec \in [Sids -> Record] /\ tasks \in Seq(Task)
  BY Before DEF Types
<1>s. t \in TaskIds /\ tasks[t].sid = s /\ tasks[t] \in Task
  BY <1>0
<1>1. /\ st' = [st EXCEPT ![s] = f] /\ rec' = rec /\ archived' = archived /\ calls' = calls
      /\ accepted' = accepted /\ crossed' = crossed /\ crashes' = crashes
      /\ restarts' = restarts /\ tasks[t].at # "driving"
      /\ tasks[t].at \in {"aborting", "ready"} /\ (tasks[t].at = "ready" => tasks[t].abort)
  BY <1>0, <1>t, <1>s DEF AbortHandler, worldVars
<1>2. /\ But(e, f, {"child", "busy", "waiter", "task", "capped"})
      /\ f.child = (IF e.child = "up" THEN "dying" ELSE e.child)
      /\ f.waiter = (IF e.child = "up" THEN e.waiter ELSE 0) /\ ~f.busy /\ f.task = 0
      /\ ~f.capped
  BY <1>0, AbortedBut
<1> HIDE DEF f
<1>3. /\ f \in Engine /\ st'[s] = f /\ f.work = e.work /\ f.reserved = e.reserved
      /\ f.making = e.making /\ f.pendingSend = e.pendingSend /\ f.sentTask = e.sentTask
      /\ f.saving = e.saving /\ f.known = e.known /\ f.stop = e.stop
  BY <1>0, <1>1, <1>2, <1>t DEF But, Fields
<1>4. OnlyAt(t, "killing")
  BY <1>0, <1>s, <1>t, MovesTask DEF AbortHandler, Stages
<1>5. Own(s)'
  BY <1>0, <1>1, <1>2, <1>3, <1>s, <1>4
  DEF Own, Belongs, Pre, OnlyAt
<1>6. Clear(s)' => Single(s)' /\ Waits(s)'
  BY <1>0, <1>1, <1>2, <1>3, <1>s, <1>4
  DEF Own, Belongs, Clear, Alone, Single, Waits, Works, WorksOn, Placing, Live, OnlyAt
<1>7. Clear(s)' => Works(s)'
  BY <1>0, <1>1, <1>2, <1>3, <1>s, <1>4
  DEF Own, Belongs, Clear, Alone, Single, Works, WorksOn, Live, Driven, Pre, OnlyAt
<1>8. Clear(s)' => WorksOn(s)' /\ Heard(s)'
  BY <1>0, <1>1, <1>2, <1>3, <1>s, <1>4
  DEF Own, Belongs, Clear, Alone, Single, Works, WorksOn, Heard, Live, Pre, OnlyAt
<1>9. Local(s)
  BY <1>0, <1>1, <1>2, <1>3, <1>s, <1>4
  DEF Local, Apart, Own, Belongs, Placing, OnlyAt
<1>10. Types'
  BY <1>0, <1>1, <1>2, <1>3, <1>s, <1>4, <1>t
  DEF Types, OnlyAt
<1>11. Holds(s)'
  BY <1>5, <1>6, <1>7, <1>8 DEF Holds, Alone
<1>12. Quiet
  BY <1>0, <1>1, <1>2, <1>3, <1>s, <1>4
  DEF Quiet, Placing, Clear, OnlyAt
<1>13. Steady(s)
  BY <1>0, <1>1, <1>2, <1>3, <1>s, <1>4
  DEF Steady, SteadyPlace, SteadyTasks, Remaining, Place, Commits, AtWork, BusyTrue, MakesRoom, Clear,
      Own, Alone, Single, Waits, Works, Live, Driven, Placing, OnlyAt
<1> QED BY <1>9, <1>10, <1>11, <1>12, <1>13, LocalInv, LocalLimit

LEMMA AbortEndsInv ==
  ASSUME Inv, NEW s \in Sids, NEW t \in TaskIds, tasks[t].sid = s, AbortHandler(t), st[s].child # "up"
  PROVE  Inv' /\ Quiet /\ KeepsLimit
<1> DEFINE e == st[s]
           f == Aborted(st[s])
<1>0. /\ Own(s) /\ (Clear(s) => Alone(s)) /\ e \in Engine
      /\ 0 \notin TaskIds /\ \A u \in TaskIds : tasks[u] \in Task
  BY Before
<1>t. Types /\ st \in [Sids -> Engine] /\ rec \in [Sids -> Record] /\ tasks \in Seq(Task)
  BY Before DEF Types
<1>s. t \in TaskIds /\ tasks[t].sid = s /\ tasks[t] \in Task
  BY <1>0
<1>1. /\ st' = [st EXCEPT ![s] = f] /\ rec' = rec /\ archived' = archived /\ calls' = calls
      /\ accepted' = accepted /\ crossed' = crossed /\ crashes' = crashes
      /\ restarts' = restarts /\ tasks[t].at \in {"aborting", "ready"}
  BY <1>0, <1>t, <1>s DEF AbortHandler, worldVars
<1>2. /\ But(e, f, {"child", "busy", "waiter", "task", "capped"})
      /\ f.child = (IF e.child = "up" THEN "dying" ELSE e.child)
      /\ f.waiter = (IF e.child = "up" THEN e.waiter ELSE 0) /\ ~f.busy /\ f.task = 0
      /\ ~f.capped
  BY <1>0, AbortedBut
<1> HIDE DEF f
<1>3. /\ f \in Engine /\ st'[s] = f /\ f.work = e.work /\ f.reserved = e.reserved
      /\ f.making = e.making /\ f.pendingSend = e.pendingSend /\ f.sentTask = e.sentTask
      /\ f.saving = e.saving /\ f.known = e.known /\ f.stop = e.stop
  BY <1>0, <1>1, <1>2, <1>t DEF But, Fields
<1>4. OnlyAt(t, "ended")
  BY <1>0, <1>s, <1>t, MovesTask DEF AbortHandler, Stages, Ends
<1>5. Own(s)'
  BY <1>0, <1>1, <1>2, <1>3, <1>s, <1>4
  DEF Own, Belongs, Pre, OnlyAt
<1>6. Clear(s)' => Single(s)' /\ Waits(s)'
  BY <1>0, <1>1, <1>2, <1>3, <1>s, <1>4
  DEF Own, Belongs, Clear, Alone, Single, Waits, Works, WorksOn, Placing, Live, OnlyAt
<1>7. Clear(s)' => Works(s)'
  BY <1>0, <1>1, <1>2, <1>3, <1>s, <1>4
  DEF Own, Belongs, Clear, Alone, Single, Works, WorksOn, Live, Driven, Pre, OnlyAt
<1>8. Clear(s)' => WorksOn(s)' /\ Heard(s)'
  BY <1>0, <1>1, <1>2, <1>3, <1>s, <1>4
  DEF Own, Belongs, Clear, Alone, Single, Works, WorksOn, Heard, Live, Pre, OnlyAt
<1>9. Local(s)
  BY <1>0, <1>1, <1>2, <1>3, <1>s, <1>4
  DEF Local, Apart, Own, Belongs, Placing, OnlyAt
<1>10. Types'
  BY <1>0, <1>1, <1>2, <1>3, <1>s, <1>4, <1>t
  DEF Types, OnlyAt
<1>11. Holds(s)'
  BY <1>5, <1>6, <1>7, <1>8 DEF Holds, Alone
<1>12. Quiet
  BY <1>0, <1>1, <1>2, <1>3, <1>s, <1>4
  DEF Quiet, Placing, Clear, OnlyAt
<1>13. Steady(s)
  BY <1>0, <1>1, <1>2, <1>3, <1>s, <1>4
  DEF Steady, SteadyPlace, SteadyTasks, Remaining, Place, Commits, AtWork, BusyTrue, MakesRoom, Clear,
      Own, Alone, Single, Waits, Works, Live, Driven, Placing, OnlyAt
<1> QED BY <1>9, <1>10, <1>11, <1>12, <1>13, LocalInv, LocalLimit

LEMMA TerminalInv ==
  ASSUME Inv, NEW s \in Sids, NEW t \in TaskIds, tasks[t].sid = s, Terminal(t)
  PROVE  Inv' /\ Quiet /\ KeepsLimit
<1> DEFINE e == st[s]
<1>0. /\ Own(s) /\ (Clear(s) => Alone(s)) /\ e \in Engine
      /\ 0 \notin TaskIds /\ \A u \in TaskIds : tasks[u] \in Task
  BY Before
<1>t. Types /\ st \in [Sids -> Engine] /\ rec \in [Sids -> Record] /\ tasks \in Seq(Task)
  BY Before DEF Types
<1>s. t \in TaskIds /\ tasks[t].sid = s /\ tasks[t] \in Task
  BY <1>0
<1>1. /\ st' = st /\ rec' = rec /\ archived' = archived /\ calls' = calls
      /\ accepted' = accepted /\ crossed' = crossed /\ crashes' = crashes
      /\ restarts' = restarts /\ tasks[t].at = "ended"
  BY <1>0, <1>t, <1>s DEF Terminal, worldVars
<1>2. OnlyAt(t, "over")
  BY <1>0, <1>s, <1>t, MovesTask DEF Terminal, Stages
<1>3. Own(s)'
  BY <1>0, <1>1, <1>s, <1>2
  DEF Own, Belongs, Pre, OnlyAt
<1>4. Clear(s)' => Single(s)' /\ Waits(s)'
  BY <1>0, <1>1, <1>s, <1>2
  DEF Own, Belongs, Clear, Alone, Single, Waits, Works, WorksOn, Placing, Live, OnlyAt
<1>5. Clear(s)' => Works(s)'
  BY <1>0, <1>1, <1>s, <1>2
  DEF Own, Belongs, Clear, Alone, Single, Works, WorksOn, Live, Driven, Pre, OnlyAt
<1>6. Clear(s)' => WorksOn(s)' /\ Heard(s)'
  BY <1>0, <1>1, <1>s, <1>2
  DEF Own, Belongs, Clear, Alone, Single, Works, WorksOn, Heard, Live, Pre, OnlyAt
<1>7. Local(s)
  BY <1>0, <1>1, <1>s, <1>2
  DEF Local, Apart, Own, Belongs, Placing, OnlyAt
<1>8. Types'
  BY <1>0, <1>1, <1>s, <1>2, <1>t
  DEF Types, OnlyAt
<1>9. Holds(s)'
  BY <1>3, <1>4, <1>5, <1>6 DEF Holds, Alone
<1>10. Quiet
  BY <1>0, <1>1, <1>s, <1>2
  DEF Quiet, Placing, Clear, OnlyAt
<1>11. Steady(s)
  BY <1>0, <1>1, <1>s, <1>2
  DEF Steady, SteadyPlace, SteadyTasks, Remaining, Place, Commits, AtWork, BusyTrue, MakesRoom, Clear,
      Own, Alone, Single, Waits, Works, Live, Driven, Placing, OnlyAt
<1> QED BY <1>7, <1>8, <1>9, <1>10, <1>11, LocalInv, LocalLimit

-----------------------------------------------------------------------------
(* Stops and interrupts.                                                    *)
LEMMA CrossesBut ==
  ASSUME crossed \in [Sids -> Nat], NEW s \in Sids, NEW P, Crosses(s, P)
  PROVE  /\ crossed' \in [Sids -> Nat] /\ \A o \in Sids \ {s} : crossed'[o] = crossed[o]
         /\ Clear(s)' => Clear(s) /\ ~Meets(s, P)
BY DEF Crosses, Clear

LEMMA StopInv ==
  ASSUME Inv, NEW s \in Sids, Stop(s)
  PROVE  Inv' /\ Quiet /\ KeepsLimit
<1> DEFINE e == st[s]
           f == [st[s] EXCEPT !.stop = "abort"]
<1>0. /\ Own(s) /\ (Clear(s) => Alone(s)) /\ e \in Engine
      /\ 0 \notin TaskIds /\ \A t \in TaskIds : tasks[t] \in Task
  BY Before
<1>t. Types /\ st \in [Sids -> Engine] /\ rec \in [Sids -> Record] /\ tasks \in Seq(Task)
  BY Before DEF Types
<1>1. /\ st' = [st EXCEPT ![s] = f] /\ rec' = rec /\ archived' = archived /\ calls' = calls
      /\ accepted' = accepted /\ crashes' = crashes /\ restarts' = restarts
  BY <1>0, <1>t DEF Stop, worldVars
<1>2. /\ f \in Engine /\ f.stop = "abort" /\ f.child = e.child /\ f.work = e.work
      /\ f.busy = e.busy /\ f.reserved = e.reserved /\ f.making = e.making
      /\ f.waiter = e.waiter /\ f.task = e.task /\ f.pendingSend = e.pendingSend
      /\ f.sentTask = e.sentTask /\ f.saving = e.saving /\ f.capped = e.capped
      /\ f.known = e.known
  <2>1. e \in Engine
    BY <1>0
  <2> QED  BY <2>1 DEF Engine
<1> HIDE DEF f
<1>3. st'[s] = f
  BY <1>t, <1>1
<1>4. /\ TaskIds' = TaskIds /\ tasks' \in Seq(Task)
      /\ \A u \in TaskIds : tasks'[u].sid = tasks[u].sid /\ tasks'[u].req = tasks[u].req
      /\ \A u \in TaskIds : tasks'[u].attempt = tasks[u].attempt /\ tasks'[u].cont = tasks[u].cont
      /\ \A u \in TaskIds : tasks'[u].at = tasks[u].at
      /\ \A u \in TaskIds : (tasks'[u].abort <=> tasks[u].abort \/ u \in Aims(s))
      /\ \A u \in TaskIds : (u \notin Aims(s) => tasks'[u].abort = tasks[u].abort)
  BY <1>t, AbortsTasks DEF Stop
<1>5. \A u \in Aims(s) : u \in TaskIds /\ tasks[u].sid = s
  BY DEF Aims, LiveOf
<1>6. \A u \in TaskIds : tasks[u].sid # s => tasks'[u].abort = tasks[u].abort
  BY <1>4, <1>5
<1>7. (Clear(s) => \A u \in TaskIds : tasks[u].sid = s /\ Live(u) => u \in Aims(s))
  BY <1>0 DEF Alone, Single, Works, Aims, LiveOf, Live, TaskIds
<1>8. /\ crossed' \in [Sids -> Nat] /\ \A o \in Sids \ {s} : crossed'[o] = crossed[o]
      /\ (Clear(s)' => Clear(s) /\ \A c \in Calls : ~Placing(c, s))
  <2>1. CASE s \in archived
    BY <2>1, <1>0, Before DEF Stop, Types, Clear, Alone, Waits
  <2>2. CASE s \notin archived
    BY <2>2, Before, CrossesBut DEF Stop, Types, Meets, Placing
  <2> QED BY <2>1, <2>2
<1>9. Own(s)'
  BY SMTT(30), <1>0, <1>1, <1>2, <1>3, <1>4, <1>5, <1>6, <1>7, <1>8
  DEF Own, Belongs, Pre
<1>10. Clear(s)' => Single(s)' /\ Waits(s)'
  BY <1>0, <1>1, <1>2, <1>3, <1>4, <1>5, <1>6, <1>7, <1>8
  DEF Own, Belongs, Clear, Alone, Single, Waits, Works, WorksOn, Placing, Live
<1>11. Clear(s)' => Works(s)'
  BY <1>0, <1>1, <1>2, <1>3, <1>4, <1>5, <1>6, <1>7, <1>8
  DEF Own, Belongs, Clear, Alone, Single, Works, WorksOn, Live, Driven, Pre
<1>12. Clear(s)' => WorksOn(s)' /\ Heard(s)'
  BY SMTT(30), <1>0, <1>1, <1>2, <1>3, <1>4, <1>5, <1>6, <1>7, <1>8
  DEF Own, Belongs, Clear, Alone, Single, Works, WorksOn, Heard, Live, Pre
<1>13. Local(s)
  BY <1>0, <1>1, <1>2, <1>3, <1>4, <1>5, <1>6, <1>7, <1>8
  DEF Local, Apart, Own, Belongs, Placing
<1>14. Types'
  BY <1>0, <1>1, <1>2, <1>3, <1>4, <1>5, <1>6, <1>7, <1>8, <1>t
  DEF Types
<1>15. Holds(s)'
  BY <1>9, <1>10, <1>11, <1>12 DEF Holds, Alone
<1>16. Quiet
  BY <1>0, <1>1, <1>2, <1>3, <1>4, <1>5, <1>6, <1>7, <1>8
  DEF Quiet, Placing, Clear
<1>17. Steady(s)
  BY SMTT(30), <1>0, <1>1, <1>2, <1>3, <1>4, <1>5, <1>6, <1>7, <1>8
  DEF Steady, SteadyPlace, SteadyTasks, Remaining, Place, Commits, AtWork, BusyTrue, MakesRoom, Clear,
      Own, Alone, Single, Waits, Works, Live, Driven, Placing
<1> QED BY <1>13, <1>14, <1>15, <1>16, <1>17, LocalInv, LocalLimit

LEMMA InterruptInv ==
  ASSUME Inv, NEW s \in Sids, Interrupt(s)
  PROVE  Inv' /\ Quiet /\ KeepsLimit
<1> DEFINE e == st[s]
<1>0. /\ Own(s) /\ (Clear(s) => Alone(s)) /\ e \in Engine
      /\ 0 \notin TaskIds /\ \A t \in TaskIds : tasks[t] \in Task
  BY Before
<1>t. Types /\ st \in [Sids -> Engine] /\ rec \in [Sids -> Record] /\ tasks \in Seq(Task)
  BY Before DEF Types
<1>1. /\ st' = st /\ rec' = rec /\ archived' = archived /\ calls' = calls
      /\ accepted' = accepted /\ crossed' = crossed /\ crashes' = crashes
      /\ restarts' = restarts
  BY <1>0, <1>t DEF Interrupt, worldVars
<1>2. /\ TaskIds' = TaskIds /\ tasks' \in Seq(Task)
      /\ \A u \in TaskIds : tasks'[u].sid = tasks[u].sid /\ tasks'[u].req = tasks[u].req
      /\ \A u \in TaskIds : tasks'[u].attempt = tasks[u].attempt /\ tasks'[u].cont = tasks[u].cont
      /\ \A u \in TaskIds : tasks'[u].at = tasks[u].at
      /\ \A u \in TaskIds : (tasks'[u].abort <=> tasks[u].abort \/ u \in LiveOf(s) \cap {st[s].task})
      /\ \A u \in TaskIds : (u \notin LiveOf(s) \cap {st[s].task} => tasks'[u].abort = tasks[u].abort)
  BY <1>t, AbortsTasks DEF Interrupt
<1>3. \A u \in LiveOf(s) : tasks[u].sid = s
  BY DEF LiveOf
<1>4. \A u \in TaskIds : tasks[u].sid # s => tasks'[u].abort = tasks[u].abort
  BY <1>2, <1>3
<1>5. Own(s)'
  BY <1>0, <1>1, <1>2, <1>3, <1>4
  DEF Own, Belongs, Pre
<1>6. Clear(s)' => Single(s)' /\ Waits(s)'
  BY <1>0, <1>1, <1>2, <1>3, <1>4
  DEF Own, Belongs, Clear, Alone, Single, Waits, Works, WorksOn, Placing, Live
<1>7. Clear(s)' => Works(s)'
  BY <1>0, <1>1, <1>2, <1>3, <1>4
  DEF Own, Belongs, Clear, Alone, Single, Works, WorksOn, Live, Driven, Pre
<1>8. Clear(s)' => WorksOn(s)' /\ Heard(s)'
  BY <1>0, <1>1, <1>2, <1>3, <1>4
  DEF Own, Belongs, Clear, Alone, Single, Works, WorksOn, Heard, Live, Pre
<1>9. Local(s)
  BY <1>0, <1>1, <1>2, <1>3, <1>4
  DEF Local, Apart, Own, Belongs, Placing
<1>10. Types'
  BY <1>0, <1>1, <1>2, <1>3, <1>4, <1>t
  DEF Types
<1>11. Holds(s)'
  BY <1>5, <1>6, <1>7, <1>8 DEF Holds, Alone
<1>12. Quiet
  BY <1>0, <1>1, <1>2, <1>3, <1>4
  DEF Quiet, Placing, Clear
<1>13. Steady(s)
  BY <1>0, <1>1, <1>2, <1>3, <1>4
  DEF Steady, SteadyPlace, SteadyTasks, Remaining, Place, Commits, AtWork, BusyTrue, MakesRoom, Clear,
      Own, Alone, Single, Waits, Works, Live, Driven, Placing
<1> QED BY <1>9, <1>10, <1>11, <1>12, <1>13, LocalInv, LocalLimit

LEMMA StopChildKillsInv ==
  ASSUME Inv, NEW s \in Sids, StopChild(s), st[s].child # "none"
  PROVE  Inv' /\ Quiet /\ KeepsLimit
<1> DEFINE e == st[s]
           f == [Aborted(st[s]) EXCEPT !.stop = "kill"]
<1>0. /\ Own(s) /\ (Clear(s) => Alone(s)) /\ e \in Engine
      /\ 0 \notin TaskIds /\ \A t \in TaskIds : tasks[t] \in Task
  BY Before
<1>t. Types /\ st \in [Sids -> Engine] /\ rec \in [Sids -> Record] /\ tasks \in Seq(Task)
  BY Before DEF Types
<1>1. /\ st' = [st EXCEPT ![s] = f] /\ rec' = rec /\ archived' = archived /\ tasks' = tasks
      /\ calls' = calls /\ accepted' = accepted /\ crossed' = crossed /\ crashes' = crashes
      /\ restarts' = restarts /\ e.stop = "abort" /\ e.child \in {"up", "dying"}
  BY <1>0, <1>t DEF StopChild, worldVars, Engine
<1>2. /\ f \in Engine /\ f.child = "dying"
      /\ f.waiter = (IF e.child = "up" THEN e.waiter ELSE 0) /\ ~f.busy /\ f.task = 0
      /\ ~f.capped /\ f.stop = "kill" /\ f.work = e.work /\ f.reserved = e.reserved
      /\ f.making = e.making /\ f.pendingSend = e.pendingSend /\ f.sentTask = e.sentTask
      /\ f.saving = e.saving /\ f.known = e.known
  <2>1. e \in Engine
    BY <1>0
  <2> QED  BY <2>1, <1>1 DEF Engine, Aborted, Stopped
<1> HIDE DEF f
<1>3. st'[s] = f
  BY <1>t, <1>1
<1>4. TaskIds' = TaskIds /\ tasks' = tasks
  BY <1>1 DEF TaskIds
<1>5. (Clear(s) => \A t \in TaskIds : tasks[t].sid = s => ~Live(t))
  BY <1>0 DEF StopChild, Alone, Works, Live
<1>6. Own(s)'
  BY <1>0, <1>1, <1>2, <1>3, <1>4, <1>5
  DEF Own, Belongs, Pre
<1>7. Clear(s)' => Single(s)' /\ Waits(s)'
  BY <1>0, <1>1, <1>2, <1>3, <1>4, <1>5
  DEF Own, Belongs, Clear, Alone, Single, Waits, Works, WorksOn, Placing, Live
<1>8. Clear(s)' => Works(s)'
  BY <1>0, <1>1, <1>2, <1>3, <1>4, <1>5
  DEF Own, Belongs, Clear, Alone, Single, Works, WorksOn, Live, Driven, Pre
<1>9. Clear(s)' => WorksOn(s)' /\ Heard(s)'
  BY <1>0, <1>1, <1>2, <1>3, <1>4, <1>5
  DEF Own, Belongs, Clear, Alone, Single, Works, WorksOn, Heard, Live, Pre
<1>10. Local(s)
  BY <1>0, <1>1, <1>2, <1>3, <1>4, <1>5
  DEF Local, Apart, Own, Belongs, Placing
<1>11. Types'
  BY <1>0, <1>1, <1>2, <1>3, <1>4, <1>5, <1>t
  DEF Types
<1>12. Holds(s)'
  BY <1>6, <1>7, <1>8, <1>9 DEF Holds, Alone
<1>13. Quiet
  BY <1>0, <1>1, <1>2, <1>3, <1>4, <1>5
  DEF Quiet, Placing, Clear
<1>14. Steady(s)
  BY <1>0, <1>1, <1>2, <1>3, <1>4, <1>5
  DEF Steady, SteadyPlace, SteadyTasks, Remaining, Place, Commits, AtWork, BusyTrue, MakesRoom, Clear,
      Own, Alone, Single, Waits, Works, Live, Driven, Placing
<1> QED BY <1>10, <1>11, <1>12, <1>13, <1>14, LocalInv, LocalLimit

LEMMA StopChildGoneInv ==
  ASSUME Inv, NEW s \in Sids, StopChild(s), st[s].child = "none", s \in archived
  PROVE  Inv' /\ Quiet /\ KeepsLimit
<1> DEFINE e == st[s]
           f == [Fresh EXCEPT !.stop = "gone"]
<1>0. /\ Own(s) /\ (Clear(s) => Alone(s)) /\ e \in Engine
      /\ 0 \notin TaskIds /\ \A t \in TaskIds : tasks[t] \in Task
  BY Before
<1>t. Types /\ st \in [Sids -> Engine] /\ rec \in [Sids -> Record] /\ tasks \in Seq(Task)
  BY Before DEF Types
<1>1. /\ st' = [st EXCEPT ![s] = f] /\ rec' = rec /\ archived' = archived /\ tasks' = tasks
      /\ calls' = calls /\ accepted' = accepted /\ crossed' = crossed /\ crashes' = crashes
      /\ restarts' = restarts /\ e.stop = "abort"
  BY <1>0, <1>t DEF StopChild, worldVars, StopDone
<1>2. /\ f \in Engine /\ f.child = "none" /\ f.work = 0 /\ ~f.busy /\ ~f.reserved /\ ~f.making
      /\ f.waiter = 0 /\ f.task = 0 /\ f.pendingSend = 0 /\ f.sentTask = 0 /\ f.saving = 0
      /\ ~f.capped /\ f.known = {} /\ f.stop = "gone"
  <2>1. e \in Engine
    BY <1>0
  <2> QED  BY <2>1 DEF Engine, Fresh
<1> HIDE DEF f
<1>3. st'[s] = f
  BY <1>t, <1>1
<1>4. TaskIds' = TaskIds /\ tasks' = tasks
  BY <1>1 DEF TaskIds
<1>5. (Clear(s) => \A t \in TaskIds : tasks[t].sid = s => ~Live(t))
  BY <1>0 DEF StopChild, Alone, Works, Live
<1>6. Own(s)'
  BY <1>0, <1>1, <1>2, <1>3, <1>4, <1>5
  DEF Own, Belongs, Pre
<1>7. Clear(s)' => Single(s)' /\ Waits(s)'
  BY <1>0, <1>1, <1>2, <1>3, <1>4, <1>5
  DEF Own, Belongs, Clear, Alone, Single, Waits, Works, WorksOn, Placing, Live
<1>8. Clear(s)' => Works(s)'
  BY <1>0, <1>1, <1>2, <1>3, <1>4, <1>5
  DEF Own, Belongs, Clear, Alone, Single, Works, WorksOn, Live, Driven, Pre
<1>9. Clear(s)' => WorksOn(s)' /\ Heard(s)'
  BY <1>0, <1>1, <1>2, <1>3, <1>4, <1>5
  DEF Own, Belongs, Clear, Alone, Single, Works, WorksOn, Heard, Live, Pre
<1>10. Local(s)
  BY <1>0, <1>1, <1>2, <1>3, <1>4, <1>5
  DEF Local, Apart, Own, Belongs, Placing
<1>11. Types'
  BY <1>0, <1>1, <1>2, <1>3, <1>4, <1>5, <1>t
  DEF Types
<1>12. Holds(s)'
  BY <1>6, <1>7, <1>8, <1>9 DEF Holds, Alone
<1>13. Quiet
  BY <1>0, <1>1, <1>2, <1>3, <1>4, <1>5
  DEF Quiet, Placing, Clear
<1>14. Steady(s)
  BY <1>0, <1>1, <1>2, <1>3, <1>4, <1>5
  DEF Steady, SteadyPlace, SteadyTasks, Remaining, Place, Commits, AtWork, BusyTrue, MakesRoom, Clear,
      Own, Alone, Single, Waits, Works, Live, Driven, Placing
<1> QED BY <1>10, <1>11, <1>12, <1>13, <1>14, LocalInv, LocalLimit

LEMMA StopChildForgetInv ==
  ASSUME Inv, NEW s \in Sids, StopChild(s), st[s].child = "none", s \notin archived
  PROVE  Inv' /\ Quiet /\ KeepsLimit
<1> DEFINE e == st[s]
           f == [Aborted(st[s]) EXCEPT !.busy = FALSE, !.stop = "forget"]
<1>0. /\ Own(s) /\ (Clear(s) => Alone(s)) /\ e \in Engine
      /\ 0 \notin TaskIds /\ \A t \in TaskIds : tasks[t] \in Task
  BY Before
<1>t. Types /\ st \in [Sids -> Engine] /\ rec \in [Sids -> Record] /\ tasks \in Seq(Task)
  BY Before DEF Types
<1>1. /\ st' = [st EXCEPT ![s] = f] /\ rec' = rec /\ tasks' = tasks /\ calls' = calls
      /\ accepted' = accepted /\ crossed' = crossed /\ crashes' = crashes
      /\ restarts' = restarts /\ archived' = archived \union {s} /\ e.stop = "abort"
      /\ e.child = "none"
  BY <1>0, <1>t DEF StopChild, worldVars, StopDone
<1>2. /\ f \in Engine /\ f.child = "none" /\ f.waiter = 0 /\ ~f.busy /\ f.task = 0 /\ ~f.capped
      /\ f.stop = "forget" /\ f.work = e.work /\ f.reserved = e.reserved /\ f.making = e.making
      /\ f.pendingSend = e.pendingSend /\ f.sentTask = e.sentTask /\ f.saving = e.saving
      /\ f.known = e.known
  <2>1. e \in Engine
    BY <1>0
  <2> QED  BY <2>1, <1>1 DEF Engine, Aborted, Stopped
<1> HIDE DEF f
<1>3. st'[s] = f
  BY <1>t, <1>1
<1>4. TaskIds' = TaskIds /\ tasks' = tasks
  BY <1>1 DEF TaskIds
<1>5. (Clear(s) => \A t \in TaskIds : tasks[t].sid = s => ~Live(t))
  BY <1>0 DEF StopChild, Alone, Works, Live
<1>6. Own(s)'
  BY <1>0, <1>1, <1>2, <1>3, <1>4, <1>5
  DEF Own, Belongs, Pre
<1>7. Clear(s)' => Single(s)' /\ Waits(s)'
  BY <1>0, <1>1, <1>2, <1>3, <1>4, <1>5
  DEF Own, Belongs, Clear, Alone, Single, Waits, Works, WorksOn, Placing, Live
<1>8. Clear(s)' => Works(s)'
  BY <1>0, <1>1, <1>2, <1>3, <1>4, <1>5
  DEF Own, Belongs, Clear, Alone, Single, Works, WorksOn, Live, Driven, Pre
<1>9. Clear(s)' => WorksOn(s)' /\ Heard(s)'
  BY <1>0, <1>1, <1>2, <1>3, <1>4, <1>5
  DEF Own, Belongs, Clear, Alone, Single, Works, WorksOn, Heard, Live, Pre
<1>10. Local(s)
  BY <1>0, <1>1, <1>2, <1>3, <1>4, <1>5
  DEF Local, Apart, Own, Belongs, Placing
<1>11. Types'
  BY <1>0, <1>1, <1>2, <1>3, <1>4, <1>5, <1>t
  DEF Types
<1>12. Holds(s)'
  BY <1>6, <1>7, <1>8, <1>9 DEF Holds, Alone
<1>13. Quiet
  BY <1>0, <1>1, <1>2, <1>3, <1>4, <1>5
  DEF Quiet, Placing, Clear
<1>14. Steady(s)
  BY <1>0, <1>1, <1>2, <1>3, <1>4, <1>5
  DEF Steady, SteadyPlace, SteadyTasks, Remaining, Place, Commits, AtWork, BusyTrue, MakesRoom, Clear,
      Own, Alone, Single, Waits, Works, Live, Driven, Placing
<1> QED BY <1>10, <1>11, <1>12, <1>13, <1>14, LocalInv, LocalLimit

-----------------------------------------------------------------------------
(* Prompts.                                                                 *)
LEMMA ReturnsCall ==
  ASSUME calls \in [Calls -> Asking], NEW c \in Calls, Returns(c)
  PROVE  /\ calls' \in [Calls -> Asking] /\ \A d \in Calls \ {c} : calls'[d] = calls[d]
         /\ calls'[c].at = "done" /\ calls'[c].sid = 0
<1>1. Call("done") \in Asking /\ Call("done").at = "done" /\ Call("done").sid = 0
  BY DEF Call, Asking, Reqs
<1> QED BY <1>1 DEF Returns

LEMMA GoesCall ==
  ASSUME calls \in [Calls -> Asking], NEW c \in Calls, NEW s \in Sids, NEW r \in Reqs,
         NEW a \in {"admit", "commit", "steer"}, NEW o \in Sids \union {0}, Goes(c, s, r, a, o)
  PROVE  /\ calls' \in [Calls -> Asking] /\ \A d \in Calls \ {c} : calls'[d] = calls[d]
         /\ calls'[c].at = a /\ calls'[c].sid = s /\ calls'[c].req = r /\ calls'[c].spare = o
<1>1. [at |-> a, sid |-> s, req |-> r, spare |-> o] \in Asking
  BY DEF Asking
<1> QED BY <1>1 DEF Goes

LEMMA CreateRetriedInv ==
  ASSUME Inv, NEW s \in Sids, NEW c \in Calls, calls[c].sid = s, Create(c), Retried(s, calls[c].req)
  PROVE  Inv' /\ Quiet /\ KeepsLimit
<1> DEFINE e == st[s]
           f == [st[s] EXCEPT !.busy = FALSE]
<1>0. /\ Own(s) /\ (Clear(s) => Alone(s)) /\ e \in Engine
      /\ 0 \notin TaskIds /\ \A t \in TaskIds : tasks[t] \in Task
  BY Before
<1>t. Types /\ st \in [Sids -> Engine] /\ rec \in [Sids -> Record] /\ tasks \in Seq(Task)
  BY Before DEF Types
<1>1. /\ st' = [st EXCEPT ![s] = f] /\ rec' = rec /\ archived' = archived /\ tasks' = tasks
      /\ accepted' = accepted /\ crossed' = crossed /\ crashes' = crashes
      /\ restarts' = restarts /\ calls[c].at = "commit"
  BY <1>0, <1>t DEF Create, worldVars
<1>2. /\ f \in Engine /\ ~f.busy /\ f.child = e.child /\ f.work = e.work
      /\ f.reserved = e.reserved /\ f.making = e.making /\ f.waiter = e.waiter
      /\ f.task = e.task /\ f.pendingSend = e.pendingSend /\ f.sentTask = e.sentTask
      /\ f.saving = e.saving /\ f.capped = e.capped /\ f.known = e.known /\ f.stop = e.stop
  <2>1. e \in Engine
    BY <1>0
  <2> QED  BY <2>1 DEF Engine
<1> HIDE DEF f
<1>3. st'[s] = f
  BY <1>t, <1>1
<1>4. TaskIds' = TaskIds /\ tasks' = tasks
  BY <1>1 DEF TaskIds
<1>5. /\ calls' \in [Calls -> Asking] /\ \A d \in Calls \ {c} : calls'[d] = calls[d]
      /\ calls'[c].at = "done" /\ calls'[c].sid = 0
  BY <1>t, ReturnsCall DEF Create, Types
<1>6. Own(s)'
  BY <1>0, <1>1, <1>2, <1>3, <1>4, <1>5
  DEF Own, Belongs, Pre
<1>7. Clear(s)' => Single(s)' /\ Waits(s)'
  BY <1>0, <1>1, <1>2, <1>3, <1>4, <1>5
  DEF Own, Belongs, Clear, Alone, Single, Waits, Works, WorksOn, Placing, Live
<1>8. Clear(s)' => Works(s)'
  BY <1>0, <1>1, <1>2, <1>3, <1>4, <1>5
  DEF Own, Belongs, Clear, Alone, Single, Works, WorksOn, Live, Driven, Pre, Waits, Placing
<1>9. Clear(s)' => WorksOn(s)' /\ Heard(s)'
  BY <1>0, <1>1, <1>2, <1>3, <1>4, <1>5
  DEF Own, Belongs, Clear, Alone, Single, Works, WorksOn, Heard, Live, Pre
<1>10. Local(s)
  BY <1>0, <1>1, <1>2, <1>3, <1>4, <1>5
  DEF Local, Apart, Own, Belongs, Placing
<1>11. Types'
  BY <1>0, <1>1, <1>2, <1>3, <1>4, <1>5, <1>t
  DEF Types
<1>12. Holds(s)'
  BY <1>6, <1>7, <1>8, <1>9 DEF Holds, Alone
<1>13. Quiet
  BY <1>0, <1>1, <1>2, <1>3, <1>4, <1>5
  DEF Quiet, Placing, Clear
<1>14. Steady(s)
  BY <1>0, <1>1, <1>2, <1>3, <1>4, <1>5
  DEF Steady, SteadyPlace, SteadyTasks, Remaining, Place, Commits, AtWork, BusyTrue, MakesRoom, Clear,
      Own, Alone, Single, Waits, Works, Live, Driven, Placing
<1> QED BY <1>10, <1>11, <1>12, <1>13, <1>14, LocalInv, LocalLimit

LEMMA CreateInv ==
  ASSUME Inv, NEW s \in Sids, NEW c \in Calls, calls[c].sid = s, Create(c), ~Retried(s, calls[c].req)
  PROVE  Inv' /\ KeepsLimit
<1> DEFINE e == st[s]
           f == [Known(st[s], calls[c].req) EXCEPT !.task = Len(tasks) + 1]
<1>0. /\ Own(s) /\ (Clear(s) => Alone(s)) /\ e \in Engine
      /\ 0 \notin TaskIds /\ \A t \in TaskIds : tasks[t] \in Task
  BY Before
<1>t. Types /\ st \in [Sids -> Engine] /\ rec \in [Sids -> Record] /\ tasks \in Seq(Task)
  BY Before DEF Types
<1>r. calls[c].req \in Reqs
  BY <1>t DEF Types, Asking
<1>n. Len(tasks) + 1 \in Nat /\ Len(tasks) + 1 # 0
  BY <1>t
<1>1. /\ st' = [st EXCEPT ![s] = f] /\ archived' = archived /\ accepted' = accepted
      /\ crossed' = crossed /\ crashes' = crashes /\ restarts' = restarts
      /\ calls[c].at = "commit" /\ (\A t \in TaskIds : tasks[t].at # "ended")
  BY <1>0, <1>t DEF Create, worldVars, InOrder
<1>2. /\ f \in Engine /\ f.task = Len(tasks) + 1 /\ f.child = e.child /\ f.work = e.work
      /\ f.busy = e.busy /\ f.reserved = e.reserved /\ f.making = e.making
      /\ f.waiter = e.waiter /\ f.pendingSend = e.pendingSend /\ f.sentTask = e.sentTask
      /\ f.saving = e.saving /\ f.capped = e.capped /\ f.stop = e.stop
  <2>1. e \in Engine
    BY <1>0
  <2> QED  BY <2>1, <1>r, <1>n DEF Engine, Known, Reqs
<1> HIDE DEF f
<1>3. st'[s] = f
  BY <1>t, <1>1
<1>4. /\ calls' \in [Calls -> Asking] /\ \A d \in Calls \ {c} : calls'[d] = calls[d]
      /\ calls'[c].at = "done" /\ calls'[c].sid = 0
  BY <1>t, ReturnsCall DEF Create, Types
<1>5. /\ NewTask(s, calls[c].req) \in Task /\ NewTask(s, calls[c].req).sid = s
      /\ NewTask(s, calls[c].req).at = "ready" /\ ~NewTask(s, calls[c].req).cont
      /\ ~NewTask(s, calls[c].req).abort /\ NewTask(s, calls[c].req).attempt = 0
  BY <1>r DEF NewTask, Task, Stages
<1>6. tasks' = Append(tasks, NewTask(s, calls[c].req))
  BY <1>0 DEF Create
<1>7. /\ tasks' \in Seq(Task) /\ TaskIds' = TaskIds \union {Len(tasks) + 1}
      /\ Len(tasks) + 1 \notin TaskIds /\ (\A t \in TaskIds : tasks'[t] = tasks[t])
      /\ tasks'[Len(tasks) + 1] = NewTask(s, calls[c].req)
  BY <1>t, <1>5, <1>6 DEF TaskIds
<1>8. /\ rec' \in [Sids -> Record] /\ rec'[s].sentTask = rec[s].sentTask
      /\ (\A o \in Sids \ {s} : rec'[o] = rec[o])
  BY <1>r, <1>t, RecordAsked DEF Create
<1>9. Len(tasks) + 1 # 0 /\ 0 <= RestartLimit + 1
  BY <1>n, LcAssumption
<1>10. Own(s)'
  BY <1>0, <1>1, <1>2, <1>3, <1>4, <1>5, <1>7, <1>8, <1>9
  DEF Own, Belongs, Pre
<1>11. Clear(s)' => Single(s)' /\ Waits(s)'
  BY <1>0, <1>1, <1>2, <1>3, <1>4, <1>5, <1>7, <1>8, <1>9
  DEF Own, Belongs, Clear, Alone, Single, Waits, Works, WorksOn, Placing, Live
<1>12. Clear(s)' => Works(s)'
  BY <1>0, <1>1, <1>2, <1>3, <1>4, <1>5, <1>7, <1>8, <1>9
  DEF Own, Belongs, Clear, Alone, Single, Works, WorksOn, Live, Driven, Pre, Waits, Placing
<1>13. Clear(s)' => WorksOn(s)' /\ Heard(s)'
  BY <1>0, <1>1, <1>2, <1>3, <1>4, <1>5, <1>7, <1>8, <1>9
  DEF Own, Belongs, Clear, Alone, Single, Works, WorksOn, Heard, Live, Pre
<1>14. Local(s)
  BY <1>0, <1>1, <1>2, <1>3, <1>4, <1>5, <1>7, <1>8, <1>9
  DEF Local, Apart, Own, Belongs, Placing
<1>15. Types'
  <2>1. st' \in [Sids -> Engine]
    BY <1>t, <1>1, <1>2
  <2>2. \A d \in Calls :
          /\ calls'[d].at \in {"admit", "commit", "steer"} => calls'[d].sid \in Sids
          /\ calls'[d].at = "admit" => calls'[d].spare \in Sids \ {calls'[d].sid}
    BY <1>t, <1>4 DEF Types
  <2>3. tasks' \in Seq(Task) /\ rec' \in [Sids -> Record] /\ calls' \in [Calls -> Asking]
    BY <1>4, <1>7, <1>8
  <2>4. /\ archived' \subseteq Sids /\ crossed' \in [Sids -> Nat]
        /\ crashes' \in Nat /\ restarts' \in Nat
    BY <1>t, <1>1 DEF Types
  <2> QED BY <2>1, <2>2, <2>3, <2>4 DEF Types
<1>16. Holds(s)'
  BY <1>10, <1>11, <1>12, <1>13 DEF Holds, Alone
<1>17. SteadyPlace(s)
  BY <1>0, <1>1, <1>2, <1>3, <1>4, <1>5, <1>7
  DEF SteadyPlace, Place, Commits, AtWork, BusyTrue, MakesRoom, Clear, Alone, Waits, Live,
      Driven, Placing
<1>18. ASSUME Limit, AllClear PROVE OneRemains'
  <2>1. Place(s)
    BY <1>1 DEF Place, Commits
  <2>2. ASSUME NEW t \in TaskIds, Remaining(t) PROVE tasks[t].sid = s
    <3>1. tasks[t].sid \in Sids /\ tasks[t].at \in Stages
      BY <1>0 DEF Task
    <3>2. Own(tasks[t].sid)
      BY <3>1, Before
    <3>3. AtWork(t)
      BY <1>1, <2>2, <3>1, <3>2 DEF Remaining, AtWork, Own, Stages, Driven
    <3> QED BY <1>18, <2>1, <3>1, <3>3 DEF Place, Limit, OnePlace
  <2>3. ASSUME NEW t \in TaskIds', Remaining(t)' PROVE tasks'[t].sid = s
    BY <1>5, <1>7, <2>2, <2>3 DEF Remaining
  <2> QED BY <2>3 DEF OneRemains
<1> QED BY <1>14, <1>15, <1>16, <1>17, <1>18, LocalInv, PlaceLimit

LEMMA SteerRetriedInv ==
  ASSUME Inv, NEW s \in Sids, NEW c \in Calls, calls[c].sid = s, Steer(c), Retried(s, calls[c].req)
  PROVE  Inv' /\ Quiet /\ KeepsLimit
<1> DEFINE e == st[s]
<1>0. /\ Own(s) /\ (Clear(s) => Alone(s)) /\ e \in Engine
      /\ 0 \notin TaskIds /\ \A t \in TaskIds : tasks[t] \in Task
  BY Before
<1>t. Types /\ st \in [Sids -> Engine] /\ rec \in [Sids -> Record] /\ tasks \in Seq(Task)
  BY Before DEF Types
<1>1. /\ st' = st /\ rec' = rec /\ archived' = archived /\ tasks' = tasks
      /\ accepted' = accepted /\ crossed' = crossed /\ crashes' = crashes
      /\ restarts' = restarts /\ calls[c].at = "steer"
  BY <1>0, <1>t DEF Steer, worldVars
<1>2. TaskIds' = TaskIds /\ tasks' = tasks
  BY <1>1 DEF TaskIds
<1>3. /\ calls' \in [Calls -> Asking] /\ \A d \in Calls \ {c} : calls'[d] = calls[d]
      /\ calls'[c].at = "done" /\ calls'[c].sid = 0
  BY <1>t, ReturnsCall DEF Steer, Types
<1>4. Own(s)'
  BY <1>0, <1>1, <1>2, <1>3
  DEF Own, Belongs, Pre
<1>5. Clear(s)' => Single(s)' /\ Waits(s)'
  BY <1>0, <1>1, <1>2, <1>3
  DEF Own, Belongs, Clear, Alone, Single, Waits, Works, WorksOn, Placing, Live
<1>6. Clear(s)' => Works(s)'
  BY <1>0, <1>1, <1>2, <1>3
  DEF Own, Belongs, Clear, Alone, Single, Works, WorksOn, Live, Driven, Pre
<1>7. Clear(s)' => WorksOn(s)' /\ Heard(s)'
  BY <1>0, <1>1, <1>2, <1>3
  DEF Own, Belongs, Clear, Alone, Single, Works, WorksOn, Heard, Live, Pre
<1>8. Local(s)
  BY <1>0, <1>1, <1>2, <1>3
  DEF Local, Apart, Own, Belongs, Placing
<1>9. Types'
  BY <1>0, <1>1, <1>2, <1>3, <1>t
  DEF Types
<1>10. Holds(s)'
  BY <1>4, <1>5, <1>6, <1>7 DEF Holds, Alone
<1>11. Quiet
  BY <1>0, <1>1, <1>2, <1>3
  DEF Quiet, Placing, Clear
<1>12. Steady(s)
  BY <1>0, <1>1, <1>2, <1>3
  DEF Steady, SteadyPlace, SteadyTasks, Remaining, Place, Commits, AtWork, BusyTrue, MakesRoom, Clear,
      Own, Alone, Single, Waits, Works, Live, Driven, Placing
<1> QED BY <1>8, <1>9, <1>10, <1>11, <1>12, LocalInv, LocalLimit

LEMMA SteerInv ==
  ASSUME Inv, NEW s \in Sids, NEW c \in Calls, calls[c].sid = s, Steer(c), ~Retried(s, calls[c].req)
  PROVE  Inv' /\ KeepsLimit
<1> DEFINE e == st[s]
           f == Known(st[s], calls[c].req)
<1>0. /\ Own(s) /\ (Clear(s) => Alone(s)) /\ e \in Engine
      /\ 0 \notin TaskIds /\ \A t \in TaskIds : tasks[t] \in Task
  BY Before
<1>t. Types /\ st \in [Sids -> Engine] /\ rec \in [Sids -> Record] /\ tasks \in Seq(Task)
  BY Before DEF Types
<1>r. calls[c].req \in Reqs
  BY <1>t DEF Types, Asking
<1>1. /\ st' = [st EXCEPT ![s] = f] /\ archived' = archived /\ tasks' = tasks
      /\ accepted' = accepted /\ crossed' = crossed /\ crashes' = crashes
      /\ restarts' = restarts /\ calls[c].at = "steer"
  BY <1>0, <1>t DEF Steer, worldVars
<1>2. /\ f \in Engine /\ f.child = e.child /\ f.work = e.work /\ f.busy = e.busy
      /\ f.reserved = e.reserved /\ f.making = e.making /\ f.waiter = e.waiter
      /\ f.task = e.task /\ f.pendingSend = e.pendingSend /\ f.sentTask = e.sentTask
      /\ f.saving = e.saving /\ f.capped = e.capped /\ f.stop = e.stop
  <2>1. e \in Engine
    BY <1>0
  <2> QED  BY <2>1, <1>r DEF Engine, Known, Reqs
<1> HIDE DEF f
<1>3. st'[s] = f
  BY <1>t, <1>1
<1>4. TaskIds' = TaskIds /\ tasks' = tasks
  BY <1>1 DEF TaskIds
<1>5. /\ calls' \in [Calls -> Asking] /\ \A d \in Calls \ {c} : calls'[d] = calls[d]
      /\ calls'[c].at = "done" /\ calls'[c].sid = 0
  BY <1>t, ReturnsCall DEF Steer, Types
<1>6. (rec' = rec \/ rec' = [rec EXCEPT ![s].lastRequest = calls[c].req])
  BY DEF Steer
<1>7. /\ rec' \in [Sids -> Record] /\ rec'[s].sentTask = rec[s].sentTask
      /\ (\A o \in Sids \ {s} : rec'[o] = rec[o])
  <2>1. CASE rec' = rec
    BY <2>1, <1>t
  <2>2. CASE rec' = [rec EXCEPT ![s].lastRequest = calls[c].req]
    BY <2>2, <1>r, <1>t, RecordAsked
  <2> QED BY <1>6, <2>1, <2>2
<1>8. Own(s)'
  BY <1>0, <1>1, <1>2, <1>3, <1>4, <1>5, <1>6, <1>7
  DEF Own, Belongs, Pre
<1>9. Clear(s)' => Single(s)' /\ Waits(s)'
  BY <1>0, <1>1, <1>2, <1>3, <1>4, <1>5, <1>6, <1>7
  DEF Own, Belongs, Clear, Alone, Single, Waits, Works, WorksOn, Placing, Live
<1>10. Clear(s)' => Works(s)'
  BY <1>0, <1>1, <1>2, <1>3, <1>4, <1>5, <1>6, <1>7
  DEF Own, Belongs, Clear, Alone, Single, Works, WorksOn, Live, Driven, Pre
<1>11. Clear(s)' => WorksOn(s)' /\ Heard(s)'
  BY <1>0, <1>1, <1>2, <1>3, <1>4, <1>5, <1>6, <1>7
  DEF Own, Belongs, Clear, Alone, Single, Works, WorksOn, Heard, Live, Pre
<1>12. Local(s)
  BY <1>0, <1>1, <1>2, <1>3, <1>4, <1>5, <1>6, <1>7
  DEF Local, Apart, Own, Belongs, Placing
<1>13. Types'
  BY SMTT(30), <1>0, <1>1, <1>2, <1>3, <1>4, <1>5, <1>6, <1>7, <1>t
  DEF Types
<1>14. Holds(s)'
  BY <1>8, <1>9, <1>10, <1>11 DEF Holds, Alone
<1>15. Steady(s)
  BY <1>0, <1>1, <1>2, <1>3, <1>4, <1>5
  DEF Steady, SteadyPlace, SteadyTasks, Remaining, Place, Commits, AtWork, BusyTrue, MakesRoom, Clear,
      Own, Alone, Single, Waits, Works, Live, Driven, Placing
<1> QED BY <1>12, <1>13, <1>14, <1>15, LocalInv, LocalLimit

LEMMA PromptBusyInv ==
  ASSUME Inv, NEW s \in Sids, NEW c \in Calls, NEW r \in Reqs,
         Prompt(c, s, r), PromptBusy(c, s, r)
  PROVE  Inv' /\ Quiet /\ KeepsLimit
<1> DEFINE e == st[s]
<1>0. /\ Own(s) /\ (Clear(s) => Alone(s)) /\ e \in Engine
      /\ 0 \notin TaskIds /\ \A t \in TaskIds : tasks[t] \in Task
  BY Before
<1>t. Types /\ st \in [Sids -> Engine] /\ rec \in [Sids -> Record] /\ tasks \in Seq(Task)
  BY Before DEF Types
<1>1. /\ st' = st /\ rec' = rec /\ archived' = archived /\ tasks' = tasks
      /\ accepted' = accepted /\ crashes' = crashes /\ restarts' = restarts
      /\ calls[c].at = "new" /\ e.busy
  BY <1>0, <1>t DEF PromptBusy, worldVars, Prompt
<1>2. TaskIds' = TaskIds /\ tasks' = tasks
  BY <1>1 DEF TaskIds
<1>3. /\ calls' \in [Calls -> Asking] /\ \A d \in Calls \ {c} : calls'[d] = calls[d]
      /\ calls'[c].at = "steer" /\ calls'[c].sid = s /\ calls'[c].spare = 0
  BY <1>t, GoesCall DEF PromptBusy, Types
<1>4. /\ crossed' \in [Sids -> Nat] /\ \A o \in Sids \ {s} : crossed'[o] = crossed[o]
      /\ (Clear(s)' => Clear(s) /\ ~Meets(s, {"admit"}))
  BY <1>t, CrossesBut DEF Prompt, Types
<1>5. Clear(s)' =>
        /\ Clear(s) /\ st[s].stop = "none" /\ (st[s].child = "dying" => st[s].work = 0)
        /\ \A d \in Calls : calls[d].sid = s => calls[d].at # "admit"
        /\ \A t \in TaskIds : tasks[t].sid = s /\ tasks[t].abort => tasks[t].at = "over"
  BY <1>4 DEF Meets
<1>6. Own(s)'
  BY <1>0, <1>1, <1>2, <1>3, <1>4, <1>5
  DEF Own, Belongs, Pre
<1>7. Clear(s)' => Single(s)' /\ Waits(s)'
  BY <1>0, <1>1, <1>2, <1>3, <1>4, <1>5
  DEF Own, Belongs, Clear, Alone, Single, Waits, Works, WorksOn, Placing, Live
<1>8. Clear(s)' => Works(s)'
  BY <1>0, <1>1, <1>2, <1>3, <1>4, <1>5
  DEF Own, Belongs, Clear, Alone, Single, Works, WorksOn, Live, Driven, Pre
<1>9. Clear(s)' => WorksOn(s)' /\ Heard(s)'
  BY <1>0, <1>1, <1>2, <1>3, <1>4, <1>5
  DEF Own, Belongs, Clear, Alone, Single, Works, WorksOn, Heard, Live, Pre
<1>10. Local(s)
  BY <1>0, <1>1, <1>2, <1>3, <1>4, <1>5
  DEF Local, Apart, Own, Belongs, Placing
<1>11. Types'
  <2>1. crossed' \in [Sids -> Nat]
    BY <1>4
  <2> QED  BY <1>1, <1>3, <2>1, <1>t DEF Types
<1>12. Holds(s)'
  BY <1>6, <1>7, <1>8, <1>9 DEF Holds, Alone
<1>13. Quiet
  BY <1>0, <1>1, <1>2, <1>3, <1>4, <1>5
  DEF Quiet, Placing, Clear
<1>14. Steady(s)
  BY <1>0, <1>1, <1>2, <1>3, <1>4, <1>5
  DEF Steady, SteadyPlace, SteadyTasks, Remaining, Place, Commits, AtWork, BusyTrue, MakesRoom, Clear,
      Own, Alone, Single, Waits, Works, Live, Driven, Placing
<1> QED BY <1>10, <1>11, <1>12, <1>13, <1>14, LocalInv, LocalLimit

(* The other sessions that have a place are counted, and with a limit of    *)
(* one there is room where there are none.                                  *)
LEMMA PlaceCounts ==
  ASSUME Inv, Limit, AllClear, NEW o \in Sids, Place(o)
  PROVE  ~st[o].making /\ (IsLive(o) \/ st[o].busy \/ st[o].reserved)
<1>1. ~st[o].making
  BY MakingHasNone
<1>2. Alone(o) /\ \A t \in TaskIds : tasks[t] \in Task
  BY Before DEF AllClear
<1>3. ASSUME NEW c \in Calls, Commits(c, o) PROVE st[o].busy
  BY <1>2, <1>3 DEF Alone, Waits, Placing, Commits
<1>4. ASSUME NEW t \in TaskIds, tasks[t].sid = o, AtWork(t) PROVE st[o].busy
  BY <1>2, <1>4 DEF Alone, Works, AtWork, Live, Driven
<1> QED BY <1>1, <1>3, <1>4 DEF Place, IsLive

LEMMA LivePlace ==
  ASSUME NEW s \in Sids, IsLive(s)
  PROVE  Place(s)
BY DEF IsLive, Booting, Place, AtWork, Driven

LEMMA RoomForOne ==
  ASSUME Inv, Limit, AllClear, MaxLive = 1, NEW s \in Sids, HasRoom(s)
  PROVE  ~st[s].making /\ \A o \in Sids \ {s} : ~Place(o)
<1>1. CASE IsLive(s)
  BY <1>1, LivePlace, MakingHasNone DEF Limit, OnePlace
<1>2. CASE Cardinality(Counted(s)) < 1
  <2>1. IsFiniteSet(Counted(s))
    BY LcAssumption, FS_Subset DEF Counted
  <2>2. Counted(s) = {}
    BY <1>2, <2>1, FS_CardinalityType, FS_EmptySet
  <2>3. ASSUME NEW o \in Sids \ {s} PROVE ~Place(o)
    BY <2>2, PlaceCounts DEF Counted
  <2>4. ASSUME st[s].making PROVE FALSE
    <3>1. PICK c \in Calls : calls[c].at = "admit" /\ calls[c].spare = s
      BY <2>4 DEF Limit, MakesRoom
    <3>2. calls[c].sid \in Sids \ {s}
      BY <3>1 DEF Inv, Types
    <3>3. st[calls[c].sid].reserved
      BY <3>1, <3>2, Before DEF AllClear, Alone, Waits, Placing
    <3> QED BY <2>3, <3>2, <3>3 DEF Place
  <2> QED BY <2>3, <2>4
<1> QED BY <1>1, <1>2 DEF HasRoom

LEMMA PromptAdmittedInv ==
  ASSUME Inv, NEW s \in Sids, NEW c \in Calls, NEW r \in Reqs,
         Prompt(c, s, r), PromptAdmitted(c, s, r)
  PROVE  Inv' /\ KeepsLimit
<1> DEFINE e == st[s]
           f == Takes(st[s])
<1>0. /\ Own(s) /\ (Clear(s) => Alone(s)) /\ e \in Engine
      /\ 0 \notin TaskIds /\ \A t \in TaskIds : tasks[t] \in Task
  BY Before
<1>t. Types /\ st \in [Sids -> Engine] /\ rec \in [Sids -> Record] /\ tasks \in Seq(Task)
  BY Before DEF Types
<1>1. /\ st' = [st EXCEPT ![s] = f] /\ rec' = rec /\ archived' = archived /\ tasks' = tasks
      /\ accepted' = accepted /\ crashes' = crashes /\ restarts' = restarts
      /\ calls[c].at = "new" /\ ~e.busy
  BY <1>0, <1>t DEF PromptAdmitted, worldVars, Prompt
<1>2. /\ f \in Engine /\ f.busy /\ ~f.reserved /\ f.child = e.child /\ f.work = e.work
      /\ f.making = e.making /\ f.waiter = e.waiter /\ f.task = e.task
      /\ f.pendingSend = e.pendingSend /\ f.sentTask = e.sentTask /\ f.saving = e.saving
      /\ f.capped = e.capped /\ f.known = e.known /\ f.stop = e.stop
  <2>1. e \in Engine
    BY <1>0
  <2> QED  BY <2>1 DEF Engine, Takes
<1> HIDE DEF f
<1>3. st'[s] = f
  BY <1>t, <1>1
<1>4. TaskIds' = TaskIds /\ tasks' = tasks
  BY <1>1 DEF TaskIds
<1>5. /\ calls' \in [Calls -> Asking] /\ \A d \in Calls \ {c} : calls'[d] = calls[d]
      /\ calls'[c].at = "commit" /\ calls'[c].sid = s /\ calls'[c].spare = 0
  BY <1>t, GoesCall DEF PromptAdmitted, Types
<1>6. /\ crossed' \in [Sids -> Nat] /\ \A o \in Sids \ {s} : crossed'[o] = crossed[o]
      /\ (Clear(s)' => Clear(s) /\ ~Meets(s, {"admit"}))
  BY <1>t, CrossesBut DEF Prompt, Types
<1>7. Clear(s)' =>
        /\ Clear(s) /\ st[s].stop = "none" /\ (st[s].child = "dying" => st[s].work = 0)
        /\ \A d \in Calls : calls[d].sid = s => calls[d].at # "admit"
        /\ \A t \in TaskIds : tasks[t].sid = s /\ tasks[t].abort => tasks[t].at = "over"
  BY <1>6 DEF Meets
<1>8. (Clear(s)' => \A t \in TaskIds : tasks[t].sid = s => tasks[t].at \in {"ended", "over"})
  BY <1>0, <1>1, <1>7 DEF Own, Alone, Works, Live, Driven, Task, Stages
<1>9. (Clear(s)' => e.work = 0 /\ \A d \in Calls : ~Placing(d, s))
  BY <1>0, <1>1, <1>7, <1>8 DEF Own, Alone, Waits, Placing, WorksOn, Engine, Belongs
<1>10. Own(s)'
  BY <1>0, <1>1, <1>2, <1>3, <1>4, <1>5, <1>6, <1>7, <1>8, <1>9
  DEF Own, Belongs, Pre
<1>11. Clear(s)' => Single(s)' /\ Waits(s)'
  BY <1>0, <1>1, <1>2, <1>3, <1>4, <1>5, <1>6, <1>7, <1>8, <1>9
  DEF Own, Belongs, Clear, Alone, Single, Waits, Works, WorksOn, Placing, Live
<1>12. Clear(s)' => Works(s)'
  BY <1>0, <1>1, <1>2, <1>3, <1>4, <1>5, <1>6, <1>7, <1>8, <1>9
  DEF Own, Belongs, Clear, Alone, Single, Works, WorksOn, Live, Driven, Pre
<1>13. Clear(s)' => WorksOn(s)' /\ Heard(s)'
  BY <1>0, <1>1, <1>2, <1>3, <1>4, <1>5, <1>6, <1>7, <1>8, <1>9
  DEF Own, Belongs, Clear, Alone, Single, Works, WorksOn, Heard, Live, Pre
<1>14. Local(s)
  BY <1>0, <1>1, <1>2, <1>3, <1>4, <1>5, <1>6, <1>7, <1>8, <1>9
  DEF Local, Apart, Own, Belongs, Placing
<1>15. Types'
  BY SMTT(30), <1>1, <1>2, <1>4, <1>5, <1>6, <1>t DEF Types
<1>16. Holds(s)'
  BY <1>10, <1>11, <1>12, <1>13 DEF Holds, Alone
<1>17. ASSUME MaxLive = 1, Limit PROVE Limit'
  <2>1. \A d \in Calls : calls[d].at = "admit" => calls'[d] = calls[d]
    BY <1>1, <1>5
  <2>2. ASSUME NEW o \in Sids, o # s
        PROVE  /\ Clear(o)' <=> Clear(o)
               /\ Place(o)' <=> Place(o)
               /\ BusyTrue(o) => BusyTrue(o)'
               /\ MakesRoom(o) => MakesRoom(o)'
    BY <1>14, <2>1, <2>2, ApartLimit DEF Local
  <2>3. Clear(s)' => BusyTrue(s)'
    BY <1>3, <1>4, <1>5, <1>8 DEF BusyTrue, Commits
  <2>4. ASSUME AllClear'
        PROVE  (\A o \in Sids : MakesRoom(o)') /\ OnePlace' /\ OneRemains'
    <3>1. AllClear
      BY <1>7, <2>2, <2>4 DEF AllClear
    <3>2. ~st[s].making /\ \A o \in Sids \ {s} : ~Place(o)
      BY <1>17, <3>1, RoomForOne DEF PromptAdmitted
    <3>3. \A o \in Sids : MakesRoom(o)'
      BY <1>2, <1>3, <1>17, <2>2, <3>1, <3>2 DEF MakesRoom, Limit
    <3>4. OnePlace'
      BY <2>2, <3>2 DEF OnePlace
    <3>5. OneRemains'
      BY <1>4, <1>17, <3>1 DEF OneRemains, Remaining, Limit
    <3> QED BY <3>3, <3>4, <3>5
  <2> QED BY <1>17, <2>2, <2>3, <2>4 DEF Limit
<1> QED BY <1>14, <1>15, <1>16, <1>17, LocalInv DEF KeepsLimit

LEMMA PromptRefusedInv ==
  ASSUME Inv, NEW s \in Sids, NEW c \in Calls, NEW r \in Reqs,
         Prompt(c, s, r), PromptRefused(c, s, r)
  PROVE  Inv' /\ Quiet /\ KeepsLimit
<1> DEFINE e == st[s]
           f == (IF st[s].busy THEN st[s] ELSE [st[s] EXCEPT !.reserved = FALSE])
<1>0. /\ Own(s) /\ (Clear(s) => Alone(s)) /\ e \in Engine
      /\ 0 \notin TaskIds /\ \A t \in TaskIds : tasks[t] \in Task
  BY Before
<1>t. Types /\ st \in [Sids -> Engine] /\ rec \in [Sids -> Record] /\ tasks \in Seq(Task)
  BY Before DEF Types
<1>1. /\ st' = [st EXCEPT ![s] = f] /\ rec' = rec /\ archived' = archived /\ tasks' = tasks
      /\ accepted' = accepted /\ crashes' = crashes /\ restarts' = restarts
      /\ calls[c].at = "new"
  BY <1>0, <1>t DEF PromptRefused, worldVars, Prompt
<1>2. /\ f \in Engine /\ (e.busy => f.reserved = e.reserved) /\ (~e.busy => ~f.reserved)
      /\ f.child = e.child /\ f.work = e.work /\ f.busy = e.busy /\ f.making = e.making
      /\ f.waiter = e.waiter /\ f.task = e.task /\ f.pendingSend = e.pendingSend
      /\ f.sentTask = e.sentTask /\ f.saving = e.saving /\ f.capped = e.capped
      /\ f.known = e.known /\ f.stop = e.stop
  <2>1. e \in Engine
    BY <1>0
  <2> QED  BY <2>1 DEF Engine
<1> HIDE DEF f
<1>3. st'[s] = f
  BY <1>t, <1>1
<1>4. TaskIds' = TaskIds /\ tasks' = tasks
  BY <1>1 DEF TaskIds
<1>5. /\ calls' \in [Calls -> Asking] /\ \A d \in Calls \ {c} : calls'[d] = calls[d]
      /\ calls'[c].at = "done" /\ calls'[c].sid = 0
  BY <1>t, ReturnsCall DEF PromptRefused, Types
<1>6. /\ crossed' \in [Sids -> Nat] /\ \A o \in Sids \ {s} : crossed'[o] = crossed[o]
      /\ (Clear(s)' => Clear(s) /\ ~Meets(s, {"admit"}))
  BY <1>t, CrossesBut DEF Prompt, Types
<1>7. Clear(s)' =>
        /\ Clear(s) /\ st[s].stop = "none" /\ (st[s].child = "dying" => st[s].work = 0)
        /\ \A d \in Calls : calls[d].sid = s => calls[d].at # "admit"
        /\ \A t \in TaskIds : tasks[t].sid = s /\ tasks[t].abort => tasks[t].at = "over"
  BY <1>6 DEF Meets
<1>8. Own(s)'
  BY <1>0, <1>1, <1>2, <1>3, <1>4, <1>5, <1>6, <1>7
  DEF Own, Belongs, Pre
<1>9. Clear(s)' => Single(s)' /\ Waits(s)'
  BY <1>0, <1>1, <1>2, <1>3, <1>4, <1>5, <1>6, <1>7
  DEF Own, Belongs, Clear, Alone, Single, Waits, Works, WorksOn, Placing, Live
<1>10. Clear(s)' => Works(s)'
  BY <1>0, <1>1, <1>2, <1>3, <1>4, <1>5, <1>6, <1>7
  DEF Own, Belongs, Clear, Alone, Single, Works, WorksOn, Live, Driven, Pre
<1>11. Clear(s)' => WorksOn(s)' /\ Heard(s)'
  BY <1>0, <1>1, <1>2, <1>3, <1>4, <1>5, <1>6, <1>7
  DEF Own, Belongs, Clear, Alone, Single, Works, WorksOn, Heard, Live, Pre
<1>12. Local(s)
  BY <1>0, <1>1, <1>2, <1>3, <1>4, <1>5, <1>6, <1>7
  DEF Local, Apart, Own, Belongs, Placing
<1>13. Types'
  <2>1. crossed' \in [Sids -> Nat]
    BY <1>6
  <2>2. st' \in [Sids -> Engine]
    BY <1>1, <1>2, <1>t
  <2> QED  BY <1>1, <1>5, <2>1, <2>2, <1>t DEF Types
<1>14. Holds(s)'
  BY <1>8, <1>9, <1>10, <1>11 DEF Holds, Alone
<1>15. Quiet
  BY <1>0, <1>1, <1>2, <1>3, <1>4, <1>5, <1>6, <1>7
  DEF Quiet, Placing, Clear
<1>16. Steady(s)
  BY <1>0, <1>1, <1>2, <1>3, <1>4, <1>5, <1>6, <1>7
  DEF Steady, SteadyPlace, SteadyTasks, Remaining, Place, Commits, AtWork, BusyTrue, MakesRoom, Clear,
      Own, Alone, Single, Waits, Works, Live, Driven, Placing
<1> QED BY <1>12, <1>13, <1>14, <1>15, <1>16, LocalInv, LocalLimit

LEMMA PromptMakesRoomInv ==
  ASSUME Inv, NEW s \in Sids, NEW c \in Calls, NEW r \in Reqs,
         Prompt(c, s, r), PromptMakesRoom(c, s, r)
  PROVE  Inv' /\ KeepsLimit
<1>1. PICK o \in Counted(s) :
        /\ IdleKept(o) /\ Goes(c, s, r, "admit", o)
        /\ st' = [st EXCEPT ![s].reserved = TRUE, ![o] = [Stopped(@) EXCEPT !.making = TRUE]]
  BY DEF PromptMakesRoom
<1> DEFINE e == st[s]
           d == st[o]
           f == [st[s] EXCEPT !.reserved = TRUE]
           g == [Stopped(st[o]) EXCEPT !.making = TRUE]
<1>0. /\ Own(s) /\ (Clear(s) => Alone(s)) /\ e \in Engine
      /\ 0 \notin TaskIds /\ \A t \in TaskIds : tasks[t] \in Task
  BY Before
<1>t. Types /\ st \in [Sids -> Engine] /\ tasks \in Seq(Task)
  BY Before DEF Types
<1>o. o \in Sids /\ o # s /\ ~d.busy /\ ~d.reserved
  BY <1>1 DEF Counted, IdleKept
<1>2. Own(o) /\ (Clear(o) => Alone(o)) /\ d \in Engine
  BY <1>o, Before
<1>3. /\ rec' = rec /\ archived' = archived /\ accepted' = accepted /\ crashes' = crashes
      /\ restarts' = restarts /\ tasks' = tasks /\ TaskIds' = TaskIds
      /\ calls[c].at = "new" /\ ~e.busy
  BY DEF Prompt, PromptMakesRoom, TaskIds
<1>4. /\ f \in Engine /\ f.reserved /\ f.child = e.child /\ f.work = e.work /\ f.busy = e.busy
      /\ f.making = e.making /\ f.waiter = e.waiter /\ f.task = e.task
      /\ f.pendingSend = e.pendingSend /\ f.sentTask = e.sentTask /\ f.saving = e.saving
      /\ f.capped = e.capped /\ f.known = e.known /\ f.stop = e.stop
  BY <1>0 DEF Engine
<1>5. /\ g \in Engine
      /\ g.child \in {"none", "dying"} /\ (g.child = "none" => d.child = "none")
      /\ (g.child = "dying" => d.child # "none") /\ g.work = d.work /\ g.busy = d.busy
      /\ g.reserved = d.reserved /\ g.waiter = d.waiter /\ g.task = d.task
      /\ g.pendingSend = d.pendingSend /\ g.sentTask = d.sentTask /\ g.saving = d.saving
      /\ g.capped = d.capped /\ g.known = d.known /\ g.stop = d.stop
  BY <1>2 DEF Engine, Stopped
<1>6. /\ st' \in [Sids -> Engine] /\ st'[s] = f /\ st'[o] = g
      /\ \A x \in Sids \ {s, o} : st'[x] = st[x]
  BY <1>1, <1>t, <1>o, <1>4, <1>5
<1> HIDE DEF f, g
<1>7. /\ calls' \in [Calls -> Asking] /\ \A x \in Calls \ {c} : calls'[x] = calls[x]
      /\ calls'[c].at = "admit" /\ calls'[c].sid = s /\ calls'[c].spare = o
  BY <1>t, <1>1, <1>o, GoesCall DEF Types
<1>8. /\ crossed' \in [Sids -> Nat] /\ \A x \in Sids \ {s} : crossed'[x] = crossed[x]
      /\ (Clear(s)' => Clear(s) /\ ~Meets(s, {"admit"}))
  BY <1>t, CrossesBut DEF Prompt, Types
<1>9. Clear(s)' =>
        /\ Clear(s) /\ st[s].stop = "none" /\ (st[s].child = "dying" => st[s].work = 0)
        /\ \A x \in Calls : calls[x].sid = s => calls[x].at # "admit"
        /\ \A t \in TaskIds : tasks[t].sid = s /\ tasks[t].abort => tasks[t].at = "over"
  BY <1>8 DEF Meets
<1>10. (Clear(s)' => \A t \in TaskIds : tasks[t].sid = s => tasks[t].at \in {"ended", "over"})
  BY <1>0, <1>3, <1>9 DEF Own, Alone, Works, Live, Driven, Task, Stages
<1>11. (Clear(s)' => e.work = 0 /\ \A x \in Calls : ~Placing(x, s))
  BY <1>0, <1>3, <1>9, <1>10 DEF Own, Alone, Waits, Placing, WorksOn, Engine, Belongs
<1>12. (Clear(o)' => Clear(o) /\ \A x \in Calls : ~Placing(x, o))
  BY <1>2, <1>o, <1>8 DEF Alone, Waits, Placing, Clear
<1>13. Own(s)'
  BY <1>0, <1>3, <1>4, <1>6, <1>7, <1>9, <1>10, <1>11
  DEF Own, Belongs, Pre
<1>14. Clear(s)' => Single(s)' /\ Waits(s)'
  BY <1>0, <1>3, <1>4, <1>6, <1>7, <1>9, <1>10, <1>11
  DEF Own, Belongs, Clear, Alone, Single, Waits, Works, WorksOn, Placing, Live
<1>15. Clear(s)' => Works(s)'
  BY <1>0, <1>3, <1>4, <1>6, <1>7, <1>9, <1>10, <1>11
  DEF Own, Belongs, Clear, Alone, Single, Works, WorksOn, Live, Driven, Pre
<1>16. Clear(s)' => WorksOn(s)' /\ Heard(s)'
  BY <1>0, <1>3, <1>4, <1>6, <1>7, <1>9, <1>10, <1>11
  DEF Own, Belongs, Clear, Alone, Single, Works, WorksOn, Heard, Live, Pre
<1>17. Holds(s)'
  BY <1>13, <1>14, <1>15, <1>16 DEF Holds, Alone
<1>18. Own(o)'
  BY <1>0, <1>2, <1>o, <1>3, <1>5, <1>6, <1>7, <1>8, <1>12
  DEF Own, Belongs, Pre
<1>19. Clear(o)' => Single(o)' /\ Waits(o)'
  BY <1>0, <1>2, <1>o, <1>3, <1>5, <1>6, <1>7, <1>8, <1>12
  DEF Own, Belongs, Clear, Alone, Single, Waits, Works, WorksOn, Placing, Live
<1>20. Clear(o)' => Works(o)'
  BY <1>0, <1>2, <1>o, <1>3, <1>5, <1>6, <1>7, <1>8, <1>12
  DEF Own, Belongs, Clear, Alone, Single, Works, WorksOn, Live, Driven, Pre
<1>21. Clear(o)' => WorksOn(o)' /\ Heard(o)'
  BY <1>0, <1>2, <1>o, <1>3, <1>5, <1>6, <1>7, <1>8, <1>12
  DEF Own, Belongs, Clear, Alone, Single, Works, WorksOn, Heard, Live, Pre
<1>22. Holds(o)'
  BY <1>18, <1>19, <1>20, <1>21 DEF Holds, Alone
<1>23. \A x \in Sids \ {s, o} : Apart(x)
  BY <1>0, <1>3, <1>6, <1>7, <1>8 DEF Apart, Placing
<1>24. \A x \in Sids \ {s, o} : Holds(x)'
  BY <1>23, ApartHolds
<1>25. Types'
  BY <1>t, <1>o, <1>3, <1>6, <1>7, <1>8 DEF Types
<1>26. ASSUME MaxLive = 1, Limit PROVE Limit'
  <2>1. \A x \in Calls : calls[x].at = "admit" => calls'[x] = calls[x]
    BY <1>3, <1>7
  <2>2. ASSUME NEW x \in Sids \ {s, o}
        PROVE  /\ Clear(x)' <=> Clear(x)
               /\ Place(x)' <=> Place(x)
               /\ BusyTrue(x) => BusyTrue(x)'
               /\ MakesRoom(x) => MakesRoom(x)'
    BY <1>23, <2>1, <2>2, ApartLimit
  <2>3. (Clear(s)' => BusyTrue(s)') /\ (Clear(o)' => BusyTrue(o)')
    BY <1>o, <1>3, <1>4, <1>5, <1>6, <1>7, <1>9, <1>10, <1>12, <1>26
    DEF BusyTrue, Commits, Limit, Live
  <2>4. ASSUME AllClear'
        PROVE  (\A x \in Sids : MakesRoom(x)') /\ OnePlace' /\ OneRemains'
    <3>1. AllClear
      BY <1>9, <1>12, <1>o, <2>2, <2>4 DEF AllClear
    <3>2. Place(o) /\ IsLive(o)
      BY <1>1, <1>o, LivePlace DEF IdleKept
    <3>3. Clear(o) /\ Alone(o)
      BY <1>2, <1>o, <3>1 DEF AllClear
    <3>4. \A t \in TaskIds : tasks[t].sid = o => ~AtWork(t)
      BY <1>o, <3>3 DEF Alone, Works, AtWork, Live, Driven
    <3>5. d.child = "up"
      BY <3>2, <3>4 DEF IsLive, Booting, AtWork, Driven
    <3>6. ~Place(o)'
      BY <1>o, <1>3, <1>5, <1>6, <1>7, <1>12, <2>4, <3>4
      DEF Place, Commits, Placing, AllClear, AtWork
    <3>7. MakesRoom(o)'
      BY <1>o, <1>2, <1>5, <1>6, <1>7, <3>5 DEF MakesRoom
    <3>8. ASSUME e.making PROVE FALSE
      <4>1. PICK x \in Calls : calls[x].at = "admit" /\ calls[x].spare = s
        BY <1>26, <3>1, <3>8 DEF Limit, MakesRoom
      <4>2. calls[x].sid \in Sids \ {s}
        BY <4>1 DEF Inv, Types
      <4>3. st[calls[x].sid].reserved
        BY <3>1, <4>1, <4>2, Before DEF AllClear, Alone, Waits, Placing
      <4> QED BY <1>26, <1>o, <3>1, <3>2, <4>2, <4>3 DEF Limit, OnePlace, Place
    <3>9. MakesRoom(s)'
      BY <1>4, <1>6, <3>8 DEF MakesRoom
    <3>10. \A x \in Sids : MakesRoom(x)'
      BY <1>26, <2>2, <3>1, <3>7, <3>9 DEF Limit
    <3>11. \A x \in Sids \ {s, o} : ~Place(x)
      BY <1>26, <1>o, <3>1, <3>2 DEF Limit, OnePlace
    <3>12. OnePlace'
      BY <2>2, <3>6, <3>11 DEF OnePlace
    <3>13. OneRemains'
      BY <1>3, <1>26, <3>1 DEF OneRemains, Remaining, Limit
    <3> QED BY <3>10, <3>12, <3>13
  <2>5. ASSUME NEW x \in Sids, Clear(x)' PROVE BusyTrue(x)'
    BY <1>26, <2>2, <2>3, <2>5 DEF Limit
  <2> QED BY <2>4, <2>5 DEF Limit
<1> QED BY <1>17, <1>22, <1>24, <1>25, <1>26 DEF Inv, KeepsLimit

(* A child told to stop is gone.                                            *)
LEMMA DiesTasks ==
  ASSUME Inv, NEW s \in Sids, Dies(s)
  PROVE  /\ tasks' \in Seq(Task) /\ TaskIds' = TaskIds
         /\ \A t \in TaskIds :
              /\ tasks'[t].sid = tasks[t].sid /\ tasks'[t].req = tasks[t].req
              /\ tasks'[t].attempt = tasks[t].attempt /\ tasks'[t].cont = tasks[t].cont
              /\ tasks'[t].abort = tasks[t].abort
              /\ tasks'[t].at = IF t = st[s].waiter \/ (tasks[t].sid = s /\ tasks[t].at = "killing")
                               THEN "ended" ELSE tasks[t].at
<1>1. tasks \in Seq(Task) /\ \A t \in TaskIds : tasks[t] \in Task
  BY Before
<1>2. \A t \in TaskIds : [tasks[t] EXCEPT !.at = "ended"] \in Task
  BY <1>1 DEF Task, Stages
<1>3. tasks' = [t \in TaskIds |->
        IF t = st[s].waiter THEN [tasks[t] EXCEPT !.at = "ended"]
        ELSE IF tasks[t].sid = s /\ tasks[t].at = "killing" THEN [tasks[t] EXCEPT !.at = "ended"]
        ELSE tasks[t]]
  BY DEF Dies
<1>4. tasks' \in Seq(Task) /\ Len(tasks') = Len(tasks)
  BY <1>1, <1>2, <1>3 DEF TaskIds
<1>5. TaskIds' = TaskIds
  BY <1>4 DEF TaskIds
<1>6. \A t \in TaskIds :
        tasks'[t] = IF t = st[s].waiter \/ (tasks[t].sid = s /\ tasks[t].at = "killing")
                    THEN [tasks[t] EXCEPT !.at = "ended"] ELSE tasks[t]
  BY <1>3
<1> QED BY <1>1, <1>4, <1>5, <1>6 DEF Task

(* What is left of its session's state.                                     *)
Left(s, e, f) ==
  /\ f \in Engine /\ f.child = "none" /\ f.work = 0 /\ f.waiter = 0 /\ f.task \in {0, e.task}
  /\ f.sentTask \in {0, e.sentTask} /\ f.saving \in {0, e.saving}
  /\ f.pendingSend \in {0, e.pendingSend}
  /\ f.saving # 0 => f.sentTask = e.sentTask
  /\ f.capped => e.capped
  /\ ~f.making /\ (f.busy => e.busy) /\ (f.reserved => e.reserved)
  /\ e.waiter # 0 => ~f.busy
  /\ e.stop = "kill" => f.stop \in {"forget", "gone"} /\ ~f.busy
  /\ e.stop # "kill" => f.stop = e.stop /\ f.reserved = e.reserved /\ f.known = e.known
  /\ e.stop # "kill" /\ e.waiter = 0 => f.busy = e.busy

After(e) ==
  LET failed == IF e.waiter = 0 THEN e ELSE RunFailed(e)
  IN  [failed EXCEPT !.child = "none", !.work = 0, !.idle = FALSE, !.waiter = 0, !.making = FALSE]

Remains(s) == IF st[s].stop = "kill" THEN StopDone(s, After(st[s])) ELSE After(st[s])

LEMMA AfterLeft ==
  ASSUME NEW e \in Engine
  PROVE  /\ After(e) \in Engine /\ After(e).child = "none" /\ After(e).work = 0
         /\ After(e).waiter = 0 /\ After(e).task \in {0, e.task} /\ ~After(e).making
         /\ After(e).sentTask = e.sentTask /\ After(e).saving = e.saving
         /\ After(e).pendingSend = e.pendingSend /\ After(e).capped = e.capped
         /\ After(e).stop = e.stop /\ After(e).reserved = e.reserved
         /\ After(e).known = e.known
         /\ e.waiter # 0 => ~After(e).busy
         /\ e.waiter = 0 => After(e).busy = e.busy
<1>1. CASE e.waiter = 0
  BY <1>1 DEF After, Engine
<1>2. CASE e.waiter # 0
  <2> DEFINE r == RunFailed(e)
  <2>1. /\ r \in Engine /\ ~r.busy /\ r.task = 0 /\ r.sentTask = e.sentTask /\ r.saving = e.saving
        /\ r.pendingSend = e.pendingSend /\ r.capped = e.capped /\ r.stop = e.stop
        /\ r.reserved = e.reserved /\ r.known = e.known
    BY RunFailedBut DEF But, Fields
  <2> DEFINE b == [r EXCEPT !.child = "none", !.work = 0, !.idle = FALSE, !.waiter = 0,
                            !.making = FALSE]
  <2>2. After(e) = b
    BY <1>2 DEF After
  <2> HIDE DEF r
  <2>3. /\ b.child = "none" /\ b.work = 0 /\ b.waiter = 0 /\ ~b.making /\ b.busy = r.busy
        /\ b.sentTask = r.sentTask /\ b.saving = r.saving /\ b.pendingSend = r.pendingSend
        /\ b.capped = r.capped /\ b.stop = r.stop /\ b.reserved = r.reserved /\ b.task = r.task
        /\ b.known = r.known
    BY <2>1 DEF Engine
  <2>4. b \in Engine
    BY <2>1 DEF Engine
  <2> HIDE DEF b
  <2> QED BY <1>2, <2>1, <2>2, <2>3, <2>4
<1> QED BY <1>1, <1>2

LEMMA RemainsLeft ==
  ASSUME NEW s \in Sids, st[s] \in Engine
  PROVE  Left(s, st[s], Remains(s))
<1> DEFINE e == st[s]
           a == After(st[s])
<1>0. e \in Engine
  OBVIOUS
<1>1. /\ a \in Engine /\ a.child = "none" /\ a.work = 0
      /\ a.waiter = 0 /\ a.task \in {0, e.task}
      /\ a.sentTask = e.sentTask /\ a.saving = e.saving
      /\ a.pendingSend = e.pendingSend /\ a.capped = e.capped
      /\ a.stop = e.stop /\ a.reserved = e.reserved /\ a.known = e.known /\ ~a.making
      /\ (e.waiter # 0 => ~a.busy)
      /\ (e.waiter = 0 => a.busy = e.busy)
  BY AfterLeft
<1> HIDE DEF a
<1>2. CASE e.stop # "kill"
  BY <1>1, <1>2 DEF Remains, Left, a
<1>3. CASE e.stop = "kill" /\ s \notin archived
  <2> DEFINE f == StopDone(s, a)
  <2>1. /\ f \in Engine /\ f.child = a.child /\ f.work = a.work /\ f.waiter = a.waiter
        /\ f.task = a.task /\ f.sentTask = a.sentTask /\ f.saving = a.saving
        /\ f.pendingSend = a.pendingSend /\ f.capped = a.capped /\ ~f.busy /\ f.stop = "forget"
        /\ f.making = a.making /\ f.reserved = a.reserved
    BY <1>1, <1>3, StopDoneBut DEF But, Fields
  <2>2. Remains(s) = f
    BY <1>3 DEF Remains, a
  <2> HIDE DEF f
  <2> QED BY <1>1, <1>3, <2>1, <2>2 DEF Left
<1>4. CASE e.stop = "kill" /\ s \in archived
  <2> DEFINE f == [Fresh EXCEPT !.stop = "gone"]
  <2>1. /\ f \in Engine /\ f.child = "none" /\ f.work = 0 /\ f.waiter = 0 /\ f.task = 0
        /\ f.sentTask = 0 /\ f.saving = 0 /\ f.pendingSend = 0 /\ ~f.capped /\ ~f.busy
        /\ f.stop = "gone" /\ ~f.making /\ ~f.reserved
    BY DEF Fresh, Engine
  <2>2. Remains(s) = f
    BY <1>4 DEF Remains, StopDone
  <2> HIDE DEF f
  <2> QED BY <1>4, <2>1, <2>2 DEF Left
<1> QED BY <1>2, <1>3, <1>4

LEMMA DiesInv ==
  ASSUME Inv, NEW s \in Sids, Dies(s)
  PROVE  Inv' /\ Quiet /\ KeepsLimit
<1> DEFINE e == st[s]
           f == Remains(s)
           waiting == {c \in Calls : calls[c].at = "admit" /\ calls[c].spare = s}
           taken == {calls[c].sid : c \in waiting}
<1>0. /\ Own(s) /\ (Clear(s) => Alone(s)) /\ e \in Engine
      /\ 0 \notin TaskIds /\ \A t \in TaskIds : tasks[t] \in Task
  BY Before
<1>t. Types /\ st \in [Sids -> Engine] /\ tasks \in Seq(Task) /\ calls \in [Calls -> Asking]
  BY Before DEF Types
<1>w. s \notin taken /\ taken \subseteq Sids
  BY <1>t DEF Types
<1>1. /\ rec' = rec /\ accepted' = accepted /\ crossed' = crossed /\ crashes' = crashes
      /\ restarts' = restarts /\ e.child = "dying"
      /\ archived' = IF e.stop = "kill" THEN archived \union {s} ELSE archived
  BY DEF Dies, worldVars
<1>2. st' = [o \in Sids |->
        IF o \in taken THEN Takes([st EXCEPT ![s] = f][o]) ELSE [st EXCEPT ![s] = f][o]]
  BY DEF Dies, Remains, After
<1>3. Left(s, e, f)
  BY <1>0, RemainsLeft
<1>4. /\ f \in Engine /\ f.child = "none" /\ f.work = 0 /\ f.waiter = 0 /\ f.task \in {0, e.task}
      /\ f.sentTask \in {0, e.sentTask} /\ f.saving \in {0, e.saving}
      /\ f.pendingSend \in {0, e.pendingSend}
      /\ (f.saving # 0 => f.sentTask = e.sentTask)
      /\ (f.capped => e.capped) /\ (e.waiter # 0 => ~f.busy)
      /\ ~f.making /\ (f.busy => e.busy) /\ (f.reserved => e.reserved)
      /\ (e.stop = "kill" => f.stop \in {"forget", "gone"} /\ ~f.busy)
      /\ (e.stop # "kill" => f.stop = e.stop /\ f.reserved = e.reserved /\ f.known = e.known)
      /\ (e.stop # "kill" /\ e.waiter = 0 => f.busy = e.busy)
  BY <1>3 DEF Left
<1> HIDE DEF f
<1>5. /\ st'[s] = f
      /\ \A o \in Sids \ {s} : st'[o] = IF o \in taken THEN Takes(st[o]) ELSE st[o]
  BY <1>t, <1>w, <1>2
<1>6. st' \in [Sids -> Engine]
  <2>1. \A o \in Sids : Takes(st[o]) \in Engine /\ st[o] \in Engine
    BY <1>t, TakesBut DEF But
  <2>2. DOMAIN st' = Sids /\ st' = [o \in Sids |-> st'[o]]
    BY <1>2
  <2> QED BY <2>1, <2>2, <1>4, <1>5
<1>7. /\ tasks' \in Seq(Task) /\ TaskIds' = TaskIds
      /\ \A t \in TaskIds :
           /\ tasks'[t].sid = tasks[t].sid /\ tasks'[t].req = tasks[t].req
           /\ tasks'[t].attempt = tasks[t].attempt /\ tasks'[t].cont = tasks[t].cont
           /\ tasks'[t].abort = tasks[t].abort
           /\ tasks'[t].at = IF t = e.waiter \/ (tasks[t].sid = s /\ tasks[t].at = "killing")
                            THEN "ended" ELSE tasks[t].at
  BY DiesTasks
<1>8. calls' = [c \in Calls |->
        IF c \in waiting THEN [calls[c] EXCEPT !.at = "commit", !.spare = 0] ELSE calls[c]]
  BY DEF Dies
<1>9. /\ calls' \in [Calls -> Asking]
      /\ \A c \in Calls : /\ calls'[c].sid = calls[c].sid /\ calls'[c].req = calls[c].req
                          /\ c \notin waiting => calls'[c] = calls[c]
                          /\ c \in waiting => calls'[c].at = "commit"
  <2>1. \A c \in Calls :
          LET k == [calls[c] EXCEPT !.at = "commit", !.spare = 0]
          IN  k \in Asking /\ k.sid = calls[c].sid /\ k.req = calls[c].req /\ k.at = "commit"
    BY <1>t DEF Asking
  <2> QED BY <2>1, <1>t, <1>8
<1>v. \A c \in Calls : c \in waiting <=> calls[c].at = "admit" /\ calls[c].spare = s
  OBVIOUS
<1>10. \A c \in waiting : calls[c].at = "admit" /\ calls[c].sid \in taken
  OBVIOUS
<1>11. \A c \in Calls : calls[c].sid \notin taken => calls'[c] = calls[c]
  BY <1>9
<1> HIDE DEF waiting, taken
<1>p. ASSUME Clear(s), NEW c \in Calls, Placing(c, s) PROVE e.waiter = 0 /\ e.stop = "none"
  BY <1>p, <1>0 DEF Own, Belongs, Alone, Waits
<1>q. \A c \in Calls : (Placing(c, s)' <=> Placing(c, s)) /\ (Placing(c, s) => calls'[c].at = calls[c].at)
  BY <1>w, <1>9, <1>11 DEF Placing
<1>12. Own(s)'
  BY <1>0, <1>w, <1>1, <1>4, <1>5, <1>7, <1>p, <1>q
  DEF Own, Belongs, Pre
<1>13. Clear(s)' => Single(s)' /\ Waits(s)'
  BY <1>0, <1>w, <1>1, <1>4, <1>5, <1>7, <1>p, <1>q
  DEF Own, Belongs, Clear, Alone, Single, Waits, Works, WorksOn, Live, Pre, Driven
<1>14. Clear(s)' => Works(s)'
  BY <1>0, <1>w, <1>1, <1>4, <1>5, <1>7, <1>p, <1>q
  DEF Own, Belongs, Clear, Alone, Single, Works, WorksOn, Live, Driven, Pre, Waits
<1>15. Clear(s)' => WorksOn(s)' /\ Heard(s)'
  BY <1>0, <1>w, <1>1, <1>4, <1>5, <1>7, <1>p, <1>q
  DEF Own, Belongs, Clear, Alone, Single, Works, WorksOn, Heard, Live, Pre
<1>16. Holds(s)'
  BY <1>12, <1>13, <1>14, <1>15 DEF Holds, Alone
<1>17. ASSUME NEW o \in taken PROVE Holds(o)'
  <2> DEFINE d == st[o]
             g == Takes(st[o])
  <2>1. o \in Sids /\ o # s /\ Own(o) /\ (Clear(o) => Alone(o)) /\ d \in Engine
    BY <1>w, <1>17, Before
  <2>2. But(d, g, {"busy", "reserved"}) /\ g.busy /\ ~g.reserved
    BY <2>1, TakesBut
  <2> HIDE DEF g
  <2>3. /\ g \in Engine /\ g.child = d.child /\ g.work = d.work /\ g.making = d.making
        /\ g.waiter = d.waiter /\ g.task = d.task /\ g.pendingSend = d.pendingSend
        /\ g.sentTask = d.sentTask /\ g.saving = d.saving /\ g.capped = d.capped
        /\ g.known = d.known /\ g.stop = d.stop
    BY <2>2 DEF But, Fields
  <2>4. st'[o] = g
    BY <2>1, <1>5, <1>17 DEF g
  <2>5. \A t \in TaskIds : tasks[t].sid = o => tasks'[t].at = tasks[t].at
    BY <2>1, <1>0, <1>7 DEF Own, Belongs
  <2>6. PICK c \in Calls : c \in waiting /\ calls[c].sid = o /\ calls[c].at = "admit"
    BY <1>17 DEF taken, waiting
  <2>7. Clear(o) => /\ d.stop = "none" /\ d.work = 0 /\ \A x \in Calls : Placing(x, o) => x = c
                    /\ \A t \in TaskIds : tasks[t].sid = o => tasks[t].at \in {"ended", "over"}
    BY <2>1, <2>6 DEF Alone, Waits, Placing
  <2>8. /\ \A x \in Calls : Placing(x, o)' => Placing(x, o)
        /\ calls'[c].at = "commit"
    BY <1>9, <1>10, <2>6 DEF Placing
  <2>9. o \in archived' => o \in archived
    BY <1>1, <2>1
  <2>10. Own(o)'
    BY SMTT(30), <1>0, <1>1, <1>7, <2>1, <2>2, <2>3, <2>4, <2>5, <2>9 DEF Own, Belongs, Pre
  <2>11. Clear(o)' => Single(o)' /\ Waits(o)'
    BY <1>0, <1>1, <1>7, <2>1, <2>2, <2>3, <2>4, <2>5, <2>7, <2>8 DEF Clear, Alone, Single, Waits
  <2>12. Clear(o)' => Works(o)' /\ WorksOn(o)' /\ Heard(o)'
    BY <1>0, <1>1, <1>7, <2>1, <2>2, <2>3, <2>4, <2>5, <2>7
    DEF Clear, Alone, Works, WorksOn, Heard, Live, Own, Belongs
  <2> QED BY <2>10, <2>11, <2>12 DEF Holds, Alone
<1>18. ASSUME NEW o \in Sids, o # s, o \notin taken PROVE Apart(o)
  <2>1. st'[o] = st[o] /\ (o \in archived' => o \in archived)
    BY <1>1, <1>5, <1>18
  <2>2. \A t \in TaskIds : tasks[t].sid = o => tasks'[t].at = tasks[t].at
    BY <1>0, <1>7, <1>18 DEF Own, Belongs
  <2>3. \A c \in Calls : calls'[c].sid = o \/ calls[c].sid = o => calls'[c] = calls[c]
    BY <1>9, <1>11, <1>18
  <2> QED BY <1>1, <1>7, <2>1, <2>2, <2>3 DEF Apart, Placing
<1>19. \A o \in Sids : Holds(o)'
  BY <1>16, <1>17, <1>18, ApartHolds
<1>20. \A c \in Calls :
         /\ calls'[c].at \in {"admit", "commit", "steer"} => calls'[c].sid \in Sids
         /\ calls'[c].at = "admit" => calls'[c].spare \in Sids \ {calls'[c].sid}
  BY <1>t, <1>9, <1>10 DEF Types
<1>21. Types'
  BY <1>t, <1>1, <1>6, <1>7, <1>9, <1>20 DEF Types
<1>22. \A o \in Sids : o \notin archived' => st[o].known \subseteq st'[o].known
  <2>1. \A o \in Sids : Takes(st[o]).known = st[o].known
    BY <1>t, TakesBut DEF But, Fields
  <2> QED BY <2>1, <1>1, <1>4, <1>5
<1>23. Quiet
  BY <1>1, <1>7, <1>9, <1>10, <1>22 DEF Quiet, Placing, Clear
<1>24. ASSUME MaxLive = 1, Limit PROVE Limit'
  <2>1. \A o \in Sids : Clear(o)' <=> Clear(o)
    BY <1>1 DEF Clear
  <2>2. ASSUME NEW o \in Sids, o # s, o \notin taken
        PROVE  /\ Place(o)' => Place(o)
               /\ BusyTrue(o) => BusyTrue(o)'
    <3>1. st'[o] = st[o] /\ \A c \in Calls : Commits(c, o)' <=> Commits(c, o)
      BY <1>5, <1>9, <1>10, <2>2 DEF Commits
    <3>2. \A t \in TaskIds : tasks[t].sid = o => tasks'[t].at = tasks[t].at
      BY <1>0, <1>7, <2>2 DEF Own, Belongs
    <3> QED BY <1>7, <3>1, <3>2 DEF Place, BusyTrue, AtWork, Live, Driven
  <2>3. ASSUME NEW o \in taken, Clear(o)
        PROVE  Place(o) /\ st[o].reserved /\ BusyTrue(o)'
    <3>1. o \in Sids /\ o # s /\ Alone(o)
      BY <1>w, <2>3, Before
    <3>2. PICK c \in Calls : c \in waiting /\ calls[c].sid = o /\ calls[c].at = "admit"
      BY <2>3 DEF taken, waiting
    <3>3. /\ st[o].reserved
          /\ \A t \in TaskIds : tasks[t].sid = o => tasks[t].at \in {"ended", "over"}
      BY <3>1, <3>2 DEF Alone, Waits, Placing
    <3>4. Commits(c, o)'
      BY <1>9, <3>2 DEF Commits
    <3>5. BusyTrue(o)'
      BY <1>7, <3>3, <3>4 DEF BusyTrue
    <3> QED BY <3>3, <3>5 DEF Place
  <2>4. \A c \in Calls : Commits(c, s)' <=> Commits(c, s)
    BY <1>q, <1>9 DEF Commits, Placing
  <2>5. Place(s)' => Place(s)
    BY <1>4, <1>5, <1>7, <2>4 DEF Place, AtWork, Driven
  <2>6. Clear(s) => BusyTrue(s)'
    BY <1>0, <1>4, <1>5, <1>7, <1>24, <2>4 DEF BusyTrue, Live, Limit
  <2>7. \A o \in Sids : Clear(o)' => BusyTrue(o)'
    BY <1>24, <2>1, <2>2, <2>3, <2>6 DEF Limit
  <2>8. ASSUME AllClear'
        PROVE  (\A o \in Sids : MakesRoom(o)') /\ OnePlace' /\ OneRemains'
    <3>1. AllClear
      BY <2>1, <2>8 DEF AllClear
    <3>2. \A o \in Sids : Place(o)' => Place(o)
      BY <2>2, <2>3, <2>5, <3>1 DEF AllClear
    <3>3. OnePlace'
      BY <1>24, <3>1, <3>2 DEF Limit, OnePlace
    <3>4. \A t \in TaskIds : Remaining(t)' => Remaining(t)
      BY <1>0, <1>7 DEF Remaining, Own
    <3>5. OneRemains'
      BY <1>7, <1>24, <3>1, <3>4 DEF Limit, OneRemains
    <3>6. ASSUME NEW o \in Sids PROVE MakesRoom(o)'
      <4>1. CASE o = s
        BY <1>4, <1>5, <4>1 DEF MakesRoom
      <4>2. CASE o \in taken
        <5>1. ~st[o].making
          BY <1>24, <2>3, <3>1, <4>2 DEF Limit, MakesRoom, AllClear
        <5>2. Takes(st[o]).making = st[o].making
          BY <1>t, TakesBut DEF But, Fields
        <5> QED BY <1>w, <1>5, <4>2, <5>1, <5>2 DEF MakesRoom
      <4>3. CASE o # s /\ o \notin taken
        <5>1. st'[o] = st[o] /\ MakesRoom(o)
          BY <1>5, <1>24, <3>1, <4>3 DEF Limit
        <5>2. \A c \in Calls : calls[c].at = "admit" /\ calls[c].spare = o => calls'[c] = calls[c]
          BY <1>v, <1>9, <4>3
        <5> QED BY <5>1, <5>2 DEF MakesRoom
      <4> QED BY <4>1, <4>2, <4>3
    <3> QED BY <3>3, <3>5, <3>6
  <2> QED BY <2>7, <2>8 DEF Limit
<1> QED BY <1>19, <1>21, <1>23, <1>24 DEF Inv, KeepsLimit

-----------------------------------------------------------------------------
(* A set of task numbers has a greatest one.                                *)
LEMMA LeastNumber ==
  ASSUME NEW T, T \subseteq Nat, T # {}
  PROVE  \E x \in T : \A y \in T : x <= y
<1> DEFINE R == {ss \in Nat \X Nat : ss[1] < ss[2]}
<1>1. OpToRel(<,Nat) = R
  BY DEF OpToRel
<1>2. IsWellFoundedOn(R, Nat)
  BY <1>1, NatLessThanWellFounded
<1> HIDE DEF R
<1>3. PICK x \in T : \A y \in T : ~ (<<y, x>> \in R)
  BY <1>2, WFMin
<1>4. ASSUME NEW y \in T PROVE x <= y
  <2>1. <<y, x>> \in R <=> y < x
    BY DEF R
  <2> QED BY <1>3, <2>1
<1> QED BY <1>4

LEMMA GreatestNumber ==
  ASSUME NEW n \in Nat, NEW T, T \subseteq 1 .. n, T # {}
  PROVE  \E x \in T : \A y \in T : y <= x
<1> DEFINE D == {n - y : y \in T}
<1>1. \A y \in T : n - y \in Nat /\ y \in Nat
  OBVIOUS
<1>2. D \subseteq Nat /\ D # {}
  BY <1>1
<1>3. PICK d \in D : \A z \in D : d <= z
  BY <1>2, LeastNumber
<1>4. PICK x \in T : d = n - x
  OBVIOUS
<1>5. ASSUME NEW y \in T PROVE y <= x
  <2>1. d <= n - y
    BY <1>3
  <2> QED BY <2>1, <1>1, <1>4
<1> QED BY <1>5

(* The bridge starts again.                                                 *)
LEMMA RestartTasks ==
  ASSUME Inv, Restart
  PROVE  /\ tasks' \in Seq(Task) /\ TaskIds' = TaskIds /\ Len(tasks') = Len(tasks)
         /\ \A t \in TaskIds :
              /\ tasks'[t].sid = tasks[t].sid /\ tasks'[t].req = tasks[t].req
              /\ tasks'[t].attempt = tasks[t].attempt /\ tasks'[t].cont = tasks[t].cont
              /\ tasks'[t].at = IF tasks[t].at = "over" THEN "over" ELSE "ready"
              /\ tasks[t].at # "over" /\ tasks[t].sid \in archived => tasks'[t].abort
              /\ tasks[t].abort => tasks'[t].abort
<1>1. tasks \in Seq(Task) /\ \A t \in TaskIds : tasks[t] \in Task
  BY DEF Inv, Types, TaskIds
<1> DEFINE w(t) == [tasks[t] EXCEPT !.at = "ready", !.abort = @ \/ tasks[t].sid \in archived]
<1>2. \A t \in TaskIds :
        /\ w(t) \in Task /\ w(t).sid = tasks[t].sid /\ w(t).req = tasks[t].req
        /\ w(t).attempt = tasks[t].attempt /\ w(t).cont = tasks[t].cont /\ w(t).at = "ready"
        /\ (tasks[t].sid \in archived => w(t).abort) /\ (tasks[t].abort => w(t).abort)
  BY <1>1 DEF Task, Stages
<1>3. tasks' = [t \in TaskIds |-> IF tasks[t].at = "over" THEN tasks[t] ELSE w(t)]
  BY DEF Restart, Unfinished
<1> HIDE DEF w
<1>4. tasks' \in Seq(Task) /\ Len(tasks') = Len(tasks)
  BY <1>1, <1>2, <1>3 DEF TaskIds
<1>5. TaskIds' = TaskIds
  BY <1>4 DEF TaskIds
<1>6. \A t \in TaskIds : tasks'[t] = IF tasks[t].at = "over" THEN tasks[t] ELSE w(t)
  BY <1>3
<1> QED BY <1>2, <1>4, <1>5, <1>6

(* A session's state then.                                                  *)
Again0(s, f) ==
  /\ f \in Engine /\ f.child = "none" /\ f.work = 0 /\ f.waiter = 0 /\ f.pendingSend = 0
  /\ f.sentTask = 0 /\ f.saving = 0 /\ ~f.capped /\ ~f.reserved /\ ~f.making
  /\ Belongs(s, f.task) /\ (s \in archived => ~f.busy)
  /\ f.task # 0 => Unfinished(f.task)
  /\ f.stop = IF s \in archived THEN "gone" ELSE "none"
  /\ s \notin archived => (f.busy <=> \E t \in TaskIds : tasks[t].sid = s /\ Unfinished(t))

Restarted(s) ==
  LET T == {t \in TaskIds : tasks[t].sid = s /\ Unfinished(t)} IN
  IF s \in archived THEN [Fresh EXCEPT !.stop = "gone"]
  ELSE [Fresh EXCEPT !.busy = (T # {}),
                     !.task = IF T = {} THEN 0 ELSE CHOOSE t \in T : \A u \in T : u <= t]

LEMMA RestartState ==
  ASSUME Inv, NEW s \in Sids, Restart
  PROVE  Again0(s, st'[s])
<1> DEFINE T == {t \in TaskIds : tasks[t].sid = s /\ Unfinished(t)}
           m == IF T = {} THEN 0 ELSE CHOOSE t \in T : \A u \in T : u <= t
<1>1. st'[s] = IF s \in archived THEN [Fresh EXCEPT !.stop = "gone"]
               ELSE [Fresh EXCEPT !.busy = (T # {}), !.task = m]
  BY DEF Restart
<1>2. m # 0 => m \in T
  <2>1. CASE T # {}
    <3>1. \E t \in T : \A u \in T : u <= t
      <4>1. Len(tasks) \in Nat /\ T \subseteq 1 .. Len(tasks)
        BY Before DEF TaskIds
      <4> HIDE DEF T
      <4> QED BY <2>1, <4>1, GreatestNumber
    <3> HIDE DEF T
    <3> QED BY <2>1, <3>1
  <2> QED BY <2>1
<1>4. (T # {}) \in BOOLEAN /\ (T # {} <=> \E t \in TaskIds : tasks[t].sid = s /\ Unfinished(t))
  OBVIOUS
<1>5. m # 0 => m \in TaskIds /\ tasks[m].sid = s /\ Unfinished(m)
  BY <1>2
<1> HIDE DEF T, m
<1>3. m \in Nat
  BY <1>5 DEF TaskIds
<1>6. CASE s \in archived
  <2>1. st'[s] = [Fresh EXCEPT !.stop = "gone"]
    BY <1>1, <1>6
  <2> DEFINE f == [Fresh EXCEPT !.stop = "gone"]
  <2>2. /\ f \in Engine /\ f.child = "none" /\ f.work = 0 /\ f.waiter = 0 /\ f.pendingSend = 0
        /\ f.sentTask = 0 /\ f.saving = 0 /\ ~f.capped /\ f.task = 0 /\ f.stop = "gone"
        /\ ~f.reserved /\ ~f.making /\ ~f.busy
    BY DEF Fresh, Engine
  <2> HIDE DEF f
  <2>3. st'[s] = f
    BY <2>1 DEF f
  <2> QED BY <1>6, <2>2, <2>3 DEF Again0, Belongs
<1>7. CASE s \notin archived
  <2> DEFINE f == [Fresh EXCEPT !.busy = (T # {}), !.task = m]
  <2>1. /\ f \in Engine /\ f.child = "none" /\ f.work = 0 /\ f.waiter = 0 /\ f.pendingSend = 0
        /\ f.sentTask = 0 /\ f.saving = 0 /\ ~f.capped /\ f.task = m /\ f.stop = "none"
        /\ ~f.reserved /\ ~f.making
    BY <1>3, <1>4 DEF Fresh, Engine
  <2>2. f.busy = (T # {})
    BY DEF Fresh
  <2>3. st'[s] = f
    BY <1>1, <1>7
  <2> HIDE DEF f
  <2> QED BY <1>4, <1>5, <1>7, <2>1, <2>2, <2>3 DEF Again0, Belongs
<1> QED BY <1>6, <1>7

LEMMA RestartInv ==
  ASSUME Inv, Restart
  PROVE  Inv' /\ KeepsLimit
<1>1. /\ rec' = rec /\ archived' = archived /\ accepted' = accepted /\ crossed' = crossed
      /\ crashes' = crashes /\ restarts' = restarts + 1
  BY DEF Restart
<1>c. calls' = [c \in Calls |-> IF calls[c].at = "new" THEN calls[c] ELSE Call("done")]
  BY DEF Restart
<1>2. /\ tasks' \in Seq(Task) /\ TaskIds' = TaskIds
      /\ \A t \in TaskIds :
           /\ tasks'[t].sid = tasks[t].sid
           /\ tasks'[t].attempt = tasks[t].attempt /\ tasks'[t].cont = tasks[t].cont
           /\ tasks'[t].at = IF tasks[t].at = "over" THEN "over" ELSE "ready"
           /\ tasks[t].at # "over" /\ tasks[t].sid \in archived => tasks'[t].abort
           /\ tasks[t].abort => tasks'[t].abort
  BY RestartTasks
<1>3. Types
  BY DEF Inv
<1>4. Call("done") \in Asking /\ Call("done").at = "done"
  BY DEF Call, Asking, Reqs
<1>5. calls' \in [Calls -> Asking] /\ \A c \in Calls : calls'[c].at \in {"new", "done"}
  BY <1>c, <1>3, <1>4 DEF Types
<1>6. ASSUME NEW s \in Sids PROVE Holds(s)'
  <2> DEFINE f == st'[s]
  <2>1. Own(s) /\ (Clear(s) => Alone(s)) /\ 0 \notin TaskIds
    BY Before
  <2>2. Again0(s, f)
    BY RestartState
  <2>3. /\ f.child = "none" /\ f.work = 0 /\ f.waiter = 0 /\ f.pendingSend = 0
        /\ f.sentTask = 0 /\ f.saving = 0 /\ ~f.capped /\ Belongs(s, f.task)
        /\ (f.task # 0 => tasks[f.task].at # "over")
        /\ f.stop = (IF s \in archived THEN "gone" ELSE "none")
        /\ (s \notin archived => (f.busy <=> \E t \in TaskIds : tasks[t].sid = s /\ tasks[t].at # "over"))
    BY <2>2 DEF Again0, Unfinished
  <2>4. Own(s)'
    BY <1>1, <1>2, <2>1, <2>3 DEF Own, Belongs, Pre
  <2>5. Clear(s)' => Single(s)' /\ Waits(s)' /\ WorksOn(s)' /\ Heard(s)'
    BY <1>1, <1>2, <1>5, <2>1, <2>3 DEF Clear, Alone, Single, Waits, WorksOn, Heard, Placing
  <2>6. Clear(s)' => Works(s)'
    BY <1>1, <1>2, <2>1, <2>3 DEF Clear, Alone, Single, Works, Live, Belongs, Driven
  <2> QED BY <2>4, <2>5, <2>6 DEF Holds, Alone
<1>7. st' \in [Sids -> Engine]
  <2>1. \A s \in Sids : st'[s] \in Engine
    BY RestartState DEF Again0
  <2>2. st' = [s \in Sids |-> Restarted(s)]
    BY DEF Restart, Restarted
  <2> QED BY <2>1, <2>2
<1>8. /\ archived' \subseteq Sids /\ crossed' \in [Sids -> Nat] /\ rec' \in [Sids -> Record]
      /\ crashes' \in Nat /\ restarts' \in Nat
  BY <1>1, <1>3 DEF Types
<1>9. tasks' \in Seq(Task) /\ calls' \in [Calls -> Asking]
  BY <1>2, <1>5
<1>10. \A c \in Calls :
         /\ calls'[c].at \in {"admit", "commit", "steer"} => calls'[c].sid \in Sids
         /\ calls'[c].at = "admit" => calls'[c].spare \in Sids \ {calls'[c].sid}
  BY <1>5
<1>11. Types'
  BY <1>7, <1>8, <1>9, <1>10 DEF Types
<1>12. ASSUME MaxLive = 1, Limit PROVE Limit'
  <2>1. \A s \in Sids : Clear(s)' <=> Clear(s)
    BY <1>1 DEF Clear
  <2>2. \A c \in Calls, s \in Sids : ~Commits(c, s)'
    BY <1>5 DEF Commits
  <2>3. \A t \in TaskIds : Remaining(t)' => Remaining(t)
    BY <1>2 DEF Remaining
  <2>4. \A t \in TaskIds : AtWork(t)' => Remaining(t)
    BY <1>2 DEF AtWork, Remaining, Driven
  <2>5. ASSUME NEW s \in Sids PROVE BusyTrue(s)' /\ MakesRoom(s)'
    <3>1. /\ ~st'[s].making
          /\ st'[s].busy => \E t \in TaskIds : tasks[t].sid = s /\ tasks[t].at # "over"
      BY RestartState DEF Again0, Unfinished
    <3> QED BY <1>2, <3>1 DEF BusyTrue, MakesRoom, Live
  <2>6. ASSUME NEW s \in Sids, Place(s)'
        PROVE  \E t \in TaskIds : tasks[t].sid = s /\ Remaining(t)
    <3>1. st'[s].child = "none" /\ ~st'[s].reserved
      BY RestartState DEF Again0
    <3> QED BY <1>2, <2>2, <2>4, <2>6, <3>1 DEF Place
  <2>7. AllClear' => AllClear
    BY <2>1 DEF AllClear
  <2>8. AllClear' => OnePlace'
    BY <1>12, <2>6, <2>7 DEF OnePlace, OneRemains, Limit
  <2>9. AllClear' => OneRemains'
    BY <1>2, <1>12, <2>3, <2>7 DEF OneRemains, Limit
  <2> QED BY <2>5, <2>8, <2>9 DEF Limit
<1> QED BY <1>6, <1>11, <1>12 DEF Inv, KeepsLimit

-----------------------------------------------------------------------------
(* What the requests and the acceptances say.                               *)
Done == {c \in Calls : calls[c].at = "done"}

Asked ==
  /\ accepted \subseteq TaskIds
  /\ Len(tasks) <= Cardinality(Done)
  /\ \A s \in Sids, t \in TaskIds : tasks[t].sid = s /\ tasks[t].req # NoRequest =>
       /\ restarts = 0 /\ s \notin archived => tasks[t].req \in st[s].known
       /\ RequestIds = {tasks[t].req} =>
            rec[s].lastRequest = tasks[t].req \/ \E v \in TaskIds : v > t /\ tasks[v].sid = s
       /\ restarts = 0 /\ Clear(s) =>
            \A c \in Calls : Placing(c, s) => calls[c].req # tasks[t].req
  /\ OncePerRequest

(* More calls that are done make a greater number.                          *)
LEMMA DoneGrows ==
  ASSUME \A c \in Calls : calls[c].at = "done" => calls'[c].at = "done"
  PROVE  /\ Cardinality(Done) \in Nat /\ Cardinality(Done') \in Nat
         /\ Cardinality(Done) <= Cardinality(Done')
         /\ \A c \in Calls : calls[c].at # "done" /\ calls'[c].at = "done" =>
              Cardinality(Done) + 1 <= Cardinality(Done')
<1>1. IsFiniteSet(Done) /\ IsFiniteSet(Done')
  BY LcAssumption, FS_Subset DEF Done
<1>2. Done \subseteq Done'
  BY DEF Done
<1>3. Cardinality(Done) \in Nat /\ Cardinality(Done') \in Nat /\ Cardinality(Done) <= Cardinality(Done')
  BY <1>1, <1>2, FS_CardinalityType, FS_Subset
<1>4. ASSUME NEW c \in Calls, calls[c].at # "done", calls'[c].at = "done"
      PROVE  Cardinality(Done) + 1 <= Cardinality(Done')
  <2>1. Cardinality(Done \union {c}) = Cardinality(Done) + 1
    BY <1>1, <1>4, FS_AddElement DEF Done
  <2>2. Done \union {c} \subseteq Done'
    BY <1>2, <1>4 DEF Done
  <2>3. Cardinality(Done \union {c}) <= Cardinality(Done')
    BY <1>1, <2>2, FS_Subset
  <2> QED BY <1>3, <2>1, <2>3
<1> QED BY <1>3, <1>4

LEMMA CreateAsked ==
  ASSUME Inv, Inv', Asked, NEW s \in Sids, NEW c \in Calls, calls[c].sid = s,
         Create(c), ~Retried(s, calls[c].req)
  PROVE  Asked'
<1> DEFINE n == Len(tasks) + 1
           r == calls[c].req
<1>t. /\ Types /\ st \in [Sids -> Engine] /\ rec \in [Sids -> Record] /\ tasks \in Seq(Task)
      /\ calls \in [Calls -> Asking]
  BY DEF Inv, Types
<1>r. r \in Reqs
  BY <1>t DEF Asking
<1>1. /\ archived' = archived /\ accepted' = accepted /\ crossed' = crossed
      /\ restarts' = restarts /\ calls[c].at = "commit" /\ tasks' = Append(tasks, NewTask(s, r))
  BY DEF Create, worldVars
<1>2. /\ \A o \in Sids \ {s} : st'[o] = st[o]
      /\ st'[s].known = IF r = NoRequest THEN st[s].known ELSE st[s].known \union {r}
  <2>1. st' = [st EXCEPT ![s] = [Known(st[s], r) EXCEPT !.task = n]]
    BY <1>t DEF Create
  <2>2. [Known(st[s], r) EXCEPT !.task = n].known = Known(st[s], r).known
    BY <1>t DEF Known, Engine
  <2>3. Known(st[s], r).known = IF r = NoRequest THEN st[s].known ELSE st[s].known \union {r}
    BY <1>t, <1>r, KnownBut
  <2> HIDE DEF n, r
  <2> QED BY <1>t, <2>1, <2>2, <2>3
<1>3. rec'[s].lastRequest = r /\ \A o \in Sids \ {s} : rec'[o] = rec[o]
  BY <1>t, <1>r, RecordAsked DEF Create
<1>4. calls'[c].at = "done" /\ \A d \in Calls \ {c} : calls'[d] = calls[d]
  BY <1>t, ReturnsCall DEF Create
<1>5. NewTask(s, r).sid = s /\ NewTask(s, r).req = r
  BY DEF NewTask
<1>6. /\ TaskIds' = TaskIds \union {n} /\ n \notin TaskIds /\ Len(tasks') = n /\ n \in Nat
      /\ \A t \in TaskIds : tasks'[t] = tasks[t] /\ t < n /\ t \in Nat
      /\ tasks'[n] = NewTask(s, r)
  BY <1>t, <1>1 DEF TaskIds
<1>7. r = NoRequest \/ rec[s].lastRequest # r
  BY DEF Retried
<1>8. Clear(s) => \A d \in Calls : Placing(d, s) => d = c
  BY <1>1, Before DEF Alone, Waits, Placing
<1>9. \A t \in TaskIds : tasks[t].sid \in Sids
  <2>1. \A t \in TaskIds : tasks[t] \in Task
    BY Before
  <2> QED BY <2>1 DEF Task
<1> HIDE DEF n, r
<1>10. accepted' \subseteq TaskIds' /\ Len(tasks') <= Cardinality(Done')
  <2>1. /\ Cardinality(Done) \in Nat /\ Cardinality(Done') \in Nat
        /\ Cardinality(Done) + 1 <= Cardinality(Done')
    BY <1>1, <1>4, DoneGrows
  <2>2. Len(tasks) <= Cardinality(Done) /\ Len(tasks) \in Nat /\ n = Len(tasks) + 1
    BY <1>t DEF Asked, n
  <2> QED BY <1>1, <1>6, <2>1, <2>2 DEF Asked
<1>11. ASSUME NEW o \in Sids, NEW t \in TaskIds', tasks'[t].sid = o, tasks'[t].req # NoRequest
       PROVE  /\ restarts' = 0 /\ o \notin archived' => tasks'[t].req \in st'[o].known
              /\ RequestIds = {tasks'[t].req} =>
                   rec'[o].lastRequest = tasks'[t].req \/ \E v \in TaskIds' : v > t /\ tasks'[v].sid = o
              /\ restarts' = 0 /\ Clear(o)' =>
                   \A d \in Calls : Placing(d, o)' => calls'[d].req # tasks'[t].req
  <2>1. CASE o # s
    <3>1. t \in TaskIds /\ tasks'[t] = tasks[t] /\ st'[o] = st[o] /\ rec'[o] = rec[o]
      BY <2>1, <1>2, <1>3, <1>5, <1>6, <1>11
    <3>2. /\ restarts = 0 /\ o \notin archived => tasks[t].req \in st[o].known
          /\ RequestIds = {tasks[t].req} =>
               rec[o].lastRequest = tasks[t].req \/ \E v \in TaskIds : v > t /\ tasks[v].sid = o
          /\ restarts = 0 /\ Clear(o) => \A d \in Calls : Placing(d, o) => calls[d].req # tasks[t].req
      BY <3>1, <1>11 DEF Asked
    <3>3. Clear(o)' => Clear(o)
      BY <1>1 DEF Clear
    <3>4. \A d \in Calls : Placing(d, o)' => Placing(d, o) /\ calls'[d] = calls[d]
      BY <1>4 DEF Placing
    <3>5. \A v \in TaskIds : v \in TaskIds' /\ tasks'[v] = tasks[v]
      BY <1>6
    <3> QED BY <1>1, <3>1, <3>2, <3>3, <3>4, <3>5
  <2>2. CASE o = s
    <3>1. \A d \in Calls : Clear(o)' => ~Placing(d, o)'
      BY <2>2, <1>1, <1>4, <1>8 DEF Clear, Placing
    <3>2. restarts' = 0 /\ o \notin archived' => tasks'[t].req \in st'[o].known
      <4>1. CASE t = n
        BY <4>1, <2>2, <1>2, <1>5, <1>6, <1>11
      <4>2. CASE t \in TaskIds
        <5>1. tasks[t].sid = s /\ tasks[t].req # NoRequest /\ tasks'[t].req = tasks[t].req
          BY <4>2, <2>2, <1>6, <1>11
        <5>2. restarts = 0 /\ s \notin archived => tasks[t].req \in st[s].known
          BY <4>2, <5>1 DEF Asked
        <5> QED BY <2>2, <5>1, <5>2, <1>1, <1>2
      <4> QED BY <4>1, <4>2, <1>6
    <3>3. rec'[o].lastRequest = tasks'[t].req \/ \E v \in TaskIds' : v > t /\ tasks'[v].sid = o
      BY <2>2, <1>3, <1>5, <1>6
    <3> QED BY <3>1, <3>2, <3>3
  <2> QED BY <2>1, <2>2
<1>12. OncePerRequest'
  <2> SUFFICES ASSUME NEW t \in TaskIds', NEW u \in TaskIds',
                      t < u, tasks'[t].sid = tasks'[u].sid, crossed'[tasks'[t].sid] = 0,
                      tasks'[t].req # NoRequest, tasks'[t].req = tasks'[u].req
               PROVE  /\ restarts' > 0
                      /\ \/ \E v \in t + 1 .. u - 1 : tasks'[v].sid = tasks'[t].sid
                         \/ RequestIds # {tasks'[t].req}
    BY DEF OncePerRequest
  <2>1. t \in TaskIds /\ tasks'[t] = tasks[t] /\ t \in Nat
    BY <1>6
  <2>2. CASE u \in TaskIds
    <3>1. \A v \in t + 1 .. u - 1 : v \in TaskIds /\ tasks'[v] = tasks[v]
      BY <1>6, <2>1, <2>2 DEF TaskIds
    <3>2. /\ restarts > 0
          /\ \/ \E v \in t + 1 .. u - 1 : tasks[v].sid = tasks[t].sid
             \/ RequestIds # {tasks[t].req}
      <4>1. tasks'[u] = tasks[u]
        BY <1>6, <2>2
      <4> QED BY <1>1, <4>1, <2>1, <2>2 DEF Asked, OncePerRequest
    <3>3. restarts' > 0
      BY <1>1, <3>2
    <3> QED BY <2>1, <3>1, <3>2, <3>3
  <2>3. CASE u = n
    <3>1. tasks[t].sid = s /\ tasks[t].req = r /\ r # NoRequest /\ Clear(s)
      BY <1>1, <1>5, <1>6, <2>1, <2>3 DEF Clear
    <3>2. Placing(c, s) /\ calls[c].req = r
      BY <1>1 DEF Placing, r
    <3>3. restarts # 0
      BY <2>1, <3>1, <3>2 DEF Asked
    <3>4. RequestIds = {r} => \E v \in TaskIds : v > t /\ tasks[v].sid = s
      BY <1>7, <2>1, <3>1 DEF Asked
    <3>5. \A v \in TaskIds : v > t => v \in t + 1 .. u - 1 /\ tasks'[v] = tasks[v]
      BY <1>6, <2>1, <2>3 DEF TaskIds, n
    <3>6. restarts \in Nat
      BY <1>t DEF Types
    <3>7. RequestIds = {r} => \E v \in t + 1 .. u - 1 : tasks'[v].sid = tasks'[t].sid
      BY <2>1, <3>1, <3>4, <3>5
    <3>8. restarts' > 0
      BY <1>1, <3>3, <3>6
    <3>9. tasks'[t].req = r
      BY <2>1, <3>1
    <3> QED BY <3>7, <3>8, <3>9
  <2> QED BY <1>6, <2>2, <2>3
<1> QED BY <1>10, <1>11, <1>12 DEF Asked

(* Steps that create no task, and keep what each session has been asked.    *)
Kept ==
  /\ TaskIds' = TaskIds /\ Len(tasks') = Len(tasks)
  /\ \A t \in TaskIds : tasks'[t].sid = tasks[t].sid /\ tasks'[t].req = tasks[t].req
  /\ archived \subseteq archived' /\ accepted' \subseteq accepted \union TaskIds
  /\ restarts' = restarts \/ restarts' > 0
  /\ \A o \in Sids : Clear(o)' => Clear(o)
  /\ \A c \in Calls : calls[c].at = "done" => calls'[c].at = "done"

LEMMA KeptAsked ==
  ASSUME Inv, Asked, Kept,
         \A s \in Sids, t \in TaskIds : tasks[t].sid = s /\ tasks[t].req # NoRequest =>
           /\ restarts' = 0 /\ s \notin archived' => tasks[t].req \in st'[s].known
           /\ RequestIds = {tasks[t].req} /\ rec[s].lastRequest = tasks[t].req
                => rec'[s].lastRequest = tasks[t].req
           /\ restarts' = 0 /\ Clear(s)' =>
                \A c \in Calls : Placing(c, s)' => calls'[c].req # tasks[t].req
  PROVE  Asked'
<1>1. /\ TaskIds' = TaskIds /\ Len(tasks') = Len(tasks)
      /\ \A t \in TaskIds : tasks'[t].sid = tasks[t].sid /\ tasks'[t].req = tasks[t].req
      /\ restarts' = restarts \/ restarts' > 0
      /\ \A o \in Sids : Clear(o)' => Clear(o)
  BY DEF Kept
<1>2. accepted' \subseteq TaskIds' /\ Len(tasks') <= Cardinality(Done')
  <2>1. Len(tasks) \in Nat
    BY DEF Inv, Types
  <2>2. Cardinality(Done) \in Nat /\ Cardinality(Done') \in Nat /\ Cardinality(Done) <= Cardinality(Done')
    BY DoneGrows DEF Kept
  <2>3. Len(tasks) <= Cardinality(Done) /\ accepted' \subseteq TaskIds
    BY DEF Asked, Kept
  <2> QED BY <1>1, <2>1, <2>2, <2>3
<1>3. \A t \in TaskIds : tasks[t].sid \in Sids
  <2>1. tasks \in Seq(Task) /\ \A t \in TaskIds : tasks[t] \in Task
    BY DEF Inv, Types, TaskIds
  <2> QED BY <2>1 DEF Task
<1>4. ASSUME NEW s \in Sids, NEW t \in TaskIds, tasks[t].sid = s, tasks[t].req # NoRequest
      PROVE  RequestIds = {tasks[t].req} =>
               rec'[s].lastRequest = tasks[t].req \/ \E v \in TaskIds : v > t /\ tasks[v].sid = s
  <2>1. RequestIds = {tasks[t].req} =>
          rec[s].lastRequest = tasks[t].req \/ \E v \in TaskIds : v > t /\ tasks[v].sid = s
    BY <1>4 DEF Asked
  <2> QED BY <2>1, <1>4
<1>5. \A s \in Sids, t \in TaskIds' : tasks'[t].sid = s /\ tasks'[t].req # NoRequest =>
        /\ restarts' = 0 /\ s \notin archived' => tasks'[t].req \in st'[s].known
        /\ RequestIds = {tasks'[t].req} =>
             rec'[s].lastRequest = tasks'[t].req \/ \E v \in TaskIds' : v > t /\ tasks'[v].sid = s
        /\ restarts' = 0 /\ Clear(s)' =>
             \A c \in Calls : Placing(c, s)' => calls'[c].req # tasks'[t].req
  BY <1>1, <1>4
<1>6. OncePerRequest'
  <2> SUFFICES ASSUME NEW t \in TaskIds', NEW u \in TaskIds',
                      t < u, tasks'[t].sid = tasks'[u].sid, crossed'[tasks'[t].sid] = 0,
                      tasks'[t].req # NoRequest, tasks'[t].req = tasks'[u].req
               PROVE  /\ restarts' > 0
                      /\ \/ \E v \in t + 1 .. u - 1 : tasks'[v].sid = tasks'[t].sid
                         \/ RequestIds # {tasks'[t].req}
    BY DEF OncePerRequest
  <2>1. t \in TaskIds /\ u \in TaskIds /\ \A v \in t + 1 .. u - 1 : v \in TaskIds
    BY <1>1 DEF TaskIds
  <2>2. crossed[tasks[t].sid] = 0
    BY <1>1, <1>3, <2>1 DEF Clear
  <2>3. /\ restarts > 0
        /\ \/ \E v \in t + 1 .. u - 1 : tasks[v].sid = tasks[t].sid
           \/ RequestIds # {tasks[t].req}
    BY <1>1, <2>1, <2>2 DEF Asked, OncePerRequest
  <2> QED BY <1>1, <2>1, <2>3
<1> QED BY <1>2, <1>5, <1>6 DEF Asked

LEMMA QuietAsked ==
  ASSUME Inv, Inv', Asked, Quiet
  PROVE  Asked'
<1>1. ASSUME NEW m \in Nat, NEW n \in Nat, 1 .. m = 1 .. n PROVE m = n
  <2>1. (m # 0 => m \in 1 .. n) /\ (n # 0 => n \in 1 .. m)
    BY <1>1
  <2> QED BY <2>1
<1>2. Len(tasks') = Len(tasks)
  <2>1. tasks \in Seq(Task) /\ tasks' \in Seq(Task)
    BY DEF Inv, Types
  <2> QED BY <2>1, <1>1 DEF Quiet, TaskIds
<1>3. Kept
  BY <1>2 DEF Quiet, Kept
<1>4. ASSUME NEW s \in Sids, NEW t \in TaskIds, tasks[t].sid = s, tasks[t].req # NoRequest
      PROVE  /\ restarts' = 0 /\ s \notin archived' => tasks[t].req \in st'[s].known
             /\ RequestIds = {tasks[t].req} /\ rec[s].lastRequest = tasks[t].req
                  => rec'[s].lastRequest = tasks[t].req
             /\ restarts' = 0 /\ Clear(s)' =>
                  \A c \in Calls : Placing(c, s)' => calls'[c].req # tasks[t].req
  <2>1. /\ restarts = 0 /\ s \notin archived => tasks[t].req \in st[s].known
        /\ restarts = 0 /\ Clear(s) => \A c \in Calls : Placing(c, s) => calls[c].req # tasks[t].req
    BY <1>4 DEF Asked
  <2> QED BY <2>1 DEF Quiet
<1> QED BY <1>3, <1>4, KeptAsked

LEMMA SteerAsked ==
  ASSUME Inv, Asked, NEW s \in Sids, NEW c \in Calls, calls[c].sid = s,
         Steer(c), ~Retried(s, calls[c].req)
  PROVE  Asked'
<1> DEFINE r == calls[c].req
<1>t. /\ st \in [Sids -> Engine] /\ rec \in [Sids -> Record] /\ calls \in [Calls -> Asking]
  BY DEF Inv, Types
<1>r. r \in Reqs
  BY <1>t DEF Asking
<1>1. /\ archived' = archived /\ accepted' = accepted /\ crossed' = crossed
      /\ restarts' = restarts /\ calls[c].at = "steer" /\ tasks' = tasks /\ TaskIds' = TaskIds
  BY DEF Steer, worldVars, TaskIds
<1>2. \A o \in Sids : st[o].known \subseteq st'[o].known
  <2>1. st' = [st EXCEPT ![s] = Known(st[s], r)]
    BY <1>t DEF Steer
  <2>2. st[s].known \subseteq Known(st[s], r).known
    <3>1. Known(st[s], r).known = IF r = NoRequest THEN st[s].known ELSE st[s].known \union {r}
      BY <1>t, <1>r, KnownBut
    <3> QED BY <3>1
  <2> HIDE DEF r
  <2> QED BY <1>t, <2>1, <2>2
<1>3. /\ rec'[s].lastRequest = rec[s].lastRequest \/ (rec'[s].lastRequest = r /\ r # NoRequest)
      /\ \A o \in Sids \ {s} : rec'[o] = rec[o]
  <2>1. rec' = rec \/ (rec' = [rec EXCEPT ![s].lastRequest = r] /\ r # NoRequest)
    BY DEF Steer
  <2>2. CASE rec' = rec
    BY <2>2
  <2>3. CASE rec' = [rec EXCEPT ![s].lastRequest = r] /\ r # NoRequest
    BY <2>3, <1>t, <1>r, RecordAsked
  <2> QED BY <2>1, <2>2, <2>3
<1>4. calls'[c].at = "done" /\ \A d \in Calls \ {c} : calls'[d] = calls[d]
  BY <1>t, ReturnsCall DEF Steer
<1>5. Kept
  BY <1>1, <1>4 DEF Kept, Clear
<1>6. \A o \in Sids, d \in Calls : Placing(d, o)' => Placing(d, o) /\ calls'[d].req = calls[d].req
  BY <1>1, <1>4 DEF Placing
<1> HIDE DEF r
<1>7. ASSUME NEW o \in Sids, NEW t \in TaskIds, tasks[t].sid = o, tasks[t].req # NoRequest
      PROVE  /\ restarts' = 0 /\ o \notin archived' => tasks[t].req \in st'[o].known
             /\ RequestIds = {tasks[t].req} /\ rec[o].lastRequest = tasks[t].req
                  => rec'[o].lastRequest = tasks[t].req
             /\ restarts' = 0 /\ Clear(o)' =>
                  \A d \in Calls : Placing(d, o)' => calls'[d].req # tasks[t].req
  <2>1. /\ restarts = 0 /\ o \notin archived => tasks[t].req \in st[o].known
        /\ restarts = 0 /\ Clear(o) => \A d \in Calls : Placing(d, o) => calls[d].req # tasks[t].req
    BY <1>7 DEF Asked
  <2>2. RequestIds = {tasks[t].req} /\ r # NoRequest => r = tasks[t].req
    BY <1>r DEF Reqs
  <2>3. Clear(o)' => Clear(o)
    BY <1>1 DEF Clear
  <2>4. RequestIds = {tasks[t].req} /\ rec[o].lastRequest = tasks[t].req
          => rec'[o].lastRequest = tasks[t].req
    BY <1>3, <2>2
  <2> QED BY <1>1, <1>2, <1>6, <2>1, <2>3, <2>4
<1> QED BY <1>5, <1>7, KeptAsked

LEMMA PromptAsked ==
  ASSUME Inv, Asked, NEW s \in Sids, NEW c \in Calls, NEW r \in Reqs, Prompt(c, s, r),
         PromptAdmitted(c, s, r) \/ PromptMakesRoom(c, s, r)
  PROVE  Asked'
<1>t. /\ Types /\ st \in [Sids -> Engine] /\ calls \in [Calls -> Asking]
      /\ crossed \in [Sids -> Nat]
  BY DEF Inv, Types
<1>1. /\ archived' = archived /\ accepted' = accepted /\ rec' = rec
      /\ restarts' = restarts /\ calls[c].at = "new" /\ tasks' = tasks /\ TaskIds' = TaskIds
      /\ s \notin archived /\ r \notin st[s].known
  BY DEF Prompt, TaskIds
<1>2. \A o \in Sids : Clear(o)' => Clear(o)
  BY <1>t, CrossesBut DEF Prompt, Clear
<1>3. \A o \in Sids : st'[o].known = st[o].known
  <2>1. CASE PromptAdmitted(c, s, r)
    <3>1. st' = [st EXCEPT ![s] = Takes(st[s])]
      BY <1>t, <2>1 DEF PromptAdmitted
    <3>2. Takes(st[s]).known = st[s].known
      BY <1>t, TakesBut DEF But, Fields
    <3> QED BY <1>t, <3>1, <3>2
  <2>2. CASE PromptMakesRoom(c, s, r)
    <3>1. PICK o \in Sids \ {s} :
            st' = [st EXCEPT ![s].reserved = TRUE, ![o] = [Stopped(@) EXCEPT !.making = TRUE]]
      BY <2>2 DEF PromptMakesRoom, Counted
    <3>2. /\ [st[s] EXCEPT !.reserved = TRUE].known = st[s].known
          /\ [Stopped(st[o]) EXCEPT !.making = TRUE].known = st[o].known
      BY <1>t, <3>1 DEF Stopped, Engine
    <3>3. /\ st'[s] = [st[s] EXCEPT !.reserved = TRUE]
          /\ st'[o] = [Stopped(st[o]) EXCEPT !.making = TRUE]
          /\ \A x \in Sids \ {s, o} : st'[x] = st[x]
      BY <1>t, <3>1
    <3> QED BY <3>2, <3>3
  <2> QED BY <2>1, <2>2
<1>4. /\ \A d \in Calls \ {c} : calls'[d] = calls[d]
      /\ calls'[c].sid = s /\ calls'[c].req = r
  BY <1>t, GoesCall DEF PromptAdmitted, PromptMakesRoom, Counted
<1>5. Kept
  BY <1>1, <1>2, <1>4 DEF Kept
<1>6. \A o \in Sids, d \in Calls :
        Placing(d, o)' => (d = c /\ o = s) \/ (Placing(d, o) /\ calls'[d].req = calls[d].req)
  BY <1>1, <1>4 DEF Placing
<1>7. ASSUME NEW o \in Sids, NEW t \in TaskIds, tasks[t].sid = o, tasks[t].req # NoRequest
      PROVE  /\ restarts' = 0 /\ o \notin archived' => tasks[t].req \in st'[o].known
             /\ RequestIds = {tasks[t].req} /\ rec[o].lastRequest = tasks[t].req
                  => rec'[o].lastRequest = tasks[t].req
             /\ restarts' = 0 /\ Clear(o)' =>
                  \A d \in Calls : Placing(d, o)' => calls'[d].req # tasks[t].req
  <2>1. /\ restarts = 0 /\ o \notin archived => tasks[t].req \in st[o].known
        /\ restarts = 0 /\ Clear(o) => \A d \in Calls : Placing(d, o) => calls[d].req # tasks[t].req
    BY <1>7 DEF Asked
  <2>2. restarts = 0 /\ o = s => r # tasks[t].req
    BY <1>1, <2>1
  <2> QED BY <1>1, <1>2, <1>3, <1>4, <1>6, <2>1, <2>2
<1> QED BY <1>5, <1>7, KeptAsked

LEMMA RestartAsked ==
  ASSUME Inv, Asked, Restart
  PROVE  Asked'
<1>1. /\ rec' = rec /\ archived' = archived /\ accepted' = accepted /\ crossed' = crossed
      /\ restarts' = restarts + 1
  BY DEF Restart
<1>c. calls' = [c \in Calls |-> IF calls[c].at = "new" THEN calls[c] ELSE Call("done")]
  BY DEF Restart
<1>2. /\ TaskIds' = TaskIds /\ Len(tasks') = Len(tasks)
      /\ \A t \in TaskIds : tasks'[t].sid = tasks[t].sid /\ tasks'[t].req = tasks[t].req
  BY RestartTasks
<1>3. restarts' > 0
  BY <1>1 DEF Inv, Types
<1>4. \A c \in Calls : calls[c].at = "done" => calls'[c].at = "done"
  BY <1>c DEF Call
<1>5. Kept
  BY <1>1, <1>2, <1>3, <1>4 DEF Kept, Clear
<1> QED BY <1>1, <1>3, <1>5, KeptAsked

-----------------------------------------------------------------------------
(* The whole.                                                               *)
IndLimit == MaxLive = 1 => Limit
Ind == Inv /\ Asked /\ IndLimit

LEMMA InitInd == Init => Ind
<1> SUFFICES ASSUME Init PROVE Ind
  OBVIOUS
<1>1. /\ Fresh \in Engine /\ Fresh.child = "none" /\ Fresh.work = 0 /\ Fresh.waiter = 0
      /\ Fresh.task = 0 /\ Fresh.pendingSend = 0 /\ Fresh.sentTask = 0 /\ Fresh.saving = 0
      /\ ~Fresh.capped /\ Fresh.stop = "none"
      /\ ~Fresh.busy /\ ~Fresh.reserved /\ ~Fresh.making
  BY DEF Fresh, Engine
<1>2. Call("new") \in Asking /\ Call("new").at = "new"
  BY DEF Call, Asking, Reqs
<1>3. [lastRequest |-> NoRequest, sentTask |-> 0] \in Record
  BY DEF Record, Reqs
<1>4. TaskIds = {} /\ tasks \in Seq(Task) /\ Len(tasks) = 0
  BY DEF Init, TaskIds
<1>5. Types
  BY <1>1, <1>2, <1>3, <1>4 DEF Init, Types
<1>6. ASSUME NEW s \in Sids PROVE Holds(s)
  <2>1. /\ st[s] = Fresh /\ rec[s].sentTask = 0 /\ s \notin archived
        /\ \A c \in Calls : ~Placing(c, s)
    BY <1>2 DEF Init, Placing
  <2>2. Own(s)
    BY <1>1, <1>4, <2>1 DEF Own, Belongs
  <2>3. Alone(s)
    BY <1>1, <1>4, <2>1 DEF Alone, Single, Waits, Works, WorksOn, Heard
  <2> QED BY <2>2, <2>3 DEF Holds
<1>7. Asked
  <2>1. Cardinality(Done) \in Nat
    BY LcAssumption, FS_Subset, FS_CardinalityType DEF Done
  <2>2. accepted = {}
    BY DEF Init
  <2> QED BY <1>4, <2>1, <2>2 DEF Asked, OncePerRequest
<1>8. Limit
  <2>1. ASSUME NEW s \in Sids PROVE BusyTrue(s) /\ MakesRoom(s) /\ ~Place(s)
    <3>1. st[s] = Fresh /\ \A c \in Calls : ~Commits(c, s)
      BY <1>2 DEF Init, Commits
    <3> QED BY <1>1, <1>4, <3>1 DEF BusyTrue, MakesRoom, Place
  <2>2. OnePlace /\ OneRemains
    BY <1>4, <2>1 DEF OnePlace, OneRemains
  <2> QED BY <2>1, <2>2 DEF Limit
<1> QED BY <1>5, <1>6, <1>7, <1>8 DEF Ind, Inv, IndLimit

LEMMA PromptInd ==
  ASSUME Inv, Asked, NEW c \in Calls, NEW s \in Sids, NEW r \in Reqs, Prompt(c, s, r)
  PROVE  Inv' /\ Asked' /\ KeepsLimit
<1>1. CASE PromptBusy(c, s, r)
  BY <1>1, PromptBusyInv, QuietAsked
<1>2. CASE PromptAdmitted(c, s, r)
  BY <1>2, PromptAdmittedInv, PromptAsked
<1>3. CASE PromptMakesRoom(c, s, r)
  BY <1>3, PromptMakesRoomInv, PromptAsked
<1>4. CASE PromptRefused(c, s, r)
  BY <1>4, PromptRefusedInv, QuietAsked
<1> QED BY <1>1, <1>2, <1>3, <1>4 DEF Prompt

LEMMA CallInd ==
  ASSUME Inv, Asked, NEW c \in Calls, CallStep(c)
  PROVE  Inv' /\ Asked' /\ KeepsLimit
<1> DEFINE s == calls[c].sid
<1>1. s \in Sids
  BY DEF CallStep, Create, Steer, Inv, Types
<1>2. CASE Create(c)
  <2>1. CASE Retried(s, calls[c].req)
    BY <1>1, <1>2, <2>1, CreateRetriedInv, QuietAsked
  <2>2. CASE ~Retried(s, calls[c].req)
    BY <1>1, <1>2, <2>2, CreateInv, CreateAsked
  <2> QED BY <2>1, <2>2
<1>3. CASE Steer(c)
  <2>1. CASE Retried(s, calls[c].req)
    BY <1>1, <1>3, <2>1, SteerRetriedInv, QuietAsked
  <2>2. CASE ~Retried(s, calls[c].req)
    BY <1>1, <1>3, <2>2, SteerInv, SteerAsked
  <2> QED BY <2>1, <2>2
<1> QED BY <1>2, <1>3 DEF CallStep

LEMMA TaskInd ==
  ASSUME Inv, NEW t \in TaskIds, TaskStep(t)
  PROVE  Inv' /\ Quiet /\ KeepsLimit
<1> DEFINE s == tasks[t].sid
<1>1. s \in Sids
  <2>1. tasks \in Seq(Task) /\ tasks[t] \in Task
    BY DEF Inv, Types, TaskIds
  <2> QED BY <2>1 DEF Task
<1>2. CASE Attempt(t)
  <2>1. CASE OneTooMany(t) \/ s \in archived
    BY <1>1, <1>2, <2>1, AttemptEndsInv
  <2>2. CASE ~(OneTooMany(t) \/ s \in archived)
    BY <1>1, <1>2, <2>2, AttemptGoesInv
  <2> QED BY <2>1, <2>2
<1>3. ASSUME Throws(t), Again(t) \/ Spawn(t) \/ Boot(t) \/ Send(t)
      PROVE  Inv' /\ Quiet /\ KeepsLimit
  <2>1. /\ tasks[t].at \in {"again", "spawn", "boot", "send"}
        /\ UNCHANGED <<rec, archived, calls, accepted, worldVars>>
    BY <1>3 DEF Again, Spawn, Boot, Send
  <2> QED BY <1>1, <1>3, <2>1, ThrowsInv
<1>4. CASE Again(t)
  BY <1>1, <1>3, <1>4, AgainInv
<1>5. CASE Spawn(t)
  <2>1. CASE ~Throws(t) /\ st[s].child = "up"
    BY <1>1, <1>5, <2>1, SpawnUpInv
  <2>2. CASE ~Throws(t) /\ st[s].child # "up"
    BY <1>1, <1>5, <2>2, SpawnInv
  <2> QED BY <1>3, <1>5, <2>1, <2>2
<1>6. CASE Boot(t)
  <2>1. CASE Moves(t, "send") /\ UNCHANGED st
    BY <1>1, <1>6, <2>1, BootUpInv
  <2>2. CASE Ends(t) /\ st' = [st EXCEPT ![s] = RunFailed(@)]
    BY <1>1, <1>6, <2>2, BootFailsInv
  <2> QED BY <1>3, <1>6, <2>1, <2>2 DEF Boot
<1>7. CASE Send(t)
  <2>1. CASE ~Throws(t) /\ st[s].child # "up"
    BY <1>1, <1>7, <2>1, SendAgainInv
  <2>2. CASE ~Throws(t) /\ st[s].child = "up"
    BY <1>1, <1>7, <2>2, SendInv
  <2> QED BY <1>3, <1>7, <2>1, <2>2
<1>8. CASE ThrowsDriving(t)
  BY <1>1, <1>8, ThrowsDrivingInv
<1>9. CASE AbortHandler(t)
  <2>1. CASE st[s].child = "up"
    BY <1>1, <1>9, <2>1, KillsInv
  <2>2. CASE st[s].child # "up"
    BY <1>1, <1>9, <2>2, AbortEndsInv
  <2> QED BY <2>1, <2>2
<1>10. CASE Terminal(t)
  BY <1>1, <1>10, TerminalInv
<1> QED BY <1>2, <1>4, <1>5, <1>6, <1>7, <1>8, <1>9, <1>10 DEF TaskStep

LEMMA SessionInd ==
  ASSUME Inv, NEW s \in Sids,
         \/ ChildStep(s) \/ Crash(s) \/ Dies(s) \/ SaveSent(s)
         \/ CapTimer(s) \/ IdleTimer(s)
         \/ StopStep(s) \/ Interrupt(s)
  PROVE  Inv' /\ Quiet /\ KeepsLimit
<1>1. CASE StopChild(s)
  <2>1. CASE st[s].child # "none"
    BY <1>1, <2>1, StopChildKillsInv
  <2>2. CASE st[s].child = "none" /\ s \in archived
    BY <1>1, <2>2, StopChildGoneInv
  <2>3. CASE st[s].child = "none" /\ s \notin archived
    BY <1>1, <2>3, StopChildForgetInv
  <2> QED BY <2>1, <2>2, <2>3
<1>2. CASE ChildStep(s)
  BY <1>2, AcceptInv, CapRunInv, AgentEndInv, RefuseInv DEF ChildStep
<1>3. CASE Crash(s) \/ Dies(s) \/ SaveSent(s)
  BY <1>3, CrashInv, DiesInv, SaveSentInv
<1>4. CASE CapTimer(s) \/ IdleTimer(s) \/ Interrupt(s)
  BY <1>4, CapTimerInv, IdleTimerInv, InterruptInv
<1>5. CASE Stop(s)
  BY <1>5, StopInv
<1> QED BY <1>1, <1>2, <1>3, <1>4, <1>5 DEF StopStep

LEMMA SameInd ==
  ASSUME Inv, UNCHANGED vars
  PROVE  Inv' /\ Quiet /\ KeepsLimit
<1>1. /\ st' = st /\ rec' = rec /\ archived' = archived /\ tasks' = tasks /\ calls' = calls
      /\ accepted' = accepted /\ crossed' = crossed /\ crashes' = crashes /\ restarts' = restarts
  BY DEF vars, worldVars
<1>2. TaskIds' = TaskIds
  BY <1>1 DEF TaskIds
<1>3. \A s \in Sids : Apart(s)
  BY <1>1, <1>2 DEF Apart, Placing
<1>4. Types'
  BY <1>1 DEF Inv, Types
<1>5. Quiet
  BY <1>1, <1>2 DEF Quiet, Placing, Clear
<1>6. SteadyTasks /\ \A c \in Calls : calls[c].at = "admit" => calls'[c] = calls[c]
  BY <1>1, <1>2 DEF SteadyTasks, Remaining
<1>7. KeepsLimit
  <2> SUFFICES ASSUME Limit PROVE Limit'
    BY DEF KeepsLimit
  <2>1. \A s \in Sids : (Clear(s)' <=> Clear(s)) /\ (Place(s)' <=> Place(s))
    BY <1>3, <1>6, ApartLimit
  <2>2. \A s \in Sids : (BusyTrue(s) => BusyTrue(s)') /\ (MakesRoom(s) => MakesRoom(s)')
    BY <1>3, <1>6, ApartLimit
  <2> QED BY <1>6, <2>1, <2>2 DEF Limit, AllClear, OnePlace, OneRemains, SteadyTasks
<1> QED BY <1>3, <1>4, <1>5, <1>7, ApartHolds DEF Inv

LEMMA NextInd == Ind /\ [Next]_vars => Ind'
<1> SUFFICES ASSUME Inv, Asked, [Next]_vars PROVE Inv' /\ Asked' /\ KeepsLimit
  BY DEF Ind, IndLimit, KeepsLimit
<1>1. CASE UNCHANGED vars
  BY <1>1, SameInd, QuietAsked
<1>2. ASSUME NEW c \in Calls, NEW s \in Sids, NEW r \in RequestIds \union {NoRequest}, Prompt(c, s, r)
      PROVE  Inv' /\ Asked' /\ KeepsLimit
  BY <1>2, PromptInd DEF Reqs
<1>3. ASSUME NEW c \in Calls, CallStep(c) PROVE Inv' /\ Asked' /\ KeepsLimit
  BY <1>3, CallInd
<1>4. ASSUME NEW t \in TaskIds, TaskStep(t) PROVE Inv' /\ Asked' /\ KeepsLimit
  BY <1>4, TaskInd, QuietAsked
<1>5. ASSUME NEW s \in Sids,
             \/ ChildStep(s) \/ Crash(s) \/ Dies(s) \/ SaveSent(s)
             \/ CapTimer(s) \/ IdleTimer(s)
             \/ StopStep(s) \/ Interrupt(s)
      PROVE  Inv' /\ Asked' /\ KeepsLimit
  BY <1>5, SessionInd, QuietAsked
<1>6. CASE Restart
  BY <1>6, RestartInv, RestartAsked
<1> QED BY <1>1, <1>2, <1>3, <1>4, <1>5, <1>6 DEF Next

(* Every reachable state of the engine is one of Ind, whatever prompts,     *)
(* stops, crashes and restarts have crossed (engine.mjs, task.mjs).         *)
THEOREM Invariance == Spec => []Ind
<1> QED BY InitInd, NextInd, PTL DEF Spec

-----------------------------------------------------------------------------
LEMMA SessionOf ==
  ASSUME Inv, NEW t \in TaskIds
  PROVE  tasks[t].sid \in Sids
<1>1. tasks \in Seq(Task)
  BY DEF Inv, Types
<1>2. tasks[t] \in Task
  BY <1>1 DEF TaskIds
<1> QED BY <1>2 DEF Task

LEMMA TypesHold == Ind => TypeOK
<1> SUFFICES ASSUME Inv, Asked PROVE TypeOK
  BY DEF Ind
<1>1. ASSUME NEW s \in Sids
      PROVE  /\ st[s].child \in {"none", "up", "dying"}
             /\ {st[s].work, st[s].waiter, st[s].task, st[s].pendingSend, st[s].sentTask,
                 st[s].saving, rec[s].sentTask} \subseteq TaskIds \union {0}
             /\ st[s].known \subseteq RequestIds
             /\ st[s].stop \in {"none", "abort", "kill", "forget", "gone"}
  <2>1. Own(s) /\ st[s] \in Engine
    BY Before
  <2> QED BY <2>1 DEF Own, Belongs, Engine
<1>2. archived \subseteq Sids /\ accepted \subseteq TaskIds /\ tasks \in Seq(Task)
  BY DEF Inv, Types, Asked
<1>3. Len(tasks) <= MaxTasks
  <2>1. /\ IsFiniteSet(Calls) /\ Done \subseteq Calls
        /\ Len(tasks) <= Cardinality(Done) /\ Len(tasks) \in Nat
    BY <1>2, LcAssumption DEF Done, Asked
  <2>2. IsFiniteSet(Done) /\ Cardinality(Done) <= Cardinality(Calls)
    BY <2>1, FS_Subset
  <2>3. Cardinality(Done) \in Nat /\ Cardinality(Calls) \in Nat
    BY <2>1, <2>2, FS_CardinalityType
  <2> QED BY <2>1, <2>2, <2>3 DEF MaxTasks
<1>4. \A t \in TaskIds : tasks[t].attempt <= RestartLimit + 1
  <2> SUFFICES ASSUME NEW t \in TaskIds PROVE tasks[t].attempt <= RestartLimit + 1
    OBVIOUS
  <2>1. tasks[t].sid \in Sids
    BY SessionOf
  <2>2. Own(tasks[t].sid)
    BY <2>1, Before
  <2> QED BY <2>2 DEF Own
<1> QED BY <1>1, <1>2, <1>3, <1>4 DEF TypeOK

(* The state of a session is made of what it may hold: the tasks it names   *)
(* are tasks, a child accepted only tasks that are there, a run is tried    *)
(* once more than it may be retried, and no more runs are made than prompts *)
(* were given (engine.mjs, task.mjs).                                       *)
THEOREM LcTypes == Spec => []TypeOK
<1> QED BY Invariance, TypesHold, PTL

LEMMA OneRunHolds == Inv => OneRun
<1> SUFFICES ASSUME Inv, NEW s \in Sids, crossed[s] = 0 PROVE Cardinality(Runs(s)) <= 1
  BY DEF OneRun
<1>1. Single(s)
  BY Before DEF Clear, Alone
<1>2. \A t, u \in Runs(s) : t = u
  BY <1>1 DEF Runs, LiveOf, Live, Single, Driven
<1>3. CASE Runs(s) = {}
  <2>1. Cardinality(Runs(s)) = 0
    BY <1>3, FS_EmptySet
  <2> QED BY <2>1
<1>4. CASE Runs(s) # {}
  <2>1. PICK t : t \in Runs(s)
    BY <1>4
  <2>2. Runs(s) = {t}
    BY <1>2, <2>1
  <2>3. Cardinality(Runs(s)) = 1
    BY <2>2, FS_Singleton
  <2> QED BY <2>3
<1> QED BY <1>3, <1>4

LEMMA RunIsBusyHolds == Inv => RunIsBusy
<1> SUFFICES ASSUME Inv, NEW t \in TaskIds, tasks[t].at \in Driven,
                    crossed[tasks[t].sid] = 0
             PROVE  st[tasks[t].sid].busy
  BY DEF RunIsBusy
<1>1. tasks[t].sid \in Sids
  BY SessionOf
<1>2. Works(tasks[t].sid)
  BY <1>1, Before DEF Clear, Alone
<1> QED BY <1>1, <1>2 DEF Works, Live, Driven

(* What holds a place has one, so that it is one session's at most.         *)
LEMMA LiveLimitHolds == Inv /\ Limit /\ MaxLive = 1 => LiveLimit
<1> DEFINE P == {s \in Sids : HoldsPlace(s)}
<1> SUFFICES ASSUME Inv, Limit, MaxLive = 1, AllClear PROVE Cardinality(P) <= 1
  BY DEF LiveLimit, AllClear, Clear
<1>1. ASSUME NEW s \in Sids, HoldsPlace(s) PROVE Place(s)
  <2>1. Own(s) /\ BusyTrue(s) /\ \A t \in TaskIds : tasks[t] \in Task
    BY Before DEF Limit, AllClear
  <2>2. CASE IsLive(s) \/ st[s].reserved
    BY <2>2, LivePlace DEF Place
  <2>3. CASE st[s].busy /\ \A t \in LiveOf(s) : ~tasks[t].abort
    <3>1. CASE \E c \in Calls : Commits(c, s)
      BY <3>1 DEF Place
    <3>2. CASE \E t \in TaskIds : tasks[t].sid = s /\ Live(t)
      <4>1. PICK t \in TaskIds : tasks[t].sid = s /\ Live(t)
        BY <3>2
      <4>2. ~tasks[t].abort /\ tasks[t].at \notin {"aborting", "killing"}
        BY <2>1, <2>3, <4>1 DEF LiveOf, Own
      <4>3. AtWork(t)
        BY <2>1, <4>1, <4>2 DEF AtWork, Live, Driven, Task, Stages
      <4> QED BY <4>1, <4>3 DEF Place
    <3> QED BY <2>1, <2>3, <3>1, <3>2 DEF BusyTrue
  <2> QED BY <1>1, <2>2, <2>3 DEF HoldsPlace
<1>2. \A s, o \in P : s = o
  BY <1>1 DEF Limit, OnePlace
<1> HIDE DEF P
<1>3. CASE P = {}
  <2>1. Cardinality(P) = 0
    BY <1>3, FS_EmptySet
  <2> QED BY <2>1
<1>4. CASE P # {}
  <2>1. PICK s : s \in P
    BY <1>4
  <2>2. P = {s}
    BY <1>2, <2>1
  <2>3. Cardinality(P) = 1
    BY <2>2, FS_Singleton
  <2> QED BY <2>3
<1> QED BY <1>3, <1>4

(* A session that nothing crossed has one run that drives its child or      *)
(* waits to, and while it does the session is busy, so that no prompt       *)
(* starts a second run beside it and no timer stops its child; and with a   *)
(* limit of one child, as the bridge sets it, one session at most works,    *)
(* has a child or holds a place (prompt, admit and drive of engine.mjs,     *)
(* task.mjs).                                                               *)
THEOREM WorksAlone == Spec => []OneAtWork
<1>1. Ind => OneAtWork
  BY OneRunHolds, RunIsBusyHolds, LiveLimitHolds DEF Ind, IndLimit, OneAtWork
<1> QED BY <1>1, Invariance, PTL

(* "continue" stands for a prompt only when a child accepted it, a prompt   *)
(* whose acceptance is on record is not sent again, and a retried prompt    *)
(* starts no second run while the engine or the record knows its request    *)
(* (prompt and drive of engine.mjs, task.mjs).                              *)
THEOREM PromptsStayKept == Spec => []PromptsKept
<1>1. Ind => NothingLost
  <2> SUFFICES ASSUME Inv, NEW t \in TaskIds, crossed[tasks[t].sid] = 0, tasks[t].cont
               PROVE  t \in accepted
    BY DEF Ind, NothingLost
  <2>1. tasks[t].sid \in Sids
    BY SessionOf
  <2>2. Heard(tasks[t].sid)
    BY <2>1, Before DEF Clear, Alone
  <2> QED BY <2>2 DEF Heard
<1>2. Ind => NothingResent
  <2> SUFFICES ASSUME Inv, NEW t \in TaskIds, tasks[t].at \in {"spawn", "boot", "send"},
                      tasks[t].attempt > 1, rec[tasks[t].sid].sentTask = t
               PROVE  tasks[t].cont
    BY DEF Ind, NothingResent
  <2>1. tasks[t].sid \in Sids
    BY SessionOf
  <2>2. Own(tasks[t].sid)
    BY <2>1, Before
  <2> QED BY <2>2 DEF Own
<1>3. Ind => OncePerRequest
  BY DEF Ind, Asked
<1> QED BY <1>1, <1>2, <1>3, Invariance, PTL DEF PromptsKept

-----------------------------------------------------------------------------
(* Dialogs of a child (LcDialogs).                                           *)

CONSTANTS MaxDialogs, Sessions
VARIABLES session, kind, asked, verdict, pending, due, watching, meant, posts
Dlg == INSTANCE LcDialogs

DialogBounds == MaxDialogs \in Nat /\ Sessions \subseteq {"lc", "assistant"}

Lists == {"permissions", "questions"}
Choices == {"allow", "deny", "value"}
Verdicts == Choices \cup {Dlg!None, "cancelled"}
Post == [list : Lists, to : Dlg!Dialogs, decision : Choices]

DialogTypes ==
  /\ session \in {"lc", "assistant"}
  /\ kind \in Seq(Dlg!DialogKinds) /\ Len(kind) <= MaxDialogs
  /\ asked \in Seq(1 .. Len(kind))
  /\ verdict \in [Dlg!Dialogs -> Verdicts]
  /\ pending \in [permissions : SUBSET (1 .. Len(kind)), questions : SUBSET (1 .. Len(kind))]
  /\ meant \in [Dlg!Dialogs -> Choices \cup {Dlg!None}]
  /\ posts \in Seq(Post)

(* A dialog is in one place: not asked yet, not handled, in one list, or    *)
(* answered; they are handled in the order they were asked.                 *)
InAsked(d) == \E i \in 1 .. Len(asked) : asked[i] = d
OneDialogPlace ==
  /\ \A i, j \in 1 .. Len(asked) : i < j => asked[i] < asked[j]
  /\ \A d \in pending.permissions \cup pending.questions : ~InAsked(d)
  /\ pending.permissions \cap pending.questions = {}
  /\ \A d \in 1 .. Len(kind) :
       (d \in pending.permissions \/ d \in pending.questions \/ InAsked(d)) = (verdict[d] = Dlg!None)
  /\ \A d \in Dlg!Dialogs : d > Len(kind) => verdict[d] = Dlg!None
PlaceInv == DialogTypes /\ OneDialogPlace

LEMMA DialogInit == ASSUME DialogBounds PROVE Dlg!Init => PlaceInv
<1> SUFFICES ASSUME Dlg!Init PROVE PlaceInv
  OBVIOUS
<1>1. kind = << >> /\ asked = << >> /\ posts = << >> /\ Len(kind) = 0
      /\ pending.permissions = {} /\ pending.questions = {}
  BY DEF Dlg!Init
<1>2. DialogTypes
  BY <1>1 DEF DialogBounds, Dlg!Init, DialogTypes, Verdicts, Dlg!None, Choices
<1>3. OneDialogPlace
  BY <1>1 DEF Dlg!Init, OneDialogPlace, InAsked
<1> QED BY <1>2, <1>3 DEF PlaceInv

LEMMA DialogAsk == ASSUME DialogBounds, PlaceInv, NEW k \in Dlg!DialogKinds, Dlg!Ask(k) PROVE PlaceInv'
<1> DEFINE n == Len(kind) + 1
<1>1. /\ kind' = Append(kind, k) /\ asked' = Append(asked, n) /\ Len(kind) < MaxDialogs
      /\ session' = session /\ verdict' = verdict /\ pending' = pending /\ meant' = meant /\ posts' = posts
  BY DEF Dlg!Ask
<1>2. /\ kind \in Seq(Dlg!DialogKinds) /\ Len(kind) \in Nat /\ asked \in Seq(1 .. Len(kind))
      /\ pending.permissions \subseteq 1 .. Len(kind) /\ pending.questions \subseteq 1 .. Len(kind)
  BY DEF PlaceInv, DialogTypes
<1>3. Len(kind') = n /\ n <= MaxDialogs /\ n \in Dlg!Dialogs /\ n \in 1 .. n /\ 1 .. Len(kind) \subseteq 1 .. n
  BY <1>1, <1>2 DEF DialogBounds, Dlg!Dialogs
<1> HIDE DEF n
<1>4. asked' \in Seq(1 .. n) /\ Len(asked') = Len(asked) + 1 /\ asked'[Len(asked) + 1] = n
      /\ \A i \in 1 .. Len(asked) : asked'[i] = asked[i] /\ asked[i] \in 1 .. Len(kind)
  <2>1. asked \in Seq(1 .. n)
    BY <1>2, <1>3, SeqMonotonic
  <2> QED BY <1>1, <1>2, <1>3, <2>1
<1>5. DialogTypes'
  BY <1>1, <1>2, <1>3, <1>4 DEF PlaceInv, DialogTypes, Verdicts, Choices, Dlg!None, Dlg!Dialogs, Post, Dlg!DialogKinds,
     Dlg!Permissions, Dlg!Questions, Lists
<1>6. \A d \in 1 .. n : (\E i \in 1 .. Len(asked') : asked'[i] = d) = (InAsked(d) \/ d = n)
  <2>1. \A i \in 1 .. Len(asked') : i \in 1 .. Len(asked) \/ i = Len(asked) + 1
    BY <1>2, <1>4
  <2>2. \A i \in 1 .. Len(asked) : i \in 1 .. Len(asked')
    BY <1>2, <1>4
  <2>3. Len(asked) + 1 \in 1 .. Len(asked')
    BY <1>2, <1>4
  <2> QED BY <1>4, <2>1, <2>2, <2>3 DEF InAsked
<1>7. n \notin pending.permissions /\ n \notin pending.questions
  BY <1>2 DEF n
<1>8. verdict[n] = Dlg!None
  BY <1>2, <1>3 DEF PlaceInv, OneDialogPlace, n
<1>9. \A d \in 1 .. n : d = n \/ d \in 1 .. Len(kind)
  BY <1>2 DEF n
<1>10. \A i, j \in 1 .. Len(asked') : i < j => asked'[i] < asked'[j]
  <2> SUFFICES ASSUME NEW i \in 1 .. Len(asked'), NEW j \in 1 .. Len(asked'), i < j
               PROVE  asked'[i] < asked'[j]
    OBVIOUS
  <2>0. Len(asked) \in Nat /\ Len(asked') = Len(asked) + 1
    BY <1>2, <1>4, LenProperties
  <2>1. i \in 1 .. Len(asked) /\ (j \in 1 .. Len(asked) \/ j = Len(asked) + 1)
    BY <2>0
  <2>2. \A l \in 1 .. Len(kind) : l < n
    BY <1>2 DEF n
  <2>3. CASE j \in 1 .. Len(asked)
    BY <1>4, <2>1, <2>3 DEF PlaceInv, OneDialogPlace
  <2>4. CASE j = Len(asked) + 1
    BY <1>4, <2>1, <2>2, <2>4
  <2> QED BY <2>1, <2>3, <2>4
<1>11. \A d \in 1 .. n : (d \in pending.permissions \/ d \in pending.questions
                            \/ \E i \in 1 .. Len(asked') : asked'[i] = d) = (verdict[d] = Dlg!None)
  BY <1>6, <1>7, <1>8, <1>9 DEF PlaceInv, OneDialogPlace
<1>12. \A d \in pending.permissions \cup pending.questions : ~\E i \in 1 .. Len(asked') : asked'[i] = d
  BY <1>2, <1>3, <1>6, <1>7 DEF PlaceInv, OneDialogPlace
<1>13. \A d \in Dlg!Dialogs : d > n => verdict[d] = Dlg!None
  BY <1>2 DEF PlaceInv, OneDialogPlace, n, Dlg!Dialogs
<1>14. OneDialogPlace'
  BY <1>1, <1>3, <1>10, <1>11, <1>12, <1>13 DEF PlaceInv, OneDialogPlace, InAsked, Dlg!None, Dlg!Dialogs
<1> QED BY <1>5, <1>14 DEF PlaceInv

(* Dialogs are answered: some of a list, or the next one asked.             *)
LEMMA DialogAnswered ==
  ASSUME DialogBounds, PlaceInv, NEW ds \in SUBSET (1 .. Len(kind)),
         ds \subseteq pending.permissions \cup pending.questions,
         session' = session, kind' = kind, asked' = asked, DialogTypes',
         pending'.permissions = pending.permissions \ ds, pending'.questions = pending.questions \ ds,
         \A d \in ds : verdict'[d] # Dlg!None,
         \A d \in Dlg!Dialogs \ ds : verdict'[d] = verdict[d]
  PROVE  PlaceInv'
<1>1. \A d \in 1 .. Len(kind) : d \in Dlg!Dialogs
  BY DEF PlaceInv, DialogTypes, Dlg!Dialogs, DialogBounds
<1>2. \A d \in ds : ~InAsked(d)
  BY DEF PlaceInv, OneDialogPlace
<1>3. \A d \in 1 .. Len(kind) :
       (d \in pending'.permissions \/ d \in pending'.questions \/ InAsked(d)) = (verdict'[d] = Dlg!None)
  BY <1>1, <1>2 DEF PlaceInv, OneDialogPlace
<1>4. \A d \in Dlg!Dialogs : d > Len(kind) => d \notin ds
  BY DEF PlaceInv, DialogTypes, Dlg!Dialogs
<1>5. OneDialogPlace'
  BY <1>3, <1>4 DEF PlaceInv, OneDialogPlace, InAsked, Dlg!None, Dlg!Dialogs
<1> QED BY <1>5 DEF PlaceInv

(* The next dialog goes to a list, or is answered at once.                  *)
LEMMA DialogHandle == ASSUME DialogBounds, PlaceInv, Dlg!Handle PROVE PlaceInv'
<1> DEFINE d == Head(asked)
<1>1. /\ asked # << >> /\ asked' = Tail(asked) /\ session' = session /\ kind' = kind /\ meant' = meant
      /\ posts' = posts
  BY DEF Dlg!Handle
<1>2. /\ asked \in Seq(1 .. Len(kind)) /\ asked' \in Seq(1 .. Len(kind)) /\ d \in 1 .. Len(kind)
      /\ Len(kind) \in Nat /\ d = asked[1] /\ 1 \in 1 .. Len(asked)
  BY <1>1 DEF PlaceInv, DialogTypes
<1>3. d \in Dlg!Dialogs
  BY <1>2 DEF PlaceInv, DialogTypes, Dlg!Dialogs, DialogBounds
<1>4. \A i \in 1 .. Len(asked') : i + 1 \in 1 .. Len(asked) /\ asked'[i] = asked[i + 1]
  BY <1>1, <1>2
<1>5. \A i \in 1 .. Len(asked) : i = 1 \/ (i - 1 \in 1 .. Len(asked') /\ asked'[i - 1] = asked[i])
  BY <1>1, <1>2
<1> HIDE DEF d
<1>6. \A i, j \in 1 .. Len(asked') : i < j => asked'[i] < asked'[j]
  BY <1>4 DEF PlaceInv, OneDialogPlace
<1>7. \A i \in 1 .. Len(asked') : asked'[i] # d
  <2> SUFFICES ASSUME NEW i \in 1 .. Len(asked'), asked'[i] = d PROVE FALSE
    OBVIOUS
  <2>1. i + 1 \in 1 .. Len(asked) /\ asked[i + 1] = d /\ 1 < i + 1
    BY <1>4
  <2> QED BY <1>2, <2>1 DEF PlaceInv, OneDialogPlace
<1>8. \A e \in 1 .. Len(kind) : InAsked(e) = (e = d \/ \E i \in 1 .. Len(asked') : asked'[i] = e)
  BY <1>2, <1>4, <1>5 DEF InAsked
<1>9. InAsked(d) /\ d \notin pending.permissions /\ d \notin pending.questions /\ verdict[d] = Dlg!None
  BY <1>2, <1>8 DEF PlaceInv, OneDialogPlace
<1>10. CASE Dlg!AtOnce(kind[d]) # Dlg!None
  <2>1. pending' = pending /\ verdict' = [verdict EXCEPT ![d] = Dlg!AtOnce(kind[d])]
    BY <1>10 DEF Dlg!Handle, d
  <2>2. Dlg!AtOnce(kind[d]) \in Verdicts
    BY DEF Dlg!AtOnce, Dlg!LcAtOnce, Dlg!AssistantAtOnce, Verdicts, Choices
  <2>3. verdict' \in [Dlg!Dialogs -> Verdicts] /\ verdict'[d] # Dlg!None
        /\ \A e \in Dlg!Dialogs \ {d} : verdict'[e] = verdict[e]
    BY <1>3, <1>10, <2>1, <2>2 DEF PlaceInv, DialogTypes
  <2>4. DialogTypes'
    BY <1>1, <1>2, <2>1, <2>3 DEF PlaceInv, DialogTypes, Verdicts, Choices, Dlg!None, Dlg!Dialogs, Post,
       Dlg!DialogKinds, Dlg!Permissions, Dlg!Questions, Lists
  <2>5. \A e \in 1 .. Len(kind) : e \in Dlg!Dialogs
    BY DEF PlaceInv, DialogTypes, Dlg!Dialogs, DialogBounds
  <2>6. \A e \in 1 .. Len(kind) :
          (e \in pending.permissions \/ e \in pending.questions
             \/ \E i \in 1 .. Len(asked') : asked'[i] = e) = (verdict'[e] = Dlg!None)
    <3> SUFFICES ASSUME NEW e \in 1 .. Len(kind)
                 PROVE  (e \in pending.permissions \/ e \in pending.questions
                           \/ \E i \in 1 .. Len(asked') : asked'[i] = e) = (verdict'[e] = Dlg!None)
      OBVIOUS
    <3>1. CASE e = d
      <4>1. e \notin pending.permissions /\ e \notin pending.questions /\ verdict'[e] # Dlg!None
        BY <1>9, <2>3, <3>1
      <4>2. ~\E i \in 1 .. Len(asked') : asked'[i] = e
        BY <1>7, <3>1
      <4> QED BY <4>1, <4>2
    <3>2. CASE e # d
      <4>1. verdict'[e] = verdict[e]
        BY <2>3, <2>5, <3>2
      <4>2. InAsked(e) = \E i \in 1 .. Len(asked') : asked'[i] = e
        BY <1>8, <3>2
      <4> QED BY <4>1, <4>2 DEF PlaceInv, OneDialogPlace
    <3> QED BY <3>1, <3>2
  <2>7. \A e \in pending.permissions \cup pending.questions : ~\E i \in 1 .. Len(asked') : asked'[i] = e
    BY <1>8 DEF PlaceInv, OneDialogPlace, DialogTypes
  <2>8. \A e \in Dlg!Dialogs : e > Len(kind) => verdict'[e] = Dlg!None
    <3> SUFFICES ASSUME NEW e \in Dlg!Dialogs, e > Len(kind) PROVE verdict'[e] = Dlg!None
      OBVIOUS
    <3>1. e # d
      BY <1>2
    <3>2. verdict[e] = Dlg!None
      BY DEF PlaceInv, OneDialogPlace
    <3> QED BY <2>3, <3>1, <3>2
  <2>9. OneDialogPlace'
    BY <1>1, <1>6, <2>1, <2>6, <2>7, <2>8 DEF PlaceInv, OneDialogPlace, InAsked, Dlg!None, Dlg!Dialogs
  <2> QED BY <2>4, <2>9 DEF PlaceInv
<1>11. CASE Dlg!AtOnce(kind[d]) = Dlg!None
  <2> DEFINE list == Dlg!ListOf(kind[d])
  <2>1. verdict' = verdict /\ pending' = [pending EXCEPT ![list] = pending[list] \cup {d}]
    BY <1>11 DEF Dlg!Handle, d
  <2>2. list \in Lists
    BY DEF Dlg!ListOf, Lists
  <2> HIDE DEF list
  <2>3. /\ pending' \in [permissions : SUBSET (1 .. Len(kind)), questions : SUBSET (1 .. Len(kind))]
        /\ \/ pending'.permissions = pending.permissions \cup {d} /\ pending'.questions = pending.questions
           \/ pending'.questions = pending.questions \cup {d} /\ pending'.permissions = pending.permissions
    <3>1. CASE list = "permissions"
      BY <1>2, <2>1, <3>1 DEF PlaceInv, DialogTypes
    <3>2. CASE list = "questions"
      BY <1>2, <2>1, <3>2 DEF PlaceInv, DialogTypes
    <3> QED BY <2>2, <3>1, <3>2 DEF Lists
  <2>4. DialogTypes'
    BY <1>1, <1>2, <2>1, <2>3 DEF PlaceInv, DialogTypes, Verdicts, Choices, Dlg!None, Dlg!Dialogs, Post,
       Dlg!DialogKinds, Dlg!Permissions, Dlg!Questions, Lists
  <2>5. \A e : (e \in pending'.permissions \/ e \in pending'.questions) =
               (e \in pending.permissions \/ e \in pending.questions \/ e = d)
    BY <2>3
  <2>6. \A e \in 1 .. Len(kind) :
          (e \in pending'.permissions \/ e \in pending'.questions
             \/ \E i \in 1 .. Len(asked') : asked'[i] = e) = (verdict[e] = Dlg!None)
    BY <1>8, <2>5 DEF PlaceInv, OneDialogPlace
  <2>7. \A e \in pending'.permissions \cup pending'.questions : ~\E i \in 1 .. Len(asked') : asked'[i] = e
    <3> SUFFICES ASSUME NEW e \in pending'.permissions \cup pending'.questions,
                        \E i \in 1 .. Len(asked') : asked'[i] = e
                 PROVE  FALSE
      OBVIOUS
    <3>1. e # d /\ (e \in pending.permissions \/ e \in pending.questions)
      BY <1>7, <2>5
    <3>2. e \in 1 .. Len(kind) /\ InAsked(e)
      BY <1>8, <3>1 DEF PlaceInv, DialogTypes
    <3> QED BY <3>1, <3>2 DEF PlaceInv, OneDialogPlace
  <2>8. pending'.permissions \cap pending'.questions = {}
    BY <1>9, <2>3 DEF PlaceInv, OneDialogPlace
  <2>9. OneDialogPlace'
    BY <1>1, <1>6, <2>1, <2>6, <2>7, <2>8 DEF PlaceInv, OneDialogPlace, InAsked, Dlg!None, Dlg!Dialogs
  <2> QED BY <2>4, <2>9 DEF PlaceInv
<1> QED BY <1>10, <1>11

(* A step that answers some dialogs of the lists alike.                     *)
LEMMA DialogClosed ==
  ASSUME DialogBounds, PlaceInv, NEW ds \in SUBSET (1 .. Len(kind)),
         ds \subseteq pending.permissions \cup pending.questions, NEW v \in Verdicts \ {Dlg!None},
         session' = session, kind' = kind, asked' = asked, meant' = meant, posts' \in Seq(Post),
         verdict' = [d \in Dlg!Dialogs |-> IF d \in ds THEN v ELSE verdict[d]],
         pending' \in [permissions : SUBSET (1 .. Len(kind)), questions : SUBSET (1 .. Len(kind))],
         pending'.permissions = pending.permissions \ ds, pending'.questions = pending.questions \ ds
  PROVE  PlaceInv'
<1>1. verdict' \in [Dlg!Dialogs -> Verdicts]
  BY DEF PlaceInv, DialogTypes
<1>2. DialogTypes'
  BY <1>1 DEF PlaceInv, DialogTypes, Verdicts, Choices, Dlg!None, Dlg!Dialogs, Post,
     Dlg!DialogKinds, Dlg!Permissions, Dlg!Questions, Lists
<1>3. \A d \in ds : d \in Dlg!Dialogs
  BY DEF PlaceInv, DialogTypes, Dlg!Dialogs, DialogBounds
<1>4. (\A d \in ds : verdict'[d] # Dlg!None) /\ \A d \in Dlg!Dialogs \ ds : verdict'[d] = verdict[d]
  BY <1>3
<1> QED BY <1>2, <1>4, DialogAnswered

LEMMA DialogTake == ASSUME DialogBounds, PlaceInv, Dlg!Take PROVE PlaceInv'
<1> DEFINE post == Head(posts)
<1> DEFINE ds == Dlg!Answered(post)
<1>1. /\ posts # << >> /\ posts' = Tail(posts) /\ session' = session /\ kind' = kind /\ asked' = asked
      /\ meant' = meant
      /\ verdict' = [d \in Dlg!Dialogs |-> IF d \in ds THEN post.decision ELSE verdict[d]]
      /\ pending' = [pending EXCEPT ![post.list] = pending[post.list] \ ds]
  BY DEF Dlg!Take
<1>2. post \in Post /\ posts' \in Seq(Post)
  BY <1>1 DEF PlaceInv, DialogTypes
<1>3. post.list \in Lists /\ post.decision \in Verdicts \ {Dlg!None}
  BY <1>2 DEF Post, Verdicts, Choices, Dlg!None
<1>4. ds \subseteq pending[post.list]
  BY DEF Dlg!Answered, Dlg!LcAnswered, Dlg!AssistantAnswered, Dlg!Oldest
<1> HIDE DEF ds, post
<1>5. /\ pending' \in [permissions : SUBSET (1 .. Len(kind)), questions : SUBSET (1 .. Len(kind))]
      /\ pending'.permissions = pending.permissions \ ds /\ pending'.questions = pending.questions \ ds
      /\ ds \subseteq pending.permissions \cup pending.questions /\ ds \subseteq 1 .. Len(kind)
  <2>1. CASE post.list = "permissions"
    BY <1>1, <1>4, <2>1 DEF PlaceInv, DialogTypes, OneDialogPlace
  <2>2. CASE post.list = "questions"
    BY <1>1, <1>4, <2>2 DEF PlaceInv, DialogTypes, OneDialogPlace
  <2> QED BY <1>3, <2>1, <2>2 DEF Lists
<1> QED BY <1>1, <1>2, <1>3, <1>5, DialogClosed

LEMMA DialogSweep == ASSUME DialogBounds, PlaceInv, Dlg!Sweep PROVE PlaceInv'
<1> DEFINE ds == Dlg!Swept
<1>1. ds \subseteq pending.permissions
  BY DEF Dlg!Swept
<1>2. /\ session' = session /\ kind' = kind /\ asked' = asked /\ meant' = meant /\ posts' = posts
      /\ verdict' = [d \in Dlg!Dialogs |-> IF d \in ds THEN "deny" ELSE verdict[d]]
      /\ pending' = [pending EXCEPT !.permissions = pending.permissions \ ds]
  BY DEF Dlg!Sweep
<1> HIDE DEF ds
<1>3. /\ pending' \in [permissions : SUBSET (1 .. Len(kind)), questions : SUBSET (1 .. Len(kind))]
      /\ pending'.permissions = pending.permissions \ ds /\ pending'.questions = pending.questions \ ds
      /\ ds \subseteq pending.permissions \cup pending.questions /\ ds \subseteq 1 .. Len(kind)
  BY <1>1, <1>2 DEF PlaceInv, DialogTypes, OneDialogPlace
<1>4. posts' \in Seq(Post) /\ "deny" \in Verdicts \ {Dlg!None}
  BY <1>2 DEF PlaceInv, DialogTypes, Verdicts, Choices, Dlg!None
<1> QED BY <1>2, <1>3, <1>4, DialogClosed

LEMMA DialogInterrupt == ASSUME DialogBounds, PlaceInv, Dlg!Interrupt PROVE PlaceInv'
<1> DEFINE ds == pending.permissions \cup pending.questions
<1>1. /\ session' = session /\ kind' = kind /\ asked' = asked /\ meant' = meant /\ posts' = posts
      /\ verdict' = [d \in Dlg!Dialogs |-> IF d \in ds THEN "cancelled" ELSE verdict[d]]
      /\ pending' = [permissions |-> {}, questions |-> {}]
  BY DEF Dlg!Interrupt, Dlg!Cancelled, Dlg!Open, Dlg!Nothing
<1>2. /\ pending' \in [permissions : SUBSET (1 .. Len(kind)), questions : SUBSET (1 .. Len(kind))]
      /\ pending'.permissions = pending.permissions \ ds /\ pending'.questions = pending.questions \ ds
      /\ ds \subseteq 1 .. Len(kind)
  BY <1>1 DEF PlaceInv, DialogTypes
<1>3. posts' \in Seq(Post) /\ "cancelled" \in Verdicts \ {Dlg!None}
  BY <1>1 DEF PlaceInv, DialogTypes, Verdicts, Choices, Dlg!None
<1> HIDE DEF ds
<1>4. ds \subseteq pending.permissions \cup pending.questions
  BY DEF ds
<1> QED BY <1>1, <1>2, <1>3, <1>4, DialogClosed

(* An answer of the user is on its way: the dialog stays where it is.       *)
LEMMA AnswerIs ==
  ASSUME DialogBounds, PlaceInv, NEW list \in Lists, NEW v \in Choices, Dlg!Answer(list, v)
  PROVE  \E d \in pending[list] \cap Dlg!Dialogs :
           /\ meant[d] = Dlg!None /\ \A e \in pending[list] : meant[e] = Dlg!None => d <= e
           /\ v \in (IF kind[d] \in Dlg!Questions \cup {"freeform"} THEN {"value"} ELSE {"allow", "deny"})
           /\ meant' = [meant EXCEPT ![d] = v]
           /\ posts' = Append(posts, [list |-> list, to |-> d, decision |-> v])
           /\ UNCHANGED <<session, kind, asked, verdict, pending>>
<1>1. pending[list] \subseteq 1 .. Len(kind)
  BY DEF PlaceInv, DialogTypes, Lists
<1>2. pending[list] \subseteq Dlg!Dialogs
  BY <1>1 DEF PlaceInv, DialogTypes, Dlg!Dialogs, DialogBounds
<1> QED BY <1>2 DEF Dlg!Answer, Dlg!Oldest

LEMMA DialogAnswer ==
  ASSUME DialogBounds, PlaceInv, NEW list \in Lists, NEW v \in Choices, Dlg!Answer(list, v)
  PROVE  PlaceInv'
<1>1. PICK d \in Dlg!Dialogs :
        /\ meant' = [meant EXCEPT ![d] = v]
        /\ posts' = Append(posts, [list |-> list, to |-> d, decision |-> v])
        /\ UNCHANGED <<session, kind, asked, verdict, pending>>
  BY AnswerIs
<1>2. posts' \in Seq(Post) /\ meant' \in [Dlg!Dialogs -> Choices \cup {Dlg!None}]
  BY <1>1 DEF PlaceInv, DialogTypes, Post
<1>3. DialogTypes'
  BY <1>1, <1>2 DEF PlaceInv, DialogTypes, Verdicts, Choices, Dlg!None, Dlg!Dialogs, Post,
     Dlg!DialogKinds, Dlg!Permissions, Dlg!Questions, Lists
<1>4. OneDialogPlace'
  BY <1>1 DEF PlaceInv, OneDialogPlace, InAsked, Dlg!None, Dlg!Dialogs
<1> QED BY <1>3, <1>4 DEF PlaceInv

LEMMA DialogStays ==
  ASSUME PlaceInv, UNCHANGED <<session, kind, asked, verdict, pending, meant, posts>>
  PROVE  PlaceInv'
  BY DEF PlaceInv, DialogTypes, OneDialogPlace, InAsked, Verdicts, Choices, Dlg!None, Dlg!Dialogs, Post,
     Dlg!DialogKinds, Dlg!Permissions, Dlg!Questions, Lists

LEMMA DialogStep == DialogBounds /\ PlaceInv /\ [Dlg!Next]_(Dlg!vars) => PlaceInv'
<1> SUFFICES ASSUME DialogBounds, PlaceInv, [Dlg!Next]_(Dlg!vars) PROVE PlaceInv'
  OBVIOUS
<1>1. CASE Dlg!Watch \/ UNCHANGED Dlg!vars
  BY <1>1, DialogStays DEF Dlg!Watch, Dlg!vars
<1>2. ASSUME NEW d \in Dlg!Dialogs, Dlg!Ages(d) PROVE PlaceInv'
  BY <1>2, DialogStays DEF Dlg!Ages
<1>3. ASSUME NEW list \in DOMAIN Dlg!Nothing, NEW v \in Choices, Dlg!Answer(list, v) PROVE PlaceInv'
  BY <1>3, DialogAnswer DEF Dlg!Nothing, Lists
<1> QED BY <1>1, <1>2, <1>3, DialogAsk, DialogHandle, DialogTake, DialogSweep, DialogInterrupt DEF Dlg!Next, Choices

(* What the child waits for is what the phone is asked: no dialog is        *)
(* dropped without an answer and none is shown that is answered, whatever   *)
(* is swept, interrupted or crosses (pi/session.mjs:340-353).               *)
THEOREM DialogsKept == ASSUME DialogBounds PROVE Dlg!Spec => []Dlg!NoneForgotten
<1>1. PlaceInv => Dlg!NoneForgotten
  <2> SUFFICES ASSUME PlaceInv, NEW d \in DOMAIN kind
               PROVE  (d \in Dlg!Open \cup Dlg!Range(asked)) = (verdict[d] = Dlg!None)
    BY DEF Dlg!NoneForgotten
  <2>1. d \in 1 .. Len(kind) /\ DOMAIN asked = 1 .. Len(asked)
    BY DEF PlaceInv, DialogTypes
  <2>2. d \in Dlg!Range(asked) <=> InAsked(d)
    BY <2>1 DEF Dlg!Range, InAsked
  <2>3. d \in Dlg!Open <=> d \in pending.permissions \/ d \in pending.questions
    BY DEF Dlg!Open
  <2>4. (d \in pending.permissions \/ d \in pending.questions \/ InAsked(d)) <=> verdict[d] = Dlg!None
    BY <2>1 DEF PlaceInv, OneDialogPlace
  <2> QED BY <2>2, <2>3, <2>4
<1> QED BY <1>1, DialogInit, DialogStep, PTL DEF Dlg!Spec

(* What the user answered to a dialog is what it was answered.              *)
Said(d) ==
  /\ verdict[d] = "allow" => meant[d] = "allow"
  /\ verdict[d] = "deny" => meant[d] # "allow"
  /\ verdict[d] = "value" => meant[d] = "value" \/ kind[d] = "freeform"

MeantNow ==
  /\ \A d \in 1 .. Len(kind) : Said(d)
  /\ \A i \in 1 .. Len(posts) : posts[i].decision = meant[posts[i].to]
  /\ \A d \in Dlg!Dialogs : meant[d] # Dlg!None => d <= Len(kind) /\ ~InAsked(d)
  /\ session = "assistant" => pending.permissions = {}

(* A session's answers, which name no dialog, are those to the oldest of    *)
(* each list, in order, while none crosses a sweep or an interrupt.         *)
InTurn ==
  /\ \A i \in 1 .. Len(posts) : posts[i].to \in pending[posts[i].list]
  /\ \A i, j \in 1 .. Len(posts) : i < j /\ posts[i].list = posts[j].list => posts[i].to < posts[j].to
  /\ \A l \in Lists : \A d \in pending[l] :
       /\ meant[d] # Dlg!None => \E i \in 1 .. Len(posts) : posts[i].list = l /\ posts[i].to = d
       /\ \A e \in pending[l] : d < e /\ meant[e] # Dlg!None => meant[d] # Dlg!None
  /\ \A l \in Lists : \A d \in pending[l] : \A i \in 1 .. Len(asked) : d < asked[i]
MeantInv == PlaceInv /\ MeantNow /\ (session = "lc" => InTurn)

LEMMA MeantInit == ASSUME DialogBounds PROVE Dlg!Init => MeantInv
<1> SUFFICES ASSUME Dlg!Init PROVE MeantInv
  OBVIOUS
<1>1. kind = << >> /\ asked = << >> /\ posts = << >> /\ Len(kind) = 0 /\ Len(posts) = 0 /\ Len(asked) = 0
      /\ \A l \in Lists : pending[l] = {}
  BY DEF Dlg!Init, Lists
<1>2. MeantNow
  BY <1>1 DEF Dlg!Init, MeantNow, Lists
<1>3. InTurn
  BY <1>1 DEF InTurn
<1> QED BY <1>2, <1>3, DialogInit DEF MeantInv

(* The lists hold dialogs.                                                  *)
LEMMA ListFacts ==
  ASSUME DialogBounds, PlaceInv
  PROVE  /\ \A l \in Lists : pending[l] \subseteq 1 .. Len(kind) /\ pending[l] \subseteq Dlg!Dialogs
         /\ \A l \in Lists : \A d \in pending[l] : verdict[d] = Dlg!None /\ ~InAsked(d)
         /\ \A l, m \in Lists : l # m => pending[l] \cap pending[m] = {}
         /\ 1 .. Len(kind) \subseteq Dlg!Dialogs
         /\ \A i \in 1 .. Len(posts) : posts[i] \in Post
         /\ \A i \in 1 .. Len(asked) : asked[i] \in 1 .. Len(kind)
<1>1. 1 .. Len(kind) \subseteq Dlg!Dialogs
  BY DEF PlaceInv, DialogTypes, Dlg!Dialogs, DialogBounds
<1>2. \A l \in Lists : pending[l] \subseteq 1 .. Len(kind)
  BY DEF PlaceInv, DialogTypes, Lists
<1>3. \A l \in Lists : \A d \in pending[l] : d \in pending.permissions \/ d \in pending.questions
  BY DEF Lists
<1>4. \A l \in Lists : \A d \in pending[l] : verdict[d] = Dlg!None /\ ~InAsked(d)
  BY <1>2, <1>3 DEF PlaceInv, OneDialogPlace
<1>5. \A l, m \in Lists : l # m => pending[l] \cap pending[m] = {}
  BY DEF PlaceInv, OneDialogPlace, Lists
<1>6. \A i \in 1 .. Len(posts) : posts[i] \in Post
  BY DEF PlaceInv, DialogTypes
<1>7. \A i \in 1 .. Len(asked) : asked[i] \in 1 .. Len(kind)
  BY DEF PlaceInv, DialogTypes
<1> QED BY <1>1, <1>2, <1>4, <1>5, <1>6, <1>7

LEMMA MeantAsk == ASSUME DialogBounds, MeantInv, NEW k \in Dlg!DialogKinds, Dlg!Ask(k) PROVE MeantInv'
<1> DEFINE n == Len(kind) + 1
<1>1. /\ kind' = Append(kind, k) /\ asked' = Append(asked, n)
      /\ session' = session /\ verdict' = verdict /\ pending' = pending /\ meant' = meant /\ posts' = posts
  BY DEF Dlg!Ask
<1>2. /\ kind \in Seq(Dlg!DialogKinds) /\ Len(kind) \in Nat /\ asked \in Seq(1 .. Len(kind)) /\ Len(asked) \in Nat
      /\ Len(kind') = n /\ n \in Nat
      /\ \A d \in 1 .. Len(kind) : kind'[d] = kind[d]
  BY <1>1 DEF MeantInv, PlaceInv, DialogTypes
<1>3. /\ Len(asked') = Len(asked) + 1 /\ asked'[Len(asked) + 1] = n
      /\ \A i \in 1 .. Len(asked) : asked'[i] = asked[i]
  BY <1>1, <1>2, AppendProperties
<1>4. PlaceInv'
  BY DialogAsk DEF MeantInv
<1>5. n \in Dlg!Dialogs /\ verdict[n] = Dlg!None
  BY <1>2 DEF Dlg!Ask, DialogBounds, Dlg!Dialogs, MeantInv, PlaceInv, OneDialogPlace
<1> HIDE DEF n
<1>6. n > Len(kind) /\ \A d \in 1 .. n : d \in 1 .. Len(kind) \/ d = n
  BY <1>2 DEF n
<1>7. \A d \in 1 .. n : Said(d)'
  BY <1>1, <1>2, <1>5, <1>6 DEF MeantInv, MeantNow, Said, Dlg!None
<1>8. \A d \in Dlg!Dialogs : meant[d] # Dlg!None => d <= n /\ d # n /\ ~InAsked(d)
  BY <1>2, <1>6 DEF MeantInv, MeantNow, Dlg!Dialogs
<1>9. \A i \in 1 .. Len(asked') : i \in 1 .. Len(asked) \/ i = Len(asked) + 1
  BY <1>2, <1>3
<1>10. \A d \in Dlg!Dialogs : meant[d] # Dlg!None => d <= n /\ ~\E i \in 1 .. Len(asked') : asked'[i] = d
  BY <1>3, <1>8, <1>9 DEF InAsked
<1>11. MeantNow'
  BY <1>1, <1>2, <1>7, <1>10 DEF MeantInv, MeantNow, InAsked, Dlg!None, Dlg!Dialogs
<1>12. ASSUME session = "lc" PROVE InTurn'
  <2>1. \A l \in Lists : \A d \in pending[l] : d < n
    BY <1>2, <1>6, ListFacts DEF MeantInv
  <2>2. \A l \in Lists : \A d \in pending[l] : \A i \in 1 .. Len(asked') : d < asked'[i]
    BY <1>3, <1>9, <1>12, <2>1 DEF MeantInv, InTurn
  <2> QED BY <1>1, <1>12, <2>2 DEF MeantInv, InTurn, Dlg!None, Lists
<1> QED BY <1>1, <1>4, <1>11, <1>12 DEF MeantInv

LEMMA MeantHandle == ASSUME DialogBounds, MeantInv, Dlg!Handle PROVE MeantInv'
<1> DEFINE d == Head(asked)
<1> DEFINE now == Dlg!AtOnce(kind[d])
<1> DEFINE list == Dlg!ListOf(kind[d])
<1>1. /\ asked # << >> /\ asked' = Tail(asked) /\ session' = session /\ kind' = kind /\ meant' = meant
      /\ posts' = posts
      /\ IF now # Dlg!None THEN verdict' = [verdict EXCEPT ![d] = now] /\ pending' = pending
         ELSE pending' = [pending EXCEPT ![list] = pending[list] \cup {d}] /\ verdict' = verdict
  BY DEF Dlg!Handle
<1>2. /\ asked \in Seq(1 .. Len(kind)) /\ d \in 1 .. Len(kind) /\ Len(kind) \in Nat /\ d = asked[1]
      /\ 1 \in 1 .. Len(asked)
  BY <1>1 DEF MeantInv, PlaceInv, DialogTypes
<1>3. d \in Dlg!Dialogs /\ InAsked(d)
  BY <1>2, ListFacts DEF MeantInv, InAsked
<1>4. \A i \in 1 .. Len(asked') : i + 1 \in 1 .. Len(asked) /\ asked'[i] = asked[i + 1] /\ 1 < i + 1
  BY <1>1, <1>2
<1>5. meant[d] = Dlg!None
  BY <1>3 DEF MeantInv, MeantNow
<1>6. list \in Lists /\ (session = "assistant" => list = "questions")
  BY DEF Dlg!ListOf, Lists
<1>7. now = "deny" \/ now = "cancelled" \/ now = Dlg!None \/ (now = "value" /\ kind[d] = "freeform")
  BY DEF Dlg!AtOnce, Dlg!LcAtOnce, Dlg!AssistantAtOnce
<1> HIDE DEF d, now, list
<1>8. PlaceInv'
  BY DialogHandle DEF MeantInv
<1>9. \A e \in 1 .. Len(kind) : Said(e)'
  <2> SUFFICES ASSUME NEW e \in 1 .. Len(kind) PROVE Said(e)'
    OBVIOUS
  <2>1. CASE e = d /\ now # Dlg!None
    <3>1. verdict'[e] = now
      BY <1>1, <1>3, <2>1 DEF MeantInv, PlaceInv, DialogTypes
    <3> QED BY <1>1, <1>5, <1>7, <2>1, <3>1 DEF Said, Dlg!None
  <2>2. CASE ~(e = d /\ now # Dlg!None)
    <3>1. e \in Dlg!Dialogs
      BY ListFacts DEF MeantInv
    <3>2. verdict'[e] = verdict[e]
      BY <1>1, <1>3, <2>2, <3>1 DEF MeantInv, PlaceInv, DialogTypes
    <3> QED BY <1>1, <3>2 DEF Said, MeantInv, MeantNow
  <2> QED BY <2>1, <2>2
<1>10. \A e : (\E i \in 1 .. Len(asked') : asked'[i] = e) => InAsked(e)
  BY <1>4 DEF InAsked
<1>11. \A l \in Lists : pending'[l] = pending[l] \/ (l = list /\ pending'[l] = pending[l] \cup {d})
  BY <1>1, <1>6 DEF MeantInv, PlaceInv, DialogTypes, Lists
<1>12. session = "assistant" => pending'.permissions = {}
  <2>1. "permissions" \in Lists
    BY DEF Lists
  <2> QED BY <1>6, <1>11, <2>1 DEF MeantInv, MeantNow
<1>13. MeantNow'
  BY <1>1, <1>9, <1>10, <1>12 DEF MeantInv, MeantNow, InAsked, Dlg!None, Dlg!Dialogs
<1>14. ASSUME session = "lc" PROVE InTurn'
  <2>1. \A l \in Lists : pending[l] \subseteq pending'[l]
    BY <1>11
  <2>2. \A l \in Lists : \A e \in pending[l] : e < d
    BY <1>2, <1>14 DEF MeantInv, InTurn
  <2>3. \A i \in 1 .. Len(asked') : d < asked'[i]
    BY <1>2, <1>4 DEF MeantInv, PlaceInv, OneDialogPlace
  <2>4. \A l \in Lists : \A e \in pending'[l] : e \in pending[l] \/ e = d
    BY <1>11
  <2>5. \A l \in Lists : \A e \in pending'[l] : \A i \in 1 .. Len(asked') : e < asked'[i]
    BY <1>4, <1>14, <2>3, <2>4 DEF MeantInv, InTurn
  <2>6. \A i \in 1 .. Len(posts) : posts[i].to \in pending'[posts[i].list]
    BY <1>14, <2>1, ListFacts DEF MeantInv, InTurn, Post
  <2>7. \A l \in Lists : \A e \in pending'[l] :
          meant[e] # Dlg!None => \E i \in 1 .. Len(posts) : posts[i].list = l /\ posts[i].to = e
    BY <1>5, <1>14, <2>4 DEF MeantInv, InTurn
  <2>8. \A l \in Lists : \A e, f \in pending'[l] : e < f /\ meant[f] # Dlg!None => meant[e] # Dlg!None
    <3> SUFFICES ASSUME NEW l \in Lists, NEW e \in pending'[l], NEW f \in pending'[l], e < f, meant[f] # Dlg!None
                 PROVE  meant[e] # Dlg!None
      OBVIOUS
    <3>1. f \in pending[l]
      BY <1>5, <2>4
    <3>2. e # d
      BY <1>2, <2>2, <3>1, ListFacts DEF MeantInv
    <3>3. e \in pending[l]
      BY <2>4, <3>2
    <3> QED BY <1>14, <3>1, <3>3 DEF MeantInv, InTurn
  <2>9. \A i, j \in 1 .. Len(posts) : i < j /\ posts[i].list = posts[j].list => posts[i].to < posts[j].to
    BY <1>14 DEF MeantInv, InTurn
  <2> QED BY <1>1, <2>5, <2>6, <2>7, <2>8, <2>9 DEF InTurn, Dlg!None, Lists
<1> QED BY <1>1, <1>8, <1>13, <1>14 DEF MeantInv

LEMMA MeantAnswer ==
  ASSUME DialogBounds, MeantInv, NEW list \in Lists, NEW v \in Choices, Dlg!Answer(list, v)
  PROVE  MeantInv'
<1>1. PICK d \in pending[list] \cap Dlg!Dialogs :
        /\ meant[d] = Dlg!None /\ \A e \in pending[list] : meant[e] = Dlg!None => d <= e
        /\ meant' = [meant EXCEPT ![d] = v]
        /\ posts' = Append(posts, [list |-> list, to |-> d, decision |-> v])
        /\ UNCHANGED <<session, kind, asked, verdict, pending>>
  BY AnswerIs DEF MeantInv
<1> DEFINE post == [list |-> list, to |-> d, decision |-> v]
<1>2. PlaceInv'
  BY DialogAnswer DEF MeantInv
<1>3. d \in 1 .. Len(kind) /\ verdict[d] = Dlg!None /\ ~InAsked(d) /\ Len(kind) \in Nat
  BY <1>1, ListFacts DEF MeantInv, PlaceInv, DialogTypes
<1>4. meant'[d] = v /\ v # Dlg!None /\ \A e \in Dlg!Dialogs \ {d} : meant'[e] = meant[e]
  BY <1>1 DEF MeantInv, PlaceInv, DialogTypes, Choices, Dlg!None
<1>5. posts \in Seq(Post) /\ post \in Post /\ Len(posts) \in Nat
  BY <1>1 DEF MeantInv, PlaceInv, DialogTypes, Post
<1>6. /\ Len(posts') = Len(posts) + 1 /\ posts'[Len(posts) + 1] = post
      /\ \A i \in 1 .. Len(posts) : posts'[i] = posts[i]
  BY <1>1, <1>5, AppendProperties
<1>7. post.list = list /\ post.to = d /\ post.decision = v
  OBVIOUS
<1> HIDE DEF post
<1>8. \A i \in 1 .. Len(posts') : i \in 1 .. Len(posts) \/ i = Len(posts) + 1
  BY <1>5, <1>6
<1>9. \A i \in 1 .. Len(posts) : posts[i].to # d /\ posts[i].to \in Dlg!Dialogs
                                 /\ posts[i].decision = meant[posts[i].to]
  BY <1>1, ListFacts DEF MeantInv, MeantNow, Post, Choices, Dlg!None
<1>10. \A e \in 1 .. Len(kind) : Said(e)'
  <2> SUFFICES ASSUME NEW e \in 1 .. Len(kind) PROVE Said(e)'
    OBVIOUS
  <2>1. e \in Dlg!Dialogs
    BY ListFacts DEF MeantInv
  <2>2. CASE e = d
    BY <1>1, <1>3, <2>2 DEF Said, Dlg!None
  <2>3. CASE e # d
    BY <1>1, <1>4, <2>1, <2>3 DEF Said, MeantInv, MeantNow
  <2> QED BY <2>2, <2>3
<1>11. \A i \in 1 .. Len(posts') : posts'[i].decision = meant'[posts'[i].to]
  BY <1>4, <1>6, <1>7, <1>8, <1>9
<1>12. \A e \in Dlg!Dialogs : meant'[e] # Dlg!None => e <= Len(kind) /\ ~InAsked(e)
  <2> SUFFICES ASSUME NEW e \in Dlg!Dialogs, meant'[e] # Dlg!None PROVE e <= Len(kind) /\ ~InAsked(e)
    OBVIOUS
  <2>1. CASE e = d
    BY <1>3, <2>1
  <2>2. CASE e # d
    BY <1>4, <2>2 DEF MeantInv, MeantNow
  <2> QED BY <2>1, <2>2
<1>13. MeantNow'
  BY <1>1, <1>10, <1>11, <1>12 DEF MeantInv, MeantNow, InAsked, Dlg!None, Dlg!Dialogs
<1>14. ASSUME session = "lc" PROVE InTurn'
  <2>1. \A i \in 1 .. Len(posts') : posts'[i].to \in pending[posts'[i].list]
    BY <1>1, <1>6, <1>7, <1>8, <1>14 DEF MeantInv, InTurn
  <2>2. \A i \in 1 .. Len(posts) : posts[i].list = list => posts[i].to < d
    <3> SUFFICES ASSUME NEW i \in 1 .. Len(posts), posts[i].list = list PROVE posts[i].to < d
      OBVIOUS
    <3>1. posts[i].to \in pending[list] /\ meant[posts[i].to] # Dlg!None
      BY <1>9, <1>14, ListFacts DEF MeantInv, InTurn, Post, Choices, Dlg!None
    <3>2. ~(d < posts[i].to)
      BY <1>1, <1>14, <3>1 DEF MeantInv, InTurn
    <3>3. posts[i].to \in Nat /\ d \in Nat /\ posts[i].to # d
      BY <1>1, <1>9 DEF Dlg!Dialogs
    <3> QED BY <3>2, <3>3
  <2>3. \A i, j \in 1 .. Len(posts') : i < j /\ posts'[i].list = posts'[j].list => posts'[i].to < posts'[j].to
    <3> SUFFICES ASSUME NEW i \in 1 .. Len(posts'), NEW j \in 1 .. Len(posts'), i < j,
                        posts'[i].list = posts'[j].list
                 PROVE  posts'[i].to < posts'[j].to
      OBVIOUS
    <3>1. i \in 1 .. Len(posts)
      BY <1>5, <1>6
    <3>2. CASE j \in 1 .. Len(posts)
      BY <1>6, <1>14, <3>1, <3>2 DEF MeantInv, InTurn
    <3>3. CASE j = Len(posts) + 1
      BY <1>6, <1>7, <2>2, <3>1, <3>3
    <3> QED BY <1>8, <3>2, <3>3
  <2>4. \A l \in Lists : \A e \in pending[l] :
          meant'[e] # Dlg!None => \E i \in 1 .. Len(posts') : posts'[i].list = l /\ posts'[i].to = e
    <3> SUFFICES ASSUME NEW l \in Lists, NEW e \in pending[l], meant'[e] # Dlg!None
                 PROVE  \E i \in 1 .. Len(posts') : posts'[i].list = l /\ posts'[i].to = e
      OBVIOUS
    <3>1. CASE e = d
      <4>1. l = list
        BY <1>1, <3>1, ListFacts DEF MeantInv
      <4>2. Len(posts) + 1 \in 1 .. Len(posts')
        BY <1>5, <1>6
      <4> QED BY <1>6, <1>7, <3>1, <4>1, <4>2
    <3>2. CASE e # d
      <4>1. meant[e] # Dlg!None
        BY <1>4, <3>2, ListFacts DEF MeantInv
      <4>2. PICK i \in 1 .. Len(posts) : posts[i].list = l /\ posts[i].to = e
        BY <1>14, <4>1 DEF MeantInv, InTurn
      <4>3. i \in 1 .. Len(posts')
        BY <1>5, <1>6
      <4> QED BY <1>6, <4>2, <4>3
    <3> QED BY <3>1, <3>2
  <2>5. \A l \in Lists : \A e, f \in pending[l] : e < f /\ meant'[f] # Dlg!None => meant'[e] # Dlg!None
    <3> SUFFICES ASSUME NEW l \in Lists, NEW e \in pending[l], NEW f \in pending[l], e < f, meant'[f] # Dlg!None,
                        e # d
                 PROVE  meant'[e] # Dlg!None
      BY <1>4
    <3>1. e \in Dlg!Dialogs /\ f \in Dlg!Dialogs /\ meant'[e] = meant[e]
      BY <1>4, ListFacts DEF MeantInv
    <3>2. CASE f = d
      <4>1. l = list
        BY <1>1, <3>2, ListFacts DEF MeantInv
      <4>2. ~(d <= e)
        BY <1>1, <3>1, <3>2 DEF Dlg!Dialogs
      <4> QED BY <1>1, <3>1, <4>1, <4>2
    <3>3. CASE f # d
      BY <1>4, <1>14, <3>1, <3>3 DEF MeantInv, InTurn
    <3> QED BY <3>2, <3>3
  <2>6. \A l \in Lists : \A e \in pending[l] : \A i \in 1 .. Len(asked) : e < asked[i]
    BY <1>14 DEF MeantInv, InTurn
  <2>7. pending' = pending /\ asked' = asked
    BY <1>1
  <2> QED BY <2>1, <2>3, <2>4, <2>5, <2>6, <2>7 DEF InTurn, Dlg!None, Lists
<1> QED BY <1>1, <1>2, <1>13, <1>14 DEF MeantInv

(* Of a session, the oldest of the list is the one the user answered.       *)
LEMMA OldestMeant ==
  ASSUME DialogBounds, MeantInv, session = "lc", posts # << >>
  PROVE  Dlg!LcAnswered(Head(posts)) = {Head(posts).to}
<1> DEFINE post == Head(posts)
<1> DEFINE ds == pending[post.list]
<1>0. post = posts[1] /\ 1 \in 1 .. Len(posts) /\ post \in Post
  BY DEF MeantInv, PlaceInv, DialogTypes
<1>1. post = posts[1] /\ 1 \in 1 .. Len(posts) /\ post \in Post /\ post.list \in Lists
  BY <1>0 DEF Post
<1> HIDE DEF post
<1>2. post.to \in ds /\ post.decision = meant[post.to] /\ meant[post.to] # Dlg!None
  BY <1>1 DEF MeantInv, InTurn, MeantNow, Post, Choices, Dlg!None
<1>3. ds \subseteq Dlg!Dialogs
  BY <1>1, ListFacts DEF MeantInv
<1>4. ASSUME NEW h \in ds PROVE post.to <= h
  <2> SUFFICES ASSUME h < post.to PROVE FALSE
    BY <1>2, <1>3 DEF Dlg!Dialogs
  <2>1. meant[h] # Dlg!None
    BY <1>1, <1>2 DEF MeantInv, InTurn
  <2>2. PICK i \in 1 .. Len(posts) : posts[i].list = post.list /\ posts[i].to = h
    BY <1>1, <2>1 DEF MeantInv, InTurn
  <2>3. h \in Nat /\ post.to \in Nat
    BY <1>2, <1>3 DEF Dlg!Dialogs
  <2>4. 1 < i
    BY <1>1, <2>2, <2>3
  <2>5. post.to < h
    BY <1>1, <2>2, <2>4 DEF MeantInv, InTurn
  <2> QED BY <2>3, <2>5
<1>5. \A h \in ds : (\A e \in ds : h <= e) => h = post.to
  BY <1>2, <1>3, <1>4 DEF Dlg!Dialogs
<1>6. Dlg!Oldest(ds) = {post.to}
  BY <1>2, <1>4, <1>5 DEF Dlg!Oldest
<1> QED BY <1>6 DEF Dlg!LcAnswered, post

LEMMA MeantTake == ASSUME DialogBounds, MeantInv, Dlg!Take PROVE MeantInv'
<1> DEFINE post == Head(posts)
<1> DEFINE ds == Dlg!Answered(post)
<1>1. /\ posts # << >> /\ posts' = Tail(posts) /\ session' = session /\ kind' = kind /\ asked' = asked
      /\ meant' = meant
      /\ verdict' = [d \in Dlg!Dialogs |-> IF d \in ds THEN post.decision ELSE verdict[d]]
      /\ pending' = [pending EXCEPT ![post.list] = pending[post.list] \ ds]
  BY DEF Dlg!Take
<1>0. post = posts[1] /\ 1 \in 1 .. Len(posts) /\ post \in Post /\ posts \in Seq(Post)
  BY <1>1 DEF MeantInv, PlaceInv, DialogTypes
<1>2. post = posts[1] /\ 1 \in 1 .. Len(posts) /\ post \in Post /\ post.list \in Lists /\ posts \in Seq(Post)
  BY <1>0 DEF Post
<1>3. ds \subseteq {post.to} /\ (session = "lc" => ds = {post.to})
  BY <1>1, OldestMeant DEF Dlg!Answered, Dlg!AssistantAnswered
<1> HIDE DEF post, ds
<1>4. \A i \in 1 .. Len(posts') : i + 1 \in 1 .. Len(posts) /\ posts'[i] = posts[i + 1] /\ 1 < i + 1
  BY <1>1, <1>2
<1>5. \A i \in 1 .. Len(posts) : i = 1 \/ (i - 1 \in 1 .. Len(posts') /\ posts'[i - 1] = posts[i])
  BY <1>1, <1>2
<1>6. PlaceInv'
  BY DialogTake DEF MeantInv
<1>7. post.decision = meant[post.to]
  BY <1>2 DEF MeantInv, MeantNow
<1>8. \A d \in 1 .. Len(kind) : Said(d)'
  <2> SUFFICES ASSUME NEW d \in 1 .. Len(kind) PROVE Said(d)'
    OBVIOUS
  <2>1. d \in Dlg!Dialogs
    BY ListFacts DEF MeantInv
  <2>2. CASE d \in ds
    <3>1. verdict'[d] = meant[d]
      BY <1>1, <1>3, <1>7, <2>1, <2>2
    <3> QED BY <1>1, <3>1 DEF Said
  <2>3. CASE d \notin ds
    <3>1. verdict'[d] = verdict[d]
      BY <1>1, <2>1, <2>3
    <3> QED BY <1>1, <3>1 DEF Said, MeantInv, MeantNow
  <2> QED BY <2>2, <2>3
<1>9. \A i \in 1 .. Len(posts') : posts'[i].decision = meant[posts'[i].to]
  BY <1>4 DEF MeantInv, MeantNow
<1>10. \A l \in Lists : pending'[l] = IF l = post.list THEN pending[l] \ ds ELSE pending[l]
  BY <1>1, <1>2 DEF MeantInv, PlaceInv, DialogTypes, Lists
<1>11. session = "assistant" => pending'.permissions = {}
  <2>1. "permissions" \in Lists
    BY DEF Lists
  <2> QED BY <1>10, <2>1 DEF MeantInv, MeantNow
<1>12. MeantNow'
  BY <1>1, <1>8, <1>9, <1>11 DEF MeantInv, MeantNow, InAsked, Dlg!None, Dlg!Dialogs
<1>13. ASSUME session = "lc" PROVE InTurn'
  <2>1. ds = {post.to} /\ post.to \in pending[post.list]
    BY <1>2, <1>3, <1>13 DEF MeantInv, InTurn
  <2>2. \A l \in Lists : pending'[l] \subseteq pending[l] /\ post.to \notin pending'[l]
    BY <1>2, <1>10, <2>1, ListFacts DEF MeantInv
  <2>3. ASSUME NEW i \in 1 .. Len(posts') PROVE posts'[i].to \in pending'[posts'[i].list]
    <3> DEFINE p == posts[i + 1]
    <3>1. i + 1 \in 1 .. Len(posts) /\ posts'[i] = p /\ 1 < i + 1 /\ p \in Post
      BY <1>4, ListFacts DEF MeantInv
    <3>2. p.to \in pending[p.list] /\ p.list \in Lists
      BY <1>13, <3>1 DEF MeantInv, InTurn, Post
    <3>3. p.list = post.list => post.to < p.to
      BY <1>2, <1>13, <3>1 DEF MeantInv, InTurn
    <3>4. p.to \in Nat /\ post.to \in Nat
      BY <1>2, <3>1 DEF Post, Dlg!Dialogs
    <3> HIDE DEF p
    <3>5. p.to \in pending'[p.list]
      <4>1. CASE p.list = post.list
        <5>1. p.to # post.to
          BY <3>3, <3>4, <4>1
        <5> QED BY <1>10, <2>1, <3>2, <4>1, <5>1
      <4>2. CASE p.list # post.list
        BY <1>10, <3>2, <4>2
      <4> QED BY <4>1, <4>2
    <3> QED BY <3>1, <3>5
  <2>4. \A i, j \in 1 .. Len(posts') : i < j /\ posts'[i].list = posts'[j].list => posts'[i].to < posts'[j].to
    <3> SUFFICES ASSUME NEW i \in 1 .. Len(posts'), NEW j \in 1 .. Len(posts'), i < j,
                        posts'[i].list = posts'[j].list
                 PROVE  posts'[i].to < posts'[j].to
      OBVIOUS
    <3>1. i + 1 < j + 1
      OBVIOUS
    <3> QED BY <1>4, <1>13, <3>1 DEF MeantInv, InTurn
  <2>5. \A l \in Lists : \A e \in pending'[l] :
          meant[e] # Dlg!None => \E i \in 1 .. Len(posts') : posts'[i].list = l /\ posts'[i].to = e
    <3> SUFFICES ASSUME NEW l \in Lists, NEW e \in pending'[l], meant[e] # Dlg!None
                 PROVE  \E i \in 1 .. Len(posts') : posts'[i].list = l /\ posts'[i].to = e
      OBVIOUS
    <3>1. e \in pending[l] /\ e # post.to
      BY <2>2
    <3>2. PICK i \in 1 .. Len(posts) : posts[i].list = l /\ posts[i].to = e
      BY <1>13, <3>1 DEF MeantInv, InTurn
    <3>3. i # 1
      BY <1>2, <3>1, <3>2
    <3> QED BY <1>5, <3>2, <3>3
  <2>6. \A l \in Lists : \A e, f \in pending'[l] : e < f /\ meant[f] # Dlg!None => meant[e] # Dlg!None
    BY <1>13, <2>2 DEF MeantInv, InTurn
  <2>7. \A l \in Lists : \A e \in pending'[l] : \A i \in 1 .. Len(asked) : e < asked[i]
    BY <1>13, <2>2 DEF MeantInv, InTurn
  <2> QED BY <1>1, <2>3, <2>4, <2>5, <2>6, <2>7 DEF InTurn, Dlg!None, Lists
<1> QED BY <1>1, <1>6, <1>12, <1>13 DEF MeantInv

(* The bridge answers dialogs the user has not answered: none is, or they   *)
(* are the assistant's, which names its dialogs.                            *)
LEMMA MeantClosed ==
  ASSUME DialogBounds, MeantInv, PlaceInv', NEW ds \in SUBSET (pending.permissions \cup pending.questions),
         NEW v \in {"deny", "cancelled"}, posts = << >> \/ session = "assistant",
         v = "deny" => session = "lc",
         UNCHANGED <<session, kind, asked, meant, posts>>,
         verdict' = [d \in Dlg!Dialogs |-> IF d \in ds THEN v ELSE verdict[d]],
         \A l \in Lists : pending'[l] = pending[l] \ ds
  PROVE  MeantInv'
<1>1. \A d \in 1 .. Len(kind) : Said(d)'
  <2> SUFFICES ASSUME NEW d \in 1 .. Len(kind) PROVE Said(d)'
    OBVIOUS
  <2>1. d \in Dlg!Dialogs
    BY ListFacts DEF MeantInv
  <2>2. CASE d \in ds
    <3>1. verdict'[d] = v
      BY <2>1, <2>2
    <3>2. v = "deny" => meant[d] = Dlg!None
      <4> SUFFICES ASSUME v = "deny" PROVE meant[d] = Dlg!None
        OBVIOUS
      <4>1. session = "lc" /\ posts = << >> /\ Len(posts) = 0
        BY DEF MeantInv, MeantNow
      <4>2. PICK l \in Lists : d \in pending[l]
        BY <2>2 DEF Lists
      <4> QED BY <4>1, <4>2 DEF MeantInv, InTurn
    <3> QED BY <3>1, <3>2 DEF Said, Dlg!None
  <2>3. CASE d \notin ds
    <3>1. verdict'[d] = verdict[d]
      BY <2>1, <2>3
    <3> QED BY <3>1 DEF Said, MeantInv, MeantNow
  <2> QED BY <2>2, <2>3
<1>2. "permissions" \in Lists
  BY DEF Lists
<1>3. MeantNow'
  BY <1>1, <1>2 DEF MeantInv, MeantNow, InAsked, Dlg!None, Dlg!Dialogs
<1>4. ASSUME session = "lc" PROVE InTurn'
  <2>1. posts = << >> /\ Len(posts) = 0
    BY <1>4
  <2>2. \A l \in Lists : pending'[l] \subseteq pending[l]
    OBVIOUS
  <2>3. \A l \in Lists : \A e \in pending[l] : meant[e] = Dlg!None
    BY <1>4, <2>1 DEF MeantInv, InTurn
  <2>4. \A l \in Lists : \A e \in pending'[l] : \A i \in 1 .. Len(asked) : e < asked[i]
    BY <1>4, <2>2 DEF MeantInv, InTurn
  <2> QED BY <2>1, <2>2, <2>3, <2>4 DEF InTurn, Dlg!None, Lists
<1> QED BY <1>3, <1>4 DEF MeantInv

LEMMA MeantSweep == ASSUME "crossing" \notin Happens, DialogBounds, MeantInv, Dlg!Sweep PROVE MeantInv'
<1> DEFINE ds == Dlg!Swept
<1>1. /\ ds \subseteq pending.permissions /\ ds # {} /\ (posts = << >> \/ session = "assistant")
      /\ UNCHANGED <<session, kind, asked, meant, posts>>
      /\ verdict' = [d \in Dlg!Dialogs |-> IF d \in ds THEN "deny" ELSE verdict[d]]
      /\ pending' = [pending EXCEPT !.permissions = pending.permissions \ ds]
  BY DEF Dlg!Sweep, Dlg!Calm, Dlg!Swept
<1> HIDE DEF ds
<1>2. session = "lc"
  BY <1>1 DEF MeantInv, MeantNow, PlaceInv, DialogTypes
<1>3. \A l \in Lists : pending'[l] = pending[l] \ ds
  BY <1>1 DEF MeantInv, PlaceInv, DialogTypes, OneDialogPlace, Lists
<1>4. PlaceInv'
  BY DialogSweep DEF MeantInv
<1>5. ds \in SUBSET (pending.permissions \cup pending.questions)
  BY <1>1
<1> QED BY <1>1, <1>2, <1>3, <1>4, <1>5, MeantClosed

LEMMA MeantInterrupt == ASSUME "crossing" \notin Happens, DialogBounds, MeantInv, Dlg!Interrupt PROVE MeantInv'
<1> DEFINE ds == pending.permissions \cup pending.questions
<1>1. /\ posts = << >> \/ session = "assistant"
      /\ UNCHANGED <<session, kind, asked, meant, posts>>
      /\ verdict' = [d \in Dlg!Dialogs |-> IF d \in ds THEN "cancelled" ELSE verdict[d]]
      /\ pending' = [permissions |-> {}, questions |-> {}]
  BY DEF Dlg!Interrupt, Dlg!Calm, Dlg!Cancelled, Dlg!Open, Dlg!Nothing
<1>2. \A l \in Lists : pending'[l] = pending[l] \ ds
  BY <1>1 DEF Lists
<1>3. PlaceInv'
  BY DialogInterrupt DEF MeantInv
<1>4. ds \in SUBSET (pending.permissions \cup pending.questions) /\ "cancelled" \in {"deny", "cancelled"}
  OBVIOUS
<1> HIDE DEF ds
<1> QED BY <1>1, <1>2, <1>3, <1>4, MeantClosed

LEMMA MeantStep == "crossing" \notin Happens /\ DialogBounds /\ MeantInv /\ [Dlg!Next]_(Dlg!vars) => MeantInv'
<1> SUFFICES ASSUME "crossing" \notin Happens, DialogBounds, MeantInv, [Dlg!Next]_(Dlg!vars) PROVE MeantInv'
  OBVIOUS
<1>1. ASSUME UNCHANGED <<session, kind, asked, verdict, pending, meant, posts>> PROVE MeantInv'
  <2>1. PlaceInv'
    BY <1>1, DialogStays DEF MeantInv
  <2>2. MeantNow'
    BY <1>1 DEF MeantInv, MeantNow, Said, InAsked, Dlg!None, Dlg!Dialogs
  <2>3. session = "lc" => InTurn'
    BY <1>1 DEF MeantInv, InTurn, Dlg!None, Lists
  <2> QED BY <1>1, <2>1, <2>2, <2>3 DEF MeantInv
<1>2. CASE Dlg!Watch \/ UNCHANGED Dlg!vars
  BY <1>1, <1>2 DEF Dlg!Watch, Dlg!vars
<1>3. ASSUME NEW d \in Dlg!Dialogs, Dlg!Ages(d) PROVE MeantInv'
  BY <1>1, <1>3 DEF Dlg!Ages
<1>4. ASSUME NEW list \in DOMAIN Dlg!Nothing, NEW v \in Choices, Dlg!Answer(list, v) PROVE MeantInv'
  BY <1>4, MeantAnswer DEF Dlg!Nothing, Lists
<1> QED BY <1>2, <1>3, <1>4, MeantAsk, MeantHandle, MeantTake, MeantSweep, MeantInterrupt DEF Dlg!Next, Choices

(* An answer reaches the dialog the user answered, though a phone's answer  *)
(* names none, while no sweep or interrupt crosses one on its way: nothing  *)
(* is allowed that the user did not allow, nothing denied that was allowed  *)
(* (lc/session.mjs respondPermission, lc/engine.mjs respondPermission).     *)
THEOREM AnswersAreMeant ==
  ASSUME "crossing" \notin Happens, DialogBounds
  PROVE  Dlg!Spec => []Dlg!AnswersMeant
<1>1. MeantInv => Dlg!AnswersMeant
  <2> SUFFICES ASSUME MeantInv, NEW d \in DOMAIN kind PROVE Said(d)
    BY DEF Dlg!AnswersMeant, Said
  <2>1. d \in 1 .. Len(kind)
    BY DEF MeantInv, PlaceInv, DialogTypes
  <2> QED BY <2>1 DEF MeantInv, MeantNow
<1> QED BY <1>1, MeantInit, MeantStep, PTL DEF Dlg!Spec
================================================================================
