------------------------------ MODULE HubStream ------------------------------
(***************************************************************************)
(* One extended session's phone-facing event stream (hub.mjs): the shared  *)
(* ring of frames, the SSE connections that follow it, the replay a        *)
(* reconnect gets, the live fan-out, the ring-tail poll and the heartbeat. *)
(*                                                                         *)
(* The ring belongs to the official package.  It is modelled as the log of *)
(* every frame pushed; a frame's id is its position and only the newest    *)
(* RingSize ids are still readable.  A frame is reduced to its kind.       *)
(***************************************************************************)
EXTENDS Naturals, Sequences

CONSTANTS
  Conns,           (* SSE connections; a closed one is used again           *)
  RingSize,        (* frames the official ring keeps per session            *)
  TurnReplayCap,   (* TURN_REPLAY_CAP: most frames a turn window replays    *)
  GraceEnabled,    (* historyGraceMs > 0: a sole connect waits for history  *)
  Kinds,           (* the kinds of frame the session's writers produce      *)
  Writers,         (* the ways frames enter the ring in this session        *)
  Failures,        (* the ways a write to a response can fail               *)
  MaxFrames        (* bound on the frames ever pushed                       *)

ASSUME HubAssumption ==
  /\ RingSize \in Nat \ {0}
  /\ TurnReplayCap \in Nat \ {0}
  /\ MaxFrames \in Nat
  /\ GraceEnabled \in BOOLEAN
  /\ Failures \subseteq {"buffered", "refused"}
  /\ Kinds \subseteq {"user_prompt", "busy", "text_delta", "text_end", "idle"}
  /\ Writers \subseteq {"feed", "seed", "official"}

VARIABLES
  log,         (* every frame ever pushed to the ring, by id                *)
  seeded,      (* ids put in the ring as history                            *)
  state,       (* the stream's idea of the session: "idle" or "busy"        *)
  lastNoted,   (* lastNotedId: newest id folded into state                  *)
  clients,     (* connections the live fan-out writes to                    *)
  lastSent,    (* per connection: newest id it was sent or is past          *)
  phase,       (* per connection: unused, waiting or open                   *)
  mode,        (* per connection: how its replay was chosen                 *)
  tailAt,      (* per connection: ring tail captured when it connected      *)
  sent,        (* per connection: the ids written, batch by batch           *)
  shown,       (* per connection: the newest status written to it           *)
  recent,      (* historyRecent(): a /history reload within the last 5 s    *)
  waking,      (* waiting connects a reload has woken and not yet started   *)
  polling      (* the hub's catch-up interval is running                    *)

vars == <<log, seeded, state, lastNoted, clients, lastSent, phase, mode,
          tailAt, sent, shown, recent, waking, polling>>
ringVars == <<log, seeded>>

(* "busy" stands for every status that is neither idle nor text_end.        *)
StatusKinds == {"busy", "text_end", "idle"}
SessionState(kind) == IF kind = "idle" THEN "idle" ELSE "busy"

-----------------------------------------------------------------------------
(* The ring and what the stream computes from it.                           *)

RingTail(l) == Len(l)
RingHead(l) == IF Len(l) > RingSize THEN (Len(l) - RingSize) + 1 ELSE 1
Ring(l) == RingHead(l) .. RingTail(l)
OfKind(l, ids, k) == {i \in ids : l[i] = k}

(* The newest id of a set, 0 when it is empty.                              *)
Newest(S) == IF S = {} THEN 0 ELSE CHOOSE m \in S : \A n \in S : n <= m

(* reconnectWindow: the most recent turn starts at the last user_prompt;    *)
(* without one, after the last idle, or after the idle before it when the   *)
(* turn is complete.                                                        *)
TurnStart(l) ==
  LET prompts == OfKind(l, Ring(l), "user_prompt")
      idles   == OfKind(l, Ring(l), "idle")
  IN  IF prompts # {} THEN Newest(prompts)
      ELSE IF idles = {} THEN RingHead(l)
      ELSE IF Newest(idles) < RingTail(l) THEN Newest(idles) + 1
      ELSE IF idles = {RingTail(l)} THEN RingHead(l)
      ELSE Newest(idles \ {RingTail(l)}) + 1

Window(l, tail) ==
  {i \in Ring(l) : /\ i >= TurnStart(l)
                   /\ i + TurnReplayCap > RingTail(l)
                   /\ i <= tail}

(* historyCoveredIndex: the newest id of a window that /history already     *)
(* carries while the turn runs, 0 when there is none.                       *)
HistoryCovered(l, W) ==
  LET prompt == Newest(OfKind(l, W, "user_prompt"))
      ends   == {i \in OfKind(l, W, "text_end") : i > prompt}
  IN  IF ends # {} THEN Newest(ends) ELSE prompt

(* Slip: a finished turn is replayed to nobody, reload or not.              *)
ReplayNothingWhenIdle(tail, historyReloaded) ==
  LET W == Window(log, tail)
  IN  IF state = "idle" THEN {}
      ELSE IF ~historyReloaded THEN W
      ELSE {i \in W : i > HistoryCovered(log, W)}

(* streamOnlyReplay                                                         *)
StreamOnlyReplay(tail, historyReloaded) ==
  LET W == Window(log, tail)
  IN  IF ~historyReloaded THEN W
      ELSE IF state = "idle" THEN {}
      ELSE {i \in W : i > HistoryCovered(log, W)}

-----------------------------------------------------------------------------
(* The part of the stream one callback rewrites, passed from call to call.  *)

Stream == [clients |-> clients, lastSent |-> lastSent, sent |-> sent,
           shown |-> shown, state |-> state, noted |-> lastNoted]

Becomes(s) ==
  /\ clients' = s.clients
  /\ lastSent' = s.lastSent
  /\ sent' = s.sent
  /\ shown' = s.shown
  /\ state' = s.state
  /\ lastNoted' = s.noted

(* Slip: a frame that is no status sets the state to what it does not have. *)
LastStateless(l, ids, default) ==
  IF ids = {} THEN default
  ELSE IF l[Newest(ids)] \in StatusKinds THEN SessionState(l[Newest(ids)])
  ELSE "undefined"

(* The session state the newest status of a batch stands for.               *)
LastStatus(l, ids, default) ==
  LET news == {i \in ids : l[i] \in StatusKinds}
  IN  IF news = {} THEN default ELSE SessionState(l[Newest(news)])

(* Slip: lastNotedId is never advanced.                                     *)
NoteStateOnly(s, l, ids) ==
  [s EXCEPT !.state = LastStatus(l, {i \in ids : i > s.noted}, @)]

(* noteMessage for a batch in ring order: ids at or below lastNotedId are   *)
(* skipped.                                                                 *)
Note(s, l, ids) ==
  [s EXCEPT !.state = LastStatus(l, {i \in ids : i > s.noted}, @),
            !.noted = Newest(ids \union {@})]

(* Frames written to one connection in one go.                              *)
Write(s, l, c, ids) ==
  IF ids = {} THEN s
  ELSE [s EXCEPT !.sent[c]  = Append(@, ids),
                 !.shown[c] = LastStatus(l, ids, @)]

(* A write can fail at any frame: it returns false though the bytes were    *)
(* buffered and will go out ("buffered"), or it throws or goes to a broken  *)
(* socket ("refused").  A plan gives each connection the id whose write     *)
(* fails, or 0, and how it fails.                                           *)
Plans == [fail : [Conns -> 0 .. MaxFrames], how : {"buffered", "refused"}]

Gets(plan, c, ids) ==
  {i \in ids : \/ plan.fail[c] = 0
               \/ i < plan.fail[c]
               \/ i = plan.fail[c] /\ plan.how = "buffered"}

(* Slip: the frame at the position itself is pending again.                 *)
PendingFrom(l, from) == {i \in Ring(l) : i >= from}

Pending(l, from) == {i \in Ring(l) : i > from}

(* catchUp: every client gets the unseeded ring frames past its lastSent.   *)
(* One whose write fails leaves clients; its response is not ended.         *)
CatchUp(s, l, sd, plan) ==
  LET due(c)  == IF c \in s.clients THEN Pending(l, s.lastSent[c]) ELSE {}
      got(c)  == Gets(plan, c, due(c) \ sd)
      past(c) == {i \in due(c) : plan.fail[c] = 0 \/ i < plan.fail[c]}
      noted   == Note(s, l, UNION {due(c) : c \in Conns})
  IN  [clients  |-> {c \in s.clients : plan.fail[c] = 0},
       lastSent |-> [c \in Conns |-> Newest(past(c) \union {s.lastSent[c]})],
       sent     |-> [c \in Conns |-> IF got(c) = {} THEN s.sent[c]
                                      ELSE Append(s.sent[c], got(c))],
       shown    |-> [c \in Conns |-> LastStatus(l, got(c), s.shown[c])],
       state    |-> noted.state,
       noted    |-> noted.noted]

(* The plans under which exactly frames that catchUp writes fail.           *)
CatchUpPlans(s, l, sd) ==
  {plan \in Plans : \A c \in Conns : plan.fail[c] # 0 =>
     /\ plan.how \in Failures
     /\ c \in s.clients
     /\ plan.fail[c] \in Pending(l, s.lastSent[c]) \ sd}

-----------------------------------------------------------------------------
Init ==
  /\ log = <<>>
  /\ seeded = {}
  /\ state = "idle"
  /\ lastNoted = 0
  /\ clients = {}
  /\ lastSent = [c \in Conns |-> 0]
  /\ phase = [c \in Conns |-> "unused"]
  /\ mode = [c \in Conns |-> "none"]
  /\ tailAt = [c \in Conns |-> 0]
  /\ sent = [c \in Conns |-> <<>>]
  /\ shown = [c \in Conns |-> "none"]
  /\ recent = FALSE
  /\ waking = {}
  /\ polling = FALSE

(* A callback runs to its end: while a reload is starting the connects that *)
(* waited for it, nothing else runs.                                        *)
Settled == waking = {}

connVars == <<phase, mode, tailAt>>

(* A closed connection leaves nothing behind; its name may serve the next   *)
(* one.                                                                     *)
Forget(c, s) ==
  /\ Becomes([s EXCEPT !.lastSent[c] = 0, !.sent[c] = <<>>, !.shown[c] = "none"])
  /\ phase' = [phase EXCEPT ![c] = "unused"]
  /\ mode' = [mode EXCEPT ![c] = "none"]
  /\ tailAt' = [tailAt EXCEPT ![c] = 0]

(* Slip: only the fed frame is written, past whatever others pushed.        *)
FeedThisFrame(kind) ==
  /\ Settled /\ "feed" \in Writers /\ Len(log) < MaxFrames
  /\ log' = Append(log, kind)
  /\ LET s == Note(Stream, log', {Len(log')})
     IN  Becomes([s EXCEPT
           !.lastSent = [c \in Conns |-> IF c \in clients THEN Len(log') ELSE @[c]],
           !.sent = [c \in Conns |-> IF c \in clients THEN Append(@[c], {Len(log')})
                                     ELSE @[c]]])
  /\ UNCHANGED <<seeded, connVars, recent, waking, polling>>

(* Hub.feed: push, fold the new frame into state, then catch up.            *)
Feed(kind) ==
  /\ Settled /\ "feed" \in Writers /\ Len(log) < MaxFrames
  /\ log' = Append(log, kind)
  /\ LET s == Note(Stream, log', {Len(log')})
     IN  \E plan \in CatchUpPlans(s, log', seeded) : Becomes(CatchUp(s, log', seeded, plan))
  /\ UNCHANGED <<seeded, connVars, recent, waking, polling>>

(* SessionStream.seed: the frame is history, never delivered live.          *)
Seed(kind) ==
  /\ Settled /\ "seed" \in Writers /\ Len(log) < MaxFrames
  /\ log' = Append(log, kind)
  /\ seeded' = seeded \union {Len(log')}
  /\ Becomes(Note(Stream, log', {Len(log')}))
  /\ UNCHANGED <<connVars, recent, waking, polling>>

(* The official pipeline writes the ring behind the hub's back.             *)
OfficialPush(kind) ==
  /\ Settled /\ "official" \in Writers /\ Len(log) < MaxFrames
  /\ log' = Append(log, kind)
  /\ UNCHANGED <<seeded, state, lastNoted, clients, lastSent, connVars, sent,
                 shown, recent, waking, polling>>

(* handleEvents' start(replay, mode, tail): write the replay; when one of   *)
(* its writes fails the connection is closed, else it becomes a client and  *)
(* everyone catches up.                                                     *)
Start(c, replay, md, tail) ==
  /\ UNCHANGED <<ringVars, recent>>
  /\ \/ \E bad \in replay :
          /\ Failures # {}
          /\ Forget(c, Note(Stream, log, {i \in replay : i < bad}))
          /\ UNCHANGED polling
     \/ LET s == [Write(Note(Stream, log, replay), log, c, replay)
                    EXCEPT !.clients = @ \union {c}, !.lastSent[c] = tail]
        IN  /\ \E plan \in CatchUpPlans(s, log, seeded) : Becomes(CatchUp(s, log, seeded, plan))
            /\ phase' = [phase EXCEPT ![c] = "open"]
            /\ mode' = [mode EXCEPT ![c] = md]
            /\ tailAt' = [tailAt EXCEPT ![c] = tail]
            /\ polling' = TRUE

(* handleEvents with a Last-Event-ID the phone was once given.              *)
ConnectResume(c, lastEventId) ==
  /\ Settled /\ phase[c] = "unused"
  /\ Start(c, Pending(log, lastEventId), "resume", RingTail(log))
  /\ UNCHANGED waking

(* handleEvents with needReplay=true                                        *)
ConnectFull(c) ==
  /\ Settled /\ phase[c] = "unused"
  /\ Start(c, Ring(log), "full", RingTail(log))
  /\ UNCHANGED waking

(* A stream-only connect while another client is live.                      *)
ConnectMulti(c) ==
  /\ Settled /\ phase[c] = "unused" /\ clients # {}
  /\ Start(c, {}, "multi", RingTail(log))
  /\ UNCHANGED waking

ReplayMode == IF recent THEN "history" ELSE "window"

(* A stream-only connect of the sole client, decided at once.               *)
ConnectSole(c) ==
  /\ Settled /\ phase[c] = "unused" /\ clients = {}
  /\ recent \/ ~GraceEnabled
  /\ Start(c, StreamOnlyReplay(RingTail(log), recent), ReplayMode, RingTail(log))
  /\ UNCHANGED waking

(* A stream-only connect of the sole client that gives a history reload     *)
(* historyGraceMs to arrive; only the ring tail is captured.                *)
ConnectWait(c) ==
  /\ Settled /\ phase[c] = "unused" /\ clients = {}
  /\ ~recent /\ GraceEnabled
  /\ phase' = [phase EXCEPT ![c] = "waiting"]
  /\ tailAt' = [tailAt EXCEPT ![c] = RingTail(log)]
  /\ UNCHANGED <<ringVars, state, lastNoted, clients, lastSent, mode, sent,
                 shown, recent, waking, polling>>

Decide(c) == Start(c, StreamOnlyReplay(tailAt[c], recent), ReplayMode, tailAt[c])

(* The grace timer fires.                                                   *)
GraceExpires(c) ==
  /\ Settled /\ phase[c] = "waiting"
  /\ Decide(c)
  /\ UNCHANGED waking

(* noteHistory: the reload is remembered and wakes every waiting connect.   *)
NoteHistory ==
  /\ Settled
  /\ recent' = TRUE
  /\ waking' = {c \in Conns : phase[c] = "waiting"}
  /\ UNCHANGED <<ringVars, state, lastNoted, clients, lastSent, connVars, sent,
                 shown, polling>>

Wake(c) ==
  /\ c \in waking
  /\ Decide(c)
  /\ waking' = waking \ {c}

(* HISTORY_RECENT_MS after the reload.                                      *)
HistoryAges ==
  /\ Settled /\ recent
  /\ recent' = FALSE
  /\ UNCHANGED <<ringVars, state, lastNoted, clients, lastSent, connVars, sent,
                 shown, waking, polling>>

(* Slips: the poll forwards seeded history, fires once, or waits for idle.  *)
PollSendsHistory ==
  /\ Settled /\ polling
  /\ \E plan \in CatchUpPlans(Stream, log, {}) : Becomes(CatchUp(Stream, log, {}, plan))
  /\ polling' = (clients' # {})
  /\ UNCHANGED <<ringVars, connVars, recent, waking>>
PollOnce ==
  /\ Settled /\ polling
  /\ \E plan \in CatchUpPlans(Stream, log, seeded) :
       Becomes(CatchUp(Stream, log, seeded, plan))
  /\ polling' = FALSE
  /\ UNCHANGED <<ringVars, connVars, recent, waking>>
PollWhenIdle ==
  /\ Settled /\ polling /\ state = "idle"
  /\ \E plan \in CatchUpPlans(Stream, log, seeded) :
       Becomes(CatchUp(Stream, log, seeded, plan))
  /\ polling' = (clients' # {})
  /\ UNCHANGED <<ringVars, connVars, recent, waking>>

(* catchUpAll: the interval stops itself when no client is left.            *)
Poll ==
  /\ Settled /\ polling
  /\ \E plan \in CatchUpPlans(Stream, log, seeded) :
       Becomes(CatchUp(Stream, log, seeded, plan))
  /\ polling' = (clients' # {})
  /\ UNCHANGED <<ringVars, connVars, recent, waking>>

(* Slip: busy is re-asserted in place of idle.                              *)
HeartbeatBusy(c) ==
  /\ Settled /\ phase[c] = "open"
  /\ shown' = [shown EXCEPT ![c] = IF state = "busy" THEN "busy" ELSE @]
  /\ UNCHANGED <<ringVars, state, lastNoted, clients, lastSent, connVars, sent,
                 recent, waking, polling>>

(* The heartbeat of an open response: idle is re-asserted, busy never is.   *)
Heartbeat(c) ==
  /\ Settled /\ phase[c] = "open"
  /\ shown' = [shown EXCEPT ![c] = IF state = "idle" THEN "idle" ELSE @]
  /\ UNCHANGED <<ringVars, state, lastNoted, clients, lastSent, connVars, sent,
                 recent, waking, polling>>

(* close(): the request closed, the socket failed or a heartbeat could not  *)
(* be written.                                                              *)
Close(c) ==
  /\ Settled /\ phase[c] \in {"waiting", "open"}
  /\ Forget(c, [Stream EXCEPT !.clients = @ \ {c}])
  /\ UNCHANGED <<ringVars, recent, waking, polling>>

Push == \E kind \in Kinds : Feed(kind) \/ Seed(kind) \/ OfficialPush(kind)

Connect(c) ==
  \/ \E id \in 1 .. RingTail(log) : ConnectResume(c, id)
  \/ ConnectFull(c)
  \/ ConnectMulti(c)
  \/ ConnectSole(c)
  \/ ConnectWait(c)

Next ==
  \/ Push
  \/ \E c \in Conns : \/ Connect(c)
                      \/ GraceExpires(c)
                      \/ Wake(c)
                      \/ Heartbeat(c)
                      \/ Close(c)
  \/ NoteHistory
  \/ HistoryAges
  \/ Poll

Spec == Init /\ [][Next]_vars

(* setInterval keeps firing: the poll while it runs, and the heartbeat of   *)
(* every open response.                                                     *)
FairSpec == Spec /\ WF_vars(Poll) /\ \A c \in Conns : WF_vars(Heartbeat(c))

-----------------------------------------------------------------------------
Ids == 1 .. MaxFrames
Sent(c) == UNION {sent[c][k] : k \in DOMAIN sent[c]}

TypeOK ==
  /\ log \in Seq(Kinds)
  /\ seeded \subseteq Nat
  /\ state \in {"idle", "busy"}
  /\ lastNoted \in Nat
  /\ clients \subseteq Conns
  /\ lastSent \in [Conns -> Nat]
  /\ phase \in [Conns -> {"unused", "waiting", "open"}]
  /\ mode \in [Conns -> {"none", "resume", "full", "multi", "history", "window"}]
  /\ tailAt \in [Conns -> Nat]
  /\ sent \in [Conns -> Seq(SUBSET Nat)]
  /\ shown \in [Conns -> {"none", "idle", "busy"}]
  /\ recent \in BOOLEAN
  /\ waking \subseteq Conns
  /\ polling \in BOOLEAN

(* No connection is written a frame twice or out of ring order, whichever   *)
(* of replay, feed and poll wrote it ("nothing is sent twice", hub.mjs:60). *)
InOrderOnce ==
  \A c \in Conns : \A j, k \in DOMAIN sent[c] :
    j < k => \A a \in sent[c][j], b \in sent[c][k] : a < b

(* A live client has every frame that landed after it connected and up to   *)
(* its position: a frame another writer pushed is never jumped over by one  *)
(* the hub fed (broadcast's comment, hub.mjs:214-217), and the poll that    *)
(* delivers the frames of other writers runs while anyone listens.          *)
NoFrameSkipped ==
  /\ clients # {} => polling
  /\ \A c \in clients : \A i \in Ring(log) :
       (i > tailAt[c] /\ i <= lastSent[c] /\ i \notin seeded) => i \in Sent(c)

(* A resumed client is owed everything after the id it resumed from, and a  *)
(* seeded frame reaches nobody as a live one.                               *)
SeededNeverLive ==
  \A c \in Conns : \A i \in Sent(c) : i \in seeded => i <= tailAt[c]

(* A sole stream-only connect gets the whole latest turn: through the       *)
(* replay or, for what landed while it waited, through catch-up.  After a   *)
(* history reload it gets at least what follows the last finished text of a *)
(* turn still running in the ring.                                          *)
Joins(c) == phase[c] # "open" /\ phase'[c] = "open" /\ clients' # {}
Owed(c) ==
  LET W == Window(log, RingTail(log))
  IN  IF mode'[c] = "window" THEN W
      ELSE IF mode'[c] = "history" /\ LastStatus(log, W, "idle") # "idle"
           THEN {i \in W : i > HistoryCovered(log, W)}
      ELSE {}
JoinsOwed ==
  \A c \in Conns : (Joins(c) /\ c \in clients') =>
    \A i \in Owed(c) : i \in Sent(c)' \/ (i \in seeded /\ i > tailAt'[c])
TurnReplayed == [][JoinsOwed]_vars

(* The stream's state is the newest status among the frames it has folded   *)
(* in, so a heartbeat never tells the phone idle in the middle of a turn.   *)
StateTracksRing ==
  state = LastStatus(log, 1 .. lastNoted, "idle")

(* A phone is stuck on "thinking" while the session is idle: it is told     *)
(* within a heartbeat of the turn's end (MCEnds).                          *)
Stuck(c) == phase[c] = "open" /\ state = "idle" /\ shown[c] # "idle"

(* A frame has not reached a live client and is not history to it; it does  *)
(* reach it, unless it left the ring (MCEnds).                             *)
Unreached(c, i) == c \in clients /\ i \in DOMAIN log /\ i > lastSent[c]

=============================================================================
