----------------------------- MODULE PiTranscripts -----------------------------
(***************************************************************************)
(* A pi session on its way to the ring (pi/watcher.mjs, and the parts of    *)
(* pi/provider.mjs that seed, watch and deliver): its transcript is seeded  *)
(* once and then tailed by a timer whose ticks can overlap, while a         *)
(* terminal or the bridge's own child writes it and prompts are typed into  *)
(* the terminal.  Every await of a tick is a step.                          *)
(***************************************************************************)
EXTENDS Transcript

CONSTANTS Clients,      (* phones                                           *)
          Ticks,        (* ticks that can overlap                           *)
          MaxWatches,   (* bound on watches started                         *)
          MaxPrompts,   (* bound on prompts                                 *)
          Happens       (* what may happen besides: "child", "exit",        *)
                        (* "takeover", "vanish", "expire", and "race": the   *)
                        (* writer changes before a tick has read the last    *)
                        (* one's lines                                       *)

VARIABLES
  terminal,   (* a terminal pi drives the session                           *)
  child,      (* the bridge's child lives                                   *)
  ring,       (* the frames of the session                                  *)
  fresh,      (* a frame was emitted in the last five seconds               *)
  typed,      (* prompts typed into the terminal that it has not written    *)
  recent,     (* recentDelivered: the last prompt delivered (a set of one)  *)
  prompts,
  stream,     (* each phone's GET /events                                   *)
  watch,      (* the watch there is, 0 for none                             *)
  started,    (* watches started                                            *)
  offset, seen,   (* of each watch                                          *)
  base,       (* the lines begun when the last watch was started            *)
  tick        (* the ticks under way: their watch, size and start of the read *)

bridge == <<terminal, child, ring, fresh, typed, recent, prompts>>
watching == <<watch, started, offset, seen, base, tick>>
vars == <<file, bridge, stream, watching>>

Watches == 1 .. MaxWatches
Rest == [at |-> "idle", watch |-> 0, size |-> 0, from |-> 0]

(* What a line is in the ring: a prompt is its text.                        *)
Frame(l) == IF l.prompt = 0 THEN l ELSE [l EXCEPT !.n = 0]

Active == child \/ \E c \in Clients : stream[c] \in {"open", "dead"}

(* A second has passed: the ticks are up to date.                           *)
UpToDate ==
  \/ "race" \in Happens
  \/ /\ \A t \in Ticks : tick[t] = Rest
     /\ watch # 0 => offset[watch] >= Size

Init ==
  /\ InitFile(1)
  /\ terminal = TRUE /\ child = FALSE /\ ring = << >> /\ fresh = FALSE
  /\ typed = << >> /\ recent = {} /\ prompts = 0
  /\ stream = [c \in Clients |-> "none"]
  /\ watch = 0 /\ started = 0 /\ base = 0
  /\ offset = [w \in Watches |-> 0] /\ seen = [w \in Watches |-> {}]
  /\ tick = [t \in Ticks |-> Rest]

-----------------------------------------------------------------------------
(* The session's writers.                                                   *)

WriteBegins ==
  /\ terminal \/ child
  /\ Begin
  /\ UNCHANGED <<bridge, stream, watching>>

(* The terminal writes the prompts it was given in order, between others.   *)
TerminalWrites ==
  /\ terminal
  /\ \/ End(0) /\ UNCHANGED typed
     \/ typed # << >> /\ End(Head(typed)) /\ typed' = Tail(typed)
  /\ UNCHANGED <<terminal, child, ring, fresh, recent, prompts, stream, watching>>

(* The child's events reach the ring over RPC.                              *)
ChildWrites ==
  /\ child /\ ~terminal
  /\ End(0)
  /\ ring' = Append(ring, Last(lines')) /\ fresh' = TRUE
  /\ UNCHANGED <<terminal, child, typed, recent, prompts, stream, watching>>

Rewritten == Rewrite /\ UNCHANGED <<bridge, stream, watching>>

Quiet ==
  /\ fresh /\ fresh' = FALSE
  /\ UNCHANGED <<file, terminal, child, ring, typed, recent, prompts, stream, watching>>

(* A terminal opens the session, or leaves it.                              *)
TerminalChanges ==
  /\ ~half /\ typed = << >> /\ (child => "takeover" \in Happens)
  /\ terminal' = ~terminal
  /\ UNCHANGED <<file, child, ring, fresh, typed, recent, prompts, stream, watching>>

(* The child's exit ends its registration.                                  *)
ChildExits ==
  /\ "exit" \in Happens /\ child /\ UpToDate
  /\ child' = FALSE
  /\ UNCHANGED <<file, terminal, ring, fresh, typed, recent, prompts, stream, watching>>

-----------------------------------------------------------------------------
(* prompt()                                                                 *)

(* A terminal drives the session: a child is dropped, the prompt is typed   *)
(* into the terminal, or refused where that cannot be, and echoed.          *)
PromptToTerminal ==
  /\ prompts < MaxPrompts /\ terminal
  /\ prompts' = prompts + 1
  /\ child' = FALSE
  /\ typed' \in {typed, Append(typed, prompts')}
  /\ recent' = {prompts'}
  /\ ring' = Append(ring, [n |-> 0, prompt |-> prompts']) /\ fresh' = TRUE
  /\ UNCHANGED <<file, terminal, stream, watching>>

(* Nobody drives it: the bridge's child takes the session up.               *)
PromptToChild ==
  /\ "child" \in Happens /\ prompts < MaxPrompts /\ ~terminal /\ ~half /\ UpToDate
  /\ prompts' = prompts + 1
  /\ child' = TRUE
  /\ lines' = Append(lines, [n |-> written + 1, prompt |-> prompts'])
  /\ written < MaxLines /\ written' = written + 1
  /\ ring' = Append(ring, [n |-> 0, prompt |-> prompts']) /\ fresh' = TRUE
  /\ UNCHANGED <<half, rewrites, terminal, typed, recent, stream, watching>>

(* A minute has passed since the last delivery.                             *)
Expire ==
  /\ "expire" \in Happens /\ recent # {}
  /\ recent' = {}
  /\ UNCHANGED <<file, terminal, child, ring, fresh, typed, prompts, stream, watching>>

-----------------------------------------------------------------------------
(* The routes.                                                              *)

(* seedTranscript: into an empty ring, of a session that is not live.       *)
Seed ==
  IF child \/ ring # << >> THEN UNCHANGED <<ring, fresh>>
  ELSE ring' = [i \in 1 .. Len(lines) |-> Frame(lines[i])] /\ fresh' = TRUE

Poll ==
  /\ ~child /\ ring = << >> /\ Seed
  /\ UNCHANGED <<file, terminal, child, typed, recent, prompts, stream, watching>>

Connect(c) ==
  /\ stream[c] = "none" /\ started < MaxWatches
  /\ stream' = [stream EXCEPT ![c] = "seeded"]
  /\ Seed
  /\ UNCHANGED <<file, terminal, child, typed, recent, prompts, watching>>

(* The phone goes away during the await: the hub counts it until a          *)
(* heartbeat finds it dead, and no listener will call unwatch.              *)
Vanish(c) ==
  /\ "vanish" \in Happens /\ stream[c] = "seeded"
  /\ stream' = [stream EXCEPT ![c] = "vanished"]
  /\ UNCHANGED <<file, bridge, watching>>

(* handleEvents, watch: from the file's end, for what is new.               *)
Open(c) ==
  /\ stream[c] \in {"seeded", "vanished"}
  /\ stream' = [stream EXCEPT ![c] = IF @ = "seeded" THEN "open" ELSE "dead"]
  /\ IF watch # 0 \/ started = MaxWatches THEN UNCHANGED <<watch, started, offset, base>>
     ELSE /\ started' = started + 1 /\ watch' = started'
          /\ offset' = [offset EXCEPT ![started'] = Size]
          /\ base' = written + IF half THEN 1 ELSE 0
  /\ UNCHANGED <<file, bridge, seen, tick>>

HubDrops(c) ==
  /\ stream[c] = "dead"
  /\ stream' = [stream EXCEPT ![c] = "none"]
  /\ UNCHANGED <<file, bridge, watching>>

(* unwatch: the timer goes on while somebody listens or the child lives.    *)
Close(c) ==
  /\ stream[c] = "open"
  /\ stream' = [stream EXCEPT ![c] = "none"]
  /\ watch' = IF child \/ \E d \in Clients \ {c} : stream[d] \in {"open", "dead"}
              THEN watch ELSE 0
  /\ UNCHANGED <<file, bridge, started, offset, seen, base, tick>>

-----------------------------------------------------------------------------
(* tick                                                                     *)

(* Slip: a watch is left to those who close their streams.                  *)
TickAlways(t) ==
  /\ tick[t].at = "idle" /\ watch # 0
  /\ tick' = [tick EXCEPT ![t] = [Rest EXCEPT !.at = "health", !.watch = watch]]
  /\ UNCHANGED <<file, bridge, stream, watch, started, offset, seen, base>>

(* The timer of the watch: it ends a watch that nobody needs.               *)
TickStarts(t) ==
  /\ tick[t].at = "idle" /\ watch # 0
  /\ IF Active
     THEN /\ tick' = [tick EXCEPT ![t] = [Rest EXCEPT !.at = "health", !.watch = watch]]
          /\ UNCHANGED watch
     ELSE watch' = 0 /\ UNCHANGED tick
  /\ UNCHANGED <<file, bridge, stream, started, offset, seen, base>>

(* isSoleWriter: a child that lives, unless the terminal has the session    *)
(* and nothing was emitted lately, by whomever.                             *)
Health(t) ==
  /\ tick[t].at = "health"
  /\ tick' = [tick EXCEPT ![t].at = IF child /\ (fresh \/ ~terminal) THEN "keep" ELSE "stat"]
  /\ UNCHANGED <<file, bridge, stream, watch, started, offset, seen, base>>

(* The child's lines are not read: the offset follows them.                 *)
Keep(t) ==
  /\ tick[t].at = "keep"
  /\ tick' = [tick EXCEPT ![t] = Rest]
  /\ offset' = [offset EXCEPT ![tick[t].watch] = IF Size >= @ THEN Size ELSE @]
  /\ UNCHANGED <<file, bridge, stream, watch, started, seen, base>>

(* A file that shrank is followed from its new end.                         *)
Stat(t) ==
  /\ tick[t].at = "stat"
  /\ LET w == tick[t].watch
     IN  /\ offset' = [offset EXCEPT ![w] = IF Size < @ THEN Size ELSE @]
         /\ tick' = [tick EXCEPT ![t] = IF Size > offset[w]
                                        THEN [@ EXCEPT !.at = "open", !.size = Size] ELSE Rest]
  /\ UNCHANGED <<file, bridge, stream, watch, started, seen, base>>

(* The file is open; the offset may have moved.                             *)
OpenFile(t) ==
  /\ tick[t].at = "open"
  /\ LET w == tick[t].watch
     IN  tick' = [tick EXCEPT ![t] = IF @.size > offset[w]
                                     THEN [@ EXCEPT !.at = "read", !.from = offset[w]] ELSE Rest]
  /\ UNCHANGED <<file, bridge, stream, watch, started, offset, seen, base>>

(* The terminal's copy of a prompt that the bridge delivered is skipped,    *)
(* once.                                                                    *)
Echoed(l) == l.prompt # 0 /\ l.prompt \in recent

(* Slip: every line read is emitted.                                        *)
EmitAll(w, new) ==
  /\ ring' = ring \o [i \in DOMAIN new |-> Frame(new[i])]
  /\ fresh' = (fresh \/ new # << >>)
  /\ recent' = {p \in recent : \A i \in DOMAIN new : new[i].prompt # p}
  /\ seen' = [seen EXCEPT ![w] = @ \union {new[i].n : i \in DOMAIN new}]

Emit(w, read) ==
  LET new == SelectSeq(read, LAMBDA l : l.n \notin seen[w])
      shown == SelectSeq(new, LAMBDA l : ~Echoed(l))
  IN  /\ ring' = ring \o [i \in DOMAIN shown |-> Frame(shown[i])]
      /\ fresh' = (fresh \/ shown # << >>)
      /\ recent' = {p \in recent : \A i \in DOMAIN new : new[i].prompt # p}
      /\ seen' = [seen EXCEPT ![w] = @ \union {new[i].n : i \in DOMAIN new}]

(* Slip: a half written line is consumed with the ones before it.           *)
ReadThrough(t) ==
  /\ tick[t].at = "read"
  /\ tick' = [tick EXCEPT ![t] = Rest]
  /\ LET w == tick[t].watch  from == tick[t].from
     IN  /\ offset' = [offset EXCEPT ![w] = @ + tick[t].size - from]
         /\ Emit(w, Between(from, tick[t].size))
  /\ UNCHANGED <<file, terminal, child, typed, prompts, stream, watch, started, base>>

(* What was read ends with the last whole line: the offset moves by that    *)
(* much, and the lines not seen before are emitted.                         *)
Read(t) ==
  /\ tick[t].at = "read"
  /\ tick' = [tick EXCEPT ![t] = Rest]
  /\ LET w == tick[t].watch
         from == tick[t].from
         to == IF tick[t].size > Size THEN Size ELSE tick[t].size
     IN  /\ offset' = [offset EXCEPT ![w] = @ + LastNewline(from, to) - from]
         /\ Emit(w, Between(from, to))
  /\ UNCHANGED <<file, terminal, child, typed, prompts, stream, watch, started, base>>

-----------------------------------------------------------------------------
TickGoesOn(t) == Health(t) \/ Keep(t) \/ Stat(t) \/ OpenFile(t) \/ Read(t)

Next ==
  \/ WriteBegins \/ TerminalWrites \/ ChildWrites \/ Rewritten \/ Quiet
  \/ TerminalChanges \/ ChildExits \/ PromptToTerminal \/ PromptToChild \/ Expire \/ Poll
  \/ \E c \in Clients : Connect(c) \/ Vanish(c) \/ Open(c) \/ HubDrops(c) \/ Close(c)
  \/ \E t \in Ticks : TickStarts(t) \/ TickGoesOn(t)

Spec == Init /\ [][Next]_vars

(* Timers go on, and the hub drops a phone that left.                       *)
Fair == /\ \A t \in Ticks : WF_vars(TickStarts(t) \/ TickGoesOn(t))
        /\ \A c \in Clients : WF_vars(HubDrops(c))
FairSpec == Spec /\ Fair

-----------------------------------------------------------------------------
TypeOK ==
  /\ terminal \in BOOLEAN /\ child \in BOOLEAN /\ fresh \in BOOLEAN
  /\ watch \in 0 .. started /\ started <= MaxWatches /\ base \in 0 .. MaxLines
  /\ \A w \in Watches : offset[w] \in Nat /\ seen[w] \subseteq 1 .. MaxLines
  /\ \A t \in Ticks : tick[t].at \in {"idle", "health", "keep", "stat", "open", "read"}
  /\ recent \subseteq 1 .. MaxPrompts

(* "entries are deduped by transcript entry id" (watcher.mjs:10) and        *)
(* "delivered prompts must reach the phone once"                            *)
(* (test/pi-sync.test.mjs:583): no line and no prompt is in the ring twice, *)
(* whatever ticks overlap and streams reconnect.                            *)
OnceInRing == IsInjective(ring)

(* Every line begun since the watch was started and passed by its offset is *)
(* in the ring.                                                             *)
NothingMissed ==
  \A i \in 1 .. Len(lines) :
    watch # 0 /\ rewrites = 0 /\ lines[i].n > base /\ 2 * i <= offset[watch]
      => Frame(lines[i]) \in Range(ring)

(* A watch goes on without a phone and without a child: it does not for     *)
(* ever, "watching auto-stops when the session has no SSE clients and no    *)
(* live bridge session" (watcher.mjs:14), also when a phone left before     *)
(* anyone listened to its leaving (MCEnds).                                 *)
Waits == watch # 0 /\ ~child /\ \A c \in Clients : stream[c] \in {"none", "dead"}
===============================================================================
