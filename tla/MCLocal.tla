-------------------------------- MODULE MCLocal --------------------------------
(* Sessions that run on the machine and the way requests take to them, in one *)
(* run of twelve instances of seven modules: the transcripts Claude Code and pi *)
(* write, the child the pi provider keeps, messages typed into panes, the     *)
(* session lists, the info cache, and the choice of a request's provider.     *)
(* `part` says which instance runs; the choice of a provider is the module    *)
(* this one extends.                                                          *)
EXTENDS Routing, Sequences

VARIABLES part, lines, half, written, rewrites, driver, ring, baseline,
                watch, stream, opens, cut, piLines, piHalf, piWritten,
                piRewrites, terminal, child, piRing, fresh, typed, recent,
                prompts, piStream, piWatch, started, offset, seen, base,
                tick, piTerminal, live, proc, busy, agent, asks, piOut,
                pending, piCall, shown, dialogs, program, term, input,
                unread, last, delivery, read, paneMoves, clock, at, rc,
                marks, used, listing, value, stale, reading, reads, inflight,
                req

claudeVars == <<lines, half, written, rewrites, driver, ring, baseline,
                watch, stream, opens, cut>>
piVars == <<piLines, piHalf, piWritten, piRewrites, terminal, child, piRing,
            fresh, typed, recent, prompts, piStream, piWatch, started,
            offset, seen, base, tick>>
childVars == <<piTerminal, live, proc, busy, agent, asks, piOut, pending,
               piCall, shown, dialogs>>
panesVars == <<program, term, input, unread, last, delivery, read, paneMoves>>
listsVars == <<clock, at, rc, marks, used, listing>>
infoVars == <<value, stale, reading, reads, inflight, req>>
sumVars == <<part, claudeVars, piVars, childVars, panesVars, listsVars,
                infoVars, rtVars>>

NoClaude == /\ lines = 0 /\ half = 0 /\ written = 0 /\ rewrites = 0
            /\ driver = 0 /\ ring = 0 /\ baseline = 0 /\ watch = 0
            /\ stream = 0 /\ opens = 0 /\ cut = 0
NoPi == /\ piLines = 0 /\ piHalf = 0 /\ piWritten = 0 /\ piRewrites = 0
        /\ terminal = 0 /\ child = 0 /\ piRing = 0 /\ fresh = 0
        /\ typed = 0 /\ recent = 0 /\ prompts = 0 /\ piStream = 0
        /\ piWatch = 0 /\ started = 0 /\ offset = 0 /\ seen = 0
        /\ base = 0 /\ tick = 0
NoChild == /\ piTerminal = 0 /\ live = 0 /\ proc = 0 /\ busy = 0
           /\ agent = 0 /\ asks = 0 /\ piOut = 0 /\ pending = 0
           /\ piCall = 0 /\ shown = 0 /\ dialogs = 0
NoPanes == /\ program = 0 /\ term = 0 /\ input = 0 /\ unread = 0
           /\ last = 0 /\ delivery = 0 /\ read = 0 /\ paneMoves = 0
NoLists == /\ clock = 0 /\ at = 0 /\ rc = 0 /\ marks = 0 /\ used = 0
           /\ listing = 0
NoInfo == /\ value = 0 /\ stale = 0 /\ reading = 0 /\ reads = 0
          /\ inflight = 0 /\ req = 0
NoRouting == /\ home = "official" /\ there = TRUE /\ reachable = TRUE
             /\ claim = None /\ known = FALSE /\ pump = FALSE
             /\ call = [r \in Requests |-> New] /\ moves = 0

(* One phone that opens its stream once; two that open three.                *)
ClaudeOne == INSTANCE CcTranscripts WITH
  MaxLines <- 4, MaxRewrites <- 1, Clients <- {"a"}, MaxOpens <- 1,
  Happens <- {"prompt", "vanish"}
ClaudeTwo == INSTANCE CcTranscripts WITH
  MaxLines <- 4, MaxRewrites <- 1, Clients <- {"a", "b"}, MaxOpens <- 3,
  Happens <- {"prompt", "vanish", "early"}

(* One watch whose ticks overlap, with a child; two watches of one tick.     *)
PiTicks == INSTANCE PiTranscripts WITH
  MaxLines <- 3, MaxRewrites <- 1, Clients <- {"a"}, Ticks <- {"t1", "t2"},
  MaxWatches <- 1, MaxPrompts <- 1, Happens <- {"child", "exit"},
  lines <- piLines, half <- piHalf, written <- piWritten, rewrites <-
  piRewrites, ring <- piRing, stream <- piStream, watch <- piWatch
PiWatches == INSTANCE PiTranscripts WITH
  MaxLines <- 3, MaxRewrites <- 0, Clients <- {"a"}, Ticks <- {"t1"},
  MaxWatches <- 2, MaxPrompts <- 1, Happens <- {"child", "exit", "vanish", "expire"},
  lines <- piLines, half <- piHalf, written <- piWritten, rewrites <-
  piRewrites, ring <- piRing, stream <- piStream, watch <- piWatch

Child == INSTANCE PiSessions WITH
  Calls <- {"c1", "c2"}, MaxSpawns <- 2, MaxDialogs <- 2, MaxLag <- 2, Happens <- {"refuse"},
  terminal <- piTerminal, lines <- piOut, call <- piCall

(* Three conversations of one folder and two messages, from either sender;   *)
(* two, whose messages overlap, or of which one runs outside of tmux.        *)
Panes == INSTANCE PaneDelivery WITH
  Sids <- {"s1", "s2", "s3"}, Messages <- {"m1", "m2"}, Routes <- {"overseer", "phone"},
  MaxMoves <- 1, Happens <- {},
  lines <- read, call <- delivery, moves <- paneMoves

PanesOverlap == INSTANCE PaneDelivery WITH
  Sids <- {"s1", "s2"}, Messages <- {"m1", "m2"}, Routes <- {"overseer", "phone"},
  MaxMoves <- 1, Happens <- {"overlap", "late"},
  lines <- read, call <- delivery, moves <- paneMoves
PanesOutside == INSTANCE PaneDelivery WITH
  Sids <- {"s1", "s2"}, Messages <- {"m1", "m2"}, Routes <- {"phone"},
  MaxMoves <- 1, Happens <- {"outside", "stale", "late"},
  lines <- read, call <- delivery, moves <- paneMoves

(* Two folders; a list shorter than what there is; ids that change under it. *)
Lists == INSTANCE SessionLists WITH
  Claude <- {"c1", "c2"}, Agents <- {"d1"}, Overseer <- "ov",
  CwdOf <- [c1 |-> "/a", c2 |-> "/b", d1 |-> "/a", ov |-> "/a"],
  Filters <- {"none", "/a"}, Limit <- 3, Headroom <- 1, MaxClock <- 5, MaxRc <- 2,
  Happens <- {},
  req <- listing

ListsReconnect == INSTANCE SessionLists WITH
  Claude <- {"c1", "c2"}, Agents <- {"d1"}, Overseer <- "ov",
  CwdOf <- [c1 |-> "/a", c2 |-> "/b", d1 |-> "/a", ov |-> "/a"],
  Filters <- {"none", "/a"}, Limit <- 3, Headroom <- 1, MaxClock <- 5, MaxRc <- 2,
  Happens <- {"reconnect"},
  req <- listing

Info == INSTANCE InfoCache WITH Requests <- {"r1", "r2"}, MaxRead <- 3

-----------------------------------------------------------------------------
SumInit ==
  /\ part \in {"claude one", "claude two", "pi ticks", "pi watches", "child",
               "panes", "panes overlap", "panes outside", "lists", "lists reconnect",
               "info", "routing"}
  /\ CASE part = "claude one" -> ClaudeOne!Init [] part = "claude two" -> ClaudeTwo!Init
       [] OTHER -> NoClaude
  /\ CASE part = "pi ticks" -> PiTicks!Init [] part = "pi watches" -> PiWatches!Init
       [] OTHER -> NoPi
  /\ IF part = "child" THEN Child!Init ELSE NoChild
  /\ CASE part = "panes" -> Panes!Init [] part = "panes overlap" -> PanesOverlap!Init
       [] part = "panes outside" -> PanesOutside!Init [] OTHER -> NoPanes
  /\ CASE part = "lists" -> Lists!Init [] part = "lists reconnect" -> ListsReconnect!Init
       [] OTHER -> NoLists
  /\ IF part = "info" THEN Info!Init ELSE NoInfo
  /\ IF part = "routing" THEN Init ELSE NoRouting

(* The variables of the modules that do not run.                             *)
Others ==
  /\ UNCHANGED part
  /\ IF part \in {"claude one", "claude two"} THEN TRUE ELSE UNCHANGED claudeVars
  /\ IF part \in {"pi ticks", "pi watches"} THEN TRUE ELSE UNCHANGED piVars
  /\ IF part = "child" THEN TRUE ELSE UNCHANGED childVars
  /\ IF part \in {"panes", "panes overlap", "panes outside"} THEN TRUE ELSE UNCHANGED panesVars
  /\ IF part \in {"lists", "lists reconnect"} THEN TRUE ELSE UNCHANGED listsVars
  /\ IF part = "info" THEN TRUE ELSE UNCHANGED infoVars
  /\ IF part = "routing" THEN TRUE ELSE UNCHANGED rtVars

SumNext ==
  \/ part = "claude one" /\ ClaudeOne!Next /\ Others
  \/ part = "claude two" /\ ClaudeTwo!Next /\ Others
  \/ part = "pi ticks" /\ PiTicks!Next /\ Others
  \/ part = "pi watches" /\ PiWatches!Next /\ Others
  \/ part = "child" /\ Child!Next /\ Others
  \/ part = "panes" /\ Panes!Next /\ Others
  \/ part = "panes overlap" /\ PanesOverlap!Next /\ Others
  \/ part = "panes outside" /\ PanesOutside!Next /\ Others
  \/ part = "lists" /\ Lists!Next /\ Others
  \/ part = "lists reconnect" /\ ListsReconnect!Next /\ Others
  \/ part = "info" /\ Info!Next /\ Others
  \/ part = "routing" /\ Next /\ Others

SumSpec == SumInit /\ [][SumNext]_sumVars

-----------------------------------------------------------------------------
SumTypeOK ==
  /\ TypeOK
  /\ part = "claude one" => ClaudeOne!TypeOK
  /\ part = "claude two" => ClaudeTwo!TypeOK
  /\ part = "pi ticks" => PiTicks!TypeOK
  /\ part = "pi watches" => PiWatches!TypeOK
  /\ part = "child" => Child!TypeOK
  /\ part = "panes" => Panes!TypeOK
  /\ part = "panes overlap" => PanesOverlap!TypeOK
  /\ part = "panes outside" => PanesOutside!TypeOK
  /\ part = "lists" => Lists!TypeOK
  /\ part = "lists reconnect" => ListsReconnect!TypeOK
  /\ part = "info" => Info!TypeOK

(* Every line a terminal writes reaches the phone, and with one stream of    *)
(* the phone once: whoever seeds the ring, however ticks overlap, and while  *)
(* files are replaced (CcTranscripts, PiTranscripts).                        *)
TranscriptsRelayed ==
  /\ part = "claude one" => ClaudeOne!OnceInRing
  /\ part = "claude two" => ClaudeTwo!NothingMissed
  /\ part = "pi ticks" => PiTicks!OnceInRing
  /\ part = "pi watches" => PiWatches!NothingMissed

(* One pi child lives, and what it asks can be answered (PiSessions).        *)
OneChild == part = "child" => Child!OneChild /\ Child!DialogsPending

(* A message typed into a pane is read by its own conversation, also when    *)
(* several are under way, and no two of the phone's as one, also next to     *)
(* terminals the bridge cannot type into (PaneDelivery).                     *)
ReadAlone ==
  /\ part = "panes" => Panes!ReadAlone /\ Panes!PromptsApart
  /\ part = "panes overlap" => PanesOverlap!NeverCrosses
  /\ part = "panes outside" => PanesOutside!PromptsApart

(* A list shows a conversation once, and none is left out, not even one      *)
(* whose id changes while the lists are read (SessionLists).                 *)
NoConversationTwice ==
  /\ part = "lists" => Lists!NoConversationTwice /\ Lists!NoneMissing
  /\ part = "lists reconnect" => ListsReconnect!NoneMissing

(* One call fills the cache at a time, a failed one keeps the value there    *)
(* is, and nobody waits while there is one (InfoCache).                      *)
InfoServed ==
  /\ [](part = "info" => Info!OneRefresh)
  /\ [][part = "info" => Info!ValueStep /\ Info!NoWait]_sumVars
================================================================================
