-------------------------------- MODULE MCEnds --------------------------------
(* What must end or arrive, in one run of thirteen small instances: frames on *)
(* their way to the phone (the hub with the official pipeline as a second     *)
(* writer, what a phone that connects gets of the latest turn, the relay pump *)
(* with streams that end and phones that leave), calls of the durable         *)
(* provider, subagents, the assistant's prompts, dialogs nobody watches,      *)
(* answers to the overseer and to its messages, a switched model, requests    *)
(* for the info, turns of a pi child, and watches of its transcript.  `part`  *)
(* says which runs; the others stay as they are.                              *)
EXTENDS Naturals, Sequences

CONSTANTS c1, RingSize, MaxFrames

VARIABLES part, log, seeded, state, lastNoted, clients, lastSent, phase, mode,
                tailAt, hubSent, hubShown, hubRecent, waking, polling,
                said, pumpBusy, gen, pumpUp, loaded, high, stage, pumpStream,
                mark, seedFirst, seedUntil, reseed, cold, idleAsked, relay,
                phone, drops,
                row, conv, request, convs, inputs, running, marked, up,
                states, creating, aborts, calls, late, restarts, agentRow,
                run, call, owner, sent, children, edges, stale, scopes,
                agentUp, agentRestarts, old, child, starting, line, over,
                synced, spawning, timer, busy, asking, handing, queue,
                sending, notes, heard, pending, applying, store, read, count,
                session, kind, asked, verdict, unanswered, due, watching,
                meant, posts, submission, pendingAsks, doneAsks, delivered,
                box, seq, askCall, followed, wanted, rec, askUp, askCount,
                notices, askRestarts, answered, moved, driver, replyItems,
                turn, mailbox, msg, watches, outbox, switchStep, model,
                modelRun, runModel, given, askedInputs, value, infoStale,
                reading, reads, inflight, infoReq, piTerminal, live, proc,
                piBusy, agent, piAsks, piOut, piPending, piCall, shown,
                dialogs, lines, half, written, rewrites, terminal, piChild,
                ring, fresh, typed, recent, prompts, stream, piWatch,
                piStarted, offset, piSeen, base, tick

hubVars == <<log, seeded, state, lastNoted, clients, lastSent, phase, mode,
             tailAt, hubSent, hubShown, hubRecent, waking, polling>>
pumpVars == <<said, pumpBusy, gen, pumpUp, loaded, high, stage, pumpStream,
              mark, seedFirst, seedUntil, reseed, cold, idleAsked, relay,
              phone, drops>>
durableVars == <<row, conv, request, convs, inputs, running, marked, up,
                 states, creating, aborts, calls, late, restarts>>
agentsVars == <<agentRow, run, call, owner, sent, children, edges, stale,
                scopes, agentUp, agentRestarts, old>>
assistantVars == <<child, starting, line, over, synced, spawning, timer,
                   busy, asking, handing, queue, sending, notes, heard,
                   pending, applying, store, read, count>>
dialogsVars == <<session, kind, asked, verdict, unanswered, due, watching,
                 meant, posts>>
asksVars == <<submission, pendingAsks, doneAsks, delivered, box, seq,
              askCall, followed, wanted, rec, askUp, askCount, notices,
              askRestarts, answered, moved>>
repliesVars == <<driver, replyItems, turn, mailbox, msg, watches, outbox>>
switchVars == <<switchStep, model, modelRun, runModel, given, askedInputs>>
infoVars == <<value, infoStale, reading, reads, inflight, infoReq>>
childVars == <<piTerminal, live, proc, piBusy, agent, piAsks, piOut,
               piPending, piCall, shown, dialogs>>
piVars == <<lines, half, written, rewrites, terminal, piChild, ring, fresh,
            typed, recent, prompts, stream, piWatch, piStarted, offset,
            piSeen, base, tick>>
vars == <<part, hubVars, pumpVars, durableVars, agentsVars, assistantVars, dialogsVars,
                asksVars, repliesVars, switchVars, infoVars, childVars,
                piVars>>

NoDurable == /\ row = 0 /\ conv = 0 /\ request = 0 /\ convs = 0
             /\ inputs = 0 /\ running = 0 /\ marked = 0 /\ up = 0
             /\ states = 0 /\ creating = 0 /\ aborts = 0 /\ calls = 0
             /\ late = 0 /\ restarts = 0
NoAgents == /\ agentRow = 0 /\ run = 0 /\ call = 0 /\ owner = 0
            /\ sent = 0 /\ children = 0 /\ edges = 0 /\ stale = 0
            /\ scopes = 0 /\ agentUp = 0 /\ agentRestarts = 0 /\ old = 0
NoAssistant == /\ child = 0 /\ starting = 0 /\ line = 0 /\ over = 0
               /\ synced = 0 /\ spawning = 0 /\ timer = 0 /\ busy = 0
               /\ asking = 0 /\ handing = 0 /\ queue = 0 /\ sending = 0
               /\ notes = 0 /\ heard = 0 /\ pending = 0 /\ applying = 0
               /\ store = 0 /\ read = 0 /\ count = 0
NoDialogs == /\ session = 0 /\ kind = 0 /\ asked = 0 /\ verdict = 0
             /\ unanswered = 0 /\ due = 0 /\ watching = 0 /\ meant = 0
             /\ posts = 0
NoAsks == /\ submission = 0 /\ pendingAsks = 0 /\ doneAsks = 0
          /\ delivered = 0 /\ box = 0 /\ seq = 0 /\ askCall = 0
          /\ followed = 0 /\ wanted = 0 /\ rec = 0 /\ askUp = 0
          /\ askCount = 0 /\ notices = 0 /\ askRestarts = 0
          /\ answered = 0 /\ moved = 0
NoReplies == /\ driver = 0 /\ replyItems = 0 /\ turn = 0 /\ mailbox = 0
             /\ msg = 0 /\ watches = 0 /\ outbox = 0
NoSwitch == /\ switchStep = 0 /\ model = 0 /\ modelRun = 0
            /\ runModel = 0 /\ given = 0 /\ askedInputs = 0
NoInfo == /\ value = 0 /\ infoStale = 0 /\ reading = 0 /\ reads = 0
          /\ inflight = 0 /\ infoReq = 0
NoChild == /\ piTerminal = 0 /\ live = 0 /\ proc = 0 /\ piBusy = 0
           /\ agent = 0 /\ piAsks = 0 /\ piOut = 0 /\ piPending = 0
           /\ piCall = 0 /\ shown = 0 /\ dialogs = 0
NoPi == /\ lines = 0 /\ half = 0 /\ written = 0 /\ rewrites = 0
        /\ terminal = 0 /\ piChild = 0 /\ ring = 0 /\ fresh = 0
        /\ typed = 0 /\ recent = 0 /\ prompts = 0 /\ stream = 0
        /\ piWatch = 0 /\ piStarted = 0 /\ offset = 0 /\ piSeen = 0
        /\ base = 0 /\ tick = 0

Hub == INSTANCE HubStream WITH
  Conns <- {c1}, RingSize <- 1, TurnReplayCap <- 3, GraceEnabled <- TRUE,
  Kinds <- {"busy", "idle"}, Writers <- {"feed", "official"},
  Failures <- {"buffered", "refused"}, MaxFrames <- 2,
  sent <- hubSent, shown <- hubShown, recent <- hubRecent
Turns == INSTANCE HubStream WITH
  Conns <- {c1}, RingSize <- 3, TurnReplayCap <- 2, GraceEnabled <- TRUE,
  Kinds <- {"user_prompt", "busy", "text_delta", "text_end", "idle"},
  Writers <- {"feed"}, Failures <- {}, MaxFrames <- 3,
  sent <- hubSent, shown <- hubShown, recent <- hubRecent
Pump == INSTANCE UpstreamPump WITH
  MaxRestarts <- 0, MaxDrops <- 2, Happens <- {"leave"},
  busy <- pumpBusy, up <- pumpUp, stream <- pumpStream
Durable == INSTANCE DurableSessions WITH
  Sids <- {"s1"}, Requests <- {"r1"}, Calls <- {"c1", "c2"}, Kinds <-
  {"start", "prompt", "stop"}, LetsCode <- {"s1"}, MaxConvs <- 2,
  MaxInputs <- 1, MaxRestarts <- 1
Agents == INSTANCE Subagents WITH
  Sids <- {11}, MaxCalls <- 1, MaxEdges <- 1, MaxRestarts <- 2, row <-
  agentRow, up <- agentUp, restarts <- agentRestarts
Prompts == INSTANCE Assistant WITH
  MaxNotes <- 0, MaxSets <- 2, MaxResets <- 0, MaxAsks <- 1, MaxExits <-
  1, MaxRestarts <- 0
Dialogs == INSTANCE LcDialogs WITH
  MaxDialogs <- 2, Sessions <- {"lc", "assistant"}, Happens <- {}, pending
  <- unanswered
Asks == INSTANCE OverseerAsks WITH
  Callers <- {"a1", "a2"}, RequestIds <- {"q1", "q2"}, NoRequest <-
  "none", DoneKeep <- 2, OutboxKeep <- 1, TaggedKeep <- 1, MaxAsks <- 1,
  MaxNotices <- 1, MaxRestarts <- 1, pending <- pendingAsks, call <-
  askCall, up <- askUp, restarts <- askRestarts, asks <- askCount, done <-
  doneAsks
Replies == INSTANCE OverseerReplies WITH
  Messages <- {"m1"}, Texts <- {"done"}, Window <- 6, MaxWatches <- 1,
  Misses <- 2, Quiet <- 1, MaxAnswers <- 1, Past <- {0, 1}, Drivers <-
  {"bridge", "terminal"}, Happens <- {"fail", "late"}, items <-
  replyItems, inbox <- mailbox
Switch == INSTANCE ModelSwitch WITH
  Switches <- {"s1", "s2"}, Inputs <- {"q1"}, Default <- "qwen", ModelOf
  <- [s1 |-> "opus", s2 |-> "gpt"], Happens <- {"fail", "restart"}, run <-
  modelRun, asked <- askedInputs, on <- runModel, step <- switchStep
Info == INSTANCE InfoCache WITH
  Requests <- {"r1", "r2"}, MaxRead <- 3, stale <- infoStale, req <-
  infoReq
Child == INSTANCE PiSessions WITH
  Calls <- {"c1", "c2"}, MaxSpawns <- 2, MaxDialogs <- 2, MaxLag <- 2,
  Happens <- {}, terminal <- piTerminal, lines <- piOut, call <- piCall,
  busy <- piBusy, pending <- piPending, asks <- piAsks
Watches == INSTANCE PiTranscripts WITH
  MaxLines <- 2, MaxRewrites <- 0, Clients <- {"a"}, Ticks <- {"t1"},
  MaxWatches <- 1, MaxPrompts <- 1, Happens <- {"child", "exit",
  "vanish"}, child <- piChild, seen <- piSeen, watch <- piWatch, started
  <- piStarted

-----------------------------------------------------------------------------
Init ==
  /\ part \in {"hub", "turns", "pump", "durable", "agents", "assistant", "dialogs", "asks",
               "replies", "switch", "info", "child", "pi"}
  /\ Hub!Init /\ Pump!Init
  /\ IF part = "durable" THEN Durable!Init ELSE NoDurable
  /\ IF part = "agents" THEN Agents!Init ELSE NoAgents
  /\ IF part = "assistant" THEN Prompts!Init ELSE NoAssistant
  /\ IF part = "dialogs" THEN Dialogs!Init ELSE NoDialogs
  /\ IF part = "asks" THEN Asks!Init ELSE NoAsks
  /\ IF part = "replies" THEN Replies!Init ELSE NoReplies
  /\ IF part = "switch" THEN Switch!Init ELSE NoSwitch
  /\ IF part = "info" THEN Info!Init ELSE NoInfo
  /\ IF part = "child" THEN Child!Init ELSE NoChild
  /\ IF part = "pi" THEN Watches!Init ELSE NoPi

(* The variables of the modules that do not run.                             *)
Others ==
  /\ UNCHANGED part
  /\ IF part \in {"hub", "turns"} THEN TRUE ELSE UNCHANGED hubVars
  /\ IF part = "pump" THEN TRUE ELSE UNCHANGED pumpVars
  /\ IF part = "durable" THEN TRUE ELSE UNCHANGED durableVars
  /\ IF part = "agents" THEN TRUE ELSE UNCHANGED agentsVars
  /\ IF part = "assistant" THEN TRUE ELSE UNCHANGED assistantVars
  /\ IF part = "dialogs" THEN TRUE ELSE UNCHANGED dialogsVars
  /\ IF part = "asks" THEN TRUE ELSE UNCHANGED asksVars
  /\ IF part = "replies" THEN TRUE ELSE UNCHANGED repliesVars
  /\ IF part = "switch" THEN TRUE ELSE UNCHANGED switchVars
  /\ IF part = "info" THEN TRUE ELSE UNCHANGED infoVars
  /\ IF part = "child" THEN TRUE ELSE UNCHANGED childVars
  /\ IF part = "pi" THEN TRUE ELSE UNCHANGED piVars

Next ==
  \/ part = "hub" /\ Hub!Next /\ Others
  \/ part = "turns" /\ Turns!Next /\ Others
  \/ part = "pump" /\ Pump!Next /\ Others
  \/ part = "durable" /\ Durable!Next /\ Others
  \/ part = "agents" /\ Agents!Next /\ Others
  \/ part = "assistant" /\ Prompts!Next /\ Others
  \/ part = "dialogs" /\ Dialogs!Next /\ Others
  \/ part = "asks" /\ Asks!Next /\ Others
  \/ part = "replies" /\ Replies!Next /\ Others
  \/ part = "switch" /\ Switch!Next /\ Others
  \/ part = "info" /\ Info!Next /\ Others
  \/ part = "child" /\ Child!Next /\ Others
  \/ part = "pi" /\ Watches!Next /\ Others

(* The fairness of the modules' FairSpecs.  One part runs, so that a         *)
(* condition on one action of each is a condition on each of them; where a   *)
(* part names several actions, fairness of any of them is enough.            *)
AgentsGoOn ==
  \/ Agents!Start \/ \E k \in Agents!Convs : Agents!AbortLands(k)
  \/ Agents!Create(1) \/ Agents!Tell(1) \/ Agents!Submit(1) \/ Agents!Answered(1)
  \/ Agents!TimeOut(1)
DialogsGoOn ==
  Dialogs!Handle \/ Dialogs!Take \/ Dialogs!Sweep \/ \E d \in 1..2 : Dialogs!Ages(d)
SwitchGoesOn ==
  \/ Switch!Answer
  \/ \E s \in {"s1", "s2"} :
       Switch!SetModel(s) \/ Switch!Ask(s) \/ Switch!Settles(s) \/ Switch!Revert(s)
ChildGoesOn ==
  \/ \E s \in Child!Children :
       Child!TurnEnds(s) \/ Child!Handle(s) \/ (proc[s] = "stopping" /\ Child!Exit(s))
  \/ \E k \in Child!Kinds : Child!Respond(k)

First ==
  \/ part = "hub" /\ Hub!Poll
  \/ part = "pump" /\ Pump!UpLoad
  \/ part = "durable" /\ (Durable!Prompting("c1") \/ Durable!StopEnds("c1"))
  \/ part = "agents" /\ AgentsGoOn
  \/ part = "assistant" /\ (Prompts!ChildStep \/ Prompts!AskStep)
  \/ part = "dialogs" /\ DialogsGoOn
  \/ part = "asks" /\ Asks!CallStep("a1")
  \/ part = "replies" /\ Replies!Watch("m1")
  \/ part = "switch" /\ SwitchGoesOn
  \/ part = "info" /\ \E r \in {"r1", "r2"} : Info!Get(r) \/ Info!Waited(r)
  \/ part = "child" /\ \E c \in {"c1", "c2"} : Child!Going(c)
  \/ part = "pi" /\ (Watches!TickStarts("t1") \/ Watches!TickGoesOn("t1"))
Second ==
  \/ part = "hub" /\ Hub!Heartbeat(c1)
  \/ part = "pump" /\ Pump!Listen
  \/ part = "durable" /\ (Durable!Prompting("c2") \/ Durable!StopEnds("c2"))
  \/ part = "asks" /\ Asks!CallStep("a2")
  \/ part = "replies" /\ 1 \in DOMAIN watches /\ (Replies!ReadState(1) \/ Replies!ReadHistory(1))
  \/ part = "child" /\ ChildGoesOn
  \/ part = "pi" /\ Watches!HubDrops("a")
Third ==
  \/ part = "pump" /\ Pump!Loop
  \/ part = "durable" /\ Durable!CreatingEnds("s1")
  \/ part = "asks" /\ Asks!FollowFires("q1")
  \/ part = "replies" /\ Replies!Resumes
Fourth ==
  \/ part = "pump" /\ Pump!Deliver
  \/ part = "durable" /\ Durable!Aborted(1)
  \/ part = "asks" /\ Asks!FollowFires("q2")
Fifth ==
  \/ part = "durable" /\ Durable!Aborted(2)
  \/ part = "asks" /\ Asks!Reconcile
Sixth ==
  \/ part = "durable" /\ (Durable!Inspect \/ Durable!Ready)
  \/ part = "asks" /\ Asks!Ready

Spec ==
  /\ Init /\ [][Next]_vars
  /\ WF_vars(First /\ Others) /\ WF_vars(Second /\ Others) /\ WF_vars(Third /\ Others)
  /\ WF_vars(Fourth /\ Others) /\ WF_vars(Fifth /\ Others) /\ WF_vars(Sixth /\ Others)
  /\ SF_vars(part = "replies" /\ Replies!Takes("m1") /\ Others)
  /\ SF_vars(part = "replies" /\ Replies!Answers /\ Others)
  /\ SF_vars(part = "replies" /\ Replies!EndsTurn /\ Others)

-----------------------------------------------------------------------------
(* A phone that connects alone gets the latest turn, and the state it is     *)
(* told is the ring's (HubStream).                                           *)
TurnReplayed ==
  /\ [](part = "turns" => Turns!StateTracksRing)
  /\ [][part = "turns" => Turns!JoinsOwed]_vars

(* A phone stuck on "thinking" is told idle within a heartbeat of the turn's *)
(* end, every frame in the ring reaches a live client (HubStream), and every *)
(* frame of a relayed session the ring of a listening phone (UpstreamPump).  *)
PhoneCatchesUp ==
  /\ []<>~(part = "hub" /\ Hub!Stuck(c1))
  /\ \A i \in Hub!Ids : []<>~(part = "hub" /\ Hub!Unreached(c1, i))
  /\ Pump!FramesReachRing

(* Calls of the durable provider and subagents' calls end, the bridge opens  *)
(* its sessions, the assistant's prompts are answered, an ask nobody watches *)
(* is swept, a pi child's turn ends on the phone, and a watch nobody needs   *)
(* stops.                                                                    *)
WorkWaits(k) ==
  \/ part = "durable" /\ CASE k = 1 -> Durable!Waits("c1")
                           [] k = 2 -> Durable!Waits("c2")
                           [] k = 3 -> Durable!Opening
  \/ part = "agents" /\ k = 1 /\ Agents!Waits(1)
  \/ part = "assistant" /\ k = 1 /\ Prompts!Waits
  \/ part = "dialogs" /\ k = 1 /\ Dialogs!Waits
  \/ part = "child" /\ k = 1 /\ Child!Waits
  \/ part = "pi" /\ k = 1 /\ Watches!Waits
WorkEnds == \A k \in 1..3 : []<>~WorkWaits(k)

(* A settled question leaves pending, a watched message is reported, the     *)
(* overseer's model is put back, and requests for the info are answered.     *)
AnswerWaits(k) ==
  \/ part = "asks" /\ Asks!Waits(<<"q1", "q2">>[k])
  \/ part = "replies" /\ k = 1 /\ Replies!Waits("m1")
  \/ part = "switch" /\ k = 1 /\ Switch!Waits
  \/ part = "info" /\ Info!Waits(<<"r1", "r2">>[k])
AnswersArrive == \A k \in 1..2 : []<>~AnswerWaits(k)
================================================================================
