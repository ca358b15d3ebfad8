------------------------------ MODULE MCSessions ------------------------------
(* Durable sessions and what hangs on them, in one run of twenty-two          *)
(* instances of twelve modules: the sessions' table, subagents, the assistant *)
(* with its context and its memory, lets-code's factory mode and dialogs, the *)
(* folders agents may work in, and the overseer's questions, messages, model  *)
(* and check-ins.  `part` says which instance runs (the sessions' table is    *)
(* the module this one extends); the variables of the others stay as they are. *)
EXTENDS DurableSessions, Sequences

VARIABLES part, agentRow, run, call, owner, sent, children, edges, stale, scopes,
                agentUp, agentRestarts, old, child, starting, line, over,
                synced, spawning, timer, busy, asking, handing, queue,
                sending, notes, heard, pending, applying, store, read, count,
                messages, contextRun, open, cut, jsonl, md, newer, torn, put,
                last, owed, coreNotes, puts, factory, lcChild, mode,
                commands, toggle, made, tree, trust, guarded, trusted, watch,
                guard, again, known, session, kind, asked, verdict,
                unanswered, due, watching, meant, posts, fs, usable, place,
                swaps, submission, pendingAsks, doneAsks, delivered, box,
                seq, askCall, followed, wanted, rec, askUp, askCount,
                notices, askRestarts, answered, moved, driver, replyItems,
                turn, mailbox, msg, watches, outbox, switchStep, model,
                modelRun, runModel, given, askedInputs, now, pendingCheckins,
                ids, day, madeCheckins, hop, from, rootInbox, rootInputs,
                checkinCalls, nightly, perDay, chained

agentsVars == <<agentRow, run, call, owner, sent, children, edges, stale,
                scopes, agentUp, agentRestarts, old>>
assistantVars == <<child, starting, line, over, synced, spawning, timer,
                   busy, asking, handing, queue, sending, notes, heard,
                   pending, applying, store, read, count>>
contextVars == <<messages, contextRun, open, cut>>
memoryVars == <<jsonl, md, newer, torn, put, last, owed, coreNotes, puts>>
factoryVars == <<factory, lcChild, mode, commands, toggle, made, tree, trust,
                 guarded, trusted, watch, guard, again, known>>
dialogsVars == <<session, kind, asked, verdict, unanswered, due, watching,
                 meant, posts>>
foldersVars == <<fs, usable, place, swaps>>
asksVars == <<submission, pendingAsks, doneAsks, delivered, box, seq,
              askCall, followed, wanted, rec, askUp, askCount, notices,
              askRestarts, answered, moved>>
repliesVars == <<driver, replyItems, turn, mailbox, msg, watches, outbox>>
switchVars == <<switchStep, model, modelRun, runModel, given, askedInputs>>
checkinsVars == <<now, pendingCheckins, ids, day, madeCheckins, hop, from,
                  rootInbox, rootInputs, checkinCalls, nightly, perDay,
                  chained>>
sumVars == <<part, vars, agentsVars, assistantVars, contextVars,
                memoryVars, factoryVars, dialogsVars, foldersVars, asksVars,
                repliesVars, switchVars, checkinsVars>>

NoAgents == /\ agentRow = 0 /\ run = 0 /\ call = 0 /\ owner = 0
            /\ sent = 0 /\ children = 0 /\ edges = 0 /\ stale = 0
            /\ scopes = 0 /\ agentUp = 0 /\ agentRestarts = 0 /\ old = 0
NoAssistant == /\ child = 0 /\ starting = 0 /\ line = 0 /\ over = 0
               /\ synced = 0 /\ spawning = 0 /\ timer = 0 /\ busy = 0
               /\ asking = 0 /\ handing = 0 /\ queue = 0 /\ sending = 0
               /\ notes = 0 /\ heard = 0 /\ pending = 0 /\ applying = 0
               /\ store = 0 /\ read = 0 /\ count = 0
NoContext == /\ messages = 0 /\ contextRun = 0 /\ open = 0 /\ cut = 0
NoMemory == /\ jsonl = 0 /\ md = 0 /\ newer = 0 /\ torn = 0 /\ put = 0
            /\ last = 0 /\ owed = 0 /\ coreNotes = 0 /\ puts = 0
NoFactory == /\ factory = 0 /\ lcChild = 0 /\ mode = 0 /\ commands = 0
             /\ toggle = 0 /\ made = 0 /\ tree = 0 /\ trust = 0
             /\ guarded = 0 /\ trusted = 0 /\ watch = 0 /\ guard = 0
             /\ again = 0 /\ known = 0
NoDialogs == /\ session = 0 /\ kind = 0 /\ asked = 0 /\ verdict = 0
             /\ unanswered = 0 /\ due = 0 /\ watching = 0 /\ meant = 0
             /\ posts = 0
NoFolders == /\ fs = 0 /\ usable = 0 /\ place = 0 /\ swaps = 0
NoAsks == /\ submission = 0 /\ pendingAsks = 0 /\ doneAsks = 0
          /\ delivered = 0 /\ box = 0 /\ seq = 0 /\ askCall = 0
          /\ followed = 0 /\ wanted = 0 /\ rec = 0 /\ askUp = 0
          /\ askCount = 0 /\ notices = 0 /\ askRestarts = 0
          /\ answered = 0 /\ moved = 0
NoReplies == /\ driver = 0 /\ replyItems = 0 /\ turn = 0 /\ mailbox = 0
             /\ msg = 0 /\ watches = 0 /\ outbox = 0
NoSwitch == /\ switchStep = 0 /\ model = 0 /\ modelRun = 0
            /\ runModel = 0 /\ given = 0 /\ askedInputs = 0
NoCheckins == /\ now = 0 /\ pendingCheckins = 0 /\ ids = 0 /\ day = 0
              /\ madeCheckins = 0 /\ hop = 0 /\ from = 0 /\ rootInbox = 0
              /\ rootInputs = 0 /\ checkinCalls = 0 /\ nightly = 0
              /\ perDay = 0 /\ chained = 0

(* One call, of the agents of two sessions, room for its edge, and two       *)
(* restarts; two calls of which the second takes the first out of the        *)
(* remembered edges, and one restart.                                        *)
OneCall == INSTANCE Subagents WITH
  Sids <- {11, 12}, MaxCalls <- 1, MaxEdges <- 2, MaxRestarts <- 2,
  row <- agentRow, up <- agentUp, restarts <- agentRestarts
TwoCalls == INSTANCE Subagents WITH
  Sids <- {11}, MaxCalls <- 2, MaxEdges <- 1, MaxRestarts <- 1,
  row <- agentRow, up <- agentUp, restarts <- agentRestarts

(* Notes, pointers, a hand-off, an exit and a restart; prompts and pointers. *)
Notes == INSTANCE Assistant WITH
  MaxNotes <- 2, MaxSets <- 1, MaxResets <- 1, MaxAsks <- 1, MaxExits <- 1, MaxRestarts <- 1
Prompts == INSTANCE Assistant WITH
  MaxNotes <- 0, MaxSets <- 2, MaxResets <- 0, MaxAsks <- 1, MaxExits <- 1, MaxRestarts <- 0

(* Also with runs that are killed, and with notes that come late.            *)
Context == INSTANCE AssistantContext WITH
  MaxMessages <- 7, Happens <- {}, run <- contextRun
KilledContext == INSTANCE AssistantContext WITH
  MaxMessages <- 7, Happens <- {"killed"}, run <- contextRun
LateContext == INSTANCE AssistantContext WITH
  MaxMessages <- 7, Happens <- {"late"}, run <- contextRun

Memory == INSTANCE CoreMemory WITH
  Gists <- {1, 2}, MaxNotes <- 3, MaxPuts <- 2, Happens <- {"crash", "edit", "tear"},
  notes <- coreNotes

(* Two toggles; an acknowledgement that is late; passes of the guard that a  *)
(* forget or a crash meets.                                                  *)
Factory == INSTANCE LcFactory WITH
  Toggles <- {"k1", "k2"}, Worktrees <- {"w1", "w2"}, MaxStarts <- 2, MaxSets <- 3,
  Happens <- {}, child <- lcChild
SlowFactory == INSTANCE LcFactory WITH
  Toggles <- {"k1"}, Worktrees <- {"w1", "w2"}, MaxStarts <- 2, MaxSets <- 3,
  Happens <- {"slow"}, child <- lcChild
TornFactory == INSTANCE LcFactory WITH
  Toggles <- {"k1"}, Worktrees <- {"w1", "w2"}, MaxStarts <- 2, MaxSets <- 3,
  Happens <- {"race", "torn"}, child <- lcChild

Dialogs == INSTANCE LcDialogs WITH
  MaxDialogs <- 2, Sessions <- {"lc", "assistant"}, Happens <- {}, pending <- unanswered
CrossingDialogs == INSTANCE LcDialogs WITH
  MaxDialogs <- 2, Sessions <- {"lc", "assistant"}, Happens <- {"crossing"},
  pending <- unanswered

(* A home with two roots, of which another program may make a link.          *)
Folders == INSTANCE Workspaces WITH
  Calls <- {"c1"}, Hops <- 8, MaxSwaps <- 1, HomeDir <- <<"h">>,
  Configured <- {<<"h", "r">>, <<"h", "l">>}, Kept <- {<<"h", "b">>},
  Fixed <- {<<"h">>, <<"h", "r">>, <<"h", "b">>},
  Open <- {<<"h", "l">>, <<"h", "r", "a">>, <<"h", "r", "a", "x">>,
           <<"h", "b", "x">>, <<"h", "l", "a">>},
  Targets <- {<<"h", "b">>, <<"h", "r">>, <<"h">>},
  Wants <- {<<"h", "r">>, <<"h", "r", "a">>, <<"h", "r", "a", "x">>, <<"h", "l", "a">>}

(* Two questions, or one asked twice, a restart and crowding notices.        *)
Asks == INSTANCE OverseerAsks WITH
  Callers <- {"a1", "a2"}, RequestIds <- {"q1", "q2"}, NoRequest <- "no request",
  DoneKeep <- 2, OutboxKeep <- 1, TaggedKeep <- 1,
  MaxAsks <- 2, MaxNotices <- 2, MaxRestarts <- 1,
  pending <- pendingAsks, call <- askCall, up <- askUp, restarts <-
  askRestarts, asks <- askCount, done <- doneAsks

(* Two messages to an agent; one whose delivery fails or is noted late.      *)
Replies == INSTANCE OverseerReplies WITH
  Messages <- {"m1", "m2"}, Texts <- {"done"}, Window <- 6, MaxWatches <- 1,
  Misses <- 2, Quiet <- 1, MaxAnswers <- 1, Past <- {0, 1},
  Drivers <- {"bridge", "terminal"}, Happens <- {},
  items <- replyItems, inbox <- mailbox
LateReplies == INSTANCE OverseerReplies WITH
  Messages <- {"m1"}, Texts <- {"done"}, Window <- 6, MaxWatches <- 1,
  Misses <- 2, Quiet <- 1, MaxAnswers <- 1, Past <- {0, 1},
  Drivers <- {"bridge", "terminal"}, Happens <- {"fail", "late"},
  items <- replyItems, inbox <- mailbox

(* Two overlapping switches, each to a model of its own, and other inputs.   *)
Switch == INSTANCE ModelSwitch WITH
  Switches <- {"s1", "s2"}, Inputs <- {"q1", "q2"}, Default <- "qwen",
  ModelOf <- [s1 |-> "opus", s2 |-> "gpt"], Happens <- {"fail", "restart"},
  run <- modelRun, asked <- askedInputs, on <- runModel, step <- switchStep

(* Two calls in a day; one, at the end of a day; one, of an input that       *)
(* overlaps the check-in's.                                                  *)
Checkin == INSTANCE Checkins WITH
  Calls <- {"k1", "k2"}, MaxTime <- 4, Ahead <- 2, DayLength <- 2, MaxPending <- 2,
  MaxPerDay <- 2, Happens <- {},
  made <- madeCheckins, pending <- pendingCheckins, inputs <- rootInputs,
  calls <- checkinCalls, inbox <- rootInbox
Midnight == INSTANCE Checkins WITH
  Calls <- {"k1"}, MaxTime <- 4, Ahead <- 2, DayLength <- 2, MaxPending <- 2,
  MaxPerDay <- 2, Happens <- {"midnight"},
  made <- madeCheckins, pending <- pendingCheckins, inputs <- rootInputs,
  calls <- checkinCalls, inbox <- rootInbox
Overlap == INSTANCE Checkins WITH
  Calls <- {"k1"}, MaxTime <- 4, Ahead <- 2, DayLength <- 2, MaxPending <- 2,
  MaxPerDay <- 2, Happens <- {"overlap"},
  made <- madeCheckins, pending <- pendingCheckins, inputs <- rootInputs,
  calls <- checkinCalls, inbox <- rootInbox

-----------------------------------------------------------------------------
SumInit ==
  /\ part \in {"durable", "one call", "two calls", "notes", "prompts",
               "context", "killed context", "late context", "memory",
               "factory", "slow factory", "torn factory",
               "dialogs", "crossing dialogs", "folders", "asks",
               "replies", "late replies", "switch",
               "checkins", "midnight", "overlap"}
  /\ Init
  /\ CASE part = "one call" -> OneCall!Init [] part = "two calls" -> TwoCalls!Init
       [] OTHER -> NoAgents
  /\ CASE part = "notes" -> Notes!Init [] part = "prompts" -> Prompts!Init
       [] OTHER -> NoAssistant
  /\ CASE part = "context" -> Context!Init [] part = "killed context" -> KilledContext!Init
       [] part = "late context" -> LateContext!Init [] OTHER -> NoContext
  /\ IF part = "memory" THEN Memory!Init ELSE NoMemory
  /\ CASE part = "factory" -> Factory!Init [] part = "slow factory" -> SlowFactory!Init
       [] part = "torn factory" -> TornFactory!Init [] OTHER -> NoFactory
  /\ CASE part = "dialogs" -> Dialogs!Init [] part = "crossing dialogs" -> CrossingDialogs!Init
       [] OTHER -> NoDialogs
  /\ IF part = "folders" THEN Folders!Init ELSE NoFolders
  /\ IF part = "asks" THEN Asks!Init ELSE NoAsks
  /\ CASE part = "replies" -> Replies!Init [] part = "late replies" -> LateReplies!Init
       [] OTHER -> NoReplies
  /\ IF part = "switch" THEN Switch!Init ELSE NoSwitch
  /\ CASE part = "checkins" -> Checkin!Init [] part = "midnight" -> Midnight!Init
       [] part = "overlap" -> Overlap!Init [] OTHER -> NoCheckins

(* The variables of the modules that do not run.                             *)
Others ==
  /\ UNCHANGED part
  /\ IF part = "durable" THEN TRUE ELSE UNCHANGED vars
  /\ IF part \in {"one call", "two calls"} THEN TRUE ELSE UNCHANGED agentsVars
  /\ IF part \in {"notes", "prompts"} THEN TRUE ELSE UNCHANGED assistantVars
  /\ IF part \in {"context", "killed context", "late context"} THEN TRUE ELSE UNCHANGED contextVars
  /\ IF part = "memory" THEN TRUE ELSE UNCHANGED memoryVars
  /\ IF part \in {"factory", "slow factory", "torn factory"} THEN TRUE ELSE UNCHANGED factoryVars
  /\ IF part \in {"dialogs", "crossing dialogs"} THEN TRUE ELSE UNCHANGED dialogsVars
  /\ IF part = "folders" THEN TRUE ELSE UNCHANGED foldersVars
  /\ IF part = "asks" THEN TRUE ELSE UNCHANGED asksVars
  /\ IF part \in {"replies", "late replies"} THEN TRUE ELSE UNCHANGED repliesVars
  /\ IF part = "switch" THEN TRUE ELSE UNCHANGED switchVars
  /\ IF part \in {"checkins", "midnight", "overlap"} THEN TRUE ELSE UNCHANGED checkinsVars

SumNext ==
  \/ part = "durable" /\ Next /\ Others
  \/ part = "one call" /\ OneCall!Next /\ Others
  \/ part = "two calls" /\ TwoCalls!Next /\ Others
  \/ part = "notes" /\ Notes!Next /\ Others
  \/ part = "prompts" /\ Prompts!Next /\ Others
  \/ part = "context" /\ Context!Next /\ Others
  \/ part = "killed context" /\ KilledContext!Next /\ Others
  \/ part = "late context" /\ LateContext!Next /\ Others
  \/ part = "memory" /\ Memory!Next /\ Others
  \/ part = "factory" /\ Factory!Next /\ Others
  \/ part = "slow factory" /\ SlowFactory!Next /\ Others
  \/ part = "torn factory" /\ TornFactory!Next /\ Others
  \/ part = "dialogs" /\ Dialogs!Next /\ Others
  \/ part = "crossing dialogs" /\ CrossingDialogs!Next /\ Others
  \/ part = "folders" /\ Folders!Next /\ Others
  \/ part = "asks" /\ Asks!Next /\ Others
  \/ part = "replies" /\ Replies!Next /\ Others
  \/ part = "late replies" /\ LateReplies!Next /\ Others
  \/ part = "switch" /\ Switch!Next /\ Others
  \/ part = "checkins" /\ Checkin!Next /\ Others
  \/ part = "midnight" /\ Midnight!Next /\ Others
  \/ part = "overlap" /\ Overlap!Next /\ Others

SumSpec == SumInit /\ [][SumNext]_sumVars

-----------------------------------------------------------------------------
SumTypeOK ==
  /\ TypeOK
  /\ part = "one call" => OneCall!TypeOK
  /\ part = "two calls" => TwoCalls!TypeOK
  /\ part = "notes" => Notes!TypeOK
  /\ part = "prompts" => Prompts!TypeOK
  /\ part = "context" => Context!TypeOK
  /\ part = "killed context" => KilledContext!TypeOK
  /\ part = "late context" => LateContext!TypeOK
  /\ part = "memory" => Memory!TypeOK
  /\ part = "factory" => Factory!TypeOK
  /\ part = "slow factory" => SlowFactory!TypeOK
  /\ part = "torn factory" => TornFactory!TypeOK
  /\ part = "dialogs" => Dialogs!TypeOK
  /\ part = "crossing dialogs" => CrossingDialogs!TypeOK
  /\ part = "folders" => Folders!TypeOK
  /\ part = "asks" => Asks!TypeOK
  /\ part = "replies" => Replies!TypeOK
  /\ part = "late replies" => LateReplies!TypeOK
  /\ part = "switch" => Switch!TypeOK
  /\ part = "checkins" => Checkin!TypeOK
  /\ part = "midnight" => Midnight!TypeOK
  /\ part = "overlap" => Overlap!TypeOK

(* A subagent stays in its session's workspace and rights, gets its task     *)
(* once, and leaves no bash scope behind; and no agent's run goes on in a    *)
(* session that was archived (Subagents, DurableSessions).                   *)
AgentsConfined ==
  /\ ArchivedRunsEnd
  /\ part = "one call" => /\ OneCall!Confined /\ OneCall!WorkspaceKnown
                          /\ OneCall!TaskSentOnce /\ OneCall!NoBashLeft
  /\ part = "two calls" => /\ TwoCalls!Confined /\ TwoCalls!WorkspaceKnown
                           /\ TwoCalls!TaskSentOnce /\ TwoCalls!NoBashLeft

(* The assistant runs on the memory that was written last, hears every note, *)
(* and is not cut off by the bridge's own errands; its memory keeps its      *)
(* notes and the pointers of the last set; and what its model reads of its   *)
(* session is the current run and whole earlier ones, and what was cut stays *)
(* cut (Assistant, CoreMemory, AssistantContext).                            *)
AssistantKept ==
  /\ [](part = "notes" => Notes!StoreCurrent /\ Notes!NotesKept /\ Notes!RunsLeftAlone)
  /\ [](part = "prompts" => Prompts!StoreCurrent /\ Prompts!NotesKept /\ Prompts!RunsLeftAlone)
  /\ [](part = "memory" => Memory!MemoryKept /\ Memory!PointersStand)
  /\ [](part = "context" => Context!ContextTrue)
  /\ [](part = "killed context" => KilledContext!CutIsStub /\ KilledContext!AnsweredStays)
  /\ [](part = "late context" => LateContext!OwnResults /\ LateContext!AnsweredStays)
  /\ [][part = "context" => Context!StubsKept]_sumVars
  /\ [][part = "late context" => LateContext!StubsKept]_sumVars

(* A dialog gets the answer the user gave to it, none is forgotten, and the  *)
(* trust given to a factory's worktrees ends with them (LcDialogs, LcFactory). *)
AnswersMeant ==
  /\ part = "dialogs" => Dialogs!AnswersMeant /\ Dialogs!NoneForgotten
  /\ part = "crossing dialogs" => CrossingDialogs!NoneForgotten
  /\ part = "factory" => Factory!TrustEnds /\ Factory!FlagMatchesMode
  /\ part = "slow factory" => SlowFactory!TrustEnds
  /\ part = "torn factory" => TornFactory!FlagMatchesMode

(* An agent is given a directory inside a usable root, and none is made      *)
(* outside before the checks (Workspaces).                                   *)
GivenIsProper == [][part = "folders" => Folders!ProperStep /\ Folders!MadeStep]_sumVars

(* An answer of the overseer is heard once: returned, or put in the outbox   *)
(* once, and what a hand-off tagged stays there; and a message to an agent   *)
(* is reported once, with a reply written after it, an identical one         *)
(* included (OverseerAsks, OverseerReplies).                                 *)
HeardOnce ==
  /\ [](part = "asks" => Asks!HeardOnce /\ Asks!OutboxOnce)
  /\ [][part = "asks" => Asks!TaggedKept]_sumVars
  /\ [](part = "replies" => Replies!ReplyOnce /\ Replies!ReplyIsNew /\ Replies!GrowthSeen)
  /\ [](part = "late replies" =>
         LateReplies!ReplyOnce /\ LateReplies!ReplyIsNew /\ LateReplies!GrowthSeen)

(* No model other than the overseer's own is left behind (ModelSwitch).      *)
ModelReverted == part = "switch" => Switch!ModelReverted

(* Check-ins stay under their caps and one hop deep, and the nightly reset   *)
(* takes nothing that was asked with it (Checkins).                          *)
CheckinsKept ==
  /\ [](part = "checkins" => Checkin!CapsHold)
  /\ [](part = "midnight" => Midnight!PendingCap /\ Midnight!OneHop)
  /\ [](part = "overlap" => Overlap!PendingCap /\ Overlap!DayCap)
  /\ [][part = "checkins" => Checkin!ResetWhenQuiet]_sumVars
  /\ [][part = "midnight" => Midnight!ResetWhenQuiet]_sumVars
  /\ [][part = "overlap" => Overlap!ResetWhenQuiet]_sumVars
===============================================================================
