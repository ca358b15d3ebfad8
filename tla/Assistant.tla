------------------------------- MODULE Assistant -------------------------------
(***************************************************************************)
(* The Even AI assistant (lc/assistant.mjs on the lets-code engine): one    *)
(* child that is kept warm, the runs it is given, the host notes queued for *)
(* it as files, the hand-off that replaces its session, and the writes of   *)
(* its core memory, which it reads only when it starts.  lets-code and its  *)
(* extension are external.                                                  *)
(***************************************************************************)
EXTENDS Naturals, Sequences, FiniteSets, SequencesExt

CONSTANTS MaxNotes,    (* bound on the notes written, summaries included     *)
          MaxSets,     (* bound on the pointer sets the shim sends           *)
          MaxResets,   (* bound on hand-offs and compactions                 *)
          MaxAsks,     (* bound on prompts                                   *)
          MaxExits,    (* bound on exits of the child it was not asked for   *)
          MaxRestarts  (* bound on restarts of the bridge                    *)

None == 0

VARIABLES
  child,     (* none, start (it has not told its state), up, or stop (told  *)
             (* to stop, not gone)                                          *)
  starting,  (* the engine's start, afterStart included, is in flight       *)
  line,      (* tools.seen: the extension's line came                       *)
  over,      (* toolsWaitOver                                               *)
  synced,    (* afterStart has run                                          *)
  spawning,  (* no, child (ensureChild is awaited) or tools (waitTools is)  *)
  timer,     (* the respawn timer is armed                                  *)
  busy,      (* the engine: idle, start, run, or cut (the run died)         *)
  asking,    (* the prompt in flight: no, apply, spawn or tools, what it    *)
             (* waits for                                                   *)
  handing,   (* no, compact (of a hand-off), new, state or only             *)
  queue,     (* the note files not sent yet                                 *)
  sending,   (* the note flushNotes waits for, 0 for none                   *)
  notes,     (* notes written                                               *)
  heard,     (* the notes the child has read, and deleted                   *)
  pending,   (* pendingPointers                                             *)
  applying,  (* applyPointers: no, stop or respawn                          *)
  store,     (* the memory store's version                                  *)
  read,      (* the version the child has read                              *)
  count      (* what happened, for the bounds                               *)

proc == <<child, starting, line, over, synced, read>>
warm == <<spawning, timer>>
mail == <<queue, sending, notes, heard>>
memory == <<pending, applying, store>>
vars == <<proc, warm, busy, asking, handing, mail, memory, count>>

Init ==
  /\ child = "none" /\ starting = FALSE /\ line = FALSE /\ over = FALSE /\ synced = FALSE
  /\ read = 0 /\ spawning = "child" /\ timer = FALSE
  /\ busy = "idle" /\ asking = "no" /\ handing = "no"
  /\ queue = << >> /\ sending = None /\ notes = 0 /\ heard = {}
  /\ pending = FALSE /\ applying = "no" /\ store = 0
  /\ count = [sets |-> 0, resets |-> 0, asks |-> 0, exits |-> 0, restarts |-> 0]

Counted(k, max) == count[k] < max /\ count' = [count EXCEPT ![k] = @ + 1]

Running == child # "none"

Busy == handing # "no" \/ busy # "idle"

(* The status of a child c is idle or down.                                 *)
Quiet(c) ==
  ~Busy /\ (IF c = "none" THEN spawning = "no" ELSE synced /\ (line \/ over))

(* spawn: one at a time; a start that is under way is shared.               *)
Spawn ==
  /\ spawning' = IF spawning = "no" THEN "child" ELSE spawning
  /\ timer' = (timer /\ spawning # "no")

(* flushNotes, one at a time, after the rest of the step: the oldest note,  *)
(* to an idle child whose extension is loaded.                              *)
Sendable == queue # << >> /\ Running /\ line /\ busy = "idle"
Oldest == IF Sendable THEN Head(queue) ELSE None
FlushNotes == sending' = IF sending = None THEN Oldest' ELSE sending

NewNote == notes' = notes + 1 /\ notes < MaxNotes

(* Slip: the store is written before the child has stopped.                 *)
WriteAtOnce(c) ==
  /\ store' = store + 1
  /\ child' = IF c = "none" THEN c ELSE "stop"
  /\ applying' = IF c = "none" THEN "no" ELSE "stop"

(* applyPointers: a child that runs is stopped first.                       *)
Apply(c) ==
  IF c = "none" THEN store' = store + 1 /\ child' = c /\ applying' = "no"
  ELSE applying' = "stop" /\ child' = "stop" /\ UNCHANGED store

(* flushPointers, after the rest of the step: c and a are the child and the *)
(* write in flight as the step leaves them.                                 *)
FlushPointers(c, a) ==
  IF pending /\ a = "no" /\ (\E k \in {c} : Quiet(k)') THEN pending' = FALSE /\ Apply(c)
  ELSE child' = c /\ applying' = a /\ UNCHANGED <<pending, store>>

-----------------------------------------------------------------------------
(* The child.                                                               *)

(* ensureChild, asked by spawn or by a run: it waits for a stop, and the    *)
(* child reads its memory as it starts.                                     *)
Launch ==
  /\ child = "none" /\ ~starting /\ (spawning = "child" \/ busy = "start")
  /\ child' = "start" /\ starting' = TRUE /\ read' = store
  /\ line' = FALSE /\ over' = FALSE /\ synced' = FALSE
  /\ UNCHANGED <<warm, busy, asking, handing, mail, memory, count>>

(* The extension says how many tools it has.                                *)
ToolsLine ==
  /\ child \in {"start", "up"} /\ ~line
  /\ line' = TRUE
  /\ UNCHANGED <<child, starting, over, synced, read, warm, busy, asking, handing,
                 mail, memory, count>>

GotState ==
  /\ child = "start"
  /\ child' = "up"
  /\ UNCHANGED <<starting, line, over, synced, read, warm, busy, asking, handing,
                 mail, memory, count>>

(* afterStart's commands are answered, or fail with the child: it is        *)
(* started either way.                                                      *)
Started ==
  /\ starting /\ child # "start"
  /\ starting' = FALSE /\ synced' = TRUE
  /\ spawning' = IF spawning = "child" THEN "tools" ELSE spawning
  /\ UNCHANGED <<child, line, over, read, timer, busy, asking, handing, mail, memory, count>>

(* Slip: the wait for the tools has no end of its own.                      *)
ToolsAwaited ==
  /\ spawning = "tools" /\ line
  /\ spawning' = "no" /\ over' = TRUE
  /\ UNCHANGED <<starting, line, synced, read, timer, busy, asking, handing, queue,
                 notes, heard, count>>
  /\ FlushPointers(child, IF applying = "respawn" THEN "no" ELSE applying)
  /\ FlushNotes

(* waitTools ends: with the line, or after toolsWaitMs.  It may be the end *)
(* of a write, too: the pointers that came during it are next.              *)
ToolsWaited ==
  /\ spawning = "tools"
  /\ spawning' = "no" /\ over' = TRUE
  /\ UNCHANGED <<starting, line, synced, read, timer, busy, asking, handing, queue,
                 notes, heard, count>>
  /\ FlushPointers(child, IF applying = "respawn" THEN "no" ELSE applying)
  /\ FlushNotes

(* It exits on its own.  One that has not told its state fails the start;   *)
(* a run of its is cut; it is respawned after a while.                      *)
Exit ==
  /\ child \in {"start", "up"} /\ Counted("exits", MaxExits)
  /\ line' = FALSE /\ timer' = TRUE
  /\ busy' = IF busy = "idle" THEN "idle" ELSE "cut"
  /\ UNCHANGED <<over, synced, read, asking, handing, mail>>
  /\ IF child = "start"
     THEN /\ starting' = FALSE /\ spawning' = "no"
          /\ FlushPointers("none", IF applying = "respawn" THEN "no" ELSE applying)
     ELSE /\ child' = "none" /\ UNCHANGED <<starting, spawning, memory>>

(* It exits as told: for a write of its memory, done now, or because its    *)
(* run ignored the abort.                                                   *)
Stopped ==
  /\ child = "stop"
  /\ child' = "none" /\ line' = FALSE /\ Spawn
  /\ IF applying = "stop" THEN applying' = "respawn" /\ store' = store + 1
     ELSE UNCHANGED <<applying, store>>
  /\ UNCHANGED <<starting, over, synced, read, busy, asking, handing, mail, pending, count>>

Respawn ==
  /\ timer /\ timer' = FALSE
  /\ spawning' = IF spawning = "no" THEN "child" ELSE spawning
  /\ UNCHANGED <<proc, busy, asking, handing, mail, memory, count>>

-----------------------------------------------------------------------------
(* Prompts and runs.                                                        *)

(* prompt, once no memory is written: a child that is down is spawned.      *)
NeedChild ==
  IF Running THEN asking' = "tools" /\ UNCHANGED warm ELSE asking' = "spawn" /\ Spawn

Prompt ==
  /\ asking = "no" /\ Counted("asks", MaxAsks)
  /\ IF applying # "no" THEN asking' = "apply" /\ UNCHANGED warm ELSE NeedChild
  /\ UNCHANGED <<proc, busy, handing, mail, memory>>

MemoryWaited ==
  /\ asking = "apply" /\ applying = "no" /\ NeedChild
  /\ UNCHANGED <<proc, busy, handing, mail, memory, count>>

SpawnWaited ==
  /\ asking = "spawn" /\ spawning = "no"
  /\ asking' = IF Running THEN "tools" ELSE "no"
  /\ UNCHANGED <<proc, warm, busy, handing, mail, memory, count>>

(* Slip: a prompt is taken during a hand-off.                               *)
SubmitAnyway ==
  /\ asking = "tools" /\ asking' = "no"
  /\ busy' = IF line /\ busy = "idle" THEN "start" ELSE busy
  /\ UNCHANGED <<proc, warm, handing, mail, memory, count>>

(* Without the line in time, and during a hand-off, it is refused; a busy   *)
(* engine is steered.                                                       *)
Submit ==
  /\ asking = "tools" /\ asking' = "no"
  /\ busy' = IF line /\ handing = "no" /\ busy = "idle" THEN "start" ELSE busy
  /\ UNCHANGED <<proc, warm, handing, mail, memory, count>>

(* drive: a child that runs is not waited for.                              *)
Run ==
  /\ busy = "start" /\ child \in {"start", "up"}
  /\ busy' = "run"
  /\ UNCHANGED <<proc, warm, asking, handing, mail, memory, count>>

RunEnds ==
  /\ busy = "run" /\ child = "up"
  /\ busy' = "idle"
  /\ UNCHANGED <<starting, line, over, synced, read, warm, asking, handing, queue,
                 notes, heard, count>>
  /\ FlushPointers(child, applying)
  /\ FlushNotes

(* A run that ignores the abort of its deadline or tool cap.                *)
Capped ==
  /\ busy = "run" /\ child = "up"
  /\ busy' = "idle"
  /\ UNCHANGED <<starting, line, over, synced, read, warm, asking, handing, queue,
                 notes, heard, count>>
  /\ FlushPointers("stop", applying)
  /\ FlushNotes

(* The run of a child that died, or of an earlier process, is not resumed:  *)
(* a note says so (not of one that never started).                          *)
Cut ==
  /\ busy = "cut"
  /\ busy' = "idle"
  /\ \/ NewNote /\ queue' = Append(queue, notes + 1)
     \/ UNCHANGED <<notes, queue>>
  /\ UNCHANGED <<starting, line, over, synced, read, warm, asking, handing, heard, count>>
  /\ FlushPointers(child, applying)
  /\ FlushNotes

-----------------------------------------------------------------------------
(* Notes.                                                                   *)

Note ==
  /\ NewNote /\ queue' = Append(queue, notes + 1)
  /\ UNCHANGED <<proc, warm, busy, asking, handing, heard, memory, count>>
  /\ IF handing = "no" THEN FlushNotes ELSE UNCHANGED sending

(* The child reads the note's file and deletes it.                          *)
Hear ==
  /\ sending # None /\ sending \notin heard /\ child \in {"start", "up"}
  /\ heard' = heard \cup {sending}
  /\ UNCHANGED <<proc, warm, busy, asking, handing, queue, sending, notes, memory, count>>

(* Slip: whatever is first leaves the queue.                                *)
SentAny ==
  /\ sending \in heard
  /\ queue' = Tail(queue)
  /\ UNCHANGED <<proc, warm, busy, asking, handing, notes, heard, memory, count>>
  /\ sending' = Oldest'

(* It answered: the note leaves the queue if it is still the first.         *)
Sent ==
  /\ sending \in heard
  /\ queue' = IF queue # << >> /\ Head(queue) = sending THEN Tail(queue) ELSE queue
  /\ UNCHANGED <<proc, warm, busy, asking, handing, notes, heard, memory, count>>
  /\ sending' = Oldest'

(* No answer in time, or the child is gone.                                 *)
NotSent ==
  /\ sending # None /\ sending' = None
  /\ UNCHANGED <<proc, warm, busy, asking, handing, queue, notes, heard, memory, count>>

-----------------------------------------------------------------------------
(* Hand-offs (the route's, the nightly one, a switch to Claude) and the     *)
(* compaction the route asks for.                                           *)

Handoff ==
  /\ ~Busy /\ Running /\ Counted("resets", MaxResets)
  /\ handing' \in {"compact", "only"}
  /\ UNCHANGED <<proc, warm, busy, asking, mail, memory>>

(* The compaction may fail; the session is replaced all the same.           *)
Compacted ==
  /\ handing = "compact" /\ handing' = "new"
  /\ UNCHANGED <<proc, warm, busy, asking, mail, memory, count>>

NewSession ==
  /\ handing = "new"
  /\ \/ Running /\ handing' = "state"
     \/ handing' = "no"
  /\ UNCHANGED <<proc, warm, busy, asking, mail, memory, count>>

(* The summary goes before the notes that wait.                             *)
HandedOff ==
  /\ handing = "state" /\ Running /\ handing' = "no"
  /\ NewNote /\ queue' = <<notes + 1>> \o queue
  /\ UNCHANGED <<proc, warm, busy, asking, heard, memory, count>>
  /\ FlushNotes

HandoffFails ==
  /\ handing = "state" /\ ~Running /\ handing' = "no"
  /\ UNCHANGED <<proc, warm, busy, asking, mail, memory, count>>

CompactedOnly ==
  /\ handing = "only" /\ handing' = "no"
  /\ UNCHANGED <<proc, warm, busy, asking, queue, notes, heard, memory, count>>
  /\ (FlushNotes \/ UNCHANGED sending)    (* not after one that failed *)

-----------------------------------------------------------------------------
(* Core memory.                                                             *)

(* memoryPointers: written now, or the newest set waits.                    *)
Pointers ==
  /\ Counted("sets", MaxSets)
  /\ IF Quiet(child) /\ applying = "no" /\ spawning = "no"
     THEN pending' = FALSE /\ Apply(child)
     ELSE pending' = TRUE /\ UNCHANGED <<child, applying, store>>
  /\ UNCHANGED <<starting, line, over, synced, read, warm, busy, asking, handing, mail>>

(* The files left are those of the notes not read, and sort by number.      *)
Listed ==
  LET left == (1 .. notes) \ heard
  IN  {q \in [1 .. Cardinality(left) -> left] :
        Range(q) = left /\ \A i, j \in DOMAIN q : i < j => q[i] < q[j]}

(* The bridge starts again: the notes are the files left, and the child     *)
(* went with it.                                                            *)
Restart ==
  /\ Counted("restarts", MaxRestarts)
  /\ child' = "none" /\ starting' = FALSE /\ line' = FALSE /\ over' = FALSE /\ synced' = FALSE
  /\ spawning' = "child" /\ timer' = FALSE /\ asking' = "no" /\ handing' = "no"
  /\ busy' = IF busy = "idle" THEN "idle" ELSE "cut"
  /\ queue' \in Listed /\ sending' = None
  /\ pending' = FALSE /\ applying' = "no"
  /\ UNCHANGED <<read, notes, heard, store>>

ChildStep == Launch \/ GotState \/ Started \/ ToolsWaited \/ Stopped \/ Respawn
AskStep == MemoryWaited \/ SpawnWaited \/ Submit \/ Run \/ Cut
Next ==
  \/ ChildStep \/ AskStep
  \/ ToolsLine \/ Exit \/ Prompt \/ RunEnds \/ Capped
  \/ Note \/ Hear \/ Sent \/ NotSent
  \/ Handoff \/ Compacted \/ NewSession \/ HandedOff \/ HandoffFails \/ CompactedOnly
  \/ Pointers \/ Restart

Spec == Init /\ [][Next]_vars

(* The child starts or exits, the timers fire, awaited calls are answered.  *)
FairSpec == Spec /\ WF_vars(ChildStep) /\ WF_vars(AskStep)

-----------------------------------------------------------------------------
TypeOK ==
  /\ child \in {"none", "start", "up", "stop"} /\ busy \in {"idle", "start", "run", "cut"}
  /\ {starting, line, over, synced, timer, pending} \subseteq BOOLEAN
  /\ spawning \in {"no", "child", "tools"} /\ asking \in {"no", "apply", "spawn", "tools"}
  /\ handing \in {"no", "compact", "new", "state", "only"}
  /\ applying \in {"no", "stop", "respawn"}
  /\ queue \in Seq(1 .. notes) /\ sending \in 0 .. notes /\ notes \in 0 .. MaxNotes
  /\ heard \subseteq 1 .. notes /\ store \in Nat /\ read \in 0 .. store

(* The child never works with a memory other than the store's: it would     *)
(* save its own over what the bridge has written (assistant.mjs:20-23).     *)
StoreCurrent == Running => read = store

(* A note is never lost: until the child has read its file, the file waits  *)
(* in the queue, whatever hand-offs, exits and restarts come between.       *)
NotesKept == \A n \in (1 .. notes) \ heard : n \in Range(queue)

(* A run is neither compacted away nor stopped by a memory write: hand-offs *)
(* and writes find an idle child and keep prompts out until they are done.  *)
RunsLeftAlone == busy = "run" => handing = "no" /\ applying # "stop"

(* A prompt waits for the memory, a start or the tools; it is answered      *)
(* (MCEnds).                                                                *)
Waits == asking # "no"
=============================================================================
