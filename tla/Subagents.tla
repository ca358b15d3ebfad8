------------------------------- MODULE Subagents -------------------------------
(***************************************************************************)
(* The guard of native durable agents, across subagents and restarts of the *)
(* bridge (providers/durable: provider.mjs, subagent.mjs, sessions.mjs,     *)
(* guard.mjs, guard-ext.mjs).  Before every tool call the guard asks for    *)
(* the workspace of the conversation: a session's row names it, a           *)
(* subagent's conversation has its parent's.  External: pi-durable, which   *)
(* keeps conversations, tasks and what owns them, and the models.           *)
(***************************************************************************)
EXTENDS Naturals, Sequences, FiniteSets, SequencesExt

CONSTANTS Sids,         (* sessions, above Kids; each has its own workspace  *)
          MaxCalls,     (* bound: subagent calls                             *)
          MaxEdges,     (* MAX_CHILD_EDGES                                   *)
          MaxRestarts   (* bound                                             *)

Kids == 1 .. MaxCalls + 1   (* children's conversations, in order of creation; *)
CallIds == 1 .. MaxCalls      (* one more than the calls need                    *)
Convs == Sids \cup Kids
None == "none"
NoConv == 0

VARIABLES
  row,       (* sessions: archived, recent (seen within 7 days)              *)
  run,       (* conversations: none, live, ended, aborting (abort-marked)    *)
  call,      (* subagent calls: none, start, made, told, waiting, done; the  *)
             (* session, whether the agent is read-only; which keeps its task *)
  owner,     (* the store: children -> the call that owns them, or 0         *)
  sent,      (* how often a call's task was submitted                        *)
  children,  (* the children table: records of child, parent, readonly       *)
  edges,     (* childParents and childRoles, oldest first                    *)
  stale,     (* conversations of runs aborted at the start                   *)
  scopes,    (* the processes of the bridge whose bash still runs            *)
  up,        (* the bridge: off, waiting (for the stale runs), ready         *)
  restarts,
  old        (* the runs found at a start that it must not go on with        *)

store == <<row, run, call, owner, sent, children>>
memory == <<edges, stale, up>>
vars == <<store, memory, scopes, restarts, old>>

Init ==
  /\ row = [s \in Sids |-> [archived |-> FALSE, recent |-> TRUE]]
  /\ run = [c \in Convs |-> None]
  /\ call = [c \in CallIds |-> [at |-> None, sid |-> NoConv, readonly |-> FALSE]]
  /\ owner = [k \in Kids |-> 0] /\ sent = [c \in CallIds |-> 0] /\ children = {}
  /\ edges = << >> /\ stale = {} /\ up = "ready"
  /\ scopes = {} /\ restarts = 0 /\ old = {}

-----------------------------------------------------------------------------
(* Who owns a conversation: as the store has it, and as the guard knows it. *)

OwnerSid(conv) == IF conv \in Sids THEN conv ELSE call[owner[conv]].sid
Root(conv, es) ==
  IF conv \in Sids THEN conv
  ELSE IF \E e \in Range(es) : e.kid = conv THEN (CHOOSE e \in Range(es) : e.kid = conv).parent ELSE NoConv

CwdOf(conv) ==
  LET root == Root(conv, edges) IN IF conv \in stale \/ root \in stale THEN NoConv ELSE root

ReadonlyOf(conv) == \E e \in Range(edges) : e.kid = conv /\ e.readonly

Without(es, kid) ==
  LET at == {i \in DOMAIN es : es[i].kid = kid}
  IN  IF at = {} THEN es ELSE RemoveAt(es, CHOOSE i \in at : TRUE)

(* noteEdge: re-inserted newest last, the oldest dropped.                   *)
Noted(es, e) ==
  LET all == Append(Without(es, e.kid), e)
  IN  IF Len(all) > MaxEdges THEN Tail(all) ELSE all

-----------------------------------------------------------------------------
(* A run: a prompt, tool calls, the end.                                    *)

Prompt(s) ==
  /\ up = "ready" /\ ~row[s].archived /\ run[s] \in {None, "ended"}
  /\ run' = [run EXCEPT ![s] = "live"] /\ row' = [row EXCEPT ![s].recent = TRUE]
  /\ UNCHANGED <<call, owner, sent, children, memory, scopes, restarts, old>>

(* Slip: an agent file's role does not keep a child from writing.           *)
GuardWorkspace(conv, writes) == CwdOf(conv) # NoConv

GuardAllows(conv, writes) == CwdOf(conv) # NoConv /\ ~(writes /\ ReadonlyOf(conv))

Tool(conv, writes) ==
  /\ up # "off" /\ run[conv] = "live" /\ GuardAllows(conv, writes)
  /\ scopes' = scopes \cup {restarts}
  /\ UNCHANGED <<store, memory, restarts, old>>

BashEnds(b) ==
  /\ scopes' = scopes \ {b}
  /\ UNCHANGED <<store, memory, restarts, old>>

(* The calls of a run, and their children.                                  *)
OpenCalls(s) == {c \in CallIds : call[c].sid = s /\ call[c].at \notin {None, "done"}}
KidsOf(cs) == {k \in Kids : owner[k] \in cs}

(* A run ends after its calls have; an aborted one takes them along.        *)
RunEnds(conv) ==
  /\ up # "off" /\ run[conv] \in {"live", "aborting"}
  /\ IF conv \in Sids
     THEN LET cs == OpenCalls(conv)
          IN  /\ cs = {} \/ run[conv] = "aborting"
              /\ call' = [c \in CallIds |-> IF c \in cs THEN [call[c] EXCEPT !.at = "done"] ELSE call[c]]
              /\ run' = [c \in Convs |-> IF c = conv \/ (c \in KidsOf(cs) /\ run[c] # None) THEN "ended" ELSE run[c]]
     ELSE run' = [run EXCEPT ![conv] = "ended"] /\ call' = call
  /\ old' = {c \in old : run'[c] \in {"live", "aborting"}}
  /\ UNCHANGED <<row, owner, sent, children, memory, scopes, restarts>>

(* The session is stopped: archived, its run aborted.                       *)
Archive(s) ==
  /\ up = "ready" /\ ~row[s].archived
  /\ row' = [row EXCEPT ![s].archived = TRUE]
  /\ run' = [run EXCEPT ![s] = IF @ = "live" THEN "aborting" ELSE @]
  /\ UNCHANGED <<call, owner, sent, children, memory, scopes, restarts, old>>

-----------------------------------------------------------------------------
(* The subagent tool.                                                       *)

Execute(c, s, readonly) ==
  /\ up # "off" /\ run[s] = "live" /\ call[c].at = None /\ \A d \in CallIds : d < c => call[d].at # None
  /\ call' = [call EXCEPT ![c] = [at |-> "start", sid |-> s, readonly |-> readonly]]
  /\ UNCHANGED <<row, run, owner, sent, children, memory, scopes, restarts, old>>

(* The ownership index remembers the child, so a rerun reuses it.           *)
(* Slip: a rerun creates another.                                           *)
OwnedNone(c) == {}
Owned(c) == KidsOf({c})

Create(c) ==
  /\ up # "off" /\ call[c].at = "start" /\ run[call[c].sid] = "live"
  /\ IF Owned(c) # {} THEN owner' = owner
     ELSE \E k \in Kids : /\ owner[k] = 0 /\ \A j \in Kids : j < k => owner[j] # 0
                          /\ owner' = [owner EXCEPT ![k] = c]
  /\ call' = [call EXCEPT ![c].at = "made"]
  /\ UNCHANGED <<row, run, sent, children, memory, scopes, restarts, old>>

Newest(c) == CHOOSE k \in KidsOf({c}) : \A j \in KidsOf({c}) : j <= k

(* Slip: the table keeps no role.                                           *)
RecordOfParent(c) == [kid |-> Newest(c), parent |-> call[c].sid, readonly |-> FALSE]

RecordOf(c) == [kid |-> Newest(c), parent |-> call[c].sid, readonly |-> call[c].readonly]

(* onChild, before the child runs.                                          *)
Tell(c) ==
  /\ up # "off" /\ call[c].at = "made"
  /\ edges' = Noted(edges, [kid |-> Newest(c), parent |-> call[c].sid, readonly |-> call[c].readonly])
  /\ children' = {r \in children : r.kid # Newest(c)} \cup {RecordOf(c)}
  /\ call' = [call EXCEPT ![c].at = "told"]
  /\ UNCHANGED <<row, run, owner, sent, stale, up, scopes, restarts, old>>

(* Resubmitted with its requestId the task is found again.                  *)
Submit(c) ==
  /\ up # "off" /\ call[c].at = "told" /\ run[call[c].sid] = "live"
  /\ call' = [call EXCEPT ![c].at = "waiting"]
  /\ IF run[Newest(c)] = None
     THEN run' = [run EXCEPT ![Newest(c)] = "live"] /\ sent' = [sent EXCEPT ![c] = @ + 1]
     ELSE UNCHANGED <<run, sent>>
  /\ UNCHANGED <<row, owner, children, memory, scopes, restarts, old>>

Answered(c) ==
  /\ up # "off" /\ call[c].at = "waiting" /\ run[Newest(c)] = "ended"
  /\ call' = [call EXCEPT ![c].at = "done"]
  /\ UNCHANGED <<row, run, owner, sent, children, memory, scopes, restarts, old>>

(* Slip: the wait is not bounded.                                           *)
NeverTimesOut(c) == FALSE

TimedOut(c) == call[c].at = "waiting" /\ run[Newest(c)] \in {"live", "aborting"}

(* The child is aborted, and the call ends.                                 *)
TimeOut(c) ==
  /\ up # "off" /\ TimedOut(c)
  /\ run' = [run EXCEPT ![Newest(c)] = "aborting"]
  /\ call' = [call EXCEPT ![c].at = "done"]
  /\ UNCHANGED <<row, owner, sent, children, memory, scopes, restarts, old>>

-----------------------------------------------------------------------------
(* Restarts.                                                                *)

(* A stop clears the scopes, a crash does not; tasks stay in the store.     *)
Down(crash) ==
  /\ up # "off" /\ restarts < MaxRestarts /\ restarts' = restarts + 1
  /\ up' = "off" /\ edges' = << >> /\ stale' = {}
  /\ scopes' = IF crash THEN scopes ELSE {}
  /\ UNCHANGED <<store, old>>

Ages(s) ==
  /\ up = "off" /\ row[s].recent /\ row' = [row EXCEPT ![s].recent = FALSE]
  /\ UNCHANGED <<run, call, owner, sent, children, memory, scopes, restarts, old>>

Live(s) == row[s].recent /\ ~row[s].archived

(* Slip: the children's edges come back with the calls that run again.      *)
LoadedLater(cs) == << >>

InOrder(kids) ==
  CHOOSE ks \in [1 .. Cardinality(kids) -> kids] :
    Range(ks) = kids /\ \A i, j \in DOMAIN ks : i < j => ks[i] < ks[j]

(* loadChildren, in the order of the table.                                 *)
Loaded(cs) ==
  LET kept == {r \in cs : Live(r.parent)}
      kids == InOrder({r.kid : r \in kept})
      es == [i \in DOMAIN kids |-> CHOOSE r \in kept : r.kid = kids[i]]
  IN  IF Len(es) > MaxEdges THEN SubSeq(es, Len(es) - MaxEdges + 1, Len(es)) ELSE es

(* Slip: only a run whose session is unknown is stale.                      *)
StaleUnknown(conv, es) == Root(conv, es) = NoConv

(* The run of an old, archived or unknown session.                          *)
StaleRun(conv, es) == Root(conv, es) = NoConv \/ ~Live(Root(conv, es))

(* Slip: the scopes a crash left go on.                                     *)
ScopesLeft == scopes

ScopesCleared == {}

(* Everything up to harness.resume(); a failed abort leaves its run.        *)
Start ==
  /\ up = "off"
  /\ scopes' = ScopesCleared
  /\ children' = {r \in children : Live(r.parent)}
  /\ edges' = Loaded(children)
  /\ LET tasks == {conv \in Convs : run[conv] \in {"live", "aborting"}}
         late == {conv \in tasks : StaleRun(conv, edges')}
     IN  /\ stale' = late \cup ({Root(conv, edges') : conv \in late} \ {NoConv})
         /\ old' = {conv \in tasks : ~Live(OwnerSid(conv))}
         /\ \E failed \in SUBSET late :
              run' = [conv \in Convs |-> IF conv \in late \ failed THEN "aborting" ELSE run[conv]]
         /\ up' = IF late = {} THEN "ready" ELSE "waiting"
  /\ call' = [c \in CallIds |-> IF call[c].at \in {None, "done"} THEN call[c] ELSE [call[c] EXCEPT !.at = "start"]]
  /\ UNCHANGED <<row, owner, sent, restarts>>

(* The stale conversations are idle; prompts wait for it.                   *)
Ready ==
  /\ up = "waiting" /\ \A conv \in stale : run[conv] \notin {"live", "aborting"}
  /\ up' = "ready" /\ stale' = {}
  /\ UNCHANGED <<store, edges, scopes, restarts, old>>

-----------------------------------------------------------------------------
Next ==
  \/ \E s \in Sids : Prompt(s) \/ Archive(s) \/ Ages(s)
  \/ \E conv \in Convs : RunEnds(conv) \/ \E w \in BOOLEAN : Tool(conv, w)
  \/ \E b \in scopes : BashEnds(b)
  \/ \E c \in CallIds : \/ \E s \in Sids, r \in BOOLEAN : Execute(c, s, r)
                      \/ Create(c) \/ Tell(c) \/ Submit(c) \/ Answered(c) \/ TimeOut(c)
  \/ \E crash \in BOOLEAN : Down(crash)
  \/ Start \/ Ready

Spec == Init /\ [][Next]_vars

(* The code goes on, pi-durable runs what is live and lands aborts; models  *)
(* need not answer.                                                         *)
Fair(c) == WF_vars(Create(c)) /\ WF_vars(Tell(c)) /\ WF_vars(Submit(c)) /\ WF_vars(Answered(c)) /\ WF_vars(TimeOut(c))
AbortLands(conv) == run[conv] = "aborting" /\ RunEnds(conv)
FairSpec ==
  /\ Spec /\ WF_vars(Start) /\ \A c \in CallIds : Fair(c) /\ \A conv \in Convs : WF_vars(AbortLands(conv))

-----------------------------------------------------------------------------
TypeOK ==
  /\ \A k \in Kids : owner[k] \in 0 .. MaxCalls
  /\ Len(edges) <= MaxEdges /\ \A r \in children : r.kid \in Kids /\ r.parent \in Sids
  /\ stale \subseteq Convs /\ up \in {"off", "waiting", "ready"}

(* A tool call runs in the workspace of the session that owns its           *)
(* conversation, a read-only agent never writes, and a run that was live    *)
(* when its session was last seen over 7 days ago, or archived, calls no    *)
(* tool after a restart, whatever of its abort fails (provider.mjs:372-380, *)
(* 591-595).                                                                *)
Confined ==
  up # "off" => \A conv \in Convs, writes \in BOOLEAN : run[conv] = "live" /\ GuardAllows(conv, writes) =>
                  /\ CwdOf(conv) = OwnerSid(conv) /\ conv \notin old
                  /\ ~(writes /\ conv \in Kids /\ call[owner[conv]].readonly)

(* "rebuilt from it on open BEFORE resume() so a resumed child's first tool *)
(* call already resolves" (provider.mjs:376-377): the workspace of a live   *)
(* run that goes on is known, unless newer children took its edge's place.  *)
(* A run that does not go on may still make children, which call no tool.   *)
WorkspaceKnown ==
  up # "off" => \A conv \in Convs : run[conv] = "live" /\ old \cap {conv, OwnerSid(conv)} = {} =>
                  CwdOf(conv) # NoConv \/ Len(edges) = MaxEdges

(* "the task is never sent twice" (subagent.mjs:9-10), whatever is rerun.     *)
TaskSentOnce == \A c \in CallIds : sent[c] <= 1

(* Bash that a process left behind never runs beside a run it goes on with. *)
NoBashLeft == up # "off" => \A b \in scopes : b = restarts

(* A subagent call is under way; every one ends, at the latest at its       *)
(* timeout or when its session is stopped (MCEnds).                         *)
Waits(c) == call[c].at \notin {None, "done"}
=============================================================================
