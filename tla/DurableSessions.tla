---------------------------- MODULE DurableSessions ----------------------------
(***************************************************************************)
(* The life of a durable session (durable/provider.mjs, sessions.mjs,       *)
(* harness.mjs): its row, its conversation and its runs, under prompts that *)
(* are retried, stops, forgets and interrupts that overlap them, and        *)
(* restarts that resume some runs and abort the others.  Every await of     *)
(* these calls is a step of its own.  pi-durable is external: it creates    *)
(* conversations, places each requestId's input once and keeps its runs     *)
(* over a restart.  How a session's frames reach the ring is DurableWatch;  *)
(* what a lets-code run is, LcEngine.                                       *)
(***************************************************************************)
EXTENDS Naturals, FiniteSets, FiniteSetsExt

CONSTANTS
  Sids,          (* session ids                                             *)
  Requests,      (* requestIds of prompts that start a session              *)
  Calls,         (* calls that can overlap                                  *)
  Kinds,         (* the calls that are made                                 *)
  LetsCode,      (* the sessions that ask for the lets-code engine          *)
  MaxConvs,      (* bound on conversations                                  *)
  MaxInputs,     (* bound on inputs to a session                            *)
  MaxRestarts    (* bound on restarts                                       *)

None == "none"

VARIABLES
  row,       (* the sessions table: none, live or archived                  *)
  conv,      (* its conversation_id, 0 for null                             *)
  request,   (* the requests table: the sid a requestId created             *)
  convs,     (* conversations created                                       *)
  inputs,    (* inputs placed: conversation, requestId, and number if none  *)
  running,   (* conversations with a run                                    *)
  marked,    (* runs whose abort was recorded before the harness resumed    *)
  up,        (* opening, resuming or ready                                  *)
  states,    (* sessions whose state is busy                                *)
  creating,  (* creations under way: none, asked for (0) or made            *)
  aborts,    (* aborts under way                                            *)
  calls,     (* the calls                                                   *)
  late,      (* submitted to while it was being stopped or after its check  *)
  restarts

stored == <<row, conv, request, convs>>
runs == <<inputs, running, marked>>
memory == <<up, states, creating, aborts>>
vars == <<stored, runs, memory, calls, late, restarts>>

Idle == [at |-> "idle", sid |-> None, req |-> None, created |-> FALSE]
At(c, at) == calls' = [calls EXCEPT ![c].at = at]
Ended(c) == calls' = [calls EXCEPT ![c] = Idle]

Init ==
  /\ row = [s \in Sids |-> "none"] /\ conv = [s \in Sids |-> 0]
  /\ request = [r \in Requests |-> None] /\ convs = 0
  /\ inputs = {} /\ running = {} /\ marked = {}
  /\ up = "ready" /\ states = {} /\ aborts = {}
  /\ creating = [s \in Sids |-> {}]
  /\ calls = [c \in Calls |-> Idle]
  /\ late = {} /\ restarts = 0

-----------------------------------------------------------------------------
(* prompt(): which session it is for.                                       *)

(* createSession, with the request noted in the same step.                  *)
Create(c, r, engine) ==
  \E s \in Sids :
    /\ row[s] = "none" /\ (s \in LetsCode) = (engine = "lets-code")
    /\ row' = [row EXCEPT ![s] = "live"]
    /\ request' = [request EXCEPT ![r] = s]
    /\ calls' = [calls EXCEPT ![c] = [at |-> "ensure", sid |-> s, req |-> r, created |-> TRUE]]
    /\ UNCHANGED <<conv, convs>>

(* The session that a requestId created, unless it is archived.             *)
Found(c, r) ==
  /\ calls' = [calls EXCEPT ![c] =
                 IF row[request[r]] # "live" THEN Idle
                 ELSE [at |-> "ensure", sid |-> request[r], req |-> r, created |-> FALSE]]
  /\ UNCHANGED stored

Start(c, r) ==
  /\ "start" \in Kinds /\ calls[c] = Idle /\ up = "ready"
  /\ IF request[r] # None THEN Found(c, r)
     ELSE \/ Create(c, r, "native")
          \/ /\ LetsCode # {}
             /\ calls' = [calls EXCEPT ![c] = [Idle EXCEPT !.at = "admit", !.req = r]]
             /\ UNCHANGED stored
  /\ UNCHANGED <<runs, memory, late, restarts>>

(* Slip: the requestId is not looked up again once there is a place.        *)
AdmittedUnchecked(c) ==
  /\ calls[c].at = "admit"
  /\ \/ Create(c, calls[c].req, "lets-code")
     \/ Ended(c) /\ UNCHANGED stored
  /\ UNCHANGED <<runs, memory, late, restarts>>

(* lcEngine.admit has made a place, or refuses.  The requestId is looked up *)
(* again: another call may have used it meanwhile.                          *)
Admitted(c) ==
  /\ calls[c].at = "admit"
  /\ \/ IF request[calls[c].req] # None THEN Found(c, calls[c].req)
        ELSE Create(c, calls[c].req, "lets-code")
     \/ Ended(c) /\ UNCHANGED stored
  /\ UNCHANGED <<runs, memory, late, restarts>>

(* A prompt to a session there is.                                          *)
Prompt(c, s) ==
  /\ "prompt" \in Kinds /\ calls[c] = Idle /\ up = "ready" /\ row[s] = "live"
  /\ calls' = [calls EXCEPT ![c] = [Idle EXCEPT !.at = "ensure", !.sid = s]]
  /\ UNCHANGED <<stored, runs, memory, late, restarts>>

-----------------------------------------------------------------------------
(* prompt(): the session's conversation.                                    *)

(* ensureConversation: calls that overlap share one creation.               *)
EnsureConversation(c) ==
  /\ calls[c].at = "ensure"
  /\ LET s == calls[c].sid
     IN  IF conv[s] # 0 THEN At(c, "attach") /\ UNCHANGED creating
         ELSE /\ At(c, "creating")
              /\ creating' = [creating EXCEPT ![s] = IF @ = {} THEN {0} ELSE @]
  /\ UNCHANGED <<stored, runs, up, states, aborts, late, restarts>>

(* The harness has created the conversation; the row does not name it yet.  *)
Made(s) ==
  /\ creating[s] = {0} /\ convs < MaxConvs
  /\ convs' = convs + 1
  /\ creating' = [creating EXCEPT ![s] = {convs'}]
  /\ UNCHANGED <<row, conv, request, runs, up, states, aborts, calls, late, restarts>>

(* createConversationFor ends: setConversation, or an error that every call *)
(* waiting for it gets.                                                     *)
CreatingEnds(s) ==
  /\ \/ /\ \E k \in creating[s] \ {0} : conv' = [conv EXCEPT ![s] = k]
        /\ calls' = [c \in Calls |-> IF calls[c].at = "creating" /\ calls[c].sid = s
                                     THEN [calls[c] EXCEPT !.at = "attach"] ELSE calls[c]]
     \/ /\ creating[s] = {0} /\ UNCHANGED conv
        /\ calls' = [c \in Calls |-> IF calls[c].at = "creating" /\ calls[c].sid = s
                                     THEN Idle ELSE calls[c]]
  /\ creating' = [creating EXCEPT ![s] = {}]
  /\ UNCHANGED <<row, request, convs, runs, up, states, aborts, late, restarts>>

-----------------------------------------------------------------------------
(* prompt(): the run.                                                       *)

(* A watcher is attached (its conversationOf reads the row); lets-code goes *)
(* to its engine.                                                           *)
Attach(c) ==
  /\ calls[c].at = "attach"
  /\ IF calls[c].sid \in LetsCode \/ row[calls[c].sid] = "live"
     THEN At(c, "submit") ELSE Ended(c)
  /\ UNCHANGED <<stored, runs, memory, late, restarts>>

(* forgetSession: a busy conversation is aborted, nobody waits for it.      *)
Archive(s) ==
  /\ row' = [row EXCEPT ![s] = "archived"]
  /\ states' = states \ {s}
  /\ late' = IF \E d \in Calls : calls[d].sid = s /\ calls[d].at \in {"submit", "status"}
             THEN late \union {s} ELSE late
  /\ UNCHANGED <<conv, request, convs>>

(* submit: an input starts a run or joins it; a requestId's second input is *)
(* the first one.  lets-code looks at the row again before it runs, and an  *)
(* agent of it that is refused at its first prompt leaves no row behind.    *)
Submit(c) ==
  /\ calls[c].at = "submit"
  /\ LET s == calls[c].sid
         k == conv[s]
         n == Cardinality({i \in inputs : i.conv = k})
         input == [conv |-> k, req |-> calls[c].req, n |-> IF calls[c].req = None THEN n ELSE 0]
     IN  \/ /\ n < MaxInputs \/ input \in inputs
            /\ inputs' = inputs \union {input}
            /\ running' = IF input \in inputs \/ (s \in LetsCode /\ row[s] # "live")
                          THEN running ELSE running \union {k}
            /\ At(c, "status")
            /\ late' = IF \E d \in Calls : calls[d].sid = s /\ calls[d].at = "stopping"
                       THEN late \union {s} ELSE late
            /\ UNCHANGED <<stored, states>>
         \/ /\ Ended(c)
            /\ IF s \in LetsCode /\ calls[c].created
               THEN Archive(s) ELSE UNCHANGED <<stored, states, late>>
            /\ UNCHANGED <<inputs, running>>
  /\ UNCHANGED <<marked, up, creating, aborts, restarts>>

(* The submission's status; the row is touched.                             *)
Answered(c) ==
  /\ calls[c].at = "status"
  /\ Ended(c)
  /\ states' = IF conv[calls[c].sid] \in running THEN states \union {calls[c].sid} ELSE states
  /\ UNCHANGED <<stored, runs, up, creating, aborts, late, restarts>>

-----------------------------------------------------------------------------
(* Ends of runs and sessions.                                               *)

RunEnds(k) ==
  /\ k \in running \ marked /\ up = "ready"
  /\ running' = running \ {k}
  /\ UNCHANGED <<stored, inputs, marked, memory, calls, late, restarts>>

(* The watcher's frames and stateOf keep the state of a session that is     *)
(* there.                                                                   *)
Noticed(s) ==
  /\ up = "ready" /\ row[s] = "live" /\ (s \in states) # (conv[s] \in running)
  /\ states' = IF s \in states THEN states \ {s} ELSE states \union {s}
  /\ UNCHANGED <<stored, runs, up, creating, aborts, calls, late, restarts>>

(* interrupt                                                                *)
Interrupt(s) ==
  /\ row[s] = "live" /\ conv[s] \in running /\ up # "opening"
  /\ aborts' = aborts \union {conv[s]}
  /\ UNCHANGED <<stored, runs, up, states, creating, calls, late, restarts>>

Aborted(k) ==
  /\ k \in aborts \union marked /\ up # "opening"
  /\ running' = running \ {k} /\ marked' = marked \ {k} /\ aborts' = aborts \ {k}
  /\ UNCHANGED <<stored, inputs, up, states, creating, calls, late, restarts>>

(* Slip: what is forgotten is not aborted.                                  *)
ForgetOnly(s) ==
  /\ row[s] = "live" /\ up # "opening"
  /\ Archive(s) /\ UNCHANGED <<runs, up, creating, aborts, calls, restarts>>

ForgetSession(s) ==
  /\ row[s] = "live" /\ up # "opening"
  /\ aborts' = IF conv[s] # 0 /\ (s \in states \/ s \in LetsCode)
               THEN aborts \union {conv[s]} ELSE aborts
  /\ Archive(s)
  /\ UNCHANGED <<runs, up, creating, calls, restarts>>

(* stopSession: abort, wait at most two seconds for idle, archive.          *)
Stop(c, s) ==
  /\ "stop" \in Kinds /\ calls[c] = Idle /\ row[s] = "live" /\ up # "opening"
  /\ calls' = [calls EXCEPT ![c] = [Idle EXCEPT !.at = "stopping", !.sid = s]]
  /\ aborts' = IF conv[s] \in running THEN aborts \union {conv[s]} ELSE aborts
  /\ UNCHANGED <<stored, runs, up, states, creating, late, restarts>>

(* Slip: it waits for idle however long that takes.                         *)
StopWaits(c) ==
  /\ calls[c].at = "stopping" /\ conv[calls[c].sid] \notin running
  /\ Archive(calls[c].sid)
  /\ Ended(c)
  /\ UNCHANGED <<runs, up, creating, aborts, restarts>>

(* The abort has landed.  What started since is not aborted.                *)
StopEnds(c) ==
  /\ calls[c].at = "stopping" /\ conv[calls[c].sid] \notin aborts
  /\ Archive(calls[c].sid)
  /\ Ended(c)
  /\ UNCHANGED <<runs, up, creating, aborts, restarts>>

-----------------------------------------------------------------------------
(* Restarts.                                                                *)

Restart ==
  /\ restarts < MaxRestarts
  /\ restarts' = restarts + 1
  /\ up' = "opening" /\ states' = {} /\ aborts' = {}
  /\ creating' = [s \in Sids |-> {}]
  /\ calls' = [c \in Calls |-> Idle] /\ late' = {}
  /\ UNCHANGED <<stored, runs>>

(* Slip: only rows not seen for a week are stale, archived ones are not.    *)
InspectRows ==
  /\ up = "opening" /\ up' = "resuming"
  /\ \E old \in SUBSET Sids :
       /\ states' = {s \in Sids \ old : conv[s] \in running}
       /\ marked' = {k \in running : \E s \in old : conv[s] = k}
  /\ UNCHANGED <<stored, inputs, running, creating, aborts, calls, late, restarts>>

(* Before anything runs: the run of a live row seen in the last week is to  *)
(* be resumed, every other one is marked aborted; then the harness resumes. *)
Inspect ==
  /\ up = "opening" /\ up' = "resuming"
  /\ \E old \in SUBSET Sids :
       LET kept == {s \in Sids \ old : row[s] = "live" /\ conv[s] \in running}
       IN  states' = kept /\ marked' = running \ {conv[s] : s \in kept}
  /\ UNCHANGED <<stored, inputs, running, creating, aborts, calls, late, restarts>>

(* The aborted conversations are idle.                                      *)
Ready ==
  /\ up = "resuming" /\ marked = {}
  /\ up' = "ready"
  /\ UNCHANGED <<stored, runs, states, creating, aborts, calls, late, restarts>>

-----------------------------------------------------------------------------
Prompting(c) ==
  \/ Admitted(c) \/ EnsureConversation(c) \/ Attach(c) \/ Submit(c) \/ Answered(c)

Next ==
  \/ \E c \in Calls : Prompting(c) \/ StopEnds(c)
  \/ \E c \in Calls, r \in Requests : Start(c, r)
  \/ \E c \in Calls, s \in Sids : Prompt(c, s) \/ Stop(c, s)
  \/ \E s \in Sids : Made(s) \/ CreatingEnds(s) \/ Noticed(s) \/ Interrupt(s) \/ ForgetSession(s)
  \/ \E k \in 1 .. MaxConvs : RunEnds(k) \/ Aborted(k)
  \/ Restart \/ Inspect \/ Ready

Spec == Init /\ [][Next]_vars

(* Calls to the store and to pi-durable resolve; a start-up goes on.        *)
FairSpec ==
  /\ Spec
  /\ \A c \in Calls : WF_vars(Prompting(c) \/ StopEnds(c))
  /\ \A s \in Sids : WF_vars(CreatingEnds(s))
  /\ \A k \in 1 .. MaxConvs : WF_vars(Aborted(k))
  /\ WF_vars(Inspect) /\ WF_vars(Ready)

-----------------------------------------------------------------------------
(* The tables, the harness and the calls stay within their types.           *)
TypeOK ==
  /\ row \in [Sids -> {"none", "live", "archived"}] /\ conv \in [Sids -> 0 .. MaxConvs]
  /\ request \in [Requests -> Sids \union {None}] /\ convs \in 0 .. MaxConvs
  /\ running \subseteq 1 .. convs /\ marked \subseteq running
  /\ up \in {"opening", "resuming", "ready"} /\ states \subseteq Sids
  /\ creating \in [Sids -> SUBSET (0 .. MaxConvs)] /\ aborts \subseteq 1 .. convs
  /\ calls \in [Calls -> [at : {"idle", "admit", "ensure", "creating", "attach", "submit",
                                "status", "stopping"},
                          sid : Sids \union {None}, req : Requests \union {None},
                          created : BOOLEAN]]
  /\ late \subseteq Sids

(* "a retried prompt with the same requestId (HTTP retry, bridge restart)   *)
(* finds it instead of starting a second agent" (sessions.mjs:59): whatever *)
(* calls overlap, fail or are cut off, a requestId creates one session and  *)
(* one input, in that session's conversation, which never changes.          *)
OncePerRequest ==
  /\ \A i, j \in inputs : i.req = j.req /\ i.req \in Requests => i = j
  /\ \A i \in inputs : \E s \in Sids : conv[s] = i.conv
  /\ Cardinality({s \in Sids : row[s] # "none"}) <= Cardinality(Requests)

(* No run goes on in a session that is archived, where nobody can see or    *)
(* stop it: it is being aborted, unless a prompt was past its check of the  *)
(* row when it was archived.  What a restart finds there is aborted too.    *)
ArchivedRunsEnd ==
  \A s \in Sids :
    row[s] = "archived" /\ conv[s] \in running =>
      conv[s] \in aborts \union marked \/ s \in late \/ up = "opening"

(* A call waits for its answer, or the bridge is opening its sessions; that *)
(* every call is answered and the bridge becomes ready says that neither    *)
(* lasts for ever (MCEnds).                                                 *)
Waits(c) == calls[c].at # "idle"
Opening == up # "ready"

===============================================================================
