------------------------------- MODULE Routing -------------------------------
(***************************************************************************)
(* Which provider a request is given to (ext-router.mjs ownProvider and the *)
(* routes; ownership.mjs): the phone names no provider, so a request goes by *)
(* the session's claim, else by the providers' probes in turn, else to the  *)
(* official router.  Claims never expire; what the Remote Control provider  *)
(* knows does (claude-remote.mjs).  One session id: claims are kept apart.  *)
(***************************************************************************)
EXTENDS Naturals

CONSTANTS Requests,  (* requests of the phone for one session                *)
          MaxMoves   (* bound on what happens to the session and the bridge  *)

None == "none"
Local == {"pi", "durable", "cc-local"}     (* probed on this machine *)

VARIABLES
  home,       (* whose session it is; "official": none of the extensions'    *)
  there,      (* it exists: it may be deleted or archived                    *)
  reachable,  (* the upstream of Remote Control answers                      *)
  claim,      (* ownership.mjs: the registry's entry                         *)
  known,      (* claude-remote: an entry that has not expired                *)
  pump,       (* claude-remote: a relay runs                                 *)
  call,       (* each request: its step, kind, who answered it, how, and     *)
              (* whether the session existed and could be reached then       *)
  moves

session == <<home, there, reachable, moves>>
registry == <<claim, known, pump>>
rtVars == <<session, registry, call>>

New == [at |-> "new", kind |-> None, by |-> None, answer |-> None, had |-> FALSE]

Init ==
  /\ home \in Local \cup {"claude-remote", "official"}
  /\ there = TRUE /\ reachable \in BOOLEAN
  /\ claim = None /\ known = FALSE /\ pump = FALSE
  /\ call = [r \in Requests |-> New] /\ moves = 0

-----------------------------------------------------------------------------
Upstream == home = "claude-remote" /\ there

NoteKnown == claim' = "claude-remote" /\ known' = TRUE
Forget == claim' = None /\ known' = FALSE

GivenTo(r, p) == call' = [call EXCEPT ![r].at = p]

(* ownProvider: a claim decides; the first probe is the upstream's.         *)
Arrive(r, kind) ==
  /\ call[r].at = "new"
  /\ call' = [call EXCEPT ![r].kind = kind,
                          ![r].at = IF claim # None THEN claim ELSE IF known THEN "claude-remote" ELSE "probing"]
  /\ UNCHANGED <<session, registry>>

(* GET /api/status at the upstream.                                         *)
UpstreamSays(r) ==
  /\ call[r].at = "probing"
  /\ GivenTo(r, IF ~reachable THEN "failed" ELSE IF Upstream THEN "found" ELSE "missing")
  /\ UNCHANGED <<session, registry>>

(* pi and durable claim what they find; cc-local does not.                  *)
LocalOwner == IF home \in Local /\ there THEN home ELSE "official"
LocalClaim(old) == claim' = IF LocalOwner \in {"pi", "durable"} THEN home ELSE old

(* Slip: an upstream that is down breaks the routing.                       *)
ProbeBreaks(r) ==
  \/ call[r].at = "found" /\ NoteKnown /\ GivenTo(r, "claude-remote")
  \/ call[r].at = "missing" /\ known' = FALSE /\ LocalClaim(None) /\ GivenTo(r, LocalOwner)
  \/ call[r].at = "failed" /\ GivenTo(r, "official") /\ UNCHANGED <<known, claim>>

(* The probe's answer, and the other providers' probes.                     *)
Probe(r) ==
  \/ call[r].at = "found" /\ NoteKnown /\ GivenTo(r, "claude-remote")
  \/ call[r].at = "missing" /\ known' = FALSE /\ LocalClaim(None) /\ GivenTo(r, LocalOwner)
  \/ call[r].at = "failed" /\ UNCHANGED known /\ LocalClaim(claim) /\ GivenTo(r, LocalOwner)

Probed(r) == Probe(r) /\ UNCHANGED <<session, pump>>

-----------------------------------------------------------------------------
(* The provider it was given to.                                            *)
Answered(r, by, answer) ==
  call' = [call EXCEPT ![r] = [at |-> "done", kind |-> @.kind, by |-> by, answer |-> answer,
                               had |-> there /\ (home = "claude-remote" => reachable)]]

UpstreamAnswer == IF ~reachable THEN "500" ELSE IF Upstream THEN "ok" ELSE "404"

(* A prompt makes the session known again; the answers, interrupts and      *)
(* status go by what is known without asking; a stream or a list of         *)
(* messages starts the relay when it is known.                              *)
ServeRemote(r) ==
  /\ call[r].at = "claude-remote"
  /\ \/ /\ call[r].kind = "prompt" /\ Answered(r, "claude-remote", UpstreamAnswer)
        /\ IF UpstreamAnswer = "ok" THEN NoteKnown /\ pump' = TRUE ELSE UNCHANGED registry
     \/ /\ call[r].kind = "respond" /\ UNCHANGED registry
        /\ Answered(r, "claude-remote", IF known THEN UpstreamAnswer ELSE "404")
     \/ /\ call[r].kind = "status" /\ UNCHANGED registry
        /\ Answered(r, "claude-remote", IF known THEN "ok" ELSE "404")
     \/ /\ call[r].kind = "stream" /\ pump' = (pump \/ known) /\ UNCHANGED <<claim, known>>
        /\ Answered(r, "claude-remote", "ok")
  /\ UNCHANGED session

(* cc-local's prompts and answers may be the official pipeline's; cc-local  *)
(* claims a session whose transcript it seeds, pi one that it lists.        *)
ServeLocal(r) ==
  /\ call[r].at \in Local
  /\ Answered(r, call[r].at, IF there THEN "ok" ELSE "404")
  /\ claim' = IF there THEN call[r].at ELSE claim
  /\ UNCHANGED <<session, known, pump>>

PassThrough(r) ==
  /\ call[r].at = "cc-local" /\ there /\ call[r].kind \in {"prompt", "respond"}
  /\ Answered(r, "cc-local", "passed")
  /\ UNCHANGED <<session, registry>>

ServeOfficial(r) ==
  /\ call[r].at = "official" /\ Answered(r, "official", "passed")
  /\ UNCHANGED <<session, registry>>

-----------------------------------------------------------------------------
(* GET /sessions: what the upstream lists is known.                         *)
List ==
  /\ reachable /\ Upstream /\ NoteKnown
  /\ UNCHANGED <<session, pump, call>>

(* The relay of a session nobody listens to asks for its state, and ends    *)
(* when it is idle.                                                         *)
PumpLooks ==
  /\ pump
  /\ IF ~reachable THEN UNCHANGED <<claim, known>> ELSE IF Upstream THEN NoteKnown ELSE Forget
  /\ pump' \in (IF reachable /\ Upstream THEN BOOLEAN ELSE {FALSE})
  /\ UNCHANGED <<session, call>>

(* OWNERSHIP_TTL_MS.                                                        *)
Expires == known /\ known' = FALSE /\ UNCHANGED <<session, claim, pump, call>>

Move == moves < MaxMoves /\ moves' = moves + 1

(* Deleted upstream, archived, or its file removed; a durable session is    *)
(* forgotten with it.                                                       *)
Goes ==
  /\ Move /\ there /\ there' = FALSE
  /\ claim' = IF home = "durable" THEN None ELSE claim
  /\ UNCHANGED <<home, reachable, known, pump, call>>

UpstreamChanges ==
  /\ Move /\ reachable' = ~reachable
  /\ UNCHANGED <<home, there, registry, call>>

Restart ==
  /\ Move /\ claim' = None /\ known' = FALSE /\ pump' = FALSE
  /\ call' = [r \in Requests |-> IF call[r].at = "done" THEN call[r] ELSE New]
  /\ UNCHANGED <<home, there, reachable>>

Next ==
  \/ \E r \in Requests :
       \/ \E kind \in {"prompt", "respond", "status", "stream"} : Arrive(r, kind)
       \/ UpstreamSays(r) \/ Probed(r)
       \/ ServeRemote(r) \/ ServeLocal(r) \/ PassThrough(r) \/ ServeOfficial(r)
  \/ List \/ PumpLooks \/ Expires \/ Goes \/ UpstreamChanges \/ Restart

Spec == Init /\ [][Next]_rtVars

-----------------------------------------------------------------------------
TypeOK ==
  /\ claim \in Local \cup {"claude-remote", None} /\ there \in BOOLEAN /\ known \in BOOLEAN
  /\ \A r \in Requests : call[r].at \in Local \cup {"new", "probing", "found", "missing", "failed", "claude-remote", "official", "done"}

(* Whatever was claimed, forgotten or restarted meanwhile, and also while   *)
(* the upstream is down, a request reaches the session's own provider: one  *)
(* for a session of this machine is never left to the official router, and  *)
(* none is served by a provider that never had the session.                 *)
ToItsOwner ==
  \A r \in Requests : call[r].at = "done" =>
    /\ call[r].by \in {home, "official"}
    /\ home \in Local /\ there => call[r].by = home

(* "the async probe path covers unknown ids in the extension router before  *)
(* this is called" (claude-remote.mjs:268-269): a session the upstream has  *)
(* is not answered 404.                                                     *)
ProbedBefore ==
  \A r \in Requests : call[r].by = "claude-remote" /\ call[r].answer = "404" => ~call[r].had
=============================================================================
