---------------------------- MODULE Routing_proofs ----------------------------
(***************************************************************************)
(* Requests reach the provider that has the session, for any number of      *)
(* requests and whatever is claimed, forgotten, probed or restarted; those  *)
(* for GET /api/info are served from the cache, which one call fills at a   *)
(* time, and once there is a value none waits and none gets the fallback.   *)
(* What they reach: one pi child lives on a conversation, and its dialogs   *)
(* can be answered; what is typed into a terminal is read by the program it *)
(* is for, apart from what else is typed.                                   *)
(***************************************************************************)
EXTENDS Routing, Sequences, FiniteSetTheorems, TLAPS

CONSTANT MaxRead
VARIABLES value, stale, reading, reads, inflight, req
Info == INSTANCE InfoCache

(* A claim is only ever the owner's, and what is known is the upstream's.   *)
Claimed == claim \in {None, home} /\ (home = "official" => claim = None)
Known == known => home = "claude-remote"

(* Where a request may be: with a provider that has, or had, the session,   *)
(* or with the official router when no provider of this machine has it.     *)
Placed(r) ==
  /\ call[r].at \in {"new", "probing", "found", "missing", "failed", "done", "official", home}
  /\ call[r].at = "found" => home = "claude-remote"
  /\ call[r].at = "official" => ~(home \in Local /\ there)
  /\ call[r].at = "done" => /\ call[r].by \in {home, "official"}
                            /\ home \in Local /\ there => call[r].by = home
Inv ==
  /\ home \in Local \cup {"claude-remote", "official"} /\ there \in BOOLEAN
  /\ DOMAIN call = Requests /\ \A r \in Requests : DOMAIN call[r] = {"at", "kind", "by", "answer", "had"}
  /\ Claimed /\ Known
  /\ \A r \in Requests : Placed(r)

USE DEF None, Local

LEMMA InitInv == Init => Inv
  BY DEF Init, Inv, Claimed, Known, Placed, New

(* A step of one request, to a place it may be.                             *)
LEMMA Moved ==
  ASSUME Inv, NEW r \in Requests, home' = home, there' = there,
         NEW new, DOMAIN new = {"at", "kind", "by", "answer", "had"},
         call' = [call EXCEPT ![r] = new], Placed(r)', Claimed', Known'
  PROVE  Inv'
  BY DEF Inv, Placed

LEMMA ArriveInv ==
  ASSUME Inv, NEW r \in Requests, NEW kind, Arrive(r, kind)
  PROVE  Inv'
<1> DEFINE new == [call[r] EXCEPT !.kind = kind,
                     !.at = IF claim # None THEN claim ELSE IF known THEN "claude-remote" ELSE "probing"]
<1>1. call' = [call EXCEPT ![r] = new] /\ call'[r] = new /\ DOMAIN new = DOMAIN call[r]
  BY DEF Arrive, Inv
<1>2. new.at \in {"probing", home} /\ (new.at = "official" => FALSE)
  BY DEF Inv, Claimed, Known
<1>3. home' = home /\ there' = there /\ Claimed' /\ Known'
  BY DEF Arrive, session, registry, Inv, Claimed, Known
<1>4. Placed(r)'
  BY <1>1, <1>2, <1>3 DEF Placed, Inv
<1> QED BY <1>1, <1>3, <1>4, Moved DEF Inv

LEMMA UpstreamSaysInv ==
  ASSUME Inv, NEW r \in Requests, UpstreamSays(r)
  PROVE  Inv'
<1> DEFINE new == [call[r] EXCEPT !.at =
                     IF ~reachable THEN "failed" ELSE IF Upstream THEN "found" ELSE "missing"]
<1>1. call' = [call EXCEPT ![r] = new] /\ call'[r] = new /\ DOMAIN new = DOMAIN call[r]
  BY DEF UpstreamSays, GivenTo, Inv
<1>2. new.at \in {"failed", "missing", "found"} /\ (new.at = "found" => home = "claude-remote")
  BY DEF Inv, Upstream
<1>3. home' = home /\ there' = there /\ Claimed' /\ Known'
  BY DEF UpstreamSays, session, registry, Inv, Claimed, Known
<1>4. Placed(r)'
  BY <1>1, <1>2, <1>3 DEF Placed, Inv
<1> QED BY <1>1, <1>3, <1>4, Moved DEF Inv

LEMMA ProbedInv ==
  ASSUME Inv, NEW r \in Requests, Probed(r)
  PROVE  Inv'
<1> DEFINE given == IF call[r].at = "found" THEN "claude-remote" ELSE LocalOwner
           new == [call[r] EXCEPT !.at = given]
<1>1. call' = [call EXCEPT ![r] = new] /\ call'[r] = new /\ DOMAIN new = DOMAIN call[r]
  BY DEF Probed, Probe, GivenTo, Inv
<1>2. given \in {"official", home} /\ (given = "official" => ~(home \in Local /\ there))
  BY DEF Probed, Probe, Inv, Placed, LocalOwner
<1>3. home' = home /\ there' = there
  BY DEF Probed, session
<1>4. Claimed' /\ Known'
  BY <1>3 DEF Probed, Probe, NoteKnown, LocalClaim, LocalOwner, Inv, Claimed, Known, Placed
<1>5. Placed(r)'
  BY <1>1, <1>2, <1>3 DEF Placed, Inv
<1> QED BY <1>1, <1>3, <1>4, <1>5, Moved DEF Inv

(* A provider answers: it has the session, or none of this machine has.     *)
LEMMA AnsweredInv ==
  ASSUME Inv, NEW r \in Requests, NEW by, NEW answer, Answered(r, by, answer),
         call[r].at = by, by \in {home, "official"},
         UNCHANGED session, Claimed', Known'
  PROVE  Inv'
<1> DEFINE new == [at |-> "done", kind |-> call[r].kind, by |-> by, answer |-> answer,
                   had |-> there /\ (home = "claude-remote" => reachable)]
<1>1. call' = [call EXCEPT ![r] = new] /\ call'[r] = new
  BY DEF Answered, Inv
<1>2. DOMAIN new = {"at", "kind", "by", "answer", "had"}
  OBVIOUS
<1>3. home' = home /\ there' = there
  BY DEF session
<1>4. home \in Local /\ there => by = home
  BY DEF Inv, Placed
<1>5. new.at = "done" /\ new.by = by
  OBVIOUS
<1>6. Placed(r)'
  BY <1>1, <1>3, <1>4, <1>5 DEF Placed, Inv
<1> QED BY <1>1, <1>2, <1>3, <1>6, Moved DEF Inv

LEMMA ServeRemoteInv ==
  ASSUME Inv, NEW r \in Requests, ServeRemote(r)
  PROVE  Inv'
<1>1. home = "claude-remote" /\ home' = home
  BY DEF ServeRemote, Inv, Placed, session
<1>2. Claimed' /\ Known'
  BY <1>1 DEF ServeRemote, NoteKnown, registry, Inv, Claimed, Known
<1>3. PICK answer : Answered(r, "claude-remote", answer)
  BY DEF ServeRemote
<1> QED BY <1>1, <1>2, <1>3, AnsweredInv DEF ServeRemote

LEMMA ServeLocalInv ==
  ASSUME Inv, NEW r \in Requests, ServeLocal(r)
  PROVE  Inv'
<1>1. call[r].at = home /\ home \in Local /\ home' = home
  BY DEF ServeLocal, Inv, Placed, session
<1>2. Claimed' /\ Known'
  BY <1>1 DEF ServeLocal, session, Inv, Claimed, Known
<1>3. PICK answer : Answered(r, call[r].at, answer)
  BY DEF ServeLocal
<1> QED BY <1>1, <1>2, <1>3, AnsweredInv DEF ServeLocal

LEMMA PassThroughInv ==
  ASSUME Inv, NEW r \in Requests, PassThrough(r)
  PROVE  Inv'
<1>1. home = "cc-local"
  BY DEF PassThrough, Inv, Placed
<1>2. Claimed' /\ Known'
  BY DEF PassThrough, session, registry, Inv, Claimed, Known
<1> QED BY <1>1, <1>2, AnsweredInv DEF PassThrough

LEMMA ServeOfficialInv ==
  ASSUME Inv, NEW r \in Requests, ServeOfficial(r)
  PROVE  Inv'
<1>1. Claimed' /\ Known'
  BY DEF ServeOfficial, session, registry, Inv, Claimed, Known
<1> QED BY <1>1, AnsweredInv DEF ServeOfficial

(* What happens to the session and the bridge: the session may go, and a    *)
(* claim or what is known may be forgotten.                                 *)
LEMMA AroundInv ==
  ASSUME Inv, List \/ PumpLooks \/ Expires \/ Goes \/ UpstreamChanges
  PROVE  Inv'
<1>1. home' = home /\ (there' = there \/ there' = FALSE) /\ call' = call
  BY DEF List, PumpLooks, Expires, Goes, UpstreamChanges, session
<1>2. Claimed'
  BY <1>1 DEF List, PumpLooks, Expires, Goes, UpstreamChanges, registry, NoteKnown, Forget,
              Upstream, Inv, Claimed, Known
<1>3. Known'
  BY <1>1 DEF List, PumpLooks, Expires, Goes, UpstreamChanges, registry, NoteKnown, Forget,
              Upstream, Inv, Known
<1>4. there' \in BOOLEAN
  BY <1>1 DEF Inv
<1>5. ASSUME NEW r \in Requests PROVE Placed(r)'
  BY <1>1 DEF Inv, Placed
<1> QED BY <1>1, <1>2, <1>3, <1>4, <1>5 DEF Inv

LEMMA RestartInv ==
  ASSUME Inv, Restart
  PROVE  Inv'
<1>1. home' = home /\ there' = there /\ Claimed' /\ Known'
  BY DEF Restart, Inv, Claimed, Known
<1>2. DOMAIN call' = Requests
  BY DEF Restart
<1>3. ASSUME NEW r \in Requests
      PROVE  Placed(r)' /\ DOMAIN call'[r] = {"at", "kind", "by", "answer", "had"}
  <2>1. CASE call[r].at = "done"
    BY <1>1, <2>1 DEF Restart, Inv, Placed
  <2>2. CASE call[r].at # "done"
    BY <1>1, <2>2 DEF Restart, Inv, Placed, New
  <2> QED BY <2>1, <2>2
<1> QED BY <1>1, <1>2, <1>3 DEF Inv

LEMMA NextInv == Inv /\ [Next]_rtVars => Inv'
<1> SUFFICES ASSUME Inv, [Next]_rtVars PROVE Inv'
  OBVIOUS
<1>1. CASE UNCHANGED rtVars
  BY <1>1 DEF rtVars, session, registry, Inv, Claimed, Known, Placed
<1>2. CASE Next
  <2>1. ASSUME NEW r \in Requests, NEW kind, Arrive(r, kind) PROVE Inv'
    BY <2>1, ArriveInv
  <2>2. ASSUME NEW r \in Requests, UpstreamSays(r) \/ Probed(r) PROVE Inv'
    BY <2>2, UpstreamSaysInv, ProbedInv
  <2>3. ASSUME NEW r \in Requests, ServeRemote(r) \/ ServeLocal(r) PROVE Inv'
    BY <2>3, ServeRemoteInv, ServeLocalInv
  <2>4. ASSUME NEW r \in Requests, PassThrough(r) \/ ServeOfficial(r) PROVE Inv'
    BY <2>4, PassThroughInv, ServeOfficialInv
  <2> QED BY <1>2, <2>1, <2>2, <2>3, <2>4, AroundInv, RestartInv DEF Next
<1> QED BY <1>1, <1>2

(* Whatever is claimed, forgotten, deleted or restarted between the steps   *)
(* of a request (ext-router.mjs ownProvider), the one answered for a        *)
(* session of this machine was answered by the session's own provider.      *)
THEOREM RoutedHome == Spec => []ToItsOwner
<1>1. Inv => ToItsOwner
  BY DEF Inv, Placed, ToItsOwner
<1> QED BY InitInv, NextInv, <1>1, PTL DEF Spec

-----------------------------------------------------------------------------
(* The info cache.                                                           *)

(* The running refresh awaits the one running call.                         *)
Single == reading = IF inflight = 0 THEN {} ELSE {inflight}
CacheTypes ==
  /\ value \in Nat /\ inflight \in Nat /\ reads \in Nat
  /\ req \in [Requests -> [at : {"new", "waits", "done"}, answer : Nat]]
CacheInv == CacheTypes /\ Single

LEMMA CacheInitInv == Info!Init => CacheInv
  BY DEF Info!Init, CacheInv, CacheTypes, Single

(* A refresh starts a call only when none runs.                             *)
LEMMA RefreshInv ==
  ASSUME CacheInv, Info!Refresh
  PROVE  /\ inflight' \in Nat /\ reads' \in Nat /\ Single'
  BY DEF CacheInv, CacheTypes, Single, Info!Refresh

LEMMA BecomesTypes ==
  ASSUME CacheTypes, NEW r \in Requests, NEW at \in {"new", "waits", "done"},
         NEW answer \in Nat, Info!Becomes(r, at, answer)
  PROVE  /\ req' \in [Requests -> [at : {"new", "waits", "done"}, answer : Nat]]
         /\ req'[r] = [at |-> at, answer |-> answer]
         /\ \A q \in Requests \ {r} : req'[q] = req[q]
  BY DEF CacheTypes, Info!Becomes

LEMMA CacheStepInv == CacheInv /\ [Info!Next]_(Info!icVars) => CacheInv'
<1> SUFFICES ASSUME CacheInv, [Info!Next]_(Info!icVars) PROVE CacheInv'
  OBVIOUS
<1>1. CASE Info!Prime
  BY <1>1, RefreshInv DEF Info!Prime, CacheInv, CacheTypes
<1>2. CASE Info!Ages
  BY <1>2 DEF Info!Ages, CacheInv, CacheTypes, Single
<1>3. ASSUME NEW r \in Requests, Info!Get(r) PROVE CacheInv'
  <2>1. CASE value # 0
    BY <1>3, <2>1, RefreshInv, BecomesTypes DEF Info!Get, Info!Answer, CacheInv, CacheTypes, Single
  <2>2. CASE value = 0
    BY <1>3, <2>2, RefreshInv, BecomesTypes DEF Info!Get, Info!Answer, CacheInv, CacheTypes
  <2> QED BY <2>1, <2>2
<1>4. ASSUME NEW r \in Requests, Info!Waited(r) PROVE CacheInv'
  BY <1>4, BecomesTypes DEF Info!Waited, CacheInv, CacheTypes, Single
<1>5. ASSUME NEW n \in 1..MaxRead, Info!Ends(n) PROVE CacheInv'
  BY <1>5 DEF Info!Ends, Info!Fails, CacheInv, CacheTypes, Single
<1>6. CASE UNCHANGED Info!icVars
  BY <1>6 DEF Info!icVars, CacheInv, CacheTypes, Single
<1> QED BY <1>1, <1>2, <1>3, <1>4, <1>5, <1>6 DEF Info!Next

LEMMA CacheAlwaysInv == Info!Spec => []CacheInv
  BY CacheInitInv, CacheStepInv, PTL DEF Info!Spec

(* The cache's own FiniteSets counts alike.                                 *)
LEMMA SameCount == \A S : Info!Cardinality(S) = Cardinality(S)
  BY DEF Cardinality, Info!Cardinality

(* One getInfo() runs at most, for any number of requests and calls.        *)
THEOREM RefreshedOnce == Info!Spec => []Info!OneRefresh
<1>1. CacheInv => Info!OneRefresh
  <2> SUFFICES ASSUME CacheInv PROVE Info!OneRefresh
    OBVIOUS
  <2>1. CASE inflight = 0
    <3>1. reading = {}
      BY <2>1 DEF CacheInv, Single
    <3>2. Cardinality(reading) = 0
      BY <3>1, FS_EmptySet
    <3>3. Info!Cardinality(reading) <= 1
      BY <3>2, SameCount
    <3> QED BY <3>1, <3>3 DEF Info!OneRefresh
  <2>2. CASE inflight # 0
    <3>1. reading = {inflight}
      BY <2>2 DEF CacheInv, Single
    <3>2. Cardinality(reading) = 1
      BY <3>1, FS_Singleton
    <3>3. Info!Cardinality(reading) <= 1
      BY <3>2, SameCount
    <3> QED BY <3>1, <3>3 DEF Info!OneRefresh
  <2> QED BY <2>1, <2>2
<1> QED BY <1>1, CacheAlwaysInv, PTL

(* A step with a value in the cache keeps one, answers with it, and leaves  *)
(* no request waiting.                                                      *)
LEMMA ServedStep == CacheInv /\ [Info!Next]_(Info!icVars) => [Info!ValueStep]_(Info!icVars) /\ [Info!NoWait]_(Info!icVars)
<1> SUFFICES ASSUME CacheInv, Info!Next, value # 0 PROVE Info!ValueStep /\ Info!NoWait
  BY DEF Info!ValueStep, Info!NoWait, Info!icVars
<1>1. CASE Info!Prime \/ Info!Ages
  BY <1>1 DEF Info!Prime, Info!Ages, Info!ValueStep, Info!NoWait
<1>2. ASSUME NEW r \in Requests, Info!Get(r) \/ Info!Waited(r) PROVE Info!ValueStep /\ Info!NoWait
  <2>1. Info!Becomes(r, "done", value) /\ value' = value /\ value \in Nat /\ CacheTypes
    BY <1>2 DEF Info!Get, Info!Answer, Info!Waited, CacheInv, CacheTypes
  <2>2. req'[r] = [at |-> "done", answer |-> value]
    BY <2>1, BecomesTypes, "done" \in {"new", "waits", "done"}
  <2>3. \A q \in Requests \ {r} : req'[q] = req[q]
    BY <2>1, BecomesTypes, "done" \in {"new", "waits", "done"}
  <2> QED BY <2>1, <2>2, <2>3 DEF Info!ValueStep, Info!NoWait
<1>3. ASSUME NEW n \in 1..MaxRead, Info!Ends(n) PROVE Info!ValueStep /\ Info!NoWait
  BY <1>3 DEF Info!Ends, Info!Fails, Info!ValueStep, Info!NoWait, CacheInv, CacheTypes
<1> QED BY <1>1, <1>2, <1>3 DEF Info!Next

(* Once a value was read, every request is answered with one, in the step   *)
(* that asks, whatever fails, hangs or ages.                                *)
THEOREM AlwaysServed == Info!Spec => Info!ValueStays /\ Info!NeverWaits
  BY CacheAlwaysInv, ServedStep, PTL DEF Info!Spec, Info!ValueStays, Info!NeverWaits
-----------------------------------------------------------------------------
(* The child of a pi conversation.                                           *)

CONSTANTS Calls, MaxSpawns, MaxDialogs, MaxLag, Happens
VARIABLES terminal, live, proc, busy, agent, asks, lines, pending, piCall, shown, dialogs
Pi == INSTANCE PiSessions WITH call <- piCall

(* What the code leaves open is kept apart: a prompt or an exit during      *)
(* another prompt's step, and a child that does not tell its id in time.    *)
PiOrderly == MaxSpawns \in Nat /\ "race" \notin Happens /\ "slow" \notin Happens

(* Its own FiniteSets counts alike, too.                                    *)
LEMMA SamePiCount == \A S : Pi!Cardinality(S) = Cardinality(S)
  BY DEF Cardinality, Pi!Cardinality

PiTypes ==
  /\ live \in 0 .. MaxSpawns
  /\ proc \in [Pi!Children -> {Pi!None, "starting", "up", "stopping", "gone"}]
  /\ piCall \in [Calls -> [at : {"idle", "probe", "drop", "start"}, child : 0 .. MaxSpawns]]

Under(c) == piCall[c].at # "idle"

(* Who lives is registered or being started, and who is registered is up or *)
(* being stopped by the one prompt under way.                               *)
Registered ==
  /\ \A s \in Pi!Living : s = live \/ \E c \in Calls : piCall[c].at = "start" /\ piCall[c].child = s
  /\ live # 0 => proc[live] \in {"up", "stopping"}
  /\ \A s \in Pi!Children : proc[s] = "stopping" =>
       s = live /\ \E c \in Calls : piCall[c].at = "drop" /\ piCall[c].child = s

(* What a prompt under way knows of its child.                              *)
Knows(c) ==
  /\ piCall[c].at = "probe" => /\ piCall[c].child = live
                               /\ live # 0 => proc[live] = "up"
  /\ piCall[c].at = "start" => live = 0 /\ piCall[c].child # 0 /\ proc[piCall[c].child] = "starting"
  /\ piCall[c].at = "drop" => /\ piCall[c].child # 0
                              /\ \/ piCall[c].child = live /\ proc[live] = "stopping"
                                 \/ live = 0 /\ proc[piCall[c].child] = "gone"

PiInv ==
  /\ PiTypes /\ Registered
  /\ \A c, d \in Calls : Under(c) /\ Under(d) => c = d
  /\ \A c \in Calls : Knows(c)

LEMMA PiInitInv == ASSUME PiOrderly PROVE Pi!Init => PiInv
  BY DEF PiOrderly, Pi!Init, PiInv, PiTypes, Registered, Under, Knows, Pi!Idle, Pi!Living, Pi!Children, Pi!None

(* A step that leaves the children and the prompts alone.                   *)
LEMMA PiApart == ASSUME PiInv, UNCHANGED <<live, proc, piCall>> PROVE PiInv'
  BY DEF PiInv, PiTypes, Registered, Under, Knows, Pi!Living, Pi!Children

LEMMA PiPrompt == ASSUME PiOrderly, PiInv, NEW c \in Calls, Pi!Prompt(c) PROVE PiInv'
<1>1. /\ \A d \in Calls : ~Under(d)
      /\ live' = live /\ proc' = proc
      /\ piCall' = [piCall EXCEPT ![c] = [at |-> "probe", child |-> live]]
  BY DEF PiOrderly, Pi!Prompt, Pi!Alone, Pi!Idle, Pi!children, Under, PiInv, PiTypes
<1>2. PiTypes'
  BY <1>1 DEF PiInv, PiTypes, Pi!Children
<1>3. piCall'[c] = [at |-> "probe", child |-> live] /\ \A d \in Calls \ {c} : piCall'[d] = piCall[d]
  BY <1>1 DEF PiInv, PiTypes
<1>4. Registered'
  BY <1>1, <1>3 DEF PiInv, Registered, Under, Pi!Living, Pi!Children
<1>5. live # 0 => proc[live] = "up"
  BY <1>1 DEF PiInv, PiTypes, Registered, Under, Pi!Children
<1> QED BY <1>1, <1>2, <1>3, <1>4, <1>5 DEF PiInv, Under, Knows

(* The other steps are of the one prompt under way, or of a child.          *)
LEMMA PiOnly == ASSUME PiInv, NEW c \in Calls, Under(c) PROVE \A d \in Calls \ {c} : ~Under(d)
  BY DEF PiInv

LEMMA PiDone ==
  ASSUME PiInv, NEW c \in Calls, Under(c), piCall' = [piCall EXCEPT ![c] = Pi!Idle], PiTypes', Registered'
  PROVE  PiInv'
<1>1. \A d \in Calls : ~Under(d)'
  BY PiOnly DEF PiInv, PiTypes, Under, Pi!Idle
<1> QED BY <1>1 DEF PiInv, Under, Knows

LEMMA PiToTerminal == ASSUME PiOrderly, PiInv, NEW c \in Calls, Pi!ToTerminal(c) PROVE PiInv'
<1>1. piCall[c].at = "probe" /\ Under(c) /\ live' = live /\ piCall[c].child = live
  BY DEF Pi!ToTerminal, Under, PiInv, Knows
<1>2. \A d \in Calls \ {c} : ~Under(d)
  BY <1>1, PiOnly
<1>3. CASE piCall[c].child = 0
  <2>1. piCall' = [piCall EXCEPT ![c] = Pi!Idle] /\ proc' = proc
    BY <1>3 DEF Pi!ToTerminal
  <2>2. PiTypes'
    BY <1>1, <2>1 DEF PiInv, PiTypes, Pi!Children, Pi!Idle, Pi!None, PiOrderly
  <2>3. Registered'
    BY <1>1, <1>2, <1>3, <2>1 DEF PiInv, PiTypes, Registered, Under, Pi!Living, Pi!Children, Pi!Idle
  <2> QED BY <1>1, <2>1, <2>2, <2>3, PiDone
<1>4. CASE piCall[c].child # 0
  <2>1. live \in Pi!Children /\ proc[live] = "up"
    BY <1>1, <1>4 DEF PiInv, PiTypes, Knows, Pi!Children
  <2>2. piCall' = [piCall EXCEPT ![c].at = "drop"] /\ proc' = [proc EXCEPT ![live] = "stopping"]
    BY <1>1, <1>4, <2>1 DEF Pi!ToTerminal
  <2>3. PiTypes'
    BY <1>1, <2>1, <2>2 DEF PiInv, PiTypes, Pi!Children
  <2>4. /\ piCall'[c] = [at |-> "drop", child |-> live]
        /\ \A d \in Calls \ {c} : piCall'[d] = piCall[d] /\ ~Under(d)'
    BY <1>1, <1>2, <2>2 DEF PiInv, PiTypes, Under
  <2>5. /\ proc'[live] = "stopping" /\ \A s \in Pi!Children \ {live} : proc'[s] = proc[s]
    BY <2>1, <2>2 DEF PiInv, PiTypes
  <2>6. \A s \in Pi!Children : s # live => proc[s] \notin {"starting", "up", "stopping"}
    BY <1>1, <1>2 DEF PiInv, Registered, Under, Pi!Living
  <2>7. Registered'
    BY <1>1, <1>4, <2>1, <2>4, <2>5, <2>6 DEF Registered, Pi!Living, Pi!Children
  <2>8. \A d \in Calls : Knows(d)'
    BY <1>1, <1>4, <2>4, <2>5 DEF Knows, Under
  <2> QED BY <2>3, <2>4, <2>7, <2>8 DEF PiInv
<1> QED BY <1>3, <1>4

LEMMA PiDropped == ASSUME PiInv, NEW c \in Calls, Pi!Dropped(c) PROVE PiInv'
<1>1. piCall[c].at = "drop" /\ Under(c) /\ proc[piCall[c].child] = "gone" /\ live = 0 /\ live' = 0
      /\ proc' = proc /\ piCall' = [piCall EXCEPT ![c] = Pi!Idle]
  BY DEF Pi!Dropped, Under, PiInv, Knows
<1>2. \A d \in Calls \ {c} : ~Under(d)
  BY <1>1, PiOnly
<1>3. PiTypes'
  BY <1>1 DEF PiInv, PiTypes, Pi!Children, Pi!Idle, Pi!None
<1>4. Pi!Living = {}
  BY <1>1, <1>2 DEF PiInv, Registered, Under, Pi!Living, Pi!Children
<1>5. Registered'
  BY <1>1, <1>4 DEF Registered, Pi!Living, Pi!Children
<1> QED BY <1>1, <1>3, <1>5, PiDone

LEMMA PiSpawn == ASSUME PiOrderly, PiInv, NEW c \in Calls, Pi!Spawn(c) PROVE PiInv'
<1> DEFINE S == {s \in Pi!Children : proc[s] # Pi!None}
<1> DEFINE new == Pi!Spawns + 1
<1>1. Pi!Spawns \in Nat
  <2>1. IsFiniteSet(Pi!Children)
    BY FS_Interval DEF PiOrderly, Pi!Children
  <2>2. S \subseteq Pi!Children
    OBVIOUS
  <2>3. IsFiniteSet(S)
    BY <2>1, <2>2, FS_Subset
  <2>4. Cardinality(S) \in Nat
    BY <2>3, FS_CardinalityType
  <2> QED BY <2>4, SamePiCount DEF Pi!Spawns
<1>2. new \in Pi!Children /\ new # 0
  BY <1>1 DEF PiOrderly, Pi!Spawn, Pi!Children
<1>3. /\ piCall[c].at = "probe" /\ Under(c) /\ live' = live /\ live = 0
      /\ proc' = [proc EXCEPT ![new] = "starting"]
      /\ piCall' = [piCall EXCEPT ![c] = [at |-> "start", child |-> new]]
  BY DEF Pi!Spawn, Under, PiInv, Knows
<1> HIDE DEF new
<1>4. \A d \in Calls \ {c} : ~Under(d)
  BY <1>3, PiOnly
<1>5. PiTypes'
  BY <1>2, <1>3 DEF PiInv, PiTypes, Pi!Children
<1>6. /\ piCall'[c] = [at |-> "start", child |-> new]
      /\ \A d \in Calls \ {c} : ~Under(d)'
  BY <1>3, <1>4 DEF PiInv, PiTypes, Under
<1>7. proc'[new] = "starting" /\ \A s \in Pi!Children \ {new} : proc'[s] = proc[s]
  BY <1>2, <1>3 DEF PiInv, PiTypes
<1>8. \A s \in Pi!Children : proc[s] \notin {"starting", "up", "stopping"}
  BY <1>3, <1>4 DEF PiInv, Registered, Under, Pi!Living, Pi!Children
<1>9. Registered'
  BY <1>3, <1>6, <1>7, <1>8 DEF Registered, Pi!Living, Pi!Children
<1>10. \A d \in Calls : Knows(d)'
  BY <1>2, <1>3, <1>6, <1>7 DEF Knows, Under
<1> QED BY <1>5, <1>6, <1>9, <1>10 DEF PiInv

LEMMA PiReuse == ASSUME PiOrderly, PiInv, NEW c \in Calls, Pi!Reuse(c) PROVE PiInv'
<1>1. /\ piCall[c].at = "probe" /\ Under(c) /\ live' = live /\ proc' = proc
      /\ piCall' = [piCall EXCEPT ![c] = Pi!Idle]
  BY DEF Pi!Reuse, Under, Pi!children
<1>2. \A d \in Calls \ {c} : ~Under(d)
  BY <1>1, PiOnly
<1>3. PiTypes'
  BY <1>1 DEF PiInv, PiTypes, Pi!Children, Pi!Idle, Pi!None, PiOrderly
<1>4. Registered'
  BY <1>1, <1>2 DEF PiInv, PiTypes, Registered, Under, Pi!Living, Pi!Children, Pi!Idle
<1> QED BY <1>1, <1>3, <1>4, PiDone

LEMMA PiStarted == ASSUME PiOrderly, PiInv, NEW c \in Calls, Pi!Started(c) PROVE PiInv'
<1> DEFINE new == piCall[c].child
<1>1. /\ piCall[c].at = "start" /\ Under(c) /\ proc[new] = "starting" /\ live = 0 /\ new # 0
      /\ live' = new /\ proc' = [proc EXCEPT ![new] = "up"] /\ piCall' = [piCall EXCEPT ![c] = Pi!Idle]
  BY DEF Pi!Started, Under, PiInv, Knows, PiOrderly
<1>2. \A d \in Calls \ {c} : ~Under(d)
  BY <1>1, PiOnly
<1>3. new \in Pi!Children
  BY <1>1 DEF PiInv, PiTypes, Pi!Children
<1> HIDE DEF new
<1>4. PiTypes'
  BY <1>1, <1>3 DEF PiInv, PiTypes, Pi!Children, Pi!Idle, Pi!None
<1>5. \A s \in Pi!Children \ {new} : proc'[s] = proc[s] /\ proc[s] \notin {"starting", "up", "stopping"}
  BY <1>1, <1>2 DEF PiInv, PiTypes, Registered, Under, Pi!Living, Pi!Children, new
<1>6. Registered'
  BY <1>1, <1>3, <1>5 DEF PiInv, PiTypes, Registered, Pi!Living, Pi!Children
<1> QED BY <1>1, <1>4, <1>6, PiDone

LEMMA PiStartFails == ASSUME PiInv, NEW c \in Calls, Pi!StartFails(c) PROVE PiInv'
<1> DEFINE new == piCall[c].child
<1>1. /\ piCall[c].at = "start" /\ Under(c) /\ live = 0 /\ new # 0
      /\ live' = 0 /\ proc' = [proc EXCEPT ![new] = "gone"] /\ piCall' = [piCall EXCEPT ![c] = Pi!Idle]
  BY DEF Pi!StartFails, Under, PiInv, Knows
<1>2. \A d \in Calls \ {c} : ~Under(d)
  BY <1>1, PiOnly
<1>3. new \in Pi!Children
  BY <1>1 DEF PiInv, PiTypes, Pi!Children
<1> HIDE DEF new
<1>4. PiTypes'
  BY <1>1, <1>3 DEF PiInv, PiTypes, Pi!Children, Pi!Idle, Pi!None
<1>5. \A s \in Pi!Children \ {new} : proc'[s] = proc[s] /\ proc[s] \notin {"starting", "up", "stopping"}
  BY <1>1, <1>2 DEF PiInv, PiTypes, Registered, Under, Pi!Living, Pi!Children, new
<1>6. Registered'
  BY <1>1, <1>3, <1>5 DEF PiInv, PiTypes, Registered, Pi!Living, Pi!Children
<1> QED BY <1>1, <1>4, <1>6, PiDone

LEMMA PiExit == ASSUME PiOrderly, PiInv, NEW s \in Pi!Children, Pi!Exit(s) PROVE PiInv'
<1>1. proc' = [proc EXCEPT ![s] = "gone"] /\ live' = 0 /\ piCall' = piCall
  BY DEF Pi!Exit
<1>2. s = live /\ (proc[s] = "stopping" \/ \A c \in Calls : ~Under(c))
  <2>1. CASE proc[s] = "stopping"
    BY <2>1 DEF PiInv, Registered
  <2>2. CASE proc[s] = "up" /\ \A c \in Calls : piCall[c] = Pi!Idle
    BY <2>2 DEF PiInv, Registered, Pi!Living, Under, Pi!Idle
  <2> QED BY <2>1, <2>2 DEF Pi!Exit, PiOrderly
<1>3. PiTypes'
  BY <1>1 DEF PiInv, PiTypes, Pi!Children, Pi!None, PiOrderly
<1>4. s # 0 /\ proc'[s] = "gone" /\ \A t \in Pi!Children \ {s} : proc'[t] = proc[t]
  BY <1>1 DEF PiInv, PiTypes, Pi!Children
<1>5. \A c \in Calls : piCall[c].at \notin {"probe", "start"}
  <2>1. CASE \A c \in Calls : ~Under(c)
    BY <2>1 DEF Under
  <2>2. CASE proc[s] = "stopping"
    BY <1>2, <1>4, <2>2 DEF PiInv, Knows
  <2> QED BY <1>2, <2>1, <2>2
<1>6. \A t \in Pi!Children : proc'[t] \notin {"starting", "up", "stopping"}
  BY <1>2, <1>4, <1>5 DEF PiInv, Registered, Pi!Living
<1>7. Registered'
  BY <1>1, <1>6 DEF Registered, Pi!Living, Pi!Children
<1>8. \A c \in Calls : Knows(c)'
  BY <1>1, <1>2, <1>4, <1>5 DEF PiInv, Knows
<1> QED BY <1>1, <1>3, <1>7, <1>8 DEF PiInv, Under

LEMMA PiStepInv == PiOrderly /\ PiInv /\ [Pi!Next]_(Pi!vars) => PiInv'
<1> SUFFICES ASSUME PiOrderly, PiInv, [Pi!Next]_(Pi!vars) PROVE PiInv'
  OBVIOUS
<1>1. CASE UNCHANGED Pi!vars
  BY <1>1, PiApart DEF Pi!vars, Pi!children
<1>2. ASSUME NEW c \in Calls, Pi!Prompt(c) \/ Pi!Going(c) PROVE PiInv'
  BY <1>2, PiPrompt, PiToTerminal, PiDropped, PiSpawn, PiReuse, PiStarted, PiStartFails DEF Pi!Going
<1>3. ASSUME NEW s \in Pi!Children, Pi!TurnEnds(s) \/ Pi!Handle(s) \/ \E k \in Pi!Kinds : Pi!Ask(s, k) PROVE PiInv'
  BY <1>3, PiApart DEF Pi!TurnEnds, Pi!Handle, Pi!Ask, Pi!children
<1>4. ASSUME NEW s \in Pi!Children, Pi!Exit(s) PROVE PiInv'
  BY <1>4, PiExit
<1>5. CASE (\E k \in Pi!Kinds : Pi!Respond(k)) \/ Pi!Interrupt \/ Pi!TerminalChanges
  BY <1>5, PiApart DEF Pi!Respond, Pi!Interrupt, Pi!TerminalChanges, Pi!children
<1> QED BY <1>1, <1>2, <1>3, <1>4, <1>5 DEF Pi!Next

(* "NEVER spawn a second instance" (pi/provider.mjs): for any number of     *)
(* prompts, one after the other, and children, one lives at most, whatever  *)
(* exits and whenever a terminal takes the conversation over.               *)
THEOREM OneChildLives == ASSUME PiOrderly PROVE Pi!Spec => []Pi!OneChild
<1>1. PiInv => Pi!OneChild
  <2> SUFFICES ASSUME PiInv PROVE Pi!OneChild
    OBVIOUS
  <2>1. \A s, t \in Pi!Living : s = t
    BY DEF PiInv, Registered, Under, Knows, Pi!Living, Pi!Children
  <2>2. CASE Pi!Living = {}
    <3>1. Cardinality(Pi!Living) = 0
      BY <2>2, FS_EmptySet
    <3> QED BY <3>1, SamePiCount DEF Pi!OneChild
  <2>3. CASE Pi!Living # {}
    <3>1. PICK s : s \in Pi!Living
      BY <2>3
    <3>2. Pi!Living = {s}
      BY <2>1, <3>1
    <3>3. Cardinality(Pi!Living) = 1
      BY <3>2, FS_Singleton
    <3> QED BY <3>3, SamePiCount DEF Pi!OneChild
  <2> QED BY <2>2, <2>3
<1> QED BY <1>1, PiInitInv, PiStepInv, PTL DEF Pi!Spec

(* The dialogs pi waits for are among the lines its session has not handled *)
(* yet, or among what the phone is asked.                                   *)
Line == [type : Pi!Kinds \cup {"agent_end"}, n : Nat]
AskTypes ==
  /\ dialogs \in Nat
  /\ asks \in [Pi!Children -> SUBSET Nat]
  /\ pending \in [Pi!Children -> [Pi!Kinds -> Seq(Nat)]]
  /\ lines \in [Pi!Children -> Seq(Line)]

Asked(s, d) == \E k \in Pi!Kinds : \E i \in 1 .. Len(pending[s][k]) : pending[s][k][i] = d
Written(s, d) == \E i \in 1 .. Len(lines[s]) : lines[s][i].type \in Pi!Kinds /\ lines[s][i].n = d
Reaches(s) == \A d \in asks[s] : Asked(s, d) \/ Written(s, d)
AsksInv == AskTypes /\ \A s \in Pi!Children : Reaches(s)

LEMMA AsksInitInv == Pi!Init => AsksInv
  BY DEF Pi!Init, AsksInv, AskTypes, Reaches

(* A step disturbs one child's dialogs at most.                             *)
LEMMA AsksMoved ==
  ASSUME AsksInv, AskTypes', NEW s \in Pi!Children, Reaches(s)',
         \A t \in Pi!Children \ {s} : asks'[t] = asks[t] /\ pending'[t] = pending[t] /\ lines'[t] = lines[t]
  PROVE  AsksInv'
<1>1. ASSUME NEW t \in Pi!Children \ {s} PROVE Reaches(t)'
  <2>1. \A d \in asks[t] : Asked(t, d) \/ Written(t, d)
    BY DEF AsksInv, Reaches
  <2>2. asks'[t] = asks[t] /\ pending'[t] = pending[t] /\ lines'[t] = lines[t]
    OBVIOUS
  <2> QED BY <2>1, <2>2 DEF Reaches, Asked, Written, Pi!Kinds
<1>2. \A t \in Pi!Children : Reaches(t)'
  BY <1>1
<1> QED BY <1>2 DEF AsksInv, Pi!Children

LEMMA AsksAppend ==
  ASSUME AsksInv, NEW s \in Pi!Children, NEW line \in Line, pending' = pending, dialogs' \in Nat,
         lines' = [lines EXCEPT ![s] = Append(@, line)],
         \/ asks' = asks
         \/ line.type \in Pi!Kinds /\ asks' = [asks EXCEPT ![s] = @ \cup {line.n}]
  PROVE  AsksInv'
<1>1. line.n \in Nat
  BY DEF Line
<1>2. lines[s] \in Seq(Line) /\ lines'[s] = Append(lines[s], line)
  BY DEF AsksInv, AskTypes
<1>3. AskTypes'
  BY SMTT(30), <1>1, <1>2 DEF AsksInv, AskTypes, Pi!Children, Pi!Kinds, Line
<1>4. \A d : Written(s, d) => Written(s, d)'
  BY <1>2 DEF Written, Pi!Kinds
<1>9. line.type \in Pi!Kinds => Written(s, line.n)'
  BY <1>2 DEF Written, Pi!Kinds
<1>5. \A d : Asked(s, d) => Asked(s, d)'
  BY DEF Asked, Pi!Kinds
<1>6. \A d \in asks'[s] : d \in asks[s] \/ (d = line.n /\ line.type \in Pi!Kinds)
  BY DEF AsksInv, AskTypes
<1>7. Reaches(s)'
  BY <1>4, <1>5, <1>6, <1>9 DEF AsksInv, Reaches
<1>8. \A t \in Pi!Children \ {s} : asks'[t] = asks[t] /\ pending'[t] = pending[t] /\ lines'[t] = lines[t]
  BY DEF AsksInv, AskTypes
<1> QED BY <1>3, <1>7, <1>8, AsksMoved

LEMMA AsksAsk == ASSUME AsksInv, NEW s \in Pi!Children, NEW k \in Pi!Kinds, Pi!Ask(s, k) PROVE AsksInv'
<1> DEFINE line == [type |-> k, n |-> dialogs']
<1>1. dialogs' \in Nat /\ line \in Line /\ line.n = dialogs' /\ line.type \in Pi!Kinds
  BY DEF Pi!Ask, AsksInv, AskTypes, Line
<1>2. pending' = pending /\ lines' = [lines EXCEPT ![s] = Append(@, line)]
      /\ asks' = [asks EXCEPT ![s] = @ \cup {line.n}]
  BY DEF Pi!Ask
<1> HIDE DEF line
<1> QED BY <1>1, <1>2, AsksAppend

LEMMA AsksTurnEnds == ASSUME AsksInv, NEW s \in Pi!Children, Pi!TurnEnds(s) PROVE AsksInv'
<1> DEFINE line == [type |-> "agent_end", n |-> 0]
<1>1. line \in Line /\ dialogs' \in Nat
  BY DEF Pi!TurnEnds, AsksInv, AskTypes, Line
<1>2. pending' = pending /\ lines' = [lines EXCEPT ![s] = Append(@, line)] /\ asks' = asks
  BY DEF Pi!TurnEnds
<1> HIDE DEF line
<1> QED BY <1>1, <1>2, AsksAppend

LEMMA AsksHandle == ASSUME AsksInv, NEW s \in Pi!Children, Pi!Handle(s) PROVE AsksInv'
<1> DEFINE line == Head(lines[s])
<1>1. /\ lines[s] \in Seq(Line) /\ lines[s] # << >> /\ line \in Line
      /\ lines'[s] = Tail(lines[s]) /\ lines'[s] \in Seq(Line)
      /\ lines' = [lines EXCEPT ![s] = Tail(lines[s])]
  BY DEF Pi!Handle, AsksInv, AskTypes
<1>2. asks' = asks /\ dialogs' = dialogs
  BY DEF Pi!Handle
<1>3. \A d : Written(s, d) => (d = line.n /\ line.type \in Pi!Kinds)
                             \/ \E j \in 1 .. Len(lines'[s]) : lines'[s][j].type \in Pi!Kinds /\ lines'[s][j].n = d
  <2> SUFFICES ASSUME NEW d, NEW i \in 1 .. Len(lines[s]), lines[s][i].type \in Pi!Kinds, lines[s][i].n = d, i # 1
               PROVE  \E j \in 1 .. Len(lines'[s]) : lines'[s][j].type \in Pi!Kinds /\ lines'[s][j].n = d
    BY <1>1 DEF Written
  <2>1. i - 1 \in 1 .. Len(lines'[s]) /\ lines'[s][i - 1] = lines[s][i]
    BY <1>1
  <2> QED BY <2>1
<1>4. \A t \in Pi!Children \ {s} : lines'[t] = lines[t]
  BY <1>1 DEF AsksInv, AskTypes
<1>5. lines' \in [Pi!Children -> Seq(Line)]
  BY <1>1 DEF AsksInv, AskTypes, Line, Pi!Kinds, Pi!Children
<1>6. CASE line.type = "agent_end"
  <2>1. pending' = pending /\ line.type \notin Pi!Kinds
    BY <1>6 DEF Pi!Handle, Pi!Kinds
  <2>2. AskTypes'
    BY <1>2, <1>5, <2>1 DEF AsksInv, AskTypes, Line, Pi!Kinds, Pi!Children
  <2> HIDE DEF line
  <2>4. \A d : Written(s, d) =>
          \E j \in 1 .. Len(lines'[s]) : lines'[s][j].type \in Pi!Kinds /\ lines'[s][j].n = d
    BY <1>3, <2>1
  <2>5. \A d \in asks[s] : Asked(s, d) \/ Written(s, d)
    BY DEF AsksInv, Reaches
  <2>3. Reaches(s)'
    BY SMTT(30), <1>2, <2>1, <2>4, <2>5 DEF Reaches, Asked, Written, Pi!Kinds
  <2> QED BY <1>2, <1>4, <2>1, <2>2, <2>3, AsksMoved
<1>7. CASE line.type # "agent_end"
  <2> DEFINE kind == line.type
  <2> DEFINE old == pending[s][kind]
  <2>1. kind \in Pi!Kinds /\ line.n \in Nat
    BY <1>1, <1>7 DEF Line
  <2>2. pending[s] \in [Pi!Kinds -> Seq(Nat)] /\ old \in Seq(Nat)
    BY <2>1 DEF AsksInv, AskTypes
  <2>3. pending' = [pending EXCEPT ![s] = [pending[s] EXCEPT ![kind] = Append(old, line.n)]]
    BY <1>7 DEF Pi!Handle
  <2>4. pending'[s] = [pending[s] EXCEPT ![kind] = Append(old, line.n)]
    BY <2>3 DEF AsksInv, AskTypes
  <2>5. pending'[s][kind] = Append(old, line.n) /\ \A k \in Pi!Kinds \ {kind} : pending'[s][k] = pending[s][k]
    BY <2>1, <2>2, <2>4
  <2>6. Append(old, line.n) \in Seq(Nat)
    BY <2>1, <2>2
  <2>7. pending'[s] \in [Pi!Kinds -> Seq(Nat)]
    BY <2>2, <2>4, <2>6
  <2>8. AskTypes'
    BY <1>2, <1>5, <2>3, <2>4, <2>7 DEF AsksInv, AskTypes, Pi!Kinds, Pi!Children, Line
  <2> HIDE DEF kind, old, line
  <2>9. \E i \in 1 .. Len(pending'[s][kind]) : pending'[s][kind][i] = line.n
    <3>1. Len(old) + 1 \in 1 .. Len(pending'[s][kind]) /\ pending'[s][kind][Len(old) + 1] = line.n
      BY <2>1, <2>2, <2>5
    <3> QED BY <3>1
  <2>10. \A k \in Pi!Kinds : \A i \in 1 .. Len(pending[s][k]) :
           \E j \in 1 .. Len(pending'[s][k]) : pending'[s][k][j] = pending[s][k][i]
    <3> SUFFICES ASSUME NEW k \in Pi!Kinds, NEW i \in 1 .. Len(pending[s][k])
                 PROVE  \E j \in 1 .. Len(pending'[s][k]) : pending'[s][k][j] = pending[s][k][i]
      OBVIOUS
    <3>1. CASE k # kind
      BY <2>5, <3>1
    <3>2. CASE k = kind
      <4>1. pending[s][k] = old
        BY <3>2 DEF old
      <4>2. i \in 1 .. Len(Append(old, line.n)) /\ Append(old, line.n)[i] = old[i]
        BY <2>1, <2>2, <4>1
      <4> QED BY <2>5, <3>2, <4>1, <4>2
    <3> QED BY <3>1, <3>2
  <2>13. \A d : Asked(s, d) \/ d = line.n =>
           \E k \in Pi!Kinds : \E j \in 1 .. Len(pending'[s][k]) : pending'[s][k][j] = d
    <3>1. \A d : d = line.n => \E k \in Pi!Kinds : \E j \in 1 .. Len(pending'[s][k]) : pending'[s][k][j] = d
      BY <2>1, <2>9
    <3>2. \A d : Asked(s, d) => \E k \in Pi!Kinds : \E j \in 1 .. Len(pending'[s][k]) : pending'[s][k][j] = d
      BY <2>10 DEF Asked
    <3> QED BY <3>1, <3>2
  <2>11. Reaches(s)'
    BY <1>2, <1>3, <2>13 DEF AsksInv, Reaches, Asked, Written, Pi!Kinds
  <2>12. \A t \in Pi!Children \ {s} : pending'[t] = pending[t]
    BY <2>3 DEF AsksInv, AskTypes
  <2> QED BY <1>2, <1>4, <2>8, <2>11, <2>12, AsksMoved
<1> QED BY <1>6, <1>7

(* The exit of a child ends its waiting.                                    *)
LEMMA AsksExit == ASSUME AsksInv, NEW s \in Pi!Children, Pi!Exit(s) PROVE AsksInv'
<1>1. asks' = [asks EXCEPT ![s] = {}] /\ lines' = [lines EXCEPT ![s] = << >>]
      /\ pending' = pending /\ dialogs' = dialogs
  BY DEF Pi!Exit
<1>2. AskTypes'
  BY <1>1 DEF AsksInv, AskTypes, Pi!Kinds, Pi!Children, Line
<1>3. Reaches(s)'
  BY <1>1 DEF AsksInv, AskTypes, Reaches
<1>4. \A t \in Pi!Children \ {s} : asks'[t] = asks[t] /\ pending'[t] = pending[t] /\ lines'[t] = lines[t]
  BY <1>1 DEF AsksInv, AskTypes
<1> QED BY <1>2, <1>3, <1>4, AsksMoved

(* An answer takes the oldest of its kind, and pi no longer waits for it.   *)
LEMMA AsksRespond == ASSUME PiInv, AsksInv, NEW kind \in Pi!Kinds, Pi!Respond(kind) PROVE AsksInv'
<1> DEFINE s == live
<1> DEFINE old == pending[s][kind]
<1>1. s \in Pi!Children
  BY DEF Pi!Respond, PiInv, PiTypes, Pi!Children
<1>2. pending[s] \in [Pi!Kinds -> Seq(Nat)] /\ old \in Seq(Nat) /\ old # << >>
  BY <1>1 DEF Pi!Respond, AsksInv, AskTypes
<1>3. /\ asks' = [asks EXCEPT ![s] = asks[s] \ {Head(old)}]
      /\ pending' = [pending EXCEPT ![s] = [pending[s] EXCEPT ![kind] = Tail(old)]]
      /\ lines' = lines /\ dialogs' = dialogs
  BY DEF Pi!Respond
<1>4. pending'[s] = [pending[s] EXCEPT ![kind] = Tail(old)] /\ asks'[s] = asks[s] \ {Head(old)}
  BY <1>1, <1>3 DEF AsksInv, AskTypes
<1>5. Tail(old) \in Seq(Nat)
  BY <1>2
<1>6. pending'[s][kind] = Tail(old) /\ \A k \in Pi!Kinds \ {kind} : pending'[s][k] = pending[s][k]
  BY <1>2, <1>4
<1>7. pending'[s] \in [Pi!Kinds -> Seq(Nat)]
  BY <1>2, <1>4, <1>5
<1>8. AskTypes'
  BY <1>1, <1>3, <1>4, <1>7 DEF AsksInv, AskTypes, Pi!Kinds, Pi!Children, Line
<1>9. \A k \in Pi!Kinds : \A i \in 1 .. Len(pending[s][k]) :
        \/ pending[s][k][i] = Head(old)
        \/ \E j \in 1 .. Len(pending'[s][k]) : pending'[s][k][j] = pending[s][k][i]
  <2> SUFFICES ASSUME NEW k \in Pi!Kinds, NEW i \in 1 .. Len(pending[s][k]), pending[s][k][i] # Head(old)
               PROVE  \E j \in 1 .. Len(pending'[s][k]) : pending'[s][k][j] = pending[s][k][i]
    OBVIOUS
  <2>1. CASE k # kind
    BY <1>6, <2>1
  <2>2. CASE k = kind
    <3>1. i # 1
      BY <1>2, <2>2
    <3>2. i - 1 \in 1 .. Len(Tail(old)) /\ Tail(old)[i - 1] = old[i]
      BY <1>2, <2>2, <3>1
    <3> QED BY <1>6, <2>2, <3>2
  <2> QED BY <2>1, <2>2
<1>10. \A d : Asked(s, d) => d = Head(old) \/ \E k \in Pi!Kinds : \E j \in 1 .. Len(pending'[s][k]) : pending'[s][k][j] = d
  BY <1>9 DEF Asked
<1>11. ASSUME NEW d \in asks'[s]
       PROVE  \/ \E k \in Pi!Kinds : \E j \in 1 .. Len(pending'[s][k]) : pending'[s][k][j] = d
              \/ Written(s, d)
  <2>1. d \in asks[s] /\ d # Head(old)
    BY <1>4, <1>11
  <2>2. Asked(s, d) \/ Written(s, d)
    BY <1>1, <2>1 DEF AsksInv, Reaches
  <2> QED BY <1>10, <2>1, <2>2
<1>12. live' = live
  BY DEF Pi!Respond, Pi!children
<1>13. Reaches(s)'
  BY <1>3, <1>11, <1>12 DEF Reaches, Asked, Written, Pi!Kinds
<1>14. \A t \in Pi!Children \ {s} : asks'[t] = asks[t] /\ pending'[t] = pending[t] /\ lines'[t] = lines[t]
  BY <1>3 DEF AsksInv, AskTypes
<1> QED BY <1>1, <1>8, <1>12, <1>13, <1>14, AsksMoved

(* An interrupt cancels what the phone was asked; what pi still waits for   *)
(* is among the lines.                                                      *)
LEMMA AsksInterrupt == ASSUME PiInv, AsksInv, Pi!Interrupt PROVE AsksInv'
<1> DEFINE left == asks[live] \ UNION {Pi!Range(pending[live][k]) : k \in Pi!Kinds}
<1> DEFINE none == [k \in Pi!Kinds |-> << >>]
<1> DEFINE line == [type |-> "agent_end", n |-> 0]
<1>1. live \in Pi!Children /\ live' = live
  BY DEF Pi!Interrupt, PiInv, PiTypes, Pi!Children, Pi!children
<1>2. /\ asks' = [asks EXCEPT ![live] = left]
      /\ lines' = lines \/ lines' = [lines EXCEPT ![live] = Append(@, line)]
      /\ pending' = [pending EXCEPT ![live] = none] /\ dialogs' = dialogs
  BY DEF Pi!Interrupt
<1>3. \A d \in left : Written(live, d)
  <2> SUFFICES ASSUME NEW d \in left, Asked(live, d) PROVE FALSE
    BY <1>1 DEF AsksInv, Reaches
  <2>1. PICK k \in Pi!Kinds : \E i \in 1 .. Len(pending[live][k]) : pending[live][k][i] = d
    BY DEF Asked
  <2>2. pending[live][k] \in Seq(Nat)
    BY <1>1, <2>1 DEF AsksInv, AskTypes
  <2>3. d \in Pi!Range(pending[live][k])
    BY <2>1, <2>2 DEF Pi!Range
  <2> QED BY <2>1, <2>3
<1>4. left \subseteq Nat /\ asks'[live] = left /\ line \in Line /\ none \in [Pi!Kinds -> Seq(Nat)]
  BY <1>1, <1>2 DEF AsksInv, AskTypes, Line
<1> HIDE DEF left, none, line
<1>5. lines[live] \in Seq(Line) /\ (lines'[live] = lines[live] \/ lines'[live] = Append(lines[live], line))
  BY <1>1, <1>2 DEF AsksInv, AskTypes
<1>6. lines' \in [Pi!Children -> Seq(Line)]
  <2>1. lines'[live] \in Seq(Line)
    BY <1>4, <1>5
  <2>2. lines' = [lines EXCEPT ![live] = lines'[live]]
    BY <1>1, <1>2, <1>5 DEF AsksInv, AskTypes
  <2> QED BY <1>1, <2>1, <2>2 DEF AsksInv, AskTypes
<1>7. AskTypes'
  BY <1>1, <1>2, <1>4, <1>6 DEF AsksInv, AskTypes, Pi!Kinds, Pi!Children, Line
<1>8. \A d : Written(live, d) => \E i \in 1 .. Len(lines'[live]) : lines'[live][i].type \in Pi!Kinds /\ lines'[live][i].n = d
  BY <1>5 DEF Written
<1>9. Reaches(live)'
  BY <1>1, <1>3, <1>4, <1>8 DEF Reaches, Written, Pi!Kinds
<1>10. \A t \in Pi!Children \ {live} : asks'[t] = asks[t] /\ pending'[t] = pending[t] /\ lines'[t] = lines[t]
  BY <1>2 DEF AsksInv, AskTypes
<1> QED BY <1>1, <1>7, <1>9, <1>10, AsksMoved

LEMMA AsksStepInv == PiInv /\ AsksInv /\ [Pi!Next]_(Pi!vars) => AsksInv'
<1> SUFFICES ASSUME PiInv, AsksInv, [Pi!Next]_(Pi!vars) PROVE AsksInv'
  OBVIOUS
<1>1. ASSUME UNCHANGED <<asks, lines, pending, dialogs>> PROVE AsksInv'
  BY <1>1 DEF AsksInv, AskTypes, Reaches, Asked, Written, Pi!Children, Pi!Kinds, Line
<1>2. ASSUME NEW c \in Calls, Pi!Prompt(c) \/ Pi!Going(c) PROVE AsksInv'
  BY <1>1, <1>2 DEF Pi!Prompt, Pi!Going, Pi!ToTerminal, Pi!Dropped, Pi!Spawn, Pi!Reuse, Pi!Started,
                    Pi!StartFails, Pi!turns
<1>3. ASSUME NEW s \in Pi!Children, Pi!TurnEnds(s) \/ Pi!Handle(s) \/ Pi!Exit(s) \/ \E k \in Pi!Kinds : Pi!Ask(s, k)
      PROVE  AsksInv'
  BY <1>3, AsksTurnEnds, AsksHandle, AsksExit, AsksAsk
<1>4. CASE (\E k \in Pi!Kinds : Pi!Respond(k)) \/ Pi!Interrupt
  BY <1>4, AsksRespond, AsksInterrupt
<1>5. CASE Pi!TerminalChanges \/ UNCHANGED Pi!vars
  BY <1>1, <1>5 DEF Pi!TerminalChanges, Pi!vars, Pi!turns
<1> QED BY <1>2, <1>3, <1>4, <1>5 DEF Pi!Next

(* Nobody waits for an answer that cannot be given: a dialog that a living  *)
(* pi waits for is asked of the session that is registered and is on its    *)
(* way to the phone or first to be answered some time (pi/session.mjs       *)
(* onUiRequest, interrupt), for any number of dialogs.                      *)
THEOREM DialogsAnswerable == ASSUME PiOrderly PROVE Pi!Spec => []Pi!DialogsPending
<1>1. PiInv /\ AsksInv => Pi!DialogsPending
  <2> SUFFICES ASSUME PiInv, AsksInv, NEW s \in Pi!Children, NEW d \in asks[s], proc[s] = "up"
               PROVE  /\ s = live
                      /\ \/ \E k \in Pi!Kinds : d \in Pi!Range(pending[s][k])
                         \/ \E i \in 1 .. Len(lines[s]) : lines[s][i].n = d
    BY DEF Pi!DialogsPending
  <2>1. s = live
    BY DEF PiInv, Registered, Knows, Pi!Living
  <2>2. Asked(s, d) \/ Written(s, d)
    BY DEF AsksInv, Reaches
  <2>3. \A k \in Pi!Kinds : pending[s][k] \in Seq(Nat)
    BY DEF AsksInv, AskTypes
  <2>4. \A k \in Pi!Kinds : \A i \in 1 .. Len(pending[s][k]) : pending[s][k][i] \in Pi!Range(pending[s][k])
    BY <2>3 DEF Pi!Range
  <2> QED BY <2>1, <2>2, <2>4 DEF Asked, Written
<1> QED BY <1>1, PiInitInv, PiStepInv, AsksInitInv, AsksStepInv, PTL DEF Pi!Spec
-----------------------------------------------------------------------------
(* Messages typed into terminals (PaneDelivery).                             *)

CONSTANTS Sids, Messages, Routes, PaneHappens
VARIABLES program, term, input, unread, last, delivery, read, paneMoves
Panes == INSTANCE PaneDelivery WITH
  Happens <- PaneHappens, lines <- read, call <- delivery, moves <- paneMoves

(* Messages are not what a user types, and no conversation is called as     *)
(* what else reads a line.                                                  *)
PaneNames == "none" \notin Messages /\ "user" \notin Messages /\ "shell" \notin Sids /\ "menu" \notin Sids

(* What the folder's terminals may be that a look at them does not tell.    *)
Told == "outside" \notin PaneHappens /\ "stale" \notin PaneHappens
OneAtATime == "overlap" \notin PaneHappens
UserWaits == "late" \notin PaneHappens

Terms == 1 .. 2
Typed(t) == Panes!Range(input[t])
Sent(t) == Panes!Range(unread[t])
Flies(m) == delivery[m].at \in {"gap", "check", "look", "type", "enter"}
Overseers(m) == delivery[m].route = "overseer"

Steps == {"new", "gap", "check", "look", "type", "enter", "done", "blocked", "elsewhere"}
Call == [at : Steps, route : {"overseer", "phone"}, sid : Sids \cup {"none"}, to : 0 .. 2,
         after : Messages \cup {"none"}]
Term == [on : BOOLEAN, tmux : BOOLEAN, conv : Sids, shown : BOOLEAN, known : BOOLEAN, menu : BOOLEAN]

PaneTypes ==
  /\ program \in {"pi", "claude"}
  /\ term \in [Terms -> Term]
  /\ input \in [Terms -> Seq(Messages \cup {"user"})] /\ unread \in [Terms -> Seq(Messages \cup {"user"})]
  /\ last \in [Terms -> Messages \cup {"none"}]
  /\ delivery \in [Messages -> Call]
  /\ \A m \in Messages : Flies(m) => delivery[m].to \in Terms

(* What stands in a terminal or was read was typed there by its delivery.   *)
Delivered ==
  /\ \A t \in Terms, m \in Messages : m \in Typed(t) \cup Sent(t) =>
       delivery[m].at \in {"enter", "done"} /\ delivery[m].to = t
  /\ \A l \in read, m \in Messages : m \in l.holds => delivery[m].at \in {"enter", "done"}

(* A delivery types on its own, into a terminal that has read the one       *)
(* before; so one message at most is in what a terminal reads.              *)
Serial ==
  /\ \A m, n \in Messages : Flies(m) /\ Flies(n) => m = n
  /\ \A t \in Terms, m \in Messages : /\ m \in Typed(t) => delivery[m].at = "enter"
                                      /\ m \in Sent(t) => delivery[m].at = "done"
  /\ \A m \in Messages, t \in Terms : delivery[m].to = t =>
       /\ delivery[m].at = "enter" => m \in Typed(t)
       /\ Flies(m) /\ Sent(t) # {} => delivery[m].at = "gap" /\ delivery[m].after \in Sent(t)
  /\ program = "pi" => \A t \in Terms : Sent(t) # {} => last[t] \in Sent(t) /\ last[t] # "none"
  /\ \A t \in Terms : \A m, n \in Messages \cap Sent(t) : m = n
  /\ \A l \in read : \A m, n \in Messages \cap l.holds : m = n

(* A message of the overseer is on its way to its conversation's terminal.  *)
Right ==
  /\ \A t, u \in Terms : term[t].tmux = term[u].tmux
  /\ \A m \in Messages : Flies(m) /\ Overseers(m) => term[delivery[m].to].conv = delivery[m].sid
  /\ \A t \in Terms, m \in Messages : m \in Typed(t) \cup Sent(t) /\ Overseers(m) => term[t].conv = delivery[m].sid
  /\ \A l \in read, m \in Messages : m \in l.holds /\ Overseers(m) => l.by \in {"shell", "menu", delivery[m].sid}

(* It is alone there, and the program goes on to show its input box.        *)
Waiting(t) == term[t].on /\ ~term[t].menu
Clear ==
  /\ \A m \in Messages, t \in Terms : Overseers(m) /\ delivery[m].to = t =>
       /\ delivery[m].at \in {"type", "enter"} => Waiting(t)
       /\ delivery[m].at = "type" => Typed(t) = {}
       /\ delivery[m].at = "enter" => Typed(t) = {m}
  /\ \A t \in Terms, m \in Messages : m \in Sent(t) /\ Overseers(m) => Sent(t) = {m} /\ Waiting(t)
  /\ \A l \in read, m \in Messages : m \in l.holds /\ Overseers(m) => l.holds = {m} /\ l.by = delivery[m].sid

PaneInv ==
  /\ PaneTypes /\ Delivered
  /\ OneAtATime => Serial
  /\ Told => Right
  /\ OneAtATime /\ Told /\ UserWaits => Clear

-----------------------------------------------------------------------------
(* Sequences by what they hold.                                              *)

LEMMA Holds ==
  ASSUME NEW S, NEW s \in Seq(S)
  PROVE  /\ Panes!Range(<< >>) = {} /\ (Panes!Range(s) = {}) = (s = << >>)
         /\ Panes!Range(s) \subseteq S
<1>1. DOMAIN s = 1 .. Len(s) /\ Len(s) \in Nat /\ \A i \in 1 .. Len(s) : s[i] \in S
  OBVIOUS
<1>2. s # << >> => 1 \in DOMAIN s
  BY <1>1
<1>3. Panes!Range(<< >>) = {}
  BY DEF Panes!Range
<1> QED BY SMTT(30), <1>1, <1>2, <1>3 DEF Panes!Range

LEMMA HoldsAppend ==
  ASSUME NEW S, NEW s \in Seq(S), NEW e \in S
  PROVE  Append(s, e) \in Seq(S) /\ Panes!Range(Append(s, e)) = Panes!Range(s) \cup {e}
<1> DEFINE a == Append(s, e)
<1>1. /\ a \in Seq(S) /\ DOMAIN a = 1 .. Len(s) + 1 /\ DOMAIN s = 1 .. Len(s) /\ Len(s) \in Nat
      /\ a[Len(s) + 1] = e /\ \A i \in 1 .. Len(s) : a[i] = s[i]
  OBVIOUS
<1> HIDE DEF a
<1>2. \A i \in 1 .. Len(s) + 1 : i \in 1 .. Len(s) \/ i = Len(s) + 1
  BY <1>1
<1>3. \A i \in 1 .. Len(s) : i \in 1 .. Len(s) + 1
  BY <1>1
<1>4. Len(s) + 1 \in 1 .. Len(s) + 1
  BY <1>1
<1>5. Panes!Range(a) = Panes!Range(s) \cup {e}
  BY <1>1, <1>2, <1>3, <1>4 DEF Panes!Range
<1> QED BY <1>1, <1>5 DEF a

LEMMA HoldsJoined ==
  ASSUME NEW S, NEW s \in Seq(S), NEW u \in Seq(S)
  PROVE  s \o u \in Seq(S) /\ Panes!Range(s \o u) = Panes!Range(s) \cup Panes!Range(u)
<1> DEFINE a == s \o u
<1>1. /\ a \in Seq(S) /\ DOMAIN a = 1 .. Len(s) + Len(u) /\ DOMAIN s = 1 .. Len(s) /\ DOMAIN u = 1 .. Len(u)
      /\ Len(s) \in Nat /\ Len(u) \in Nat
      /\ \A i \in 1 .. Len(s) + Len(u) : a[i] = IF i <= Len(s) THEN s[i] ELSE u[i - Len(s)]
  OBVIOUS
<1> HIDE DEF a
<1>2. ASSUME NEW i \in DOMAIN a PROVE (\E j \in DOMAIN s : a[i] = s[j]) \/ \E j \in DOMAIN u : a[i] = u[j]
  <2>1. CASE i <= Len(s)
    <3>1. i \in DOMAIN s /\ a[i] = s[i]
      BY <1>1, <2>1
    <3> QED BY <3>1
  <2>2. CASE ~(i <= Len(s))
    <3>1. i - Len(s) \in DOMAIN u /\ a[i] = u[i - Len(s)]
      BY <1>1, <2>2
    <3> QED BY <3>1
  <2> QED BY <2>1, <2>2
<1>3. ASSUME NEW j \in DOMAIN s PROVE \E i \in DOMAIN a : a[i] = s[j]
  <2>1. j \in DOMAIN a /\ a[j] = s[j]
    BY <1>1
  <2> QED BY <2>1
<1>4. ASSUME NEW j \in DOMAIN u PROVE \E i \in DOMAIN a : a[i] = u[j]
  <2>1. Len(s) + j \in DOMAIN a /\ ~(Len(s) + j <= Len(s)) /\ (Len(s) + j) - Len(s) = j
    BY <1>1
  <2>2. a[Len(s) + j] = u[(Len(s) + j) - Len(s)]
    BY <1>1, <2>1
  <2> QED BY <2>1, <2>2
<1>5. Panes!Range(a) = Panes!Range(s) \cup Panes!Range(u)
  BY <1>2, <1>3, <1>4 DEF Panes!Range
<1> QED BY <1>1, <1>5 DEF a

-----------------------------------------------------------------------------
(* The terminal that is found.                                               *)

LEMMA OnlyOne ==
  ASSUME NEW S, S \subseteq Terms
  PROVE  /\ Panes!Only(S) \in 0 .. 2
         /\ Panes!Only(S) # 0 => S = {Panes!Only(S)}
<1>4. \A x \in S : x = 1 \/ x = 2
  BY DEF Terms
<1>1. S \in {{}, {1}, {2}, {1, 2}}
  <2>1. CASE 1 \in S /\ 2 \in S
    <3>1. S = {1, 2}
      BY <1>4, <2>1
    <3> QED BY <3>1
  <2>2. CASE 1 \in S /\ 2 \notin S
    <3>1. S = {1}
      BY <1>4, <2>2
    <3> QED BY <3>1
  <2>3. CASE 1 \notin S /\ 2 \in S
    <3>1. S = {2}
      BY <1>4, <2>3
    <3> QED BY <3>1
  <2>4. CASE 1 \notin S /\ 2 \notin S
    <3>1. S = {}
      BY <1>4, <2>4
    <3> QED BY <3>1
  <2> QED BY <2>1, <2>2, <2>3, <2>4
<1>2. Panes!Max({1}) = 1 /\ Panes!Max({2}) = 2
  BY DEF Panes!Max
<1>3. Panes!Cardinality({}) = 0 /\ Panes!Cardinality({1}) = 1 /\ Panes!Cardinality({2}) = 1
      /\ Panes!Cardinality({1, 2}) = 2
  <2>1. \A T : Panes!Cardinality(T) = Cardinality(T)
    BY DEF Cardinality, Panes!Cardinality
  <2>2. Cardinality({}) = 0 /\ Cardinality({1}) = 1 /\ Cardinality({2}) = 1
    BY FS_EmptySet, FS_Singleton
  <2>3. Cardinality(1 .. 2) = 2
    <3>1. Cardinality(1 .. 2) = IF 1 > 2 THEN 0 ELSE (2 - 1) + 1
      BY 1 \in Int, 2 \in Int, FS_Interval
    <3> QED BY <3>1
  <2>4. 1 .. 2 = {1, 2}
    OBVIOUS
  <2> QED BY <2>1, <2>2, <2>3, <2>4
<1> QED BY <1>1, <1>2, <1>3 DEF Panes!Only, Panes!NoTerm

LEMMA FirstOne ==
  ASSUME PaneTypes
  PROVE  /\ Panes!FirstPane \in 0 .. 2
         /\ Panes!FirstPane # 0 => Panes!FirstPane \in Panes!Panes
         /\ Panes!FirstPane = 0 => Panes!Panes = {}
<1>1. Panes!Panes \in {{}, {1}, {2}, {1, 2}}
  BY DEF Panes!Panes, Panes!External, Panes!Terms
<1>2. Panes!Min({} \cup {3}) = 3 /\ Panes!Min({1} \cup {3}) = 1 /\ Panes!Min({2} \cup {3}) = 2
      /\ Panes!Min({1, 2} \cup {3}) = 1
  BY DEF Panes!Min
<1>3. 3 % 3 = 0 /\ 1 % 3 = 1 /\ 2 % 3 = 2
  OBVIOUS
<1>4. CASE Panes!Panes = {}
  BY <1>2, <1>3, <1>4 DEF Panes!FirstPane
<1>5. CASE Panes!Panes = {1}
  <2>1. Panes!FirstPane = 1
    BY <1>2, <1>3, <1>5 DEF Panes!FirstPane
  <2> QED BY <1>5, <2>1
<1>6. CASE Panes!Panes = {2}
  <2>1. Panes!FirstPane = 2
    BY <1>2, <1>3, <1>6 DEF Panes!FirstPane
  <2> QED BY <1>6, <2>1
<1>7. CASE Panes!Panes = {1, 2}
  <2>1. Panes!FirstPane = 1
    BY <1>2, <1>3, <1>7 DEF Panes!FirstPane
  <2> QED BY <1>7, <2>1
<1> QED BY <1>1, <1>4, <1>5, <1>6, <1>7

(* The overseer's target runs the conversation.                              *)
LEMMA TargetRuns ==
  ASSUME PaneTypes, Told, Right, NEW sid \in Sids, NEW newest \in Panes!Newest
  PROVE  /\ Panes!Target(sid, newest) \in 0 .. 2
         /\ Panes!Target(sid, newest) # 0 => term[Panes!Target(sid, newest)].conv = sid
<1> DEFINE P == Panes!Panes
<1> DEFINE E == Panes!External
<1>1. P \subseteq E /\ E \subseteq Terms /\ P \subseteq Terms /\ \A t \in P : term[t].tmux
  BY DEF Panes!Panes, Panes!External, Panes!Terms, Terms
<1>2. \A S : (S \subseteq Terms) => Panes!Only(S) \in 0 .. 2 /\ (Panes!Only(S) # 0 => S = {Panes!Only(S)})
  BY OnlyOne
<1>3. CASE program = "pi"
  <2>1. CASE E = {} \/ ~Panes!OwnsSession(sid, newest)
    BY <1>3, <2>1 DEF Panes!Target, Panes!PiTarget, Panes!NoTerm
  <2>2. CASE E # {} /\ Panes!OwnsSession(sid, newest) /\ Panes!Cardinality(P) < 2
    <3>1. Panes!Target(sid, newest) = Panes!Only(P)
      BY <1>3, <2>2 DEF Panes!Target, Panes!PiTarget
    <3>2. Panes!Only(P) \in 0 .. 2 /\ (Panes!Only(P) # 0 => P = {Panes!Only(P)})
      BY <1>1, <1>2
    <3>3. ASSUME Panes!Only(P) # 0 PROVE term[Panes!Only(P)].conv = sid
      <4> DEFINE t == Panes!Only(P)
      <4>1. P = {t} /\ t \in Terms
        BY <1>1, <3>2, <3>3
      <4> HIDE DEF t
      <4>2. E = {t}
        <5>1. \A u \in E : term[u].tmux
          BY <1>1, <4>1 DEF Right
        <5>2. E \subseteq P
          BY <5>1 DEF Panes!Panes
        <5> QED BY <1>1, <4>1, <5>2
      <4>3. Panes!FirstPane = t
        BY <4>1, FirstOne
      <4>4. CASE term[t].shown
        BY <2>2, <4>1, <4>3, <4>4 DEF Panes!OwnsSession, Panes!ScreenShows, Panes!NoTerm, t, Terms
      <4>5. CASE ~term[t].shown
        <5>1. newest = sid
          BY <2>2, <4>3, <4>5 DEF Panes!OwnsSession
        <5>2. newest = term[t].conv
          BY <4>2 DEF Panes!Newest, Told
        <5> QED BY <5>1, <5>2 DEF t
      <4> QED BY <4>4, <4>5
    <3> QED BY <3>1, <3>2, <3>3
  <2>3. CASE E # {} /\ Panes!OwnsSession(sid, newest) /\ ~(Panes!Cardinality(P) < 2)
    <3> DEFINE S == {t \in P : Panes!ScreenShows(t, sid)}
    <3>1. Panes!Target(sid, newest) = Panes!Only(S)
      BY <1>3, <2>3 DEF Panes!Target, Panes!PiTarget
    <3>2. Panes!Only(S) \in 0 .. 2 /\ (Panes!Only(S) # 0 => Panes!Only(S) \in S)
      <4>1. S \subseteq Terms
        BY <1>1
      <4> HIDE DEF S
      <4> QED BY <1>2, <4>1
    <3> QED BY <3>1, <3>2 DEF Panes!ScreenShows
  <2> QED BY <2>1, <2>2, <2>3
<1>4. CASE program = "claude"
  <2> DEFINE D == Panes!Drivers(sid) \cap Panes!Recorded
  <2> DEFINE O == D \cap P
  <2> DEFINE S == {t \in Panes!Drivers(sid) \cap P : Panes!ScreenShows(t, sid)}
  <2>1. O \subseteq Terms /\ S \subseteq Terms
    BY <1>1
  <2>2. \A t \in O : term[t].conv = sid
    BY DEF Panes!Drivers
  <2>3. \A t \in S : term[t].conv = sid
    BY DEF Panes!ScreenShows
  <2>4. Panes!Target(sid, newest) = Panes!Only(O) \/ Panes!Target(sid, newest) = Panes!Only(S)
    BY <1>4 DEF Panes!Target, Panes!ClaudeTarget
  <2> HIDE DEF O, S
  <2>5. /\ Panes!Only(O) \in 0 .. 2 /\ (Panes!Only(O) # 0 => Panes!Only(O) \in O)
        /\ Panes!Only(S) \in 0 .. 2 /\ (Panes!Only(S) # 0 => Panes!Only(S) \in S)
    BY <1>2, <2>1
  <2> QED BY <2>2, <2>3, <2>4, <2>5
<1> QED BY <1>3, <1>4 DEF PaneTypes

(* Whoever sends, what is found is a terminal or none.                       *)
LEMMA TargetIsTerm ==
  ASSUME PaneTypes, NEW sid \in Sids, NEW newest
  PROVE  Panes!Target(sid, newest) \in 0 .. 2 /\ Panes!PhoneTarget(sid, newest) \in 0 .. 2
<1>1. \A S : (S \subseteq Terms) => Panes!Only(S) \in 0 .. 2
  BY OnlyOne
<1>2. Panes!FirstPane \in 0 .. 2 /\ 0 \in 0 .. 2
  BY FirstOne
<1>3. Panes!Panes \subseteq Terms
  BY DEF Panes!Panes, Panes!External, Panes!Terms, Terms
<1>4. Panes!Target(sid, newest) \in 0 .. 2
  <2>1. Panes!PiTarget(sid, newest) \in 0 .. 2
    <3>1. {t \in Panes!Panes : Panes!ScreenShows(t, sid)} \subseteq Terms
      BY <1>3
    <3> QED BY <1>1, <1>2, <1>3, <3>1 DEF Panes!PiTarget, Panes!NoTerm
  <2>2. Panes!ClaudeTarget(sid) \in 0 .. 2
    <3>1. /\ {t \in Panes!Drivers(sid) \cap Panes!Panes : Panes!ScreenShows(t, sid)} \subseteq Terms
          /\ (Panes!Drivers(sid) \cap Panes!Recorded) \cap Panes!Panes \subseteq Terms
      BY <1>3
    <3> QED BY <1>1, <3>1 DEF Panes!ClaudeTarget
  <2> QED BY <2>1, <2>2 DEF Panes!Target
<1>5. Panes!PhoneTarget(sid, newest) \in 0 .. 2
  <2>1. Panes!PiPhoneTarget(sid, newest) \in 0 .. 2
    BY <1>2 DEF Panes!PiPhoneTarget, Panes!NoTerm
  <2>2. Panes!ClaudePhoneTarget(sid, newest) \in 0 .. 2
    <3>1. (Panes!Drivers(sid) \cap Panes!Recorded) \cap Panes!Panes \subseteq Terms
      BY <1>3
    <3> QED BY <1>1, <1>2, <3>1 DEF Panes!ClaudePhoneTarget, Panes!NoTerm
  <2> QED BY <2>1, <2>2 DEF Panes!PhoneTarget
<1> QED BY <1>4, <1>5

LEMMA PaneInit == ASSUME PaneNames PROVE Panes!Init => PaneInv
<1> SUFFICES ASSUME Panes!Init PROVE PaneInv
  OBVIOUS
<1> DEFINE new == [at |-> "new", route |-> "overseer", sid |-> "none", to |-> 0, after |-> "none"]
<1>1. /\ program \in {"pi", "claude"} /\ term \in [Terms -> Term]
      /\ \A t, u \in Terms : "outside" \in PaneHappens \/ term[t].tmux = term[u].tmux
      /\ input = [t \in Terms |-> << >>] /\ unread = [t \in Terms |-> << >>] /\ read = {}
      /\ last = [t \in Terms |-> "none"] /\ delivery = [m \in Messages |-> new]
  <2>1. /\ program \in {"pi", "claude"}
        /\ term \in [Terms -> [on : {TRUE}, tmux : BOOLEAN, conv : Sids, shown : BOOLEAN, known : BOOLEAN,
                               menu : {FALSE}]]
        /\ "outside" \in PaneHappens \/ term[1].tmux = term[2].tmux
        /\ input = [t \in Terms |-> << >>] /\ unread = [t \in Terms |-> << >>] /\ read = {}
        /\ last = [t \in Terms |-> "none"] /\ delivery = [m \in Messages |-> new]
    BY DEF Panes!Init, Panes!Terms, Terms, Panes!None, Panes!New, Panes!NoTerm
  <2>2. term \in [Terms -> Term]
    BY <2>1 DEF Term
  <2>3. \A t, u \in Terms : "outside" \in PaneHappens \/ term[t].tmux = term[u].tmux
    BY <2>1 DEF Terms
  <2> QED BY <2>1, <2>2, <2>3
<1>2. new \in Call /\ new.at = "new"
  BY DEF Call, Steps
<1> HIDE DEF new
<1>3. \A m \in Messages : delivery[m].at = "new"
  BY <1>1, <1>2
<1>4. PaneTypes
  <2>1. << >> \in Seq(Messages \cup {"user"})
    OBVIOUS
  <2> QED BY <1>1, <1>2, <1>3, <2>1 DEF PaneTypes, Flies
<1>5. \A t \in Terms : Typed(t) = {} /\ Sent(t) = {}
  <2>1. Panes!Range(<< >>) = {}
    BY << >> \in Seq({}), Holds
  <2> QED BY <1>1, <2>1 DEF Typed, Sent
<1>6. Delivered
  BY <1>1, <1>5 DEF Delivered
<1>7. Serial
  BY <1>1, <1>3, <1>5 DEF Serial, Flies
<1>8. Told => Right
  BY <1>1, <1>3, <1>5 DEF Right, Told, Flies
<1>9. Clear
  BY <1>1, <1>3, <1>5 DEF Clear
<1> QED BY <1>4, <1>6, <1>7, <1>8, <1>9 DEF PaneInv

-----------------------------------------------------------------------------
(* The steps, by what they do to one delivery and what stands in terminals.  *)

(* What a delivery's step may do before it types.                            *)
LEMMA CallStep ==
  ASSUME PaneInv, NEW m \in Messages, NEW now \in Call,
         UNCHANGED <<program, term, input, unread, last, read>>,
         delivery' = [delivery EXCEPT ![m] = now],
         delivery[m].at \notin {"enter", "done"}, now.at \notin {"enter", "done"},
         now.at \in {"gap", "check", "look", "type", "enter"} => now.to \in Terms,
         now.at \in {"gap", "check", "look", "type", "enter"} /\ OneAtATime =>
           /\ \A n \in Messages : Flies(n) => n = m
           /\ Sent(now.to) # {} => now.at = "gap" /\ now.after \in Sent(now.to),
         now.at \in {"gap", "check", "look", "type", "enter"} /\ now.route = "overseer" /\ Told =>
           term[now.to].conv = now.sid,
         now.at = "type" /\ now.route = "overseer" =>
           Waiting(now.to) /\ Typed(now.to) = {}
  PROVE  PaneInv'
<1>1. PaneTypes /\ Delivered
  BY DEF PaneInv
<1>2. delivery'[m] = now /\ \A n \in Messages \ {m} : delivery'[n] = delivery[n]
  BY <1>1 DEF PaneTypes
<1>3. \A t \in Terms : Typed(t)' = Typed(t) /\ Sent(t)' = Sent(t) /\ Waiting(t)' = Waiting(t)
  BY DEF Typed, Sent, Waiting
<1>4. \A t \in Terms : m \notin Typed(t) /\ m \notin Sent(t)
  BY <1>1 DEF Delivered
<1>5. \A l \in read : m \notin l.holds
  BY <1>1 DEF Delivered
<1>6. Flies(m)' => now.at \in {"gap", "check", "look", "type", "enter"}
  BY <1>2 DEF Flies
<1>7. PaneTypes'
  <2>1. delivery' \in [Messages -> Call]
    BY <1>1 DEF PaneTypes
  <2>2. \A n \in Messages : Flies(n)' => delivery'[n].to \in Terms
    <3>1. Flies(m)' => delivery'[m].to \in Terms
      BY <1>2, <1>6
    <3>2. \A n \in Messages \ {m} : Flies(n)' => delivery'[n].to \in Terms
      BY <1>1, <1>2 DEF PaneTypes, Flies
    <3> QED BY <3>1, <3>2
  <2> QED BY <1>1, <2>1, <2>2 DEF PaneTypes
<1>8. Delivered'
  BY <1>1, <1>2, <1>3, <1>4, <1>5 DEF Delivered
<1>9. ASSUME OneAtATime PROVE Serial'
  <2>1. Serial
    BY <1>9 DEF PaneInv
  <2>2. \A n, k \in Messages : Flies(n)' /\ Flies(k)' => n = k
    <3>1. CASE Flies(m)'
      BY <1>2, <1>6, <1>9, <3>1 DEF Flies
    <3>2. CASE ~Flies(m)'
      BY <1>2, <2>1, <3>2 DEF Flies, Serial
    <3> QED BY <3>1, <3>2
  <2>3. \A t \in Terms, n \in Messages : /\ n \in Typed(t)' => delivery'[n].at = "enter"
                                         /\ n \in Sent(t)' => delivery'[n].at = "done"
    BY <1>2, <1>3, <1>4, <2>1 DEF Serial
  <2>4. ASSUME NEW n \in Messages, NEW t \in Terms, delivery'[n].to = t
        PROVE /\ delivery'[n].at = "enter" => n \in Typed(t)'
              /\ Flies(n)' /\ Sent(t)' # {} => delivery'[n].at = "gap" /\ delivery'[n].after \in Sent(t)'
    <3>1. CASE n = m
      BY <1>2, <1>3, <1>6, <1>9, <2>4, <3>1
    <3>2. CASE n # m
      BY <1>2, <1>3, <2>1, <2>4, <3>2 DEF Serial, Flies
    <3> QED BY <3>1, <3>2
  <2>5. (program' = "pi" => \A t \in Terms : Sent(t)' # {} => last'[t] \in Sent(t)' /\ last'[t] # "none")
        /\ (\A t \in Terms : \A n, k \in Messages \cap Sent(t)' : n = k)
        /\ \A l \in read' : \A n, k \in Messages \cap l.holds : n = k
    BY <1>3, <2>1 DEF Serial
  <2> QED BY <2>2, <2>3, <2>4, <2>5 DEF Serial
<1>10. ASSUME Told PROVE Right'
  <2>1. Right
    BY <1>10 DEF PaneInv
  <2>2. ASSUME NEW n \in Messages, Flies(n)', Overseers(n)' PROVE term'[delivery'[n].to].conv = delivery'[n].sid
    <3>1. CASE n = m
      BY <1>2, <1>6, <1>10, <2>2, <3>1 DEF Overseers
    <3>2. CASE n # m
      BY <1>2, <2>1, <2>2, <3>2 DEF Right, Flies, Overseers
    <3> QED BY <3>1, <3>2
  <2>3. \A t \in Terms, n \in Messages : n \in Typed(t)' \cup Sent(t)' /\ Overseers(n)' => term'[t].conv = delivery'[n].sid
    BY <1>2, <1>3, <1>4, <2>1 DEF Right, Overseers
  <2>4. \A l \in read', n \in Messages : n \in l.holds /\ Overseers(n)' => l.by \in {"shell", "menu", delivery'[n].sid}
    BY <1>2, <1>5, <2>1 DEF Right, Overseers
  <2> QED BY <2>1, <2>2, <2>3, <2>4 DEF Right
<1>11. ASSUME OneAtATime, Told, UserWaits PROVE Clear'
  <2>1. Clear
    BY <1>11 DEF PaneInv
  <2>2. ASSUME NEW n \in Messages, NEW t \in Terms, Overseers(n)', delivery'[n].to = t
        PROVE  /\ delivery'[n].at \in {"type", "enter"} => Waiting(t)'
               /\ delivery'[n].at = "type" => Typed(t)' = {}
               /\ delivery'[n].at = "enter" => Typed(t)' = {n}
    <3>1. CASE n = m
      BY <1>2, <1>3, <2>2, <3>1 DEF Overseers
    <3>2. CASE n # m
      BY <1>2, <1>3, <2>1, <2>2, <3>2 DEF Clear, Overseers
    <3> QED BY <3>1, <3>2
  <2>3. \A t \in Terms, n \in Messages : n \in Sent(t)' /\ Overseers(n)' => Sent(t)' = {n} /\ Waiting(t)'
    BY <1>2, <1>3, <1>4, <2>1 DEF Clear, Overseers
  <2>4. \A l \in read', n \in Messages : n \in l.holds /\ Overseers(n)' => l.holds = {n} /\ l.by = delivery'[n].sid
    BY <1>2, <1>5, <2>1 DEF Clear, Overseers
  <2> QED BY <2>2, <2>3, <2>4 DEF Clear
<1> QED BY <1>7, <1>8, <1>9, <1>10, <1>11 DEF PaneInv, OneAtATime, Told, UserWaits

LEMMA PaneFound ==
  ASSUME PaneInv, NEW m \in Messages, NEW sid \in Sids, NEW route \in {"overseer", "phone"}, NEW t \in 0 .. 2,
         delivery[m] = Panes!New, Panes!Found(m, route, sid, t),
         "overlap" \in PaneHappens \/ Panes!InFlight = {},
         program = "claude" => \A u \in Terms : unread[u] = << >>,
         t # 0 /\ route = "overseer" /\ Told => term[t].conv = sid,
         UNCHANGED <<program, term, input, unread, last, read>>
  PROVE  PaneInv'
<1> DEFINE gap == t # 0 /\ program = "pi" /\ last[t] # "none"
<1> DEFINE now == [at |-> IF t = 0 THEN "blocked" ELSE IF gap THEN "gap" ELSE "check",
                   route |-> route, sid |-> sid, to |-> t, after |-> IF gap THEN last[t] ELSE "none"]
<1>1. delivery' = [delivery EXCEPT ![m] = now]
  BY DEF Panes!Found, Panes!NoTerm, Panes!None
<1>2. t # 0 => t \in Terms
  BY DEF Terms
<1>3. gap => last[t] \in Messages \cup {"none"}
  BY <1>2 DEF PaneInv, PaneTypes
<1>4. now \in Call
  BY <1>3 DEF Call, Steps
<1>5. /\ now.at \in {"blocked", "gap", "check"} /\ (now.at = "blocked") = (t = 0) /\ (now.at = "gap") = gap
      /\ now.to = t /\ now.route = route /\ now.sid = sid /\ (gap => now.after = last[t])
  OBVIOUS
<1>6. delivery[m].at = "new"
  BY DEF Panes!New
<1>7. OneAtATime => \A n \in Messages : ~Flies(n)
  BY DEF OneAtATime, Panes!InFlight, Flies
<1>8. ASSUME OneAtATime, t # 0, Sent(t) # {} PROVE gap /\ last[t] \in Sent(t)
  <2>1. unread[t] # << >>
    BY <1>8, Holds, << >> \in Seq({}) DEF Sent
  <2>2. program = "pi"
    BY <1>2, <1>8, <2>1 DEF PaneInv, PaneTypes
  <2>3. Serial
    BY <1>8 DEF PaneInv
  <2> QED BY <1>2, <1>8, <2>2, <2>3 DEF Serial
<1> HIDE DEF now, gap
<1> QED BY <1>1, <1>2, <1>4, <1>5, <1>6, <1>7, <1>8, CallStep

LEMMA PaneDeliver ==
  ASSUME PaneNames, PaneInv, NEW m \in Messages, NEW sid \in Sids, Panes!Deliver(m, sid)
  PROVE  PaneInv'
<1>1. /\ delivery[m] = Panes!New
      /\ "overlap" \in PaneHappens \/ Panes!InFlight = {}
      /\ program = "claude" => \A u \in Terms : unread[u] = << >>
      /\ UNCHANGED <<program, term, input, unread, last, read>>
  BY DEF Panes!Deliver, Panes!Terms, Terms, Panes!world, Panes!panes
<1>2. PICK newest \in Panes!Newest : Panes!Found(m, "overseer", sid, Panes!Target(sid, newest))
  BY DEF Panes!Deliver
<1>3. PaneTypes /\ (Told => Right)
  BY DEF PaneInv
<1>4. PICK t \in 0 .. 2 : t = Panes!Target(sid, newest)
  BY <1>3, TargetIsTerm
<1>5. t # 0 /\ Told => term[t].conv = sid
  BY <1>3, <1>4, TargetRuns
<1> QED BY <1>1, <1>2, <1>4, <1>5, PaneFound

LEMMA PanePhone ==
  ASSUME PaneNames, PaneInv, NEW m \in Messages, NEW sid \in Sids, Panes!PhonePrompt(m, sid)
  PROVE  PaneInv'
<1>1. /\ delivery[m] = Panes!New
      /\ "overlap" \in PaneHappens \/ Panes!InFlight = {}
      /\ program = "claude" => \A u \in Terms : unread[u] = << >>
      /\ UNCHANGED <<program, term, input, unread, last, read>>
  BY DEF Panes!PhonePrompt, Panes!Terms, Terms, Panes!world, Panes!panes
<1> DEFINE now == [Panes!New EXCEPT !.at = "elsewhere", !.route = "phone", !.sid = sid]
<1>2. PICK newest \in Panes!Newest :
        \/ delivery' = [delivery EXCEPT ![m] = now]
        \/ Panes!Found(m, "phone", sid, Panes!PhoneTarget(sid, newest))
  BY DEF Panes!PhonePrompt
<1>3. CASE delivery' = [delivery EXCEPT ![m] = now]
  <2>1. /\ now.at = "elsewhere" /\ now.route = "phone" /\ now.sid = sid /\ now.to = 0 /\ now.after = "none"
        /\ now \in [at : {"elsewhere"}, route : {"phone"}, sid : {sid}, to : {0}, after : {"none"}]
    <3>1. Panes!New \in [at : {"new"}, route : {"overseer"}, sid : {"none"}, to : {0}, after : {"none"}]
      BY DEF Panes!New, Panes!None, Panes!NoTerm
    <3> QED BY <3>1
  <2>2. delivery[m].at = "new"
    BY <1>1 DEF Panes!New
  <2>3. now \in Call /\ now.at = "elsewhere"
    BY <2>1 DEF Call, Steps
  <2> HIDE DEF now
  <2> QED BY <1>1, <1>3, <2>2, <2>3, CallStep
<1>4. CASE Panes!Found(m, "phone", sid, Panes!PhoneTarget(sid, newest))
  <2>1. PICK t \in 0 .. 2 : t = Panes!PhoneTarget(sid, newest)
    BY TargetIsTerm DEF PaneInv
  <2> QED BY <1>1, <1>4, <2>1, PaneFound
<1> QED BY <1>2, <1>3, <1>4

(* A delivery that goes on.                                                  *)
LEMMA PaneGoes ==
  ASSUME PaneInv, NEW m \in Messages, NEW at \in {"check", "look", "type", "blocked"},
         delivery[m].at \in {"gap", "check", "look"},
         delivery' = [delivery EXCEPT ![m].at = at],
         OneAtATime => \A t \in Terms : delivery[m].to = t => Sent(t) = {},
         at = "type" /\ Overseers(m) => \A t \in Terms : delivery[m].to = t => Waiting(t) /\ Typed(t) = {},
         UNCHANGED <<program, term, input, unread, last, read>>
  PROVE  PaneInv'
<1> DEFINE now == [delivery[m] EXCEPT !.at = at]
<1>1. delivery[m] \in Call /\ delivery[m].to \in Terms
  BY DEF PaneInv, PaneTypes, Flies
<1>2. /\ now \in Call /\ now.at = at /\ now.route = delivery[m].route /\ now.sid = delivery[m].sid
      /\ now.to = delivery[m].to
  BY <1>1 DEF Call, Steps
<1>3. delivery' = [delivery EXCEPT ![m] = now]
  OBVIOUS
<1> HIDE DEF now
<1>4. PICK t \in Terms : t = delivery[m].to
  BY <1>1
<1>5. Flies(m)
  BY DEF Flies
<1>6. OneAtATime => (\A n \in Messages : Flies(n) => n = m) /\ Sent(t) = {}
  BY <1>4, <1>5 DEF PaneInv, Serial
<1>7. now.route = "overseer" /\ Told => term[now.to].conv = now.sid
  BY <1>2, <1>5 DEF PaneInv, Right, Overseers
<1>8. now.at = "type" /\ now.route = "overseer" => Waiting(now.to) /\ Typed(now.to) = {}
  BY <1>2, <1>4 DEF Overseers
<1>9. OneAtATime => Sent(now.to) = {}
  BY <1>2, <1>4, <1>6
<1>10. /\ now.to \in Terms /\ now.at \notin {"enter", "done"} /\ delivery[m].at \notin {"enter", "done"}
  BY <1>1, <1>2
<1> QED BY <1>2, <1>3, <1>6, <1>7, <1>8, <1>9, <1>10, CallStep

LEMMA PaneLooks ==
  ASSUME PaneInv, NEW m \in Messages, Panes!Wake(m) \/ Panes!Check(m) \/ Panes!Look(m)
  PROVE  PaneInv'
<1>1. UNCHANGED <<program, term, input, unread, last, read>>
  BY DEF Panes!Wake, Panes!Check, Panes!Look, Panes!world, Panes!panes
<1>2. OneAtATime => Serial
  BY DEF PaneInv
<1>3. CASE Panes!Wake(m)
  <2>1. delivery[m].at = "gap" /\ delivery' = [delivery EXCEPT ![m].at = "check"]
        /\ \A t \in Terms : delivery[m].after \notin Sent(t)
    BY <1>3 DEF Panes!Wake, Panes!Awake, Panes!Terms, Terms, Sent
  <2>2. OneAtATime => \A t \in Terms : delivery[m].to = t => Sent(t) = {}
    BY <1>2, <2>1 DEF Serial, Flies
  <2> QED BY <1>1, <2>1, <2>2, PaneGoes
<1>4. ASSUME delivery[m].at \in {"check", "look"} PROVE OneAtATime => \A t \in Terms : delivery[m].to = t => Sent(t) = {}
  BY <1>2, <1>4 DEF Serial, Flies
<1>5. CASE Panes!Check(m)
  <2>1. PICK at \in {"type", "look", "blocked"} :
          /\ delivery[m].at = "check" /\ delivery' = [delivery EXCEPT ![m].at = at]
          /\ at = "type" => ~Overseers(m)
    BY <1>5 DEF Panes!Check, Overseers
  <2> QED BY <1>1, <1>4, <2>1, PaneGoes
<1>6. CASE Panes!Look(m)
  <2>1. PICK at \in {"type", "blocked"} :
          /\ delivery[m].at = "look" /\ delivery' = [delivery EXCEPT ![m].at = at]
          /\ at = "type" => Panes!InputReady(delivery[m].to)
    BY <1>6 DEF Panes!Look
  <2>2. \A t \in Terms : Panes!InputReady(t) => Waiting(t) /\ Typed(t) = {}
    BY << >> \in Seq({}), Holds DEF Panes!InputReady, Waiting, Typed
  <2> QED BY <1>1, <1>4, <2>1, <2>2, PaneGoes
<1> QED BY <1>3, <1>5, <1>6

(* The text is typed.                                                        *)
LEMMA PaneType ==
  ASSUME PaneNames, PaneInv, NEW m \in Messages, Panes!Type(m)
  PROVE  PaneInv'
<1>1. PaneTypes /\ Delivered
  BY DEF PaneInv
<1>2. /\ delivery[m].at = "type"
      /\ delivery' = [delivery EXCEPT ![m].at = "enter"]
      /\ input' = [input EXCEPT ![delivery[m].to] = Append(@, m)]
      /\ UNCHANGED <<program, term, unread, last, read>>
  BY DEF Panes!Type, Panes!world
<1>3. PICK d \in Terms : d = delivery[m].to
  BY <1>1, <1>2 DEF PaneTypes, Flies
<1>4. /\ delivery'[m].at = "enter" /\ delivery'[m].to = d /\ delivery'[m].route = delivery[m].route
      /\ delivery'[m].sid = delivery[m].sid /\ delivery' \in [Messages -> Call]
      /\ \A n \in Messages \ {m} : delivery'[n] = delivery[n]
  BY <1>1, <1>2, <1>3 DEF PaneTypes, Call, Steps
<1>5. /\ input' \in [Terms -> Seq(Messages \cup {"user"})]
      /\ Typed(d)' = Typed(d) \cup {m} /\ \A t \in Terms \ {d} : Typed(t)' = Typed(t)
  <2>1. input[d] \in Seq(Messages \cup {"user"}) /\ m \in Messages \cup {"user"}
    BY <1>1 DEF PaneTypes
  <2>2. Append(input[d], m) \in Seq(Messages \cup {"user"}) /\ Panes!Range(Append(input[d], m)) = Typed(d) \cup {m}
    BY <2>1, HoldsAppend DEF Typed
  <2>3. input'[d] = Append(input[d], m) /\ \A t \in Terms \ {d} : input'[t] = input[t]
    BY <1>1, <1>2, <1>3 DEF PaneTypes
  <2>4. input' \in [Terms -> Seq(Messages \cup {"user"})]
    BY <1>1, <1>2, <1>3, <2>2 DEF PaneTypes
  <2> QED BY <2>2, <2>3, <2>4 DEF Typed
<1>6. \A t \in Terms : Sent(t)' = Sent(t) /\ Waiting(t)' = Waiting(t) /\ m \notin Typed(t) /\ m \notin Sent(t)
  BY <1>1, <1>2 DEF Sent, Waiting, Delivered
<1>7. \A l \in read : m \notin l.holds
  BY <1>1, <1>2 DEF Delivered
<1>8. Flies(m) /\ Flies(m)' /\ \A n \in Messages \ {m} : Flies(n)' = Flies(n)
  BY <1>2, <1>4 DEF Flies
<1>9. PaneTypes'
  <2>1. \A n \in Messages : Flies(n)' => delivery'[n].to \in Terms
    BY <1>1, <1>4, <1>8 DEF PaneTypes
  <2> QED BY <1>1, <1>2, <1>4, <1>5, <2>1 DEF PaneTypes
<1>10. Delivered'
  <2>1. ASSUME NEW t \in Terms, NEW n \in Messages, n \in Typed(t)' \cup Sent(t)'
        PROVE  delivery'[n].at \in {"enter", "done"} /\ delivery'[n].to = t
    <3>1. CASE n = m
      <4>1. t = d
        BY <1>5, <1>6, <2>1, <3>1
      <4> QED BY <1>4, <3>1, <4>1
    <3>2. CASE n # m
      <4>1. n \in Typed(t) \cup Sent(t)
        BY <1>5, <1>6, <2>1, <3>2
      <4> QED BY <1>1, <1>4, <3>2, <4>1 DEF Delivered
    <3> QED BY <3>1, <3>2
  <2> QED BY <1>1, <1>2, <1>4, <1>7, <2>1 DEF Delivered
<1>11. ASSUME OneAtATime PROVE Serial'
  <2>1. Serial
    BY <1>11 DEF PaneInv
  <2>2. \A n, k \in Messages : Flies(n)' /\ Flies(k)' => n = k
    BY <1>8, <2>1 DEF Serial
  <2>3. Sent(d) = {}
    BY <1>2, <1>3, <1>8, <2>1 DEF Serial
  <2>4. \A t \in Terms, n \in Messages : /\ n \in Typed(t)' => delivery'[n].at = "enter"
                                         /\ n \in Sent(t)' => delivery'[n].at = "done"
    BY <1>4, <1>5, <1>6, <2>1 DEF Serial
  <2>5. ASSUME NEW n \in Messages, NEW t \in Terms, delivery'[n].to = t
        PROVE /\ delivery'[n].at = "enter" => n \in Typed(t)'
              /\ Flies(n)' /\ Sent(t)' # {} => delivery'[n].at = "gap" /\ delivery'[n].after \in Sent(t)'
    <3>1. CASE n = m
      BY <1>4, <1>5, <1>6, <2>3, <2>5, <3>1
    <3>2. CASE n # m
      <4>1. delivery'[n] = delivery[n] /\ ~Flies(n) /\ ~Flies(n)'
        BY <1>4, <1>8, <2>1, <3>2 DEF Serial
      <4> QED BY <4>1 DEF Flies
    <3> QED BY <3>1, <3>2
  <2>6. (program' = "pi" => \A t \in Terms : Sent(t)' # {} => last'[t] \in Sent(t)' /\ last'[t] # "none")
        /\ (\A t \in Terms : \A n, k \in Messages \cap Sent(t)' : n = k)
        /\ \A l \in read' : \A n, k \in Messages \cap l.holds : n = k
    BY <1>2, <1>6, <2>1 DEF Serial
  <2> QED BY <2>2, <2>4, <2>5, <2>6 DEF Serial
<1>12. ASSUME Told PROVE Right'
  <2>1. Right
    BY <1>12 DEF PaneInv
  <2>2. \A n \in Messages : Overseers(n)' = Overseers(n) /\ delivery'[n].sid = delivery[n].sid
                            /\ delivery'[n].to = delivery[n].to /\ Flies(n)' = Flies(n)
    <3>1. Overseers(m)' = Overseers(m)
      BY <1>4 DEF Overseers
    <3>2. \A n \in Messages \ {m} : Overseers(n)' = Overseers(n)
      BY <1>4 DEF Overseers
    <3>3. delivery'[m].sid = delivery[m].sid /\ delivery'[m].to = delivery[m].to /\ Flies(m)' = Flies(m)
      BY <1>3, <1>4, <1>8
    <3>4. \A n \in Messages \ {m} : delivery'[n].sid = delivery[n].sid /\ delivery'[n].to = delivery[n].to
      BY <1>4
    <3> QED BY <1>8, <3>1, <3>2, <3>3, <3>4
  <2>3. ASSUME NEW t \in Terms, NEW n \in Messages, n \in Typed(t)' \cup Sent(t)', Overseers(n)'
        PROVE  term'[t].conv = delivery'[n].sid
    <3>1. CASE n = m
      <4>1. t = d
        BY <1>5, <1>6, <2>3, <3>1
      <4> QED BY <1>2, <1>3, <1>8, <2>1, <2>2, <2>3, <3>1, <4>1 DEF Right
    <3>2. CASE n # m
      <4>1. n \in Typed(t) \cup Sent(t)
        BY <1>5, <1>6, <2>3, <3>2
      <4> QED BY <1>2, <2>1, <2>2, <2>3, <4>1 DEF Right
    <3> QED BY <3>1, <3>2
  <2>4. \A n \in Messages : Flies(n)' /\ Overseers(n)' => term'[delivery'[n].to].conv = delivery'[n].sid
    BY <1>2, <2>1, <2>2 DEF Right
  <2>5. \A l \in read', n \in Messages : n \in l.holds /\ Overseers(n)' => l.by \in {"shell", "menu", delivery'[n].sid}
    BY <1>2, <2>1, <2>2 DEF Right
  <2> QED BY <1>2, <2>1, <2>3, <2>4, <2>5 DEF Right
<1>13. ASSUME OneAtATime, Told, UserWaits PROVE Clear'
  <2>1. Clear
    BY <1>13 DEF PaneInv
  <2>2. ASSUME NEW n \in Messages, NEW t \in Terms, Overseers(n)', delivery'[n].to = t
        PROVE  /\ delivery'[n].at \in {"type", "enter"} => Waiting(t)'
               /\ delivery'[n].at = "type" => Typed(t)' = {}
               /\ delivery'[n].at = "enter" => Typed(t)' = {n}
    <3>1. CASE n = m
      <4>1. t = d /\ Overseers(m)
        BY <1>4, <2>2, <3>1 DEF Overseers
      <4>2. Waiting(d) /\ Typed(d) = {}
        BY <1>2, <1>3, <2>1, <4>1 DEF Clear
      <4> QED BY <1>4, <1>5, <1>6, <3>1, <4>1, <4>2
    <3>2. CASE n # m
      <4>1. delivery'[n] = delivery[n] /\ ~Flies(n)
        BY <1>4, <1>8, <1>13, <3>2 DEF PaneInv, Serial
      <4> QED BY <4>1 DEF Flies
    <3> QED BY <3>1, <3>2
  <2>3. \A t \in Terms, n \in Messages : n \in Sent(t)' /\ Overseers(n)' => Sent(t)' = {n} /\ Waiting(t)'
    BY <1>4, <1>6, <2>1 DEF Clear, Overseers
  <2>4. \A l \in read', n \in Messages : n \in l.holds /\ Overseers(n)' => l.holds = {n} /\ l.by = delivery'[n].sid
    BY <1>2, <1>4, <1>7, <2>1 DEF Clear, Overseers
  <2> QED BY <2>2, <2>3, <2>4 DEF Clear
<1> QED BY <1>9, <1>10, <1>11, <1>12, <1>13 DEF PaneInv, OneAtATime, Told, UserWaits

(* Enter: what was typed is sent.                                            *)
LEMMA PaneEnter ==
  ASSUME PaneNames, PaneInv, NEW m \in Messages, Panes!Enter(m)
  PROVE  PaneInv'
<1>1. PaneTypes /\ Delivered
  BY DEF PaneInv
<1>2. /\ delivery[m].at = "enter"
      /\ delivery' = [delivery EXCEPT ![m].at = "done"]
      /\ unread' = [unread EXCEPT ![delivery[m].to] = @ \o input[delivery[m].to]]
      /\ input' = [input EXCEPT ![delivery[m].to] = << >>]
      /\ last' = [last EXCEPT ![delivery[m].to] = IF program = "pi" THEN m ELSE "none"]
      /\ UNCHANGED <<program, term, read>>
  BY DEF Panes!Enter, Panes!world, Panes!None
<1>3. PICK d \in Terms : d = delivery[m].to
  BY <1>1, <1>2 DEF PaneTypes, Flies
<1>4. /\ delivery'[m].at = "done" /\ delivery'[m].to = d /\ delivery'[m].route = delivery[m].route
      /\ delivery'[m].sid = delivery[m].sid /\ delivery' \in [Messages -> Call]
      /\ \A n \in Messages \ {m} : delivery'[n] = delivery[n]
  BY <1>1, <1>2, <1>3 DEF PaneTypes, Call, Steps
<1>5. /\ input' \in [Terms -> Seq(Messages \cup {"user"})]
      /\ Typed(d)' = {} /\ \A t \in Terms \ {d} : Typed(t)' = Typed(t)
  <2>1. << >> \in Seq(Messages \cup {"user"}) /\ Panes!Range(<< >>) = {}
    <3>1. Panes!Range(<< >>) = {}
      BY << >> \in Seq({}), Holds
    <3> QED BY <3>1
  <2>2. input' \in [Terms -> Seq(Messages \cup {"user"})]
    BY <1>1, <1>2, <1>3, <2>1 DEF PaneTypes
  <2>3. input'[d] = << >> /\ \A t \in Terms \ {d} : input'[t] = input[t]
    BY <1>1, <1>2, <1>3 DEF PaneTypes
  <2> QED BY <2>1, <2>2, <2>3 DEF Typed
<1>6. /\ unread' \in [Terms -> Seq(Messages \cup {"user"})]
      /\ Sent(d)' = Sent(d) \cup Typed(d) /\ \A t \in Terms \ {d} : Sent(t)' = Sent(t)
  <2>1. unread[d] \in Seq(Messages \cup {"user"}) /\ input[d] \in Seq(Messages \cup {"user"})
    BY <1>1 DEF PaneTypes
  <2>2. unread[d] \o input[d] \in Seq(Messages \cup {"user"})
        /\ Panes!Range(unread[d] \o input[d]) = Sent(d) \cup Typed(d)
    BY <2>1, HoldsJoined DEF Sent, Typed
  <2>3. unread' \in [Terms -> Seq(Messages \cup {"user"})]
    BY <1>1, <1>2, <1>3, <2>2 DEF PaneTypes
  <2>4. unread'[d] = unread[d] \o input[d] /\ \A t \in Terms \ {d} : unread'[t] = unread[t]
    BY <1>1, <1>2, <1>3 DEF PaneTypes
  <2> QED BY <2>2, <2>3, <2>4 DEF Sent
<1>7. /\ last' \in [Terms -> Messages \cup {"none"}] /\ last'[d] = IF program = "pi" THEN m ELSE "none"
      /\ \A t \in Terms \ {d} : last'[t] = last[t]
  BY <1>1, <1>2, <1>3 DEF PaneTypes
<1>8. Flies(m) /\ ~Flies(m)' /\ \A n \in Messages \ {m} : Flies(n)' = Flies(n)
  BY <1>2, <1>4 DEF Flies
<1>9. PaneTypes'
  <2>1. \A n \in Messages : Flies(n)' => delivery'[n].to \in Terms
    BY <1>1, <1>4, <1>8 DEF PaneTypes
  <2> QED BY <1>1, <1>2, <1>4, <1>5, <1>6, <1>7, <2>1 DEF PaneTypes
<1>10. \A t \in Terms : Typed(t)' \cup Sent(t)' = Typed(t) \cup Sent(t) /\ Waiting(t)' = Waiting(t)
  <2>1. \A t \in Terms : Waiting(t)' = Waiting(t)
    BY <1>2 DEF Waiting
  <2> QED BY <1>5, <1>6, <2>1
<1>11. \A n \in Messages : /\ delivery'[n].to = delivery[n].to /\ delivery'[n].sid = delivery[n].sid
                           /\ Overseers(n)' = Overseers(n)
                           /\ delivery[n].at \in {"enter", "done"} => delivery'[n].at \in {"enter", "done"}
  <2>1. Overseers(m)' = Overseers(m) /\ \A n \in Messages \ {m} : Overseers(n)' = Overseers(n)
    BY <1>4 DEF Overseers
  <2>2. delivery'[m].to = delivery[m].to /\ delivery'[m].sid = delivery[m].sid /\ delivery'[m].at \in {"enter", "done"}
    BY <1>3, <1>4
  <2>3. \A n \in Messages \ {m} : /\ delivery'[n].to = delivery[n].to /\ delivery'[n].sid = delivery[n].sid
                                  /\ delivery'[n].at = delivery[n].at
    BY <1>4
  <2> QED BY <2>1, <2>2, <2>3
<1>12. Delivered'
  BY <1>1, <1>2, <1>10, <1>11 DEF Delivered
<1>13. ASSUME OneAtATime PROVE Serial' /\ Sent(d) = {}
  <2>1. Serial
    BY <1>13 DEF PaneInv
  <2>2. Sent(d) = {} /\ m \in Typed(d) /\ \A n \in Messages : Flies(n) => n = m
    BY <1>2, <1>3, <1>8, <2>1 DEF Serial
  <2>3. \A n \in Messages : ~Flies(n)'
    BY <1>8, <2>2
  <2>4. \A t \in Terms, n \in Messages : n \in Typed(t) => delivery[n].at = "enter" /\ delivery[n].to = t
    BY <1>1, <2>1 DEF Serial, Delivered
  <2>5. \A n \in Messages : delivery[n].at = "enter" => n = m
    BY <2>2 DEF Flies
  <2>6. \A n \in Messages : n \in Typed(d) => n = m
    BY <2>4, <2>5
  <2>7. \A t \in Terms \ {d}, n \in Messages : n \notin Typed(t)
    BY <1>3, <2>4, <2>5
  <2>8. \A t \in Terms, n \in Messages : /\ n \in Typed(t)' => delivery'[n].at = "enter"
                                         /\ n \in Sent(t)' => delivery'[n].at = "done"
    <3>1. \A t \in Terms, n \in Messages : n \notin Typed(t)'
      BY <1>5, <2>7
    <3>2. \A n \in Messages : n \in Sent(d)' => delivery'[n].at = "done"
      BY <1>4, <1>6, <2>2, <2>6
    <3>3. \A t \in Terms \ {d}, n \in Messages : n \in Sent(t)' => delivery'[n].at = "done"
      BY <1>2, <1>4, <1>6, <2>1 DEF Serial
    <3> QED BY <3>1, <3>2, <3>3
  <2>9. \A n \in Messages : delivery'[n].at # "enter"
    BY <2>3 DEF Flies
  <2>10. program' = "pi" => \A t \in Terms : Sent(t)' # {} => last'[t] \in Sent(t)' /\ last'[t] # "none"
    <3>1. program' = "pi" => last'[d] = m /\ m \in Sent(d)' /\ m # "none"
      BY <1>2, <1>6, <1>7, <2>2 DEF PaneNames
    <3>2. program' = "pi" => \A t \in Terms \ {d} : Sent(t)' # {} => last'[t] \in Sent(t)' /\ last'[t] # "none"
      BY <1>2, <1>6, <1>7, <2>1 DEF Serial
    <3> QED BY <3>1, <3>2
  <2>11. \A t \in Terms : \A n, k \in Messages \cap Sent(t)' : n = k
    <3>1. \A n, k \in Messages \cap Sent(d)' : n = k
      BY <1>6, <2>2, <2>6
    <3>2. \A t \in Terms \ {d} : \A n, k \in Messages \cap Sent(t)' : n = k
      BY <1>6, <2>1 DEF Serial
    <3> QED BY <3>1, <3>2
  <2>12. \A l \in read' : \A n, k \in Messages \cap l.holds : n = k
    BY <1>2, <2>1 DEF Serial
  <2> QED BY <2>2, <2>3, <2>8, <2>9, <2>10, <2>11, <2>12 DEF Serial
<1>14. ASSUME Told PROVE Right'
  <2>1. Right
    BY <1>14 DEF PaneInv
  <2>2. \A n \in Messages : Flies(n)' => Flies(n)
    BY <1>8
  <2>3. \A n \in Messages : Flies(n)' /\ Overseers(n)' => term'[delivery'[n].to].conv = delivery'[n].sid
    BY <1>2, <1>11, <2>1, <2>2 DEF Right
  <2>4. \A t \in Terms, n \in Messages : n \in Typed(t)' \cup Sent(t)' /\ Overseers(n)' => term'[t].conv = delivery'[n].sid
    BY <1>2, <1>10, <1>11, <2>1 DEF Right
  <2>5. \A l \in read', n \in Messages : n \in l.holds /\ Overseers(n)' => l.by \in {"shell", "menu", delivery'[n].sid}
    BY <1>2, <1>11, <2>1 DEF Right
  <2> QED BY <1>2, <2>1, <2>3, <2>4, <2>5 DEF Right
<1>15. ASSUME OneAtATime, Told, UserWaits PROVE Clear'
  <2>1. Clear /\ Serial'  /\ Sent(d) = {} /\ Serial
    BY <1>13, <1>15 DEF PaneInv
  <2>2. \A n \in Messages : delivery'[n].at \notin {"type", "enter"}
    <3>1. \A n \in Messages \ {m} : ~Flies(n)
      BY <1>8, <2>1 DEF Serial
    <3>2. \A n \in Messages : ~Flies(n)'
      BY <1>8, <3>1
    <3> QED BY <3>2 DEF Flies
  <2>3. ASSUME NEW t \in Terms, NEW n \in Messages, n \in Sent(t)', Overseers(n)' PROVE Sent(t)' = {n} /\ Waiting(t)'
    <3>1. CASE t = d
      <4>1. n \in Typed(d)
        BY <1>6, <2>1, <2>3, <3>1
      <4>2. delivery[n].at = "enter" /\ delivery[n].to = d /\ Overseers(n)
        BY <1>1, <1>11, <2>1, <2>3, <4>1 DEF Serial, Delivered
      <4>3. Typed(d) = {n} /\ Waiting(d)
        BY <2>1, <4>2 DEF Clear
      <4> QED BY <1>6, <1>10, <2>1, <3>1, <4>3
    <3>2. CASE t # d
      BY <1>6, <1>10, <1>11, <2>1, <2>3, <3>2 DEF Clear
    <3> QED BY <3>1, <3>2
  <2>4. \A l \in read', n \in Messages : n \in l.holds /\ Overseers(n)' => l.holds = {n} /\ l.by = delivery'[n].sid
    BY <1>2, <1>11, <2>1 DEF Clear
  <2> QED BY <2>2, <2>3, <2>4 DEF Clear
<1> QED BY <1>9, <1>12, <1>13, <1>14, <1>15 DEF PaneInv, OneAtATime, Told, UserWaits

(* The terminals.                                                            *)
LEMMA PaneReads ==
  ASSUME PaneNames, PaneInv, NEW d \in Terms, Panes!Reads(d)
  PROVE  PaneInv'
<1> DEFINE line == [holds |-> Sent(d),
                    by |-> IF ~term[d].on THEN "shell" ELSE IF term[d].menu THEN "menu" ELSE term[d].conv]
<1>1. PaneTypes /\ Delivered
  BY DEF PaneInv
<1>2. /\ read' = read \cup {line}
      /\ unread' = [unread EXCEPT ![d] = << >>]
      /\ UNCHANGED <<program, term, input, last, delivery>>
  BY DEF Panes!Reads, Panes!world, Sent
<1>3. /\ line.holds = Sent(d)
      /\ line.by = IF ~term[d].on THEN "shell" ELSE IF term[d].menu THEN "menu" ELSE term[d].conv
  OBVIOUS
<1> HIDE DEF line
<1>4. /\ unread' \in [Terms -> Seq(Messages \cup {"user"})]
      /\ Sent(d)' = {} /\ \A t \in Terms \ {d} : Sent(t)' = Sent(t)
  <2>1. Panes!Range(<< >>) = {}
    BY << >> \in Seq({}), Holds
  <2>2. unread' \in [Terms -> Seq(Messages \cup {"user"})]
    BY <1>1, <1>2 DEF PaneTypes
  <2>3. unread'[d] = << >> /\ \A t \in Terms \ {d} : unread'[t] = unread[t]
    BY <1>1, <1>2 DEF PaneTypes
  <2> QED BY <2>1, <2>2, <2>3 DEF Sent
<1>5. \A t \in Terms : Typed(t)' = Typed(t) /\ Waiting(t)' = Waiting(t) /\ Sent(t)' \subseteq Sent(t)
  BY <1>2, <1>4 DEF Typed, Waiting
<1>6. \A n \in Messages : Flies(n)' = Flies(n) /\ Overseers(n)' = Overseers(n)
  BY <1>2 DEF Flies, Overseers
<1>7. PaneTypes'
  BY <1>1, <1>2, <1>4 DEF PaneTypes, Flies
<1>8. Delivered'
  <2>1. \A t \in Terms, n \in Messages : n \in Typed(t)' \cup Sent(t)' => n \in Typed(t) \cup Sent(t)
    BY <1>5
  <2>2. \A n \in Messages : n \in line.holds => delivery[n].at \in {"enter", "done"}
    BY <1>1, <1>3 DEF Delivered
  <2> QED BY <1>1, <1>2, <2>1, <2>2 DEF Delivered
<1>9. ASSUME OneAtATime PROVE Serial'
  <2>1. Serial
    BY <1>9 DEF PaneInv
  <2>2. \A n, k \in Messages \cap line.holds : n = k
    BY <1>3, <2>1 DEF Serial
  <2>3. \A l \in read' : \A n, k \in Messages \cap l.holds : n = k
    BY <1>2, <2>1, <2>2 DEF Serial
  <2>4. ASSUME NEW n \in Messages, NEW t \in Terms, delivery'[n].to = t
        PROVE /\ delivery'[n].at = "enter" => n \in Typed(t)'
              /\ Flies(n)' /\ Sent(t)' # {} => delivery'[n].at = "gap" /\ delivery'[n].after \in Sent(t)'
    <3>1. CASE t = d
      BY <1>2, <1>4, <1>5, <2>1, <2>4, <3>1 DEF Serial
    <3>2. CASE t # d
      BY <1>2, <1>4, <1>5, <1>6, <2>1, <2>4, <3>2 DEF Serial
    <3> QED BY <3>1, <3>2
  <2>5. \A n, k \in Messages : Flies(n)' /\ Flies(k)' => n = k
    BY <1>6, <2>1 DEF Serial
  <2>6. \A t \in Terms, n \in Messages : /\ n \in Typed(t)' => delivery'[n].at = "enter"
                                         /\ n \in Sent(t)' => delivery'[n].at = "done"
    BY <1>2, <1>5, <2>1 DEF Serial
  <2>7. program' = "pi" => \A t \in Terms : Sent(t)' # {} => last'[t] \in Sent(t)' /\ last'[t] # "none"
    BY <1>2, <1>4, <2>1 DEF Serial
  <2>8. \A t \in Terms : \A n, k \in Messages \cap Sent(t)' : n = k
    BY <1>5, <2>1 DEF Serial
  <2> QED BY <2>3, <2>4, <2>5, <2>6, <2>7, <2>8 DEF Serial
<1>10. ASSUME Told PROVE Right'
  <2>1. Right
    BY <1>10 DEF PaneInv
  <2>2. \A n \in Messages : n \in line.holds /\ Overseers(n) => line.by \in {"shell", "menu", delivery[n].sid}
    <3>1. \A n \in Messages : n \in line.holds /\ Overseers(n) => term[d].conv = delivery[n].sid
      BY <1>3, <2>1 DEF Right
    <3> QED BY <1>3, <3>1
  <2>3. \A l \in read', n \in Messages : n \in l.holds /\ Overseers(n)' => l.by \in {"shell", "menu", delivery'[n].sid}
    BY <1>2, <1>6, <2>1, <2>2 DEF Right
  <2>4. \A t \in Terms, n \in Messages : n \in Typed(t)' \cup Sent(t)' /\ Overseers(n)' => term'[t].conv = delivery'[n].sid
    BY <1>2, <1>5, <1>6, <2>1 DEF Right
  <2>5. \A n \in Messages : Flies(n)' /\ Overseers(n)' => term'[delivery'[n].to].conv = delivery'[n].sid
    BY <1>2, <1>6, <2>1 DEF Right
  <2> QED BY <1>2, <2>1, <2>3, <2>4, <2>5 DEF Right
<1>11. ASSUME OneAtATime, Told, UserWaits PROVE Clear'
  <2>1. Clear /\ Right
    BY <1>11 DEF PaneInv
  <2>2. ASSUME NEW n \in Messages, n \in line.holds, Overseers(n) PROVE line.holds = {n} /\ line.by = delivery[n].sid
    <3>1. Sent(d) = {n} /\ Waiting(d)
      BY <1>3, <2>1, <2>2 DEF Clear
    <3>2. term[d].conv = delivery[n].sid
      BY <1>3, <2>1, <2>2 DEF Right
    <3> QED BY <1>3, <3>1, <3>2 DEF Waiting
  <2>3. \A l \in read', n \in Messages : n \in l.holds /\ Overseers(n)' => l.holds = {n} /\ l.by = delivery'[n].sid
    BY <1>2, <1>6, <2>1, <2>2 DEF Clear
  <2>4. \A n \in Messages, t \in Terms : Overseers(n)' /\ delivery'[n].to = t =>
          /\ delivery'[n].at \in {"type", "enter"} => Waiting(t)'
          /\ delivery'[n].at = "type" => Typed(t)' = {}
          /\ delivery'[n].at = "enter" => Typed(t)' = {n}
    BY <1>2, <1>5, <1>6, <2>1 DEF Clear
  <2>5. \A t \in Terms, n \in Messages : n \in Sent(t)' /\ Overseers(n)' => Sent(t)' = {n} /\ Waiting(t)'
    BY <1>4, <1>5, <1>6, <2>1 DEF Clear
  <2> QED BY <2>3, <2>4, <2>5 DEF Clear
<1> QED BY <1>7, <1>8, <1>9, <1>10, <1>11 DEF PaneInv, OneAtATime, Told, UserWaits

(* What users do, and time: what is sent and the deliveries stay, a terminal *)
(* whose program, menu or input changes had nothing typed or sent.           *)
LEMMA PaneUsers ==
  ASSUME PaneInv, NEW d \in Terms,
         UNCHANGED <<program, unread, read, delivery>>,
         term' \in [Terms -> Term], input' \in [Terms -> Seq(Messages \cup {"user"})],
         last' \in [Terms -> Messages \cup {"none"}],
         \A t \in Terms \ {d} : term'[t] = term[t] /\ input'[t] = input[t] /\ last'[t] = last[t],
         term'[d].tmux = term[d].tmux,
         Messages \cap Panes!Range(input'[d]) = Messages \cap Typed(d),
         \/ term'[d] = term[d] /\ input'[d] = input[d]
         \/ /\ Sent(d) = {} /\ Typed(d) = {}
            /\ UserWaits => \A m \in Messages : delivery[m].to = d => delivery[m].at \notin {"type", "enter"},
         term'[d].conv = term[d].conv \/ \A m \in Messages : Flies(m) => delivery[m].to # d,
         last'[d] = last[d] \/ (last[d] \notin Sent(d))
  PROVE  PaneInv'
<1>1. PaneTypes /\ Delivered
  BY DEF PaneInv
<1>2. \A t \in Terms : Sent(t)' = Sent(t) /\ Messages \cap Typed(t)' = Messages \cap Typed(t)
  BY DEF Sent, Typed
<1>3. \A n \in Messages : Flies(n)' = Flies(n) /\ Overseers(n)' = Overseers(n)
  BY DEF Flies, Overseers
<1>4. PaneTypes'
  BY <1>1 DEF PaneTypes, Flies
<1>5. Delivered'
  BY <1>1, <1>2 DEF Delivered
<1>6. ASSUME OneAtATime PROVE Serial'
  <2>1. Serial
    BY <1>6 DEF PaneInv
  <2>2. program' = "pi" => \A t \in Terms : Sent(t)' # {} => last'[t] \in Sent(t)' /\ last'[t] # "none"
    <3> SUFFICES ASSUME program = "pi", NEW t \in Terms, Sent(t) # {}
                 PROVE  last'[t] \in Sent(t) /\ last'[t] # "none"
      BY <1>2
    <3>1. last[t] \in Sent(t) /\ last[t] # "none"
      BY <2>1 DEF Serial
    <3>2. last'[t] = last[t]
      BY <3>1
    <3> QED BY <3>1, <3>2
  <2>3. ASSUME NEW n \in Messages, NEW t \in Terms, delivery'[n].to = t
        PROVE /\ delivery'[n].at = "enter" => n \in Typed(t)'
              /\ Flies(n)' /\ Sent(t)' # {} => delivery'[n].at = "gap" /\ delivery'[n].after \in Sent(t)'
    <3>1. n \in Typed(t) => n \in Typed(t)'
      BY <1>2
    <3>2. delivery'[n] = delivery[n] /\ Flies(n)' = Flies(n) /\ Sent(t)' = Sent(t)
      BY <1>2, <1>3
    <3>3. /\ delivery[n].at = "enter" => n \in Typed(t)
          /\ Flies(n) /\ Sent(t) # {} => delivery[n].at = "gap" /\ delivery[n].after \in Sent(t)
      BY <2>1, <2>3, <3>2 DEF Serial
    <3> QED BY <3>1, <3>2, <3>3
  <2>4. \A t \in Terms, n \in Messages : /\ n \in Typed(t)' => delivery'[n].at = "enter"
                                         /\ n \in Sent(t)' => delivery'[n].at = "done"
    BY <1>2, <2>1 DEF Serial
  <2>5. (\A t \in Terms : \A n, k \in Messages \cap Sent(t)' : n = k)
        /\ (\A l \in read' : \A n, k \in Messages \cap l.holds : n = k)
        /\ \A n, k \in Messages : Flies(n)' /\ Flies(k)' => n = k
    BY <1>2, <1>3, <2>1 DEF Serial
  <2> QED BY <2>2, <2>3, <2>4, <2>5 DEF Serial
<1>7. ASSUME Told PROVE Right'
  <2>1. Right
    BY <1>7 DEF PaneInv
  <2>2. \A t, u \in Terms : term'[t].tmux = term'[u].tmux
    <3>1. \A t \in Terms : term'[t].tmux = term[t].tmux
      OBVIOUS
    <3> QED BY <2>1, <3>1 DEF Right
  <2>3. ASSUME NEW n \in Messages, Flies(n)', Overseers(n)' PROVE term'[delivery'[n].to].conv = delivery'[n].sid
    <3>1. term[delivery[n].to].conv = delivery[n].sid /\ delivery[n].to \in Terms
      BY <1>1, <1>3, <2>1, <2>3 DEF Right, PaneTypes
    <3>2. term'[delivery[n].to].conv = term[delivery[n].to].conv
      BY <1>3, <2>3, <3>1
    <3> QED BY <3>1, <3>2
  <2>4. ASSUME NEW t \in Terms, NEW n \in Messages, n \in Typed(t)' \cup Sent(t)', Overseers(n)'
        PROVE  term'[t].conv = delivery'[n].sid
    <3>1. n \in Typed(t) \cup Sent(t) /\ Overseers(n)
      BY <1>2, <1>3, <2>4
    <3>2. term[t].conv = delivery[n].sid
      BY <2>1, <3>1 DEF Right
    <3>3. term'[t] = term[t]
      BY <3>1
    <3> QED BY <3>2, <3>3
  <2>5. \A l \in read', n \in Messages : n \in l.holds /\ Overseers(n)' => l.by \in {"shell", "menu", delivery'[n].sid}
    BY <1>3, <2>1 DEF Right
  <2> QED BY <2>2, <2>3, <2>4, <2>5 DEF Right
<1>8. ASSUME OneAtATime, Told, UserWaits PROVE Clear'
  <2>1. Clear
    BY <1>8 DEF PaneInv
  <2>2. ASSUME NEW t \in Terms, term'[t] # term[t] \/ input'[t] # input[t]
        PROVE  Sent(t) = {} /\ \A n \in Messages : delivery[n].to = t => delivery[n].at \notin {"type", "enter"}
    <3>1. t = d
      BY <2>2
    <3> QED BY <1>8, <2>2, <3>1
  <2>3. \A t \in Terms : term'[t] = term[t] => Waiting(t)' = Waiting(t)
    BY DEF Waiting
  <2>4. \A t \in Terms : input'[t] = input[t] => Typed(t)' = Typed(t)
    BY DEF Typed
  <2>5. ASSUME NEW n \in Messages, NEW t \in Terms, Overseers(n)', delivery'[n].to = t
        PROVE  /\ delivery'[n].at \in {"type", "enter"} => Waiting(t)'
               /\ delivery'[n].at = "type" => Typed(t)' = {}
               /\ delivery'[n].at = "enter" => Typed(t)' = {n}
    <3>1. CASE term'[t] = term[t] /\ input'[t] = input[t]
      BY ZenonT(60), <1>3, <2>1, <2>3, <2>4, <2>5, <3>1 DEF Clear
    <3>2. CASE ~(term'[t] = term[t] /\ input'[t] = input[t])
      BY <2>2, <2>5, <3>2
    <3> QED BY <3>1, <3>2
  <2>6. ASSUME NEW t \in Terms, NEW n \in Messages, n \in Sent(t)', Overseers(n)'
        PROVE  Sent(t)' = {n} /\ Waiting(t)'
    <3>1. term'[t] = term[t]
      BY <1>2, <2>2, <2>6
    <3> QED BY <1>2, <1>3, <2>1, <2>3, <2>6, <3>1 DEF Clear
  <2>7. \A l \in read', n \in Messages : n \in l.holds /\ Overseers(n)' => l.holds = {n} /\ l.by = delivery'[n].sid
    BY <1>3, <2>1 DEF Clear
  <2> QED BY <2>5, <2>6, <2>7 DEF Clear
<1> QED BY <1>4, <1>5, <1>6, <1>7, <1>8 DEF PaneInv, OneAtATime, Told, UserWaits

LEMMA PaneRest ==
  ASSUME PaneNames, PaneInv, NEW d \in Terms, Panes!GapOver(d) \/ Panes!Drafts(d) \/ Panes!Changes(d)
  PROVE  PaneInv'
<1>1. PaneTypes
  BY DEF PaneInv
<1>2. CASE Panes!GapOver(d)
  <2>1. /\ last[d] \notin Sent(d) /\ last' = [last EXCEPT ![d] = "none"]
        /\ UNCHANGED <<program, term, input, unread, read, delivery>>
    BY <1>2 DEF Panes!GapOver, Panes!None, Panes!world, Panes!panes, Sent
  <2>2. last' \in [Terms -> Messages \cup {"none"}] /\ \A t \in Terms \ {d} : last'[t] = last[t]
    BY <1>1, <2>1 DEF PaneTypes
  <2>3. /\ term' \in [Terms -> Term] /\ input' \in [Terms -> Seq(Messages \cup {"user"})]
        /\ Messages \cap Panes!Range(input'[d]) = Messages \cap Typed(d)
    BY <1>1, <2>1 DEF PaneTypes, Typed
  <2> QED BY <2>1, <2>2, <2>3, PaneUsers
<1>3. ASSUME Panes!Free(d), input[d] = << >>
      PROVE  /\ Sent(d) = {} /\ Typed(d) = {}
             /\ UserWaits => \A m \in Messages : delivery[m].to = d => delivery[m].at \notin {"type", "enter"}
  <2>1. Panes!Range(<< >>) = {}
    BY << >> \in Seq({}), Holds
  <2> QED BY <1>3, <2>1 DEF Panes!Free, Sent, Typed, UserWaits
<1>4. CASE Panes!Drafts(d)
  <2>1. /\ input[d] = << >> /\ Panes!Free(d) /\ input' = [input EXCEPT ![d] = <<"user">>]
        /\ UNCHANGED <<program, term, unread, read, last, delivery>>
    BY <1>4 DEF Panes!Drafts, Panes!User
  <2>2. <<"user">> \in Seq(Messages \cup {"user"}) /\ Panes!Range(<<"user">>) = {"user"}
    BY DEF Panes!Range
  <2>3. /\ input' \in [Terms -> Seq(Messages \cup {"user"})]
        /\ input'[d] = <<"user">> /\ \A t \in Terms \ {d} : input'[t] = input[t]
    BY <1>1, <2>1, <2>2 DEF PaneTypes
  <2>4. Messages \cap Panes!Range(input'[d]) = Messages \cap Typed(d)
    BY <1>3, <2>1, <2>2, <2>3 DEF PaneNames
  <2>5. term' \in [Terms -> Term] /\ last' \in [Terms -> Messages \cup {"none"}]
    BY <1>1, <2>1 DEF PaneTypes
  <2> QED BY <1>3, <2>1, <2>3, <2>4, <2>5, PaneUsers
<1>5. CASE Panes!Changes(d)
  <2>1. /\ input[d] = << >> /\ Panes!Free(d)
        /\ UNCHANGED <<program, input, unread, read, last, delivery>>
    BY <1>5 DEF Panes!Changes, Panes!panes
  <2>2. term[d] \in Term
    BY <1>1 DEF PaneTypes
  <2>3. \/ term' = [term EXCEPT ![d].on = ~@, ![d].menu = FALSE]
        \/ term' = [term EXCEPT ![d].menu = ~@]
        \/ term' = [term EXCEPT ![d].shown = ~@]
        \/ /\ \A m \in Panes!InFlight : delivery[m].to # d
           /\ \E s \in Sids : term' = [term EXCEPT ![d].conv = s]
    BY <1>5 DEF Panes!Changes
  <2>4. /\ term' \in [Terms -> Term] /\ \A t \in Terms \ {d} : term'[t] = term[t]
        /\ term'[d].tmux = term[d].tmux
        /\ term'[d].conv = term[d].conv \/ \A m \in Panes!InFlight : delivery[m].to # d
    <3>1. CASE term' = [term EXCEPT ![d].on = ~@, ![d].menu = FALSE]
      BY <1>1, <2>2, <3>1 DEF PaneTypes, Term
    <3>2. CASE term' = [term EXCEPT ![d].menu = ~@]
      BY <1>1, <2>2, <3>2 DEF PaneTypes, Term
    <3>3. CASE term' = [term EXCEPT ![d].shown = ~@]
      BY <1>1, <2>2, <3>3 DEF PaneTypes, Term
    <3>4. ASSUME NEW s \in Sids, term' = [term EXCEPT ![d].conv = s], \A m \in Panes!InFlight : delivery[m].to # d
          PROVE  term' \in [Terms -> Term] /\ (\A t \in Terms \ {d} : term'[t] = term[t]) /\ term'[d].tmux = term[d].tmux
      BY <1>1, <2>2, <3>4 DEF PaneTypes, Term
    <3> QED BY <2>3, <3>1, <3>2, <3>3, <3>4
  <2>5. term'[d].conv = term[d].conv \/ \A m \in Messages : Flies(m) => delivery[m].to # d
    BY <2>4 DEF Panes!InFlight, Flies
  <2>6. /\ input' \in [Terms -> Seq(Messages \cup {"user"})] /\ last' \in [Terms -> Messages \cup {"none"}]
        /\ Messages \cap Panes!Range(input'[d]) = Messages \cap Typed(d)
    BY <1>1, <2>1 DEF PaneTypes, Typed
  <2> QED BY <1>3, <2>1, <2>4, <2>5, <2>6, PaneUsers
<1> QED BY <1>2, <1>4, <1>5

LEMMA PaneStep == ASSUME PaneNames, PaneInv, [Panes!Next]_(Panes!vars) PROVE PaneInv'
<1>1. ASSUME NEW m \in Messages, NEW sid \in Sids, Panes!Deliver(m, sid) \/ Panes!PhonePrompt(m, sid) PROVE PaneInv'
  BY <1>1, PaneDeliver, PanePhone
<1>2. ASSUME NEW m \in Messages,
             Panes!Wake(m) \/ Panes!Check(m) \/ Panes!Look(m) \/ Panes!Type(m) \/ Panes!Enter(m)
      PROVE  PaneInv'
  BY <1>2, PaneLooks, PaneType, PaneEnter
<1>3. ASSUME NEW t \in Terms, Panes!GapOver(t) \/ Panes!Reads(t) \/ Panes!Drafts(t) \/ Panes!Changes(t) PROVE PaneInv'
  BY <1>3, PaneReads, PaneRest
<1>4. CASE UNCHANGED Panes!vars
  <2>1. UNCHANGED <<program, term, input, unread, read, last, delivery>>
    BY <1>4 DEF Panes!vars, Panes!world, Panes!panes
  <2>2. PaneTypes' /\ Delivered'
    BY <2>1 DEF PaneInv, PaneTypes, Delivered, Flies, Typed, Sent
  <2>3. Serial => Serial'
    <3>1. \A t \in Terms : Typed(t)' = Typed(t) /\ Sent(t)' = Sent(t)
      BY <2>1 DEF Typed, Sent
    <3>2. \A m \in Messages : Flies(m)' = Flies(m)
      BY <2>1 DEF Flies
    <3> QED BY <2>1, <3>1, <3>2 DEF Serial
  <2>4. Right => Right'
    BY <2>1 DEF Right, Flies, Typed, Sent, Overseers
  <2>5. Clear => Clear'
    BY <2>1 DEF Clear, Typed, Sent, Overseers, Waiting
  <2> QED BY <2>2, <2>3, <2>4, <2>5 DEF PaneInv, OneAtATime, Told, UserWaits
<1> QED BY <1>1, <1>2, <1>3, <1>4 DEF Panes!Next, Panes!Terms, Terms

LEMMA PaneAlways == ASSUME PaneNames PROVE Panes!Spec => []PaneInv
<1>1. Panes!Init => PaneInv
  BY PaneInit
<1>2. PaneInv /\ [Panes!Next]_(Panes!vars) => PaneInv'
  BY PaneStep
<1> QED BY <1>1, <1>2, PTL DEF Panes!Spec

(* An overseer's message is read alone, by the program that runs its        *)
(* conversation: no shell executes it, no menu takes it for an answer, no   *)
(* draft or other message is submitted with it, for any number of messages  *)
(* and conversations (pi/provider.mjs:558-579, cc-local.mjs:334-337).       *)
THEOREM MessagesReadAlone ==
  ASSUME PaneNames, OneAtATime, Told, UserWaits
  PROVE  Panes!Spec => []Panes!ReadAlone
<1>1. PaneInv => Panes!ReadAlone
  BY DEF PaneInv, Clear, Panes!ReadAlone, Panes!Of, Overseers
<1> QED BY <1>1, PaneAlways, PTL

(* "two terminals in one folder never cross" (pi/provider.mjs:231-232),     *)
(* also when messages overlap and the user acts at the last moment.         *)
THEOREM TerminalsNeverCross == ASSUME PaneNames, Told PROVE Panes!Spec => []Panes!NeverCrosses
<1>1. PaneInv => Panes!NeverCrosses
  BY DEF PaneInv, Right, PaneNames, Panes!NeverCrosses, Panes!Of, Overseers
<1> QED BY <1>1, PaneAlways, PTL

(* The phone's prompts never merge into one line (pi/provider.mjs:223-224), *)
(* whatever the user does meanwhile and wherever the terminals are.         *)
THEOREM PromptsReadApart == ASSUME PaneNames, OneAtATime PROVE Panes!Spec => []Panes!PromptsApart
<1>1. PaneInv => Panes!PromptsApart
  <2> SUFFICES ASSUME PaneInv, NEW l \in read PROVE Panes!Cardinality(Panes!Of(l, "phone")) <= 1
    BY DEF Panes!PromptsApart
  <2> DEFINE S == Panes!Of(l, "phone")
  <2>1. \A n, k \in S : n = k
    BY DEF PaneInv, Serial, Panes!Of
  <2> HIDE DEF S
  <2>2. S = {} \/ \E n : S = {n}
    BY <2>1
  <2>3. Panes!Cardinality(S) = Cardinality(S)
    BY DEF Cardinality, Panes!Cardinality
  <2>4. Cardinality(S) <= 1
    <3>1. CASE S = {}
      BY <3>1, FS_EmptySet
    <3>2. CASE \E n : S = {n}
      <4>1. PICK n : S = {n}
        BY <3>2
      <4>2. Cardinality({n}) = 1
        BY FS_Singleton
      <4> QED BY <4>1, <4>2
    <3> QED BY <2>2, <3>1, <3>2
  <2> QED BY <2>3, <2>4 DEF S
<1> QED BY <1>1, PaneAlways, PTL
===============================================================================
