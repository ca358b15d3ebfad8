----------------------------- MODULE InfoCache -----------------------------
(***************************************************************************)
(* GET /api/info (info-cache.mjs, ext-router.mjs): the phone gives up after *)
(* two seconds and the provider's getInfo() takes up to eight, so requests  *)
(* are served from a stale-while-revalidate cache with one refresh at most. *)
(***************************************************************************)
EXTENDS Integers, FiniteSets

CONSTANTS Requests,  (* GET /api/info requests                              *)
          MaxRead    (* bound on the calls of getInfo()                     *)

VARIABLES value,    (* which getInfo() the cached answer is of; 0 for none  *)
          stale,    (* the last refresh is older than the TTL               *)
          reading,  (* the running calls of getInfo()                       *)
          reads,    (* calls so far                                         *)
          inflight, (* the call the running refresh awaits; 0 for none      *)
          req       (* each request: its step and answer; 0 is the fallback *)

icVars == <<value, stale, reading, reads, inflight, req>>

Init ==
  /\ value = 0 /\ stale = TRUE /\ reading = {} /\ reads = 0 /\ inflight = 0
  /\ req = [r \in Requests |-> [at |-> "new", answer |-> 0]]

(* Slip: a refresh starts although one is running.                          *)
StartAnother ==
  IF reads < MaxRead THEN reads' = reads + 1 /\ inflight' = reads' /\ reading' = reading \union {reads'}
  ELSE UNCHANGED <<reads, inflight, reading>>
(* refresh: the running one is shared.                                      *)
Refresh ==
  IF inflight = 0 /\ reads < MaxRead THEN reads' = reads + 1 /\ inflight' = reads' /\ reading' = reading \union {reads'}
  ELSE UNCHANGED <<reads, inflight, reading>>

(* server start.                                                            *)
Prime == reads = 0 /\ Refresh /\ UNCHANGED <<value, stale, req>>

Becomes(r, at, answer) == req' = [req EXCEPT ![r] = [at |-> at, answer |-> answer]]

(* Slip: a stale value waits for its refresh like no value.                 *)
AnswerFresh(r) ==
  IF value # 0 /\ ~stale THEN Becomes(r, "done", value) /\ UNCHANGED <<reads, inflight, reading>>
  ELSE Becomes(r, "waits", 0) /\ Refresh
(* get: a value is answered at once, and refreshed when it is stale.        *)
Answer(r) ==
  IF value # 0 THEN /\ Becomes(r, "done", value)
                    /\ IF stale THEN Refresh ELSE UNCHANGED <<reads, inflight, reading>>
  ELSE Becomes(r, "waits", 0) /\ Refresh

Get(r) == req[r].at = "new" /\ Answer(r) /\ UNCHANGED <<value, stale>>

(* The first value is waited for no longer than primeTimeoutMs; a refresh   *)
(* that ends first answers it.                                              *)
Waited(r) ==
  /\ req[r].at = "waits" /\ Becomes(r, "done", value)
  /\ UNCHANGED <<value, stale, reading, reads, inflight>>

(* Slip: a failed refresh empties the cache.                                *)
FailsEmpty(n) == value' = 0
Fails(n) == value' = value

(* getInfo() answers or fails; the refresh is over either way.              *)
Ends(n) ==
  /\ n \in reading /\ reading' = reading \ {n}
  /\ value' = n \/ Fails(n)
  /\ stale' = FALSE /\ inflight' = 0
  /\ UNCHANGED <<reads, req>>

Ages == ~stale /\ stale' = TRUE /\ UNCHANGED <<value, reading, reads, inflight, req>>

Next ==
  \/ Prime \/ Ages
  \/ \E r \in Requests : Get(r) \/ Waited(r)
  \/ \E n \in 1..MaxRead : Ends(n)

Spec == Init /\ [][Next]_icVars
(* The timer fires; getInfo() need never end.                               *)
FairSpec == Spec /\ \A r \in Requests : WF_icVars(Get(r)) /\ WF_icVars(Waited(r))

-----------------------------------------------------------------------------
TypeOK == value \in 0..MaxRead /\ inflight \in 0..MaxRead /\ reading \subseteq 1..MaxRead /\ stale \in BOOLEAN

(* One getInfo() runs at most, whoever asked: a burst of probes starts no   *)
(* second one.                                                              *)
OneRefresh == Cardinality(reading) <= 1 /\ (reading # {} => inflight \in reading)

(* Once a value was read, no request gets the fallback again: a failed      *)
(* refresh keeps it.                                                        *)
ValueStep ==
  value # 0 => /\ value' # 0
               /\ \A r \in Requests : req[r].at # "done" /\ req'[r].at = "done" => req'[r].answer # 0
ValueStays == [][ValueStep]_icVars

(* A request that finds a value is answered in that step, stale or not, and *)
(* every request is answered, also when getInfo() never ends (MCEnds).      *)
NoWait == \A r \in Requests : value # 0 /\ req[r].at = "new" => req'[r].at # "waits"
NeverWaits == [][NoWait]_icVars
Waits(r) == req[r].at \in {"new", "waits"}
=============================================================================
