------------------------------ MODULE UpstreamPump ------------------------------
(***************************************************************************)
(* The relay of one Remote Control session (upstream-pump.mjs): a loop     *)
(* that learns where the upstream's history ends, opens its event stream,  *)
(* skips what it relayed before and puts the rest into the local ring,     *)
(* live (hub.feed) or as history (hub.seed).  The upstream bridge and the  *)
(* phone are external: the upstream numbers its frames from 1 again when   *)
(* it restarts, and rebuilds them from the session's transcript.           *)
(***************************************************************************)
EXTENDS Naturals, Sequences, FiniteSets

CONSTANTS
  RingSize,      (* RING_SIZE: what the upstream keeps, and how far below   *)
                 (* the water mark a first id means that it restarted       *)
  MaxFrames,     (* bound on the frames the session ever produces           *)
  MaxRestarts,   (* bound on the upstream's restarts                        *)
  MaxDrops,      (* bound on the streams that end or fail                   *)
  Happens        (* what else may happen: "quiet" (the pump asks whether to *)
                 (* stop while nobody listens), "leave" (the phone's stream *)
                 (* closes), "new" (the session is started from the phone)  *)

ASSUME PumpAssumption ==
  /\ RingSize \in Nat \ {0}
  /\ MaxFrames \in Nat /\ MaxRestarts \in Nat /\ MaxDrops \in Nat
  /\ Happens \subseteq {"quiet", "leave", "new"}

VARIABLES
  said,        (* every frame the session produced, in order                *)
  busy,        (* a turn is running                                         *)
  gen,         (* the upstream's process lifetime                           *)
  up,          (* its frames by id: numbers into said and how they look     *)
  loaded,      (* historyLoaded                                             *)
  high,        (* historyHighId                                             *)
  stage,       (* where the pump's loop is; "none" without a pump           *)
  stream,      (* of the open stream: the last id read, whether its first   *)
               (* frame is awaited, and the clients there were before it    *)
  mark,        (* lastUpstreamId, and the generation it was read from       *)
  seedFirst, seedUntil, reseed,
  cold,        (* the transcript's last frame when the boundary was read,   *)
               (* and the generation it was read from                       *)
  idleAsked,   (* _idleCheck awaits the session's state                     *)
  relay,       (* what was put into the local ring                          *)
  phone,       (* "off", "opening" (GET /events came), "listening"          *)
  drops

upVars == <<said, busy, gen, up, loaded, high>>
seedVars == <<seedFirst, seedUntil, reseed, cold>>
vars == <<upVars, stage, stream, mark, seedVars, idleAsked, relay, phone, drops>>

-----------------------------------------------------------------------------
(* Frames.  The transcript keeps prompts and finished texts.                *)

Kept(kind) == kind \in {"user_prompt", "text_end"}
Transcript == {n \in DOMAIN said : Kept(said[n])}

Newest(S) == IF S = {} THEN 0 ELSE CHOOSE m \in S : \A n \in S : n <= m
Larger(a, b) == IF a > b THEN a ELSE b

(* The upstream's ring after a restart: the transcript's frames, without    *)
(* the status frames that mark where a text ends.                           *)
Rebuilt ==
  LET Before(n) == Cardinality({m \in Transcript : m < n})
      kept(i)   == CHOOSE n \in Transcript : Before(n) = i - 1
  IN  [i \in 1 .. Cardinality(Transcript) |->
        [n |-> kept(i),
         kind |-> IF said[kept(i)] = "text_end" THEN "text_delta" ELSE said[kept(i)]]]

RingHead == IF Len(up) > RingSize THEN (Len(up) - RingSize) + 1 ELSE 1
OfKind(k) == {i \in RingHead .. Len(up) : up[i].kind = k}

(* historyCoveredIndex of the upstream's ring, as an id.                    *)
Covered ==
  LET prompt == Newest(OfKind("user_prompt"))
      ends   == {i \in OfKind("text_end") : i > prompt}
  IN  IF ends # {} THEN Newest(ends) ELSE prompt

(* Slip: no historyCoveredIndex for a busy session.                         *)
BoundaryLoadedOnly == IF busy THEN high ELSE Larger(high, Len(up))

(* _readSeedBoundary: the ids that are history already.                     *)
Boundary == IF busy THEN Larger(high, Covered) ELSE Larger(high, Len(up))

-----------------------------------------------------------------------------
Init ==
  /\ said = <<>>
  /\ busy = FALSE
  /\ gen = 0
  /\ up = <<>>
  /\ loaded = TRUE
  /\ high = 0
  /\ stage = "none"
  /\ stream = [pos |-> 0, first |-> FALSE, hadClients |-> FALSE]
  /\ mark = [id |-> 0, gen |-> 0]
  /\ seedFirst = TRUE
  /\ seedUntil = 0
  /\ reseed = FALSE
  /\ cold = [n |-> 0, gen |-> 0]
  /\ idleAsked = FALSE
  /\ relay = <<>>
  /\ phone = "off"
  /\ drops = 0

-----------------------------------------------------------------------------
(* The upstream.                                                            *)

(* A turn is a prompt, deltas and finished texts, and an idle status.       *)
Say(kind) ==
  /\ loaded /\ Len(said) < MaxFrames
  /\ busy <=> kind # "user_prompt"
  /\ busy' = (kind # "idle")
  /\ said' = Append(said, kind)
  /\ up' = Append(up, [n |-> Len(said'), kind |-> kind])
  /\ UNCHANGED <<gen, loaded, high, stage, stream, mark, seedVars, idleAsked,
                 relay, phone, drops>>

Ends == IF stage = "open" THEN "ended" ELSE stage

UpRestart ==
  /\ gen < MaxRestarts
  /\ gen' = gen + 1
  /\ up' = <<>> /\ high' = 0 /\ loaded' = FALSE
  /\ stage' = Ends
  /\ UNCHANGED <<said, busy, stream, mark, seedVars, idleAsked, relay, phone, drops>>

UpLoad ==
  /\ ~loaded
  /\ up' = Rebuilt /\ high' = Len(up') /\ loaded' = TRUE
  /\ UNCHANGED <<said, busy, gen, stage, stream, mark, seedVars, idleAsked,
                 relay, phone, drops>>

StreamDrops ==
  /\ stage = "open" /\ drops < MaxDrops
  /\ drops' = drops + 1
  /\ stage' = "ended"
  /\ UNCHANGED <<upVars, stream, mark, seedVars, idleAsked, relay, phone>>

-----------------------------------------------------------------------------
(* Slip: the new pump starts without the water mark.                        *)
EnsureAfresh(newSession) ==
  IF stage \notin {"none", "dead"}
  THEN UNCHANGED <<stage, stream, mark, seedVars, idleAsked>>
  ELSE /\ stage' = "top"
       /\ seedFirst' = ~newSession
       /\ mark' = [id |-> 0, gen |-> gen]
       /\ seedUntil' = 0 /\ reseed' = FALSE /\ idleAsked' = FALSE
       /\ cold' = [n |-> 0, gen |-> gen]
       /\ UNCHANGED stream

(* PumpManager.ensure: a dead pump is replaced by one that keeps its water  *)
(* mark.                                                                    *)
Ensure(newSession) ==
  IF stage \notin {"none", "dead"}
  THEN UNCHANGED <<stage, stream, mark, seedVars, idleAsked>>
  ELSE /\ stage' = "top"
       /\ seedFirst' = ~newSession
       /\ seedUntil' = 0 /\ reseed' = FALSE /\ idleAsked' = FALSE
       /\ cold' = [n |-> 0, gen |-> gen]
       /\ UNCHANGED <<stream, mark>>

(* _loop                                                                    *)
LoopTop ==
  /\ stage = "top"
  /\ IF (seedFirst /\ mark.id = 0) \/ reseed
     THEN stage' = "boundary" /\ reseed' = FALSE
     ELSE stage' = "connect" /\ UNCHANGED reseed
  /\ UNCHANGED <<upVars, stream, mark, seedFirst, seedUntil, cold, idleAsked,
                 relay, phone, drops>>

(* It waits for the upstream to have rebuilt its ring.                      *)
ReadBoundary ==
  /\ stage = "boundary" /\ loaded
  /\ seedUntil' = Boundary
  /\ cold' = [n |-> Newest(Transcript), gen |-> gen]
  /\ stage' = "connect"
  /\ UNCHANGED <<upVars, stream, mark, seedFirst, reseed, idleAsked, relay,
                 phone, drops>>

(* Without an answer the whole replay is relayed live.                      *)
MissBoundary ==
  /\ stage = "boundary" /\ drops < MaxDrops
  /\ drops' = drops + 1
  /\ seedUntil' = 0 /\ cold' = [n |-> 0, gen |-> gen]
  /\ stage' = "connect"
  /\ UNCHANGED <<upVars, stream, mark, seedFirst, reseed, idleAsked, relay, phone>>

Connect ==
  /\ stage = "connect"
  /\ stage' = "open"
  /\ stream' = [pos |-> RingHead - 1, first |-> TRUE, hadClients |-> phone = "listening"]
  /\ UNCHANGED <<upVars, mark, seedVars, idleAsked, relay, phone, drops>>

(* Slip: any first id that is not new counts as a restart.                  *)
RestartedNotNew(id) == stream.first /\ id <= mark.id

(* awaitFirstId, id < lastUpstreamId - RING_SIZE.                           *)
Restarted(id) == stream.first /\ id + RingSize < mark.id

(* _handleFrame of a frame with an id: one that looks like a restart makes  *)
(* the pump read the boundary again, or start over when it never seeds.     *)
Deliver ==
  /\ stage = "open" /\ stream.pos < Len(up)
  /\ LET id    == Larger(stream.pos + 1, RingHead)
         known == IF Restarted(id) THEN 0 ELSE mark.id
         until == IF Restarted(id) THEN 0 ELSE seedUntil
     IN  IF Restarted(id) /\ seedFirst
         THEN /\ mark' = [mark EXCEPT !.id = 0]
              /\ seedUntil' = 0 /\ reseed' = TRUE
              /\ stage' = "ended"
              /\ UNCHANGED <<stream, relay>>
         ELSE /\ stream' = [stream EXCEPT !.pos = id, !.first = FALSE]
              /\ seedUntil' = until
              /\ IF id <= known
                 THEN mark' = [mark EXCEPT !.id = known] /\ UNCHANGED relay
                 ELSE /\ mark' = [id |-> id, gen |-> gen]
                      /\ relay' = Append(relay,
                           [gen |-> gen, id |-> id, n |-> up[id].n, live |-> id > until,
                            old |-> gen = cold.gen /\ up[id].n <= cold.n])
              /\ UNCHANGED <<stage, reseed>>
  /\ UNCHANGED <<upVars, seedFirst, cold, idleAsked, phone, drops>>

(* Slip: only the clients there were before the stream keep the relay.      *)
StreamEndedHad ==
  /\ stage = "ended"
  /\ stage' = IF stream.hadClients THEN "top" ELSE "asking"
  /\ UNCHANGED <<upVars, stream, mark, seedVars, idleAsked, relay, phone, drops>>

(* The stream ended: reopened while anybody listens, else the state is      *)
(* asked.                                                                   *)
StreamEnded ==
  /\ stage = "ended"
  /\ stage' = IF stream.hadClients \/ phone = "listening" THEN "top" ELSE "asking"
  /\ UNCHANGED <<upVars, stream, mark, seedVars, idleAsked, relay, phone, drops>>

(* Slip: the session's state ends up as the loop's.                         *)
AskedStateHandedOn ==
  /\ stage = "asking"
  /\ stage' = IF busy THEN "top" ELSE "idle"
  /\ UNCHANGED <<upVars, stream, mark, seedVars, idleAsked, relay, phone, drops>>

(* getState's answer: a busy session keeps its relay, else the loop ENDs.   *)
AskedState ==
  /\ stage = "asking"
  /\ stage' = IF busy THEN "top" ELSE "dead"
  /\ UNCHANGED <<upVars, stream, mark, seedVars, idleAsked, relay, phone, drops>>

(* _idleCheck, after ten minutes without a client, then its answer.         *)
IdleCheck ==
  /\ "quiet" \in Happens
  /\ stage = "open" /\ phone # "listening" /\ ~idleAsked
  /\ idleAsked' = TRUE
  /\ UNCHANGED <<upVars, stage, stream, mark, seedVars, relay, phone, drops>>

IdleStop ==
  /\ idleAsked
  /\ idleAsked' = FALSE
  /\ stage' = IF busy THEN stage ELSE "dead"
  /\ UNCHANGED <<upVars, stream, mark, seedVars, relay, phone, drops>>

-----------------------------------------------------------------------------
(* The phone.                                                               *)

(* The prompt that creates the session: its first turn may have begun.      *)
StartSession ==
  /\ "new" \in Happens
  /\ stage = "none"
  /\ \A n \in DOMAIN said : said[n] = "user_prompt" => n = 1
  /\ Ensure(TRUE)
  /\ UNCHANGED <<upVars, relay, phone, drops>>

(* A prompt into the session, or GET /messages.                             *)
Touch ==
  /\ stage \in {"none", "dead"}
  /\ Ensure(FALSE)
  /\ UNCHANGED <<upVars, relay, phone, drops>>

(* GET /events: the pump is ensured, then the hub takes the connection,     *)
(* maybe after it has waited for a history reload.                          *)
Open ==
  /\ phone = "off"
  /\ Ensure(FALSE)
  /\ phone' = "opening"
  /\ UNCHANGED <<upVars, relay, drops>>

Listen ==
  /\ phone = "opening"
  /\ phone' = "listening"
  /\ UNCHANGED <<upVars, stage, stream, mark, seedVars, idleAsked, relay, drops>>

Leave ==
  /\ "leave" \in Happens
  /\ phone = "listening"
  /\ phone' = "off"
  /\ UNCHANGED <<upVars, stage, stream, mark, seedVars, idleAsked, relay, drops>>

-----------------------------------------------------------------------------
Upstream ==
  \/ \E kind \in {"user_prompt", "text_delta", "text_end", "idle"} : Say(kind)
  \/ UpRestart \/ UpLoad \/ StreamDrops

Pump ==
  \/ LoopTop \/ ReadBoundary \/ MissBoundary \/ Connect \/ Deliver
  \/ StreamEnded \/ AskedState \/ IdleCheck \/ IdleStop

Phone == StartSession \/ Touch \/ Open \/ Listen \/ Leave

Next == Upstream \/ Pump \/ Phone

Spec == Init /\ [][Next]_vars

Loop == LoopTop \/ ReadBoundary \/ Connect \/ StreamEnded \/ AskedState

(* The loop's awaits, timers and socket events resolve; the upstream loads  *)
(* its history; a connection reaches the hub.                               *)
FairSpec ==
  /\ Spec
  /\ WF_vars(UpLoad) /\ WF_vars(Listen)
  /\ WF_vars(Loop)
  /\ WF_vars(Deliver)

-----------------------------------------------------------------------------
Frame == [n : 1 .. MaxFrames, kind : {"user_prompt", "text_delta", "text_end", "idle"}]
Entry == [gen : Nat, id : Nat, n : 1 .. MaxFrames, live : BOOLEAN, old : BOOLEAN]

TypeOK ==
  /\ said \in Seq({"user_prompt", "text_delta", "text_end", "idle"})
  /\ busy \in BOOLEAN /\ loaded \in BOOLEAN
  /\ gen \in Nat /\ high \in Nat
  /\ up \in Seq(Frame)
  /\ stage \in {"none", "top", "boundary", "connect", "open", "ended", "asking", "dead"}
  /\ stream \in [pos : Nat, first : BOOLEAN, hadClients : BOOLEAN]
  /\ mark \in [id : Nat, gen : Nat]
  /\ seedFirst \in BOOLEAN /\ seedUntil \in Nat /\ reseed \in BOOLEAN
  /\ cold \in [n : Nat, gen : Nat]
  /\ idleAsked \in BOOLEAN
  /\ relay \in Seq(Entry)
  /\ phone \in {"off", "opening", "listening"}
  /\ drops \in Nat

(* The upstream replays its ring on every connect; no frame of one upstream *)
(* lifetime is put into the local ring twice or out of order, whichever of  *)
(* reconnects, resets and replaced pumps come between (dedup, header).      *)
RelayedOnce ==
  \A i, j \in DOMAIN relay : (i < j /\ relay[i].gen = relay[j].gen) => relay[i].id < relay[j].id

(* "COLD START SEEDS, DOESN'T SEND": what the transcript held when the pump *)
(* read its boundary is never sent live, on a cold start as after a reset,  *)
(* as long as the upstream that was asked is the one that replays; and the  *)
(* water mark only goes back when the upstream did restart: the replay of   *)
(* its own ring never starts far enough below the mark to look like one.    *)
HistoryNotSent ==
  /\ [](\A i \in DOMAIN relay : relay[i].live => ~relay[i].old)
  /\ [][mark'.id < mark.id => mark.gen # gen]_vars

(* While the phone listens to a relay that has not given up, every frame of *)
(* the session reaches the local ring: whatever ends the upstream's stream, *)
(* it is opened again and what was missed is neither lost nor skipped.      *)
Relayed(n) == \E i \in DOMAIN relay : relay[i].n = n
Relaying == phone = "listening" /\ stage \notin {"asking", "dead"}
FramesReachRing ==
  \A n \in 1 .. MaxFrames :
    (Relaying /\ n \in DOMAIN said) ~> (Relayed(n) \/ phone # "listening")

===============================================================================
