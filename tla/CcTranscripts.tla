----------------------------- MODULE CcTranscripts -----------------------------
(***************************************************************************)
(* A local Claude Code session on its way to the ring (cc-local.mjs,        *)
(* cc-watch.mjs and the routes that call them): its transcript is seeded    *)
(* into an empty ring, then tailed while a phone listens; a prompt goes to  *)
(* the terminal that drives it, is refused, or hands the session to the     *)
(* official pipeline.  A synchronous call sees one state of the file.       *)
(***************************************************************************)
EXTENDS Transcript

CONSTANTS Clients,      (* phones                                           *)
          MaxOpens,     (* bound on streams opened                          *)
          Happens       (* what may happen besides: "prompt", "vanish",      *)
                (* and "early", a prompt before anything is in the ring    *)

VARIABLES
  driver,     (* who writes the file: nobody, a terminal, the official pipeline *)
  ring,       (* the frames of the session                                  *)
  baseline,   (* seededOffsets: where the seeding ended (a set of one), or none *)
  watch,      (* the offset of the watch (a set of one), or none            *)
  stream,     (* each phone's GET /events                                   *)
  opens,
  cut         (* lines that were half written when the ring was seeded      *)

vars == <<file, driver, ring, baseline, watch, stream, opens, cut>>

Numbers == [i \in 1 .. Len(ring) |-> ring[i].n]

Init ==
  /\ InitFile(1)
  /\ driver \in {"terminal", "nobody"}
  /\ ring = << >> /\ baseline = {} /\ watch = {}
  /\ stream = [c \in Clients |-> "none"] /\ opens = 0 /\ cut = {}

-----------------------------------------------------------------------------
(* The session's writers.                                                   *)

WriteBegins ==
  /\ driver # "nobody" /\ Begin
  /\ UNCHANGED <<driver, ring, baseline, watch, stream, opens, cut>>

(* What the official pipeline's session says it pushes to the ring itself.  *)
WriteEnds ==
  /\ driver # "nobody" /\ End(0)
  /\ ring' = IF driver = "official" THEN Append(ring, Last(lines')) ELSE ring
  /\ UNCHANGED <<driver, baseline, watch, stream, opens, cut>>

Rewritten == Rewrite /\ UNCHANGED <<driver, ring, baseline, watch, stream, opens, cut>>

DriverChanges ==
  /\ ~half /\ driver' \in {"terminal", "nobody"} \ {driver}
  /\ UNCHANGED <<file, ring, baseline, watch, stream, opens, cut>>

-----------------------------------------------------------------------------
(* seedTranscript: into an empty ring only; the watch is to start where the *)
(* file ends now.                                                           *)
Seed ==
  /\ ring' = IF ring = << >> THEN Between(0, Size) ELSE ring
  /\ baseline' = IF ring = << >> THEN {Size} ELSE baseline
  /\ cut' = IF ring = << >> /\ half THEN {written + 1} ELSE cut

(* GET /messages and /status.                                               *)
Poll ==
  /\ ring = << >> /\ Seed
  /\ UNCHANGED <<file, driver, watch, stream, opens>>

(* GET /events, up to its await of seedTranscript.                          *)
Connect(c) ==
  /\ stream[c] = "none" /\ opens < MaxOpens
  /\ opens' = opens + 1
  /\ stream' = [stream EXCEPT ![c] = "seeded"]
  /\ Seed
  /\ UNCHANGED <<file, driver, watch>>

(* The phone goes away during the await; nobody hears of it.                *)
Vanish(c) ==
  /\ "vanish" \in Happens /\ stream[c] = "seeded"
  /\ stream' = [stream EXCEPT ![c] = "vanished"]
  /\ UNCHANGED <<file, driver, ring, baseline, watch, opens, cut>>

(* handleEvents and watchTranscript, then the listener to the stream's end. *)
Open(c) ==
  /\ stream[c] \in {"seeded", "vanished"}
  /\ stream' = [stream EXCEPT ![c] = IF @ = "seeded" THEN "open" ELSE "none"]
  /\ watch' = IF watch = {} THEN baseline ELSE watch
  /\ UNCHANGED <<file, driver, ring, baseline, opens, cut>>

(* unwatchTranscript, whoever else listens.                                 *)
Close(c) ==
  /\ stream[c] = "open"
  /\ stream' = [stream EXCEPT ![c] = "none"] /\ watch' = {}
  /\ UNCHANGED <<file, driver, ring, baseline, opens, cut>>

-----------------------------------------------------------------------------
(* Slip: a half written line is consumed with the ones before it.           *)
ReadAll(offset) ==
  IF Size < offset THEN watch' = {Size} /\ UNCHANGED ring
  ELSE ring' = ring \o Between(offset, Size) /\ watch' = {Size}

(* readNew: a file that shrank is followed from its new end; otherwise the  *)
(* whole lines after the offset.                                            *)
ReadNew(offset) ==
  IF Size < offset THEN watch' = {Size} /\ UNCHANGED ring
  ELSE /\ ring' = ring \o Between(offset, Size)
       /\ watch' = {LastNewline(offset, Size)}

(* One interval of the watch; an interval that a stop left behind finds no  *)
(* watch, or ticks the next one once more.                                  *)
Tick ==
  /\ \E offset \in watch : offset # Size /\ ReadNew(offset)
  /\ UNCHANGED <<file, driver, baseline, stream, opens, cut>>

-----------------------------------------------------------------------------
(* prompt()                                                                 *)

(* Typed into the terminal's pane: the terminal writes it.  A terminal that *)
(* cannot be reached: the refusal is told in the stream.                    *)
PromptToTerminal ==
  /\ "prompt" \in Happens /\ driver = "terminal"
  /\ LET seeded == IF ring = << >> THEN Between(0, Size) ELSE ring
         refusal == [n |-> 0, prompt |-> 0]
     IN  /\ refusal \notin Range(ring)
         /\ ring' = Append(seeded, refusal)
  /\ baseline' = IF ring = << >> THEN {Size} ELSE baseline
  /\ cut' = IF ring = << >> /\ half THEN {written + 1} ELSE cut
  /\ UNCHANGED <<file, driver, watch, stream, opens>>

(* Slip: the watch goes on beside the pipeline.                             *)
PassOn ==
  /\ "prompt" \in Happens /\ driver = "nobody" /\ (ring # << >> \/ "early" \in Happens)
  /\ driver' = "official" /\ baseline' = {}
  /\ UNCHANGED <<file, watch, ring, stream, opens, cut>>

(* Nobody drives it: the official pipeline takes it over, the watch stops.  *)
PassThrough ==
  /\ "prompt" \in Happens /\ driver = "nobody" /\ (ring # << >> \/ "early" \in Happens)
  /\ driver' = "official"
  /\ watch' = {} /\ baseline' = {}
  /\ UNCHANGED <<file, ring, stream, opens, cut>>

-----------------------------------------------------------------------------
Next ==
  \/ WriteBegins \/ WriteEnds \/ Rewritten \/ DriverChanges
  \/ Poll \/ Tick \/ PromptToTerminal \/ PassThrough
  \/ \E c \in Clients : Connect(c) \/ Vanish(c) \/ Open(c) \/ Close(c)

Spec == Init /\ [][Next]_vars

-----------------------------------------------------------------------------
TypeOK ==
  /\ driver \in {"nobody", "terminal", "official"}
  /\ baseline \subseteq 0 .. 2 * MaxLines /\ watch \subseteq 0 .. 2 * MaxLines
  /\ \A c \in Clients : stream[c] \in {"none", "seeded", "vanished", "open"}
  /\ \A i \in 1 .. Len(ring) : ring[i].n \in 0 .. written

(* "no frame duplication" (test/cc-local.test.mjs:355): what the ring was   *)
(* seeded with, what the watch reads and what the official pipeline pushes  *)
(* are different lines.                                                     *)
OnceInRing == IsInjective(Numbers)

(* Every line that a watch has passed is in the ring, over polls, reconnects *)
(* and prompts, unless it was half written when the ring was seeded.         *)
NothingMissed ==
  \A offset \in watch, i \in 1 .. Len(lines) :
    rewrites = 0 /\ 2 * i <= offset => lines[i].n \in Range(Numbers) \union cut
===============================================================================
