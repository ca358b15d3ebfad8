---------------------------- MODULE AssistantContext ----------------------------
(***************************************************************************)
(* What the Even AI assistant's model is shown of its session               *)
(* (lc/assistant-ext-core.mjs, the `context` hook): the results of phone    *)
(* tools from earlier runs and the requests a restart cut are replaced by   *)
(* stubs, recomputed from the session's messages before every model call.   *)
(* pi, which writes the messages, is external.                              *)
(***************************************************************************)
EXTENDS Naturals, Sequences, FiniteSets, FiniteSetsExt

CONSTANTS MaxMessages,   (* bound on the session                             *)
          Happens        (* what may happen besides: "killed" (a run that    *)
                         (* ignored its abort ends with its child, which     *)
                         (* writes nothing and is not told of it later),     *)
                         (* "late" (a note queued before the crash comes     *)
                         (* before the restart note)                         *)

VARIABLES
  messages,  (* the session: kind and, for reference, the run it belongs to *)
  run,       (* runs started                                                *)
  open,      (* the last of them is going on                                *)
  cut        (* the runs a crash or a restart cut                           *)

vars == <<messages, run, open, cut>>

(* user; result, of a phone tool; answer; end, of a run that was aborted,   *)
(* failed or ended without a text; note; restart, the note after a cut run. *)
Ends == {"answer", "end", "note", "restart"}
Notes == {"note", "restart"}

Of(m, kinds) == {i \in DOMAIN m : m[i].kind \in kinds}

(* The greatest of a set of positions, 0 for none.                          *)
Last(S) == Max(S \cup {0})

(* Slip: the last user message starts the run, a steer too.                 *)
LastUserStart(m) == Last(Of(m, {"user"}))

(* The first user message after the last end before the last user message.  *)
CurrentRunStart(m) ==
  LET last == Last(Of(m, {"user"}))
      end == Last({i \in Of(m, Ends) : i < last})
  IN  IF last = 0 THEN 0 ELSE Min({i \in Of(m, {"user"}) : end < i})

StaleResults(m) == {i \in Of(m, {"result"}) : i < CurrentRunStart(m)}

(* Slip: only the last restart note counts.                                 *)
CutLatest(m) ==
  LET n == Last(Of(m, {"restart"}))
  IN  {u \in Of(m, {"user"}) : Last({i \in Of(m, {"answer"} \cup Notes) : i < n}) < u /\ u < n}

(* The user messages between the last answer or note and a restart note.    *)
CutTurns(m) ==
  {u \in Of(m, {"user"}) : \E n \in Of(m, {"restart"}) :
     Last({i \in Of(m, {"answer"} \cup Notes) : i < n}) < u /\ u < n}

(* prepareContext: what the model sees as a stub.                           *)
Stubs(m) == CutTurns(m) \cup StaleResults(m)

-----------------------------------------------------------------------------
Init == messages = << >> /\ run = 0 /\ open = FALSE /\ cut = {}

(* The restart note of a cut run is queued before the next prompt is taken. *)
Told == cut = {} \/ run \notin cut \/ \E i \in Of(messages, {"restart"}) : messages[i].run = run

Write(kind, r) ==
  /\ Len(messages) < MaxMessages
  /\ messages' = Append(messages, [kind |-> kind, run |-> r])

Ask == ~open /\ Told /\ open' = TRUE /\ run' = run + 1 /\ Write("user", run + 1) /\ UNCHANGED cut
Steer == open /\ Write("user", run) /\ UNCHANGED <<run, open, cut>>
Result == open /\ Write("result", run) /\ UNCHANGED <<run, open, cut>>
RunEnds == open /\ open' = FALSE /\ (\E k \in {"answer", "end"} : Write(k, run)) /\ UNCHANGED <<run, cut>>
Cut == open /\ open' = FALSE /\ cut' = cut \cup {run} /\ UNCHANGED <<messages, run>>
Killed == "killed" \in Happens /\ open /\ open' = FALSE /\ UNCHANGED <<messages, run, cut>>
RestartNote == ~open /\ ~Told /\ Write("restart", run) /\ UNCHANGED <<run, open, cut>>
Note == ~open /\ (Told \/ "late" \in Happens) /\ Write("note", run) /\ UNCHANGED <<run, open, cut>>

Next == Ask \/ Steer \/ Result \/ RunEnds \/ Cut \/ Killed \/ RestartNote \/ Note
Spec == Init /\ [][Next]_vars

-----------------------------------------------------------------------------
TypeOK ==
  /\ messages \in Seq([kind : {"user", "result"} \cup Ends, run : 0 .. run])
  /\ open \in BOOLEAN /\ cut \subseteq 1 .. run

Answered == {messages[i].run : i \in Of(messages, {"answer"})}

(* The model sees its run's own results and no phone data of an earlier run; *)
(* a request that was cut is a stub from its restart note on, one that was   *)
(* answered stays (assistant-ext-core.mjs:286-289, 308-312).                 *)
OwnResults == open => StaleResults(messages) = {i \in Of(messages, {"result"}) : messages[i].run # run}
CutIsStub == \A u \in Of(messages, {"user"}) : messages[u].run \in cut /\ Told => u \in Stubs(messages)
AnsweredStays == \A u \in Of(messages, {"user"}) : messages[u].run \in Answered => u \notin Stubs(messages)
ContextTrue == OwnResults /\ CutIsStub /\ AnsweredStays

(* What was a stub stays one: the model's cache of the session's prefix      *)
(* holds but for the messages of the run before (:293-296).                  *)
StubsKept ==
  /\ Stubs(messages) \subseteq Stubs(messages')
  /\ \A i \in Stubs(messages') \ Stubs(messages) :
       i \in StaleResults(messages') => messages[i].run = Max({messages[j].run : j \in Of(messages, {"user"})})
StubsStay == [][StubsKept]_vars
=============================================================================
