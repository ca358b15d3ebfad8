-------------------------------- MODULE LcDialogs --------------------------------
(***************************************************************************)
(* Dialogs of a lets-code child (providers/durable/lc: session.mjs,         *)
(* engine.mjs; pi/session.mjs): what it asks, the phone's answers, which    *)
(* name no dialog, the sweep of asks nobody sees, and the interrupt.  The   *)
(* assistant's (assistant.mjs) are answered by their id.  External: the     *)
(* child, which waits for each answer, and the phone, which shows the       *)
(* oldest open request of a kind first.                                     *)
(***************************************************************************)
EXTENDS Naturals, Sequences, Functions

CONSTANTS MaxDialogs,  (* bound                                              *)
          Sessions,    (* "lc", "assistant"                                  *)
          Happens      (* what may happen besides: "crossing" (an answer is   *)
                       (* on its way while its dialog is swept or cancelled)  *)

Dialogs == 1 .. MaxDialogs      (* in the order the child asks               *)
None == "none"
Permissions == {"mandate", "confirm"}
Questions == {"factory", "question"}     (* an input with options is one     *)
DialogKinds == Permissions \cup Questions \cup {"freeform", "editor", "experts"}

VARIABLES
  session,   (* which of the two                                             *)
  kind,      (* of each dialog asked                                         *)
  asked,     (* what the child has asked and the bridge not handled yet      *)
  verdict,   (* what each dialog was answered                                *)
  pending,   (* pendingPermissions, pendingQuestions (here the assistant's): *)
             (* in the order the child asked                                 *)
  due,       (* open for LC_CONFIRM_DENY_MS                                  *)
  watching,  (* a client is attached                                         *)
  meant,     (* what the user answered to it                                 *)
  posts      (* the user's answers on their way                              *)

vars == <<session, kind, asked, verdict, pending, due, watching, meant, posts>>

Init ==
  /\ session \in Sessions
  /\ kind = << >> /\ asked = << >> /\ verdict = [d \in Dialogs |-> None]
  /\ pending = [permissions |-> {}, questions |-> {}] /\ due = {} /\ watching = TRUE
  /\ meant = [d \in Dialogs |-> None] /\ posts = << >>

Open == pending.permissions \cup pending.questions
Nothing == [permissions |-> {}, questions |-> {}]

(* The first of a list, if any.                                             *)
Oldest(ds) == {d \in ds : \A e \in ds : d <= e}

(* No answer is on its way; one that names its dialog hits no other.        *)
Calm == "crossing" \in Happens \/ posts = << >> \/ session = "assistant"

Ask(k) ==
  /\ Len(kind) < MaxDialogs
  /\ kind' = Append(kind, k) /\ asked' = Append(asked, Len(kind) + 1)
  /\ UNCHANGED <<session, verdict, pending, due, watching, meant, posts>>

-----------------------------------------------------------------------------
(* onUiRequest: an editor is cancelled, the experts and a freeform input    *)
(* are answered at once, the rest waits for the phone.                      *)

LcAtOnce(k) ==
  CASE k = "editor" -> "cancelled" [] k = "experts" -> "deny" [] k = "freeform" -> "value" [] OTHER -> None
AssistantAtOnce(k) == IF k = "editor" THEN "cancelled" ELSE None
AtOnce(k) == IF session = "lc" THEN LcAtOnce(k) ELSE AssistantAtOnce(k)

(* dialogKind: a select is an ask of the mandate, a checkpoint or a         *)
(* question.                                                                *)
ListOf(k) == IF k \in Permissions /\ session = "lc" THEN "permissions" ELSE "questions"

Handle ==
  /\ asked # << >>
  /\ LET d == Head(asked)
         now == AtOnce(kind[d])
     IN  IF now # None THEN verdict' = [verdict EXCEPT ![d] = now] /\ pending' = pending
         ELSE pending' = [pending EXCEPT ![ListOf(kind[d])] = @ \cup {d}] /\ verdict' = verdict
  /\ asked' = Tail(asked)
  /\ UNCHANGED <<session, kind, due, watching, meant, posts>>

(* The user answers what the phone shows: an allow or a deny, or a value.   *)
Answer(list, decision) ==
  /\ watching
  /\ \E d \in Oldest({e \in pending[list] : meant[e] = None}) :
       /\ decision \in (IF kind[d] \in Questions \cup {"freeform"} THEN {"value"} ELSE {"allow", "deny"})
       /\ meant' = [meant EXCEPT ![d] = decision]
       /\ posts' = Append(posts, [list |-> list, to |-> d, decision |-> decision])
  /\ UNCHANGED <<session, kind, asked, verdict, pending, due, watching>>

(* Slip: the newest request is answered.                                    *)
AnsweredLast(post) == {d \in pending[post.list] : \A e \in pending[post.list] : e <= d}

(* respondPermission and respondQuestion answer the oldest; answerDialog    *)
(* the one it names.  A question's answer that finds none is a prompt.      *)
LcAnswered(post) == Oldest(pending[post.list])
AssistantAnswered(post) == pending[post.list] \cap {post.to}
Answered(post) == IF session = "lc" THEN LcAnswered(post) ELSE AssistantAnswered(post)

Take ==
  /\ posts # << >> /\ posts' = Tail(posts)
  /\ LET post == Head(posts) answered == Answered(post)
     IN  /\ verdict' = [d \in Dialogs |-> IF d \in answered THEN post.decision ELSE verdict[d]]
         /\ pending' = [pending EXCEPT ![post.list] = @ \ answered]
         /\ due' = due \ answered
  /\ UNCHANGED <<session, kind, asked, watching, meant>>

-----------------------------------------------------------------------------
(* sweepDialogs, every 30 s.                                                *)

(* Slip: only mandate asks that are a select.                               *)
SweptSelects == IF watching THEN {} ELSE {d \in pending.permissions \cap due : kind[d] = "mandate"}

Swept == IF watching THEN {} ELSE pending.permissions \cap due

Sweep ==
  /\ Calm /\ Swept # {}
  /\ verdict' = [d \in Dialogs |-> IF d \in Swept THEN "deny" ELSE verdict[d]]
  /\ pending' = [pending EXCEPT !.permissions = @ \ Swept]
  /\ due' = due \ Swept
  /\ UNCHANGED <<session, kind, asked, watching, meant, posts>>

Ages(d) ==
  /\ d \in pending.permissions \ due /\ due' = due \cup {d}
  /\ UNCHANGED <<session, kind, asked, verdict, pending, watching, meant, posts>>

(* The user opens or leaves the session.                                    *)
Watch ==
  /\ watching' = ~watching /\ Calm
  /\ UNCHANGED <<session, kind, asked, verdict, pending, due, meant, posts>>

(* Slip: permissions stay open in an interrupt.                             *)
CancelledQuestions == pending.questions

Cancelled == Open

(* interrupt: every open dialog is cancelled, then the run aborted; a       *)
(* child that is stopped takes its dialogs along.                           *)
Interrupt ==
  /\ Calm
  /\ verdict' = [d \in Dialogs |-> IF d \in Cancelled THEN "cancelled" ELSE verdict[d]]
  /\ pending' = Nothing /\ due' = {}
  /\ UNCHANGED <<session, kind, asked, watching, meant, posts>>

Next ==
  \/ \E k \in DialogKinds : Ask(k)
  \/ Handle \/ Take \/ Sweep \/ Watch \/ Interrupt
  \/ \E list \in DOMAIN Nothing, v \in {"allow", "deny", "value"} : Answer(list, v)
  \/ \E d \in Dialogs : Ages(d)

Spec == Init /\ [][Next]_vars

(* The bridge reads what it is sent; its sweep runs every 30 s.             *)
FairSpec == Spec /\ WF_vars(Handle) /\ WF_vars(Take) /\ WF_vars(Sweep) /\ \A d \in Dialogs : WF_vars(Ages(d))

-----------------------------------------------------------------------------
TypeOK ==
  /\ \A d \in Dialogs : /\ verdict[d] \in {None, "allow", "deny", "value", "cancelled"}
                        /\ meant[d] \in {None, "allow", "deny", "value"}
  /\ Open \subseteq DOMAIN kind /\ due \subseteq Open /\ Range(asked) \subseteq DOMAIN kind

(* An answer reaches the dialog the user answered, though a phone's answer  *)
(* names none: nothing is allowed that the user did not allow, nothing      *)
(* denied that was allowed, and a factory checkpoint is answered by the     *)
(* user alone (session.mjs:9-14, 163-176; engine.mjs:1142-1156).            *)
AnswersMeant ==
  \A d \in DOMAIN kind : /\ verdict[d] = "allow" => meant[d] = "allow"
                         /\ verdict[d] = "deny" => meant[d] # "allow"
                         /\ verdict[d] = "value" => meant[d] = "value" \/ kind[d] = "freeform"

(* What the child waits for is what the phone is asked: no dialog is        *)
(* dropped without an answer, which the child would wait for for ever, and  *)
(* none is shown that is answered (pi/session.mjs:340-353).                 *)
NoneForgotten ==
  \A d \in DOMAIN kind : (d \in Open \cup Range(asked)) = (verdict[d] = None)

(* An ask for permission is open with nobody watching; it does not stay so  *)
(* (session.mjs:12-13; MCEnds).                                             *)
Waits == ~watching /\ pending.permissions # {}
================================================================================
