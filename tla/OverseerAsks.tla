------------------------------ MODULE OverseerAsks ------------------------------
(***************************************************************************)
(* Questions to the overseer and its outbox (overseer/overseer.mjs,         *)
(* overseer/docs.mjs).  A question is submitted and recorded as pending in  *)
(* one commit; its call waits a while.  An answer in time is returned, a    *)
(* late one is moved to the outbox by reconcile(), which follow(), an       *)
(* outbox read and a restart set off.  Durable is external: it keeps one    *)
(* submission per requestId, and a commit is atomic.                        *)
(***************************************************************************)
EXTENDS Naturals, Sequences, SequencesExt, FiniteSets

CONSTANTS
  Callers,      (* concurrent ask() calls                                   *)
  RequestIds,
  NoRequest,    (* the requestId of an outbox item that answers no question *)
  DoneKeep,     (* ASKS_DONE_KEEP                                           *)
  OutboxKeep,   (* OUTBOX_KEEP                                              *)
  TaggedKeep,   (* OUTBOX_TAGGED_KEEP                                       *)
  MaxAsks,      (* bound on the asks, retries of a requestId included       *)
  MaxNotices,   (* bound on the items that are no answers                   *)
  MaxRestarts   (* bound on the restarts                                    *)

VARIABLES
  submission,   (* of a requestId: "none", "running", "done", "unanswered"  *)
  pending, done, delivered,   (* the asks document                          *)
  box, seq,     (* the outbox document                                      *)
  call,         (* of a caller: where askOnce is, and its requestId         *)
  followed,     (* requestIds whose submission follow() waits for           *)
  wanted,       (* a reconcile() is queued                                  *)
  rec,          (* reconcileOnce: where it is, and what is left of its copy *)
  up,           (* ready                                                    *)
  asks, notices, restarts,
  answered,     (* requestIds whose answer an ask returned                  *)
  moved         (* requestId -> answers pushed into the outbox              *)

docVars == <<pending, done, delivered>>
boxVars == <<box, seq, moved, notices>>
recVars == <<rec, wanted, followed>>
vars == <<submission, docVars, boxVars, call, recVars, up, asks, restarts, answered>>

Settled(r) == submission[r] \in {"done", "unanswered"}

(* An ask of this process holds its requestId until it returns.             *)
Waiting(r) == \E c \in Callers : call[c].at # "idle" /\ call[c].req = r

NoCall == [at |-> "idle", req |-> NoRequest]
Idle == [at |-> "idle", left |-> <<>>]

(* noteDone and noteDelivered: once, the newest DoneKeep.                   *)
Noted(list, r) ==
  LET all == IF r \in Range(list) THEN list ELSE Append(list, r)
  IN  SubSeq(all, IF Len(all) > DoneKeep THEN (Len(all) - DoneKeep) + 1 ELSE 1, Len(all))

(* A question is pending once.                                              *)
Without(list, r) ==
  IF r \in Range(list) THEN RemoveAt(list, CHOOSE i \in DOMAIN list : list[i] = r) ELSE list

(* Slip: one limit for every item, tagged or not.                           *)
TrimmedAlike(items) ==
  SelectSeq(items, LAMBDA i :
    Cardinality({k \in DOMAIN items : items[k].seq > i.seq}) < OutboxKeep)

(* What pushOutbox keeps: the newest of the items with a fresh hand-off tag *)
(* and, apart from them, the newest of the others.                          *)
Trimmed(items) ==
  SelectSeq(items, LAMBDA i :
    Cardinality({k \in DOMAIN items : items[k].pinned = i.pinned /\ items[k].seq > i.seq})
      < IF i.pinned THEN TaggedKeep ELSE OutboxKeep)

PushOutbox(r, pinned) ==
  /\ seq' = seq + 1
  /\ box' = Trimmed(Append(box, [seq |-> seq + 1, req |-> r, pinned |-> pinned]))

-----------------------------------------------------------------------------
Init ==
  /\ submission = [r \in RequestIds |-> "none"]
  /\ pending = <<>> /\ done = <<>> /\ delivered = <<>>
  /\ box = <<>> /\ seq = 0
  /\ call = [c \in Callers |-> NoCall]
  /\ followed = {} /\ wanted = FALSE /\ rec = Idle
  /\ up = TRUE
  /\ asks = [r \in RequestIds |-> 0] /\ notices = 0 /\ restarts = 0
  /\ answered = {}
  /\ moved = [r \in RequestIds |-> 0]

-----------------------------------------------------------------------------
(* askOnce                                                                  *)

(* Slip: a question settled before is pending again.                        *)
PendingAgain(r) == IF r \in Range(pending) THEN pending ELSE Append(pending, r)

PendingWith(r) ==
  IF r \in Range(pending) \union Range(done) THEN pending ELSE Append(pending, r)

(* The requestId is held, then submitted and noted in one commit.  A retry  *)
(* of a question whose answer is in the outbox returns at once.             *)
Ask(c, r) ==
  /\ up /\ call[c] = NoCall
  /\ FoldFunction(LAMBDA m, n : m + n, 0, asks) < MaxAsks
  /\ asks' = [asks EXCEPT ![r] = @ + 1]
  /\ submission' = [submission EXCEPT ![r] = IF @ = "none" THEN "running" ELSE @]
  /\ pending' = PendingWith(r)
  /\ call' = IF r \in Range(delivered) THEN call
             ELSE [call EXCEPT ![c] = [at |-> "waiting", req |-> r]]
  /\ UNCHANGED <<done, delivered, boxVars, recVars, up, restarts, answered>>

(* Slip: the call is left with the status it has read.                      *)
InTimeStatus(c) ==
  /\ call[c].at = "waiting" /\ Settled(call[c].req)
  /\ call' = [call EXCEPT ![c].at = submission[call[c].req]]
  /\ UNCHANGED <<submission, docVars, boxVars, recVars, up, asks, restarts, answered>>

(* The submission settles within the wait.                                  *)
InTime(c) ==
  /\ call[c].at = "waiting" /\ Settled(call[c].req)
  /\ call' = [call EXCEPT ![c].at = "answering"]
  /\ UNCHANGED <<submission, docVars, boxVars, recVars, up, asks, restarts, answered>>

(* Slip: the call that gives up leaves nobody to wait for the answer.       *)
GivesUp(c) ==
  /\ call[c].at = "waiting" /\ ~Settled(call[c].req)
  /\ call' = [call EXCEPT ![c] = NoCall]
  /\ UNCHANGED <<submission, docVars, boxVars, recVars, up, asks, restarts, answered>>

(* The wait is over: the call returns "pending", follow() goes on waiting.  *)
TimesOut(c) ==
  /\ call[c].at = "waiting" /\ ~Settled(call[c].req)
  /\ followed' = followed \union {call[c].req}
  /\ call' = [call EXCEPT ![c] = NoCall]
  /\ UNCHANGED <<submission, docVars, boxVars, wanted, rec, up, asks, restarts, answered>>

(* The commit that settles a question in time, and the answer returned      *)
(* whether or not it was still pending.                                     *)
Answer(c) ==
  LET r == call[c].req IN
  /\ call[c].at = "answering"
  /\ pending' = Without(pending, r)
  /\ done' = IF r \in Range(pending) THEN Noted(done, r) ELSE done
  /\ answered' = answered \union {r}
  /\ call' = [call EXCEPT ![c] = NoCall]
  /\ UNCHANGED <<submission, delivered, boxVars, recVars, up, asks, restarts>>

-----------------------------------------------------------------------------
(* reconcile() and follow()                                                 *)

FollowFires(r) ==
  /\ r \in followed /\ Settled(r)
  /\ followed' = followed \ {r}
  /\ wanted' = TRUE
  /\ UNCHANGED <<submission, docVars, boxVars, call, rec, up, asks, restarts, answered>>

(* Even AI asks "what's new".                                               *)
ReadOutbox ==
  /\ up /\ ~wanted
  /\ wanted' = TRUE
  /\ UNCHANGED <<submission, docVars, boxVars, call, rec, followed, up, asks, restarts,
                 answered>>

ReconcileStart ==
  /\ wanted /\ rec = Idle
  /\ wanted' = FALSE
  /\ rec' = [at |-> "next", left |-> pending]
  /\ UNCHANGED <<submission, docVars, boxVars, call, followed, up, asks, restarts, answered>>

Skip == [at |-> "next", left |-> Tail(rec.left)]

(* Slip: an ask that still waits is not left alone.                         *)
ReconcileAnyNext ==
  /\ rec.at = "next"
  /\ rec' = IF rec.left = <<>> THEN Idle ELSE [rec EXCEPT !.at = "status"]
  /\ UNCHANGED <<submission, docVars, boxVars, call, wanted, followed, up, asks, restarts,
                 answered>>

(* The next question, unless an ask of this process waits for it.           *)
ReconcileNext ==
  /\ rec.at = "next"
  /\ rec' = IF rec.left = <<>> THEN Idle
            ELSE IF Waiting(Head(rec.left)) THEN Skip
            ELSE [rec EXCEPT !.at = "status"]
  /\ UNCHANGED <<submission, docVars, boxVars, call, wanted, followed, up, asks, restarts,
                 answered>>

ReconcileStatus ==
  /\ rec.at = "status"
  /\ rec' = IF Settled(Head(rec.left)) THEN [rec EXCEPT !.at = "move"] ELSE Skip
  /\ UNCHANGED <<submission, docVars, boxVars, call, wanted, followed, up, asks, restarts,
                 answered>>

(* The commit that moves an answer: checked against the document again.     *)
ReconcileMove ==
  LET r == Head(rec.left) IN
  /\ rec.at = "move"
  /\ rec' = Skip
  /\ IF r \in Range(pending)
     THEN /\ pending' = Without(pending, r)
          /\ done' = Noted(done, r)
          /\ delivered' = Noted(delivered, r)
          /\ PushOutbox(r, FALSE)
          /\ moved' = [moved EXCEPT ![r] = @ + 1]
     ELSE UNCHANGED <<docVars, box, seq, moved>>
  /\ UNCHANGED <<submission, call, wanted, followed, notices, up, asks, restarts, answered>>

-----------------------------------------------------------------------------
(* The overseer's run of a question ends.                                   *)
Settle(r, outcome) ==
  /\ submission[r] = "running"
  /\ submission' = [submission EXCEPT ![r] = outcome]
  /\ UNCHANGED <<docVars, boxVars, call, recVars, up, asks, restarts, answered>>

(* notify(): actions, check-ins and hand-off results.                       *)
Notify(pinned) ==
  /\ up /\ notices < MaxNotices
  /\ notices' = notices + 1
  /\ PushOutbox(NoRequest, pinned)
  /\ UNCHANGED <<submission, docVars, moved, call, recVars, up, asks, restarts, answered>>

(* HANDOFF_TAG_MS passes for the oldest tagged items.                       *)
TagsLapse ==
  \E n \in {box[k].seq : k \in {j \in DOMAIN box : box[j].pinned}} :
    /\ box' = [k \in DOMAIN box |->
                IF box[k].seq <= n THEN [box[k] EXCEPT !.pinned = FALSE] ELSE box[k]]
    /\ UNCHANGED <<submission, docVars, seq, moved, notices, call, recVars, up, asks,
                   restarts, answered>>

(* The bridge stops at any point and starts again with a reconcile().       *)
Restart ==
  /\ restarts < MaxRestarts
  /\ restarts' = restarts + 1
  /\ call' = [c \in Callers |-> NoCall]
  /\ followed' = {} /\ wanted' = TRUE /\ rec' = Idle
  /\ up' = FALSE
  /\ UNCHANGED <<submission, docVars, boxVars, asks, answered>>

(* ready: what still runs after that is followed.                           *)
Ready ==
  /\ ~up /\ ~wanted /\ rec = Idle
  /\ up' = TRUE
  /\ followed' = Range(pending)
  /\ UNCHANGED <<submission, docVars, boxVars, call, wanted, rec, asks, restarts, answered>>

-----------------------------------------------------------------------------
CallStep(c) == InTime(c) \/ TimesOut(c) \/ Answer(c)
Reconcile == ReconcileStart \/ ReconcileNext \/ ReconcileStatus \/ ReconcileMove

Next ==
  \/ \E c \in Callers : (\E r \in RequestIds : Ask(c, r)) \/ CallStep(c)
  \/ \E r \in RequestIds : FollowFires(r) \/ (\E o \in {"done", "unanswered"} : Settle(r, o))
  \/ ReadOutbox \/ Reconcile
  \/ (\E pinned \in BOOLEAN : Notify(pinned)) \/ TagsLapse
  \/ Restart \/ Ready

Spec == Init /\ [][Next]_vars

(* Timers fire, promises and commits resolve; nobody has to ask or to read. *)
FairSpec ==
  /\ Spec
  /\ \A c \in Callers : WF_vars(CallStep(c))
  /\ \A r \in RequestIds : WF_vars(FollowFires(r))
  /\ WF_vars(Reconcile) /\ WF_vars(Ready)

-----------------------------------------------------------------------------
AskIds == RequestIds \union {NoRequest}

(* The documents, the calls and reconcile stay within their types.          *)
TypeOK ==
  /\ submission \in [RequestIds -> {"none", "running", "done", "unanswered"}]
  /\ pending \in Seq(RequestIds) /\ done \in Seq(RequestIds) /\ delivered \in Seq(RequestIds)
  /\ box \in Seq([seq : Nat, req : AskIds, pinned : BOOLEAN]) /\ seq \in Nat
  /\ call \in [Callers -> [at : {"idle", "waiting", "answering"}, req : AskIds]]
  /\ followed \subseteq RequestIds
  /\ wanted \in BOOLEAN /\ up \in BOOLEAN
  /\ rec \in [at : {"idle", "next", "status", "move"}, left : Seq(RequestIds)]
  /\ rec.at \in {"status", "move"} => rec.left # <<>>
  /\ asks \in [RequestIds -> Nat] /\ notices \in Nat /\ restarts \in Nat
  /\ answered \subseteq RequestIds
  /\ moved \in [RequestIds -> Nat]

(* "A retried requestId is the same question (no second run, no second      *)
(* outbox item)": retried, reconciled and across restarts, an answer is     *)
(* pushed into the outbox at most once.                                     *)
OutboxOnce == \A r \in RequestIds : moved[r] <= 1

(* A question asked once is heard once: its answer is returned to the call  *)
(* that waits for it or moved to the outbox, whatever times out, reconciles *)
(* or restarts in between.                                                  *)
HeardOnce == \A r \in answered : asks[r] = 1 => moved[r] = 0

(* A hand-off item with a fresh tag only makes room for TaggedKeep newer    *)
(* ones: "a busy night of other items never pushes them out".               *)
TaggedKept ==
  \A k \in DOMAIN box :
    box[k].pinned =>
      \/ \E j \in DOMAIN box' : box'[j].seq = box[k].seq
      \/ Cardinality({j \in DOMAIN box' : box'[j].pinned /\ box'[j].seq > box[k].seq}) >= TaggedKeep
TaggedStay == [][TaggedKept]_vars

(* A pending question has settled; it leaves pending: whoever stopped       *)
(* waiting, retried or restarted, its answer is returned or moved to the    *)
(* outbox (MCEnds).                                                         *)
Waits(r) == r \in Range(pending) /\ Settled(r)
===============================================================================
