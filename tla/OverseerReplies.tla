-------------------------- MODULE OverseerReplies --------------------------
(***************************************************************************)
(* The reply of a confirmed message (overseer/actions.mjs: replyBaseline,   *)
(* watchReply, pushReply; overseer/host.mjs: stateOf, replySnapshot).  The  *)
(* newest history of the target is noted before the message is sent; then a *)
(* watch polls the target's state and, after an await, its history, and     *)
(* puts at most one item in the outbox: waiting, replied, or finished.      *)
(* One target; its history is a sequence of items, of which the bridge reads*)
(* the last Window and tells them apart by role and text alone.             *)
(***************************************************************************)
EXTENDS Integers, Sequences, SequencesExt

CONSTANTS Messages,   (* the confirmed messages                             *)
          Texts,      (* what an answer may say                             *)
          Window,     (* the history items a snapshot holds (6)             *)
          MaxWatches, (* REPLY_WATCH_MAX                                    *)
          Misses,     (* REPLY_MISSES                                       *)
          Quiet,      (* REPLY_QUIET_MS in polls                            *)
          MaxAnswers, (* bound on the answers after one message             *)
          Past,       (* the earlier messages, each answered alike          *)
          Drivers,    (* what runs the target: "bridge", "terminal"         *)
          Happens     (* "fail": a read fails; "late": a watch's time ends  *)

VARIABLES driver,   (* a bridge agent tells its state, a terminal in tmux   *)
                    (* only whether its screen shows a menu                 *)
          items,    (* the target's history                                 *)
          turn,     (* what the target does: idle, busy or waiting          *)
          inbox,    (* messages sent and not yet taken up                   *)
          msg,      (* each message: its step and its baseline              *)
          watches,  (* the running watches, newest last                     *)
          outbox    (* the reply items                                      *)

replyVars == <<driver, items, turn, inbox, msg, watches, outbox>>

None == "none"
Item == [role : {"user", "assistant"}, text : Texts \union {"ask"}]
(* Slip: by the newest answer's text.                                       *)
ShownAnswer(h) == LET a == SelectSeq(h, LAMBDA x : x.role = "assistant") IN IF a = <<>> THEN a ELSE <<Last(a)>>
(* replySnapshot: the last items, by role and text.                         *)
Shown(h) == SubSeq(h, IF Len(h) > Window THEN Len(h) - Window + 1 ELSE 1, Len(h))
Asked == [role |-> "user", text |-> "ask"]
NewMessage == [at |-> "new", fp |-> <<>>, len |-> 0]

Init ==
  /\ driver \in Drivers
  /\ \E n \in Past : items = [i \in 1..2*n |-> IF i % 2 = 1 THEN Asked ELSE [Asked EXCEPT !.role = "assistant",
                                                                   !.text = CHOOSE t \in Texts : TRUE]]
  /\ turn = "idle" /\ inbox = {}
  /\ msg = [m \in Messages |-> NewMessage]
  /\ watches = <<>> /\ outbox = <<>>

(* stateNow: a terminal reports idle throughout, its menu apart.            *)
StateOf == IF driver = "terminal" /\ turn # "waiting" THEN "idle" ELSE turn

-----------------------------------------------------------------------------
(* replyBaseline: the history before the send; none when it cannot be read. *)
Baseline(m) ==
  /\ msg[m].at = "new"
  /\ \/ msg' = [msg EXCEPT ![m] = [at |-> "noted", fp |-> Shown(items), len |-> Len(items)]]
     \/ "fail" \in Happens /\ msg' = [msg EXCEPT ![m].at = "unnoted"]
  /\ UNCHANGED <<driver, items, turn, inbox, watches, outbox>>

(* host.execute: a terminal at a prompt refuses; else the message is sent.  *)
Send(m) ==
  /\ msg[m].at \in {"noted", "unnoted"}
  /\ IF driver = "terminal" /\ turn = "waiting"
     THEN msg' = [msg EXCEPT ![m].at = "failed"] /\ UNCHANGED inbox
     ELSE /\ msg' = [msg EXCEPT ![m].at = IF @ = "noted" THEN "sent" ELSE "unwatched"]
          /\ inbox' = inbox \union {m}
  /\ UNCHANGED <<driver, items, turn, watches, outbox>>

(* Slip: the baseline is read when the watch starts.                        *)
WatchFrom(m, fp) == [msg |-> m, base |-> Shown(items), last |-> Shown(items), quiet |-> 0, busy |-> FALSE, missed |-> 0, read |-> None]

(* A new watch of a message, from its baseline.                             *)
WatchOf(m, fp) == [msg |-> m, base |-> fp, last |-> fp, quiet |-> 0, busy |-> FALSE, missed |-> 0, read |-> None]

(* watchReply: after the result is recorded; past the limit the oldest      *)
(* watch is dropped.                                                        *)
Watch(m) ==
  /\ msg[m].at = "sent"
  /\ LET all == Append(watches, WatchOf(m, msg[m].fp))
         over == Len(all) > MaxWatches
     IN  /\ watches' = IF over THEN Tail(all) ELSE all
         /\ msg' = [k \in Messages |-> IF k = m /\ ~(over /\ MaxWatches = 0) THEN [msg[k] EXCEPT !.at = "watched"]
                                       ELSE IF over /\ k = all[1].msg THEN [msg[k] EXCEPT !.at = "dropped"]
                                       ELSE msg[k]]
  /\ UNCHANGED <<driver, items, turn, inbox, outbox>>

-----------------------------------------------------------------------------
(* A tick reads the state, awaits, reads the history and decides.           *)
ReadState(i) ==
  /\ watches[i].read = None
  /\ \/ watches' = [watches EXCEPT ![i].read = StateOf]
     \/ "fail" \in Happens /\ watches' = [watches EXCEPT ![i].read = "unknown"]
  /\ UNCHANGED <<driver, items, turn, inbox, msg, outbox>>

Ended(i, at) ==
  /\ watches' = RemoveAt(watches, i)
  /\ msg' = [msg EXCEPT ![watches[i].msg].at = at]

Reported(i, kind, quote) ==
  /\ Ended(i, "reported")
  /\ outbox' = Append(outbox, [msg |-> watches[i].msg, kind |-> kind, quote |-> quote])

(* The position of the newest answer, 0 for none.                           *)
NewestAnswer(h) == LET a == {j \in DOMAIN h : h[j].role = "assistant"}
                   IN  IF a = {} THEN 0 ELSE CHOOSE j \in a : \A k \in a : k <= j

(* Slip: any answer in the history counts.                                  *)
HasAnswer(h) == NewestAnswer(h) # 0
LastIsAnswer(h) == h # <<>> /\ Last(h).role = "assistant"

Again(w, now, quiet) ==
  [w EXCEPT !.read = None, !.missed = 0, !.last = now, !.quiet = quiet, !.busy = @ \/ w.read = "busy"]

Missed(i) ==
  /\ IF watches[i].missed + 1 >= Misses THEN Ended(i, "abandoned")
     ELSE watches' = [watches EXCEPT ![i].read = None, ![i].missed = @ + 1] /\ UNCHANGED msg
  /\ UNCHANGED outbox

(* Slip: a target that waits is told of, and watched on.                    *)
SaysWaitingOn(i) ==
  /\ watches' = [watches EXCEPT ![i].read = None]
  /\ outbox' = Append(outbox, [msg |-> watches[i].msg, kind |-> "waiting", quote |-> 0])
  /\ UNCHANGED msg
SaysWaiting(i) == Reported(i, "waiting", 0)

(* What the tick makes of the state it read and the history it reads now.   *)
Decides(i, now, quiet) ==
  LET w == watches[i]
      still == quiet >= Quiet
      replied == still /\ now # w.base /\ LastIsAnswer(items)
  IN  \/ w.read = "waiting" /\ SaysWaiting(i)
      \/ w.read = "idle" /\ replied /\ Reported(i, "replied", NewestAnswer(items))
      \/ w.read = "idle" /\ still /\ ~replied /\ w.busy /\ Reported(i, "finished", 0)
      \/ /\ \/ w.read = "busy"
            \/ w.read = "idle" /\ ~replied /\ ~(still /\ w.busy)
         /\ watches' = [watches EXCEPT ![i] = Again(w, now, quiet)]
         /\ UNCHANGED <<msg, outbox>>

ReadHistory(i) ==
  /\ watches[i].read # None
  /\ \/ watches[i].read = "unknown" /\ Missed(i)
     \/ "fail" \in Happens /\ Missed(i)
     \/ /\ watches[i].read # "unknown"
        /\ LET now == Shown(items)
           IN  Decides(i, now, IF now # watches[i].last THEN 0
                               ELSE IF watches[i].quiet < Quiet THEN watches[i].quiet + 1 ELSE Quiet)
  /\ UNCHANGED <<driver, items, turn, inbox>>

(* REPLY_MAX_MS has passed.                                                 *)
TimesOut(i) ==
  /\ "late" \in Happens /\ Ended(i, "abandoned")
  /\ UNCHANGED <<driver, items, turn, inbox, outbox>>

-----------------------------------------------------------------------------
(* The target: takes a message up, answers, asks the user, ends its turn.   *)
Takes(m) ==
  /\ m \in inbox /\ turn # "waiting"
  /\ inbox' = inbox \ {m} /\ items' = Append(items, Asked) /\ turn' = "busy"
  /\ UNCHANGED <<driver, msg, watches, outbox>>

Answers ==
  /\ turn = "busy"
  /\ \E j \in DOMAIN items : items[j] = Asked /\ j + MaxAnswers > Len(items)
  /\ \E t \in Texts : items' = Append(items, [role |-> "assistant", text |-> t])
  /\ UNCHANGED <<driver, turn, inbox, msg, watches, outbox>>

Turns(from, to) ==
  /\ turn = from /\ turn' = to
  /\ UNCHANGED <<driver, items, inbox, msg, watches, outbox>>

Asks     == Turns("busy", "waiting")
Resumes  == Turns("waiting", "busy")
EndsTurn == items # <<>> /\ Last(items).role = "assistant" /\ Turns("busy", "idle")

Ticks(i) == i \in DOMAIN watches /\ (ReadState(i) \/ ReadHistory(i) \/ TimesOut(i))

Next ==
  \/ \E m \in Messages : Baseline(m) \/ Send(m) \/ Watch(m) \/ Takes(m)
  \/ \E i \in 1..MaxWatches : Ticks(i)
  \/ Answers \/ Asks \/ Resumes \/ EndsTurn

Spec == Init /\ [][Next]_replyVars

(* The timers fire; the target takes messages up, answers and ends turns.   *)
FairSpec ==
  /\ Spec
  /\ \A m \in Messages : WF_replyVars(Watch(m)) /\ SF_replyVars(Takes(m))
  /\ \A i \in 1..MaxWatches : WF_replyVars(i \in DOMAIN watches /\ (ReadState(i) \/ ReadHistory(i)))
  /\ SF_replyVars(Answers) /\ WF_replyVars(Resumes) /\ SF_replyVars(EndsTurn)

-----------------------------------------------------------------------------
TypeOK ==
  /\ driver \in Drivers /\ turn \in {"idle", "busy", "waiting"} /\ inbox \subseteq Messages
  /\ items \in Seq(Item) /\ Len(watches) <= MaxWatches
  /\ \A m \in Messages : msg[m].at \in {"new", "noted", "unnoted", "sent", "unwatched", "failed", "watched",
                                         "dropped", "abandoned", "reported"}

(* A message puts at most one reply in the outbox, and none once its watch  *)
(* was dropped or given up: the reader never hears one answer twice.        *)
ReplyOnce ==
  /\ \A j, k \in DOMAIN outbox : outbox[j].msg = outbox[k].msg => j = k
  /\ \A j \in DOMAIN outbox : msg[outbox[j].msg].at = "reported"

(* What is quoted as the reply was written after the message's baseline was *)
(* read: an answer of an earlier turn is never passed off as the reply.     *)
ReplyIsNew ==
  \A j \in DOMAIN outbox : outbox[j].kind = "replied" => outbox[j].quote > msg[outbox[j].msg].len

(* An identical "Done." still counts: a history that grew since the baseline *)
(* is told apart from it by the items a snapshot holds.                     *)
GrowthSeen ==
  \A i \in DOMAIN watches : LET w == watches[i]
                            IN  Len(items) > msg[w.msg].len => Shown(items) # w.base

(* A message is watched for its reply; it is reported, unless its watch is  *)
(* dropped for newer ones or given up (MCEnds).                             *)
Waits(m) == msg[m].at = "watched"
=============================================================================
