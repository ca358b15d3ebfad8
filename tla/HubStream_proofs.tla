--------------------------- MODULE HubStream_proofs ---------------------------
(* Proofs about HubStream: the types of its variables, that no connection is *)
(* written a frame twice or out of ring order, that none is jumped over, and *)
(* that history is never sent live.                                          *)
EXTENDS HubStream, WellFoundedInduction, TLAPS

(* A non-empty set of naturals bounded by n has a largest element, so       *)
(* Newest of a set of ring ids is one of them and bounds them all.          *)
LEMMA NewestOfBounded ==
  ASSUME NEW n \in Nat, NEW S \in SUBSET (0 .. n)
  PROVE  /\ Newest(S) \in Nat
         /\ Newest(S) <= n
         /\ \A i \in S : i <= Newest(S)
         /\ S # {} => Newest(S) \in S
<1>1. CASE S = {}
  <2>1. Newest(S) = 0
    BY <1>1, Zenon DEF Newest
  <2> QED BY <1>1, <2>1
<1>2. CASE S # {}
  <2> DEFINE T == {n - i : i \in S}
             R == OpToRel(<, Nat)
  <2>1. T \subseteq Nat /\ T # {}
    <3>1. \A i \in S : n - i \in Nat
      OBVIOUS
    <3> QED BY <1>2, <3>1
  <2>2. \E x \in T : \A y \in T : ~ (<<y, x>> \in R)
    <3> HIDE DEF T
    <3> QED BY <2>1, NatLessThanWellFounded, WFMin
  <2>3. PICK x \in T : \A y \in T : ~ (<<y, x>> \in R)
    BY <2>2
  <2>4. PICK m \in S : x = n - m
    OBVIOUS
  <2>5. \A y \in T : ~(y < x)
    BY <2>1, <2>3 DEF OpToRel
  <2>6. \A i \in S : i <= m
    <3> SUFFICES ASSUME NEW i \in S PROVE i <= m
      OBVIOUS
    <3>1. ~(n - i < n - m)
      BY <2>4, <2>5
    <3> QED BY <3>1
  <2>7. Newest(S) \in S /\ \A i \in S : i <= Newest(S)
    BY <1>2, <2>6 DEF Newest
  <2>8. Newest(S) \in 0 .. n
    BY <2>7
  <2> QED BY <2>7, <2>8
<1> QED BY <1>1, <1>2

-----------------------------------------------------------------------------
(* The part of the stream that one callback passes from call to call.       *)

StreamType ==
  [clients : SUBSET Conns, lastSent : [Conns -> Nat],
   sent : [Conns -> Seq(SUBSET Nat)], shown : [Conns -> {"none", "idle", "busy"}],
   state : {"idle", "busy"}, noted : Nat]

(* What was written to c is in ring order, and a client's position is past  *)
(* all of it: catch-up only ever reads beyond that position.                *)
Ordered(snt) ==
  \A j, k \in DOMAIN snt : j < k => \A a \in snt[j], b \in snt[k] : a < b
Behind(snt, id) == \A k \in DOMAIN snt : \A a \in snt[k] : a <= id
InOrder(s) ==
  \A c \in Conns : /\ Ordered(s.sent[c])
                   /\ c \in s.clients => Behind(s.sent[c], s.lastSent[c])

LEMMA NothingWritten ==
  /\ <<>> \in Seq(SUBSET Nat)
  /\ Ordered(<<>>)
  /\ \A id : Behind(<<>>, id)
  BY DEF Ordered, Behind

LEMMA RingIds ==
  ASSUME NEW l \in Seq(Kinds)
  PROVE  /\ Len(l) \in Nat
         /\ Ring(l) \subseteq 1 .. Len(l)
         /\ \A from : Pending(l, from) \subseteq Ring(l)
         /\ \A from, i : i \in Pending(l, from) => i > from
  BY HubAssumption DEF Ring, RingHead, RingTail, Pending

(* A frame's status is one of the two session states.                       *)
LEMMA LastStatusType ==
  ASSUME NEW l, NEW ids, NEW default
  PROVE  LastStatus(l, ids, default) \in {"idle", "busy", default}
  BY DEF LastStatus, SessionState

LEMMA NoteKeeps ==
  ASSUME NEW s \in StreamType, NEW l, NEW n \in Nat, NEW ids \in SUBSET (0 .. n)
  PROVE  /\ Note(s, l, ids) \in StreamType
         /\ Note(s, l, ids).clients = s.clients
         /\ Note(s, l, ids).lastSent = s.lastSent
         /\ Note(s, l, ids).sent = s.sent
         /\ Note(s, l, ids).shown = s.shown
<1> DEFINE st == LastStatus(l, {i \in ids : i > s.noted}, s.state)
           nt == Newest(ids \union {s.noted})
<1>1. st \in {"idle", "busy"}
  BY LastStatusType DEF StreamType
<1>2. nt \in Nat
  <2>1. s.noted \in Nat
    BY DEF StreamType
  <2>2. PICK m \in Nat : n <= m /\ s.noted <= m
    BY <2>1
  <2>3. \A i \in ids \union {s.noted} : i \in 0 .. m
    BY <2>1, <2>2
  <2>4. ids \union {s.noted} \in SUBSET (0 .. m)
    BY <2>3
  <2> QED BY <2>4, NewestOfBounded
<1>3. Note(s, l, ids) = [s EXCEPT !.state = st, !.noted = nt]
  BY DEF Note
<1> HIDE DEF st, nt
<1> QED BY <1>1, <1>2, <1>3 DEF StreamType

LEMMA WriteKeeps ==
  ASSUME NEW s \in StreamType, NEW l, NEW c \in Conns, NEW ids \in SUBSET Nat
  PROVE  /\ Write(s, l, c, ids) \in StreamType
         /\ Write(s, l, c, ids).clients = s.clients
         /\ Write(s, l, c, ids).lastSent = s.lastSent
         /\ \A d \in Conns : Write(s, l, c, ids).sent[d] =
              IF d = c /\ ids # {} THEN Append(s.sent[d], ids) ELSE s.sent[d]
<1>1. CASE ids = {}
  BY <1>1 DEF Write
<1>2. CASE ids # {}
  <2> DEFINE sh == LastStatus(l, ids, s.shown[c])
             w  == [s EXCEPT !.sent[c] = Append(s.sent[c], ids), !.shown[c] = sh]
  <2>1. sh \in {"none", "idle", "busy"}
    BY LastStatusType DEF StreamType
  <2>2. Write(s, l, c, ids) = w
    BY <1>2 DEF Write
  <2>3. Append(s.sent[c], ids) \in Seq(SUBSET Nat)
    BY DEF StreamType
  <2> HIDE DEF sh
  <2>4. /\ w \in StreamType
        /\ w.clients = s.clients
        /\ w.lastSent = s.lastSent
        /\ w.sent = [s.sent EXCEPT ![c] = Append(s.sent[c], ids)]
    BY <2>1, <2>3 DEF StreamType
  <2> QED BY <1>2, <2>2, <2>4 DEF StreamType
<1> QED BY <1>1, <1>2

(* Appending ids all newer than what was written keeps the order.           *)
LEMMA AppendOrdered ==
  ASSUME NEW snt \in Seq(SUBSET Nat), NEW ids \in SUBSET Nat, NEW from \in Nat,
         Ordered(snt), Behind(snt, from), \A i \in ids : i > from
  PROVE  Ordered(Append(snt, ids))
<1>1. DOMAIN Append(snt, ids) = 1 .. Len(snt) + 1 /\ DOMAIN snt = 1 .. Len(snt)
  OBVIOUS
<1>2. \A k \in 1 .. Len(snt) : Append(snt, ids)[k] = snt[k]
  OBVIOUS
<1>3. Append(snt, ids)[Len(snt) + 1] = ids /\ Len(snt) \in Nat
  OBVIOUS
<1> SUFFICES ASSUME NEW j \in 1 .. Len(snt) + 1, NEW k \in 1 .. Len(snt) + 1, j < k,
                    NEW a \in Append(snt, ids)[j], NEW b \in Append(snt, ids)[k]
             PROVE  a < b
  BY <1>1 DEF Ordered
<1>4. j \in 1 .. Len(snt) /\ a \in snt[j] /\ a \in Nat
  BY <1>2, <1>3
<1>5. CASE k = Len(snt) + 1
  <2>1. a <= from
    BY <1>1, <1>4 DEF Behind
  <2>2. b \in ids /\ b > from /\ b \in Nat
    BY <1>3, <1>5
  <2> QED BY <1>4, <2>1, <2>2
<1>6. CASE k # Len(snt) + 1
  BY <1>1, <1>2, <1>3, <1>4, <1>6 DEF Ordered
<1> QED BY <1>5, <1>6

LEMMA AppendBehind ==
  ASSUME NEW snt \in Seq(SUBSET Nat), NEW ids \in SUBSET Nat, NEW from \in Nat,
         NEW upto \in Nat, Behind(snt, from), from <= upto, \A i \in ids : i <= upto
  PROVE  Behind(Append(snt, ids), upto)
<1>1. DOMAIN Append(snt, ids) = 1 .. Len(snt) + 1 /\ DOMAIN snt = 1 .. Len(snt)
  OBVIOUS
<1> SUFFICES ASSUME NEW k \in 1 .. Len(snt) + 1, NEW a \in Append(snt, ids)[k]
             PROVE  a <= upto
  BY <1>1 DEF Behind
<1>2. CASE k = Len(snt) + 1
  <2>1. a \in ids
    BY <1>2
  <2> QED BY <2>1
<1>3. CASE k # Len(snt) + 1
  <2>1. k \in 1 .. Len(snt) /\ a \in snt[k] /\ a \in Nat
    BY <1>3
  <2> QED BY <1>1, <2>1 DEF Behind
<1> QED BY <1>2, <1>3

(* Catching up keeps every connection in order.                             *)
LEMMA CatchUpKeeps ==
  ASSUME NEW s \in StreamType, InOrder(s), NEW l \in Seq(Kinds), NEW sd,
         NEW plan \in Plans
  PROVE  LET t == CatchUp(s, l, sd, plan)
         IN  /\ t \in StreamType
             /\ InOrder(t)
             /\ t.clients \subseteq s.clients
             /\ \A c \in Conns \ s.clients : t.sent[c] = s.sent[c]
<1> DEFINE t == CatchUp(s, l, sd, plan)
           due(c)  == IF c \in s.clients THEN Pending(l, s.lastSent[c]) ELSE {}
           got(c)  == Gets(plan, c, due(c) \ sd)
           past(c) == {i \in due(c) : plan.fail[c] = 0 \/ i < plan.fail[c]}
           all     == UNION {due(c) : c \in Conns}
           noted   == Note(s, l, all)
           upto(c) == Newest(past(c) \union {s.lastSent[c]})
<1>1. /\ s.clients \subseteq Conns
      /\ s.lastSent \in [Conns -> Nat]
      /\ s.sent \in [Conns -> Seq(SUBSET Nat)]
      /\ s.shown \in [Conns -> {"none", "idle", "busy"}]
  BY DEF StreamType
<1>2. Len(l) \in Nat
  BY RingIds
<1>3. \A c \in Conns : /\ due(c) \subseteq 1 .. Len(l)
                       /\ \A i \in due(c) : i > s.lastSent[c]
                       /\ c \notin s.clients => due(c) = {}
  BY RingIds
<1>4. \A c \in Conns : got(c) \subseteq due(c) /\ past(c) \subseteq due(c)
  BY DEF Gets
<1>8. t = [clients  |-> {c \in s.clients : plan.fail[c] = 0},
           lastSent |-> [c \in Conns |-> upto(c)],
           sent     |-> [c \in Conns |-> IF got(c) = {} THEN s.sent[c]
                                          ELSE Append(s.sent[c], got(c))],
           shown    |-> [c \in Conns |-> LastStatus(l, got(c), s.shown[c])],
           state    |-> noted.state,
           noted    |-> noted.noted]
  BY DEF CatchUp
<1>10. \A c \in s.clients : plan.fail[c] = 0 => got(c) \subseteq past(c)
  <2> SUFFICES ASSUME NEW c \in s.clients, plan.fail[c] = 0, NEW i \in got(c)
               PROVE  i \in past(c)
    OBVIOUS
  <2>1. i \in due(c)
    BY <1>1, <1>4
  <2> HIDE DEF got, due
  <2> QED BY <2>1
<1> HIDE DEF due, got, past, t
<1>5. ASSUME NEW c \in Conns
      PROVE  /\ upto(c) \in Nat
             /\ s.lastSent[c] <= upto(c)
             /\ \A i \in past(c) : i <= upto(c)
  <2>1. PICK m \in Nat : Len(l) <= m /\ s.lastSent[c] <= m
    BY SMTT(30), <1>1, <1>2
  <2>2. \A i \in past(c) \union {s.lastSent[c]} : i \in 0 .. m
    BY <1>1, <1>2, <1>3, <1>4, <2>1
  <2>3. past(c) \union {s.lastSent[c]} \in SUBSET (0 .. m)
    BY <2>2
  <2> QED BY <2>3, NewestOfBounded
<1>6. /\ noted \in StreamType
      /\ noted.state \in {"idle", "busy"} /\ noted.noted \in Nat
  <2>1. \A i \in all : i \in 0 .. Len(l)
    BY <1>2, <1>3
  <2>2. noted \in StreamType
    <3>1. all \in SUBSET (0 .. Len(l))
      BY <2>1
    <3> HIDE DEF all
    <3> QED BY <1>2, <3>1, NoteKeeps
  <2> QED BY <2>2 DEF StreamType
<1>7. \A c \in Conns : got(c) \in SUBSET Nat
  <2> SUFFICES ASSUME NEW c \in Conns, NEW i \in got(c)
               PROVE  i \in Nat
    OBVIOUS
  <2>1. i \in due(c)
    BY <1>4
  <2> QED BY <1>2, <1>3, <2>1
<1>9. \A c \in Conns : LastStatus(l, got(c), s.shown[c]) \in {"none", "idle", "busy"}
  <2> SUFFICES ASSUME NEW c \in Conns
               PROVE  LastStatus(l, got(c), s.shown[c]) \in {"none", "idle", "busy"}
    OBVIOUS
  <2>1. s.shown[c] \in {"none", "idle", "busy"}
    BY <1>1
  <2> QED BY <2>1, LastStatusType
<1> HIDE DEF noted, upto
<1>11. t \in StreamType
  <2>1. [c \in Conns |-> IF got(c) = {} THEN s.sent[c] ELSE Append(s.sent[c], got(c))]
          \in [Conns -> Seq(SUBSET Nat)]
    BY <1>1, <1>7
  <2>2. [c \in Conns |-> upto(c)] \in [Conns -> Nat]
    BY <1>5
  <2>3. [c \in Conns |-> LastStatus(l, got(c), s.shown[c])]
          \in [Conns -> {"none", "idle", "busy"}]
    BY <1>9
  <2> QED BY <1>1, <1>6, <1>8, <2>1, <2>2, <2>3 DEF StreamType
<1>12. t.clients \subseteq s.clients
  BY <1>8
<1>13. \A c \in Conns \ s.clients : t.sent[c] = s.sent[c]
  BY <1>3, <1>4, <1>8
<1>14. InOrder(t)
  <2> SUFFICES ASSUME NEW c \in Conns
               PROVE  /\ Ordered(t.sent[c])
                      /\ c \in t.clients => Behind(t.sent[c], t.lastSent[c])
    BY DEF InOrder
  <2>1. /\ t.sent[c] = IF got(c) = {} THEN s.sent[c] ELSE Append(s.sent[c], got(c))
        /\ t.lastSent[c] = upto(c)
        /\ c \in t.clients => c \in s.clients /\ plan.fail[c] = 0
    BY <1>8
  <2>2. s.sent[c] \in Seq(SUBSET Nat) /\ s.lastSent[c] \in Nat
    BY <1>1
  <2>3. Ordered(s.sent[c]) /\ (c \in s.clients => Behind(s.sent[c], s.lastSent[c]))
    BY DEF InOrder
  <2>4. CASE c \notin s.clients
    BY <1>3, <1>4, <2>1, <2>3, <2>4
  <2>5. CASE c \in s.clients
    <3>1. \A i \in got(c) : i > s.lastSent[c]
      BY <1>3, <1>4
    <3>2. Ordered(Append(s.sent[c], got(c)))
      BY <1>7, <2>2, <2>3, <2>5, <3>1, AppendOrdered
    <3>3. ASSUME plan.fail[c] = 0
          PROVE  Behind(Append(s.sent[c], got(c)), upto(c)) /\ Behind(s.sent[c], upto(c))
      <4>1. \A i \in got(c) : i <= upto(c)
        BY <1>5, <1>10, <2>5, <3>3
      <4>2. Behind(Append(s.sent[c], got(c)), upto(c))
        BY <1>5, <1>7, <2>2, <2>3, <2>5, <4>1, AppendBehind
      <4>3. ASSUME NEW k \in DOMAIN s.sent[c], NEW a \in s.sent[c][k]
            PROVE  a <= upto(c)
        <5>1. a \in Nat /\ a <= s.lastSent[c]
          BY <2>2, <2>3, <2>5 DEF Behind
        <5> QED BY <1>5, <2>2, <5>1
      <4> QED BY <4>2, <4>3 DEF Behind
    <3> QED BY <2>1, <2>3, <3>2, <3>3
  <2> QED BY <2>4, <2>5
<1> QED BY <1>11, <1>12, <1>13, <1>14 DEF t

-----------------------------------------------------------------------------
(* The inductive invariant: the variables have their types, every           *)
(* connection was written its frames in order and stands past them, and a   *)
(* connection that is not open is neither a client nor has anything been    *)
(* written to it, so that its replay is the first batch.                    *)

RestOK ==
  /\ log \in Seq(Kinds)
  /\ seeded \subseteq Nat
  /\ phase \in [Conns -> {"unused", "waiting", "open"}]
  /\ mode \in [Conns -> {"none", "resume", "full", "multi", "history", "window"}]
  /\ tailAt \in [Conns -> Nat]
  /\ recent \in BOOLEAN
  /\ waking \subseteq {c \in Conns : phase[c] = "waiting"}
  /\ polling \in BOOLEAN

Fresh == \A c \in Conns : phase[c] # "open" => c \notin clients /\ sent[c] = <<>>

StreamOK == Stream \in StreamType /\ InOrder(Stream)

IInv == StreamOK /\ RestOK /\ Fresh

LEMMA InvImplies == IInv => TypeOK /\ InOrderOnce
  BY DEF IInv, StreamOK, RestOK, StreamType, Stream, InOrder, Ordered, TypeOK, InOrderOnce

LEMMA InvInit == Init => IInv
<1> SUFFICES ASSUME Init PROVE IInv
  OBVIOUS
<1>1. Stream \in StreamType
  BY DEF Init, Stream, StreamType
<1>2. InOrder(Stream)
  <2>1. Stream.sent = [c \in Conns |-> <<>>]
    BY DEF Init, Stream
  <2> QED BY <2>1, NothingWritten DEF InOrder
<1>3. RestOK
  <2>1. log \in Seq(Kinds)
    BY DEF Init
  <2>2. /\ phase \in [Conns -> {"unused", "waiting", "open"}]
        /\ mode \in [Conns -> {"none", "resume", "full", "multi", "history", "window"}]
        /\ tailAt \in [Conns -> Nat]
    BY DEF Init
  <2> QED BY <2>1, <2>2 DEF Init, RestOK
<1>4. Fresh
  BY DEF Init, Fresh
<1> QED BY <1>1, <1>2, <1>3, <1>4 DEF IInv, StreamOK

(* A callback that leaves the stream as t makes t the next stream.          *)
LEMMA BecomesStream ==
  ASSUME NEW t \in StreamType, Becomes(t)
  PROVE  Stream' = t
  BY DEF Becomes, Stream, StreamType

(* Any catch-up from a good stream gives a good stream.                     *)
LEMMA CatchUpStep ==
  ASSUME NEW s \in StreamType, InOrder(s), NEW l \in Seq(Kinds),
         \E plan \in CatchUpPlans(s, l, seeded) : Becomes(CatchUp(s, l, seeded, plan))
  PROVE  /\ StreamOK'
         /\ clients' \subseteq s.clients
         /\ \A c \in Conns \ s.clients : sent'[c] = s.sent[c]
<1>1. PICK plan \in Plans : Becomes(CatchUp(s, l, seeded, plan))
  BY DEF CatchUpPlans
<1> DEFINE t == CatchUp(s, l, seeded, plan)
<1>2. /\ t \in StreamType
      /\ InOrder(t)
      /\ t.clients \subseteq s.clients
      /\ \A c \in Conns \ s.clients : t.sent[c] = s.sent[c]
  BY CatchUpKeeps
<1>3. Stream' = t
  BY <1>1, <1>2, BecomesStream
<1>4. StreamOK'
  BY <1>2, <1>3 DEF StreamOK, InOrder
<1>5. clients' = t.clients /\ sent' = t.sent
  BY <1>1 DEF Becomes
<1> QED BY <1>2, <1>4, <1>5

(* Closing a connection forgets it and disturbs no other.                   *)
LEMMA ForgetStep ==
  ASSUME RestOK, Fresh, NEW c \in Conns, NEW s \in StreamType, InOrder(s), Forget(c, s),
         c \notin s.clients, s.clients \subseteq clients, s.sent = sent
  PROVE  /\ StreamOK'
         /\ Fresh'
         /\ phase' = [phase EXCEPT ![c] = "unused"]
         /\ mode' = [mode EXCEPT ![c] = "none"]
         /\ tailAt' = [tailAt EXCEPT ![c] = 0]
<1> DEFINE t == [s EXCEPT !.lastSent[c] = 0, !.sent[c] = <<>>, !.shown[c] = "none"]
<1>1. /\ t \in StreamType
      /\ t.clients = s.clients
      /\ t.lastSent = [s.lastSent EXCEPT ![c] = 0]
      /\ t.sent = [s.sent EXCEPT ![c] = <<>>]
  <2>1. /\ [s.lastSent EXCEPT ![c] = 0] \in [Conns -> Nat]
        /\ [s.sent EXCEPT ![c] = <<>>] \in [Conns -> Seq(SUBSET Nat)]
        /\ [s.shown EXCEPT ![c] = "none"] \in [Conns -> {"none", "idle", "busy"}]
    BY NothingWritten DEF StreamType
  <2> QED BY <2>1 DEF StreamType
<1>2. s.sent \in [Conns -> Seq(SUBSET Nat)] /\ s.lastSent \in [Conns -> Nat]
  BY DEF StreamType
<1>3. InOrder(t)
  <2> SUFFICES ASSUME NEW d \in Conns
               PROVE  /\ Ordered(t.sent[d])
                      /\ d \in t.clients => Behind(t.sent[d], t.lastSent[d])
    BY DEF InOrder
  <2>1. CASE d = c
    BY <1>1, <1>2, <2>1, NothingWritten
  <2>2. CASE d # c
    BY <1>1, <1>2, <2>2 DEF InOrder
  <2> QED BY <2>1, <2>2
<1> HIDE DEF t
<1>4. Becomes(t)
  BY DEF Forget, t
<1>5. Stream' = t
  BY <1>1, <1>4, BecomesStream
<1>6. StreamOK'
  BY <1>1, <1>3, <1>5 DEF StreamOK, InOrder
<1>7. /\ phase' = [phase EXCEPT ![c] = "unused"]
      /\ mode' = [mode EXCEPT ![c] = "none"]
      /\ tailAt' = [tailAt EXCEPT ![c] = 0]
  BY DEF Forget
<1>8. clients' = s.clients /\ sent' = [sent EXCEPT ![c] = <<>>]
  BY <1>1, <1>4 DEF Becomes
<1>9. Fresh'
  BY <1>2, <1>7, <1>8 DEF Fresh, RestOK
<1> QED BY <1>6, <1>7, <1>9

-----------------------------------------------------------------------------
(* noteMessage leaves the connections alone.                                *)
LEMMA NoteStream ==
  ASSUME Stream \in StreamType, NEW n \in Nat, NEW ids \in SUBSET (0 .. n)
  PROVE  /\ Note(Stream, log, ids) \in StreamType
         /\ Note(Stream, log, ids).clients = clients
         /\ Note(Stream, log, ids).lastSent = lastSent
         /\ Note(Stream, log, ids).sent = sent
<1>1. Stream.clients = clients /\ Stream.lastSent = lastSent /\ Stream.sent = sent
  BY DEF Stream
<1> QED BY <1>1, NoteKeeps

(* A connect that was not open yet: its replay, if it survives, is the      *)
(* first batch and ends at the tail the connection starts from.             *)
LEMMA StartStep ==
  ASSUME IInv, NEW c \in Conns, phase[c] # "open", NEW tail \in Nat,
         NEW replay \in SUBSET (0 .. tail),
         NEW md \in {"resume", "full", "multi", "history", "window"},
         Start(c, replay, md, tail)
  PROVE  /\ StreamOK'
         /\ Fresh'
         /\ UNCHANGED <<log, seeded, recent>>
         /\ phase' \in [Conns -> {"unused", "waiting", "open"}]
         /\ \A d \in Conns \ {c} : phase'[d] = phase[d]
         /\ mode' \in [Conns -> {"none", "resume", "full", "multi", "history", "window"}]
         /\ tailAt' \in [Conns -> Nat]
         /\ polling' \in BOOLEAN
<1> USE DEF IInv
<1>1. /\ Stream \in StreamType /\ InOrder(Stream) /\ Stream.sent = sent
      /\ Stream.clients = clients /\ Stream.lastSent = lastSent
      /\ c \notin clients /\ sent[c] = <<>> /\ sent \in [Conns -> Seq(SUBSET Nat)]
      /\ lastSent \in [Conns -> Nat] /\ clients \subseteq Conns
  BY DEF StreamOK, Fresh, Stream, StreamType
<1> DEFINE full == [Write(Note(Stream, log, replay), log, c, replay)
                      EXCEPT !.clients = @ \union {c}, !.lastSent[c] = tail]
           Fails == \E bad \in replay :
                      Forget(c, Note(Stream, log, {i \in replay : i < bad}))
           Joined == \E plan \in CatchUpPlans(full, log, seeded) :
                       Becomes(CatchUp(full, log, seeded, plan))
<1>2. UNCHANGED <<log, seeded, recent>>
  BY DEF Start, ringVars
<1>5. \/ Fails /\ UNCHANGED polling
      \/ /\ Joined
         /\ phase' = [phase EXCEPT ![c] = "open"]
         /\ mode' = [mode EXCEPT ![c] = md]
         /\ tailAt' = [tailAt EXCEPT ![c] = tail]
         /\ polling' = TRUE
  BY Zenon DEF Start
<1>3. CASE Fails /\ UNCHANGED polling
  <2>1. PICK bad \in replay : Forget(c, Note(Stream, log, {i \in replay : i < bad}))
    BY <1>3
  <2> DEFINE got == {i \in replay : i < bad}
             s   == Note(Stream, log, got)
  <2>2. got \in SUBSET (0 .. tail)
    OBVIOUS
  <2> HIDE DEF got
  <2>3. /\ s \in StreamType
        /\ s.clients = clients /\ s.sent = sent /\ s.lastSent = lastSent
    BY <1>1, <2>2, NoteStream
  <2>4. Forget(c, s)
    BY <2>1 DEF got
  <2> HIDE DEF s
  <2>5. InOrder(s)
    BY <1>1, <2>3 DEF InOrder
  <2>6. /\ StreamOK'
        /\ Fresh'
        /\ phase' = [phase EXCEPT ![c] = "unused"]
        /\ mode' = [mode EXCEPT ![c] = "none"]
        /\ tailAt' = [tailAt EXCEPT ![c] = 0]
    BY <1>1, <2>3, <2>4, <2>5, ForgetStep
  <2> QED BY <1>2, <1>3, <2>6 DEF RestOK
<1>4. ASSUME Joined, phase' = [phase EXCEPT ![c] = "open"]
      PROVE  StreamOK' /\ Fresh'
  <2> DEFINE n == Note(Stream, log, replay)
             w == Write(n, log, c, replay)
             s == [w EXCEPT !.clients = @ \union {c}, !.lastSent[c] = tail]
  <2>1. n \in StreamType /\ n.clients = clients /\ n.lastSent = lastSent /\ n.sent = sent
    BY <1>1, NoteStream
  <2> HIDE DEF n
  <2>2. /\ w \in StreamType /\ w.clients = clients /\ w.lastSent = lastSent
        /\ \A d \in Conns : w.sent[d] =
             IF d = c /\ replay # {} THEN Append(sent[d], replay) ELSE sent[d]
    <3>1. replay \in SUBSET Nat
      OBVIOUS
    <3> QED BY <2>1, <3>1, WriteKeeps
  <2> HIDE DEF w
  <2>3. /\ s \in StreamType
        /\ s.clients = clients \union {c}
        /\ s.lastSent = [lastSent EXCEPT ![c] = tail]
        /\ s.sent = w.sent
    <3>1. /\ [w.lastSent EXCEPT ![c] = tail] \in [Conns -> Nat]
          /\ w.clients \union {c} \in SUBSET Conns
      BY <2>2 DEF StreamType
    <3> QED BY <2>2, <3>1 DEF StreamType
  <2>4. InOrder(s)
    <3> SUFFICES ASSUME NEW d \in Conns
                 PROVE  /\ Ordered(s.sent[d])
                        /\ d \in s.clients => Behind(s.sent[d], s.lastSent[d])
      BY DEF InOrder
    <3>1. CASE d # c
      BY <1>1, <2>2, <2>3, <3>1 DEF InOrder
    <3>2. CASE d = c
      <4>1. s.sent[c] = (IF replay = {} THEN <<>> ELSE <<replay>>) /\ s.lastSent[c] = tail
        <5>1. Append(<<>>, replay) = <<replay>>
          OBVIOUS
        <5>2. s.sent[c] = IF replay # {} THEN Append(sent[c], replay) ELSE sent[c]
          BY <2>2, <2>3
        <5>3. s.lastSent[c] = tail
          BY <1>1, <2>3
        <5> QED BY <1>1, <5>1, <5>2, <5>3
      <4>2. Ordered(<<replay>>) /\ Behind(<<replay>>, tail)
        BY DEF Ordered, Behind
      <4> QED BY <3>2, <4>1, <4>2, NothingWritten
    <3> QED BY <3>1, <3>2
  <2>5. \E plan \in CatchUpPlans(s, log, seeded) : Becomes(CatchUp(s, log, seeded, plan))
    BY <1>4 DEF w, n
  <2> HIDE DEF s
  <2>6. /\ StreamOK'
        /\ clients' \subseteq s.clients
        /\ \A d \in Conns \ s.clients : sent'[d] = s.sent[d]
    BY <2>3, <2>4, <2>5, CatchUpStep DEF RestOK
  <2>7. Fresh'
    <3> SUFFICES ASSUME NEW d \in Conns, phase'[d] # "open"
                 PROVE  d \notin clients' /\ sent'[d] = <<>>
      BY DEF Fresh
    <3>1. d # c /\ phase'[d] = phase[d]
      BY <1>4 DEF RestOK
    <3>2. d \notin clients /\ sent[d] = <<>>
      BY <3>1 DEF Fresh
    <3> QED BY <2>2, <2>3, <2>6, <3>1, <3>2
  <2> QED BY <2>6, <2>7
<1> HIDE DEF Fails, Joined
<1>6. CASE /\ Joined
           /\ phase' = [phase EXCEPT ![c] = "open"]
           /\ mode' = [mode EXCEPT ![c] = md]
           /\ tailAt' = [tailAt EXCEPT ![c] = tail]
           /\ polling' = TRUE
  BY <1>2, <1>4, <1>6 DEF RestOK
<1> QED BY <1>3, <1>5, <1>6

-----------------------------------------------------------------------------
(* One lemma per action.                                                    *)

LEMMA FeedStep ==
  ASSUME IInv, NEW kind \in Kinds, Feed(kind)
  PROVE  IInv'
<1> DEFINE s == Note(Stream, log', {Len(log')})
<1>1. /\ log \in Seq(Kinds) /\ log' = Append(log, kind)
      /\ UNCHANGED <<seeded, phase, mode, tailAt, recent, waking, polling>>
      /\ \E plan \in CatchUpPlans(s, log', seeded) : Becomes(CatchUp(s, log', seeded, plan))
  BY DEF Feed, IInv, RestOK, connVars
<1>2. log' \in Seq(Kinds) /\ Len(log') \in Nat
  BY <1>1
<1>3. Stream \in StreamType /\ InOrder(Stream)
  BY DEF IInv, StreamOK
<1>4. {Len(log')} \in SUBSET (0 .. Len(log'))
  BY <1>2
<1>5. /\ s \in StreamType
      /\ s.clients = Stream.clients /\ s.lastSent = Stream.lastSent /\ s.sent = Stream.sent
  BY <1>2, <1>3, <1>4, NoteKeeps
<1> HIDE DEF s
<1>6. InOrder(s)
  BY <1>3, <1>5 DEF InOrder
<1>7. /\ StreamOK'
      /\ clients' \subseteq s.clients
      /\ \A c \in Conns \ s.clients : sent'[c] = s.sent[c]
  BY <1>1, <1>2, <1>5, <1>6, CatchUpStep
<1>8. s.clients = clients /\ s.sent = sent
  BY <1>5 DEF Stream
<1>9. Fresh'
  BY <1>1, <1>7, <1>8 DEF IInv, Fresh
<1>10. RestOK'
  BY <1>1, <1>2 DEF IInv, RestOK
<1> QED BY <1>7, <1>9, <1>10 DEF IInv

LEMMA SeedStep ==
  ASSUME IInv, NEW kind \in Kinds, Seed(kind)
  PROVE  IInv'
<1> DEFINE s == Note(Stream, log', {Len(log')})
<1>1. /\ log \in Seq(Kinds) /\ log' = Append(log, kind)
      /\ UNCHANGED <<phase, mode, tailAt, recent, waking, polling>>
      /\ seeded' = seeded \union {Len(log')}
      /\ Becomes(s)
  BY DEF Seed, IInv, RestOK, connVars
<1>2. log' \in Seq(Kinds) /\ Len(log') \in Nat
  BY <1>1
<1>3. Stream \in StreamType /\ InOrder(Stream)
  BY DEF IInv, StreamOK
<1>4. {Len(log')} \in SUBSET (0 .. Len(log'))
  BY <1>2
<1>5. /\ s \in StreamType
      /\ s.clients = Stream.clients /\ s.lastSent = Stream.lastSent /\ s.sent = Stream.sent
  BY <1>2, <1>3, <1>4, NoteKeeps
<1> HIDE DEF s
<1>6. InOrder(s) /\ Stream' = s
  BY <1>1, <1>3, <1>5, BecomesStream DEF InOrder
<1>7. StreamOK'
  BY <1>5, <1>6 DEF StreamOK, InOrder
<1>8. clients' = clients /\ sent' = sent
  BY <1>1, <1>5 DEF Stream, Becomes
<1>9. Fresh'
  BY <1>1, <1>8 DEF IInv, Fresh
<1>10. RestOK'
  BY <1>1, <1>2 DEF IInv, RestOK
<1> QED BY <1>7, <1>9, <1>10 DEF IInv

LEMMA PollStep == IInv /\ Poll => IInv'
<1> SUFFICES ASSUME IInv, Poll PROVE IInv'
  OBVIOUS
<1>1. Stream \in StreamType /\ InOrder(Stream) /\ log \in Seq(Kinds)
  BY DEF IInv, StreamOK, RestOK
<1>2. /\ StreamOK'
      /\ clients' \subseteq Stream.clients
      /\ \A c \in Conns \ Stream.clients : sent'[c] = Stream.sent[c]
  BY <1>1, CatchUpStep DEF Poll
<1>3. UNCHANGED <<log, seeded, phase, mode, tailAt, recent, waking>> /\ polling' \in BOOLEAN
  BY DEF Poll, ringVars, connVars
<1>4. Stream.clients = clients /\ Stream.sent = sent
  BY DEF Stream
<1>5. Fresh'
  BY <1>2, <1>3, <1>4 DEF IInv, Fresh
<1>6. RestOK'
  BY <1>3 DEF IInv, RestOK
<1> QED BY <1>2, <1>5, <1>6 DEF IInv

(* Every replay consists of ring ids no newer than the tail it starts from. *)
LEMMA ReplaysBounded ==
  ASSUME RestOK, NEW tail \in Nat
  PROVE  /\ RingTail(log) \in Nat
         /\ Ring(log) \in SUBSET (0 .. RingTail(log))
         /\ \A id : Pending(log, id) \in SUBSET (0 .. RingTail(log))
         /\ \A reloaded : StreamOnlyReplay(tail, reloaded) \in SUBSET (0 .. tail)
<1>1. /\ Len(log) \in Nat
      /\ Ring(log) \subseteq 1 .. Len(log)
      /\ \A id : Pending(log, id) \subseteq Ring(log)
  BY RingIds DEF RestOK
<1>2. \A i \in Window(log, tail) : i \in 0 .. tail
  BY <1>1 DEF Window
<1>3. \A reloaded : \A i \in StreamOnlyReplay(tail, reloaded) : i \in Window(log, tail)
  BY DEF StreamOnlyReplay
<1>4. \A i \in Ring(log) : i \in 0 .. Len(log)
  BY <1>1
<1> HIDE DEF Window, StreamOnlyReplay
<1> QED BY <1>1, <1>2, <1>3, <1>4 DEF RingTail

LEMMA ConnectStep ==
  ASSUME IInv, NEW c \in Conns, Connect(c)
  PROVE  IInv'
<1>1. RestOK
  BY DEF IInv
<1>2. CASE ConnectWait(c)
  <2>1. /\ UNCHANGED <<log, seeded, state, lastNoted, clients, lastSent, mode, sent,
                       shown, recent, waking, polling>>
        /\ phase[c] = "unused"
        /\ phase' = [phase EXCEPT ![c] = "waiting"]
        /\ tailAt' = [tailAt EXCEPT ![c] = RingTail(log)]
    BY <1>2 DEF ConnectWait, ringVars
  <2>2. StreamOK'
    <3>1. Stream' = Stream
      BY <2>1 DEF Stream
    <3> QED BY <3>1 DEF IInv, StreamOK, InOrder
  <2>3. Fresh'
    BY <1>1, <2>1 DEF IInv, Fresh, RestOK
  <2>4. RestOK'
    <3>1. RingTail(log) \in Nat
      BY <1>1, ReplaysBounded
    <3> QED BY <1>1, <2>1, <3>1 DEF RestOK
  <2> QED BY <2>2, <2>3, <2>4 DEF IInv
<1>3. CASE ~ConnectWait(c)
  <2>1. PICK replay \in SUBSET (0 .. RingTail(log)),
             md \in {"resume", "full", "multi", "history", "window"} :
          /\ Start(c, replay, md, RingTail(log))
          /\ phase[c] = "unused" /\ waking = {} /\ waking' = waking
    <3>1. CASE \E id \in 1 .. RingTail(log) : ConnectResume(c, id)
      BY <1>1, <3>1, ReplaysBounded DEF ConnectResume, Settled
    <3>2. CASE ConnectFull(c)
      BY <1>1, <3>2, ReplaysBounded DEF ConnectFull, Settled
    <3>3. CASE ConnectMulti(c)
      BY <1>1, <3>3, ReplaysBounded DEF ConnectMulti, Settled
    <3>4. CASE ConnectSole(c)
      <4>1. RingTail(log) \in Nat
        BY <1>1, ReplaysBounded
      <4>2. StreamOnlyReplay(RingTail(log), recent) \in SUBSET (0 .. RingTail(log))
        BY <1>1, <4>1, ReplaysBounded
      <4> QED BY <3>4, <4>2 DEF ConnectSole, Settled, ReplayMode
    <3> QED BY <1>3, <3>1, <3>2, <3>3, <3>4 DEF Connect
  <2>2. RingTail(log) \in Nat
    BY <1>1, ReplaysBounded
  <2>3. /\ StreamOK'
        /\ Fresh'
        /\ UNCHANGED <<log, seeded, recent>>
        /\ phase' \in [Conns -> {"unused", "waiting", "open"}]
        /\ mode' \in [Conns -> {"none", "resume", "full", "multi", "history", "window"}]
        /\ tailAt' \in [Conns -> Nat]
        /\ polling' \in BOOLEAN
    BY <2>1, <2>2, StartStep
  <2> QED BY <1>1, <2>1, <2>3 DEF IInv, RestOK
<1> QED BY <1>2, <1>3

(* A waiting connect that is decided, by the timer or by a reload.          *)
LEMMA DecideStep ==
  ASSUME IInv, NEW c \in Conns, phase[c] = "waiting", Decide(c),
         waking' = waking \ {c}
  PROVE  IInv'
<1>1. RestOK /\ tailAt[c] \in Nat
  BY DEF IInv, RestOK
<1>2. StreamOnlyReplay(tailAt[c], recent) \in SUBSET (0 .. tailAt[c])
  BY <1>1, ReplaysBounded
<1>3. ReplayMode \in {"resume", "full", "multi", "history", "window"}
  BY DEF ReplayMode
<1>4. /\ StreamOK'
      /\ Fresh'
      /\ UNCHANGED <<log, seeded, recent>>
      /\ phase' \in [Conns -> {"unused", "waiting", "open"}]
      /\ \A d \in Conns \ {c} : phase'[d] = phase[d]
      /\ mode' \in [Conns -> {"none", "resume", "full", "multi", "history", "window"}]
      /\ tailAt' \in [Conns -> Nat]
      /\ polling' \in BOOLEAN
  BY <1>1, <1>2, <1>3, StartStep DEF Decide
<1> QED BY <1>1, <1>4 DEF IInv, RestOK

LEMMA CloseStep ==
  ASSUME IInv, NEW c \in Conns, Close(c)
  PROVE  IInv'
<1> DEFINE s == [Stream EXCEPT !.clients = @ \ {c}]
<1>1. Stream \in StreamType /\ InOrder(Stream) /\ RestOK /\ Fresh
  BY DEF IInv, StreamOK
<1>2. /\ s \in StreamType
      /\ s.clients = clients \ {c} /\ s.sent = sent
      /\ s.sent = Stream.sent /\ s.lastSent = Stream.lastSent /\ Stream.clients = clients
  BY <1>1 DEF Stream, StreamType
<1>3. Forget(c, s) /\ UNCHANGED <<log, seeded, recent, waking, polling>> /\ waking = {}
  BY DEF Close, ringVars, Settled
<1> HIDE DEF s
<1>4. InOrder(s)
  BY <1>1, <1>2 DEF InOrder
<1>5. /\ StreamOK'
      /\ Fresh'
      /\ phase' = [phase EXCEPT ![c] = "unused"]
      /\ mode' = [mode EXCEPT ![c] = "none"]
      /\ tailAt' = [tailAt EXCEPT ![c] = 0]
  BY <1>1, <1>2, <1>3, <1>4, ForgetStep
<1> QED BY <1>1, <1>3, <1>5 DEF IInv, RestOK

LEMMA InvNext == IInv /\ [Next]_vars => IInv'
<1> SUFFICES ASSUME IInv, [Next]_vars PROVE IInv'
  OBVIOUS
<1>1. ASSUME NEW kind \in Kinds, OfficialPush(kind) PROVE IInv'
  <2>1. /\ log' = Append(log, kind)
        /\ UNCHANGED <<seeded, state, lastNoted, clients, lastSent, phase, mode, tailAt,
                       sent, shown, recent, waking, polling>>
    BY <1>1 DEF OfficialPush, connVars
  <2>2. Stream' = Stream
    BY <2>1 DEF Stream
  <2>3. StreamOK' /\ Fresh'
    BY <2>1, <2>2 DEF IInv, StreamOK, InOrder, Fresh
  <2> QED BY <2>1, <2>3 DEF IInv, RestOK
<1>2. ASSUME NEW c \in Conns, GraceExpires(c) PROVE IInv'
  BY <1>2, DecideStep DEF GraceExpires, Settled
<1>3. ASSUME NEW c \in Conns, Wake(c) PROVE IInv'
  <2>1. phase[c] = "waiting"
    BY <1>3 DEF Wake, IInv, RestOK
  <2> QED BY <1>3, <2>1, DecideStep DEF Wake
<1>4. ASSUME NEW c \in Conns, Heartbeat(c) PROVE IInv'
  <2>1. /\ shown' = [shown EXCEPT ![c] = IF state = "idle" THEN "idle" ELSE @]
        /\ UNCHANGED <<log, seeded, state, lastNoted, clients, lastSent, phase, mode,
                       tailAt, sent, recent, waking, polling>>
    BY <1>4 DEF Heartbeat, ringVars, connVars
  <2>2. Stream' = [Stream EXCEPT !.shown = shown']
    BY <2>1 DEF Stream
  <2>3. Stream' \in StreamType /\ Stream'.sent = Stream.sent
        /\ Stream'.clients = Stream.clients /\ Stream'.lastSent = Stream.lastSent
    BY <2>1 DEF Stream, StreamType, IInv, StreamOK
  <2>4. StreamOK' /\ Fresh'
    BY <2>1, <2>3 DEF IInv, StreamOK, InOrder, Fresh
  <2> QED BY <2>1, <2>4 DEF IInv, RestOK
<1>5. CASE NoteHistory \/ HistoryAges \/ UNCHANGED vars
  <2>1. /\ UNCHANGED <<log, seeded, state, lastNoted, clients, lastSent, phase, mode,
                       tailAt, sent, shown, polling>>
        /\ recent' \in BOOLEAN
        /\ waking' \subseteq {c \in Conns : phase[c] = "waiting"}
    BY <1>5 DEF NoteHistory, HistoryAges, vars, ringVars, connVars, IInv, RestOK
  <2>2. Stream' = Stream
    BY <2>1 DEF Stream
  <2>3. StreamOK' /\ Fresh'
    BY <2>1, <2>2 DEF IInv, StreamOK, InOrder, Fresh
  <2> QED BY <2>1, <2>3 DEF IInv, RestOK
<1> QED
  BY <1>1, <1>2, <1>3, <1>4, <1>5, FeedStep, SeedStep, PollStep, ConnectStep, CloseStep
     DEF Next, Push

LEMMA IndInv == Spec => []IInv
  BY InvInit, InvNext, PTL DEF Spec

(* The stream's variables keep their types under every operation of the     *)
(* hub: feeds, seeds, official pushes, connects, polls and closes.          *)
THEOREM StreamTypes == Spec => []TypeOK
  BY IndInv, InvImplies, PTL

(* Whatever mixes of replay, live feed and ring-tail poll write to a        *)
(* connection, for any number of connections, ring size and writers, each   *)
(* frame is written to it at most once and in ring order.                   *)
THEOREM FramesInOrderOnce == Spec => []InOrderOnce
  BY IndInv, InvImplies, PTL

-----------------------------------------------------------------------------
(* What was written, where each connection stands, and the ring.            *)

Written(snt) == UNION {snt[k] : k \in DOMAIN snt}

LEMMA WrittenAppend ==
  ASSUME NEW snt \in Seq(SUBSET Nat), NEW ids \in SUBSET Nat
  PROVE  Written(Append(snt, ids)) = Written(snt) \union ids
<1>1. DOMAIN Append(snt, ids) = 1 .. Len(snt) + 1 /\ DOMAIN snt = 1 .. Len(snt)
  OBVIOUS
<1>2. \A k \in 1 .. Len(snt) : Append(snt, ids)[k] = snt[k]
  OBVIOUS
<1>3. Append(snt, ids)[Len(snt) + 1] = ids /\ Len(snt) \in Nat
  OBVIOUS
<1>4. 1 .. Len(snt) + 1 = 1 .. Len(snt) \union {Len(snt) + 1}
  BY <1>3
<1> QED BY <1>1, <1>2, <1>3, <1>4 DEF Written

LEMMA WrittenNothing == Written(<<>>) = {}
  BY DEF Written

(* The frames of the ring that a client has passed reached it, unless they  *)
(* are history or its replay answers for them; history was only replayed.   *)
Passed(s, l, sd, tails) ==
  \A c \in Conns :
    /\ s.lastSent[c] <= Len(l)
    /\ \A i \in Written(s.sent[c]) : i <= Len(l) /\ (i \in sd => i <= tails[c])
    /\ c \in s.clients => \A i \in Ring(l) :
         i > tails[c] /\ i <= s.lastSent[c] /\ i \notin sd => i \in Written(s.sent[c])

(* A frame that is pushed is past every position, also one that is history. *)
LEMMA PushPasses ==
  ASSUME NEW s \in StreamType, NEW l \in Seq(Kinds), NEW kind \in Kinds, NEW sd,
         NEW tails \in [Conns -> Nat], Passed(s, l, sd, tails),
         NEW more \in SUBSET {Len(l) + 1}
  PROVE  Passed(s, Append(l, kind), sd \union more, tails)
<1>1. Len(l) \in Nat /\ Len(Append(l, kind)) = Len(l) + 1
  OBVIOUS
<1>2. \A i \in Ring(Append(l, kind)) : i <= Len(l) => i \in Ring(l)
  BY <1>1, HubAssumption DEF Ring, RingHead, RingTail
<1>3. Ring(Append(l, kind)) \subseteq Nat
  BY <1>1, HubAssumption DEF Ring, RingHead, RingTail
<1> SUFFICES ASSUME NEW c \in Conns
             PROVE  /\ s.lastSent[c] <= Len(l) + 1
                    /\ \A i \in Written(s.sent[c]) :
                         i <= Len(l) + 1 /\ (i \in sd \union more => i <= tails[c])
                    /\ c \in s.clients => \A i \in Ring(Append(l, kind)) :
                         i > tails[c] /\ i <= s.lastSent[c] /\ i \notin sd \union more
                           => i \in Written(s.sent[c])
  BY <1>1 DEF Passed
<1>4. s.lastSent[c] \in Nat /\ s.sent[c] \in Seq(SUBSET Nat) /\ tails[c] \in Nat
  BY DEF StreamType
<1>5. Written(s.sent[c]) \subseteq Nat
  BY <1>4 DEF Written
<1>6. s.lastSent[c] <= Len(l)
  BY DEF Passed
<1>7. \A i \in Written(s.sent[c]) : i <= Len(l) /\ (i \in sd => i <= tails[c])
  BY DEF Passed
<1>8. ASSUME NEW i \in Written(s.sent[c])
      PROVE  i <= Len(l) + 1 /\ (i \in sd \union more => i <= tails[c])
  BY <1>1, <1>5, <1>7
<1>9. ASSUME c \in s.clients, NEW i \in Ring(Append(l, kind)),
             i > tails[c], i <= s.lastSent[c], i \notin sd \union more
      PROVE  i \in Written(s.sent[c])
  <2>1. i \in Nat /\ i <= Len(l)
    BY <1>1, <1>3, <1>4, <1>6, <1>9
  <2> QED BY <1>2, <1>9, <2>1 DEF Passed
<1> QED BY <1>1, <1>4, <1>6, <1>8, <1>9

(* Catching up writes every frame it passes, and no history.                *)
LEMMA CatchUpPasses ==
  ASSUME NEW s \in StreamType, NEW l \in Seq(Kinds), NEW sd, NEW plan \in Plans,
         NEW tails \in [Conns -> Nat], Passed(s, l, sd, tails)
  PROVE  Passed(CatchUp(s, l, sd, plan), l, sd, tails)
<1> DEFINE t == CatchUp(s, l, sd, plan)
           due(c)  == IF c \in s.clients THEN Pending(l, s.lastSent[c]) ELSE {}
           got(c)  == Gets(plan, c, due(c) \ sd)
           past(c) == {i \in due(c) : plan.fail[c] = 0 \/ i < plan.fail[c]}
<1> SUFFICES ASSUME NEW c \in Conns
             PROVE  /\ t.lastSent[c] <= Len(l)
                    /\ \A i \in Written(t.sent[c]) : i <= Len(l) /\ (i \in sd => i <= tails[c])
                    /\ c \in t.clients => \A i \in Ring(l) :
                         i > tails[c] /\ i <= t.lastSent[c] /\ i \notin sd
                           => i \in Written(t.sent[c])
  BY DEF Passed
<1>1. /\ t.lastSent[c] = Newest(past(c) \union {s.lastSent[c]})
      /\ t.sent[c] = IF got(c) = {} THEN s.sent[c] ELSE Append(s.sent[c], got(c))
      /\ c \in t.clients => c \in s.clients /\ plan.fail[c] = 0
  BY DEF CatchUp
<1>2. /\ s.lastSent[c] \in Nat /\ s.sent[c] \in Seq(SUBSET Nat) /\ tails[c] \in Nat
      /\ Len(l) \in Nat /\ s.lastSent[c] <= Len(l)
  BY DEF StreamType, Passed
<1>3. due(c) \subseteq 1 .. Len(l) /\ past(c) \subseteq due(c) /\ got(c) \subseteq due(c) \ sd
  BY RingIds DEF Gets
<1>4. c \in t.clients => got(c) = due(c) \ sd /\ past(c) = due(c)
  BY <1>1 DEF Gets
<1>5. c \in t.clients => due(c) = {i \in Ring(l) : i > s.lastSent[c]}
  BY <1>1 DEF Pending
<1> HIDE DEF due, got, past, t
<1>6. Written(t.sent[c]) = Written(s.sent[c]) \union got(c)
  <2>1. got(c) \in SUBSET Nat
    BY <1>3
  <2> QED BY <1>1, <1>2, <2>1, WrittenAppend
<1>7. t.lastSent[c] <= Len(l) /\ t.lastSent[c] \in Nat
  <2>1. past(c) \union {s.lastSent[c]} \in SUBSET (0 .. Len(l))
    BY <1>2, <1>3
  <2>2. /\ Newest(past(c) \union {s.lastSent[c]}) \in Nat
        /\ Newest(past(c) \union {s.lastSent[c]}) <= Len(l)
    BY <1>2, <2>1, NewestOfBounded
  <2> QED BY <1>1, <2>2
<1>8. ASSUME NEW i \in Written(t.sent[c])
      PROVE  i <= Len(l) /\ (i \in sd => i <= tails[c])
  BY <1>2, <1>3, <1>6, <1>8 DEF Passed
<1>9. ASSUME c \in t.clients, NEW i \in Ring(l), i > tails[c], i <= t.lastSent[c], i \notin sd
      PROVE  i \in Written(t.sent[c])
  <2>1. CASE i <= s.lastSent[c]
    BY <1>1, <1>6, <1>9, <2>1 DEF Passed
  <2>2. CASE ~(i <= s.lastSent[c])
    <3>1. i \in Nat
      BY RingIds
    <3>2. i \in due(c)
      BY <1>2, <1>5, <1>9, <2>2, <3>1
    <3> QED BY <1>4, <1>6, <1>9, <3>2
  <2> QED BY <2>1, <2>2
<1> QED BY <1>7, <1>8, <1>9

Position ==
  /\ Passed(Stream, log, seeded, tailAt)
  /\ \A c \in Conns : tailAt[c] <= Len(log)
  /\ clients # {} => polling

LEMMA PositionMeans == IInv /\ Position => NoFrameSkipped /\ SeededNeverLive
<1> SUFFICES ASSUME IInv, Position PROVE NoFrameSkipped /\ SeededNeverLive
  OBVIOUS
<1>1. /\ Stream.sent = sent /\ Stream.lastSent = lastSent /\ Stream.clients = clients
      /\ clients \subseteq Conns
  BY DEF Stream, IInv, StreamOK, StreamType
<1>2. \A c \in Conns : Sent(c) = Written(sent[c])
  BY DEF Sent, Written
<1> QED BY <1>1, <1>2 DEF Position, Passed, NoFrameSkipped, SeededNeverLive

LEMMA PositionInit == Init => Position
<1> SUFFICES ASSUME Init PROVE Position
  OBVIOUS
<1>1. log = <<>> /\ Len(log) = 0 /\ clients = {} /\ tailAt = [c \in Conns |-> 0]
  BY DEF Init
<1>2. \A c \in Conns : Stream.lastSent[c] = 0 /\ Stream.sent[c] = <<>> /\ Stream.clients = {}
  BY DEF Init, Stream
<1> QED BY <1>1, <1>2, WrittenNothing DEF Position, Passed

(* A step that passes and then catches up.                                  *)
LEMMA CatchUpPosition ==
  ASSUME NEW s \in StreamType, InOrder(s), NEW l \in Seq(Kinds),
         NEW tails \in [Conns -> Nat], Passed(s, l, seeded, tails),
         \E plan \in CatchUpPlans(s, l, seeded) : Becomes(CatchUp(s, l, seeded, plan))
  PROVE  /\ Passed(Stream', l, seeded, tails)
         /\ clients' \subseteq s.clients
<1>1. PICK plan \in Plans : Becomes(CatchUp(s, l, seeded, plan))
  BY DEF CatchUpPlans
<1> DEFINE t == CatchUp(s, l, seeded, plan)
<1>2. t \in StreamType /\ t.clients \subseteq s.clients
  BY CatchUpKeeps
<1>3. Passed(t, l, seeded, tails)
  BY CatchUpPasses
<1>4. Stream' = t /\ clients' = t.clients
  BY <1>1, <1>2, BecomesStream DEF Becomes
<1> QED BY <1>2, <1>3, <1>4

(* What Passed says depends on these parts of the stream only.              *)
LEMMA PassedSame ==
  ASSUME NEW s, NEW t, NEW l, NEW sd, NEW tails, Passed(s, l, sd, tails),
         t.clients \subseteq s.clients, t.lastSent = s.lastSent, t.sent = s.sent
  PROVE  Passed(t, l, sd, tails)
  BY DEF Passed

LEMMA FeedPosition ==
  ASSUME IInv, Position, NEW kind \in Kinds, Feed(kind) \/ Seed(kind) \/ OfficialPush(kind)
  PROVE  Position'
<1> DEFINE s == Note(Stream, log', {Len(log')})
<1>1. /\ Stream \in StreamType /\ InOrder(Stream) /\ log \in Seq(Kinds) /\ tailAt \in [Conns -> Nat]
      /\ Stream.clients = clients
  BY DEF IInv, StreamOK, RestOK, Stream
<1>2. /\ log' = Append(log, kind) /\ tailAt' = tailAt /\ polling' = polling
      /\ seeded' = seeded \/ seeded' = seeded \union {Len(log) + 1}
  BY <1>1 DEF Feed, Seed, OfficialPush, connVars
<1>3. log' \in Seq(Kinds) /\ Len(log') = Len(log) + 1 /\ Len(log) \in Nat /\ Len(log') \in Nat
  BY <1>1, <1>2
<1>4. /\ Passed(Stream, log', seeded', tailAt)
  <2>1. PICK more \in SUBSET {Len(log) + 1} : seeded' = seeded \union more
    <3>1. seeded' = seeded => seeded' = seeded \union {}
      OBVIOUS
    <3> QED BY <1>2, <3>1
  <2>2. Passed(Stream, log, seeded, tailAt)
    BY DEF Position
  <2>3. Passed(Stream, Append(log, kind), seeded \union more, tailAt)
    BY <1>1, <2>2, PushPasses
  <2> QED BY <1>2, <2>1, <2>3
<1>5. /\ s \in StreamType
      /\ s.clients = Stream.clients /\ s.lastSent = Stream.lastSent /\ s.sent = Stream.sent
  <2>1. Stream \in StreamType
    BY <1>1
  <2>2. log' \in Seq(Kinds) /\ Len(log') \in Nat
    BY <1>3
  <2>3. {Len(log')} \in SUBSET (0 .. Len(log'))
    BY <2>2
  <2> QED BY ZenonT(60), <2>1, <2>2, <2>3, NoteKeeps
<1> HIDE DEF s
<1>6. InOrder(s) /\ Passed(s, log', seeded', tailAt)
  BY <1>1, <1>4, <1>5, PassedSame DEF InOrder
<1>7. Passed(Stream', log', seeded', tailAt) /\ clients' \subseteq clients
  <2>1. CASE Feed(kind)
    <3>1. seeded' = seeded
      BY <2>1 DEF Feed
    <3>2. \E plan \in CatchUpPlans(s, log', seeded) : Becomes(CatchUp(s, log', seeded, plan))
      BY <2>1 DEF Feed, s
    <3> QED BY <1>1, <1>3, <1>5, <1>6, <3>1, <3>2, CatchUpPosition
  <2>2. CASE Seed(kind)
    <3>1. Becomes(s)
      BY <2>2 DEF Seed, s
    <3> QED BY <1>1, <1>5, <1>6, <3>1, BecomesStream DEF Becomes
  <2>3. CASE OfficialPush(kind)
    <3>1. Stream' = Stream /\ clients' = clients
      BY <2>3 DEF OfficialPush, Stream
    <3> QED BY <1>4, <3>1
  <2> QED BY <2>1, <2>2, <2>3
<1>8. \A c \in Conns : tailAt[c] <= Len(log')
  BY <1>1, <1>3 DEF Position
<1> QED BY <1>2, <1>7, <1>8 DEF Position

LEMMA PollPosition ==
  ASSUME IInv, Position, Poll
  PROVE  Position'
<1>1. /\ Stream \in StreamType /\ InOrder(Stream) /\ log \in Seq(Kinds) /\ tailAt \in [Conns -> Nat]
  BY DEF IInv, StreamOK, RestOK
<1>2. UNCHANGED <<log, seeded, tailAt>> /\ polling' = (clients' # {})
  BY DEF Poll, ringVars, connVars
<1>3. Passed(Stream', log, seeded, tailAt)
  BY <1>1, CatchUpPosition DEF Poll, Position
<1> QED BY <1>2, <1>3 DEF Position

(* A connection that is forgotten is owed nothing and has nothing.          *)
LEMMA ForgetPosition ==
  ASSUME IInv, Position, NEW c \in Conns, NEW s \in StreamType, Forget(c, s),
         c \notin s.clients, s.clients \subseteq clients, s.sent = sent, s.lastSent = lastSent,
         UNCHANGED <<log, seeded, polling>>
  PROVE  Position'
<1> DEFINE t == [s EXCEPT !.lastSent[c] = 0, !.sent[c] = <<>>, !.shown[c] = "none"]
           tails == [tailAt EXCEPT ![c] = 0]
<1>1. /\ t \in StreamType
      /\ t.clients = s.clients
      /\ t.lastSent = [lastSent EXCEPT ![c] = 0]
      /\ t.sent = [sent EXCEPT ![c] = <<>>]
  <2>1. /\ [s.lastSent EXCEPT ![c] = 0] \in [Conns -> Nat]
        /\ [s.sent EXCEPT ![c] = <<>>] \in [Conns -> Seq(SUBSET Nat)]
        /\ [s.shown EXCEPT ![c] = "none"] \in [Conns -> {"none", "idle", "busy"}]
    BY NothingWritten DEF StreamType
  <2> QED BY <2>1 DEF StreamType
<1>2. /\ lastSent \in [Conns -> Nat] /\ sent \in [Conns -> Seq(SUBSET Nat)]
      /\ tailAt \in [Conns -> Nat] /\ Len(log) \in Nat
      /\ Stream.lastSent = lastSent /\ Stream.sent = sent /\ Stream.clients = clients
  BY DEF IInv, StreamOK, RestOK, Stream, StreamType
<1> HIDE DEF t
<1>3. Becomes(t) /\ tailAt' = tails
  BY DEF Forget, t
<1>4. Stream' = t /\ clients' = s.clients
  BY <1>1, <1>3, BecomesStream DEF Becomes
<1>5. Passed(t, log, seeded, tails)
  <2> SUFFICES ASSUME NEW d \in Conns
               PROVE  /\ t.lastSent[d] <= Len(log)
                      /\ \A i \in Written(t.sent[d]) : i <= Len(log) /\ (i \in seeded => i <= tails[d])
                      /\ d \in t.clients => \A i \in Ring(log) :
                           i > tails[d] /\ i <= t.lastSent[d] /\ i \notin seeded => i \in Written(t.sent[d])
    BY DEF Passed
  <2>1. CASE d = c
    BY <1>1, <1>2, <2>1, WrittenNothing
  <2>2. CASE d # c
    BY <1>1, <1>2, <2>2 DEF Position, Passed
  <2> QED BY <2>1, <2>2
<1>6. \A d \in Conns : tails[d] <= Len(log)
  BY <1>2 DEF Position
<1> QED BY <1>3, <1>4, <1>5, <1>6 DEF Position

LEMMA StartPosition ==
  ASSUME IInv, Position, NEW c \in Conns, phase[c] # "open", NEW tail \in 0 .. Len(log),
         NEW replay \in SUBSET (0 .. tail), NEW md, Start(c, replay, md, tail)
  PROVE  Position'
<1>1. /\ Stream \in StreamType /\ InOrder(Stream) /\ Stream.sent = sent
      /\ Stream.clients = clients /\ Stream.lastSent = lastSent
      /\ c \notin clients /\ sent[c] = <<>> /\ sent \in [Conns -> Seq(SUBSET Nat)]
      /\ lastSent \in [Conns -> Nat] /\ clients \subseteq Conns
      /\ tailAt \in [Conns -> Nat] /\ log \in Seq(Kinds) /\ Len(log) \in Nat
  BY DEF IInv, StreamOK, RestOK, Fresh, Stream, StreamType
<1> DEFINE n == Note(Stream, log, replay)
           w == Write(n, log, c, replay)
           s == [w EXCEPT !.clients = @ \union {c}, !.lastSent[c] = tail]
           tails == [tailAt EXCEPT ![c] = tail]
           Fails == \E bad \in replay :
                      Forget(c, Note(Stream, log, {i \in replay : i < bad}))
           Joined == \E plan \in CatchUpPlans(s, log, seeded) :
                       Becomes(CatchUp(s, log, seeded, plan))
<1>2. UNCHANGED <<log, seeded>> /\ tail \in Nat
  BY DEF Start, ringVars
<1>3. \/ Fails /\ UNCHANGED polling
      \/ Joined /\ tailAt' = tails /\ polling' = TRUE
  BY Zenon DEF Start
<1>4. CASE Fails /\ UNCHANGED polling
  <2>1. PICK bad \in replay : Forget(c, Note(Stream, log, {i \in replay : i < bad}))
    BY <1>4
  <2> DEFINE got == {i \in replay : i < bad}
             m   == Note(Stream, log, got)
  <2>2. got \in SUBSET (0 .. tail)
    OBVIOUS
  <2> HIDE DEF got
  <2>3. m \in StreamType /\ m.clients = clients /\ m.sent = sent /\ m.lastSent = lastSent
    BY <1>1, <1>2, <2>2, NoteStream
  <2>4. Forget(c, m)
    BY <2>1 DEF got
  <2> HIDE DEF m
  <2> QED BY <1>1, <1>2, <1>4, <2>3, <2>4, ForgetPosition
<1>5. CASE Joined /\ tailAt' = tails /\ polling' = TRUE
  <2>1. n \in StreamType /\ n.clients = clients /\ n.lastSent = lastSent /\ n.sent = sent
    BY <1>1, <1>2, NoteStream
  <2> HIDE DEF n
  <2>2. /\ w \in StreamType /\ w.clients = clients /\ w.lastSent = lastSent
        /\ \A d \in Conns : w.sent[d] =
             IF d = c /\ replay # {} THEN Append(sent[d], replay) ELSE sent[d]
    <3>1. replay \in SUBSET Nat
      OBVIOUS
    <3> QED BY <2>1, <3>1, WriteKeeps
  <2> HIDE DEF w
  <2>3. /\ s \in StreamType
        /\ s.clients = clients \union {c}
        /\ s.lastSent = [lastSent EXCEPT ![c] = tail]
        /\ s.sent = w.sent
    <3>1. /\ [w.lastSent EXCEPT ![c] = tail] \in [Conns -> Nat]
          /\ w.clients \union {c} \in SUBSET Conns
      BY <1>2, <2>2 DEF StreamType
    <3> QED BY <2>2, <3>1 DEF StreamType
  <2>4. /\ \A d \in Conns \ {c} : s.sent[d] = sent[d]
        /\ Written(s.sent[c]) = replay
    <3>1. replay \in SUBSET Nat /\ sent[c] \in Seq(SUBSET Nat)
      BY <1>1
    <3>2. Written(Append(sent[c], replay)) = Written(sent[c]) \union replay
      BY <3>1, WrittenAppend
    <3> QED BY <1>1, <2>2, <2>3, <3>2, WrittenNothing
  <2>5. InOrder(s)
    <3> SUFFICES ASSUME NEW d \in Conns
                 PROVE  /\ Ordered(s.sent[d])
                        /\ d \in s.clients => Behind(s.sent[d], s.lastSent[d])
      BY DEF InOrder
    <3>1. CASE d # c
      BY <1>1, <2>2, <2>3, <3>1 DEF InOrder
    <3>2. CASE d = c
      <4>1. s.sent[c] = (IF replay = {} THEN <<>> ELSE <<replay>>) /\ s.lastSent[c] = tail
        <5>1. Append(<<>>, replay) = <<replay>>
          OBVIOUS
        <5>2. s.sent[c] = IF replay # {} THEN Append(sent[c], replay) ELSE sent[c]
          BY <2>2, <2>3
        <5>3. s.lastSent[c] = tail
          BY <1>1, <2>3
        <5> QED BY <1>1, <5>1, <5>2, <5>3
      <4>2. Ordered(<<replay>>) /\ Behind(<<replay>>, tail)
        BY DEF Ordered, Behind
      <4> QED BY <3>2, <4>1, <4>2, NothingWritten
    <3> QED BY <3>1, <3>2
  <2>6. Passed(s, log, seeded, tails)
    <3> SUFFICES ASSUME NEW d \in Conns
                 PROVE  /\ s.lastSent[d] <= Len(log)
                        /\ \A i \in Written(s.sent[d]) : i <= Len(log) /\ (i \in seeded => i <= tails[d])
                        /\ d \in s.clients => \A i \in Ring(log) :
                             i > tails[d] /\ i <= s.lastSent[d] /\ i \notin seeded => i \in Written(s.sent[d])
      BY DEF Passed
    <3>1. CASE d = c
      <4>1. s.lastSent[d] = tail /\ tails[d] = tail /\ Written(s.sent[d]) = replay
        BY <1>1, <2>3, <2>4, <3>1
      <4>2. \A i \in replay : i <= tail /\ i <= Len(log)
        BY <1>1, <1>2
      <4>3. \A i \in Ring(log) : ~(i > tail /\ i <= tail)
        BY <1>1, <1>2, RingIds
      <4> QED BY <1>1, <1>2, <4>1, <4>2, <4>3
    <3>2. CASE d # c
      <4>1. /\ s.lastSent[d] = lastSent[d] /\ s.sent[d] = sent[d] /\ tails[d] = tailAt[d]
            /\ d \in s.clients => d \in clients
        BY <1>1, <2>3, <2>4, <3>2
      <4> QED BY <1>1, <4>1 DEF Position, Passed
    <3> QED BY <3>1, <3>2
  <2>7. \E plan \in CatchUpPlans(s, log, seeded) : Becomes(CatchUp(s, log, seeded, plan))
    BY <1>5
  <2> HIDE DEF s
  <2>8. tails \in [Conns -> Nat]
    BY <1>1, <1>2
  <2>9. Passed(Stream', log, seeded, tails)
    BY <1>1, <2>3, <2>5, <2>6, <2>7, <2>8, CatchUpPosition
  <2>10. \A d \in Conns : tails[d] <= Len(log)
    BY <1>1, <1>2 DEF Position
  <2> QED BY <1>2, <1>5, <2>9, <2>10 DEF Position
<1> QED BY <1>3, <1>4, <1>5

LEMMA ConnectPosition ==
  ASSUME IInv, Position, NEW c \in Conns, Connect(c)
  PROVE  Position'
<1>1. RestOK /\ RingTail(log) = Len(log) /\ Len(log) \in Nat /\ phase[c] = "unused"
  BY DEF IInv, RestOK, RingTail, Connect, ConnectResume, ConnectFull, ConnectMulti, ConnectSole,
         ConnectWait
<1>2. CASE ConnectWait(c)
  <2>1. /\ UNCHANGED <<log, seeded, state, lastNoted, clients, lastSent, sent, shown, polling>>
        /\ tailAt' = [tailAt EXCEPT ![c] = RingTail(log)]
        /\ c \notin clients /\ sent[c] = <<>>
    BY <1>1, <1>2 DEF ConnectWait, ringVars, IInv, Fresh
  <2>2. /\ Stream' = Stream /\ Stream.clients = clients /\ Stream.sent = sent
    BY <2>1 DEF Stream
  <2>3. tailAt \in [Conns -> Nat]
    BY <1>1 DEF RestOK
  <2>4. Passed(Stream, log, seeded, tailAt')
    BY <2>1, <2>2, <2>3, WrittenNothing DEF Position, Passed
  <2>5. \A d \in Conns : tailAt'[d] <= Len(log)
    BY <1>1, <2>1, <2>3 DEF Position
  <2> QED BY <2>1, <2>2, <2>4, <2>5 DEF Position
<1>3. CASE ~ConnectWait(c)
  <2>1. \E md : \E replay \in SUBSET (0 .. RingTail(log)) : Start(c, replay, md, RingTail(log))
    <3>1. CASE \E id \in 1 .. RingTail(log) : ConnectResume(c, id)
      BY <1>1, <3>1, ReplaysBounded DEF ConnectResume
    <3>2. CASE ConnectFull(c)
      BY <1>1, <3>2, ReplaysBounded DEF ConnectFull
    <3>3. CASE ConnectMulti(c)
      BY <1>1, <3>3 DEF ConnectMulti
    <3>4. CASE ConnectSole(c)
      <4>1. StreamOnlyReplay(RingTail(log), recent) \in SUBSET (0 .. RingTail(log))
        BY <1>1, ReplaysBounded
      <4> QED BY <3>4, <4>1 DEF ConnectSole
    <3> QED BY <1>3, <3>1, <3>2, <3>3, <3>4 DEF Connect
  <2>2. RingTail(log) \in 0 .. Len(log)
    BY <1>1
  <2> QED BY <1>1, <2>1, <2>2, StartPosition
<1> QED BY <1>2, <1>3

LEMMA DecidePosition ==
  ASSUME IInv, Position, NEW c \in Conns, phase[c] = "waiting", Decide(c)
  PROVE  Position'
<1>1. RestOK /\ tailAt[c] \in 0 .. Len(log)
  BY DEF IInv, RestOK, Position
<1>2. StreamOnlyReplay(tailAt[c], recent) \in SUBSET (0 .. tailAt[c])
  BY <1>1, ReplaysBounded
<1> QED BY <1>1, <1>2, StartPosition DEF Decide

LEMMA PositionNext == IInv /\ Position /\ [Next]_vars => Position'
<1> SUFFICES ASSUME IInv, Position, [Next]_vars PROVE Position'
  OBVIOUS
<1>1. ASSUME NEW c \in Conns, GraceExpires(c) \/ Wake(c) PROVE Position'
  <2>1. phase[c] = "waiting" /\ Decide(c)
    BY <1>1 DEF GraceExpires, Wake, IInv, RestOK
  <2> QED BY <2>1, DecidePosition
<1>2. ASSUME NEW c \in Conns, Close(c) PROVE Position'
  <2> DEFINE s == [Stream EXCEPT !.clients = @ \ {c}]
  <2>1. /\ s \in StreamType /\ s.clients = clients \ {c} /\ s.sent = sent /\ s.lastSent = lastSent
    BY DEF IInv, StreamOK, Stream, StreamType
  <2>2. Forget(c, s) /\ UNCHANGED <<log, seeded, polling>>
    BY <1>2 DEF Close, ringVars
  <2> HIDE DEF s
  <2> QED BY <2>1, <2>2, ForgetPosition
<1>3. ASSUME UNCHANGED <<log, seeded, clients, lastSent, sent, tailAt, polling>> PROVE Position'
  <2>1. /\ Stream'.clients = Stream.clients /\ Stream'.lastSent = Stream.lastSent
        /\ Stream'.sent = Stream.sent
    BY <1>3 DEF Stream
  <2> QED BY <1>3, <2>1, PassedSame DEF Position
<1>4. ASSUME NEW c \in Conns, Heartbeat(c) PROVE Position'
  BY <1>3, <1>4 DEF Heartbeat, ringVars, connVars
<1>5. CASE NoteHistory \/ HistoryAges \/ UNCHANGED vars
  BY <1>3, <1>5 DEF NoteHistory, HistoryAges, vars, ringVars, connVars
<1> QED BY <1>1, <1>2, <1>4, <1>5, FeedPosition, PollPosition, ConnectPosition DEF Next, Push

LEMMA PositionHolds == Spec => [](IInv /\ Position)
<1>1. Init => IInv /\ Position
  BY InvInit, PositionInit
<1>2. IInv /\ Position /\ [Next]_vars => (IInv /\ Position)'
  BY InvNext, PositionNext
<1> QED BY <1>1, <1>2, PTL DEF Spec

(* A frame of the ring that is not history is not skipped: a connection     *)
(* that has passed it was written it (or covers it by its replay), for any  *)
(* number of connections and any ring size (hub.mjs dedup by lastSent).     *)
THEOREM NothingSkipped == Spec => []NoFrameSkipped
  BY PositionHolds, PositionMeans, PTL

(* History that was seeded is never written live: only a replay shows it,   *)
(* whatever feeds, seeds, polls and connects come between (hub.mjs seed).   *)
THEOREM HistoryNeverLive == Spec => []SeededNeverLive
  BY PositionHolds, PositionMeans, PTL
=============================================================================
