------------------------- MODULE UpstreamPump_proofs -------------------------
(***************************************************************************)
(* The relay's water mark: for any ring size, number of frames, restarts of *)
(* the upstream and lost streams, no frame is relayed twice and no history  *)
(* is sent live.                                                            *)
(***************************************************************************)
EXTENDS UpstreamPump, FiniteSetTheorems, WellFoundedInduction, TLAPS

(* What the upstream holds has a length, and is empty until its history is  *)
(* loaded.                                                                  *)
Numbered ==
  /\ gen \in Nat /\ said \in Seq({"user_prompt", "text_delta", "text_end", "idle"})
  /\ \E T : up \in Seq(T)
  /\ ~loaded => up = <<>>

Reading == DOMAIN stream = {"pos", "first", "hadClients"} /\ stream.pos \in Nat

(* The mark is an id that the upstream which set it has given out.          *)
Marked ==
  /\ mark \in [id : Nat, gen : Nat] /\ mark.gen <= gen
  /\ mark.gen = gen => mark.id <= Len(up)

(* What was relayed came from an upstream before the one that set the mark, *)
(* or from that one, and is not past the mark while that one still runs.    *)
BelowMark(e) ==
  /\ e.gen \in Nat /\ e.id \in Nat /\ e.gen <= mark.gen
  /\ e.gen = gen => e.id <= mark.id

Inv ==
  /\ Numbered /\ Reading /\ Marked
  /\ \E T : relay \in Seq(T)
  /\ \A i \in DOMAIN relay : BelowMark(relay[i])
  /\ RelayedOnce

LEMMA InitInv == Init => Inv
<1> SUFFICES ASSUME Init PROVE Inv
  OBVIOUS
<1>1. up \in Seq({}) /\ relay \in Seq({}) /\ Len(up) = 0
  BY DEF Init
<1> QED BY <1>1 DEF Init, Inv, Numbered, Reading, Marked, RelayedOnce

(* What leaves the upstream, the mark and the relay alone.                  *)
LEMMA Elsewhere ==
  ASSUME Inv, UNCHANGED <<upVars, mark, relay>>, Reading'
  PROVE  Inv'
  BY DEF Inv, Numbered, Marked, BelowMark, RelayedOnce, upVars

(* What happens at the upstream keeps the ids it gave out, or is a restart. *)
LEMMA AtUpstream ==
  ASSUME Inv, Numbered', UNCHANGED <<stream, mark, relay>>,
         \/ gen' = gen /\ mark.gen = gen => mark.id <= Len(up')
         \/ gen' = gen + 1,
         gen' \in {gen, gen + 1}
  PROVE  Inv'
<1>1. Reading' /\ (\E T : relay' \in Seq(T)) /\ RelayedOnce'
  BY DEF Inv, Reading, RelayedOnce
<1>2. gen \in Nat /\ mark.gen \in Nat /\ mark.gen <= gen
  BY DEF Inv, Numbered, Marked
<1>3. CASE gen' = gen /\ (mark.gen = gen => mark.id <= Len(up'))
  BY <1>1, <1>3 DEF Inv, Marked, BelowMark
<1>4. CASE gen' = gen + 1
  <2>1. mark.gen < gen'
    BY <1>2, <1>4
  <2>2. Marked'
    BY <1>2, <2>1 DEF Inv, Marked
  <2>3. ASSUME NEW i \in DOMAIN relay PROVE BelowMark(relay[i])'
    BY <1>2, <2>1 DEF Inv, BelowMark
  <2> QED BY <1>1, <2>2, <2>3 DEF Inv
<1> QED BY <1>3, <1>4

LEMMA SayInv ==
  ASSUME Inv, NEW kind \in {"user_prompt", "text_delta", "text_end", "idle"}, Say(kind)
  PROVE  Inv'
<1> DEFINE f == [n |-> Len(said'), kind |-> kind]
<1>1. PICK T : up \in Seq(T)
  BY DEF Inv, Numbered
<1>2. up' = Append(up, f) /\ up \in Seq(T \union {f})
  BY <1>1 DEF Say
<1>3. up' \in Seq(T \union {f}) /\ Len(up') = Len(up) + 1 /\ Len(up) \in Nat
  BY <1>2
<1>4. Numbered'
  BY <1>3 DEF Say, Inv, Numbered
<1>5. mark.gen = gen => mark.id <= Len(up')
  BY <1>3 DEF Inv, Marked
<1> QED BY <1>4, <1>5, AtUpstream DEF Say

LEMMA UpRestartInv ==
  ASSUME Inv, UpRestart
  PROVE  Inv'
<1>1. up' = <<>> /\ up' \in Seq({})
  BY DEF UpRestart
<1>2. Numbered'
  BY <1>1 DEF UpRestart, Inv, Numbered
<1> QED BY <1>2, AtUpstream DEF UpRestart

LEMMA UpLoadInv ==
  ASSUME Inv, UpLoad
  PROVE  Inv'
<1> DEFINE k == Cardinality(Transcript)
<1>1. k \in Nat
  <2>1. DOMAIN said = 1 .. Len(said) /\ Len(said) \in Nat
    BY DEF Inv, Numbered
  <2>2. IsFiniteSet(DOMAIN said)
    BY <2>1, FS_Interval
  <2> QED BY <2>2, FS_Subset, FS_CardinalityType DEF Transcript
<1> DEFINE entry(n) == [n |-> n, kind |-> IF said[n] = "text_end" THEN "text_delta" ELSE said[n]]
<1>2. up' = Rebuilt
  BY DEF UpLoad
<1> HIDE DEF k
<1>3. \E g : up' = [i \in 1 .. k |-> g[i]]
  <2> DEFINE g == Rebuilt
  <2>1. DOMAIN Rebuilt = 1 .. k /\ Rebuilt = [i \in 1 .. k |-> Rebuilt[i]]
    BY DEF Rebuilt, k
  <2> QED BY <1>2, <2>1
<1>4. PICK g : up' = [i \in 1 .. k |-> g[i]]
  BY <1>3
<1>5. up' \in Seq({g[i] : i \in 1 .. k})
  BY <1>1, <1>4
<1>6. Numbered'
  BY <1>5 DEF UpLoad, Inv, Numbered
<1>7. mark.gen = gen => mark.id <= Len(up')
  <2>1. ASSUME mark.gen = gen PROVE mark.id = 0
    BY <2>1 DEF UpLoad, Inv, Numbered, Marked
  <2>2. Len(up') \in Nat
    BY <1>5
  <2> QED BY <2>1, <2>2
<1> QED BY <1>6, <1>7, AtUpstream DEF UpLoad

(* The ring's first id is one the upstream has given out.                   *)
LEMMA RingHeadType ==
  ASSUME Inv
  PROVE  /\ Len(up) \in Nat /\ RingHead \in Nat \ {0}
         /\ Len(up) < RingHead + RingSize
         /\ Len(up) > 0 => RingHead <= Len(up)
<1>1. Len(up) \in Nat /\ RingSize \in Nat \ {0}
  BY PumpAssumption DEF Inv, Numbered
<1> QED BY <1>1 DEF RingHead

LEMMA ConnectInv ==
  ASSUME Inv, Connect
  PROVE  Inv'
<1>1. stream'.pos = RingHead - 1 /\ DOMAIN stream' = {"pos", "first", "hadClients"}
  BY DEF Connect
<1>2. Reading'
  BY <1>1, RingHeadType DEF Reading
<1> QED BY <1>2, Elsewhere DEF Connect

(* A frame is past what was relayed of the upstream that runs, and the mark *)
(* of that upstream never looks like a restart.                             *)
LEMMA DeliverInv ==
  ASSUME Inv, Deliver
  PROVE  Inv' /\ (mark'.id < mark.id => mark.gen # gen)
<1> DEFINE id == Larger(stream.pos + 1, RingHead)
           known == IF Restarted(id) THEN 0 ELSE mark.id
<1>1. /\ id \in Nat \ {0} /\ id <= Len(up) /\ Len(up) < id + RingSize
      /\ Len(up) \in Nat /\ RingSize \in Nat
  <2>1. stream.pos \in Nat /\ stream.pos < Len(up) /\ RingSize \in Nat
    BY PumpAssumption DEF Deliver, Inv, Reading
  <2>2. id = IF stream.pos + 1 > RingHead THEN stream.pos + 1 ELSE RingHead
    BY DEF Larger
  <2> HIDE DEF id
  <2> QED BY <2>1, <2>2, RingHeadType
<1>2. /\ mark.id \in Nat /\ mark.gen \in Nat /\ gen \in Nat /\ mark.gen <= gen
      /\ mark = [id |-> mark.id, gen |-> mark.gen]
  BY DEF Inv, Numbered, Marked
<1>3. UNCHANGED upVars
  BY DEF Deliver
<1>4. Numbered'
  BY <1>3 DEF upVars, Inv, Numbered
<1> HIDE DEF id
<1>5. Restarted(id) => mark.gen # gen
  BY <1>1, <1>2 DEF Restarted, Inv, Marked
<1>6. CASE Restarted(id) /\ seedFirst
  <2>1. mark' = [mark EXCEPT !.id = 0] /\ UNCHANGED <<stream, relay>>
    BY <1>6 DEF Deliver, id
  <2>2. mark'.id = 0 /\ mark'.gen = mark.gen /\ mark' \in [id : Nat, gen : Nat]
    BY <1>2, <2>1
  <2>3. Marked' /\ Reading'
    BY <1>2, <1>3, <1>5, <1>6, <2>1, <2>2 DEF upVars, Inv, Marked, Reading
  <2>4. ASSUME NEW i \in DOMAIN relay PROVE BelowMark(relay[i])'
    BY <1>2, <1>3, <1>5, <1>6, <2>1, <2>2 DEF upVars, Inv, BelowMark
  <2> QED BY <1>4, <1>5, <1>6, <2>1, <2>3, <2>4 DEF Inv, RelayedOnce
<1>7. CASE ~(Restarted(id) /\ seedFirst)
  <2>1. stream' = [stream EXCEPT !.pos = id, !.first = FALSE]
    BY <1>7 DEF Deliver, id
  <2>2. Reading'
    BY <1>1, <2>1 DEF Inv, Reading
  <2>3. CASE id <= known
    <3>1. mark' = [mark EXCEPT !.id = known] /\ UNCHANGED relay
      BY <1>7, <2>3 DEF Deliver, id
    <3>2. known = mark.id
      BY <1>1, <2>3
    <3>3. mark' = mark
      BY <1>2, <3>1, <3>2
    <3> QED BY <1>2, <1>3, <2>2, <3>1, <3>3, Elsewhere
  <2>4. CASE ~(id <= known)
    <3> DEFINE e == [gen |-> gen, id |-> id, n |-> up[id].n,
                     live |-> id > (IF Restarted(id) THEN 0 ELSE seedUntil),
                     old |-> gen = cold.gen /\ up[id].n <= cold.n]
    <3>1. mark' = [id |-> id, gen |-> gen] /\ relay' = Append(relay, e)
      BY <1>7, <2>4 DEF Deliver, id
    <3>2. e.gen = gen /\ e.id = id
      OBVIOUS
    <3> HIDE DEF e
    <3>3. PICK T : relay \in Seq(T)
      BY DEF Inv
    <3>4. relay \in Seq(T \union {e}) /\ relay' \in Seq(T \union {e})
      BY <3>1, <3>3
    <3>5. /\ Len(relay) \in Nat /\ DOMAIN relay' = 1 .. Len(relay) + 1 /\ DOMAIN relay = 1 .. Len(relay)
          /\ relay'[Len(relay) + 1] = e
          /\ \A i \in DOMAIN relay : relay'[i] = relay[i]
      BY <3>1, <3>3, <3>4
    <3>6. \A i \in DOMAIN relay : /\ relay[i].gen \in Nat /\ relay[i].id \in Nat /\ relay[i].gen <= gen
                                  /\ relay[i].gen = gen => relay[i].id < id
      <4>1. TAKE i \in DOMAIN relay
      <4>2. BelowMark(relay[i])
        BY DEF Inv
      <4>3. CASE relay[i].gen = gen
        <5>1. mark.gen = gen /\ relay[i].id <= mark.id /\ relay[i].id \in Nat
          BY <1>2, <4>2, <4>3 DEF BelowMark
        <5>2. known = mark.id
          BY <1>5, <5>1
        <5> QED BY <1>1, <1>2, <2>4, <4>3, <5>1, <5>2
      <4>4. CASE relay[i].gen # gen
        BY <1>2, <4>2, <4>4 DEF BelowMark
      <4> QED BY <4>3, <4>4
    <3>7. gen' = gen /\ Len(up') = Len(up)
      BY <1>3 DEF upVars
    <3>8. Marked'
      BY <1>1, <1>2, <3>1, <3>7 DEF Marked
    <3>9. ASSUME NEW i \in DOMAIN relay' PROVE BelowMark(relay[i])'
      <4>1. CASE i \in DOMAIN relay
        BY <1>1, <3>1, <3>5, <3>6, <3>7, <4>1 DEF BelowMark
      <4>2. CASE i = Len(relay) + 1
        BY <1>1, <1>2, <3>1, <3>2, <3>5, <3>7, <4>2 DEF BelowMark
      <4> QED BY <3>5, <4>1, <4>2
    <3>10. RelayedOnce'
      <4>1. SUFFICES ASSUME NEW i \in DOMAIN relay', NEW j \in DOMAIN relay', i < j,
                            relay'[i].gen = relay'[j].gen
                     PROVE  relay'[i].id < relay'[j].id
        BY DEF RelayedOnce
      <4>2. i \in DOMAIN relay
        BY <3>5, <4>1
      <4>3. CASE j \in DOMAIN relay
        BY <3>5, <4>1, <4>2, <4>3 DEF Inv, RelayedOnce
      <4>4. CASE j = Len(relay) + 1
        BY <3>2, <3>5, <3>6, <4>1, <4>2, <4>4
      <4> QED BY <3>5, <4>3, <4>4
    <3>11. \E S : relay' \in Seq(S)
      BY <3>4
    <3>12. \A i \in DOMAIN relay' : BelowMark(relay[i])'
      BY <3>9
    <3>13. Inv'
      BY <1>4, <2>2, <3>8, <3>10, <3>11, <3>12 DEF Inv
    <3>14. ASSUME mark'.id < mark.id PROVE mark.gen # gen
      <4>1. mark'.id = id
        BY <3>1
      <4>2. known # mark.id
        BY <1>1, <1>2, <2>4, <3>14, <4>1
      <4> QED BY <1>5, <4>2
    <3> QED BY <3>13, <3>14
  <2> QED BY <2>3, <2>4
<1> QED BY <1>6, <1>7

(* The rest of the loop, and the phone.                                     *)
LEMMA AroundInv ==
  ASSUME Inv,
         \/ StreamDrops \/ LoopTop \/ ReadBoundary \/ MissBoundary \/ StreamEnded
         \/ AskedState \/ IdleCheck \/ IdleStop \/ Phone
  PROVE  Inv' /\ mark' = mark
<1>1. UNCHANGED <<upVars, stream, mark, relay>>
  BY DEF StreamDrops, LoopTop, ReadBoundary, MissBoundary, StreamEnded, AskedState, IdleCheck,
         IdleStop, Phone, StartSession, Touch, Open, Listen, Leave, Ensure, upVars, seedVars
<1>2. Reading'
  BY <1>1 DEF Inv, Reading
<1> QED BY <1>1, <1>2, Elsewhere

LEMMA NextInv == Inv /\ [Next]_vars => Inv' /\ (mark'.id < mark.id => mark.gen # gen)
<1> SUFFICES ASSUME Inv, [Next]_vars PROVE Inv' /\ (mark'.id < mark.id => mark.gen # gen)
  OBVIOUS
<1>0. ASSUME mark' = mark PROVE ~(mark'.id < mark.id)
  BY <1>0 DEF Inv, Marked
<1>1. CASE UNCHANGED vars
  BY <1>0, <1>1, Elsewhere DEF vars, upVars, Inv, Reading
<1>2. CASE Next
  <2>1. ASSUME NEW kind \in {"user_prompt", "text_delta", "text_end", "idle"}, Say(kind)
        PROVE  Inv' /\ mark' = mark
    BY <2>1, SayInv DEF Say
  <2>2. CASE UpRestart \/ UpLoad
    BY <2>2, <1>0, UpRestartInv, UpLoadInv DEF UpRestart, UpLoad
  <2>3. CASE Connect
    BY <2>3, <1>0, ConnectInv DEF Connect
  <2>4. CASE Deliver
    BY <2>4, DeliverInv
  <2> QED BY <1>0, <1>2, <2>1, <2>2, <2>3, <2>4, AroundInv DEF Next, Upstream, Pump
<1> QED BY <1>1, <1>2

(* Whatever reconnects, idle stops, replaced pumps, resets and restarts of  *)
(* the upstream come between (upstream-pump.mjs _handleFrame), no frame of  *)
(* one upstream lifetime is put into the local ring twice or out of order.  *)
THEOREM FramesRelayedOnce == Spec => []RelayedOnce
<1>1. Inv => RelayedOnce
  BY DEF Inv
<1> QED BY InitInv, NextInv, <1>1, PTL DEF Spec

(* A replay of the upstream's own ring never looks like a restart: the      *)
(* water mark falls only when another upstream answers (awaitFirstId).      *)
THEOREM MarkFallsForRestarts == Spec => [][mark'.id < mark.id => mark.gen # gen]_vars
  BY InitInv, NextInv, PTL DEF Spec

-----------------------------------------------------------------------------
(* Numbers.                                                                 *)

(* The least-number principle.                                              *)
LEMMA LeastNumber ==
  ASSUME NEW T, T \subseteq Nat, T # {}
  PROVE  \E x \in T : \A y \in T : x <= y
<1> DEFINE R == {ss \in Nat \X Nat : ss[1] < ss[2]}
<1>1. OpToRel(<,Nat) = R
  BY DEF OpToRel
<1>2. IsWellFoundedOn(R, Nat)
  BY <1>1, NatLessThanWellFounded
<1> HIDE DEF R
<1>3. PICK x \in T : \A y \in T : ~ (<<y, x>> \in R)
  BY <1>2, WFMin
<1>4. ASSUME NEW y \in T PROVE x <= y
  <2>1. <<y, x>> \in R <=> y < x
    BY DEF R
  <2> QED BY <1>3, <2>1
<1> QED BY <1>4

(* Newest finds the largest number of a bounded set.                        *)
LEMMA NewestIs ==
  ASSUME NEW b \in Nat, NEW S, S \subseteq 1 .. b
  PROVE  /\ Newest(S) \in 0 .. b
         /\ \A n \in S : n <= Newest(S)
         /\ S # {} => Newest(S) \in S
<1>1. CASE S = {}
  BY <1>1 DEF Newest
<1>2. CASE S # {}
  <2> DEFINE T == {u \in Nat : \A n \in S : n <= u}
  <2>1. b \in T
    OBVIOUS
  <2>2. PICK u \in T : \A v \in T : u <= v
    BY <2>1, LeastNumber
  <2>3. u \in S
    <3>1. SUFFICES ASSUME u \notin S PROVE FALSE
      OBVIOUS
    <3>2. PICK n \in S : TRUE
      BY <1>2
    <3>3. n <= u /\ n \in Nat \ {0} /\ u \in Nat
      BY <2>2
    <3>4. u - 1 \in Nat /\ ~(u <= u - 1)
      BY <3>3
    <3>5. \A m \in S : m <= u - 1
      BY <2>2, <3>1, <3>3
    <3>6. u - 1 \in T
      BY <3>4, <3>5
    <3> QED BY <2>2, <3>4, <3>6
  <2>4. \E m \in S : \A n \in S : n <= m
    BY <2>2, <2>3
  <2>5. Newest(S) \in S /\ \A n \in S : n <= Newest(S)
    BY <1>2, <2>4 DEF Newest
  <2>6. Newest(S) \in 1 .. b
    BY <1>2, <2>5
  <2> QED BY <2>5, <2>6
<1> QED BY <1>1, <1>2

(* A set of numbers has for each place a number that stands there.          *)
LEMMA Ranked ==
  ASSUME NEW b \in Nat, NEW S, S \subseteq 1 .. b
  PROVE  /\ Cardinality(S) \in Nat
         /\ \A i \in 1 .. Cardinality(S) :
              \E n \in S : Cardinality({m \in S : m < n}) = i - 1
<1>1. IsFiniteSet(S) /\ \A R \in SUBSET S : IsFiniteSet(R)
  <2>1. IsFiniteSet(1 .. b)
    BY FS_Interval
  <2>2. IsFiniteSet(S)
    BY <2>1, FS_Subset
  <2> QED BY <2>2, FS_Subset
<1>2. Cardinality(S) \in Nat
  BY <1>1, FS_CardinalityType
<1> DEFINE Below(n) == {m \in S : m < n}
           Bad == {i \in Nat : /\ i \in 1 .. Cardinality(S)
                               /\ \A n \in S : Cardinality(Below(n)) # i - 1}
<1>3. SUFFICES ASSUME Bad # {} PROVE FALSE
  <2>1. ASSUME Bad = {}, NEW i \in 1 .. Cardinality(S)
        PROVE  \E n \in S : Cardinality(Below(n)) = i - 1
    <3>1. i \in Nat /\ i \notin Bad
      BY <1>2, <2>1
    <3> QED BY <3>1
  <2> QED BY <1>2, <2>1
<1>4. PICK i \in Bad : \A j \in Bad : i <= j
  <2>1. Bad \subseteq Nat
    OBVIOUS
  <2> HIDE DEF Bad
  <2> QED BY <1>3, <2>1, LeastNumber
<1>5. i \in 1 .. Cardinality(S) /\ \A n \in S : Cardinality(Below(n)) # i - 1
  OBVIOUS
(* The least number past those that stand before place i stands at i.       *)
<1>6. ASSUME NEW P \in SUBSET S, P # S, Cardinality(P) = i - 1,
             \A p \in P : \A n \in S : n < p => n \in P
      PROVE  FALSE
  <2> DEFINE Q == S \ P
  <2>1. Q # {} /\ Q \subseteq Nat
    <3>1. Q # {}
      BY <1>6
    <3>2. S \subseteq Nat
      OBVIOUS
    <3> QED BY <3>1, <3>2
  <2>2. PICK q \in Q : \A n \in Q : q <= n
    BY <2>1, LeastNumber
  <2>3. Below(q) = P
    <3>1. ASSUME NEW m \in Below(q) PROVE m \in P
      <4>1. m \in S /\ m < q /\ m \in Nat /\ q \in Nat
        OBVIOUS
      <4>2. m \notin Q
        BY <2>2, <4>1
      <4> QED BY <4>1, <4>2
    <3>2. ASSUME NEW p \in P PROVE p \in Below(q)
      <4>1. p \in S /\ p \in Nat /\ q \in Nat /\ q \in S /\ q \notin P
        OBVIOUS
      <4>2. p # q /\ ~(q < p)
        BY <1>6, <4>1
      <4> QED BY <4>1, <4>2
    <3> QED BY <3>1, <3>2
  <2> QED BY <1>5, <1>6, <2>2, <2>3
<1>7. CASE i = 1
  <2>1. S # {} /\ Cardinality({}) = 0
    BY <1>1, <1>5, <1>7, FS_EmptySet
  <2> QED BY <1>6, <1>7, <2>1
<1>8. CASE i # 1
  <2>1. i - 1 \in Nat /\ i - 1 \in 1 .. Cardinality(S) /\ ~(i <= i - 1)
    BY <1>2, <1>5, <1>8
  <2>2. i - 1 \notin Bad
    BY <1>4, <2>1
  <2>3. PICK n \in S : Cardinality(Below(n)) = (i - 1) - 1
    BY <2>1, <2>2
  <2> DEFINE P == Below(n) \union {n}
  <2>4. n \notin Below(n) /\ n \in Nat /\ IsFiniteSet(Below(n))
    BY <1>1
  <2>5. Cardinality(P) = i - 1
    <3>1. Cardinality(P) = Cardinality(Below(n)) + 1
      BY <2>4, FS_AddElement
    <3> QED BY <2>1, <2>3, <3>1
  <2>6. P # S
    BY <1>2, <1>5, <2>1, <2>5
  <2>7. \A p \in P : \A m \in S : m < p => m \in P
    OBVIOUS
  <2> QED BY <1>6, <2>5, <2>6, <2>7
<1> QED BY <1>7, <1>8
-----------------------------------------------------------------------------
(* Types.                                                                   *)

Words == {"user_prompt", "text_delta", "text_end", "idle"}

(* Frames are numbered by what was said so far.                             *)
Typed == TypeOK /\ Len(said) <= MaxFrames

LEMMA InitTyped == Init => Typed
<1> SUFFICES ASSUME Init PROVE Typed
  OBVIOUS
<1>1. /\ said \in Seq(Words) /\ Len(said) = 0
      /\ up \in Seq(Frame) /\ relay \in Seq(Entry)
  BY DEF Init
<1>2. /\ stream \in [pos : Nat, first : BOOLEAN, hadClients : BOOLEAN]
      /\ mark \in [id : Nat, gen : Nat] /\ cold \in [n : Nat, gen : Nat]
  BY DEF Init
<1>3. Len(said) <= MaxFrames
  BY <1>1, PumpAssumption
<1> QED BY <1>1, <1>2, <1>3 DEF Init, Typed, TypeOK, Words

LEMMA RingTyped ==
  ASSUME Typed
  PROVE  /\ Len(up) \in Nat /\ RingHead \in Nat \ {0}
         /\ \A k : OfKind(k) \subseteq 1 .. Len(up)
         /\ Len(said) \in Nat /\ Transcript \subseteq 1 .. Len(said)
<1>1. Len(up) \in Nat /\ RingHead \in Nat \ {0}
  BY PumpAssumption DEF Typed, TypeOK, RingHead
<1>2. \A k : OfKind(k) \subseteq 1 .. Len(up)
  BY <1>1 DEF OfKind
<1>3. Len(said) \in Nat /\ Transcript \subseteq 1 .. Len(said)
  BY DEF Typed, TypeOK, Transcript
<1> QED BY <1>1, <1>2, <1>3

(* The boundary is past the loaded history, and Covered is an id or none.   *)
LEMMA BoundaryTyped ==
  ASSUME Typed
  PROVE  Covered \in 0 .. Len(up) /\ Boundary \in Nat
<1>1. Covered \in 0 .. Len(up)
  <2> DEFINE prompt == Newest(OfKind("user_prompt"))
             ends == {i \in OfKind("text_end") : i > prompt}
  <2>1. prompt \in 0 .. Len(up)
    BY RingTyped, NewestIs
  <2>2. ends \subseteq 1 .. Len(up)
    BY RingTyped
  <2>3. Newest(ends) \in 0 .. Len(up)
    BY <2>2, RingTyped, NewestIs
  <2>4. Covered = IF ends # {} THEN Newest(ends) ELSE prompt
    BY DEF Covered
  <2> QED BY <2>1, <2>3, <2>4
<1>2. high \in Nat /\ Len(up) \in Nat
  BY RingTyped DEF Typed, TypeOK
<1> QED BY <1>1, <1>2 DEF Boundary, Larger

(* What the upstream rebuilds is its transcript, in order.                  *)
LEMMA RebuiltTyped ==
  ASSUME Typed
  PROVE  Rebuilt \in Seq(Frame)
<1> DEFINE Before(n) == Cardinality({m \in Transcript : m < n})
           kept(i) == CHOOSE n \in Transcript : Before(n) = i - 1
           entry(i) == [n |-> kept(i),
                        kind |-> IF said[kept(i)] = "text_end" THEN "text_delta" ELSE said[kept(i)]]
           k == Cardinality(Transcript)
<1>1. Rebuilt = [i \in 1 .. k |-> entry(i)]
  BY DEF Rebuilt
<1>2. k \in Nat /\ \A i \in 1 .. k : \E n \in Transcript : Before(n) = i - 1
  BY RingTyped, Ranked
<1>3. ASSUME NEW i \in 1 .. k PROVE entry(i) \in Frame
  <2>1. kept(i) \in Transcript
    BY <1>2
  <2> HIDE DEF kept
  <2>2. kept(i) \in 1 .. Len(said) /\ kept(i) \in 1 .. MaxFrames
    <3>1. Len(said) \in Nat /\ MaxFrames \in Nat /\ Len(said) <= MaxFrames
      BY RingTyped, PumpAssumption DEF Typed
    <3> QED BY <2>1, <3>1, RingTyped
  <2>3. said[kept(i)] \in Words
    BY <2>2 DEF Typed, TypeOK, Words
  <2> QED BY <2>2, <2>3 DEF Frame, Words
<1> HIDE DEF k, entry
<1> QED BY <1>1, <1>2, <1>3

LEMMA SayTyped ==
  ASSUME Typed, NEW kind \in Words, Say(kind)
  PROVE  Typed'
<1>1. said' = Append(said, kind) /\ said \in Seq(Words) /\ Len(said) < MaxFrames
  BY DEF Say, Typed, TypeOK, Words
<1>2. /\ said' \in Seq(Words) /\ Len(said') = Len(said) + 1 /\ Len(said) \in Nat
      /\ Len(said') \in 1 .. MaxFrames
  BY <1>1, PumpAssumption
<1>3. [n |-> Len(said'), kind |-> kind] \in Frame
  BY <1>2 DEF Frame, Words
<1>4. up' \in Seq(Frame)
  BY <1>3 DEF Say, Typed, TypeOK
<1> QED BY <1>2, <1>4 DEF Say, Typed, TypeOK, seedVars, Words

LEMMA UpstreamTyped ==
  ASSUME Typed, UpRestart \/ UpLoad \/ StreamDrops
  PROVE  Typed'
<1>1. CASE UpRestart
  <2>1. up' \in Seq(Frame)
    BY <1>1 DEF UpRestart
  <2>2. stage' \in {"none", "top", "boundary", "connect", "open", "ended", "asking", "dead"}
    BY <1>1 DEF UpRestart, Ends, Typed, TypeOK
  <2>3. gen' \in Nat /\ high' \in Nat /\ loaded' \in BOOLEAN
    <3>1. gen \in Nat /\ gen' = gen + 1 /\ high' = 0
      BY <1>1 DEF UpRestart, Typed, TypeOK
    <3>2. loaded' \in BOOLEAN
      BY <1>1 DEF UpRestart
    <3> QED BY <3>1, <3>2
  <2>4. UNCHANGED <<said, busy, stream, mark, seedFirst, seedUntil, reseed, cold, idleAsked,
                    relay, phone, drops>>
    BY <1>1 DEF UpRestart, seedVars
  <2> QED BY <2>1, <2>2, <2>3, <2>4 DEF Typed, TypeOK
<1>2. CASE UpLoad
  <2>1. up' \in Seq(Frame) /\ high' = Len(up') /\ loaded' = TRUE
    BY <1>2, RebuiltTyped DEF UpLoad
  <2>2. high' \in Nat
    BY <2>1
  <2> QED BY <1>2, <2>1, <2>2 DEF UpLoad, Typed, TypeOK, seedVars
<1>3. CASE StreamDrops
  BY <1>3 DEF StreamDrops, Typed, TypeOK, upVars, seedVars
<1> QED BY <1>1, <1>2, <1>3

LEMMA DeliverTyped ==
  ASSUME Typed, Deliver
  PROVE  Typed'
<1> DEFINE id == Larger(stream.pos + 1, RingHead)
           known == IF Restarted(id) THEN 0 ELSE mark.id
           until == IF Restarted(id) THEN 0 ELSE seedUntil
           e == [gen |-> gen, id |-> id, n |-> up[id].n, live |-> id > until,
                 old |-> gen = cold.gen /\ up[id].n <= cold.n]
<1>1. /\ id \in 1 .. Len(up) /\ Len(up) \in Nat
  <2>1. stream.pos \in Nat /\ stream.pos < Len(up) /\ RingSize \in Nat \ {0} /\ Len(up) \in Nat
    BY PumpAssumption DEF Deliver, Typed, TypeOK
  <2>2. id = IF stream.pos + 1 > RingHead THEN stream.pos + 1 ELSE RingHead
    BY DEF Larger
  <2>3. RingHead \in Nat \ {0} /\ RingHead <= Len(up)
    BY <2>1 DEF RingHead
  <2> HIDE DEF id
  <2> QED BY <2>1, <2>2, <2>3
<1>2. up[id] \in Frame
  BY <1>1 DEF Typed, TypeOK
<1> HIDE DEF id
<1>3. known \in Nat /\ until \in Nat
  BY DEF Typed, TypeOK
<1>4. e \in Entry
  BY <1>1, <1>2, <1>3 DEF Typed, TypeOK, Entry, Frame
<1>5. UNCHANGED <<upVars, seedFirst, cold, idleAsked, phone, drops>>
  BY DEF Deliver
<1> HIDE DEF e, known, until
<1>6. CASE Restarted(id) /\ seedFirst
  <2>1. /\ mark' = [mark EXCEPT !.id = 0]
        /\ seedUntil' = 0 /\ reseed' = TRUE /\ stage' = "ended" /\ UNCHANGED <<stream, relay>>
    BY <1>6 DEF Deliver, id
  <2> QED BY <1>5, <2>1 DEF Typed, TypeOK, upVars
<1>7. CASE ~(Restarted(id) /\ seedFirst)
  <2>1. /\ stream' = [stream EXCEPT !.pos = id, !.first = FALSE]
        /\ seedUntil' = until /\ UNCHANGED <<stage, reseed>>
    BY <1>7 DEF Deliver, id, until
  <2>2. stream' \in [pos : Nat, first : BOOLEAN, hadClients : BOOLEAN]
    <3>1. id \in Nat /\ stream \in [pos : Nat, first : BOOLEAN, hadClients : BOOLEAN]
      BY <1>1 DEF Typed, TypeOK
    <3> QED BY <2>1, <3>1
  <2>3. mark' \in [id : Nat, gen : Nat] /\ relay' \in Seq(Entry)
    <3>1. CASE id <= known
      <4>1. mark' = [mark EXCEPT !.id = known] /\ UNCHANGED relay
        BY <1>7, <3>1 DEF Deliver, id, known
      <4> QED BY <1>3, <4>1 DEF Typed, TypeOK
    <3>2. CASE ~(id <= known)
      <4>1. mark' = [id |-> id, gen |-> gen] /\ relay' = Append(relay, e)
        BY <1>7, <3>2 DEF Deliver, id, known, until, e
      <4> QED BY <1>1, <1>4, <4>1 DEF Typed, TypeOK
    <3> QED BY <3>1, <3>2
  <2> QED BY <1>3, <1>5, <2>1, <2>2, <2>3 DEF Typed, TypeOK, upVars
<1> QED BY <1>6, <1>7

LEMMA LoopTyped ==
  ASSUME Typed,
         LoopTop \/ ReadBoundary \/ MissBoundary \/ Connect \/ StreamEnded \/ AskedState
         \/ IdleCheck \/ IdleStop
  PROVE  Typed'
<1>1. CASE LoopTop
  BY <1>1 DEF LoopTop, Typed, TypeOK, upVars
<1>2. CASE ReadBoundary
  <2>1. Boundary \in Nat /\ Newest(Transcript) \in Nat
    BY BoundaryTyped, RingTyped, NewestIs
  <2>2. seedUntil' \in Nat /\ cold' \in [n : Nat, gen : Nat]
    BY <1>2, <2>1 DEF ReadBoundary, Typed, TypeOK
  <2> QED BY <1>2, <2>2 DEF ReadBoundary, Typed, TypeOK, upVars
<1>3. CASE MissBoundary
  BY <1>3 DEF MissBoundary, Typed, TypeOK, upVars
<1>4. CASE Connect
  <2>1. RingHead - 1 \in Nat
    BY RingTyped
  <2> QED BY <1>4, <2>1 DEF Connect, Typed, TypeOK, upVars, seedVars
<1>5. CASE StreamEnded \/ AskedState
  BY <1>5 DEF StreamEnded, AskedState, Typed, TypeOK, upVars, seedVars
<1>6. CASE IdleCheck \/ IdleStop
  BY <1>6 DEF IdleCheck, IdleStop, Typed, TypeOK, upVars, seedVars
<1> QED BY <1>1, <1>2, <1>3, <1>4, <1>5, <1>6

LEMMA EnsureTyped ==
  ASSUME Typed, NEW new \in BOOLEAN, Ensure(new), UNCHANGED <<upVars, relay, drops>>,
         phone' \in {"off", "opening", "listening"}
  PROVE  Typed'
<1>1. CASE stage \notin {"none", "dead"}
  BY <1>1 DEF Ensure, Typed, TypeOK, upVars, seedVars
<1>2. CASE stage \in {"none", "dead"}
  <2>1. /\ stage' = "top" /\ seedFirst' = ~new /\ seedUntil' = 0 /\ reseed' = FALSE
        /\ idleAsked' = FALSE /\ cold' = [n |-> 0, gen |-> gen] /\ UNCHANGED <<stream, mark>>
    BY <1>2 DEF Ensure
  <2>2. seedFirst' \in BOOLEAN
    BY <2>1
  <2>3. cold' \in [n : Nat, gen : Nat]
    BY <2>1 DEF Typed, TypeOK
  <2> QED BY <2>1, <2>2, <2>3 DEF Typed, TypeOK, upVars
<1> QED BY <1>1, <1>2

LEMMA PhoneTyped ==
  ASSUME Typed, Phone
  PROVE  Typed'
<1>0. phone \in {"off", "opening", "listening"}
  BY DEF Typed, TypeOK
<1>1. CASE StartSession
  BY <1>0, <1>1, EnsureTyped DEF StartSession
<1>2. CASE Touch
  BY <1>0, <1>2, EnsureTyped DEF Touch
<1>3. CASE Open
  BY <1>3, EnsureTyped DEF Open
<1>4. CASE Listen \/ Leave
  BY SMTT(30), <1>4 DEF Listen, Leave, Typed, TypeOK, upVars, seedVars
<1> QED BY <1>1, <1>2, <1>3, <1>4 DEF Phone

LEMMA NextTyped == Typed /\ [Next]_vars => Typed'
<1> SUFFICES ASSUME Typed, [Next]_vars PROVE Typed'
  OBVIOUS
<1>1. CASE UNCHANGED vars
  BY <1>1 DEF vars, upVars, seedVars, Typed, TypeOK
<1>2. CASE Next
  <2>1. ASSUME NEW kind \in Words, Say(kind) PROVE Typed'
    BY <2>1, SayTyped
  <2> QED BY <1>2, <2>1, UpstreamTyped, DeliverTyped, LoopTyped, PhoneTyped
          DEF Next, Upstream, Pump, Words
<1> QED BY <1>1, <1>2

(* The relay's variables keep their types, whatever the upstream and the    *)
(* phone do (upstream-pump.mjs): every relayed frame is one the session     *)
(* produced, and the boundary read from a rebuilt ring is an id.            *)
THEOREM PumpTypes == Spec => []TypeOK
<1>1. Typed => TypeOK
  BY DEF Typed
<1> QED BY InitTyped, NextTyped, <1>1, PTL DEF Spec

-----------------------------------------------------------------------------
(* History is not sent.                                                     *)

(* Past the history it loaded, the upstream holds what was said since.      *)
Grown ==
  /\ high <= Len(up)
  /\ ~loaded => up = <<>>
  /\ loaded => /\ Len(up) <= high + Len(said)
               /\ \A i \in high + 1 .. Len(up) :
                    LET n == (Len(said) + i) - Len(up)
                    IN  up[i].n = n /\ up[i].kind = said[n]

(* The transcript is read from an upstream that has loaded it, by a pump    *)
(* that seeds; one that is to read it again does so before it connects.     *)
Cold ==
  /\ cold.n <= Len(said) /\ cold.gen <= gen
  /\ cold.gen = gen /\ ~loaded => cold.n = 0
  /\ ~seedFirst => cold.n = 0 /\ ~reseed /\ stage # "boundary"
  /\ reseed => stage \in {"ended", "asking", "top", "dead"}

(* The boundary in use leaves no frame that was history when it was read.   *)
InUse == stage \notin {"boundary", "dead"} /\ ~reseed /\ cold.gen = gen
PastHistory(until, last) == \A i \in RingHead .. Len(up) : i > until => up[i].n > last
SeedRight == InUse => PastHistory(seedUntil, cold.n)

NotSent == \A i \in DOMAIN relay : relay[i].live => ~relay[i].old

HistoryInv == Inv /\ Typed /\ Grown /\ Cold /\ SeedRight /\ NotSent

LEMMA InitHistory == Init => HistoryInv
<1> SUFFICES ASSUME Init PROVE HistoryInv
  OBVIOUS
<1>1. Inv /\ Typed
  BY InitInv, InitTyped
<1>2. Len(up) = 0 /\ Len(said) = 0 /\ RingHead = 1
  BY PumpAssumption DEF Init, RingHead
<1>3. Grown /\ Cold
  BY <1>2 DEF Init, Grown, Cold
<1>4. SeedRight
  BY <1>2 DEF SeedRight, PastHistory
<1>5. NotSent
  BY DEF Init, NotSent
<1> QED BY <1>1, <1>3, <1>4, <1>5 DEF HistoryInv

(* Every finished text and prompt in the ring is covered.                   *)
LEMMA CoversKept ==
  ASSUME Typed, NEW j \in OfKind("user_prompt") \union OfKind("text_end")
  PROVE  j <= Covered
<1> DEFINE prompt == Newest(OfKind("user_prompt"))
           ends == {i \in OfKind("text_end") : i > prompt}
<1>1. /\ Len(up) \in Nat /\ prompt \in 0 .. Len(up)
      /\ \A i \in OfKind("user_prompt") : i <= prompt
  BY RingTyped, NewestIs
<1>2. ends \subseteq 1 .. Len(up)
  BY RingTyped
<1>3. /\ Newest(ends) \in 0 .. Len(up) /\ \A i \in ends : i <= Newest(ends)
      /\ ends # {} => Newest(ends) \in ends
  BY <1>1, <1>2, NewestIs
<1>4. Covered = IF ends # {} THEN Newest(ends) ELSE prompt
  BY DEF Covered
<1>5. prompt <= Covered
  BY <1>1, <1>3, <1>4
<1>6. j \in 1 .. Len(up) /\ Covered \in Nat
  BY RingTyped, BoundaryTyped
<1>7. CASE j <= prompt
  BY <1>1, <1>5, <1>6, <1>7
<1>8. CASE ~(j <= prompt)
  <2>1. j \in ends
    BY <1>1, <1>6, <1>8
  <2> QED BY <1>3, <1>4, <2>1
<1> QED BY <1>7, <1>8

(* Nothing past the boundary is in the transcript it is read with.          *)
LEMMA BoundaryPast ==
  ASSUME Typed, Grown, loaded
  PROVE  PastHistory(Boundary, Newest(Transcript))
<1> DEFINE last == Newest(Transcript)
<1>1. /\ Len(up) \in Nat /\ Len(said) \in Nat /\ high \in Nat /\ RingHead \in Nat \ {0}
      /\ Covered \in Nat /\ Boundary \in Nat /\ high <= Len(up)
  BY RingTyped, BoundaryTyped DEF Typed, TypeOK, Grown
<1>2. last \in 0 .. Len(said) /\ (Transcript # {} => last \in Transcript)
      /\ \A n \in Transcript : n <= last
  BY RingTyped, NewestIs
<1>3. SUFFICES ASSUME NEW i \in RingHead .. Len(up), i > Boundary, ~(up[i].n > last)
               PROVE  FALSE
  BY DEF PastHistory
<1>4. i > high /\ i > Covered
  BY <1>1, <1>3 DEF Boundary, Larger
<1> DEFINE j == (last + Len(up)) - Len(said)
           n == (Len(said) + i) - Len(up)
<1>5. n \in Nat \ {0} /\ up[i].n = n
  BY <1>1, <1>3, <1>4 DEF Grown
<1>6. n <= last /\ last \in Nat
  BY <1>2, <1>3, <1>5
<1>7. j \in RingHead .. Len(up) /\ j > high /\ i <= j
  BY SMTT(30), <1>1, <1>2, <1>3, <1>4, <1>5, <1>6
<1>8. (Len(said) + j) - Len(up) = last
  BY <1>1, <1>2
<1>9. up[j].kind = said[last]
  BY <1>1, <1>7, <1>8 DEF Grown
<1>10. Kept(said[last])
  <2>1. Transcript # {}
    <3>1. ASSUME Transcript = {} PROVE last = 0
      BY <3>1 DEF Newest
    <3> QED BY <1>5, <1>6, <3>1
  <2> QED BY <1>2, <2>1 DEF Transcript
<1> HIDE DEF j, last, n
<1>11. j \in OfKind("user_prompt") \union OfKind("text_end")
  BY <1>7, <1>9, <1>10 DEF OfKind, Kept
<1>12. j <= Covered
  BY <1>11, CoversKept
<1> QED BY <1>1, <1>3, <1>4, <1>7, <1>12

(* What keeps the upstream, the boundary and the relay.                     *)
LEMMA SeedKept ==
  ASSUME Typed, Grown, SeedRight, NotSent,
         UNCHANGED <<upVars, seedUntil, cold, relay>>, InUse' => InUse
  PROVE  Grown' /\ SeedRight' /\ NotSent'
<1>1. UNCHANGED <<said, gen, up, loaded, high, seedUntil, cold, relay>>
  BY DEF upVars
<1>2. RingHead' = RingHead
  BY <1>1 DEF RingHead
<1> QED BY <1>1, <1>2 DEF Grown, SeedRight, PastHistory, NotSent

LEMMA SayHistory ==
  ASSUME HistoryInv, NEW kind \in Words, Say(kind)
  PROVE  Grown' /\ Cold' /\ SeedRight' /\ NotSent'
<1> DEFINE f == [n |-> Len(said) + 1, kind |-> kind]
<1>1. /\ said \in Seq(Words) /\ up \in Seq(Frame) /\ high \in Nat /\ loaded
      /\ cold.n \in Nat /\ cold.n <= Len(said)
      /\ said' = Append(said, kind)
      /\ UNCHANGED <<gen, loaded, high, stage, seedFirst, seedUntil, reseed, cold, relay>>
  BY DEF Say, HistoryInv, Typed, TypeOK, Words, Cold, seedVars
<1>2. /\ Len(said') = Len(said) + 1 /\ Len(said) \in Nat /\ said'[Len(said) + 1] = kind
      /\ \A n \in 1 .. Len(said) : said'[n] = said[n]
  BY <1>1
<1>3. up' = Append(up, f)
  BY <1>2 DEF Say
<1>4. f \in Frame /\ up' \in Seq(Frame)
  <2>1. Typed'
    BY SayTyped DEF HistoryInv
  <2> QED BY <1>3, <2>1, <1>1, <1>2, PumpAssumption DEF Frame, Words, Typed
<1>5. /\ Len(up') = Len(up) + 1 /\ Len(up) \in Nat /\ up'[Len(up) + 1] = f
      /\ \A i \in 1 .. Len(up) : up'[i] = up[i]
  BY <1>1, <1>3, <1>4
<1>6. /\ f.n = Len(said) + 1 /\ f.kind = kind
  OBVIOUS
<1> HIDE DEF f
<1>7. Grown'
  <2>1. high <= Len(up) /\ Len(up) <= high + Len(said)
    BY <1>1 DEF HistoryInv, Grown
  <2>2. ASSUME NEW i \in high + 1 .. Len(up) + 1
        PROVE  LET n == (Len(said') + i) - Len(up') IN up'[i].n = n /\ up'[i].kind = said'[n]
    <3>1. CASE i = Len(up) + 1
      BY <1>2, <1>5, <1>6, <3>1
    <3>2. CASE i \in high + 1 .. Len(up)
      <4> DEFINE n == (Len(said) + i) - Len(up)
      <4>1. (Len(said') + i) - Len(up') = n /\ n \in 1 .. Len(said)
        BY <1>1, <1>2, <1>5, <2>1, <3>2
      <4>2. up[i].n = n /\ up[i].kind = said[n]
        BY <1>1, <3>2 DEF HistoryInv, Grown
      <4>3. up'[i] = up[i]
        BY <1>1, <1>5, <3>2
      <4> HIDE DEF n
      <4> QED BY <1>2, <4>1, <4>2, <4>3
    <3>3. i = Len(up) + 1 \/ i \in high + 1 .. Len(up)
      BY <1>1, <1>5, <2>2
    <3> QED BY <3>1, <3>2, <3>3
  <2>3. high' <= Len(up') /\ Len(up') <= high' + Len(said')
    BY <1>1, <1>2, <1>5, <2>1
  <2>4. loaded' /\ high' + 1 .. Len(up') = high + 1 .. Len(up) + 1
    BY <1>1, <1>5
  <2> QED BY <2>2, <2>3, <2>4 DEF Grown
<1>8. Cold'
  <2>1. cold.n <= Len(said')
    BY <1>1, <1>2
  <2> QED BY <1>1, <2>1 DEF HistoryInv, Cold
<1>9. SeedRight'
  <2>1. SUFFICES ASSUME InUse', NEW i \in RingHead' .. Len(up'), i > seedUntil
                 PROVE  up'[i].n > cold.n
    BY <1>1 DEF SeedRight, PastHistory
  <2>2. InUse
    BY <1>1, <2>1 DEF InUse
  <2>3. RingHead \in Nat \ {0} /\ RingHead <= RingHead' /\ RingHead' \in Nat
    BY <1>5, PumpAssumption DEF RingHead
  <2>4. CASE i = Len(up) + 1
    BY <1>1, <1>2, <1>5, <1>6, <2>4
  <2>5. CASE i # Len(up) + 1
    <3>1. i \in RingHead .. Len(up) /\ i \in 1 .. Len(up)
      BY <1>5, <2>1, <2>3, <2>5
    <3> QED BY <1>5, <2>1, <2>2, <3>1 DEF HistoryInv, SeedRight, PastHistory
  <2> QED BY <2>4, <2>5
<1>10. NotSent'
  BY <1>1 DEF HistoryInv, NotSent
<1> QED BY <1>7, <1>8, <1>9, <1>10

LEMMA UpstreamHistory ==
  ASSUME HistoryInv, UpRestart \/ UpLoad \/ StreamDrops
  PROVE  Grown' /\ Cold' /\ SeedRight' /\ NotSent'
<1>0. Typed /\ Grown /\ Cold /\ SeedRight /\ NotSent
  BY DEF HistoryInv
<1>1. CASE UpRestart
  <2>1. /\ gen \in Nat /\ gen' = gen + 1 /\ cold.gen \in Nat /\ cold.gen <= gen
        /\ up' = <<>> /\ high' = 0 /\ loaded' = FALSE
        /\ UNCHANGED <<said, seedFirst, reseed, cold, relay>>
    BY <1>0, <1>1 DEF UpRestart, Typed, TypeOK, Cold, seedVars
  <2>2. cold.gen # gen' /\ cold.gen <= gen'
    BY <2>1
  <2>3. Grown'
    BY <2>1 DEF Grown
  <2>4. stage' = stage \/ (stage = "open" /\ stage' = "ended")
    <3>1. stage' = IF stage = "open" THEN "ended" ELSE stage
      BY <1>1 DEF UpRestart, Ends
    <3> QED BY <3>1
  <2>5. Cold'
    BY <1>0, <2>1, <2>2, <2>4 DEF Cold
  <2>6. SeedRight'
    BY <2>1, <2>2 DEF SeedRight, InUse
  <2> QED BY <1>0, <2>1, <2>3, <2>5, <2>6 DEF NotSent
<1>2. CASE UpLoad
  <2>1. /\ up' = Rebuilt /\ high' = Len(up') /\ loaded' /\ ~loaded
        /\ UNCHANGED <<said, gen, stage, seedFirst, seedUntil, reseed, cold, relay>>
    BY <1>2 DEF UpLoad, seedVars
  <2>2. up' \in Seq(Frame)
    BY <1>0, <2>1, RebuiltTyped
  <2>3. Len(up') \in Nat /\ Len(said) \in Nat /\ \A i \in 1 .. Len(up') : up'[i].n > 0
    <3>1. Len(up') \in Nat /\ Len(said) \in Nat
      BY <1>0, <2>2, RingTyped
    <3>2. ASSUME NEW i \in 1 .. Len(up') PROVE up'[i].n > 0
      <4>1. up'[i] \in Frame
        BY <2>2, <3>1, <3>2
      <4> QED BY <4>1, PumpAssumption DEF Frame
    <3> QED BY <3>1, <3>2
  <2>4. Grown'
    BY <2>1, <2>3 DEF Grown
  <2>5. Cold'
    BY <1>0, <2>1 DEF Cold
  <2>6. SeedRight'
    <3>1. SUFFICES ASSUME InUse', NEW i \in RingHead' .. Len(up') PROVE up'[i].n > cold.n
      BY <2>1 DEF SeedRight, PastHistory
    <3>2. cold.n = 0
      BY <1>0, <2>1, <3>1 DEF InUse, Cold
    <3>3. RingHead' \in Nat \ {0}
      BY <2>3, PumpAssumption DEF RingHead
    <3> QED BY <2>3, <3>1, <3>2, <3>3
  <2> QED BY <1>0, <2>1, <2>4, <2>5, <2>6 DEF NotSent
<1>3. CASE StreamDrops
  <2>1. /\ stage = "open" /\ stage' = "ended"
        /\ UNCHANGED <<upVars, seedFirst, seedUntil, reseed, cold, relay>>
    BY <1>3 DEF StreamDrops, seedVars
  <2>2. InUse' => InUse
    BY <2>1 DEF InUse, upVars
  <2>3. Cold'
    BY <1>0, <2>1 DEF Cold, upVars
  <2> QED BY <1>0, <2>1, <2>2, <2>3, SeedKept
<1> QED BY <1>1, <1>2, <1>3

LEMMA DeliverHistory ==
  ASSUME HistoryInv, Deliver
  PROVE  Grown' /\ Cold' /\ SeedRight' /\ NotSent'
<1> DEFINE id == Larger(stream.pos + 1, RingHead)
           known == IF Restarted(id) THEN 0 ELSE mark.id
           until == IF Restarted(id) THEN 0 ELSE seedUntil
           e == [gen |-> gen, id |-> id, n |-> up[id].n, live |-> id > until,
                 old |-> gen = cold.gen /\ up[id].n <= cold.n]
<1>0. Typed /\ Grown /\ Cold /\ SeedRight /\ NotSent /\ Inv
  BY DEF HistoryInv
<1>1. /\ id \in RingHead .. Len(up) /\ id \in 1 .. Len(up) /\ Len(up) \in Nat
  <2>1. stream.pos \in Nat /\ stream.pos < Len(up) /\ RingSize \in Nat \ {0} /\ Len(up) \in Nat
    BY <1>0, PumpAssumption DEF Deliver, Typed, TypeOK
  <2>2. id = IF stream.pos + 1 > RingHead THEN stream.pos + 1 ELSE RingHead
    BY DEF Larger
  <2>3. RingHead \in Nat \ {0} /\ RingHead <= Len(up)
    BY <2>1 DEF RingHead
  <2> HIDE DEF id
  <2> QED BY <2>1, <2>2, <2>3
<1> HIDE DEF id
<1>2. up[id].n \in Nat \ {0} /\ cold.n \in Nat /\ RingHead \in Nat \ {0}
  <2>1. up[id] \in Frame
    BY <1>0, <1>1 DEF Typed, TypeOK
  <2> QED BY <1>0, <2>1, RingTyped, PumpAssumption DEF Frame, Typed, TypeOK
<1>3. /\ stage = "open" /\ ~reseed
      /\ UNCHANGED <<said, busy, gen, up, loaded, high, seedFirst, cold>>
  BY <1>0 DEF Deliver, Cold, upVars
<1>4. Grown' /\ RingHead' = RingHead
  BY <1>0, <1>3 DEF Grown, RingHead
<1>5. CASE Restarted(id) /\ seedFirst
  <2>1. reseed' = TRUE /\ stage' = "ended" /\ relay' = relay
    BY <1>5 DEF Deliver, id
  <2>2. Cold'
    BY <1>0, <1>3, <1>5, <2>1 DEF Cold
  <2>3. SeedRight'
    BY <2>1 DEF SeedRight, InUse
  <2>4. NotSent'
    BY <1>0, <2>1 DEF NotSent
  <2> QED BY <1>4, <2>2, <2>3, <2>4
<1>6. CASE ~(Restarted(id) /\ seedFirst)
  <2>1. seedUntil' = until /\ UNCHANGED <<stage, reseed>>
    BY <1>6 DEF Deliver, id, until
  <2>2. Cold'
    BY <1>0, <1>3, <2>1 DEF Cold
(* A pump that does not seed has read no transcript.                        *)
  <2>3. cold.gen = gen => PastHistory(until, cold.n)
    <3>1. SUFFICES ASSUME cold.gen = gen PROVE PastHistory(until, cold.n)
      OBVIOUS
    <3>2. CASE Restarted(id)
      <4>1. cold.n = 0
        BY <1>0, <1>6, <3>2 DEF Cold
      <4>2. ASSUME NEW i \in RingHead .. Len(up) PROVE up[i].n > 0
        <5>1. up[i] \in Frame
          BY <1>0, <1>1, <1>2 DEF Typed, TypeOK
        <5> QED BY <5>1, PumpAssumption DEF Frame
      <4> QED BY <4>1, <4>2 DEF PastHistory
    <3>3. CASE ~Restarted(id)
      <4>1. InUse
        BY <1>3, <3>1 DEF InUse
      <4>2. until = seedUntil
        BY <3>3
      <4> QED BY <1>0, <4>1, <4>2 DEF SeedRight
    <3> QED BY <3>2, <3>3
  <2>4. SeedRight'
    <3>1. InUse' => cold.gen = gen
      BY <1>3 DEF InUse
    <3>2. PastHistory(until, cold.n) => PastHistory(seedUntil, cold.n)'
      BY <1>3, <1>4, <2>1 DEF PastHistory
    <3> QED BY <2>3, <3>1, <3>2 DEF SeedRight
  <2>5. e.live => ~e.old
    <3>1. ASSUME id > until, cold.gen = gen PROVE ~(up[id].n <= cold.n)
      <4>1. up[id].n > cold.n
        BY <1>1, <2>3, <3>1 DEF PastHistory
      <4> QED BY <1>2, <4>1
    <3> QED BY <3>1
  <2>6. relay' = relay \/ relay' = Append(relay, e)
    BY <1>6 DEF Deliver, id, known, until, e
  <2>7. relay \in Seq(Entry) /\ relay' \in Seq(Entry)
    BY <1>0, DeliverTyped DEF Typed, TypeOK
  <2> HIDE DEF e, until
  <2>8. NotSent'
    <3>1. CASE relay' = relay
      BY <1>0, <3>1 DEF NotSent
    <3>2. CASE relay' = Append(relay, e)
      <4>1. /\ DOMAIN relay' = 1 .. Len(relay) + 1 /\ DOMAIN relay = 1 .. Len(relay)
            /\ Len(relay) \in Nat /\ relay'[Len(relay) + 1] = e
            /\ \A i \in DOMAIN relay : relay'[i] = relay[i]
        BY <2>7, <3>2
      <4> QED BY <1>0, <2>5, <4>1 DEF NotSent
    <3> QED BY <2>6, <3>1, <3>2
  <2> QED BY <1>4, <2>2, <2>4, <2>8
<1> QED BY <1>5, <1>6

LEMMA LoopHistory ==
  ASSUME HistoryInv,
         LoopTop \/ ReadBoundary \/ MissBoundary \/ Connect \/ StreamEnded \/ AskedState
         \/ IdleCheck \/ IdleStop
  PROVE  Grown' /\ Cold' /\ SeedRight' /\ NotSent'
<1>0. Typed /\ Grown /\ Cold /\ SeedRight /\ NotSent
  BY DEF HistoryInv
<1>1. UNCHANGED <<said, busy, gen, up, loaded, high, relay, seedFirst>>
  BY DEF LoopTop, ReadBoundary, MissBoundary, Connect, StreamEnded, AskedState, IdleCheck,
         IdleStop, upVars, seedVars
<1>2. Grown' /\ NotSent' /\ RingHead' = RingHead
  BY <1>0, <1>1 DEF Grown, NotSent, RingHead
<1>3. /\ Len(up) \in Nat /\ Len(said) \in Nat /\ gen \in Nat /\ RingHead \in Nat \ {0}
      /\ \A i \in RingHead .. Len(up) : up[i].n \in Nat \ {0}
  <2>1. Len(up) \in Nat /\ Len(said) \in Nat /\ gen \in Nat /\ RingHead \in Nat \ {0}
    BY <1>0, RingTyped DEF Typed, TypeOK
  <2>2. ASSUME NEW i \in RingHead .. Len(up) PROVE up[i].n \in Nat \ {0}
    <3>1. up[i] \in Frame
      BY <1>0, <2>1 DEF Typed, TypeOK
    <3> QED BY <3>1, PumpAssumption DEF Frame
  <2> QED BY <2>1, <2>2
<1>4. CASE ReadBoundary
  <2>1. /\ loaded /\ stage = "boundary" /\ stage' = "connect" /\ reseed' = reseed
        /\ seedUntil' = Boundary /\ cold' = [n |-> Newest(Transcript), gen |-> gen]
    BY <1>4 DEF ReadBoundary
  <2>2. PastHistory(Boundary, Newest(Transcript))
    BY <1>0, <2>1, BoundaryPast
  <2>3. PastHistory(Boundary, Newest(Transcript)) => PastHistory(seedUntil, cold.n)'
    BY <1>1, <1>2, <2>1 DEF PastHistory
  <2>4. Newest(Transcript) \in 0 .. Len(said)
    BY <1>0, RingTyped, NewestIs
  <2>5. Cold'
    BY <1>0, <1>1, <1>3, <2>1, <2>4 DEF Cold
  <2> QED BY <1>2, <2>2, <2>3, <2>5 DEF SeedRight
<1>5. CASE MissBoundary
  <2>1. /\ stage = "boundary" /\ stage' = "connect" /\ reseed' = reseed
        /\ seedUntil' = 0 /\ cold' = [n |-> 0, gen |-> gen]
    BY <1>5 DEF MissBoundary
  <2>2. Cold'
    BY <1>0, <1>1, <1>3, <2>1 DEF Cold
  <2>3. SeedRight'
    BY <1>1, <1>2, <1>3, <2>1 DEF SeedRight, PastHistory
  <2> QED BY <1>2, <2>2, <2>3
<1>6. CASE LoopTop
  <2>1. /\ stage = "top" /\ UNCHANGED <<upVars, seedUntil, cold>>
        /\ \/ stage' = "boundary" /\ seedFirst /\ reseed' = FALSE
           \/ stage' = "boundary" /\ reseed /\ reseed' = FALSE
           \/ stage' = "connect" /\ ~reseed /\ reseed' = reseed
    BY <1>6 DEF LoopTop
  <2>2. InUse' => InUse
    BY <1>1, <2>1 DEF InUse
  <2>3. Cold'
    BY <1>0, <1>1, <2>1 DEF Cold
  <2> QED BY <1>0, <1>1, <2>1, <2>2, <2>3, SeedKept
<1>7. CASE Connect \/ StreamEnded \/ AskedState \/ IdleCheck \/ IdleStop
  <2>1. /\ UNCHANGED <<upVars, seedUntil, cold, reseed>>
        /\ \/ stage = "connect" /\ stage' = "open"
           \/ stage = "ended" /\ stage' \in {"top", "asking"}
           \/ stage = "asking" /\ stage' = "top"
           \/ stage' \in {stage, "dead"}
    BY <1>7 DEF Connect, StreamEnded, AskedState, IdleCheck, IdleStop, seedVars
  <2>2. InUse' => InUse
    BY <1>1, <2>1 DEF InUse
  <2>3. Cold'
    BY <1>0, <1>1, <2>1 DEF Cold
  <2> QED BY <1>0, <1>1, <2>1, <2>2, <2>3, SeedKept
<1> QED BY <1>4, <1>5, <1>6, <1>7

LEMMA PhoneHistory ==
  ASSUME HistoryInv, Phone
  PROVE  Grown' /\ Cold' /\ SeedRight' /\ NotSent'
<1>0. Typed /\ Grown /\ Cold /\ SeedRight /\ NotSent
  BY DEF HistoryInv
<1>1. UNCHANGED <<upVars, relay>>
  BY DEF Phone, StartSession, Touch, Open, Listen, Leave
<1>2. CASE UNCHANGED <<stage, seedVars>>
  <2>1. (InUse' => InUse) /\ Cold'
    BY <1>0, <1>1, <1>2 DEF InUse, Cold, upVars, seedVars
  <2> QED BY <1>0, <1>1, <1>2, <2>1, SeedKept DEF seedVars
<1>3. CASE /\ stage' = "top" /\ seedUntil' = 0 /\ reseed' = FALSE
           /\ cold' = [n |-> 0, gen |-> gen]
  <2>1. UNCHANGED <<said, gen, up, loaded, high, relay>>
    BY <1>1 DEF upVars
  <2>2. Grown' /\ NotSent' /\ RingHead' = RingHead
    BY <1>0, <2>1 DEF Grown, NotSent, RingHead
  <2>3. Len(said) \in Nat /\ gen \in Nat /\ RingHead \in Nat \ {0}
    BY <1>0, RingTyped DEF Typed, TypeOK
  <2>4. Cold'
    BY <1>3, <2>1, <2>3 DEF Cold
  <2>5. ASSUME NEW i \in RingHead .. Len(up) PROVE up[i].n > 0
    <3>1. up[i] \in Frame
      BY <1>0, <2>3 DEF Typed, TypeOK
    <3> QED BY <3>1, PumpAssumption DEF Frame
  <2>6. SeedRight'
    BY <1>3, <2>1, <2>2, <2>5 DEF SeedRight, PastHistory
  <2> QED BY <2>2, <2>4, <2>6
<1> QED BY <1>2, <1>3 DEF Phone, StartSession, Touch, Open, Listen, Leave, Ensure, seedVars

LEMMA NextHistory == HistoryInv /\ [Next]_vars => HistoryInv'
<1> SUFFICES ASSUME HistoryInv, [Next]_vars PROVE HistoryInv'
  OBVIOUS
<1>1. Inv' /\ Typed'
  BY NextInv, NextTyped DEF HistoryInv
<1>2. CASE UNCHANGED vars
  <2>1. (InUse' => InUse) /\ Cold'
    BY <1>2 DEF HistoryInv, InUse, Cold, vars, upVars, seedVars
  <2> QED BY <1>1, <1>2, <2>1, SeedKept DEF HistoryInv, vars, seedVars
<1>3. CASE Next
  <2>1. ASSUME NEW kind \in Words, Say(kind) PROVE HistoryInv'
    BY <1>1, <2>1, SayHistory DEF HistoryInv
  <2> QED BY <1>1, <1>3, <2>1, UpstreamHistory, DeliverHistory, LoopHistory, PhoneHistory
          DEF Next, Upstream, Pump, Words, HistoryInv
<1> QED BY <1>2, <1>3

(* "COLD START SEEDS, DOESN'T SEND" (upstream-pump.mjs): for any ring size, *)
(* number of frames, restarts and lost streams, what the transcript held    *)
(* when the boundary was read is never sent live, and the water mark falls  *)
(* only when another upstream answers.                                      *)
THEOREM HistoryStaysUnsent == Spec => HistoryNotSent
<1>1. HistoryInv => \A i \in DOMAIN relay : relay[i].live => ~relay[i].old
  BY DEF HistoryInv, NotSent
<1> QED BY InitHistory, NextHistory, MarkFallsForRestarts, <1>1, PTL DEF Spec, HistoryNotSent
===============================================================================
