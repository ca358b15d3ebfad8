-------------------------- MODULE OverseerRoot_proofs --------------------------
(***************************************************************************)
(* What wakes the overseer's root, on which model it answers, and that it   *)
(* is heard: check-ins stay under their caps for any number of calls,       *)
(* check-ins and days, no model is left behind by overlapping switches,     *)
(* refused questions and restarts, the answer to a question is returned or  *)
(* moved to the outbox, and the reply to a message is new and given once.   *)
(***************************************************************************)
EXTENDS Checkins, Sequences, FiniteSetTheorems, SequenceTheorems, TLAPS

CONSTANTS Switches, Inputs, ModelOf, Default, SwitchHappens
VARIABLES step, model, run, on, given, asked
Switch == INSTANCE ModelSwitch WITH Happens <- SwitchHappens

(* The caps and the length of a day are numbers.                            *)
Caps ==
  /\ MaxTime \in Nat /\ Ahead \in Nat /\ DayLength \in Nat \ {0}
  /\ MaxPending \in Nat /\ MaxPerDay \in Nat

Types ==
  /\ now \in 0 .. MaxTime /\ ids \in 0 .. MaxIds /\ from \in 0 .. ids
  /\ pending \subseteq [id : 1 .. ids, at : Nat] /\ IsFiniteSet(pending)
  /\ inbox \subseteq Nat /\ inputs \subseteq Nat
  /\ calls \in [Calls -> [at : Nat, t : 0 .. MaxTime, inputs : SUBSET Nat]]
  /\ day \in Nat /\ made \in Nat /\ perDay \in [Days -> Nat] /\ chained \in [1 .. MaxIds -> Nat]

(* The day's count is the reference's, while no call crosses midnight.      *)
Counted ==
  /\ day \in Days /\ day <= Day(now) /\ made = perDay[day]
  /\ \A d \in Days : d > day => perDay[d] = 0
(* What runs, waits or called is of the last check-in that came, and one    *)
(* that pends has not run.                                                  *)
Last ==
  /\ inbox \cup inputs \subseteq {User, from}
  /\ \A c \in Calls : calls[c] # Idle => inputs # {} /\ calls[c].inputs \subseteq inputs
  /\ \A p, q \in pending : p.id = q.id => p = q
  /\ \A p \in pending : p.id # from /\ chained[p.id] = 0
  /\ \A i \in 1 .. MaxIds : chained[i] # 0 => i <= ids /\ (i = from => hop = "spent")

DayInv == Counted /\ DayCap
HopInv == Last /\ OneHop
RootInv ==
  /\ Types /\ PendingCap
  /\ "midnight" \notin Happens => DayInv
  /\ "overlap" \notin Happens => HopInv

-----------------------------------------------------------------------------
(* Days follow one another.                                                 *)
LEMMA DayGrows ==
  ASSUME Caps, NEW t \in Nat, NEW u \in Nat, t <= u
  PROVE  Day(t) \in Nat /\ Day(t) <= Day(u)
<1> DEFINE q == t \div DayLength
           r == u \div DayLength
<1>1. DayLength \in Nat /\ DayLength > 0
  BY DEF Caps
<1>2. q \in Nat /\ r \in Nat
  BY <1>1
<1>3. q * DayLength <= t /\ t < q * DayLength + DayLength /\ r * DayLength <= u /\ u < r * DayLength + DayLength
  BY <1>1
<1> HIDE DEF q, r
<1>4. ASSUME q > r PROVE FALSE
  <2>1. q >= r + 1
    BY <1>2, <1>4
  <2>2. q * DayLength >= (r + 1) * DayLength
    BY <1>1, <1>2, <2>1
  <2>3. (r + 1) * DayLength = r * DayLength + DayLength
    BY <1>1, <1>2
  <2>4. q * DayLength \in Nat /\ r * DayLength \in Nat
    BY <1>1, <1>2
  <2> QED BY <1>1, <1>3, <2>2, <2>3, <2>4
<1>5. q <= r
  BY <1>2, <1>4
<1> QED BY <1>2, <1>5 DEF q, r, Day

(* The bounds of the counters, and the days there are.                      *)
LEMMA Bounds == ASSUME Caps PROVE MaxIds \in Nat /\ User = MaxIds + 1 /\ \A t \in 0 .. MaxTime : Day(t) \in Days
<1>1. \A t \in 0 .. MaxTime : Day(t) \in Nat /\ Day(t) <= Day(MaxTime)
  BY DayGrows DEF Caps
<1>2. Day(MaxTime) \in Nat
  BY <1>1, DayGrows DEF Caps
<1>3. MaxIds \in Nat
  BY <1>2 DEF MaxIds, Day, Caps
<1> QED BY <1>1, <1>2, <1>3 DEF Days, User

(* Initially nothing pends, waits or runs.                                  *)
LEMMA RootInit == ASSUME Caps PROVE Init => RootInv
<1> SUFFICES ASSUME Init PROVE RootInv
  OBVIOUS
<1>1. MaxIds \in Nat /\ Day(0) \in Days /\ 0 \in 0 .. MaxTime
  BY Bounds DEF Caps
<1>2. Cardinality({}) = 0 /\ IsFiniteSet({})
  BY FS_EmptySet
<1>3. Types /\ PendingCap
  BY <1>1, <1>2 DEF Init, Types, Idle, None, PendingCap, Caps
<1>4. Day(0) = 0
  BY DEF Day, Caps
<1>5. DayInv
  BY <1>1, <1>4 DEF Init, DayInv, Counted, DayCap, Caps
<1>6. HopInv
  BY <1>1 DEF Init, HopInv, Last, OneHop
<1> QED BY <1>3, <1>5, <1>6 DEF RootInv

-----------------------------------------------------------------------------
(* The commit of a call: what it creates, or that it is refused.            *)
Creates(c) ==
  /\ ids < MaxIds /\ ids' = ids + 1
  /\ Cardinality(pending) < MaxPending /\ \A p \in pending : p.at # calls[c].at
  /\ ~(Hop(c) /\ hop = "spent")
  /\ pending' = pending \cup {[id |-> ids + 1, at |-> calls[c].at]}
  /\ hop' = IF Hop(c) THEN "spent" ELSE hop
  /\ chained' = [i \in 1 .. MaxIds |-> chained[i] + IF i \in calls[c].inputs THEN 1 ELSE 0]
Count(c) == IF day = Day(calls[c].t) THEN made ELSE 0

(* A commit is refused, or all of these; without "midnight" it is of today.  *)
LEMMA CommitIs ==
  ASSUME Caps, Types, NEW c \in Calls, Commit(c)
  PROVE  /\ calls[c] # Idle /\ calls' = [calls EXCEPT ![c] = Idle] /\ day' = Day(calls[c].t)
         /\ "midnight" \notin Happens => Day(calls[c].t) = Day(now)
         /\ calls[c] \in [at : Nat, t : 0 .. MaxTime, inputs : SUBSET Nat]
         /\ Day(calls[c].t) \in Days /\ Day(calls[c].t) \in Nat /\ Count(c) \in Nat
         /\ UNCHANGED <<now, from, inbox, inputs, nightly>>
         /\ \/ /\ Creates(c) /\ Count(c) < MaxPerDay /\ made' = Count(c) + 1
               /\ perDay' = [perDay EXCEPT ![Day(calls[c].t)] = perDay[Day(calls[c].t)] + 1]
            \/ made' = Count(c) /\ UNCHANGED <<pending, ids, hop, perDay, chained>>
<1>1. calls[c] \in [at : Nat, t : 0 .. MaxTime, inputs : SUBSET Nat]
  BY DEF Types
<1>2. calls[c].t \in 0 .. MaxTime /\ calls[c].t \in Nat
  BY <1>1 DEF Caps
<1>3. Day(calls[c].t) \in Days /\ Day(calls[c].t) \in Nat
  BY <1>2, Bounds, DayGrows
<1>4. Count(c) \in Nat
  BY DEF Count, Types
<1>5. \/ /\ Creates(c) /\ Count(c) < MaxPerDay /\ made' = Count(c) + 1
         /\ perDay' = [perDay EXCEPT ![Day(calls[c].t)] = perDay[Day(calls[c].t)] + 1]
      \/ made' = Count(c) /\ UNCHANGED <<pending, ids, hop, perDay, chained>>
  BY DEF Commit, Allowed, Spent, Creates, Count
<1> QED BY <1>1, <1>3, <1>4, <1>5 DEF Commit

(* A check-in that no longer pends.                                         *)
LEMMA OneGone ==
  ASSUME Types, NEW p \in pending
  PROVE  /\ p.id \in 1 .. ids /\ IsFiniteSet(pending \ {p})
         /\ Cardinality(pending) \in Nat /\ Cardinality(pending \ {p}) = Cardinality(pending) - 1
<1>1. IsFiniteSet(pending)
  BY DEF Types
<1>2. p.id \in 1 .. ids
  BY DEF Types
<1> QED BY <1>1, <1>2, FS_RemoveElement, FS_CardinalityType

(* The types are kept.                                                      *)
LEMMA TypesStep == ASSUME Caps, Types, [Next]_vars PROVE Types'
<1> USE Bounds DEF Caps
<1>1. ASSUME NEW c \in Calls, NEW ahead \in 1 .. Ahead, Schedule(c, ahead) PROVE Types'
  <2>1. /\ calls' = [calls EXCEPT ![c] = [at |-> now + ahead, t |-> now, inputs |-> inputs]]
        /\ UNCHANGED <<now, pending, ids, from, inbox, inputs, day, made, perDay, chained>>
    BY <1>1 DEF Schedule
  <2>2. now \in 0 .. MaxTime /\ now + ahead \in Nat /\ inputs \in SUBSET Nat
    BY DEF Types
  <2>3. [at |-> now + ahead, t |-> now, inputs |-> inputs] \in [at : Nat, t : 0 .. MaxTime, inputs : SUBSET Nat]
    BY <2>2
  <2>4. calls' \in [Calls -> [at : Nat, t : 0 .. MaxTime, inputs : SUBSET Nat]]
    <3>1. calls \in [Calls -> [at : Nat, t : 0 .. MaxTime, inputs : SUBSET Nat]]
      BY DEF Types
    <3> QED BY <2>1, <2>3, <3>1, Zenon
  <2> QED BY <2>1, <2>4 DEF Types
<1>2. ASSUME NEW p \in pending, Cancel(p) \/ Skip(p) PROVE Types'
  <2>1. IsFiniteSet(pending \ {p})
    BY <1>2, OneGone
  <2>2. pending' = pending \ {p} /\ UNCHANGED <<now, ids, from, inbox, inputs, calls, day, made, perDay, chained>>
    BY <1>2 DEF Cancel, Skip
  <2> QED BY <2>1, <2>2 DEF Types
<1>3. ASSUME NEW p \in pending, Deliver(p) PROVE Types'
  <2>1. IsFiniteSet(pending \ {p}) /\ p.id \in 1 .. ids
    BY <1>3, OneGone
  <2>2. /\ pending' = pending \ {p} /\ inbox' = inbox \cup {p.id} /\ from' = p.id
        /\ UNCHANGED <<now, ids, inputs, calls, day, made, perDay, chained>>
    BY <1>3 DEF Deliver
  <2>3. p.id \in 0 .. ids /\ p.id \in Nat
    BY <2>1 DEF Types
  <2> QED BY <2>1, <2>2, <2>3 DEF Types
<1>4. CASE NightFalls \/ NightlyLooks \/ Reset
  BY <1>4 DEF NightFalls, NightlyLooks, Reset, Types
<1>5. CASE Ask \/ Take \/ RunEnds
  <2>1. User \in Nat
    BY Bounds
  <2>2. inbox' \subseteq inbox \cup {User} /\ inputs' \subseteq inputs \cup inbox
    BY <1>5 DEF Ask, Take, RunEnds
  <2>3. UNCHANGED <<now, pending, ids, from, calls, day, made, perDay, chained>>
    BY <1>5 DEF Ask, Take, RunEnds
  <2> QED BY <2>1, <2>2, <2>3 DEF Types
<1>6. CASE Tick
  BY <1>6 DEF Tick, Types
<1>7. ASSUME NEW c \in Calls, Commit(c) PROVE Types'
  <2>1. Idle \in [at : Nat, t : 0 .. MaxTime, inputs : SUBSET Nat]
    BY DEF Idle, None
  <2>2. calls' \in [Calls -> [at : Nat, t : 0 .. MaxTime, inputs : SUBSET Nat]] /\ day' \in Nat
    BY <1>7, <2>1, CommitIs DEF Types
  <2>9. \/ /\ Creates(c) /\ made' = Count(c) + 1
           /\ perDay' = [perDay EXCEPT ![Day(calls[c].t)] = perDay[Day(calls[c].t)] + 1]
        \/ made' = Count(c) /\ UNCHANGED <<pending, ids, perDay, chained>>
    BY <1>7, CommitIs
  <2>10. Day(calls[c].t) \in Days /\ Count(c) \in Nat /\ calls[c].at \in Nat /\ from' = from
    BY <1>7, CommitIs
  <2>3. made' \in Nat
    BY <2>9, <2>10
  <2>4. perDay' \in [Days -> Nat]
    <3>1. perDay \in [Days -> Nat] /\ perDay[Day(calls[c].t)] + 1 \in Nat
      BY <2>10 DEF Types
    <3> QED BY <2>9, <3>1
  <2>5. ids' \in 0 .. MaxIds /\ from' \in 0 .. ids' /\ ids' \in {ids, ids + 1}
    BY SMTT(30), <2>9, <2>10, Bounds DEF Creates, Types
  <2>11. chained' \in [1 .. MaxIds -> Nat]
    <3>1. \A i \in 1 .. MaxIds : chained[i] + (IF i \in calls[c].inputs THEN 1 ELSE 0) \in Nat
      BY SMTT(30) DEF Types
    <3> QED BY SMTT(30), <2>9, <3>1 DEF Creates, Types
  <2>6. pending' \subseteq [id : 1 .. ids', at : Nat]
    <3>1. ids \in Nat /\ pending \subseteq [id : 1 .. ids, at : Nat]
      BY Bounds DEF Types
    <3>2. CASE Creates(c)
      <4>1. pending' = pending \cup {[id |-> ids + 1, at |-> calls[c].at]} /\ ids' = ids + 1
        BY <3>2 DEF Creates
      <4>2. \A q \in pending : q \in [id : 1 .. ids + 1, at : Nat]
        BY <3>1
      <4> QED BY <2>10, <3>1, <4>1, <4>2
    <3> QED BY <2>9, <3>1, <3>2
  <2>7. IsFiniteSet(pending')
    <3>1. IsFiniteSet(pending)
      BY DEF Types
    <3>2. CASE Creates(c)
      BY <3>1, <3>2, FS_AddElement DEF Creates
    <3> QED BY <2>9, <3>1, <3>2
  <2>8. UNCHANGED <<now, inbox, inputs>>
    BY <1>7, CommitIs
  <2> QED BY <2>2, <2>3, <2>4, <2>5, <2>6, <2>7, <2>8, <2>11 DEF Types
<1>8. CASE UNCHANGED vars
  BY <1>8 DEF vars, Types
<1> QED BY <1>1, <1>2, <1>3, <1>4, <1>5, <1>6, <1>7, <1>8 DEF Next, Due, Root

(* A new check-in comes at a time of its own, when there is room for it.    *)
LEMMA PendingStep == ASSUME Caps, Types, PendingCap, [Next]_vars PROVE PendingCap'
<1>0. IsFiniteSet(pending) /\ Cardinality(pending) \in Nat /\ MaxPending \in Nat
  BY FS_CardinalityType DEF Types, Caps
<1>1. ASSUME NEW p \in pending, pending' = pending \ {p} PROVE PendingCap'
  <2>1. Cardinality(pending') = Cardinality(pending) - 1
    BY <1>1, OneGone
  <2> QED BY <1>0, <1>1, <2>1 DEF PendingCap
<1>2. CASE pending' = pending
  BY <1>2 DEF PendingCap
<1>3. ASSUME NEW c \in Calls, Commit(c) PROVE PendingCap'
  <2>1. CASE pending' = pending
    BY <1>2, <2>1
  <2>2. CASE Creates(c)
    <3> DEFINE new == [id |-> ids + 1, at |-> calls[c].at]
    <3>1. pending' = pending \cup {new} /\ Cardinality(pending) < MaxPending /\ \A p \in pending : p.at # new.at
      BY <2>2 DEF Creates
    <3>2. new \notin pending
      BY <3>1
    <3> HIDE DEF new
    <3>3. Cardinality(pending') = Cardinality(pending) + 1
      BY <1>0, <3>1, <3>2, FS_AddElement
    <3> QED BY <1>0, <3>1, <3>3 DEF PendingCap
  <2> QED BY <1>3, <2>1, <2>2, CommitIs
<1>4. CASE \E c \in Calls : \E ahead \in 1 .. Ahead : Schedule(c, ahead)
  BY <1>2, <1>4 DEF Schedule
<1>5. CASE NightFalls \/ NightlyLooks \/ Reset \/ Ask \/ Take \/ RunEnds \/ Tick \/ UNCHANGED vars
  BY <1>2, <1>5 DEF NightFalls, NightlyLooks, Reset, Ask, Take, RunEnds, Tick, vars
<1>6. CASE \E p \in pending : Cancel(p) \/ Deliver(p) \/ Skip(p)
  BY <1>1, <1>6 DEF Cancel, Deliver, Skip
<1> QED BY <1>3, <1>4, <1>5, <1>6 DEF Next, Due, Root

(* Every commit is of today, and counts on from what today had.             *)
LEMMA DayStep == ASSUME Caps, Types, DayInv, "midnight" \notin Happens, [Next]_vars PROVE DayInv'
<1>1. CASE UNCHANGED <<now, day, made, perDay>>
  BY <1>1 DEF DayInv, Counted, DayCap, Day
<1>2. CASE Tick
  <2>1. now \in Nat /\ now' \in Nat /\ now <= now'
    BY <1>2 DEF Tick, Types, Caps
  <2>2. Day(now) \in Nat /\ Day(now') \in Nat /\ Day(now) <= Day(now')
    BY <2>1, DayGrows
  <2>3. day \in Nat /\ UNCHANGED <<day, made, perDay>>
    BY <1>2 DEF Types, Tick
  <2>4. Day(now)' = Day(now')
    BY DEF Day
  <2> QED BY <2>2, <2>3, <2>4 DEF DayInv, Counted, DayCap
<1>3. ASSUME NEW c \in Calls, Commit(c) PROVE DayInv'
  <2> DEFINE d == Day(now)
  <2>1. /\ day' = d /\ d \in Days /\ d \in Nat /\ now' = now /\ Count(c) = (IF day = d THEN made ELSE 0)
        /\ \/ /\ Count(c) < MaxPerDay /\ made' = Count(c) + 1
              /\ perDay' = [perDay EXCEPT ![d] = perDay[d] + 1]
           \/ made' = Count(c) /\ perDay' = perDay
    BY <1>3, CommitIs DEF Count
  <2>2. Count(c) = perDay[d] /\ day <= d /\ day \in Nat /\ \A e \in Days : e \in Nat /\ perDay[e] \in Nat
    <3>1. Day(MaxTime) \in Nat /\ \A e \in Days : e \in Nat
      BY DayGrows DEF Caps, Days
    <3>2. day \in Nat /\ \A e \in Days : perDay[e] \in Nat
      BY DEF Types
    <3>3. day \in Days /\ day <= d /\ made = perDay[day] /\ (d > day => perDay[d] = 0)
      BY <2>1 DEF DayInv, Counted
    <3> QED BY <2>1, <3>1, <3>2, <3>3
  <2>3. Day(now)' = d
    BY <2>1 DEF Day
  <2> HIDE DEF d
  <2>4. perDay \in [Days -> Nat] /\ MaxPerDay \in Nat
    BY DEF Types, Caps
  <2>5. \A e \in Days : e > d => perDay[e] = 0
    BY <2>1, <2>2 DEF DayInv, Counted
  <2>6. \A e \in Days : perDay[e] <= MaxPerDay
    BY DEF DayInv, DayCap
  <2>7. CASE made' = Count(c) /\ perDay' = perDay
    BY <2>1, <2>2, <2>3, <2>5, <2>6, <2>7 DEF DayInv, Counted, DayCap
  <2>8. CASE /\ Count(c) < MaxPerDay /\ made' = Count(c) + 1
             /\ perDay' = [perDay EXCEPT ![d] = perDay[d] + 1]
    <3>1. perDay'[d] = perDay[d] + 1 /\ \A e \in Days \ {d} : perDay'[e] = perDay[e]
      BY <2>1, <2>4, <2>8
    <3>2. made' = perDay'[d] /\ perDay'[d] <= MaxPerDay
      BY <2>2, <2>4, <2>8, <3>1
    <3>3. \A e \in Days : perDay'[e] <= MaxPerDay /\ (e > d => perDay'[e] = 0)
      BY <2>1, <2>2, <2>5, <2>6, <3>1, <3>2
    <3> QED BY <2>1, <2>3, <3>2, <3>3 DEF DayInv, Counted, DayCap
  <2> QED BY <2>1, <2>7, <2>8
<1>4. CASE \E c \in Calls : \E ahead \in 1 .. Ahead : Schedule(c, ahead)
  BY <1>1, <1>4 DEF Schedule
<1>5. CASE NightFalls \/ NightlyLooks \/ Reset \/ Ask \/ Take \/ RunEnds \/ UNCHANGED vars
  BY <1>1, <1>5 DEF NightFalls, NightlyLooks, Reset, Ask, Take, RunEnds, vars
<1>6. CASE \E p \in pending : Cancel(p) \/ Deliver(p) \/ Skip(p)
  BY <1>1, <1>6 DEF Cancel, Deliver, Skip
<1> QED BY <1>2, <1>3, <1>4, <1>5, <1>6 DEF Next, Due, Root

(* An input of a check-in is of the one that came last, and the next comes  *)
(* after its run.                                                           *)
LEMMA HopStep == ASSUME Caps, Types, HopInv, "overlap" \notin Happens, [Next]_vars PROVE HopInv'
<1> USE DEF HopInv
<1>0. MaxIds \in Nat /\ User = MaxIds + 1 /\ ids \in 0 .. MaxIds /\ from \in 0 .. ids
  BY Bounds DEF Types
<1>1. ASSUME pending' \subseteq pending, UNCHANGED <<ids, hop, from, chained>>,
             inbox' \cup inputs' \subseteq {User, from},
             \A c \in Calls : calls'[c] # Idle => inputs' # {} /\ calls'[c].inputs \subseteq inputs'
      PROVE  HopInv'
  BY <1>1 DEF Last, OneHop
<1>2. ASSUME NEW c \in Calls, NEW ahead \in 1 .. Ahead, Schedule(c, ahead) PROVE HopInv'
  <2>1. /\ UNCHANGED <<ids, hop, from, chained, pending, inbox, inputs>> /\ inputs # {}
        /\ calls' = [calls EXCEPT ![c] = [at |-> now + ahead, t |-> now, inputs |-> inputs]]
    BY <1>2 DEF Schedule
  <2>2. calls'[c].inputs = inputs /\ \A b \in Calls \ {c} : calls'[b] = calls[b]
    BY <2>1 DEF Types
  <2>3. \A b \in Calls : calls'[b] # Idle => inputs' # {} /\ calls'[b].inputs \subseteq inputs'
    BY <2>1, <2>2 DEF Last
  <2> QED BY <1>1, <2>1, <2>3 DEF Last
<1>3. ASSUME NEW p \in pending, Cancel(p) \/ Skip(p) PROVE HopInv'
  BY <1>1, <1>3 DEF Cancel, Skip, Last
<1>4. ASSUME NEW p \in pending, Deliver(p) PROVE HopInv'
  <2>1. /\ inputs = {} /\ inbox \subseteq {User} /\ pending' = pending \ {p} /\ inbox' = inbox \cup {p.id}
        /\ from' = p.id /\ UNCHANGED <<ids, inputs, calls, chained>>
    BY <1>4 DEF Deliver
  <2>2. \A q \in pending' : q \in pending /\ q.id # p.id
    BY <2>1 DEF Last
  <2>3. chained[p.id] = 0
    BY DEF Last
  <2>4. \A q \in pending' : q.id # from' /\ chained'[q.id] = 0
    BY <2>1, <2>2 DEF Last
  <2>5. \A i \in 1 .. MaxIds : chained'[i] # 0 => i <= ids' /\ (i = from' => hop' = "spent")
    BY <2>1, <2>3 DEF Last
  <2>6. \A c \in Calls : calls'[c] # Idle => inputs' # {} /\ calls'[c].inputs \subseteq inputs'
    BY <2>1 DEF Last
  <2>7. inbox' \cup inputs' \subseteq {User, from'}
    BY <2>1
  <2>8. \A q, r \in pending' : q.id = r.id => q = r
    BY <2>2 DEF Last
  <2>9. OneHop'
    BY <2>1 DEF OneHop
  <2> QED BY <2>4, <2>5, <2>6, <2>7, <2>8, <2>9 DEF Last
<1>5. ASSUME NEW c \in Calls, Commit(c) PROVE HopInv'
  <2>1. /\ calls[c] # Idle /\ calls' = [calls EXCEPT ![c] = Idle] /\ UNCHANGED <<from, inbox, inputs>>
        /\ Creates(c) \/ UNCHANGED <<pending, ids, hop, chained>>
    BY <1>5, CommitIs
  <2>2. \A b \in Calls : calls'[b] # Idle => calls[b] # Idle /\ calls'[b] = calls[b]
    BY <2>1 DEF Types
  <2>3. \A b \in Calls : calls'[b] # Idle => inputs' # {} /\ calls'[b].inputs \subseteq inputs'
    BY <2>1, <2>2 DEF Last
  <2>4. CASE UNCHANGED <<pending, ids, hop, chained>>
    BY <1>1, <2>1, <2>3, <2>4 DEF Last
  <2>5. CASE Creates(c)
    <3>1. calls[c].inputs \subseteq {User, from}
      BY <2>1 DEF Last
    <3> DEFINE new == [id |-> ids + 1, at |-> calls[c].at]
               own(i) == i \in calls[c].inputs
    <3>2. /\ ids' = ids + 1 /\ pending' = pending \cup {new} /\ new.id = ids + 1 /\ ids + 1 \in 1 .. MaxIds
          /\ \A i \in 1 .. MaxIds : chained'[i] = chained[i] + IF own(i) THEN 1 ELSE 0
      BY <1>0, <2>5 DEF Creates
    <3>3. \A i \in 1 .. MaxIds : own(i) => i = from /\ hop' = "spent" /\ chained[i] = 0
      <4> SUFFICES ASSUME NEW i \in 1 .. MaxIds, own(i) PROVE i = from /\ hop' = "spent" /\ chained[i] = 0
        OBVIOUS
      <4>1. i = from
        BY <1>0, <3>1
      <4>2. Hop(c)
        BY <4>1, <1>0 DEF Hop, None
      <4>3. hop # "spent" /\ hop' = "spent"
        BY <2>5, <4>2 DEF Creates
      <4>4. chained[i] = 0
        BY <4>1, <4>3 DEF Last
      <4> QED BY <4>1, <4>3, <4>4
    <3>4. hop = "spent" => hop' = "spent"
      BY <2>5 DEF Creates
    <3>5. \A i \in 1 .. MaxIds : chained[i] \in Nat /\ (chained[i] # 0 => i <= ids /\ (i = from => hop = "spent"))
      BY DEF Last, Types
    <3>6. \A p \in pending : p.id \in 1 .. ids /\ p.id \in 1 .. MaxIds /\ p.id # from /\ chained[p.id] = 0
      <4>1. \A p \in pending : p.id \in 1 .. ids
        BY OneGone
      <4> QED BY <1>0, <4>1 DEF Last
    <3> HIDE DEF new, own
    <3>7. \A i \in 1 .. MaxIds : chained'[i] # 0 => i <= ids' /\ (i = from' => hop' = "spent")
      <4> SUFFICES ASSUME NEW i \in 1 .. MaxIds, chained'[i] # 0 PROVE i <= ids' /\ (i = from => hop' = "spent")
        BY <2>1
      <4>1. CASE own(i)
        BY <4>1, <1>0, <3>2, <3>3
      <4>2. CASE ~own(i)
        BY <4>2, <1>0, <3>2, <3>4, <3>5
      <4> QED BY <4>1, <4>2
    <3>8. \A p \in pending' : p.id # from' /\ chained'[p.id] = 0
      <4>1. ASSUME NEW p \in pending PROVE p.id # from /\ chained'[p.id] = 0
        BY <3>2, <3>3, <3>6
      <4>2. ids + 1 # from /\ ~own(ids + 1) /\ chained[ids + 1] = 0
        BY <1>0, <3>2, <3>3, <3>5
      <4>3. chained'[ids + 1] = 0
        BY <3>2, <4>2
      <4> QED BY <2>1, <3>2, <4>1, <4>2, <4>3
    <3>9. \A p, q \in pending' : p.id = q.id => p = q
      BY <1>0, <3>2, <3>6 DEF Last
    <3>10. OneHop'
      BY <3>2, <3>3, <3>5 DEF OneHop
    <3> QED BY <2>1, <2>3, <3>7, <3>8, <3>9, <3>10 DEF Last
  <2> QED BY <2>1, <2>4, <2>5
<1>6. CASE Ask \/ Take \/ Reset
  <2>1. /\ UNCHANGED <<pending, ids, hop, from, calls, chained>>
        /\ inbox' \cup inputs' \subseteq inbox \cup inputs \cup {User}
        /\ inputs \subseteq inputs'
    BY <1>6 DEF Ask, Take, Reset
  <2> QED BY <1>1, <2>1 DEF Last
<1>7. CASE RunEnds
  <2>1. /\ UNCHANGED <<pending, ids, hop, from, inbox, calls, chained>> /\ inputs' = {}
        /\ \A c \in Calls : calls[c] = Idle
    BY <1>7 DEF RunEnds
  <2> QED BY <1>1, <2>1 DEF Last
<1>8. CASE NightFalls \/ NightlyLooks \/ Tick \/ UNCHANGED vars
  BY <1>1, <1>8 DEF NightFalls, NightlyLooks, Tick, vars, Last
<1> QED BY <1>2, <1>3, <1>4, <1>5, <1>6, <1>7, <1>8 DEF Next, Due, Root

(* Each part is kept by itself.                                             *)
LEMMA RootStep == ASSUME Caps PROVE RootInv /\ [Next]_vars => RootInv'
<1> SUFFICES ASSUME RootInv, [Next]_vars PROVE RootInv'
  OBVIOUS
<1>1. Types' /\ PendingCap'
  BY TypesStep, PendingStep DEF RootInv
<1>2. "midnight" \notin Happens => DayInv'
  BY DayStep DEF RootInv
<1>3. "overlap" \notin Happens => HopInv'
  BY HopStep DEF RootInv
<1> QED BY <1>1, <1>2, <1>3 DEF RootInv

(* Calls that overlap, check-ins that are cancelled, skipped or due, the    *)
(* user's own asks never let more check-ins pend than the cap, or two come   *)
(* closer than the gap (checkins.mjs:5-7).                                  *)
THEOREM FewPend == ASSUME Caps PROVE Spec => []PendingCap
<1>1. Init => RootInv
  BY RootInit
<1>2. RootInv /\ [Next]_vars => RootInv'
  BY RootStep
<1>3. RootInv => PendingCap
  BY DEF RootInv
<1> QED BY <1>1, <1>2, <1>3, PTL DEF Spec

(* While no call crosses midnight no day has more than its check-ins, and   *)
(* while none comes into the run of an earlier one a check-in's run         *)
(* schedules one at most.                                                   *)
THEOREM CapsAreKept ==
  ASSUME Caps
  PROVE  /\ "midnight" \notin Happens => (Spec => []DayCap)
         /\ "overlap" \notin Happens => (Spec => []OneHop)
<1>1. Init => RootInv
  BY RootInit
<1>2. RootInv /\ [Next]_vars => RootInv'
  BY RootStep
<1>3. ASSUME "midnight" \notin Happens PROVE Spec => []DayCap
  <2>1. RootInv => DayCap
    BY <1>3 DEF RootInv, DayInv
  <2> QED BY <1>1, <1>2, <2>1, PTL DEF Spec
<1>4. ASSUME "overlap" \notin Happens PROVE Spec => []OneHop
  <2>1. RootInv => OneHop
    BY <1>4 DEF RootInv, HopInv
  <2> QED BY <1>1, <1>2, <2>1, PTL DEF Spec
<1> QED BY <1>3, <1>4

(* The nightly reset drops the root's context only between runs and with an *)
(* empty inbox, whatever came since it looked (checkins.mjs:256-257).       *)
THEOREM ResetsWhenQuiet == Spec => NothingCutOff
<1>1. Next => ResetWhenQuiet
  BY DEF Next, Due, Root, Schedule, Cancel, Deliver, Skip, NightFalls, NightlyLooks, Reset, Ask, Take,
         RunEnds, Commit, Tick, ResetWhenQuiet
<1> QED BY <1>1, PTL DEF Spec, NothingCutOff

-----------------------------------------------------------------------------
(* The switch to another model: it is only ever set while a switch that     *)
(* will put the overseer's own back is under way.                           *)

Steps == {"new", "refused", "free", "set", "asked", "reverting", "done"}
UnderWay(s) == step[s] \in {"set", "asked", "reverting"}

SwitchInv ==
  /\ step \in [Switches -> Steps]
  /\ model = Default \/ \E s \in Switches : UnderWay(s)

LEMMA GoesTypes ==
  ASSUME step \in [Switches -> Steps], NEW s \in Switches, NEW to \in Steps, Switch!Goes(s, to)
  PROVE  /\ step' \in [Switches -> Steps]
         /\ step'[s] = to
         /\ \A t \in Switches \ {s} : step'[t] = step[t]
  BY DEF Switch!Goes

(* A step of a switch that stays under way, or was not, takes nothing from  *)
(* the others.                                                              *)
LEMMA GoesInv ==
  ASSUME SwitchInv, NEW s \in Switches, NEW to \in Steps, Switch!Goes(s, to), model' = model,
         UnderWay(s) => to \in {"set", "asked", "reverting"}
  PROVE  SwitchInv'
<1>1. step' \in [Switches -> Steps] /\ step'[s] = to
  BY GoesTypes DEF SwitchInv
<1>2. ASSUME NEW t \in Switches, UnderWay(t) PROVE UnderWay(t)'
  BY <1>2, <1>1, GoesTypes DEF SwitchInv, UnderWay
<1> QED BY <1>1, <1>2 DEF SwitchInv

LEMMA SwitchStep == SwitchInv /\ [Switch!Next]_(Switch!msVars) => SwitchInv'
<1> SUFFICES ASSUME SwitchInv, [Switch!Next]_(Switch!msVars) PROVE SwitchInv'
  OBVIOUS
<1> USE DEF Steps
<1>1. ASSUME NEW s \in Switches, Switch!BusyCheck(s) PROVE SwitchInv'
  BY <1>1, GoesInv DEF Switch!BusyCheck, UnderWay
<1>2. ASSUME NEW s \in Switches, Switch!SetModel(s) PROVE SwitchInv'
  <2>1. step' \in [Switches -> Steps] /\ step'[s] = "set"
    BY <1>2, GoesTypes DEF Switch!SetModel, SwitchInv
  <2> QED BY <2>1 DEF SwitchInv, UnderWay
<1>3. ASSUME NEW s \in Switches, Switch!Ask(s) PROVE SwitchInv'
  <2>1. Switch!Goes(s, "asked") \/ Switch!Goes(s, "reverting")
    BY <1>3 DEF Switch!Ask, Switch!AskOrRevert
  <2> QED BY <1>3, <2>1, GoesInv DEF Switch!Ask
<1>4. ASSUME NEW s \in Switches, Switch!Settles(s) PROVE SwitchInv'
  BY <1>4, GoesInv DEF Switch!Settles
<1>5. ASSUME NEW s \in Switches, Switch!Revert(s) PROVE SwitchInv'
  BY <1>5, GoesTypes DEF Switch!Revert, SwitchInv
<1>6. CASE Switch!Restart
  BY <1>6 DEF Switch!Restart, SwitchInv
<1>7. ASSUME UNCHANGED <<step, model>> PROVE SwitchInv'
  BY <1>7 DEF SwitchInv, UnderWay
<1> QED BY <1>1, <1>2, <1>3, <1>4, <1>5, <1>6, <1>7 DEF Switch!Next, Switch!Input, Switch!Answer, Switch!msVars

(* Whatever overlaps, fails or restarts, once no switch is under way the    *)
(* overseer is on its own model (actions.mjs modelSwitch).                  *)
THEOREM NoModelLeft == Switch!Spec => []Switch!ModelReverted
<1>1. Switch!Init => SwitchInv
  BY DEF Switch!Init, SwitchInv, Steps
<1>2. SwitchInv => Switch!ModelReverted
  BY DEF SwitchInv, UnderWay, Switch!ModelReverted
<1> QED BY <1>1, <1>2, SwitchStep, PTL DEF Switch!Spec
-----------------------------------------------------------------------------
(* Questions and the outbox (OverseerAsks).                                  *)

CONSTANTS Callers, RequestIds, NoRequest, DoneKeep, OutboxKeep, TaggedKeep, MaxAsks, MaxNotices, MaxRestarts
VARIABLES submission, pendingAsks, doneAsks, delivered, box, seq, askCall, followed, wanted, rec, askUp,
          askCount, notices, askRestarts, answered, moved
Asks == INSTANCE OverseerAsks WITH
  pending <- pendingAsks, done <- doneAsks, call <- askCall, up <- askUp, asks <- askCount,
  restarts <- askRestarts

Has(list, r) == \E i \in 1 .. Len(list) : list[i] = r
NoTwice(list) == \A i, j \in 1 .. Len(list) : list[i] = list[j] => i = j

(* A list without one of its elements, which is there once.                 *)
LEMMA WithoutIs ==
  ASSUME NEW S, NEW list \in Seq(S), NEW r, NoTwice(list)
  PROVE  /\ Asks!Without(list, r) \in Seq(S) /\ NoTwice(Asks!Without(list, r))
         /\ \A x : Has(Asks!Without(list, r), x) => x # r /\ Has(list, x)
<1> DEFINE w == Asks!Without(list, r)
<1>1. DOMAIN list = 1 .. Len(list) /\ Len(list) \in Nat
  OBVIOUS
<1>2. CASE ~Has(list, r)
  <2>1. w = list
    BY <1>1, <1>2 DEF Asks!Without, Asks!Range, Has
  <2> QED BY <1>2, <2>1 DEF Has
<1>3. CASE Has(list, r)
  <2> DEFINE n == CHOOSE i \in DOMAIN list : list[i] = r
  <2> DEFINE a == SubSeq(list, 1, n - 1)
  <2> DEFINE b == SubSeq(list, n + 1, Len(list))
  <2>1. n \in 1 .. Len(list) /\ list[n] = r
    BY <1>1, <1>3 DEF Has
  <2>2. w = a \o b
    BY <1>1, <1>3 DEF Asks!Without, Asks!Range, Asks!RemoveAt, Has
  <2> HIDE DEF n
  <2>3. a \in Seq(S) /\ Len(a) = n - 1 /\ \A i \in 1 .. n - 1 : a[i] = list[i]
    BY <1>1, <2>1
  <2>4. b \in Seq(S) /\ Len(b) = Len(list) - n /\ \A i \in 1 .. Len(list) - n : b[i] = list[n + i]
    <3>1. n + 1 \in Int /\ Len(list) \in Int /\ \A i \in n + 1 .. Len(list) : list[i] \in S
      BY <1>1, <2>1
    <3>2. /\ b \in Seq(S) /\ Len(b) = IF n + 1 <= Len(list) THEN (Len(list) - (n + 1)) + 1 ELSE 0
          /\ \A i \in 1 .. (Len(list) - (n + 1)) + 1 : b[i] = list[((n + 1) + i) - 1]
      BY <3>1, SubSeqProperties
    <3> HIDE DEF b
    <3>3. (Len(list) - (n + 1)) + 1 = Len(list) - n /\ Len(b) = Len(list) - n
      <4>1. Len(list) \in Nat /\ n \in 1 .. Len(list)
        BY <1>1, <2>1
      <4>2. (Len(list) - (n + 1)) + 1 = Len(list) - n
            /\ (IF n + 1 <= Len(list) THEN (Len(list) - (n + 1)) + 1 ELSE 0) = Len(list) - n
        BY <4>1
      <4> QED BY <3>2, <4>2
    <3>4. \A i \in 1 .. Len(list) - n : ((n + 1) + i) - 1 = n + i
      BY <1>1, <2>1
    <3> QED BY <3>2, <3>3, <3>4
  <2> HIDE DEF a, b, w
  <2>10. /\ w \in Seq(S) /\ Len(w) = Len(a) + Len(b)
         /\ \A i \in 1 .. Len(a) + Len(b) : w[i] = IF i <= Len(a) THEN a[i] ELSE b[i - Len(a)]
    <3>1. a \in Seq(S) /\ b \in Seq(S)
      BY <2>3, <2>4
    <3> QED BY <2>2, <3>1, ConcatProperties
  <2>11. Len(a) = n - 1 /\ Len(a) + Len(b) = Len(list) - 1
    BY <1>1, <2>1, <2>3, <2>4
  <2>5. w \in Seq(S) /\ Len(w) = Len(list) - 1
    BY <2>10, <2>11
  <2>6. \A i \in 1 .. Len(list) - 1 : w[i] = IF i < n THEN list[i] ELSE list[i + 1]
    <3> SUFFICES ASSUME NEW i \in 1 .. Len(list) - 1 PROVE w[i] = IF i < n THEN list[i] ELSE list[i + 1]
      OBVIOUS
    <3>1. CASE i < n
      <4>1. i <= Len(a) /\ i \in 1 .. n - 1
        BY <1>1, <2>1, <2>11, <3>1
      <4> QED BY <2>3, <2>10, <2>11, <3>1, <4>1
    <3>2. CASE ~(i < n)
      <4>1. i - Len(a) \in 1 .. Len(list) - n /\ n + (i - Len(a)) = i + 1
        BY <1>1, <2>1, <2>3, <3>2
      <4>2. w[i] = b[i - Len(a)]
        <5>1. ~(i <= Len(a))
          BY <1>1, <2>1, <2>11, <3>2
        <5> QED BY <2>10, <2>11, <5>1
      <4>3. b[i - Len(a)] = list[n + (i - Len(a))]
        BY <2>4, <4>1
      <4> QED BY <3>2, <4>1, <4>2, <4>3
    <3> QED BY <3>1, <3>2
  <2>7. \A i \in 1 .. Len(list) - 1 : \E j \in 1 .. Len(list) : j # n /\ w[i] = list[j]
    <3> SUFFICES ASSUME NEW i \in 1 .. Len(list) - 1
                 PROVE  \E j \in 1 .. Len(list) : j # n /\ w[i] = list[j]
      OBVIOUS
    <3>1. CASE i < n
      <4>1. i \in 1 .. Len(list) /\ i # n /\ w[i] = list[i]
        BY <1>1, <2>1, <2>6, <3>1
      <4> QED BY <4>1
    <3>2. CASE ~(i < n)
      <4>1. i + 1 \in 1 .. Len(list) /\ i + 1 # n /\ w[i] = list[i + 1]
        BY <1>1, <2>1, <2>6, <3>2
      <4> QED BY <4>1
    <3> QED BY <3>1, <3>2
  <2>8. \A x : Has(w, x) => x # r /\ Has(list, x)
    BY <2>1, <2>5, <2>7 DEF Has, NoTwice
  <2>9. NoTwice(w)
    <3> SUFFICES ASSUME NEW i \in 1 .. Len(list) - 1, NEW j \in 1 .. Len(list) - 1, i < j PROVE w[i] # w[j]
      BY <1>1, <2>5 DEF NoTwice
    <3> DEFINE k == IF i < n THEN i ELSE i + 1
    <3> DEFINE l == IF j < n THEN j ELSE j + 1
    <3>1. k \in 1 .. Len(list) /\ l \in 1 .. Len(list) /\ k # l
      BY <1>1, <2>1
    <3>2. w[i] = list[k] /\ w[j] = list[l]
      BY <1>1, <2>6
    <3> HIDE DEF k, l
    <3> QED BY <3>1, <3>2 DEF NoTwice
  <2> QED BY <2>5, <2>8, <2>9 DEF w
<1> QED BY <1>2, <1>3

AskTypes ==
  /\ pendingAsks \in Seq(RequestIds) /\ NoTwice(pendingAsks)
  /\ askCall \in [Callers -> [at : {"idle", "waiting", "answering"}, req : RequestIds \cup {NoRequest}]]
  /\ \A c \in Callers : askCall[c].at # "idle" => askCall[c].req \in RequestIds
  /\ rec \in [at : {"idle", "next", "status", "move"}, left : Seq(RequestIds)]
  /\ rec.at \in {"status", "move"} => rec.left # << >>
  /\ answered \subseteq RequestIds
  /\ askCount \in [RequestIds -> Nat] /\ moved \in [RequestIds -> Nat]

Waits(c, r) == askCall[c].at # "idle" /\ askCall[c].req = r
Moving(r) == rec.at \in {"status", "move"} /\ Head(rec.left) = r

(* A question not asked yet is nowhere; one asked once has one call, which  *)
(* reconcile leaves alone, and is out of the document once it is answered.  *)
Fate(r) ==
  /\ askCount[r] = 0 => /\ ~Has(pendingAsks, r) /\ ~Has(rec.left, r) /\ moved[r] = 0 /\ r \notin answered
                        /\ \A c \in Callers : ~Waits(c, r)
  /\ askCount[r] = 1 => /\ \A c, d \in Callers : Waits(c, r) /\ Waits(d, r) => c = d
                        /\ (\E c \in Callers : Waits(c, r)) => moved[r] = 0 /\ r \notin answered /\ ~Moving(r)
                        /\ r \in answered => moved[r] = 0 /\ ~Has(pendingAsks, r)
HeardInv == AskTypes /\ \A r \in RequestIds : Fate(r)

LEMMA HeardInit == Asks!Init => HeardInv
<1> SUFFICES ASSUME Asks!Init PROVE HeardInv
  OBVIOUS
<1>1. pendingAsks = << >> /\ Len(pendingAsks) = 0 /\ rec = [at |-> "idle", left |-> << >>] /\ answered = {}
      /\ Len(rec.left) = 0
      /\ askCall = [c \in Callers |-> [at |-> "idle", req |-> NoRequest]]
      /\ askCount = [r \in RequestIds |-> 0] /\ moved = [r \in RequestIds |-> 0]
  BY DEF Asks!Init, Asks!NoCall, Asks!Idle
<1>2. AskTypes
  BY <1>1 DEF AskTypes, NoTwice
<1>3. \A r \in RequestIds : Fate(r)
  BY <1>1 DEF Fate, Has, Waits
<1> QED BY <1>2, <1>3 DEF HeardInv

LEMMA HeardAsk ==
  ASSUME HeardInv, NEW c \in Callers, NEW r \in RequestIds, Asks!Ask(c, r)
  PROVE  HeardInv'
<1> DEFINE new == [at |-> "waiting", req |-> r]
<1>1. /\ askCall[c] = [at |-> "idle", req |-> NoRequest]
      /\ askCount' = [askCount EXCEPT ![r] = @ + 1]
      /\ pendingAsks' = pendingAsks \/ (pendingAsks' = Append(pendingAsks, r) /\ r \notin Asks!Range(pendingAsks))
      /\ askCall' = askCall \/ askCall' = [askCall EXCEPT ![c] = new]
      /\ rec' = rec /\ moved' = moved /\ answered' = answered
  BY DEF Asks!Ask, Asks!PendingWith, Asks!NoCall, Asks!boxVars, Asks!recVars
<1>2. askCount'[r] = askCount[r] + 1 /\ \A x \in RequestIds \ {r} : askCount'[x] = askCount[x]
  BY <1>1 DEF HeardInv, AskTypes
<1>3. \A d \in Callers \ {c} : askCall'[d] = askCall[d]
  BY <1>1 DEF HeardInv, AskTypes
<1>4. askCall'[c] = askCall[c] \/ askCall'[c] = new
  BY <1>1 DEF HeardInv, AskTypes
<1>5. pendingAsks \in Seq(RequestIds) /\ Len(pendingAsks) \in Nat /\ NoTwice(pendingAsks)
      /\ DOMAIN pendingAsks = 1 .. Len(pendingAsks)
  BY DEF HeardInv, AskTypes
<1>6. pendingAsks' \in Seq(RequestIds) /\ NoTwice(pendingAsks')
  <2>1. CASE pendingAsks' = pendingAsks
    BY <1>5, <2>1
  <2>2. CASE pendingAsks' = Append(pendingAsks, r) /\ r \notin Asks!Range(pendingAsks)
    <3>1. /\ pendingAsks' \in Seq(RequestIds) /\ Len(pendingAsks') = Len(pendingAsks) + 1
          /\ pendingAsks'[Len(pendingAsks) + 1] = r
          /\ \A i \in 1 .. Len(pendingAsks) : pendingAsks'[i] = pendingAsks[i]
      BY <1>5, <2>2
    <3>2. \A i \in 1 .. Len(pendingAsks) : pendingAsks[i] # r
      BY <1>5, <2>2 DEF Asks!Range
    <3>3. \A i \in 1 .. Len(pendingAsks') : i \in 1 .. Len(pendingAsks) \/ i = Len(pendingAsks) + 1
      BY <1>5, <3>1
    <3>4. NoTwice(pendingAsks')
      BY <1>5, <3>1, <3>2, <3>3 DEF NoTwice
    <3> QED BY <3>1, <3>4
  <2> QED BY <1>1, <2>1, <2>2
<1>7. \A x : Has(pendingAsks', x) => Has(pendingAsks, x) \/ x = r
  <2>1. CASE pendingAsks' = Append(pendingAsks, r)
    <3>1. \A i \in 1 .. Len(pendingAsks') :
            (i \in 1 .. Len(pendingAsks) /\ pendingAsks'[i] = pendingAsks[i]) \/ pendingAsks'[i] = r
      BY <1>5, <2>1
    <3> QED BY <3>1 DEF Has
  <2> QED BY <1>1, <2>1
<1>12. new \in [at : {"idle", "waiting", "answering"}, req : RequestIds \cup {NoRequest}]
      /\ new.at = "waiting" /\ new.req = r
  OBVIOUS
<1> HIDE DEF new
<1>8. askCall' \in [Callers -> [at : {"idle", "waiting", "answering"}, req : RequestIds \cup {NoRequest}]]
  BY <1>1, <1>12 DEF HeardInv, AskTypes
<1>9. AskTypes'
  <2>1. \A d \in Callers : askCall'[d].at # "idle" => askCall'[d].req \in RequestIds
    BY <1>3, <1>4, <1>12 DEF HeardInv, AskTypes
  <2>2. askCount' \in [RequestIds -> Nat]
    BY <1>1 DEF HeardInv, AskTypes
  <2> QED BY <1>1, <1>6, <1>8, <2>1, <2>2 DEF HeardInv, AskTypes
<1>10. ASSUME NEW x \in RequestIds \ {r} PROVE Fate(x)'
  <2>1. \A d \in Callers : Waits(d, x)' => Waits(d, x)
    BY <1>3, <1>4, <1>12 DEF Waits
  <2>2. Fate(x)
    BY DEF HeardInv
  <2>3. Has(pendingAsks', x) => Has(pendingAsks, x)
    BY <1>7
  <2>4. Moving(x)' => Moving(x)
    BY <1>1 DEF Moving
  <2> QED BY <1>1, <1>2, <2>1, <2>2, <2>3, <2>4 DEF Fate
<1>11. Fate(r)'
  <2>1. CASE askCount[r] = 0
    <3>1. ~Has(rec.left, r) /\ moved[r] = 0 /\ r \notin answered /\ \A d \in Callers : ~Waits(d, r)
      BY <2>1 DEF HeardInv, Fate
    <3>2. \A d \in Callers \ {c} : ~Waits(d, r)'
      BY <1>3, <3>1 DEF Waits
    <3>3. ~Moving(r)
      <4> SUFFICES ASSUME Moving(r) PROVE FALSE
        OBVIOUS
      <4>1. rec.left \in Seq(RequestIds) /\ rec.left # << >> /\ Head(rec.left) = r
        BY DEF Moving, HeardInv, AskTypes
      <4>2. 1 \in 1 .. Len(rec.left) /\ rec.left[1] = r
        BY <4>1
      <4> QED BY <3>1, <4>2 DEF Has
    <3>4. ~Moving(r)'
      BY <1>1, <3>3 DEF Moving
    <3>5. askCount'[r] = 1
      BY <1>2, <2>1
    <3> QED BY <1>1, <3>1, <3>2, <3>4, <3>5 DEF Fate
  <2>2. CASE askCount[r] # 0
    <3>1. askCount'[r] # 0 /\ askCount'[r] # 1
      BY <1>2, <2>2 DEF HeardInv, AskTypes
    <3> QED BY <3>1 DEF Fate
  <2> QED BY <2>1, <2>2
<1> QED BY <1>9, <1>10, <1>11 DEF HeardInv

(* The lists of a Head and a Tail.                                           *)
LEMMA TailHas ==
  ASSUME NEW S, NEW list \in Seq(S), list # << >>
  PROVE  /\ Tail(list) \in Seq(S) /\ Head(list) \in S /\ Has(list, Head(list))
         /\ \A x : Has(Tail(list), x) => Has(list, x)
<1>1. Len(list) \in Nat /\ Len(list) # 0 /\ Head(list) = list[1]
  BY EmptySeq, LenProperties
<1>2. /\ Tail(list) \in Seq(S) /\ Head(list) \in S /\ Len(Tail(list)) = Len(list) - 1
      /\ \A i \in 1 .. Len(Tail(list)) : Tail(list)[i] = list[i + 1]
  BY HeadTailProperties
<1>3. Has(list, Head(list))
  BY <1>1 DEF Has
<1>4. ASSUME NEW x, Has(Tail(list), x) PROVE Has(list, x)
  <2>1. PICK i \in 1 .. Len(Tail(list)) : Tail(list)[i] = x
    BY <1>4 DEF Has
  <2>2. i + 1 \in 1 .. Len(list) /\ list[i + 1] = x
    BY <1>1, <1>2, <2>1
  <2> QED BY <2>2 DEF Has
<1> QED BY <1>2, <1>3, <1>4

(* What a step may do to a question that is not asked in it.                 *)
LEMMA FateKept ==
  ASSUME NEW r, Fate(r), askCount'[r] = askCount[r], moved'[r] = moved[r],
         r \in answered' => r \in answered,
         Has(pendingAsks', r) => Has(pendingAsks, r),
         \A c \in Callers : Waits(c, r)' => Waits(c, r),
         Has(rec.left, r)' => Has(rec.left, r) \/ Has(pendingAsks, r),
         Moving(r)' => Moving(r) \/ \A c \in Callers : ~Waits(c, r)
  PROVE  Fate(r)'
BY DEF Fate

(* Steps that leave the questions, the calls and reconcile alone.            *)
LEMMA HeardRest ==
  ASSUME HeardInv, UNCHANGED <<pendingAsks, askCall, rec, askCount, moved, answered>>
  PROVE  HeardInv'
BY DEF HeardInv, AskTypes, NoTwice, Has, Fate, Waits, Moving

LEMMA HeardCall ==
  ASSUME HeardInv, NEW c \in Callers, Asks!InTime(c) \/ Asks!TimesOut(c)
  PROVE  HeardInv'
<1>1. /\ askCall[c].at = "waiting"
      /\ \/ askCall' = [askCall EXCEPT ![c].at = "answering"]
         \/ askCall' = [askCall EXCEPT ![c] = [at |-> "idle", req |-> NoRequest]]
      /\ pendingAsks' = pendingAsks /\ rec' = rec /\ askCount' = askCount /\ moved' = moved /\ answered' = answered
  BY DEF Asks!InTime, Asks!TimesOut, Asks!NoCall, Asks!docVars, Asks!boxVars, Asks!recVars
<1>2. askCall \in [Callers -> [at : {"idle", "waiting", "answering"}, req : RequestIds \cup {NoRequest}]]
  BY DEF HeardInv, AskTypes
<1>3. /\ \A d \in Callers \ {c} : askCall'[d] = askCall[d]
      /\ askCall'[c].at = "idle" \/ askCall'[c].req = askCall[c].req
      /\ askCall' \in [Callers -> [at : {"idle", "waiting", "answering"}, req : RequestIds \cup {NoRequest}]]
  <2>1. CASE askCall' = [askCall EXCEPT ![c].at = "answering"]
    BY <1>2, <2>1
  <2>2. CASE askCall' = [askCall EXCEPT ![c] = [at |-> "idle", req |-> NoRequest]]
    BY <1>2, <2>2
  <2> QED BY <1>1, <2>1, <2>2
<1>4. \A d \in Callers, r \in RequestIds : Waits(d, r)' => Waits(d, r)
  BY <1>1, <1>3 DEF Waits
<1>5. AskTypes'
  <2>1. \A d \in Callers : askCall'[d].at # "idle" => askCall'[d].req \in RequestIds
    BY <1>1, <1>3 DEF HeardInv, AskTypes
  <2> QED BY <1>1, <1>3, <2>1 DEF HeardInv, AskTypes, NoTwice
<1>6. ASSUME NEW r \in RequestIds PROVE Fate(r)'
  <2>1. Fate(r)
    BY DEF HeardInv
  <2>2. Has(pendingAsks', r) = Has(pendingAsks, r) /\ Has(rec'.left, r) = Has(rec.left, r)
        /\ Moving(r)' = Moving(r)
    BY <1>1 DEF Has, Moving
  <2> QED BY <1>1, <1>4, <2>1, <2>2, FateKept DEF Has
<1> QED BY <1>5, <1>6 DEF HeardInv

LEMMA HeardAnswer ==
  ASSUME HeardInv, NEW c \in Callers, NEW r \in RequestIds, r = askCall[c].req, Asks!Answer(c)
  PROVE  HeardInv'
<1>1. /\ askCall[c].at = "answering"
      /\ pendingAsks' = Asks!Without(pendingAsks, r) /\ answered' = answered \cup {r}
      /\ askCall' = [askCall EXCEPT ![c] = [at |-> "idle", req |-> NoRequest]]
      /\ rec' = rec /\ askCount' = askCount /\ moved' = moved
  BY DEF Asks!Answer, Asks!NoCall, Asks!boxVars, Asks!recVars
<1>2. askCall \in [Callers -> [at : {"idle", "waiting", "answering"}, req : RequestIds \cup {NoRequest}]]
  BY DEF HeardInv, AskTypes
<1>3. /\ \A d \in Callers \ {c} : askCall'[d] = askCall[d]
      /\ askCall'[c].at = "idle"
      /\ askCall' \in [Callers -> [at : {"idle", "waiting", "answering"}, req : RequestIds \cup {NoRequest}]]
  BY <1>1, <1>2
<1>4. \A d \in Callers, x \in RequestIds : Waits(d, x)' => Waits(d, x) /\ d # c
  BY <1>3 DEF Waits
<1>5. /\ pendingAsks' \in Seq(RequestIds) /\ NoTwice(pendingAsks')
      /\ \A x : Has(pendingAsks', x) => x # r /\ Has(pendingAsks, x)
  <2>1. pendingAsks \in Seq(RequestIds) /\ NoTwice(pendingAsks)
    BY DEF HeardInv, AskTypes
  <2> QED BY <1>1, <2>1, WithoutIs
<1>6. AskTypes'
  <2>1. \A d \in Callers : askCall'[d].at # "idle" => askCall'[d].req \in RequestIds
    BY <1>3 DEF HeardInv, AskTypes
  <2> QED BY <1>1, <1>3, <1>5, <2>1 DEF HeardInv, AskTypes
<1>7. ASSUME NEW x \in RequestIds \ {r} PROVE Fate(x)'
  <2>1. Fate(x)
    BY DEF HeardInv
  <2>2. Has(rec'.left, x) = Has(rec.left, x) /\ Moving(x)' = Moving(x)
    BY <1>1 DEF Has, Moving
  <2> QED BY <1>1, <1>4, <1>5, <2>1, <2>2, FateKept DEF Has
<1>8. Fate(r)'
  <2>1. Fate(r) /\ Waits(c, r)
    BY <1>1, <1>2 DEF HeardInv, Waits
  <2>2. askCount'[r] # 0
    BY <1>1, <2>1 DEF Fate
  <2>3. ASSUME askCount'[r] = 1
        PROVE  moved'[r] = 0 /\ ~Has(pendingAsks', r) /\ \A d \in Callers : ~Waits(d, r)'
    <3>1. askCount[r] = 1 /\ moved[r] = 0 /\ \A d \in Callers : Waits(d, r) => d = c
      BY <1>1, <2>1, <2>3 DEF Fate
    <3>2. \A d \in Callers : ~Waits(d, r)'
      BY <1>2, <1>4, <3>1
    <3> QED BY <1>1, <1>5, <3>1, <3>2
  <2> QED BY <2>2, <2>3 DEF Fate
<1> QED BY <1>2, <1>6, <1>7, <1>8 DEF HeardInv

(* reconcile() takes its copy, and passes over a question.                   *)
LEMMA HeardPasses ==
  ASSUME HeardInv,
         UNCHANGED <<pendingAsks, askCall, askCount, moved, answered>>,
         rec' \in [at : {"idle", "next", "status", "move"}, left : Seq(RequestIds)],
         rec'.at \in {"status", "move"} => rec'.left # << >>,
         \A r \in RequestIds : Has(rec'.left, r) => Has(rec.left, r) \/ Has(pendingAsks, r),
         \A r \in RequestIds : Moving(r)' => Moving(r) \/ \A c \in Callers : ~Waits(c, r)
  PROVE  HeardInv'
<1>1. AskTypes'
  BY DEF HeardInv, AskTypes, NoTwice
<1>2. ASSUME NEW r \in RequestIds PROVE Fate(r)'
  <2>1. Fate(r)
    BY DEF HeardInv
  <2>2. Has(pendingAsks', r) = Has(pendingAsks, r) /\ \A c \in Callers : Waits(c, r)' = Waits(c, r)
    BY DEF Has, Waits
  <2> QED BY <2>1, <2>2, FateKept DEF Has
<1> QED BY <1>1, <1>2 DEF HeardInv

LEMMA HeardReconcile ==
  ASSUME HeardInv, Asks!ReconcileStart \/ Asks!ReconcileNext \/ Asks!ReconcileStatus
  PROVE  HeardInv'
<1>1. UNCHANGED <<pendingAsks, askCall, askCount, moved, answered>>
  BY DEF Asks!ReconcileStart, Asks!ReconcileNext, Asks!ReconcileStatus, Asks!docVars, Asks!boxVars
<1>2. /\ rec \in [at : {"idle", "next", "status", "move"}, left : Seq(RequestIds)]
      /\ rec.at \in {"status", "move"} => rec.left # << >>
      /\ pendingAsks \in Seq(RequestIds)
  BY DEF HeardInv, AskTypes
<1>3. CASE Asks!ReconcileStart
  <2>1. rec' = [at |-> "next", left |-> pendingAsks]
    BY <1>3 DEF Asks!ReconcileStart
  <2>2. rec'.at = "next" /\ rec'.left = pendingAsks
        /\ rec' \in [at : {"idle", "next", "status", "move"}, left : Seq(RequestIds)]
    BY <1>2, <2>1
  <2> QED BY <1>1, <2>2, HeardPasses DEF Moving
<1>4. ASSUME rec.left # << >>, rec' = Asks!Skip
      PROVE  HeardInv'
  <2>1. /\ Tail(rec.left) \in Seq(RequestIds)
        /\ \A x : Has(Tail(rec.left), x) => Has(rec.left, x)
    BY <1>2, <1>4, TailHas
  <2>2. rec'.at = "next" /\ rec'.left = Tail(rec.left)
        /\ rec' \in [at : {"idle", "next", "status", "move"}, left : Seq(RequestIds)]
    BY <1>4, <2>1 DEF Asks!Skip
  <2> QED BY <1>1, <2>1, <2>2, HeardPasses DEF Moving
<1>5. CASE Asks!ReconcileNext
  <2>1. CASE rec.left = << >>
    <3>1. rec' = [at |-> "idle", left |-> << >>]
      BY <1>5, <2>1 DEF Asks!ReconcileNext, Asks!Idle
    <3>2. rec'.at = "idle" /\ rec'.left = << >> /\ Len(<< >>) = 0
          /\ rec' \in [at : {"idle", "next", "status", "move"}, left : Seq(RequestIds)]
      BY <3>1
    <3> QED BY <1>1, <3>2, HeardPasses DEF Moving, Has
  <2>2. CASE rec.left # << >> /\ Asks!Waiting(Head(rec.left))
    BY <1>4, <1>5, <2>2 DEF Asks!ReconcileNext
  <2>3. CASE rec.left # << >> /\ ~Asks!Waiting(Head(rec.left))
    <3>1. rec' = [rec EXCEPT !.at = "status"]
      BY <1>5, <2>3 DEF Asks!ReconcileNext
    <3>2. rec'.at = "status" /\ rec'.left = rec.left
          /\ rec' \in [at : {"idle", "next", "status", "move"}, left : Seq(RequestIds)]
      BY <1>2, <3>1
    <3>3. \A c \in Callers : ~Waits(c, Head(rec.left))
      BY <2>3 DEF Asks!Waiting, Waits
    <3>4. \A r \in RequestIds : Moving(r)' => \A c \in Callers : ~Waits(c, r)
      BY <3>2, <3>3 DEF Moving
    <3> QED BY <1>1, <2>3, <3>2, <3>4, HeardPasses DEF Has
  <2> QED BY <2>1, <2>2, <2>3
<1>6. CASE Asks!ReconcileStatus
  <2>1. rec.at = "status" /\ rec.left # << >> /\ (rec' = [rec EXCEPT !.at = "move"] \/ rec' = Asks!Skip)
    BY <1>2, <1>6 DEF Asks!ReconcileStatus
  <2>2. CASE rec' = [rec EXCEPT !.at = "move"]
    <3>1. rec'.at = "move" /\ rec'.left = rec.left
          /\ rec' \in [at : {"idle", "next", "status", "move"}, left : Seq(RequestIds)]
      BY <1>2, <2>2
    <3>2. \A r \in RequestIds : Moving(r)' => Moving(r)
      BY <2>1, <3>1 DEF Moving
    <3> QED BY <1>1, <2>1, <3>1, <3>2, HeardPasses DEF Has
  <2> QED BY <1>4, <2>1, <2>2
<1> QED BY <1>3, <1>5, <1>6

LEMMA HeardMove == ASSUME HeardInv, Asks!ReconcileMove PROVE HeardInv'
<1> DEFINE h == Head(rec.left)
<1>1. /\ rec.at = "move" /\ rec' = Asks!Skip
      /\ askCall' = askCall /\ askCount' = askCount /\ answered' = answered
      /\ \/ pendingAsks' = pendingAsks /\ moved' = moved
         \/ /\ h \in Asks!Range(pendingAsks)
            /\ pendingAsks' = Asks!Without(pendingAsks, h)
            /\ moved' = [moved EXCEPT ![h] = @ + 1]
  BY DEF Asks!ReconcileMove, Asks!docVars
<1>2. /\ rec \in [at : {"idle", "next", "status", "move"}, left : Seq(RequestIds)] /\ rec.left # << >>
      /\ pendingAsks \in Seq(RequestIds) /\ NoTwice(pendingAsks) /\ moved \in [RequestIds -> Nat]
  BY <1>1 DEF HeardInv, AskTypes
<1>3. /\ Tail(rec.left) \in Seq(RequestIds) /\ h \in RequestIds
      /\ \A x : Has(Tail(rec.left), x) => Has(rec.left, x)
      /\ Has(rec.left, h)
  BY <1>2, TailHas
<1>4. rec'.at = "next" /\ rec'.left = Tail(rec.left)
      /\ rec' \in [at : {"idle", "next", "status", "move"}, left : Seq(RequestIds)]
  BY <1>1, <1>3 DEF Asks!Skip
<1>5. PICK r \in RequestIds : r = h
  BY <1>3
<1>6. CASE pendingAsks' = pendingAsks /\ moved' = moved
  BY <1>1, <1>3, <1>4, <1>6, HeardPasses DEF Moving
<1>7. CASE /\ h \in Asks!Range(pendingAsks) /\ pendingAsks' = Asks!Without(pendingAsks, h)
           /\ moved' = [moved EXCEPT ![h] = @ + 1]
  <2>1. /\ pendingAsks' \in Seq(RequestIds) /\ NoTwice(pendingAsks')
        /\ \A x : Has(pendingAsks', x) => x # r /\ Has(pendingAsks, x)
    BY <1>2, <1>5, <1>7, WithoutIs
  <2>2. moved' \in [RequestIds -> Nat] /\ \A x \in RequestIds \ {r} : moved'[x] = moved[x]
    BY <1>2, <1>5, <1>7
  <2>3. AskTypes'
    BY <1>1, <1>4, <2>1, <2>2 DEF HeardInv, AskTypes
  <2>4. Has(pendingAsks, r) /\ Moving(r) /\ Has(rec.left, r)
    <3>1. DOMAIN pendingAsks = 1 .. Len(pendingAsks)
      BY <1>2
    <3> QED BY <1>1, <1>3, <1>5, <1>7, <3>1 DEF Has, Asks!Range, Moving
  <2>5. ASSUME NEW x \in RequestIds \ {r} PROVE Fate(x)'
    <3>1. Fate(x)
      BY DEF HeardInv
    <3>2. \A c \in Callers : Waits(c, x)' => Waits(c, x)
      BY <1>1 DEF Waits
    <3>3. ~Moving(x)' /\ (Has(rec.left, x)' => Has(rec.left, x))
      BY <1>3, <1>4 DEF Moving, Has
    <3> QED BY <1>1, <2>1, <2>2, <3>1, <3>2, <3>3, FateKept DEF Has
  <2>6. Fate(r)'
    <3>1. Fate(r)
      BY DEF HeardInv
    <3>2. askCount'[r] # 0
      BY <1>1, <2>4, <3>1 DEF Fate
    <3>3. ASSUME askCount'[r] = 1 PROVE r \notin answered' /\ \A c \in Callers : ~Waits(c, r)'
      <4>1. r \notin answered /\ \A c \in Callers : ~Waits(c, r)
        BY <1>1, <2>4, <3>1, <3>3 DEF Fate
      <4> QED BY <1>1, <4>1 DEF Waits
    <3> QED BY <3>2, <3>3 DEF Fate
  <2> QED BY <2>3, <2>5, <2>6 DEF HeardInv
<1> QED BY <1>1, <1>6, <1>7

LEMMA HeardRestart == ASSUME HeardInv, Asks!Restart PROVE HeardInv'
<1>1. /\ askCall' = [c \in Callers |-> [at |-> "idle", req |-> NoRequest]]
      /\ rec' = [at |-> "idle", left |-> << >>]
      /\ UNCHANGED <<pendingAsks, askCount, moved, answered>>
  BY DEF Asks!Restart, Asks!NoCall, Asks!Idle, Asks!docVars, Asks!boxVars
<1>2. AskTypes'
  <2>1. askCall' \in [Callers -> [at : {"idle", "waiting", "answering"}, req : RequestIds \cup {NoRequest}]]
        /\ \A c \in Callers : askCall'[c].at = "idle"
    BY <1>1
  <2>2. rec' \in [at : {"idle", "next", "status", "move"}, left : Seq(RequestIds)] /\ rec'.at = "idle"
    BY <1>1
  <2> QED BY <1>1, <2>1, <2>2 DEF HeardInv, AskTypes, NoTwice
<1>3. ASSUME NEW r \in RequestIds PROVE Fate(r)'
  <2>1. \A c \in Callers : ~Waits(c, r)'
    BY <1>1 DEF Waits
  <2>2. ~Moving(r)' /\ ~Has(rec'.left, r)
    <3>1. rec'.at = "idle" /\ rec'.left = << >> /\ Len(rec'.left) = 0
      BY <1>1
    <3> QED BY <3>1 DEF Moving, Has
  <2>3. Fate(r)
    BY DEF HeardInv
  <2> QED BY <1>1, <2>1, <2>2, <2>3, FateKept DEF Has
<1> QED BY <1>2, <1>3 DEF HeardInv

LEMMA HeardStep == ASSUME HeardInv, [Asks!Next]_(Asks!vars) PROVE HeardInv'
<1>1. CASE UNCHANGED Asks!vars
  BY <1>1, HeardRest DEF Asks!vars, Asks!docVars, Asks!boxVars, Asks!recVars
<1>2. ASSUME NEW c \in Callers, NEW r \in RequestIds, Asks!Ask(c, r) PROVE HeardInv'
  BY <1>2, HeardAsk
<1>3. ASSUME NEW c \in Callers, Asks!CallStep(c) PROVE HeardInv'
  <2>1. CASE Asks!InTime(c) \/ Asks!TimesOut(c)
    BY <2>1, HeardCall
  <2>2. CASE Asks!Answer(c)
    <3>1. askCall[c].at # "idle"
      BY <2>2 DEF Asks!Answer
    <3>2. PICK r \in RequestIds : r = askCall[c].req
      BY <3>1 DEF HeardInv, AskTypes
    <3> QED BY <2>2, <3>2, HeardAnswer
  <2> QED BY <1>3, <2>1, <2>2 DEF Asks!CallStep
<1>4. ASSUME NEW r \in RequestIds,
             Asks!FollowFires(r) \/ (\E o \in {"done", "unanswered"} : Asks!Settle(r, o))
      PROVE  HeardInv'
  BY <1>4, HeardRest DEF Asks!FollowFires, Asks!Settle, Asks!docVars, Asks!boxVars, Asks!recVars
<1>5. CASE Asks!ReadOutbox \/ Asks!Ready
  BY <1>5, HeardRest DEF Asks!ReadOutbox, Asks!Ready, Asks!docVars, Asks!boxVars
<1>6. CASE (\E pinned \in BOOLEAN : Asks!Notify(pinned)) \/ Asks!TagsLapse
  BY <1>6, HeardRest DEF Asks!Notify, Asks!TagsLapse, Asks!docVars, Asks!recVars
<1>7. CASE Asks!Reconcile
  BY <1>7, HeardReconcile, HeardMove DEF Asks!Reconcile
<1>8. CASE Asks!Restart
  BY <1>8, HeardRestart
<1> QED BY <1>1, <1>2, <1>3, <1>4, <1>5, <1>6, <1>7, <1>8 DEF Asks!Next

(* A question asked once is heard once: its answer is returned to the call   *)
(* that waits for it or moved to the outbox, whatever times out, reconciles  *)
(* or restarts in between (overseer.mjs, askOnce and reconcileOnce).         *)
THEOREM AnswersHeard == Asks!Spec => []Asks!HeardOnce
<1>1. HeardInv => Asks!HeardOnce
  <2> SUFFICES ASSUME HeardInv, NEW r \in answered, askCount[r] = 1 PROVE moved[r] = 0
    BY DEF Asks!HeardOnce
  <2>1. Fate(r)
    BY DEF HeardInv, AskTypes
  <2> QED BY <2>1 DEF Fate
<1> QED BY <1>1, HeardInit, HeardStep, PTL DEF Asks!Spec

(* What was moved is noted as done and is not pending.                       *)
Remembered(r) == moved[r] = 0 \/ (moved[r] = 1 /\ Has(doneAsks, r) /\ ~Has(pendingAsks, r))

(* Room for every question in the lists of those that are done.              *)
RoomForAll == IsFiniteSet(RequestIds) /\ DoneKeep \in Nat /\ Cardinality(RequestIds) <= DoneKeep

MovedInv ==
  /\ pendingAsks \in Seq(RequestIds) /\ NoTwice(pendingAsks)
  /\ doneAsks \in Seq(RequestIds) /\ NoTwice(doneAsks)
  /\ moved \in [RequestIds -> Nat]
  /\ \A r \in RequestIds : Remembered(r)

(* A list without repetitions is no longer than there are questions.         *)
LEMMA NoLonger ==
  ASSUME RoomForAll, NEW list \in Seq(RequestIds), NoTwice(list)
  PROVE  Len(list) <= DoneKeep
<1> DEFINE f == [i \in 1 .. Len(list) |-> list[i]]
<1>1. Len(list) \in Nat /\ f \in Injection(1 .. Len(list), RequestIds)
  <2>1. Len(list) \in Nat /\ f \in [1 .. Len(list) -> RequestIds]
    OBVIOUS
  <2>2. \A i, j \in 1 .. Len(list) : f[i] = f[j] => i = j
    BY DEF NoTwice
  <2> HIDE DEF f
  <2> QED BY <2>1, <2>2 DEF Injection, IsInjective
<1>2. Cardinality(1 .. Len(list)) <= Cardinality(RequestIds)
  BY <1>1, FS_Injection DEF RoomForAll
<1>3. Cardinality(1 .. Len(list)) = Len(list)
  <2>1. 1 \in Int /\ Len(list) \in Int /\ (IF 1 > Len(list) THEN 0 ELSE (Len(list) - 1) + 1) = Len(list)
    BY <1>1
  <2>2. Cardinality(1 .. Len(list)) = IF 1 > Len(list) THEN 0 ELSE (Len(list) - 1) + 1
    BY <2>1, FS_Interval
  <2> QED BY <2>1, <2>2
<1>4. Cardinality(RequestIds) \in Nat
  BY FS_CardinalityType DEF RoomForAll
<1> QED BY <1>1, <1>2, <1>3, <1>4 DEF RoomForAll

(* A list with one more element that it had not.                             *)
LEMMA AppendIs ==
  ASSUME NEW S, NEW list \in Seq(S), NEW r \in S, NoTwice(list), ~Has(list, r)
  PROVE  /\ Append(list, r) \in Seq(S) /\ NoTwice(Append(list, r))
         /\ \A x : Has(Append(list, r), x) <=> x = r \/ Has(list, x)
<1> DEFINE a == Append(list, r)
<1>1. Len(list) \in Nat /\ a \in Seq(S) /\ Len(a) = Len(list) + 1 /\ a[Len(list) + 1] = r
      /\ \A i \in 1 .. Len(list) : a[i] = list[i]
  OBVIOUS
<1> HIDE DEF a
<1>2. \A i \in 1 .. Len(a) : i \in 1 .. Len(list) \/ i = Len(list) + 1
  BY <1>1
<1>3. \A i \in 1 .. Len(list) : i \in 1 .. Len(a) /\ a[i] # r
  BY <1>1 DEF Has
<1>4. NoTwice(a)
  BY <1>1, <1>2, <1>3 DEF NoTwice
<1>5. Len(list) + 1 \in 1 .. Len(a)
  BY <1>1
<1>6. \A x : Has(a, x) <=> x = r \/ Has(list, x)
  BY <1>1, <1>2, <1>3, <1>5 DEF Has
<1> QED BY <1>1, <1>4, <1>6 DEF a

(* noteDone forgets nothing while there is room for all.                     *)
LEMMA NotedIs ==
  ASSUME RoomForAll, NEW list \in Seq(RequestIds), NEW r \in RequestIds, NoTwice(list)
  PROVE  /\ Asks!Noted(list, r) \in Seq(RequestIds) /\ NoTwice(Asks!Noted(list, r))
         /\ \A x : Has(Asks!Noted(list, r), x) <=> x = r \/ Has(list, x)
<1> DEFINE all == IF r \in Asks!Range(list) THEN list ELSE Append(list, r)
<1>1. r \in Asks!Range(list) <=> Has(list, r)
  <2>1. DOMAIN list = 1 .. Len(list)
    OBVIOUS
  <2> QED BY <2>1 DEF Asks!Range, Has
<1>2. /\ all \in Seq(RequestIds) /\ NoTwice(all)
      /\ \A x : Has(all, x) <=> x = r \/ Has(list, x)
  <2>1. CASE Has(list, r)
    BY <1>1, <2>1
  <2>2. CASE ~Has(list, r)
    BY <1>1, <2>2, AppendIs
  <2> QED BY <2>1, <2>2
<1>3. Asks!Noted(list, r) = SubSeq(all, IF Len(all) > DoneKeep THEN (Len(all) - DoneKeep) + 1 ELSE 1, Len(all))
  BY DEF Asks!Noted
<1> HIDE DEF all
<1>4. Len(all) \in Nat /\ Len(all) <= DoneKeep /\ DoneKeep \in Nat
  BY <1>2, NoLonger DEF RoomForAll
<1>5. Asks!Noted(list, r) = SubSeq(all, 1, Len(all))
  <2>1. (IF Len(all) > DoneKeep THEN (Len(all) - DoneKeep) + 1 ELSE 1) = 1
    BY <1>4
  <2> QED BY <1>3, <2>1
<1>6. SubSeq(all, 1, Len(all)) = all
  BY <1>2, <1>4
<1> QED BY <1>2, <1>5, <1>6

LEMMA MovedInit == Asks!Init => MovedInv
<1> SUFFICES ASSUME Asks!Init PROVE MovedInv
  OBVIOUS
<1>1. pendingAsks = << >> /\ doneAsks = << >> /\ Len(<< >>) = 0 /\ << >> \in Seq(RequestIds)
      /\ moved = [r \in RequestIds |-> 0]
  BY DEF Asks!Init
<1> QED BY <1>1 DEF MovedInv, NoTwice, Remembered

LEMMA MovedStep ==
  ASSUME RoomForAll, HeardInv, MovedInv, [Asks!Next]_(Asks!vars)
  PROVE  MovedInv'
<1>1. ASSUME UNCHANGED <<pendingAsks, doneAsks, moved>> PROVE MovedInv'
  BY <1>1 DEF MovedInv, Remembered, Has, NoTwice
<1>2. \A r : /\ r \in Asks!Range(pendingAsks) <=> Has(pendingAsks, r)
             /\ r \in Asks!Range(doneAsks) <=> Has(doneAsks, r)
  <2>1. DOMAIN pendingAsks = 1 .. Len(pendingAsks) /\ DOMAIN doneAsks = 1 .. Len(doneAsks)
    BY DEF MovedInv
  <2> QED BY <2>1 DEF Asks!Range, Has
<1>3. ASSUME NEW c \in Callers, NEW r \in RequestIds, Asks!Ask(c, r) PROVE MovedInv'
  <2>1. doneAsks' = doneAsks /\ moved' = moved
    BY <1>3 DEF Asks!Ask, Asks!boxVars
  <2>2. CASE Has(pendingAsks, r) \/ Has(doneAsks, r)
    <3>1. pendingAsks' = pendingAsks
      BY <1>2, <1>3, <2>2 DEF Asks!Ask, Asks!PendingWith
    <3> QED BY <1>1, <2>1, <3>1
  <2>3. CASE ~Has(pendingAsks, r) /\ ~Has(doneAsks, r)
    <3>1. pendingAsks' = Append(pendingAsks, r)
      BY <1>2, <1>3, <2>3 DEF Asks!Ask, Asks!PendingWith
    <3>2. /\ pendingAsks' \in Seq(RequestIds) /\ NoTwice(pendingAsks')
          /\ \A x : Has(pendingAsks', x) <=> x = r \/ Has(pendingAsks, x)
      BY <2>3, <3>1, AppendIs DEF MovedInv
    <3>3. ASSUME NEW x \in RequestIds PROVE Remembered(x)'
      <4>1. Remembered(x) /\ (Has(doneAsks, x) => x # r)
        BY <2>3 DEF MovedInv
      <4> QED BY <2>1, <3>2, <4>1 DEF Remembered, Has
    <3> QED BY <2>1, <3>2, <3>3 DEF MovedInv, NoTwice
  <2> QED BY <2>2, <2>3
<1>4. ASSUME NEW r \in RequestIds, pendingAsks' = Asks!Without(pendingAsks, r),
             \/ doneAsks' = doneAsks /\ moved' = moved
             \/ doneAsks' = Asks!Noted(doneAsks, r) /\ moved' = moved
             \/ doneAsks' = Asks!Noted(doneAsks, r) /\ Has(pendingAsks, r) /\ moved' = [moved EXCEPT ![r] = @ + 1]
      PROVE  MovedInv'
  <2>1. /\ pendingAsks' \in Seq(RequestIds) /\ NoTwice(pendingAsks')
        /\ \A x : Has(pendingAsks', x) => x # r /\ Has(pendingAsks, x)
    BY <1>4, WithoutIs DEF MovedInv
  <2>2. /\ doneAsks' \in Seq(RequestIds) /\ NoTwice(doneAsks')
        /\ \A x : Has(doneAsks, x) => Has(doneAsks', x)
        /\ doneAsks' = Asks!Noted(doneAsks, r) => Has(doneAsks', r)
    <3>1. CASE doneAsks' = Asks!Noted(doneAsks, r)
      BY <3>1, NotedIs DEF MovedInv
    <3>2. CASE doneAsks' = doneAsks /\ doneAsks' # Asks!Noted(doneAsks, r)
      BY <3>2 DEF MovedInv
    <3> QED BY <1>4, <3>1, <3>2
  <2>3. moved' \in [RequestIds -> Nat] /\ \A x \in RequestIds \ {r} : moved'[x] = moved[x]
    BY <1>4 DEF MovedInv
  <2>4. ASSUME NEW x \in RequestIds \ {r} PROVE Remembered(x)'
    <3>1. Remembered(x)
      BY DEF MovedInv
    <3> QED BY <2>1, <2>2, <2>3, <3>1 DEF Remembered
  <2>5. Remembered(r)'
    <3>1. Remembered(r) /\ moved[r] \in Nat
      BY DEF MovedInv
    <3>2. CASE moved' = moved
      BY <2>1, <2>2, <3>1, <3>2 DEF Remembered
    <3>3. CASE doneAsks' = Asks!Noted(doneAsks, r) /\ Has(pendingAsks, r) /\ moved' = [moved EXCEPT ![r] = @ + 1]
      <4>1. moved[r] = 0
        BY <3>1, <3>3 DEF Remembered
      <4>2. moved'[r] = 1
        BY <3>3, <4>1 DEF MovedInv
      <4> QED BY <2>1, <2>2, <3>3, <4>2 DEF Remembered
    <3> QED BY <1>4, <3>2, <3>3
  <2> QED BY <2>1, <2>2, <2>3, <2>4, <2>5 DEF MovedInv
<1>5. ASSUME NEW c \in Callers, Asks!CallStep(c) PROVE MovedInv'
  <2>1. CASE Asks!InTime(c) \/ Asks!TimesOut(c)
    BY <1>1, <2>1 DEF Asks!InTime, Asks!TimesOut, Asks!docVars, Asks!boxVars
  <2>2. CASE Asks!Answer(c)
    <3>1. askCall[c].at # "idle"
      BY <2>2 DEF Asks!Answer
    <3>2. PICK r \in RequestIds : r = askCall[c].req
      BY <3>1 DEF HeardInv, AskTypes
    <3>3. pendingAsks' = Asks!Without(pendingAsks, r) /\ moved' = moved
          /\ (doneAsks' = doneAsks \/ doneAsks' = Asks!Noted(doneAsks, r))
      BY <2>2, <3>2 DEF Asks!Answer, Asks!boxVars
    <3> QED BY <1>4, <3>3
  <2> QED BY <1>5, <2>1, <2>2 DEF Asks!CallStep
<1>6. CASE Asks!ReconcileMove
  <2>1. rec.at = "move" /\ rec.left \in Seq(RequestIds) /\ rec.left # << >>
    BY <1>6 DEF Asks!ReconcileMove, HeardInv, AskTypes
  <2>2. PICK r \in RequestIds : r = Head(rec.left)
    BY <2>1, TailHas
  <2>3. CASE Has(pendingAsks, r)
    <3>1. /\ pendingAsks' = Asks!Without(pendingAsks, r) /\ doneAsks' = Asks!Noted(doneAsks, r)
          /\ moved' = [moved EXCEPT ![r] = @ + 1]
      BY <1>2, <1>6, <2>2, <2>3 DEF Asks!ReconcileMove
    <3> QED BY <1>4, <2>3, <3>1
  <2>4. CASE ~Has(pendingAsks, r)
    <3>1. UNCHANGED <<pendingAsks, doneAsks, moved>>
      BY <1>2, <1>6, <2>2, <2>4 DEF Asks!ReconcileMove, Asks!docVars
    <3> QED BY <1>1, <3>1
  <2> QED BY <2>3, <2>4
<1>7. CASE UNCHANGED Asks!vars
  BY <1>1, <1>7 DEF Asks!vars, Asks!docVars, Asks!boxVars
<1>8. ASSUME NEW r \in RequestIds,
             Asks!FollowFires(r) \/ (\E o \in {"done", "unanswered"} : Asks!Settle(r, o))
      PROVE  MovedInv'
  BY <1>1, <1>8 DEF Asks!FollowFires, Asks!Settle, Asks!docVars, Asks!boxVars
<1>9. CASE Asks!ReadOutbox \/ Asks!Ready \/ Asks!Restart
  BY <1>1, <1>9 DEF Asks!ReadOutbox, Asks!Ready, Asks!Restart, Asks!docVars, Asks!boxVars
<1>10. CASE (\E pinned \in BOOLEAN : Asks!Notify(pinned)) \/ Asks!TagsLapse
  BY <1>1, <1>10 DEF Asks!Notify, Asks!TagsLapse, Asks!docVars
<1>11. CASE Asks!ReconcileStart \/ Asks!ReconcileNext \/ Asks!ReconcileStatus
  BY <1>1, <1>11 DEF Asks!ReconcileStart, Asks!ReconcileNext, Asks!ReconcileStatus, Asks!docVars, Asks!boxVars
<1> QED BY <1>3, <1>5, <1>6, <1>7, <1>8, <1>9, <1>10, <1>11 DEF Asks!Next, Asks!Reconcile

(* A late answer is pushed into the outbox once, also when its question is   *)
(* retried, reconciled again or met by a restart, as long as the document    *)
(* remembers every question that is done (ASKS_DONE_KEEP).                   *)
THEOREM PushedOnce == RoomForAll => (Asks!Spec => []Asks!OutboxOnce)
<1> SUFFICES ASSUME RoomForAll PROVE Asks!Spec => []Asks!OutboxOnce
  OBVIOUS
<1>1. Asks!Init => HeardInv /\ MovedInv
  BY HeardInit, MovedInit
<1>2. HeardInv /\ MovedInv /\ [Asks!Next]_(Asks!vars) => HeardInv' /\ MovedInv'
  BY HeardStep, MovedStep
<1>3. MovedInv => Asks!OutboxOnce
  BY DEF MovedInv, Remembered, Asks!OutboxOnce
<1> QED BY <1>1, <1>2, <1>3, PTL DEF Asks!Spec

-----------------------------------------------------------------------------
CONSTANTS Messages, Texts, Window, MaxWatches, Misses, Quiet, MaxAnswers, Past, Drivers, Mishaps
VARIABLES driver, items, turn, mailbox, msg, watches, replied

Rep == INSTANCE OverseerReplies WITH inbox <- mailbox, outbox <- replied, Happens <- Mishaps

-----------------------------------------------------------------------------
(* The replies to confirmed messages.                                        *)
RepliesAssumption == MaxWatches \in Nat /\ Window \in Nat /\ Quiet \in Nat /\ Past \subseteq Nat /\ Texts # {}

WatchType == [msg : Messages, base : Seq(Rep!Item), last : Seq(Rep!Item), quiet : Nat, busy : BOOLEAN,
              missed : Nat, read : {"none", "unknown", "idle", "busy", "waiting"}]
ReplyType == [msg : Messages, kind : {"waiting", "replied", "finished"}, quote : Nat]
NoteType == [at : {"new", "noted", "unnoted", "sent", "unwatched", "failed", "watched", "dropped",
                   "abandoned", "reported"},
             fp : Seq(Rep!Item), len : Nat]

RepliesTypes ==
  /\ items \in Seq(Rep!Item) /\ turn \in {"idle", "busy", "waiting"}
  /\ msg \in [Messages -> NoteType]
  /\ watches \in Seq(WatchType) /\ Len(watches) <= MaxWatches
  /\ replied \in Seq(ReplyType)

(* A watch is the one of its message, which is watched; a message in the     *)
(* outbox has been reported and is there once.                               *)
WatchedOnce ==
  /\ \A i \in DOMAIN watches : msg[watches[i].msg].at = "watched"
  /\ \A i, j \in DOMAIN watches : watches[i].msg = watches[j].msg => i = j

(* The history only grows, and while it is as long as at the baseline it     *)
(* shows what the baseline shows.                                            *)
AsNoted(m) == msg[m].len <= Len(items) /\ (Len(items) = msg[m].len => Rep!Shown(items) = msg[m].fp)
BaselineKept ==
  /\ \A m \in Messages : msg[m].at \in {"noted", "sent", "watched"} => AsNoted(m)
  /\ \A i \in DOMAIN watches : watches[i].base = msg[watches[i].msg].fp

RepliesInv == RepliesTypes /\ WatchedOnce /\ BaselineKept /\ Rep!ReplyOnce /\ Rep!ReplyIsNew

(* What a snapshot shows are items of the history.                           *)
LEMMA ShownType ==
  ASSUME RepliesAssumption, NEW h \in Seq(Rep!Item)
  PROVE  Rep!Shown(h) \in Seq(Rep!Item)
<1>1. Len(h) \in Nat /\ Window \in Nat
  BY DEF RepliesAssumption
<1> DEFINE first == IF Len(h) > Window THEN Len(h) - Window + 1 ELSE 1
<1>2. first \in 1 .. Len(h) + 1 /\ Len(h) \in first - 1 .. Len(h)
  BY <1>1
<1> HIDE DEF first
<1>3. SubSeq(h, first, Len(h)) \in Seq(Rep!Item)
  BY <1>2, SubSeqProperties
<1> QED BY <1>3 DEF first, Rep!Shown

(* A sequence without its element at i.                                      *)
LEMMA RemovedAt ==
  ASSUME NEW S, NEW s \in Seq(S), NEW i \in DOMAIN s
  PROVE  /\ Rep!RemoveAt(s, i) \in Seq(S)
         /\ Len(Rep!RemoveAt(s, i)) = Len(s) - 1
         /\ \A j \in 1 .. Len(s) - 1 : Rep!RemoveAt(s, i)[j] = s[IF j < i THEN j ELSE j + 1]
<1>1. Len(s) \in Nat /\ i \in 1 .. Len(s)
  OBVIOUS
<1> DEFINE a == SubSeq(s, 1, i - 1)
           b == SubSeq(s, i + 1, Len(s))
<1>2. a \in Seq(S) /\ Len(a) = i - 1 /\ \A j \in 1 .. i - 1 : a[j] = s[j]
  BY <1>1
<1>3. b \in Seq(S) /\ Len(b) = Len(s) - i /\ \A j \in 1 .. Len(s) - i : b[j] = s[i + j]
  BY <1>1
<1>4. Rep!RemoveAt(s, i) = a \o b
  BY DEF Rep!RemoveAt
<1> HIDE DEF a, b
<1>5. a \o b \in Seq(S) /\ Len(a \o b) = Len(s) - 1
      /\ \A j \in 1 .. Len(s) - 1 : (a \o b)[j] = IF j < i THEN a[j] ELSE b[j - (i - 1)]
  <2>1. /\ a \o b \in Seq(S) /\ Len(a \o b) = Len(a) + Len(b)
        /\ \A j \in 1 .. Len(a) + Len(b) : (a \o b)[j] = IF j <= Len(a) THEN a[j] ELSE b[j - Len(a)]
    BY <1>2, <1>3, ConcatProperties
  <2>2. Len(a) + Len(b) = Len(s) - 1
    BY <1>1, <1>2, <1>3
  <2>3. \A j \in 1 .. Len(s) - 1 : j <= Len(a) <=> j < i
    BY <1>1, <1>2
  <2> QED BY <1>2, <2>1, <2>2, <2>3
<1>6. ASSUME NEW j \in 1 .. Len(s) - 1 PROVE (a \o b)[j] = s[IF j < i THEN j ELSE j + 1]
  <2>1. CASE j < i
    BY <1>1, <1>2, <1>5, <2>1
  <2>2. CASE ~(j < i)
    <3>1. j - (i - 1) \in 1 .. Len(s) - i /\ i + (j - (i - 1)) = j + 1
      BY <1>1, <2>2
    <3> QED BY <1>3, <1>5, <2>2, <3>1
  <2> QED BY <2>1, <2>2
<1> QED BY <1>4, <1>5, <1>6

(* The others keep their order, each at a place of its own.                  *)
Others(S, s, i, r) ==
  /\ r \in Seq(S) /\ Len(r) <= Len(s)
  /\ \E of : \A j \in DOMAIN r :
       /\ of[j] \in DOMAIN s /\ of[j] # i /\ r[j] = s[of[j]]
       /\ \A k \in DOMAIN r : of[j] = of[k] => j = k

LEMMA OthersStay ==
  ASSUME NEW S, NEW s \in Seq(S), NEW i \in DOMAIN s
  PROVE  Others(S, s, i, Rep!RemoveAt(s, i))
<1> DEFINE r == Rep!RemoveAt(s, i)
           of == [j \in 1 .. Len(s) - 1 |-> IF j < i THEN j ELSE j + 1]
<1>1. /\ r \in Seq(S) /\ Len(r) = Len(s) - 1
      /\ \A j \in 1 .. Len(s) - 1 : r[j] = s[IF j < i THEN j ELSE j + 1]
  BY RemovedAt
<1> HIDE DEF r
<1>2. Len(s) \in Nat /\ DOMAIN s = 1 .. Len(s) /\ i \in 1 .. Len(s)
  OBVIOUS
<1>3. DOMAIN r = 1 .. Len(s) - 1
  BY <1>1, <1>2
<1>4. \A j \in 1 .. Len(s) - 1 : of[j] \in 1 .. Len(s) /\ of[j] # i /\ r[j] = s[of[j]]
  BY <1>1, <1>2
<1>5. \A j, k \in 1 .. Len(s) - 1 : of[j] = of[k] => j = k
  BY <1>2
<1> HIDE DEF of
<1>6. \A j \in DOMAIN r : /\ of[j] \in DOMAIN s /\ of[j] # i /\ r[j] = s[of[j]]
                         /\ \A k \in DOMAIN r : of[j] = of[k] => j = k
  BY <1>2, <1>3, <1>4, <1>5
<1>7. r \in Seq(S) /\ Len(r) <= Len(s)
  BY <1>1, <1>2
<1> QED BY <1>6, <1>7, Zenon DEF r, Others

(* What is known of each watch and of each reply.                            *)
LEMMA EachReply ==
  ASSUME RepliesInv
  PROVE  /\ \A i \in DOMAIN watches : /\ watches[i] \in WatchType /\ watches[i].msg \in Messages
                                      /\ msg[watches[i].msg].at = "watched"
         /\ \A j \in DOMAIN replied : /\ replied[j] \in ReplyType /\ replied[j].msg \in Messages
                                  /\ msg[replied[j].msg].at = "reported"
<1>1. \A i \in DOMAIN watches : watches[i] \in WatchType
  BY DEF RepliesInv, RepliesTypes
<1>2. \A j \in DOMAIN replied : replied[j] \in ReplyType
  BY DEF RepliesInv, RepliesTypes
<1>3. \A x \in WatchType : x.msg \in Messages
  BY DEF WatchType
<1>4. \A x \in ReplyType : x.msg \in Messages
  BY DEF ReplyType
<1> QED BY <1>1, <1>2, <1>3, <1>4 DEF RepliesInv, WatchedOnce, Rep!ReplyOnce

LEMMA RepliesInit == ASSUME RepliesAssumption, Rep!Init PROVE RepliesInv
<1>1. PICK n \in Past :
        items = [i \in 1 .. 2 * n |-> IF i % 2 = 1 THEN Rep!Asked
                                      ELSE [Rep!Asked EXCEPT !.role = "assistant", !.text = CHOOSE t \in Texts : TRUE]]
  BY DEF Rep!Init
<1>2. 2 * n \in Nat
  BY DEF RepliesAssumption
<1>3. /\ Rep!Asked \in Rep!Item
      /\ [Rep!Asked EXCEPT !.role = "assistant", !.text = CHOOSE t \in Texts : TRUE] \in Rep!Item
  BY DEF RepliesAssumption, Rep!Asked, Rep!Item
<1>4. items \in Seq(Rep!Item)
  <2> DEFINE k == 2 * n
  <2>1. k \in Nat /\ DOMAIN items = 1 .. k
    BY <1>1, <1>2
  <2>2. items \in [1 .. k -> Rep!Item]
    BY <1>1, <1>3, Zenon
  <2> HIDE DEF k
  <2> QED BY <2>1, <2>2
<1>5. Rep!NewMessage \in NoteType /\ Rep!NewMessage.at = "new"
  <2>1. << >> \in Seq(Rep!Item)
    OBVIOUS
  <2> QED BY <2>1 DEF Rep!NewMessage, NoteType
<1>6. msg \in [Messages -> NoteType] /\ \A m \in Messages : msg[m].at = "new"
  BY <1>5 DEF Rep!Init
<1>7. watches = << >> /\ replied = << >> /\ turn = "idle"
  BY DEF Rep!Init
<1>8. << >> \in Seq(WatchType) /\ << >> \in Seq(ReplyType) /\ Len(<< >>) = 0 /\ DOMAIN << >> = {}
  OBVIOUS
<1>9. RepliesTypes
  BY <1>4, <1>6, <1>7, <1>8 DEF RepliesTypes, RepliesAssumption
<1> QED BY <1>6, <1>7, <1>8, <1>9 DEF RepliesInv, WatchedOnce, BaselineKept, Rep!ReplyOnce, Rep!ReplyIsNew

(* A watch goes on, with its message and its baseline.                       *)
LEMMA WatchGoesOn ==
  ASSUME RepliesInv, NEW i \in DOMAIN watches, NEW w \in WatchType,
         w.msg = watches[i].msg, w.base = watches[i].base,
         watches' = [watches EXCEPT ![i] = w], UNCHANGED <<items, turn, msg, replied>>
  PROVE  RepliesInv'
<1>1. /\ watches' \in Seq(WatchType) /\ Len(watches') = Len(watches) /\ DOMAIN watches' = DOMAIN watches
      /\ \A j \in DOMAIN watches : watches'[j].msg = watches[j].msg /\ watches'[j].base = watches[j].base
  BY DEF RepliesInv, RepliesTypes
<1>2. RepliesTypes'
  BY <1>1 DEF RepliesInv, RepliesTypes
<1>3. WatchedOnce' /\ BaselineKept'
  BY <1>1 DEF RepliesInv, WatchedOnce, BaselineKept, AsNoted
<1> QED BY <1>2, <1>3 DEF RepliesInv, Rep!ReplyOnce, Rep!ReplyIsNew

(* A watch that ends leaves the others, and its message's outcome.           *)
LEMMA WatchEnds ==
  ASSUME RepliesAssumption, RepliesInv
  PROVE  \A i \in DOMAIN watches : \A at \in {"abandoned", "reported"} :
           UNCHANGED <<items, turn>> /\ Rep!Ended(i, at) =>
              /\ watches[i].msg \in Messages /\ msg[watches[i].msg].at = "watched"
              /\ msg' = [msg EXCEPT ![watches[i].msg].at = at] /\ msg' \in [Messages -> NoteType]
              /\ watches' \in Seq(WatchType) /\ Len(watches') <= MaxWatches
              /\ WatchedOnce' /\ BaselineKept'
<1>0. SUFFICES ASSUME NEW i \in DOMAIN watches, NEW at \in {"abandoned", "reported"},
                      UNCHANGED <<items, turn>>, Rep!Ended(i, at)
      PROVE  /\ watches[i].msg \in Messages /\ msg[watches[i].msg].at = "watched"
             /\ msg' = [msg EXCEPT ![watches[i].msg].at = at] /\ msg' \in [Messages -> NoteType]
             /\ watches' \in Seq(WatchType) /\ Len(watches') <= MaxWatches
             /\ WatchedOnce' /\ BaselineKept'
  OBVIOUS
<1> DEFINE m == watches[i].msg
<1>1. watches \in Seq(WatchType) /\ Len(watches) <= MaxWatches /\ msg \in [Messages -> NoteType]
  BY DEF RepliesInv, RepliesTypes
<1>2. m \in Messages /\ msg[m].at = "watched" /\ msg[m] \in NoteType
  <2>1. m \in Messages /\ msg[m].at = "watched"
    BY EachReply
  <2> QED BY <1>1, <2>1
<1>3. msg' = [msg EXCEPT ![m].at = at] /\ watches' = Rep!RemoveAt(watches, i) /\ items' = items
  BY <1>0 DEF Rep!Ended
<1>4. msg' \in [Messages -> NoteType] /\ msg'[m].at = at
      /\ \A n \in Messages : /\ n # m => msg'[n] = msg[n]
                              /\ msg'[n].fp = msg[n].fp /\ msg'[n].len = msg[n].len
  BY <1>1, <1>2, <1>3 DEF NoteType
<1>5. Others(WatchType, watches, i, watches')
  BY <1>1, <1>3, OthersStay
<1>6. watches' \in Seq(WatchType) /\ Len(watches') <= Len(watches)
  BY <1>5 DEF Others
<1>7. PICK of : \A j \in DOMAIN watches' :
           /\ of[j] \in DOMAIN watches /\ of[j] # i /\ watches'[j] = watches[of[j]]
           /\ \A k \in DOMAIN watches' : of[j] = of[k] => j = k
  BY <1>5 DEF Others
<1> HIDE DEF m
<1>8. \A j \in DOMAIN watches : msg[watches[j].msg].at = "watched" /\ watches[j].msg \in Messages
      /\ watches[j].base = msg[watches[j].msg].fp
      /\ \A k \in DOMAIN watches : watches[j].msg = watches[k].msg => j = k
  BY EachReply DEF RepliesInv, WatchedOnce, BaselineKept
<1>9. ASSUME NEW j \in DOMAIN watches'
      PROVE  /\ watches'[j].msg \in Messages /\ watches'[j].msg # m
             /\ msg'[watches'[j].msg].at = "watched" /\ watches'[j].base = msg'[watches'[j].msg].fp
  <2>1. of[j] \in DOMAIN watches /\ of[j] # i /\ watches'[j] = watches[of[j]]
    BY <1>7
  <2>2. watches[of[j]].msg \in Messages /\ watches[of[j]].msg # m
    BY <1>8, <2>1 DEF m
  <2> QED BY <1>4, <1>8, <2>1, <2>2
<1>10. WatchedOnce'
  <2>1. ASSUME NEW j \in DOMAIN watches', NEW k \in DOMAIN watches', watches'[j].msg = watches'[k].msg PROVE j = k
    <3>1. of[j] \in DOMAIN watches /\ of[k] \in DOMAIN watches /\ watches[of[j]].msg = watches[of[k]].msg
      BY <1>7, <2>1
    <3>2. of[j] = of[k]
      BY <1>8, <3>1
    <3> QED BY <1>7, <3>2
  <2> QED BY <1>9, <2>1 DEF WatchedOnce
<1>11. BaselineKept'
  <2>1. ASSUME NEW n \in Messages, msg'[n].at \in {"noted", "sent", "watched"} PROVE AsNoted(n)'
    <3>1. n # m
      BY <1>4, <2>1
    <3> QED BY <1>3, <1>4, <2>1, <3>1 DEF RepliesInv, BaselineKept, AsNoted
  <2> QED BY <1>9, <2>1 DEF BaselineKept
<1>12. Len(watches') <= MaxWatches
  <2>1. MaxWatches \in Nat
    BY DEF RepliesAssumption
  <2>2. Len(watches) \in Nat
    BY <1>1
  <2>3. Len(watches') \in Nat
    BY <1>6
  <2>4. Len(watches) <= MaxWatches /\ Len(watches') <= Len(watches)
    BY <1>1, <1>6
  <2> QED BY <2>1, <2>2, <2>3, <2>4
<1> QED BY <1>2, <1>3, <1>4, <1>6, <1>10, <1>11, <1>12 DEF m

(* It is given up: nothing is put in the outbox.                             *)
LEMMA WatchGivenUp ==
  ASSUME RepliesAssumption, RepliesInv, NEW i \in DOMAIN watches, Rep!Ended(i, "abandoned"), UNCHANGED <<items, turn, replied>>
  PROVE  RepliesInv'
<1>0. watches \in Seq(WatchType)
  BY DEF RepliesInv, RepliesTypes
<1>1. /\ watches[i].msg \in Messages /\ msg[watches[i].msg].at = "watched"
      /\ msg' = [msg EXCEPT ![watches[i].msg].at = "abandoned"] /\ msg' \in [Messages -> NoteType]
      /\ watches' \in Seq(WatchType) /\ Len(watches') <= MaxWatches /\ WatchedOnce' /\ BaselineKept'
  BY <1>0, WatchEnds
<1>2. \A j \in DOMAIN replied : replied[j].msg \in Messages /\ replied[j].msg # watches[i].msg
  BY <1>1, EachReply
<1>3. \A j \in DOMAIN replied : msg'[replied[j].msg] = msg[replied[j].msg]
  BY <1>1, <1>2 DEF RepliesInv, RepliesTypes
<1>4. Rep!ReplyOnce' /\ Rep!ReplyIsNew'
  BY <1>3 DEF RepliesInv, Rep!ReplyOnce, Rep!ReplyIsNew
<1>5. RepliesTypes'
  BY <1>1 DEF RepliesInv, RepliesTypes
<1> QED BY <1>1, <1>4, <1>5 DEF RepliesInv

(* It is reported, once; a reply it quotes came after the baseline.          *)
LEMMA WatchReported ==
  ASSUME RepliesAssumption, RepliesInv, NEW i \in DOMAIN watches, NEW kind \in {"waiting", "replied", "finished"}, NEW quote \in Nat,
         Rep!Reported(i, kind, quote), UNCHANGED <<items, turn>>,
         kind = "replied" => quote > msg[watches[i].msg].len
  PROVE  RepliesInv'
<1> DEFINE new == [msg |-> watches[i].msg, kind |-> kind, quote |-> quote]
<1>0. watches \in Seq(WatchType) /\ Rep!Ended(i, "reported")
  BY DEF RepliesInv, RepliesTypes, Rep!Reported
<1>1. /\ watches[i].msg \in Messages /\ msg[watches[i].msg].at = "watched"
      /\ msg' = [msg EXCEPT ![watches[i].msg].at = "reported"] /\ msg' \in [Messages -> NoteType]
      /\ watches' \in Seq(WatchType) /\ Len(watches') <= MaxWatches /\ WatchedOnce' /\ BaselineKept'
  BY <1>0, WatchEnds
<1>2. \A j \in DOMAIN replied : replied[j].msg \in Messages /\ replied[j].msg # watches[i].msg
  BY <1>1, EachReply
<1>3. \A j \in DOMAIN replied : msg'[replied[j].msg] = msg[replied[j].msg]
  BY <1>1, <1>2 DEF RepliesInv, RepliesTypes
<1>4. msg'[new.msg].at = "reported" /\ msg'[new.msg].len = msg[new.msg].len
  BY <1>1 DEF RepliesInv, RepliesTypes, NoteType
<1>5. replied' = Append(replied, new) /\ new \in ReplyType /\ replied \in Seq(ReplyType)
  BY <1>1 DEF Rep!Reported, RepliesInv, RepliesTypes, ReplyType
<1>6. new.msg = watches[i].msg /\ (new.kind = "replied" => new.quote > msg[new.msg].len)
  OBVIOUS
<1> HIDE DEF new
<1>7. /\ replied' \in Seq(ReplyType)
      /\ \A j \in DOMAIN replied' : (j \in DOMAIN replied /\ replied'[j] = replied[j]) \/ (j = Len(replied) + 1 /\ replied'[j] = new)
  <2>1. /\ replied' \in Seq(ReplyType) /\ Len(replied') = Len(replied) + 1 /\ replied'[Len(replied) + 1] = new
        /\ \A j \in 1 .. Len(replied) : replied'[j] = replied[j]
    BY <1>5
  <2>2. Len(replied) \in Nat /\ DOMAIN replied = 1 .. Len(replied) /\ DOMAIN replied' = 1 .. Len(replied')
    BY <1>5, <2>1
  <2> QED BY <2>1, <2>2
<1>8. Rep!ReplyOnce'
  <2>1. \A j \in DOMAIN replied' : msg'[replied'[j].msg].at = "reported"
    BY <1>3, <1>4, <1>7 DEF RepliesInv, Rep!ReplyOnce
  <2>2. \A j, k \in DOMAIN replied' : replied'[j].msg = replied'[k].msg => j = k
    BY <1>2, <1>6, <1>7 DEF RepliesInv, Rep!ReplyOnce
  <2> QED BY <2>1, <2>2 DEF Rep!ReplyOnce
<1>9. Rep!ReplyIsNew'
  BY <1>3, <1>4, <1>6, <1>7 DEF RepliesInv, Rep!ReplyIsNew
<1>10. RepliesTypes'
  BY <1>1, <1>7 DEF RepliesInv, RepliesTypes
<1> QED BY <1>1, <1>8, <1>9, <1>10 DEF RepliesInv

(* A history that ends with an answer has that one as the newest.            *)
LEMMA NewestIsLast ==
  ASSUME NEW h \in Seq(Rep!Item), Rep!LastIsAnswer(h)
  PROVE  Rep!NewestAnswer(h) = Len(h)
<1> DEFINE a == {j \in DOMAIN h : h[j].role = "assistant"}
<1>1. Len(h) \in a /\ a \subseteq 1 .. Len(h) /\ Len(h) \in Nat
  BY DEF Rep!LastIsAnswer, Rep!Last
<1>2. a # {} /\ \A k \in a : k <= Len(h)
  BY <1>1
<1>3. Rep!NewestAnswer(h) = CHOOSE j \in a : \A k \in a : k <= j
  BY <1>2 DEF Rep!NewestAnswer
<1> HIDE DEF a
<1>4. (CHOOSE j \in a : \A k \in a : k <= j) \in a /\ Len(h) <= (CHOOSE j \in a : \A k \in a : k <= j)
  BY <1>1, <1>2
<1>5. \A j \in a : Len(h) <= j => j = Len(h)
  BY <1>1, <1>2
<1> QED BY <1>3, <1>4, <1>5

(* A poll: the state, or the history after it and what that says.            *)
LEMMA PollStep ==
  ASSUME RepliesAssumption, RepliesInv, NEW i \in DOMAIN watches, Rep!Ticks(i)
  PROVE  RepliesInv'
<1>0. watches[i] \in WatchType /\ items \in Seq(Rep!Item) /\ watches[i].msg \in Messages
  BY EachReply DEF RepliesInv, RepliesTypes
<1>1. CASE Rep!ReadState(i)
  <2>1. PICK r \in {"unknown", "idle", "busy", "waiting"} : watches' = [watches EXCEPT ![i].read = r]
    BY <1>1 DEF Rep!ReadState, Rep!StateOf, RepliesInv, RepliesTypes
  <2> DEFINE w == [watches[i] EXCEPT !.read = r]
  <2>2. w \in WatchType /\ w.msg = watches[i].msg /\ w.base = watches[i].base
    BY <1>0 DEF WatchType
  <2>3. watches' = [watches EXCEPT ![i] = w]
    BY <2>1
  <2>4. UNCHANGED <<items, turn, msg, replied>>
    BY <1>1 DEF Rep!ReadState
  <2> HIDE DEF w
  <2> QED BY <2>2, <2>3, <2>4, WatchGoesOn
<1>2. CASE Rep!TimesOut(i)
  BY <1>2, WatchGivenUp DEF Rep!TimesOut
<1>3. ASSUME Rep!Missed(i), UNCHANGED <<items, turn>> PROVE RepliesInv'
  <2>1. CASE Rep!Ended(i, "abandoned")
    BY <1>3, <2>1, WatchGivenUp DEF Rep!Missed
  <2>2. CASE watches' = [watches EXCEPT ![i].read = Rep!None, ![i].missed = @ + 1] /\ UNCHANGED msg
    <3> DEFINE w == [watches[i] EXCEPT !.read = Rep!None, !.missed = @ + 1]
    <3>1. w \in WatchType /\ w.msg = watches[i].msg /\ w.base = watches[i].base
      <4>1. watches[i].missed + 1 \in Nat /\ Rep!None = "none"
        BY <1>0 DEF WatchType, Rep!None
      <4> QED BY <1>0, <4>1 DEF WatchType
    <3>2. watches' = [watches EXCEPT ![i] = w]
      BY <2>2
    <3>3. UNCHANGED <<items, turn, msg, replied>>
      BY <1>3, <2>2 DEF Rep!Missed
    <3> HIDE DEF w
    <3> QED BY <3>1, <3>2, <3>3, WatchGoesOn
  <2> QED BY <1>3, <2>1, <2>2 DEF Rep!Missed
<1>4. ASSUME NEW quiet \in Nat, Rep!Decides(i, Rep!Shown(items), quiet), UNCHANGED <<items, turn>> PROVE RepliesInv'
  <2>1. CASE Rep!SaysWaiting(i) \/ Rep!Reported(i, "finished", 0)
    BY <1>4, <2>1, WatchReported DEF Rep!SaysWaiting
  <2>2. CASE Rep!Reported(i, "replied", Rep!NewestAnswer(items)) /\ Rep!Shown(items) # watches[i].base /\ Rep!LastIsAnswer(items)
    <3>1. Rep!NewestAnswer(items) = Len(items) /\ Len(items) \in Nat
      BY <1>0, <2>2, NewestIsLast
    <3>2. AsNoted(watches[i].msg) /\ watches[i].base = msg[watches[i].msg].fp /\ msg[watches[i].msg].len \in Nat
      BY <1>0 DEF RepliesInv, RepliesTypes, NoteType, WatchedOnce, BaselineKept
    <3>3. Len(items) > msg[watches[i].msg].len
      BY <2>2, <3>1, <3>2 DEF AsNoted
    <3> QED BY <1>4, <2>2, <3>1, <3>3, WatchReported
  <2>3. CASE watches' = [watches EXCEPT ![i] = Rep!Again(watches[i], Rep!Shown(items), quiet)] /\ UNCHANGED <<msg, replied>>
    <3> DEFINE w == Rep!Again(watches[i], Rep!Shown(items), quiet)
    <3>1. Rep!Shown(items) \in Seq(Rep!Item)
      BY <1>0, ShownType
    <3>2. w \in WatchType /\ w.msg = watches[i].msg /\ w.base = watches[i].base
      BY <1>0, <3>1 DEF WatchType, Rep!Again, Rep!None
    <3> HIDE DEF w
    <3> QED BY <1>4, <2>3, <3>2, WatchGoesOn DEF w
  <2> QED BY <1>4, <2>1, <2>2, <2>3 DEF Rep!Decides
<1>5. CASE Rep!ReadHistory(i)
  <2>1. UNCHANGED <<items, turn>>
    BY <1>5 DEF Rep!ReadHistory
  <2>2. CASE Rep!Missed(i)
    BY <1>3, <2>1, <2>2
  <2>3. ASSUME ~Rep!Missed(i) PROVE RepliesInv'
    <3>1. \E quiet \in Nat : Rep!Decides(i, Rep!Shown(items), quiet)
      <4>1. Quiet \in Nat /\ watches[i].quiet \in Nat
        BY <1>0 DEF WatchType, RepliesAssumption
      <4> DEFINE q == IF Rep!Shown(items) # watches[i].last THEN 0
                      ELSE IF watches[i].quiet < Quiet THEN watches[i].quiet + 1 ELSE Quiet
      <4>2. q \in Nat
        BY <4>1
      <4>3. Rep!Decides(i, Rep!Shown(items), q)
        BY <1>5, <2>3 DEF Rep!ReadHistory
      <4> QED BY <4>2, <4>3
    <3> QED BY <1>4, <2>1, <3>1
  <2> QED BY <2>2, <2>3
<1> QED BY <1>1, <1>2, <1>5 DEF Rep!Ticks

(* A message's own step: what is noted of it changes, and no watch.          *)
LEMMA MessageMoves ==
  ASSUME RepliesInv, NEW m \in Messages, NEW n \in NoteType,
         msg' = [msg EXCEPT ![m] = n], msg[m].at \notin {"watched", "reported"},
         n.at \in {"noted", "sent"} => n.len <= Len(items) /\ (Len(items) = n.len => Rep!Shown(items) = n.fp),
         n.at # "watched", UNCHANGED <<items, turn, watches, replied>>
  PROVE  RepliesInv'
<1>1. msg' \in [Messages -> NoteType] /\ msg'[m] = n /\ \A k \in Messages : k # m => msg'[k] = msg[k]
  BY DEF RepliesInv, RepliesTypes
<1>2. \A i \in DOMAIN watches : watches[i].msg \in Messages /\ watches[i].msg # m
  BY EachReply
<1>3. \A j \in DOMAIN replied : replied[j].msg \in Messages /\ replied[j].msg # m
  BY EachReply
<1>4. RepliesTypes'
  BY <1>1 DEF RepliesInv, RepliesTypes
<1>5. WatchedOnce'
  BY <1>1, <1>2 DEF RepliesInv, WatchedOnce
<1>6. BaselineKept'
  <2>1. ASSUME NEW k \in Messages, msg'[k].at \in {"noted", "sent", "watched"} PROVE AsNoted(k)'
    BY <1>1, <2>1 DEF RepliesInv, BaselineKept, AsNoted
  <2> QED BY <1>1, <1>2, <2>1 DEF RepliesInv, BaselineKept
<1>7. Rep!ReplyOnce' /\ Rep!ReplyIsNew'
  BY <1>1, <1>3 DEF RepliesInv, Rep!ReplyOnce, Rep!ReplyIsNew
<1> QED BY <1>4, <1>5, <1>6, <1>7 DEF RepliesInv

(* A watch is added; past the limit the oldest is dropped.                   *)
LEMMA WatchStarts ==
  ASSUME RepliesAssumption, RepliesInv, NEW m \in Messages, Rep!Watch(m)
  PROVE  RepliesInv'
<1> DEFINE new == Rep!WatchOf(m, msg[m].fp)
           all == Append(watches, new)
           over == Len(all) > MaxWatches
           d == IF over THEN 1 ELSE 0
<1>1. /\ msg[m].at = "sent" /\ UNCHANGED <<items, turn, replied>>
      /\ watches' = IF over THEN Tail(all) ELSE all
      /\ msg' = [k \in Messages |-> IF k = m /\ ~(over /\ MaxWatches = 0) THEN [msg[k] EXCEPT !.at = "watched"]
                                    ELSE IF over /\ k = all[1].msg THEN [msg[k] EXCEPT !.at = "dropped"]
                                    ELSE msg[k]]
  BY DEF Rep!Watch
<1>2. watches \in Seq(WatchType) /\ Len(watches) \in Nat /\ Len(watches) <= MaxWatches /\ MaxWatches \in Nat
      /\ msg \in [Messages -> NoteType] /\ DOMAIN watches = 1 .. Len(watches)
  BY DEF RepliesInv, RepliesTypes, RepliesAssumption
<1>3. new \in WatchType /\ new.msg = m /\ new.base = msg[m].fp
  <2>1. msg[m].fp \in Seq(Rep!Item)
    BY <1>2 DEF NoteType
  <2> QED BY <2>1 DEF Rep!WatchOf, WatchType, Rep!None
<1> HIDE DEF new
<1>4. /\ all \in Seq(WatchType) /\ Len(all) = Len(watches) + 1 /\ all[Len(watches) + 1] = new
      /\ \A j \in 1 .. Len(watches) : all[j] = watches[j]
  BY <1>2, <1>3
<1> HIDE DEF all
<1>5. /\ watches' \in Seq(WatchType) /\ Len(watches') = Len(watches) + 1 - d /\ Len(watches') <= MaxWatches
      /\ \A j \in 1 .. Len(watches) + 1 - d : watches'[j] = all[j + d]
  <2>1. CASE over
    <3>1. all # << >>
      BY <1>2, <1>4
    <3>2. Tail(all) \in Seq(WatchType) /\ Len(Tail(all)) = Len(all) - 1 /\ \A j \in 1 .. Len(all) - 1 : Tail(all)[j] = all[j + 1]
      BY <1>4, <3>1, HeadTailProperties
    <3> QED BY <1>1, <1>2, <1>4, <2>1, <3>2
  <2>2. CASE ~over
    BY <1>1, <1>2, <1>4, <2>2
  <2> QED BY <2>1, <2>2
<1>6. DOMAIN watches' = 1 .. Len(watches) + 1 - d /\ (over => Len(watches) = MaxWatches) /\ d \in {0, 1} /\ (d = 1 <=> over)
  <2>1. DOMAIN watches' = 1 .. Len(watches')
    BY <1>5
  <2>2. d \in {0, 1} /\ (d = 1 <=> over)
    OBVIOUS
  <2>3. over => Len(watches) = MaxWatches
    <3>1. Len(watches) \in Nat /\ Len(watches) <= MaxWatches /\ MaxWatches \in Nat
      BY <1>2
    <3>2. over => Len(watches) + 1 > MaxWatches
      BY <1>4
    <3> HIDE DEF over, d
    <3> QED BY <3>1, <3>2
  <2> QED BY <1>5, <2>1, <2>2, <2>3
<1> HIDE DEF over, d
<1>7. \A i \in DOMAIN watches : watches[i] \in WatchType /\ watches[i].msg \in Messages /\ watches[i].msg # m
  BY <1>1, EachReply
<1>8. /\ msg' \in [Messages -> NoteType]
      /\ \A k \in Messages : msg'[k].fp = msg[k].fp /\ msg'[k].len = msg[k].len
      /\ \A k \in Messages : k # m /\ ~(over /\ k = all[1].msg) => msg'[k] = msg[k]
      /\ \A k \in Messages : msg'[k].at = msg[k].at \/ (msg'[k].at = "watched" /\ k = m) \/ msg'[k].at = "dropped"
      /\ ~(over /\ MaxWatches = 0) => msg'[m].at = "watched"
  BY <1>1, <1>2 DEF NoteType
<1>9. ASSUME NEW j \in DOMAIN watches', j + d <= Len(watches)
      PROVE  /\ j + d \in DOMAIN watches /\ watches'[j] = watches[j + d]
             /\ msg'[watches[j + d].msg] = msg[watches[j + d].msg]
  <2>1. j + d \in DOMAIN watches /\ watches'[j] = watches[j + d]
    BY <1>2, <1>4, <1>5, <1>6, <1>9
  <2>2. over => 1 \in DOMAIN watches /\ all[1].msg = watches[1].msg /\ j + d # 1
    BY <1>2, <1>4, <1>6, <1>9, <2>1
  <2>3. over => watches[j + d].msg # all[1].msg
    BY <2>1, <2>2 DEF RepliesInv, WatchedOnce
  <2> QED BY <1>7, <1>8, <2>1, <2>3
<1>10. ASSUME NEW j \in DOMAIN watches', ~(j + d <= Len(watches))
       PROVE  watches'[j] = new /\ j + d = Len(watches) + 1 /\ msg'[m].at = "watched"
  <2>1. j \in 1 .. Len(watches) + 1 - d /\ Len(watches) \in Nat /\ d \in {0, 1}
    BY <1>2, <1>6
  <2>2. j + d = Len(watches) + 1
    BY <1>10, <2>1
  <2>3. ~(over /\ MaxWatches = 0)
    BY <1>6, <2>1, <2>2
  <2> QED BY <1>4, <1>5, <1>6, <1>8, <2>2, <2>3
<1>11. WatchedOnce'
  <2>1. ASSUME NEW j \in DOMAIN watches' PROVE msg'[watches'[j].msg].at = "watched"
    BY <1>3, <1>9, <1>10 DEF RepliesInv, WatchedOnce
  <2>2. ASSUME NEW j \in DOMAIN watches', NEW k \in DOMAIN watches', watches'[j].msg = watches'[k].msg PROVE j = k
    <3>1. CASE j + d <= Len(watches) /\ k + d <= Len(watches)
      <4>1. j + d = k + d
        BY <1>9, <2>2, <3>1 DEF RepliesInv, WatchedOnce
      <4> QED BY <1>6, <4>1
    <3>2. CASE ~(j + d <= Len(watches)) /\ ~(k + d <= Len(watches))
      <4>1. j + d = k + d
        BY <1>10, <3>2
      <4> QED BY <1>6, <4>1
    <3>3. CASE j + d <= Len(watches) /\ ~(k + d <= Len(watches))
      BY <1>3, <1>7, <1>9, <1>10, <2>2, <3>3
    <3>4. CASE ~(j + d <= Len(watches)) /\ k + d <= Len(watches)
      BY <1>3, <1>7, <1>9, <1>10, <2>2, <3>4
    <3> QED BY <3>1, <3>2, <3>3, <3>4
  <2> QED BY <2>1, <2>2 DEF WatchedOnce
<1>12. BaselineKept'
  <2>1. ASSUME NEW k \in Messages, msg'[k].at \in {"noted", "sent", "watched"} PROVE AsNoted(k)'
    <3>1. msg[k].at \in {"noted", "sent", "watched"}
      BY <1>1, <1>8, <2>1
    <3> QED BY <1>1, <1>8, <3>1 DEF RepliesInv, BaselineKept, AsNoted
  <2>2. ASSUME NEW j \in DOMAIN watches' PROVE watches'[j].base = msg'[watches'[j].msg].fp
    BY <1>3, <1>7, <1>8, <1>9, <1>10 DEF RepliesInv, BaselineKept
  <2> QED BY <2>1, <2>2 DEF BaselineKept
<1>13. \A j \in DOMAIN replied : replied[j].msg \in Messages /\ msg[replied[j].msg].at = "reported"
  BY EachReply
<1>14. \A j \in DOMAIN replied : replied[j].msg # m /\ (over => replied[j].msg # all[1].msg)
  <2>1. over => all[1] = new \/ (1 \in DOMAIN watches /\ all[1] = watches[1])
    BY <1>2, <1>4
  <2> QED BY <1>1, <1>3, <1>13, <2>1 DEF RepliesInv, WatchedOnce
<1>15. Rep!ReplyOnce' /\ Rep!ReplyIsNew'
  BY <1>1, <1>8, <1>13, <1>14 DEF RepliesInv, Rep!ReplyOnce, Rep!ReplyIsNew
<1>16. RepliesTypes'
  BY <1>1, <1>5, <1>8 DEF RepliesInv, RepliesTypes
<1> QED BY <1>11, <1>12, <1>15, <1>16 DEF RepliesInv

(* The history grows at its end.                                             *)
LEMMA HistoryGrows ==
  ASSUME RepliesInv, NEW x \in Rep!Item, items' = Append(items, x), turn' \in {"idle", "busy", "waiting"},
         UNCHANGED <<msg, watches, replied>>
  PROVE  RepliesInv'
<1>1. items' \in Seq(Rep!Item) /\ Len(items') = Len(items) + 1 /\ Len(items) \in Nat
  BY DEF RepliesInv, RepliesTypes
<1>2. RepliesTypes'
  BY <1>1 DEF RepliesInv, RepliesTypes
<1>3. ASSUME NEW m \in Messages, msg[m].at \in {"noted", "sent", "watched"} PROVE AsNoted(m)'
  <2>1. msg[m].len <= Len(items) /\ msg[m].len \in Nat
    BY <1>3 DEF RepliesInv, RepliesTypes, NoteType, BaselineKept, AsNoted
  <2> QED BY <1>1, <2>1 DEF AsNoted
<1> QED BY <1>2, <1>3 DEF RepliesInv, WatchedOnce, BaselineKept, Rep!ReplyOnce, Rep!ReplyIsNew

LEMMA RepliesStep ==
  ASSUME RepliesAssumption, RepliesInv, [Rep!Next]_(Rep!replyVars)
  PROVE  RepliesInv'
<1>1. ASSUME NEW m \in Messages, Rep!Baseline(m) PROVE RepliesInv'
  <2>0. msg[m] \in NoteType /\ msg[m].at = "new" /\ items \in Seq(Rep!Item) /\ Len(items) \in Nat
        /\ UNCHANGED <<items, turn, watches, replied>>
    BY <1>1 DEF RepliesInv, RepliesTypes, Rep!Baseline
  <2>1. CASE msg' = [msg EXCEPT ![m] = [at |-> "noted", fp |-> Rep!Shown(items), len |-> Len(items)]]
    <3> DEFINE n == [at |-> "noted", fp |-> Rep!Shown(items), len |-> Len(items)]
    <3>1. n \in NoteType
      BY <2>0, ShownType DEF NoteType
    <3>2. n.at = "noted" /\ n.fp = Rep!Shown(items) /\ n.len = Len(items)
      OBVIOUS
    <3> HIDE DEF n
    <3>3. msg' = [msg EXCEPT ![m] = n]
      BY <2>1 DEF n
    <3>4. n.at \in {"noted", "sent"} => n.len <= Len(items) /\ (Len(items) = n.len => Rep!Shown(items) = n.fp)
      BY <2>0, <3>2
    <3>5. n.at # "watched" /\ msg[m].at \notin {"watched", "reported"}
      BY <2>0, <3>2
    <3> QED BY <2>0, <3>1, <3>3, <3>4, <3>5, MessageMoves
  <2>2. CASE msg' = [msg EXCEPT ![m].at = "unnoted"]
    <3> DEFINE n == [msg[m] EXCEPT !.at = "unnoted"]
    <3>1. n \in NoteType /\ n.at = "unnoted" /\ msg' = [msg EXCEPT ![m] = n]
      BY <2>0, <2>2 DEF NoteType
    <3> HIDE DEF n
    <3> QED BY <2>0, <3>1, MessageMoves
  <2> QED BY <1>1, <2>1, <2>2 DEF Rep!Baseline
<1>2. ASSUME NEW m \in Messages, Rep!Send(m) PROVE RepliesInv'
  <2>0. msg[m] \in NoteType /\ msg[m].at \in {"noted", "unnoted"} /\ UNCHANGED <<items, turn, watches, replied>>
    BY <1>2 DEF RepliesInv, RepliesTypes, Rep!Send
  <2>1. PICK at \in {"failed", "sent", "unwatched"} :
          msg' = [msg EXCEPT ![m].at = at] /\ (at = "sent" => msg[m].at = "noted")
    BY <1>2, <2>0 DEF Rep!Send
  <2> DEFINE n == [msg[m] EXCEPT !.at = at]
  <2>2. n \in NoteType /\ n.at = at /\ n.fp = msg[m].fp /\ n.len = msg[m].len /\ msg' = [msg EXCEPT ![m] = n]
    BY <2>0, <2>1 DEF NoteType
  <2>3. n.at \in {"noted", "sent"} => n.len <= Len(items) /\ (Len(items) = n.len => Rep!Shown(items) = n.fp)
    BY <2>1, <2>2 DEF RepliesInv, BaselineKept, AsNoted
  <2> HIDE DEF n
  <2> QED BY <2>0, <2>1, <2>2, <2>3, MessageMoves
<1>3. ASSUME NEW m \in Messages, Rep!Takes(m) PROVE RepliesInv'
  BY <1>3, HistoryGrows DEF Rep!Takes, Rep!Asked, Rep!Item
<1>4. CASE Rep!Answers
  <2>1. PICK t \in Texts : items' = Append(items, [role |-> "assistant", text |-> t])
    BY <1>4 DEF Rep!Answers
  <2>2. [role |-> "assistant", text |-> t] \in Rep!Item
    BY DEF Rep!Item
  <2>3. UNCHANGED <<turn, msg, watches, replied>> /\ turn' \in {"idle", "busy", "waiting"}
    BY <1>4 DEF Rep!Answers
  <2> QED BY <2>1, <2>2, <2>3, HistoryGrows
<1>5. CASE turn' \in {"idle", "busy", "waiting"} /\ UNCHANGED <<items, msg, watches, replied>>
  BY <1>5 DEF RepliesInv, RepliesTypes, WatchedOnce, BaselineKept, AsNoted, Rep!ReplyOnce, Rep!ReplyIsNew
<1>6. CASE Rep!Asks \/ Rep!Resumes \/ Rep!EndsTurn
  BY <1>5, <1>6 DEF Rep!Asks, Rep!Resumes, Rep!EndsTurn, Rep!Turns
<1>7. CASE UNCHANGED Rep!replyVars
  BY <1>5, <1>7 DEF Rep!replyVars, RepliesInv, RepliesTypes
<1>8. ASSUME NEW i \in 1 .. MaxWatches, Rep!Ticks(i) PROVE RepliesInv'
  <2>1. i \in DOMAIN watches
    BY <1>8 DEF Rep!Ticks
  <2> QED BY <1>8, <2>1, PollStep
<1> QED BY <1>1, <1>2, <1>3, <1>4, <1>6, <1>7, <1>8, WatchStarts DEF Rep!Next

(* A message puts at most one reply in the outbox, and none once its watch   *)
(* was dropped or given up (watchReply, pushReply), for any number of        *)
(* messages and watches, any window and any failures.                        *)
THEOREM RepliedOnce == RepliesAssumption => (Rep!Spec => []Rep!ReplyOnce)
<1> SUFFICES ASSUME RepliesAssumption PROVE Rep!Spec => []Rep!ReplyOnce
  OBVIOUS
<1>1. Rep!Init => RepliesInv
  BY RepliesInit
<1>2. RepliesInv /\ [Rep!Next]_(Rep!replyVars) => RepliesInv'
  BY RepliesStep
<1>3. RepliesInv => Rep!ReplyOnce
  BY DEF RepliesInv
<1> QED BY <1>1, <1>2, <1>3, PTL DEF Rep!Spec

(* What is quoted as the reply was written after the message's baseline was  *)
(* read (replyBaseline, watchReply): an earlier answer is never passed off   *)
(* as the reply.                                                             *)
THEOREM RepliesAreNew == RepliesAssumption => (Rep!Spec => []Rep!ReplyIsNew)
<1> SUFFICES ASSUME RepliesAssumption PROVE Rep!Spec => []Rep!ReplyIsNew
  OBVIOUS
<1>1. Rep!Init => RepliesInv
  BY RepliesInit
<1>2. RepliesInv /\ [Rep!Next]_(Rep!replyVars) => RepliesInv'
  BY RepliesStep
<1>3. RepliesInv => Rep!ReplyIsNew
  BY DEF RepliesInv
<1> QED BY <1>1, <1>2, <1>3, PTL DEF Rep!Spec
===============================================================================
