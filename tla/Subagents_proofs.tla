--------------------------- MODULE Subagents_proofs ---------------------------
(***************************************************************************)
(* The guard keeps every agent in its session's workspace, for any number   *)
(* of sessions, subagent calls, remembered edges and restarts.  The         *)
(* argument: every record of the children table and every edge in memory is *)
(* right about its child (Records), a child that runs is in the table, so   *)
(* that a start finds its edge again (Recorded), and a run that must not go *)
(* on is of a stale conversation until it ended (Stopping).                 *)
(*                                                                          *)
(* The last section is about the factory of lets-code, the agents of its    *)
(* runs: the mode of a child is the user's flag, and the worktrees of runs  *)
(* that ended are not trusted.                                              *)
(***************************************************************************)
EXTENDS Subagents, FiniteSetTheorems, SequenceTheorems, WellFoundedInduction, TLAPS

(* Conversations of sessions and of children are different ones, and the    *)
(* guard remembers at least one edge (MAX_CHILD_EDGES).                     *)
Distinct ==
  /\ MaxCalls \in Nat /\ MaxEdges \in Nat \ {0}
  /\ Sids \subseteq Nat \ (0 .. MaxCalls + 1)
Going == {"live", "aborting"}
Under == {"start", "made", "told", "waiting"}
Record == [kid : Kids, parent : Sids, readonly : BOOLEAN]

Types ==
  /\ row \in [Sids -> [archived : BOOLEAN, recent : BOOLEAN]]
  /\ run \in [Convs -> {None, "live", "ended", "aborting"}]
  /\ call \in [CallIds -> [at : {None, "start", "made", "told", "waiting", "done"},
                           sid : Sids \cup {NoConv}, readonly : BOOLEAN]]
  /\ owner \in [Kids -> 0 .. MaxCalls] /\ sent \in [CallIds -> Nat]
  /\ children \subseteq Record /\ edges \in Seq(Record) /\ Len(edges) <= MaxEdges
  /\ stale \subseteq Convs /\ old \subseteq Convs /\ up \in {"off", "waiting", "ready"}

(* A call has one child at most, a child that runs has a call, and a call   *)
(* that is under way is of a run that goes on.                              *)
Owners ==
  /\ \A k \in Kids : owner[k] # 0 => call[owner[k]].at # None
  /\ \A j, k \in Kids : owner[j] = owner[k] /\ owner[j] # 0 => j = k
  /\ \A c \in CallIds : call[c].at \in {"made", "told", "waiting"} => \E k \in Kids : owner[k] = c
  /\ \A c \in CallIds : call[c].at # None => call[c].sid \in Sids
  /\ \A k \in Kids : run[k] # None => owner[k] # 0
Runs ==
  /\ \A k \in Kids : run[k] = "live" => call[owner[k]].at \in Under
  /\ \A c \in CallIds : call[c].at \in Under => run[call[c].sid] \in Going
Sent ==
  \A c \in CallIds : sent[c] <= 1 /\ (sent[c] # 0 => \E k \in Kids : owner[k] = c /\ run[k] # None)

(* What the table and the edges say of a child is so.                       *)
Right(r) ==
  /\ owner[r.kid] # 0
  /\ r.parent = call[owner[r.kid]].sid /\ r.readonly = call[owner[r.kid]].readonly
Records ==
  /\ \A r \in children : Right(r)
  /\ \A i \in DOMAIN edges : Right(edges[i])
  /\ \A i, j \in DOMAIN edges : edges[i].kid = edges[j].kid => i = j

(* The runs that must not go on are those of stale conversations.           *)
InEdges(k) == \E i \in DOMAIN edges : edges[i].kid = k
Full == Len(edges) = MaxEdges
Stopping ==
  up # "off" =>
    /\ old \subseteq stale /\ \A conv \in old : run[conv] \in Going
    /\ up = "ready" => stale = {}
    /\ \A s \in stale \cap Sids : ~Live(s) /\ (run[s] \in Going => s \in old)
    /\ \A k \in stale \cap Kids : run[k] # None /\ (run[k] = "live" => k \in old \/ Full)

(* A child that runs is in the table, and its edge is known.                *)
InTable(k) == \E r \in children : r.kid = k
Recorded ==
  /\ \A k \in Kids : run[k] = "live" => InTable(k) \/ ~Live(OwnerSid(k))
  /\ up # "off" =>
       \A k \in Kids :
         /\ run[k] = "live" /\ k \notin old => InEdges(k) \/ Full
         /\ owner[k] # 0 /\ call[owner[k]].at \in {"told", "waiting"} =>
              InTable(k) /\ (InEdges(k) \/ Full)

Bash == up # "off" => \A b \in scopes : b = restarts

Inv == Types /\ Owners /\ Runs /\ Sent /\ Records /\ Stopping /\ Recorded /\ Bash
-----------------------------------------------------------------------------
(* The table in its order, and the edges.                                   *)

Ordered(ks, kids) ==
  /\ ks \in [1 .. Cardinality(kids) -> kids] /\ Range(ks) = kids
  /\ \A i, j \in DOMAIN ks : i < j => ks[i] < ks[j]

(* Every set of children has an order: a smallest bound of sets without one *)
(* cannot be.                                                               *)
LEMMA CanBeOrdered ==
  ASSUME NEW n \in Nat, NEW kids \in SUBSET (1 .. n)
  PROVE  \E ks : Ordered(ks, kids)
<1> DEFINE Bad == {m \in Nat : \E s \in SUBSET (1 .. m) : ~ \E ks : Ordered(ks, s)}
           R == OpToRel(<, Nat)
<1>1. SUFFICES ASSUME Bad # {} PROVE FALSE
  OBVIOUS
<1>2. \E m \in Bad : \A l \in Bad : ~ (<<l, m>> \in R)
  <2>1. Bad \subseteq Nat
    OBVIOUS
  <2> HIDE DEF Bad
  <2> QED BY <1>1, <2>1, NatLessThanWellFounded, WFMin
<1>3. PICK m \in Bad : \A l \in Bad : ~ (<<l, m>> \in R)
  BY <1>2
<1>4. m \in Nat /\ \A l \in Bad : ~(l < m)
  BY <1>3 DEF OpToRel
<1>5. PICK s \in SUBSET (1 .. m) : ~ \E ks : Ordered(ks, s)
  BY <1>3
<1>6. m # 0
  <2> SUFFICES ASSUME m = 0 PROVE FALSE
    OBVIOUS
  <2>1. s = {}
    BY <1>5
  <2>2. Cardinality(s) = 0
    BY <2>1, FS_EmptySet
  <2>3. Ordered(<< >>, s)
    BY <2>1, <2>2 DEF Ordered, Range
  <2> QED BY <1>5, <2>3
<1>7. m - 1 \in Nat /\ m - 1 \notin Bad
  BY <1>4, <1>6
<1> DEFINE rest == s \ {m}
<1>8. rest \in SUBSET (1 .. m - 1)
  BY <1>4, <1>5
<1>9. PICK ks : Ordered(ks, rest)
  BY <1>7, <1>8
<1>10. m \in s
  <2> SUFFICES ASSUME m \notin s PROVE FALSE
    OBVIOUS
  <2>1. rest = s
    OBVIOUS
  <2> QED BY <1>5, <1>9, <2>1
<1> DEFINE c == Cardinality(rest)
<1>11. c \in Nat /\ Cardinality(s) = c + 1
  <2>0. IsFiniteSet(1 .. m)
    <3> HIDE DEF Bad
    <3> QED BY <1>4, FS_Interval
  <2>1. IsFiniteSet(s)
    BY <2>0, FS_Subset
  <2>4. rest \subseteq s
    OBVIOUS
  <2>2. IsFiniteSet(rest)
    <3> HIDE DEF rest
    <3> QED BY <2>1, <2>4, FS_Subset
  <2>3. rest \cup {m} = s /\ m \notin rest
    BY <1>10
  <2> HIDE DEF rest
  <2> QED BY <2>2, <2>3, FS_AddElement, FS_CardinalityType
<1> DEFINE all == [i \in 1 .. c + 1 |-> IF i = c + 1 THEN m ELSE ks[i]]
<1>12. ks \in [1 .. c -> rest] /\ Range(ks) = rest /\ \A i, j \in 1 .. c : i < j => ks[i] < ks[j]
  BY <1>9 DEF Ordered
<1> HIDE DEF c
<1>13. \A i \in 1 .. c : all[i] = ks[i] /\ ks[i] \in rest /\ ks[i] < m
  <2> SUFFICES ASSUME NEW i \in 1 .. c PROVE all[i] = ks[i] /\ ks[i] \in rest /\ ks[i] < m
    OBVIOUS
  <2>1. i \in 1 .. c + 1 /\ i # c + 1
    BY <1>11
  <2>2. ks[i] \in rest
    BY <1>12
  <2>3. ks[i] \in 1 .. m - 1
    BY <1>8, <2>2
  <2> QED BY <1>4, <2>1, <2>2, <2>3
<1>14. all[c + 1] = m /\ c + 1 \in 1 .. c + 1
  BY <1>11
<1>15. \A i \in 1 .. c + 1 : i \in 1 .. c \/ i = c + 1
  BY <1>11
<1>16. DOMAIN all = 1 .. c + 1
  OBVIOUS
<1> HIDE DEF all
<1>17. all \in [1 .. Cardinality(s) -> s]
  <2>1. \A i \in 1 .. c + 1 : all[i] \in s
    BY <1>10, <1>13, <1>14, <1>15
  <2>2. all = [i \in 1 .. c + 1 |-> all[i]]
    BY DEF all
  <2> QED BY <1>11, <2>1, <2>2
<1>18. Range(all) = s
  <2>1. \A x \in s : x = m \/ \E i \in 1 .. c : ks[i] = x
    BY <1>12 DEF Range
  <2>2. \A x \in s : \E i \in 1 .. c + 1 : all[i] = x
    BY <2>1, <1>11, <1>13, <1>14
  <2>3. \A i \in 1 .. c + 1 : all[i] \in s
    BY <1>10, <1>13, <1>14, <1>15
  <2>4. Range(all) = {all[i] : i \in 1 .. c + 1}
    BY <1>16 DEF Range
  <2> QED BY <2>2, <2>3, <2>4
<1>19. \A i, j \in DOMAIN all : i < j => all[i] < all[j]
  <2> SUFFICES ASSUME NEW i \in 1 .. c + 1, NEW j \in 1 .. c + 1, i < j PROVE all[i] < all[j]
    BY <1>16
  <2>1. i \in 1 .. c
    BY <1>11
  <2>2. CASE j = c + 1
    BY <2>1, <2>2, <1>13, <1>14
  <2>3. CASE j \in 1 .. c
    BY <2>1, <2>3, <1>12, <1>13
  <2> QED BY <2>2, <2>3, <1>15
<1> QED BY <1>5, <1>17, <1>18, <1>19 DEF Ordered

(* The order of the table's query is one.                                   *)
LEMMA InOrderRight ==
  ASSUME Distinct, NEW kids \in SUBSET Kids
  PROVE  Ordered(InOrder(kids), kids) /\ Cardinality(kids) \in Nat
<1>1. MaxCalls + 1 \in Nat
  BY DEF Distinct
<1>2. \E ks : Ordered(ks, kids)
  BY <1>1, CanBeOrdered DEF Kids
<1>3. Ordered(InOrder(kids), kids)
  BY <1>2 DEF Ordered, InOrder
<1>4. IsFiniteSet(Kids)
  BY <1>1, FS_Interval DEF Kids
<1> QED BY <1>3, <1>4, FS_Subset, FS_CardinalityType

(* What a start loads: edges of live parents, one of each child, and when   *)
(* they do not fill the memory, of all of them.                             *)
LEMMA LoadedRight ==
  ASSUME Distinct, NEW cs \in SUBSET Record
  PROVE  LET es == Loaded(cs)
         IN  /\ es \in Seq(Record) /\ Len(es) <= MaxEdges
             /\ \A i \in DOMAIN es : es[i] \in cs /\ Live(es[i].parent)
             /\ \A i, j \in DOMAIN es : es[i].kid = es[j].kid => i = j
             /\ Len(es) = MaxEdges \/ \A r \in cs : Live(r.parent) => \E i \in DOMAIN es : es[i].kid = r.kid
<1> DEFINE kept == {r \in cs : Live(r.parent)}
           all == {r.kid : r \in kept}
           kids == InOrder(all)
           n == Cardinality(all)
           es == [i \in DOMAIN kids |-> CHOOSE r \in kept : r.kid = kids[i]]
           from == Len(es) - MaxEdges
<1>1. all \in SUBSET Kids
  BY DEF Record
<1>2. Ordered(kids, all) /\ n \in Nat
  <2> HIDE DEF all
  <2> QED BY <1>1, InOrderRight
<1>3. DOMAIN kids = 1 .. n /\ \A i \in 1 .. n : kids[i] \in all
  <2> HIDE DEF all, kids
  <2> QED BY <1>2 DEF Ordered
<1>4. \A i, j \in 1 .. n : kids[i] = kids[j] => i = j
  <2> HIDE DEF all, kids, n
  <2> SUFFICES ASSUME NEW i \in 1 .. n, NEW j \in 1 .. n, i # j PROVE kids[i] # kids[j]
    OBVIOUS
  <2>0. kids[i] \in Kids /\ kids[j] \in Kids
    BY <1>1, <1>3
  <2>1. kids[i] \in Nat /\ kids[j] \in Nat
    BY <2>0 DEF Kids
  <2>2. i < j \/ j < i
    BY <1>2
  <2> QED BY <2>1, <2>2, <1>2, <1>3 DEF Ordered
<1>5. \A x \in all : \E i \in 1 .. n : kids[i] = x
  <2> HIDE DEF all, kids, n
  <2> QED BY <1>2, <1>3 DEF Ordered, Range
<1> HIDE DEF kids, n
<1>6. \A i \in 1 .. n : es[i] \in kept /\ es[i].kid = kids[i]
  <2> SUFFICES ASSUME NEW i \in 1 .. n PROVE es[i] \in kept /\ es[i].kid = kids[i]
    OBVIOUS
  <2>1. \E r \in kept : r.kid = kids[i]
    BY <1>3
  <2>2. es[i] = CHOOSE r \in kept : r.kid = kids[i]
    BY <1>3
  <2> QED BY <2>1, <2>2
<1>7. es \in Seq(Record) /\ Len(es) = n /\ DOMAIN es = 1 .. n
  <2>1. es \in [1 .. n -> Record]
    BY <1>3, <1>6
  <2> QED BY <1>2, <2>1
<1>8. Loaded(cs) = IF n > MaxEdges THEN SubSeq(es, n - MaxEdges + 1, n) ELSE es
  <2>1. Loaded(cs) = IF Len(es) > MaxEdges THEN SubSeq(es, Len(es) - MaxEdges + 1, Len(es)) ELSE es
    BY DEF Loaded, kids
  <2> HIDE DEF es
  <2> QED BY <1>7, <2>1
<1>9. \A r \in kept : \E i \in 1 .. n : es[i].kid = r.kid
  BY <1>5, <1>6
<1>10. \A i \in 1 .. n : es[i] \in cs /\ Live(es[i].parent)
  BY <1>6
<1>11. \A r \in cs : Live(r.parent) => r \in kept
  OBVIOUS
<1>12. \A i, j \in 1 .. n : es[i].kid = es[j].kid => i = j
  BY <1>4, <1>6
<1> HIDE DEF es, kept
<1>13. CASE n > MaxEdges
  <2> DEFINE sub == SubSeq(es, n - MaxEdges + 1, n)
  <2>1. MaxEdges \in Nat /\ MaxEdges > 0
    BY DEF Distinct
  <2>2. sub \in Seq(Record) /\ Len(sub) = MaxEdges
    BY <1>2, <1>7, <1>13, <2>1
  <2>3. \A i \in 1 .. MaxEdges : sub[i] = es[n - MaxEdges + i] /\ n - MaxEdges + i \in 1 .. n
    BY <1>2, <1>7, <1>13, <2>1
  <2>4. DOMAIN sub = 1 .. MaxEdges
    BY <2>2
  <2> HIDE DEF sub
  <2>5. \A i, j \in DOMAIN sub : sub[i].kid = sub[j].kid => i = j
    <3> SUFFICES ASSUME NEW i \in 1 .. MaxEdges, NEW j \in 1 .. MaxEdges, sub[i].kid = sub[j].kid PROVE i = j
      BY <2>4
    <3>1. n - MaxEdges + i = n - MaxEdges + j
      BY <2>3, <1>12
    <3> QED BY <3>1, <1>2, <2>1
  <2>6. Loaded(cs) = sub
    BY <1>8, <1>13 DEF sub
  <2> QED BY <2>2, <2>3, <2>4, <2>5, <2>6, <1>10
<1>14. CASE ~(n > MaxEdges)
  <2>1. Loaded(cs) = es /\ n <= MaxEdges
    BY <1>2, <1>8, <1>14 DEF Distinct
  <2> QED BY <2>1, <1>7, <1>9, <1>10, <1>11, <1>12
<1> QED BY <1>13, <1>14

(* Taking a child's edge out leaves the others as they were.                *)
LEMMA WithoutRight ==
  ASSUME NEW es \in Seq(Record), NEW kid, \A i, j \in DOMAIN es : es[i].kid = es[j].kid => i = j
  PROVE  LET w == Without(es, kid)
         IN  /\ w \in Seq(Record) /\ Len(w) <= Len(es) /\ Len(w) >= Len(es) - 1
             /\ \A i \in DOMAIN w : w[i].kid # kid /\ \E j \in DOMAIN es : w[i] = es[j]
             /\ \A i, j \in DOMAIN w : w[i].kid = w[j].kid => i = j
             /\ \A i \in DOMAIN es : es[i].kid # kid => \E j \in DOMAIN w : w[j] = es[i]
<1> DEFINE at == {i \in DOMAIN es : es[i].kid = kid}
<1>1. CASE at = {}
  <2>1. Without(es, kid) = es
    BY <1>1 DEF Without
  <2> QED BY <1>1, <2>1
<1>2. CASE at # {}
  <2> DEFINE k == CHOOSE i \in at : TRUE
             w == RemoveAt(es, k)
             n == Len(es)
  <2>1. k \in at
    BY <1>2
  <2>2. k \in 1 .. n /\ es[k].kid = kid /\ n \in Nat /\ DOMAIN es = 1 .. n
    BY <2>1
  <2>3. Without(es, kid) = w
    BY <1>2 DEF Without
  <2> HIDE DEF k, at
  <2>4. w = SubSeq(es, 1, k - 1) \o SubSeq(es, k + 1, n)
    BY DEF RemoveAt
  <2> HIDE DEF w
  <2> DEFINE a == SubSeq(es, 1, k - 1)
             b == SubSeq(es, k + 1, n)
  <2>5. /\ a \in Seq(Record) /\ Len(a) = k - 1 /\ \A i \in 1 .. k - 1 : a[i] = es[i]
        /\ b \in Seq(Record) /\ Len(b) = n - k /\ \A i \in 1 .. n - k : b[i] = es[k + i]
    <3>1. k - 1 \in Int /\ k + 1 \in Int /\ n \in Int
      BY <2>2
    <3>2. (\A i \in 1 .. k - 1 : es[i] \in Record) /\ (\A i \in k + 1 .. n : es[i] \in Record)
      BY <2>2
    <3>7. a \in Seq(Record) /\ Len(a) = k - 1 /\ \A i \in 1 .. k - 1 : a[i] = es[i]
      BY <2>2, <3>1, <3>2, SubSeqProperties
    <3>9. /\ b \in Seq(Record) /\ Len(b) = (IF k + 1 <= n THEN n - (k + 1) + 1 ELSE 0)
          /\ \A i \in 1 .. n - (k + 1) + 1 : b[i] = es[(k + 1) + i - 1]
      BY <3>1, <3>2, SubSeqProperties
    <3>8. b \in Seq(Record) /\ Len(b) = n - k /\ \A i \in 1 .. n - k : b[i] = es[k + i]
      <4>0. k \in Int /\ n \in Int /\ k <= n
        BY <2>2
      <4>1. n - (k + 1) + 1 = n - k /\ (~(k + 1 <= n) => n - k = 0)
        BY <4>0
      <4>2. \A i \in 1 .. n - k : (k + 1) + i - 1 = k + i
        BY <2>2
      <4>3. Len(b) = n - k
        BY <3>9, <4>1
      <4>4. \A i \in 1 .. n - k : b[i] = es[k + i]
        BY <3>9, <4>1, <4>2
      <4> QED BY <3>9, <4>3, <4>4
    <3> QED BY <3>7, <3>8
  <2> HIDE DEF a, b
  <2>16. w = a \o b
    BY <2>4 DEF a, b
  <2>6. w \in Seq(Record) /\ Len(w) = n - 1 /\ DOMAIN w = 1 .. n - 1
    <3>1. w \in Seq(Record) /\ Len(w) = Len(a) + Len(b)
      BY <2>5, <2>16, ConcatProperties
    <3> QED BY <2>2, <2>5, <3>1
  <2>7. \A i \in 1 .. k - 1 : w[i] = es[i]
    BY <2>2, <2>5, <2>16
  <2>8. \A i \in k .. n - 1 : w[i] = es[i + 1]
    <3> SUFFICES ASSUME NEW i \in k .. n - 1 PROVE w[i] = es[i + 1]
      OBVIOUS
    <3>1. i - (k - 1) \in 1 .. n - k /\ k + (i - (k - 1)) = i + 1 /\ i > k - 1 /\ i \in 1 .. n - 1
      BY <2>2
    <3>2. w[i] = b[i - (k - 1)]
      <4>2. i \in 1 .. Len(a) + Len(b)
        BY <2>2, <2>5, <3>1
      <4> QED BY <4>2, <2>2, <2>5, <2>16, <3>1
    <3>3. b[i - (k - 1)] = es[k + (i - (k - 1))]
      BY <2>5, <3>1
    <3> QED BY <3>1, <3>2, <3>3
  <2> DEFINE in(i) == IF i < k THEN i ELSE i + 1
  <2>9. \A i \in 1 .. n - 1 : in(i) \in 1 .. n /\ in(i) # k /\ w[i] = es[in(i)]
    <3> SUFFICES ASSUME NEW i \in 1 .. n - 1 PROVE in(i) \in 1 .. n /\ in(i) # k /\ w[i] = es[in(i)]
      OBVIOUS
    <3>1. CASE i < k
      BY <3>1, <2>2, <2>7
    <3>2. CASE ~(i < k)
      BY <3>2, <2>2, <2>8
    <3> QED BY <3>1, <3>2
  <2>10. \A i, j \in 1 .. n - 1 : in(i) = in(j) => i = j
    BY <2>2
  <2>11. \A i \in 1 .. n : i # k => \E j \in 1 .. n - 1 : in(j) = i
    <3> SUFFICES ASSUME NEW i \in 1 .. n, i # k PROVE \E j \in 1 .. n - 1 : in(j) = i
      OBVIOUS
    <3>1. CASE i < k
      BY <3>1, <2>2
    <3>2. CASE i > k
      <4>1. i - 1 \in 1 .. n - 1 /\ in(i - 1) = i
        BY <3>2, <2>2
      <4> QED BY <4>1
    <3> QED BY <3>1, <3>2, <2>2
  <2> HIDE DEF in
  <2>12. Len(w) <= n /\ Len(w) >= n - 1
    BY <2>2, <2>6
  <2>13. \A i \in DOMAIN w : w[i].kid # kid /\ \E j \in DOMAIN es : w[i] = es[j]
    BY SMTT(30), <2>2, <2>6, <2>9
  <2>14. \A i, j \in DOMAIN w : w[i].kid = w[j].kid => i = j
    BY <2>2, <2>6, <2>9, <2>10
  <2>15. \A i \in DOMAIN es : es[i].kid # kid => \E j \in DOMAIN w : w[j] = es[i]
    BY <2>2, <2>6, <2>9, <2>11
  <2> QED BY <2>3, <2>6, <2>12, <2>13, <2>14, <2>15
<1> QED BY <1>1, <1>2

(* A noted edge is remembered, and no other is lost unless they fill it.    *)
LEMMA NotedRight ==
  ASSUME Distinct, NEW es \in Seq(Record), NEW e \in Record, Len(es) <= MaxEdges,
         \A i, j \in DOMAIN es : es[i].kid = es[j].kid => i = j
  PROVE  LET new == Noted(es, e)
         IN  /\ new \in Seq(Record) /\ Len(new) <= MaxEdges
             /\ Len(es) = MaxEdges => Len(new) = MaxEdges
             /\ \A i \in DOMAIN new : new[i] = e \/ \E j \in DOMAIN es : new[i] = es[j]
             /\ \A i, j \in DOMAIN new : new[i].kid = new[j].kid => i = j
             /\ \E i \in DOMAIN new : new[i].kid = e.kid
             /\ \/ Len(new) = MaxEdges
                \/ \A i \in DOMAIN es : \E j \in DOMAIN new : new[j].kid = es[i].kid
<1> DEFINE w == Without(es, e.kid)
           n == Len(w)
           all == Append(w, e)
           new == Noted(es, e)
<1>1. /\ w \in Seq(Record) /\ n <= Len(es) /\ n >= Len(es) - 1
      /\ \A i \in DOMAIN w : w[i].kid # e.kid /\ \E j \in DOMAIN es : w[i] = es[j]
      /\ \A i, j \in DOMAIN w : w[i].kid = w[j].kid => i = j
      /\ \A i \in DOMAIN es : es[i].kid # e.kid => \E j \in DOMAIN w : w[j] = es[i]
  BY WithoutRight
<1> HIDE DEF w
<1>2. n \in Nat /\ DOMAIN w = 1 .. n /\ MaxEdges \in Nat /\ MaxEdges > 0 /\ Len(es) \in Nat
  BY <1>1 DEF Distinct
<1>3. /\ all \in Seq(Record) /\ Len(all) = n + 1 /\ DOMAIN all = 1 .. n + 1
      /\ all[n + 1] = e /\ \A i \in 1 .. n : all[i] = w[i]
  BY <1>1, <1>2
<1>4. new = IF n + 1 > MaxEdges THEN Tail(all) ELSE all
  BY <1>3 DEF Noted, w
<1> HIDE DEF all, new, n
<1>5. \A i \in 1 .. n + 1 : i \in 1 .. n \/ i = n + 1
  BY <1>2
<1>12. \A i \in 1 .. n : i \in DOMAIN w /\ all[i] = w[i]
  BY <1>2, <1>3
<1>10. \A i \in 1 .. n : all[i].kid # e.kid /\ \E j \in DOMAIN es : all[i] = es[j]
  <2> SUFFICES ASSUME NEW i \in 1 .. n PROVE all[i].kid # e.kid /\ \E j \in DOMAIN es : all[i] = es[j]
    OBVIOUS
  <2>1. w[i].kid # e.kid /\ \E j \in DOMAIN es : w[i] = es[j]
    BY <1>1, <1>12
  <2> QED BY <2>1, <1>12
<1>11. \A i, j \in 1 .. n : all[i].kid = all[j].kid => i = j
  <2> SUFFICES ASSUME NEW i \in 1 .. n, NEW j \in 1 .. n, all[i].kid = all[j].kid PROVE i = j
    OBVIOUS
  <2>1. w[i].kid = w[j].kid
    BY <1>12
  <2> QED BY <2>1, <1>1, <1>12
<1>6. \A i \in 1 .. n + 1 : all[i] = e \/ \E j \in DOMAIN es : all[i] = es[j]
  BY <1>3, <1>5, <1>10
<1>7. \A i, j \in 1 .. n + 1 : all[i].kid = all[j].kid => i = j
  BY <1>3, <1>5, <1>10, <1>11
<1>8. CASE n + 1 > MaxEdges
  <2>1. /\ new \in Seq(Record) /\ Len(new) = n /\ DOMAIN new = 1 .. n
        /\ \A i \in 1 .. n : new[i] = all[i + 1]
    BY <1>2, <1>3, <1>4, <1>8
  <2>2. n = MaxEdges
    BY <1>1, <1>2, <1>8
  <2>3. \A i \in 1 .. n : i + 1 \in 1 .. n + 1
    BY <1>2
  <2>4. \A i \in DOMAIN new : new[i] = e \/ \E j \in DOMAIN es : new[i] = es[j]
    BY <1>6, <2>1, <2>3
  <2>5. \A i, j \in DOMAIN new : new[i].kid = new[j].kid => i = j
    <3> SUFFICES ASSUME NEW i \in 1 .. n, NEW j \in 1 .. n, new[i].kid = new[j].kid PROVE i = j
      BY <2>1
    <3>1. i + 1 = j + 1
      BY SMTT(30), <1>7, <2>1, <2>3
    <3> QED BY <3>1, <1>2
  <2>6. n \in 1 .. n /\ new[n].kid = e.kid
    BY <1>2, <1>3, <2>1, <2>2
  <2> QED BY <1>2, <2>1, <2>2, <2>4, <2>5, <2>6 DEF new
<1>9. CASE ~(n + 1 > MaxEdges)
  <2>1. new = all
    BY <1>4, <1>9
  <2>2. Len(es) = MaxEdges => n + 1 = MaxEdges
    BY <1>1, <1>2, <1>9
  <2>3. n + 1 \in 1 .. n + 1 /\ n + 1 <= MaxEdges
    BY <1>2, <1>9
  <2>4. \A i \in DOMAIN es : \E j \in 1 .. n + 1 : all[j].kid = es[i].kid
    <3> SUFFICES ASSUME NEW i \in DOMAIN es PROVE \E j \in 1 .. n + 1 : all[j].kid = es[i].kid
      OBVIOUS
    <3>1. CASE es[i].kid = e.kid
      BY <3>1, <1>3, <2>3
    <3>2. CASE es[i].kid # e.kid
      <4>1. PICK j \in 1 .. n : w[j] = es[i]
        BY <3>2, <1>1, <1>2
      <4>2. j \in 1 .. n + 1 /\ all[j] = w[j]
        BY <1>2, <1>3
      <4> QED BY <4>1, <4>2
    <3> QED BY <3>1, <3>2
  <2> SUFFICES /\ all \in Seq(Record) /\ Len(all) <= MaxEdges
               /\ Len(es) = MaxEdges => Len(all) = MaxEdges
               /\ \A i \in DOMAIN all : all[i] = e \/ \E j \in DOMAIN es : all[i] = es[j]
               /\ \A i, j \in DOMAIN all : all[i].kid = all[j].kid => i = j
               /\ \E i \in DOMAIN all : all[i].kid = e.kid
               /\ \A i \in DOMAIN es : \E j \in DOMAIN all : all[j].kid = es[i].kid
    BY <2>1 DEF new
  <2>5. all \in Seq(Record) /\ Len(all) <= MaxEdges /\ (Len(es) = MaxEdges => Len(all) = MaxEdges)
    BY <1>3, <2>2, <2>3
  <2>6. \E i \in 1 .. n + 1 : all[i].kid = e.kid
    BY <1>3, <2>3
  <2>7. DOMAIN all = 1 .. n + 1
    BY <1>3
  <2> QED BY <1>6, <1>7, <2>4, <2>5, <2>6, <2>7
<1> QED BY <1>8, <1>9

-----------------------------------------------------------------------------
(* The child of a call.                                                     *)

LEMMA ChildIs ==
  ASSUME Types, Owners, NEW c \in CallIds, NEW k \in Kids, owner[k] = c
  PROVE  KidsOf({c}) = {k} /\ Newest(c) = k
<1>1. c # 0
  BY DEF CallIds
<1>2. KidsOf({c}) = {k}
  BY <1>1 DEF KidsOf, Owners
<1>3. k <= k
  BY DEF Kids
<1>4. Newest(c) \in KidsOf({c})
  BY <1>2, <1>3 DEF Newest
<1> QED BY <1>2, <1>4

(* Initially nothing runs.                                                  *)
LEMMA InitInv == ASSUME Distinct PROVE Init => Inv
<1> SUFFICES ASSUME Init PROVE Inv
  OBVIOUS
<1> USE DEF Init
<1>1. Types
  <2>1. MaxCalls \in Nat /\ MaxEdges \in Nat
    BY DEF Distinct
  <2>2. << >> \in Seq(Record) /\ Len(<< >>) = 0
    OBVIOUS
  <2> QED BY <2>1, <2>2 DEF Types, None, NoConv
<1>2. \A k \in Kids : owner[k] = 0 /\ k \in Convs /\ run[k] = None
  BY DEF Convs
<1>3. \A c \in CallIds : call[c].at = None /\ sent[c] = 0
  OBVIOUS
<1>4. Owners /\ Runs /\ Sent
  BY <1>2, <1>3 DEF Owners, Runs, Sent, None, Under, Types
<1>5. DOMAIN edges = {} /\ children = {} /\ old = {} /\ stale = {}
  OBVIOUS
<1>6. Records /\ Stopping /\ Recorded
  BY <1>2, <1>5 DEF Records, Stopping, Recorded, None
<1> QED BY <1>1, <1>4, <1>6 DEF Inv, Bash

-----------------------------------------------------------------------------
(* The steps.                                                               *)

LEMMA PromptInv ==
  ASSUME Distinct, Inv, NEW s \in Sids, Prompt(s)
  PROVE  Inv'
<1>1. /\ up = "ready" /\ run[s] \in {None, "ended"}
      /\ run' = [run EXCEPT ![s] = "live"] /\ row' = [row EXCEPT ![s].recent = TRUE]
      /\ UNCHANGED <<call, owner, sent, children, edges, stale, up, scopes, restarts, old>>
  BY DEF Prompt, memory
<1>2. s \in Convs /\ \A k \in Kids : k \in Convs /\ k # s
  BY DEF Convs, Distinct, Kids
<1>3. run' \in [Convs -> {None, "live", "ended", "aborting"}] /\ run'[s] = "live"
      /\ \A conv \in Convs \ {s} : run'[conv] = run[conv]
  BY <1>1, <1>2 DEF Inv, Types
<1>4. row' \in [Sids -> [archived : BOOLEAN, recent : BOOLEAN]] /\ \A t \in Sids \ {s} : row'[t] = row[t]
  BY <1>1 DEF Inv, Types
<1>5. Types'
  BY <1>1, <1>3, <1>4 DEF Inv, Types
<1>6. Owners' /\ Sent' /\ Records' /\ Bash'
  BY <1>1, <1>2, <1>3 DEF Inv, Owners, Sent, Records, Right, Bash
<1>7. Runs'
  BY <1>1, <1>2, <1>3 DEF Inv, Owners, Runs, Under, Going, Types, Convs, None
<1>8. Stopping'
  BY <1>1, <1>2, <1>3 DEF Inv, Stopping, Going, None, Types
<1>9. Recorded'
  <2>1. \A k \in Kids : run[k] = "live" => OwnerSid(k) \in Sids \ {s} /\ OwnerSid(k)' = OwnerSid(k)
    <3> SUFFICES ASSUME NEW k \in Kids, run[k] = "live"
                 PROVE OwnerSid(k) \in Sids \ {s} /\ OwnerSid(k)' = OwnerSid(k)
      OBVIOUS
    <3>1. owner[k] \in CallIds
      BY DEF Inv, Types, Owners, CallIds, None
    <3>2. OwnerSid(k) = call[owner[k]].sid /\ OwnerSid(k)' = OwnerSid(k)
      BY <1>1 DEF OwnerSid, Distinct, Kids
    <3>3. call[owner[k]].sid \in Sids /\ run[call[owner[k]].sid] \in Going
      BY <3>1 DEF Inv, Runs, Owners, Under, None
    <3> QED BY <3>2, <3>3, <1>1 DEF Going, None
  <2>2. \A k \in Kids : run[k] = "live" => (Live(OwnerSid(k))' <=> Live(OwnerSid(k)))
    BY <2>1, <1>4 DEF Live
  <2>3. \A k \in Kids : run'[k] = run[k] /\ (InTable(k)' <=> InTable(k)) /\ (InEdges(k)' <=> InEdges(k))
    BY <1>1, <1>2, <1>3 DEF InTable, InEdges
  <2> QED BY <1>1, <2>2, <2>3 DEF Inv, Recorded, Full
<1> QED BY <1>5, <1>6, <1>7, <1>8, <1>9 DEF Inv

LEMMA ToolInv ==
  ASSUME Inv, NEW conv, NEW writes, Tool(conv, writes)
  PROVE  Inv'
<1>1. /\ up # "off" /\ scopes' = scopes \cup {restarts}
      /\ UNCHANGED <<row, run, call, owner, sent, children, edges, stale, up, restarts, old>>
  BY DEF Tool, store, memory
<1>2. Bash'
  BY <1>1 DEF Inv, Bash
<1> QED BY <1>1, <1>2 DEF Inv, Types, Owners, Runs, Sent, Records, Right, Stopping, Recorded,
                          InEdges, InTable, Full, Live, OwnerSid

LEMMA BashEndsInv ==
  ASSUME Inv, NEW b, BashEnds(b)
  PROVE  Inv'
<1>1. /\ scopes' = scopes \ {b}
      /\ UNCHANGED <<row, run, call, owner, sent, children, edges, stale, up, restarts, old>>
  BY DEF BashEnds, store, memory
<1>2. Bash'
  BY <1>1 DEF Inv, Bash
<1> QED BY <1>1, <1>2 DEF Inv, Types, Owners, Runs, Sent, Records, Right, Stopping, Recorded,
                          InEdges, InTable, Full, Live, OwnerSid

(* Runs only end or are aborted, rows only stop, and calls under way may    *)
(* end with what they own.                                                  *)
LEMMA WindsDown ==
  ASSUME Distinct, Inv, Types',
         UNCHANGED <<owner, sent, children, edges, stale, up, scopes, restarts>>,
         \A conv \in Convs : \/ run'[conv] = run[conv]
                             \/ run[conv] \in Going /\ run'[conv] \in {"aborting", "ended"}
                             \/ run[conv] = "ended" /\ run'[conv] = "ended",
         \A s \in Sids : Live(s)' => Live(s),
         \A c \in CallIds : \/ call'[c] = call[c]
                            \/ /\ call'[c].at = "done" /\ call[c].at # None
                               /\ call'[c].sid = call[c].sid /\ call'[c].readonly = call[c].readonly
                               /\ \A k \in Kids : owner[k] = c => run'[k] # "live",
         \A c \in CallIds : call'[c].at \in Under => run'[call[c].sid] \in Going,
         \A conv \in old' : run'[conv] \in Going,
         old' \subseteq old, \A conv \in old : run'[conv] \in Going => conv \in old'
  PROVE  Inv'
<1>1. \A k \in Kids : k \in Convs /\ k \notin Sids
  BY DEF Convs, Distinct, Kids
<1>2. \A s \in Sids : s \in Convs
  BY DEF Convs
<1>3. \A k \in Kids : owner[k] # 0 => owner[k] \in CallIds
  BY DEF Inv, Types, CallIds
<1>4. \A c \in CallIds : call'[c].sid = call[c].sid /\ call'[c].readonly = call[c].readonly
  OBVIOUS
<1>5. \A c \in CallIds : (call'[c].at # None <=> call[c].at # None)
  BY DEF None
<1>6. \A conv \in Convs : (run'[conv] # None <=> run[conv] # None)
  BY DEF None, Going
<1>7. \A conv \in Convs : run'[conv] \in Going => run[conv] \in Going
  BY DEF Going
<1>8. \A conv \in Convs : run'[conv] = "live" => run[conv] = "live"
  BY DEF Going
<1>9. Owners'
  <2>1. \A c \in CallIds : call'[c].at \in {"made", "told", "waiting"} => call[c].at = call'[c].at
    OBVIOUS
  <2> QED BY <1>1, <1>3, <1>4, <1>5, <1>6, <2>1 DEF Inv, Owners
<1>10. Runs'
  <2>1. ASSUME NEW k \in Kids, run'[k] = "live" PROVE call'[owner[k]].at \in Under
    <3>1. run[k] = "live" /\ owner[k] # 0
      BY <2>1, <1>1, <1>8 DEF Inv, Owners, None
    <3>2. call[owner[k]].at \in Under
      BY <3>1 DEF Inv, Runs
    <3> QED BY <2>1, <3>1, <3>2, <1>3
  <2> QED BY <2>1, <1>4 DEF Runs
<1>11. Sent'
  BY <1>1, <1>6 DEF Inv, Sent
<1>12. Records'
  <2>1. \A r \in Record : Right(r) => Right(r)'
    BY <1>3, <1>4 DEF Record, Right
  <2>2. (\A r \in children : r \in Record) /\ (\A i \in DOMAIN edges : edges[i] \in Record)
    BY DEF Inv, Types
  <2> QED BY <2>1, <2>2 DEF Inv, Records
<1>13. Stopping'
  BY <1>1, <1>2, <1>6, <1>7, <1>8 DEF Inv, Stopping, Full, Types, Going
<1>14. Recorded'
  <2>1. ASSUME NEW k \in Kids, run'[k] = "live" PROVE InTable(k)' \/ ~Live(OwnerSid(k))'
    <3>1. run[k] = "live" /\ owner[k] # 0
      BY <2>1, <1>1, <1>8 DEF Inv, Owners, None
    <3>2. OwnerSid(k) \in Sids /\ OwnerSid(k)' = OwnerSid(k)
      BY <3>1, <1>1, <1>3, <1>4 DEF OwnerSid, Inv, Owners
    <3>3. Live(OwnerSid(k))' => Live(OwnerSid(k))
      BY <3>2 DEF Live
    <3> QED BY <3>1, <3>3 DEF Inv, Recorded, InTable
  <2>2. ASSUME up # "off", NEW k \in Kids, run'[k] = "live", k \notin old' PROVE InEdges(k)' \/ Full'
    BY <2>2, <1>1, <1>8 DEF Inv, Recorded, InEdges, Full, Going
  <2>3. ASSUME up # "off", NEW k \in Kids, owner[k] # 0, call'[owner[k]].at \in {"told", "waiting"}
        PROVE  InTable(k)' /\ (InEdges(k)' \/ Full')
    <3>1. call[owner[k]].at \in {"told", "waiting"}
      BY <2>3, <1>3
    <3> QED BY <2>3, <3>1 DEF Inv, Recorded, InEdges, InTable, Full
  <2> QED BY <2>1, <2>2, <2>3 DEF Recorded
<1>15. Bash'
  BY DEF Inv, Bash
<1> QED BY <1>9, <1>10, <1>11, <1>12, <1>13, <1>14, <1>15 DEF Inv

LEMMA RunEndsInv ==
  ASSUME Distinct, Inv, NEW conv \in Convs, RunEnds(conv)
  PROVE  Inv'
<1>1. /\ run[conv] \in Going /\ old' = {c \in old : run'[c] \in Going}
      /\ UNCHANGED <<row, owner, sent, children, edges, stale, up, scopes, restarts>>
  BY DEF RunEnds, memory, Going
<1>2. \A k \in Kids : k \in Convs /\ k \notin Sids
  BY DEF Convs, Distinct, Kids
<1>3. \A s \in Sids : s \in Convs /\ s \notin Kids
  BY <1>2 DEF Convs
<1>4. old' \subseteq old /\ \A c \in old : run'[c] \in Going <=> c \in old'
  BY <1>1
<1>5. CASE conv \in Sids
  <2> DEFINE cs == OpenCalls(conv)
  <2>1. /\ call' = [c \in CallIds |-> IF c \in cs THEN [call[c] EXCEPT !.at = "done"] ELSE call[c]]
        /\ run' = [c \in Convs |-> IF c = conv \/ (c \in KidsOf(cs) /\ run[c] # None) THEN "ended" ELSE run[c]]
    BY <1>5 DEF RunEnds
  <2>2. cs = {c \in CallIds : call[c].sid = conv /\ call[c].at \notin {None, "done"}}
    BY DEF OpenCalls
  <2>3. KidsOf(cs) = {k \in Kids : owner[k] \in cs}
    BY DEF KidsOf
  <2> HIDE DEF cs
  <2>4. Types'
    <3>1. call' \in [CallIds -> [at : {None, "start", "made", "told", "waiting", "done"},
                                 sid : Sids \cup {NoConv}, readonly : BOOLEAN]]
      BY ZenonT(60), <2>1 DEF Inv, Types
    <3>2. run' \in [Convs -> {None, "live", "ended", "aborting"}]
      BY <2>1 DEF Inv, Types
    <3> QED BY <3>1, <3>2, <1>1, <1>4 DEF Inv, Types
  <2>5. \A c \in Convs : \/ run'[c] = run[c]
                         \/ run[c] \in Going /\ run'[c] \in {"aborting", "ended"}
                         \/ run[c] = "ended" /\ run'[c] = "ended"
    BY <1>1, <2>1 DEF Inv, Types, Going, None
  <2>6. \A c \in CallIds : \/ call'[c] = call[c]
                           \/ /\ call'[c].at = "done" /\ call[c].at # None
                              /\ call'[c].sid = call[c].sid /\ call'[c].readonly = call[c].readonly
                              /\ \A k \in Kids : owner[k] = c => run'[k] # "live"
    <3> SUFFICES ASSUME NEW c \in cs
                 PROVE  /\ call'[c].at = "done" /\ call[c].at # None
                        /\ call'[c].sid = call[c].sid /\ call'[c].readonly = call[c].readonly
                        /\ \A k \in Kids : owner[k] = c => run'[k] # "live"
      BY <2>1
    <3>1. c \in CallIds /\ call[c].at # None
      BY <2>2
    <3>2. /\ call'[c].at = "done" /\ call'[c].sid = call[c].sid /\ call'[c].readonly = call[c].readonly
      BY <2>1, <3>1 DEF Inv, Types
    <3>3. ASSUME NEW k \in Kids, owner[k] = c PROVE run'[k] # "live"
      BY <3>3, <2>1, <2>3, <1>2 DEF None
    <3> QED BY <3>1, <3>2, <3>3
  <2>7. \A c \in CallIds : call'[c].at \in Under => run'[call[c].sid] \in Going
    <3> SUFFICES ASSUME NEW c \in CallIds, call'[c].at \in Under PROVE run'[call[c].sid] \in Going
      OBVIOUS
    <3>1. c \notin cs
      BY <2>1 DEF Under, Inv, Types
    <3>2. call'[c] = call[c]
      BY <2>1, <3>1
    <3>3. run[call[c].sid] \in Going /\ call[c].sid \in Sids /\ call[c].sid # conv
      BY <3>1, <3>2, <2>2 DEF Inv, Runs, Owners, Under, None
    <3> QED BY <3>3, <2>1, <2>3, <1>3
  <2>8. \A s \in Sids : Live(s)' => Live(s)
    BY <1>1 DEF Live
  <2> QED BY <1>1, <1>4, <2>4, <2>5, <2>6, <2>7, <2>8, WindsDown
<1>6. CASE conv \notin Sids
  <2>1. run' = [run EXCEPT ![conv] = "ended"] /\ call' = call
    BY <1>6 DEF RunEnds
  <2>2. Types'
    BY <2>1, <1>1, <1>4 DEF Inv, Types
  <2>3. \A c \in Convs : run'[c] = IF c = conv THEN "ended" ELSE run[c]
    BY <2>1 DEF Inv, Types
  <2>4. \A c \in Convs : \/ run'[c] = run[c]
                         \/ run[c] \in Going /\ run'[c] \in {"aborting", "ended"}
                         \/ run[c] = "ended" /\ run'[c] = "ended"
    BY <1>1, <2>3
  <2>5. \A c \in CallIds : call'[c].at \in Under => run'[call[c].sid] \in Going
    BY <1>3, <1>6, <2>1, <2>3 DEF Inv, Runs, Owners, Under, None
  <2>6. \A s \in Sids : Live(s)' => Live(s)
    BY <1>1 DEF Live
  <2> QED BY <1>1, <1>4, <2>1, <2>2, <2>4, <2>5, <2>6, WindsDown
<1> QED BY <1>5, <1>6

LEMMA ArchiveInv ==
  ASSUME Distinct, Inv, NEW s \in Sids, Archive(s)
  PROVE  Inv'
<1>1. /\ up = "ready" /\ row' = [row EXCEPT ![s].archived = TRUE]
      /\ run' = [run EXCEPT ![s] = IF run[s] = "live" THEN "aborting" ELSE run[s]]
      /\ UNCHANGED <<call, owner, sent, children, edges, stale, up, scopes, restarts, old>>
  BY DEF Archive, memory
<1>2. s \in Convs
  BY DEF Convs
<1>3. row' \in [Sids -> [archived : BOOLEAN, recent : BOOLEAN]]
      /\ \A t \in Sids : row'[t].recent = row[t].recent /\ (row'[t].archived = row[t].archived \/ row'[t].archived)
  BY <1>1 DEF Inv, Types
<1>4. \A c \in Convs : run'[c] = IF c = s /\ run[s] = "live" THEN "aborting" ELSE run[c]
  BY <1>1 DEF Inv, Types
<1>5. run' \in [Convs -> {None, "live", "ended", "aborting"}]
  BY <1>1 DEF Inv, Types
<1>6. Types'
  BY <1>1, <1>3, <1>5 DEF Inv, Types
<1>7. \A t \in Sids : Live(t)' => Live(t)
  BY <1>3 DEF Live
<1>8. \A c \in CallIds : call'[c].at \in Under => run'[call[c].sid] \in Going
  BY <1>1, <1>4 DEF Inv, Runs, Going, Owners, Under, None, Convs
<1>9. old = {}
  BY <1>1 DEF Inv, Stopping
<1> QED BY <1>1, <1>4, <1>6, <1>7, <1>8, <1>9, WindsDown DEF Going

LEMMA AgesInv ==
  ASSUME Distinct, Inv, NEW s \in Sids, Ages(s)
  PROVE  Inv'
<1>1. /\ up = "off" /\ row' = [row EXCEPT ![s].recent = FALSE]
      /\ UNCHANGED <<run, call, owner, sent, children, edges, stale, up, scopes, restarts, old>>
  BY DEF Ages, memory
<1>2. row' \in [Sids -> [archived : BOOLEAN, recent : BOOLEAN]]
      /\ \A t \in Sids : row'[t].archived = row[t].archived /\ (row'[t].recent => row[t].recent)
  BY <1>1 DEF Inv, Types
<1>3. Types'
  BY <1>1, <1>2 DEF Inv, Types
<1>4. \A t \in Sids : Live(t)' => Live(t)
  BY <1>2 DEF Live
<1>5. Owners' /\ Runs' /\ Sent' /\ Records' /\ Stopping' /\ Bash'
  BY <1>1 DEF Inv, Owners, Runs, Sent, Records, Right, Stopping, Bash
<1>6. Recorded'
  <2> SUFFICES ASSUME NEW k \in Kids, run[k] = "live" PROVE InTable(k)' \/ ~Live(OwnerSid(k))'
    BY <1>1 DEF Recorded
  <2>1. owner[k] \in CallIds
    BY DEF Inv, Types, Owners, CallIds, None
  <2>2. OwnerSid(k) \in Sids /\ OwnerSid(k)' = OwnerSid(k)
    BY <1>1, <2>1 DEF OwnerSid, Inv, Owners, Distinct, Kids, CallIds
  <2>3. Live(OwnerSid(k))' => Live(OwnerSid(k))
    BY <2>2, <1>2 DEF Live
  <2> QED BY <1>1, <2>3 DEF Inv, Recorded, InTable
<1> QED BY <1>3, <1>5, <1>6 DEF Inv

LEMMA AnsweredInv ==
  ASSUME Distinct, Inv, NEW c \in CallIds, Answered(c)
  PROVE  Inv'
<1>1. /\ call[c].at = "waiting" /\ run[Newest(c)] = "ended"
      /\ call' = [call EXCEPT ![c].at = "done"]
      /\ UNCHANGED <<row, run, owner, sent, children, edges, stale, up, scopes, restarts, old>>
  BY DEF Answered, memory
<1>2. call' \in [CallIds -> [at : {None, "start", "made", "told", "waiting", "done"},
                             sid : Sids \cup {NoConv}, readonly : BOOLEAN]]
      /\ call'[c].at = "done" /\ call'[c].sid = call[c].sid /\ call'[c].readonly = call[c].readonly
      /\ \A d \in CallIds \ {c} : call'[d] = call[d]
  BY <1>1 DEF Inv, Types
<1>3. Types'
  BY <1>1, <1>2 DEF Inv, Types
<1>4. \A k \in Kids : owner[k] = c => run'[k] # "live"
  BY <1>1, ChildIs DEF Inv
<1>5. call[c].at # None
  BY <1>1 DEF None
<1>6. \A d \in CallIds : call'[d].at \in Under => run'[call[d].sid] \in Going
  BY <1>1, <1>2 DEF Inv, Runs, Under
<1>7. \A s \in Sids : Live(s)' => Live(s)
  BY <1>1 DEF Live
<1>8. up # "off"
  BY DEF Answered
<1>9. \A conv \in old' : run'[conv] \in Going
  BY <1>1, <1>8 DEF Inv, Stopping
<1>10. \A conv \in Convs : run'[conv] = run[conv]
  BY <1>1
<1>11. \A d \in CallIds : \/ call'[d] = call[d]
                          \/ /\ call'[d].at = "done" /\ call[d].at # None
                             /\ call'[d].sid = call[d].sid /\ call'[d].readonly = call[d].readonly
                             /\ \A k \in Kids : owner[k] = d => run'[k] # "live"
  BY <1>2, <1>4, <1>5
<1> QED BY <1>1, <1>3, <1>6, <1>7, <1>9, <1>10, <1>11, WindsDown

LEMMA TimeOutInv ==
  ASSUME Distinct, Inv, NEW c \in CallIds, TimeOut(c)
  PROVE  Inv'
<1>1. /\ call[c].at = "waiting" /\ run[Newest(c)] \in Going
      /\ run' = [run EXCEPT ![Newest(c)] = "aborting"]
      /\ call' = [call EXCEPT ![c].at = "done"]
      /\ UNCHANGED <<row, owner, sent, children, edges, stale, up, scopes, restarts, old>>
  BY DEF TimeOut, TimedOut, memory, Going
<1>2. call' \in [CallIds -> [at : {None, "start", "made", "told", "waiting", "done"},
                             sid : Sids \cup {NoConv}, readonly : BOOLEAN]]
      /\ call'[c].at = "done" /\ call'[c].sid = call[c].sid /\ call'[c].readonly = call[c].readonly
      /\ \A d \in CallIds \ {c} : call'[d] = call[d]
  BY <1>1 DEF Inv, Types
<1>3. PICK k \in Kids : owner[k] = c
  BY <1>1 DEF Inv, Owners
<1>13. k \in Convs /\ k \notin Sids
  BY DEF Convs, Distinct, Kids
<1>14. Newest(c) = k
  BY <1>3, ChildIs DEF Inv
<1>4. Newest(c) = k /\ k \in Convs /\ k \notin Sids
  BY <1>13, <1>14
<1>5. run' \in [Convs -> {None, "live", "ended", "aborting"}]
      /\ \A conv \in Convs : run'[conv] = IF conv = k THEN "aborting" ELSE run[conv]
  BY <1>1, <1>4 DEF Inv, Types
<1>6. Types'
  BY <1>1, <1>2, <1>5 DEF Inv, Types
<1>7. \A j \in Kids : owner[j] = c => run'[j] # "live"
  BY <1>1, <1>4, <1>5, ChildIs DEF Inv, Convs
<1>8. call[c].at # None
  BY <1>1 DEF None
<1>9. \A d \in CallIds : call'[d].at \in Under => run'[call[d].sid] \in Going
  BY <1>2, <1>4, <1>5 DEF Inv, Runs, Owners, Under, None, Convs
<1>10. \A s \in Sids : Live(s)' => Live(s)
  BY <1>1 DEF Live
<1>11. \A conv \in Convs : run'[conv] = run[conv] \/ (run[conv] \in Going /\ run'[conv] = "aborting")
  BY <1>1, <1>4, <1>5
<1>12. \A conv \in old' : run'[conv] \in Going
  BY <1>1, <1>5 DEF Inv, Stopping, Types, Going, TimeOut
<1> QED BY <1>1, <1>2, <1>6, <1>7, <1>8, <1>9, <1>10, <1>11, <1>12, WindsDown

LEMMA DownInv ==
  ASSUME Distinct, Inv, NEW crash, Down(crash)
  PROVE  Inv'
<1>1. /\ up' = "off" /\ edges' = << >> /\ stale' = {}
      /\ UNCHANGED <<row, run, call, owner, sent, children, old>>
  BY DEF Down, store
<1>2. << >> \in Seq(Record) /\ Len(<< >>) = 0 /\ DOMAIN << >> = {}
  OBVIOUS
<1>3. Types'
  <2>1. 0 <= MaxEdges
    BY DEF Distinct
  <2> QED BY <1>1, <1>2, <2>1 DEF Inv, Types
<1>4. Owners' /\ Runs' /\ Sent' /\ Records'
  BY <1>1, <1>2 DEF Inv, Owners, Runs, Sent, Records, Right
<1>5. Recorded' /\ Stopping' /\ Bash'
  BY <1>1 DEF Inv, Recorded, Stopping, Bash, InTable, Live, OwnerSid
<1> QED BY <1>3, <1>4, <1>5 DEF Inv

LEMMA ReadyInv ==
  ASSUME Inv, Ready
  PROVE  Inv'
<1>1. /\ up = "waiting" /\ \A conv \in stale : run[conv] \notin Going
      /\ up' = "ready" /\ stale' = {}
      /\ UNCHANGED <<row, run, call, owner, sent, children, edges, scopes, restarts, old>>
  BY DEF Ready, store, Going
<1>2. old = {}
  BY <1>1 DEF Inv, Stopping
<1>3. Types' /\ Owners' /\ Runs' /\ Sent' /\ Records' /\ Bash'
  BY <1>1 DEF Inv, Types, Owners, Runs, Sent, Records, Right, Bash
<1>4. Stopping'
  BY <1>1, <1>2 DEF Stopping
<1>5. Recorded'
  BY <1>1 DEF Inv, Recorded, InEdges, InTable, Full, Live, OwnerSid
<1> QED BY <1>3, <1>4, <1>5 DEF Inv

(* A call that moves on, and its session and rights stay.                   *)
LEMMA CallMoves ==
  ASSUME Inv, NEW c \in CallIds, NEW at \in Under, call' = [call EXCEPT ![c].at = at]
  PROVE  /\ call' \in [CallIds -> [at : {None, "start", "made", "told", "waiting", "done"},
                                   sid : Sids \cup {NoConv}, readonly : BOOLEAN]]
         /\ call'[c].at = at /\ call'[c].sid = call[c].sid /\ call'[c].readonly = call[c].readonly
         /\ \A d \in CallIds \ {c} : call'[d] = call[d]
  BY DEF Inv, Types, Under

LEMMA ExecuteInv ==
  ASSUME Distinct, Inv, NEW c \in CallIds, NEW s \in Sids, NEW readonly \in BOOLEAN,
         Execute(c, s, readonly)
  PROVE  Inv'
<1>1. /\ run[s] = "live" /\ call[c].at = None
      /\ call' = [call EXCEPT ![c] = [at |-> "start", sid |-> s, readonly |-> readonly]]
      /\ UNCHANGED <<row, run, owner, sent, children, edges, stale, up, scopes, restarts, old>>
  BY DEF Execute, memory
<1>2. /\ call' \in [CallIds -> [at : {None, "start", "made", "told", "waiting", "done"},
                                sid : Sids \cup {NoConv}, readonly : BOOLEAN]]
      /\ call'[c].at = "start" /\ call'[c].sid = s
      /\ \A d \in CallIds \ {c} : call'[d] = call[d]
  BY <1>1 DEF Inv, Types
<1>3. Types'
  BY <1>1, <1>2 DEF Inv, Types
<1>4. \A k \in Kids : owner[k] # 0 => owner[k] \in CallIds \ {c}
  BY <1>1 DEF Inv, Types, Owners, CallIds
<1>5. Owners'
  BY <1>1, <1>2, <1>4 DEF Inv, Owners, None
<1>6. Runs'
  <2>1. \A k \in Kids : run[k] = "live" => owner[k] # 0
    BY DEF Inv, Owners, None
  <2> QED BY <1>1, <1>2, <1>4, <2>1 DEF Inv, Runs, Going
<1>7. Sent' /\ Stopping' /\ Bash'
  BY <1>1 DEF Inv, Sent, Stopping, Bash, Full, Live
<1>8. Records'
  <2>1. \A r \in Record : Right(r) => Right(r)'
    BY <1>1, <1>2, <1>4 DEF Record, Right
  <2>2. (\A r \in children : r \in Record) /\ (\A i \in DOMAIN edges : edges[i] \in Record)
    BY DEF Inv, Types
  <2> QED BY <1>1, <2>1, <2>2 DEF Inv, Records
<1>9. Recorded'
  <2>1. \A k \in Kids : run[k] = "live" => owner[k] # 0
    BY DEF Inv, Owners, None
  <2>2. \A k \in Kids : owner[k] # 0 => OwnerSid(k)' = OwnerSid(k)
    BY <1>1, <1>2, <1>4 DEF OwnerSid
  <2> QED BY <1>1, <1>2, <1>4, <2>1, <2>2 DEF Inv, Recorded, InEdges, InTable, Full, Live
<1> QED BY <1>3, <1>5, <1>6, <1>7, <1>8, <1>9 DEF Inv

LEMMA CreateInv ==
  ASSUME Distinct, Inv, NEW c \in CallIds, Create(c)
  PROVE  Inv'
<1>1. /\ call[c].at = "start" /\ run[call[c].sid] = "live"
      /\ call' = [call EXCEPT ![c].at = "made"]
      /\ UNCHANGED <<row, run, sent, children, edges, stale, up, scopes, restarts, old>>
  BY DEF Create, memory
<1>2. /\ call' \in [CallIds -> [at : {None, "start", "made", "told", "waiting", "done"},
                                sid : Sids \cup {NoConv}, readonly : BOOLEAN]]
      /\ call'[c].at = "made" /\ call'[c].sid = call[c].sid /\ call'[c].readonly = call[c].readonly
      /\ \A d \in CallIds \ {c} : call'[d] = call[d]
  BY <1>1, CallMoves DEF Under
<1>3. \/ owner' = owner /\ \E k \in Kids : owner[k] = c
      \/ /\ \A k \in Kids : owner[k] # c
         /\ \E k \in Kids : owner[k] = 0 /\ owner' = [owner EXCEPT ![k] = c]
  BY DEF Create, Owned, KidsOf
<1>4. PICK k \in Kids :
        /\ owner' \in [Kids -> 0 .. MaxCalls] /\ owner'[k] = c
        /\ \A j \in Kids \ {k} : owner'[j] = owner[j] /\ owner[j] # c
        /\ owner[k] = c \/ owner[k] = 0
  <2>1. c \in 0 .. MaxCalls
    BY DEF CallIds
  <2>2. owner \in [Kids -> 0 .. MaxCalls]
    BY DEF Inv, Types
  <2>3. CASE owner' = owner /\ \E k \in Kids : owner[k] = c
    <3>1. c # 0
      BY DEF CallIds
    <3>2. PICK k \in Kids : owner[k] = c
      BY <2>3
    <3>3. \A j \in Kids \ {k} : owner[j] # c
      BY <3>1, <3>2 DEF Inv, Owners
    <3> QED BY <2>2, <2>3, <3>2, <3>3
  <2>4. CASE /\ \A k \in Kids : owner[k] # c
             /\ \E k \in Kids : owner[k] = 0 /\ owner' = [owner EXCEPT ![k] = c]
    <3>1. PICK k \in Kids : owner[k] = 0 /\ owner' = [owner EXCEPT ![k] = c]
      BY <2>4
    <3>2. owner' \in [Kids -> 0 .. MaxCalls] /\ owner'[k] = c /\ \A j \in Kids \ {k} : owner'[j] = owner[j]
      BY <2>1, <2>2, <3>1
    <3> QED BY <2>4, <3>1, <3>2
  <2> QED BY <1>3, <2>3, <2>4
<1>5. \A j \in Kids : owner[j] # 0 => owner'[j] = owner[j] /\ owner[j] \in CallIds
  BY <1>4 DEF Inv, Types, CallIds
<1>6. \A d \in CallIds : call'[d].sid = call[d].sid /\ call'[d].readonly = call[d].readonly
  BY <1>2
<1>7. Types'
  BY <1>1, <1>2, <1>4 DEF Inv, Types
<1>8. Owners'
  <2>1. \A j \in Kids : owner'[j] # 0 => owner'[j] \in CallIds /\ call'[owner'[j]].at # None
    BY <1>2, <1>4, <1>5 DEF Inv, Owners, None
  <2>2. \A i, j \in Kids : owner'[i] = owner'[j] /\ owner'[i] # 0 => i = j
    BY <1>4 DEF Inv, Owners
  <2>3. \A d \in CallIds : call'[d].at \in {"made", "told", "waiting"} => \E j \in Kids : owner'[j] = d
    <3> SUFFICES ASSUME NEW d \in CallIds, call'[d].at \in {"made", "told", "waiting"}
                 PROVE  \E j \in Kids : owner'[j] = d
      OBVIOUS
    <3>1. CASE d = c
      BY <3>1, <1>4
    <3>2. CASE d # c
      <4>1. PICK j \in Kids : owner[j] = d
        BY <3>2, <1>2 DEF Inv, Owners
      <4>2. d # 0
        BY DEF CallIds
      <4> QED BY <4>1, <4>2, <1>5
    <3> QED BY <3>1, <3>2
  <2>4. \A d \in CallIds : call'[d].at # None => call'[d].sid \in Sids
    BY <1>1, <1>2 DEF Inv, Owners, None
  <2>5. \A j \in Kids : run'[j] # None => owner'[j] # 0
    BY <1>1, <1>5 DEF Inv, Owners
  <2> QED BY <2>1, <2>2, <2>3, <2>4, <2>5 DEF Owners
<1>9. Runs'
  <2>1. \A j \in Kids : run[j] = "live" => owner[j] # 0
    BY DEF Inv, Owners, None
  <2> QED BY <1>1, <1>2, <1>5, <2>1 DEF Inv, Runs, Going, Under
<1>10. Sent'
  <2>1. \A j \in Kids : run[j] # None => owner'[j] = owner[j]
    BY <1>5 DEF Inv, Owners
  <2> QED BY <1>1, <2>1 DEF Inv, Sent
<1>11. Records'
  <2>1. \A r \in Record : Right(r) => Right(r)'
    BY <1>5, <1>6 DEF Record, Right
  <2>2. (\A r \in children : r \in Record) /\ (\A i \in DOMAIN edges : edges[i] \in Record)
    BY DEF Inv, Types
  <2> QED BY <1>1, <2>1, <2>2 DEF Inv, Records
<1>12. Stopping' /\ Bash'
  BY <1>1 DEF Inv, Stopping, Bash, Full, Live
<1>13. Recorded'
  <2>1. \A j \in Kids : run[j] = "live" => owner[j] # 0
    BY DEF Inv, Owners, None
  <2>2. \A j \in Kids : owner[j] # 0 => OwnerSid(j)' = OwnerSid(j)
    BY <1>5, <1>6 DEF OwnerSid
  <2>3. \A j \in Kids : /\ owner'[j] # 0 /\ call'[owner'[j]].at \in {"told", "waiting"} =>
                            owner[j] # 0 /\ call[owner[j]].at \in {"told", "waiting"}
    BY <1>2, <1>4, <1>5 DEF Inv, Types, CallIds
  <2>4. \A j \in Kids : run[j] = "live" => (Live(OwnerSid(j))' <=> Live(OwnerSid(j)))
    BY <1>1, <2>1, <2>2 DEF Live
  <2> QED BY <1>1, <2>3, <2>4 DEF Inv, Recorded, InEdges, InTable, Full
<1> QED BY <1>7, <1>8, <1>9, <1>10, <1>11, <1>12, <1>13 DEF Inv

LEMMA TellInv ==
  ASSUME Distinct, Inv, NEW c \in CallIds, Tell(c)
  PROVE  Inv'
<1>21. PICK k \in Kids : owner[k] = c
  BY DEF Tell, Inv, Owners
<1>2. k \in Kids /\ owner[k] = c /\ c # 0 /\ Newest(c) = k
  <2>1. c # 0
    BY DEF CallIds
  <2>2. Types /\ Owners
    BY DEF Inv
  <2>3. Newest(c) = k
    BY <1>21, <2>2, ChildIs
  <2> QED BY <1>21, <2>1, <2>3
<1>22. PICK e : e = RecordOf(c)
  OBVIOUS
<1>1. /\ up # "off" /\ call[c].at = "made"
      /\ edges' = Noted(edges, e)
      /\ children' = {r \in children : r.kid # k} \cup {e}
      /\ call' = [call EXCEPT ![c].at = "told"]
      /\ UNCHANGED <<row, run, owner, sent, stale, up, scopes, restarts, old>>
  BY <1>2, <1>22 DEF Tell, RecordOf
<1>3. e = [kid |-> k, parent |-> call[c].sid, readonly |-> call[c].readonly]
  BY <1>2, <1>22 DEF RecordOf
<1>4. e \in Record
  BY <1>1, <1>2, <1>3 DEF Record, Inv, Types, Owners, None
<1>5. e.kid = k /\ Right(e)
  BY <1>2, <1>3 DEF Right
<1>6. /\ call' \in [CallIds -> [at : {None, "start", "made", "told", "waiting", "done"},
                                sid : Sids \cup {NoConv}, readonly : BOOLEAN]]
      /\ call'[c].at = "told" /\ call'[c].sid = call[c].sid /\ call'[c].readonly = call[c].readonly
      /\ \A d \in CallIds \ {c} : call'[d] = call[d]
  BY <1>1, CallMoves DEF Under
<1>7. /\ edges' \in Seq(Record) /\ Len(edges') <= MaxEdges
      /\ Full => Len(edges') = MaxEdges
      /\ \A i \in DOMAIN edges' : edges'[i] = e \/ \E j \in DOMAIN edges : edges'[i] = edges[j]
      /\ \A i, j \in DOMAIN edges' : edges'[i].kid = edges'[j].kid => i = j
      /\ \E i \in DOMAIN edges' : edges'[i].kid = k
      /\ \/ Len(edges') = MaxEdges
         \/ \A i \in DOMAIN edges : \E j \in DOMAIN edges' : edges'[j].kid = edges[i].kid
  <2>1. /\ edges \in Seq(Record) /\ Len(edges) <= MaxEdges
        /\ \A i, j \in DOMAIN edges : edges[i].kid = edges[j].kid => i = j
    BY DEF Inv, Types, Records
  <2>2. Len(edges) = MaxEdges <=> Full
    BY DEF Full
  <2> DEFINE new == Noted(edges, e)
  <2>3. /\ new \in Seq(Record) /\ Len(new) <= MaxEdges
        /\ Len(edges) = MaxEdges => Len(new) = MaxEdges
        /\ \A i \in DOMAIN new : new[i] = e \/ \E j \in DOMAIN edges : new[i] = edges[j]
        /\ \A i, j \in DOMAIN new : new[i].kid = new[j].kid => i = j
        /\ \E i \in DOMAIN new : new[i].kid = e.kid
        /\ \/ Len(new) = MaxEdges
           \/ \A i \in DOMAIN edges : \E j \in DOMAIN new : new[j].kid = edges[i].kid
    BY <1>4, <2>1, NotedRight
  <2>4. edges' = new /\ e.kid = k
    BY <1>1, <1>5
  <2> HIDE DEF new
  <2> QED BY <2>2, <2>3, <2>4
<1>8. children' \subseteq Record /\ (\A j \in Kids : InTable(j) => InTable(j)') /\ InTable(k)'
  <2>1. \A r \in children : r \in Record
    BY DEF Inv, Types
  <2>2. \A r \in children : r \in children' \/ r.kid = k
    BY <1>1
  <2>3. e \in children' /\ e.kid = k
    BY <1>1, <1>5
  <2> QED BY <1>1, <1>4, <2>1, <2>2, <2>3 DEF InTable
<1>9. Types'
  BY <1>1, <1>6, <1>7, <1>8 DEF Inv, Types
<1>10. \A d \in CallIds : call'[d].sid = call[d].sid /\ call'[d].readonly = call[d].readonly
  BY <1>6
<1>11. \A j \in Kids : owner[j] # 0 => owner[j] \in CallIds
  BY DEF Inv, Types, CallIds
<1>12. Owners'
  <2>1. \A j \in Kids : owner[j] # 0 => call'[owner[j]].at # None
    BY <1>6, <1>11 DEF Inv, Owners, None
  <2>2. \A d \in CallIds : call'[d].at \in {"made", "told", "waiting"} => \E j \in Kids : owner[j] = d
    BY <1>2, <1>6 DEF Inv, Owners
  <2>3. \A d \in CallIds : call'[d].at # None => call'[d].sid \in Sids
    BY <1>1, <1>6 DEF Inv, Owners, None
  <2> QED BY <1>1, <2>1, <2>2, <2>3 DEF Inv, Owners
<1>13. Runs'
  <2>1. \A j \in Kids : run[j] = "live" => owner[j] # 0
    BY DEF Inv, Owners, None
  <2> QED BY <1>1, <1>6, <1>11, <2>1 DEF Inv, Runs, Going, Under
<1>14. Sent' /\ Bash'
  BY <1>1 DEF Inv, Sent, Bash
<1>15. Records'
  <2>1. \A r \in Record : Right(r) => Right(r)'
    BY <1>1, <1>10, <1>11 DEF Record, Right
  <2>2. (\A r \in children : r \in Record) /\ (\A i \in DOMAIN edges : edges[i] \in Record)
    BY DEF Inv, Types
  <2>3. \A r \in children' : r = e \/ r \in children
    BY <1>1
  <2>4. \A r \in children' : Right(r)'
    BY <1>4, <1>5, <2>1, <2>2, <2>3 DEF Inv, Records
  <2>5. \A i \in DOMAIN edges' : \E r \in Record : edges'[i] = r /\ Right(r)'
    <3> SUFFICES ASSUME NEW i \in DOMAIN edges' PROVE \E r \in Record : edges'[i] = r /\ Right(r)'
      OBVIOUS
    <3>1. edges'[i] = e \/ \E j \in DOMAIN edges : edges'[i] = edges[j]
      BY <1>7
    <3>2. \E r \in Record : edges'[i] = r /\ Right(r)
      BY <1>4, <1>5, <2>2, <3>1 DEF Inv, Records
    <3> QED BY <2>1, <3>2
  <2>6. \A i, j \in DOMAIN edges' : edges'[i].kid = edges'[j].kid => i = j
    BY <1>7
  <2>7. \A i \in DOMAIN edges' : /\ owner'[edges'[i].kid] # 0
                                 /\ edges'[i].parent = call'[owner'[edges'[i].kid]].sid
                                 /\ edges'[i].readonly = call'[owner'[edges'[i].kid]].readonly
    BY <2>5 DEF Right
  <2> QED BY <2>4, <2>6, <2>7 DEF Records, Right
<1>16. Stopping'
  BY <1>1, <1>7 DEF Inv, Stopping, Full, Live
<1>17. \A j \in Kids : InEdges(j) => InEdges(j)' \/ Full'
  BY <1>7 DEF InEdges, Full
<1>18. Full => Full'
  BY <1>7 DEF Full
<1>19. InEdges(k)'
  BY <1>7 DEF InEdges
<1>20. Recorded'
  <2>1. \A j \in Kids : run[j] = "live" => owner[j] # 0
    BY DEF Inv, Owners, None
  <2>2. \A j \in Kids : owner[j] # 0 => OwnerSid(j)' = OwnerSid(j)
    BY <1>1, <1>10, <1>11 DEF OwnerSid
  <2>3. \A j \in Kids : run[j] = "live" => (Live(OwnerSid(j))' <=> Live(OwnerSid(j)))
    BY <1>1, <2>1, <2>2 DEF Live
  <2>4. ASSUME NEW j \in Kids, owner[j] # 0, call'[owner[j]].at \in {"told", "waiting"}
        PROVE  InTable(j)' /\ (InEdges(j)' \/ Full')
    <3>1. CASE owner[j] = c
      <4>1. j = k
        BY <3>1, <1>2 DEF Inv, Owners
      <4> QED BY <4>1, <1>8, <1>19
    <3>2. CASE owner[j] # c
      <4>1. call[owner[j]].at \in {"told", "waiting"}
        BY <2>4, <3>2, <1>6, <1>11
      <4> QED BY <2>4, <4>1, <1>1, <1>8, <1>17, <1>18 DEF Inv, Recorded
    <3> QED BY <3>1, <3>2
  <2> QED BY <1>1, <1>8, <1>17, <1>18, <2>3, <2>4 DEF Inv, Recorded
<1> QED BY <1>9, <1>12, <1>13, <1>14, <1>15, <1>16, <1>20 DEF Inv

LEMMA SubmitInv ==
  ASSUME Distinct, Inv, NEW c \in CallIds, Submit(c)
  PROVE  Inv'
<1> DEFINE k == Newest(c)
<1>1. /\ up # "off" /\ call[c].at = "told" /\ run[call[c].sid] = "live"
      /\ call' = [call EXCEPT ![c].at = "waiting"]
      /\ IF run[k] = None
         THEN run' = [run EXCEPT ![k] = "live"] /\ sent' = [sent EXCEPT ![c] = sent[c] + 1]
         ELSE UNCHANGED <<run, sent>>
      /\ UNCHANGED <<row, owner, children, edges, stale, up, scopes, restarts, old>>
  BY DEF Submit, memory
<1>2. k \in Kids /\ owner[k] = c /\ c # 0
  <2>1. PICK j \in Kids : owner[j] = c
    BY <1>1 DEF Inv, Owners
  <2>2. k = j
    BY <2>1, ChildIs DEF Inv
  <2> QED BY <2>1, <2>2 DEF CallIds
<1> HIDE DEF k
<1>3. k \in Convs /\ k \notin Sids /\ \A j \in Kids : j \in Convs
  BY <1>2 DEF Convs, Distinct, Kids
<1>4. /\ call' \in [CallIds -> [at : {None, "start", "made", "told", "waiting", "done"},
                                sid : Sids \cup {NoConv}, readonly : BOOLEAN]]
      /\ call'[c].at = "waiting" /\ call'[c].sid = call[c].sid /\ call'[c].readonly = call[c].readonly
      /\ \A d \in CallIds \ {c} : call'[d] = call[d]
  BY <1>1, CallMoves DEF Under
<1>5. /\ run' \in [Convs -> {None, "live", "ended", "aborting"}]
      /\ \A conv \in Convs \ {k} : run'[conv] = run[conv]
      /\ run'[k] = (IF run[k] = None THEN "live" ELSE run[k])
  BY <1>1, <1>3 DEF Inv, Types
<1>6. /\ sent' \in [CallIds -> Nat] /\ \A d \in CallIds \ {c} : sent'[d] = sent[d]
      /\ sent'[c] = (IF run[k] = None THEN sent[c] + 1 ELSE sent[c])
  BY <1>1 DEF Inv, Types
<1>7. Types'
  BY <1>1, <1>4, <1>5, <1>6 DEF Inv, Types
<1>8. \A d \in CallIds : call'[d].sid = call[d].sid /\ call'[d].readonly = call[d].readonly
  BY <1>4
<1>9. \A j \in Kids : owner[j] # 0 => owner[j] \in CallIds
  BY DEF Inv, Types, CallIds
<1>10. Owners'
  <2>1. \A j \in Kids : owner[j] # 0 => call'[owner[j]].at # None
    BY <1>4, <1>9 DEF Inv, Owners, None
  <2>2. \A d \in CallIds : call'[d].at \in {"made", "told", "waiting"} => \E j \in Kids : owner[j] = d
    BY <1>2, <1>4 DEF Inv, Owners
  <2>3. \A d \in CallIds : call'[d].at # None => call'[d].sid \in Sids
    BY <1>1, <1>4 DEF Inv, Owners, None
  <2>4. \A j \in Kids : run'[j] # None => owner[j] # 0
    BY <1>2, <1>3, <1>5 DEF Inv, Owners
  <2> QED BY <1>1, <2>1, <2>2, <2>3, <2>4 DEF Inv, Owners
<1>11. Runs'
  <2>1. \A j \in Kids : run'[j] = "live" => owner[j] # 0 /\ (j = k \/ run[j] = "live")
    BY <1>2, <1>3, <1>5 DEF Inv, Owners, None
  <2>2. \A j \in Kids : run'[j] = "live" => call'[owner[j]].at \in Under
    BY <1>2, <1>4, <1>9, <2>1 DEF Inv, Runs, Under
  <2>3. \A d \in CallIds : call'[d].at \in Under => call[d].at \in Under
    BY <1>1, <1>4 DEF Under
  <2>4. \A d \in CallIds : call'[d].at \in Under => run'[call'[d].sid] \in Going
    BY <1>3, <1>5, <1>8, <2>3 DEF Inv, Runs, Owners, Under, None, Convs
  <2> QED BY <1>1, <2>2, <2>4 DEF Runs
<1>12. Sent'
  <2>1. \A d \in CallIds : sent[d] \in Nat
    BY DEF Inv, Types
  <2>2. sent'[c] <= 1 /\ (sent'[c] # 0 => \E j \in Kids : owner[j] = c /\ run'[j] # None)
    <3>1. CASE run[k] = None
      <4>1. sent[c] = 0
        <5> SUFFICES ASSUME sent[c] # 0 PROVE FALSE
          OBVIOUS
        <5>1. PICK j \in Kids : owner[j] = c /\ run[j] # None
          BY DEF Inv, Sent
        <5>2. j = k
          BY <5>1, <1>2 DEF Inv, Owners
        <5> QED BY <3>1, <5>1, <5>2
      <4>2. run'[k] # None
        BY <3>1, <1>5 DEF None
      <4> QED BY <3>1, <4>1, <4>2, <1>2, <1>6
    <3>2. CASE run[k] # None
      <4>1. sent'[c] = sent[c] /\ run'[k] # None
        BY <3>2, <1>5, <1>6
      <4> QED BY <4>1, <1>2 DEF Inv, Sent
    <3> QED BY <3>1, <3>2
  <2>3. ASSUME NEW d \in CallIds \ {c}
        PROVE  sent'[d] <= 1 /\ (sent'[d] # 0 => \E j \in Kids : owner[j] = d /\ run'[j] # None)
    <3>1. sent'[d] = sent[d] /\ sent[d] <= 1
      BY <1>6 DEF Inv, Sent
    <3>2. ASSUME sent[d] # 0 PROVE \E j \in Kids : owner[j] = d /\ run'[j] # None
      <4>1. PICK j \in Kids : owner[j] = d /\ run[j] # None
        BY <3>2 DEF Inv, Sent
      <4>2. j # k
        BY <4>1, <1>2
      <4>3. run'[j] = run[j]
        BY <4>2, <1>3, <1>5
      <4> QED BY <4>1, <4>3
    <3> QED BY <3>1, <3>2
  <2> QED BY <1>1, <2>2, <2>3 DEF Sent
<1>13. Records'
  <2>1. \A r \in Record : Right(r) => Right(r)'
    BY <1>1, <1>8, <1>9 DEF Record, Right
  <2>2. (\A r \in children : r \in Record) /\ (\A i \in DOMAIN edges : edges[i] \in Record)
    BY DEF Inv, Types
  <2> QED BY <1>1, <2>1, <2>2 DEF Inv, Records
<1>14. Stopping'
  <2>1. k \in stale => run[k] # None
    BY <1>1, <1>2 DEF Inv, Stopping
  <2>2. \A conv \in Convs : conv \in stale \/ conv \in Sids => run'[conv] = run[conv]
    BY <1>3, <1>5, <2>1
  <2>3. old \subseteq stale
    BY <1>1 DEF Inv, Stopping
  <2> QED BY <1>1, <1>3, <2>2, <2>3 DEF Inv, Types, Stopping, Full, Live, Convs
<1>15. Recorded' /\ Bash'
  <2>1. /\ InTable(k) /\ (InEdges(k) \/ Full)
    BY <1>1, <1>2 DEF Inv, Recorded
  <2>2. \A j \in Kids : run'[j] = "live" => j = k \/ run[j] = "live"
    BY <1>3, <1>5
  <2>3. \A j \in Kids : run[j] = "live" => owner[j] # 0
    BY DEF Inv, Owners, None
  <2>4. \A j \in Kids : owner[j] # 0 => OwnerSid(j)' = OwnerSid(j)
    BY <1>1, <1>8, <1>9 DEF OwnerSid
  <2>5. \A j \in Kids : run[j] = "live" => (Live(OwnerSid(j))' <=> Live(OwnerSid(j)))
    BY <1>1, <2>3, <2>4 DEF Live
  <2>6. \A j \in Kids : owner[j] # 0 /\ call'[owner[j]].at \in {"told", "waiting"} =>
                          call[owner[j]].at \in {"told", "waiting"}
    BY <1>1, <1>4, <1>9
  <2>7. \A j \in Kids : (InTable(j)' <=> InTable(j)) /\ (InEdges(j)' <=> InEdges(j)) /\ (Full' <=> Full)
    BY <1>1 DEF InTable, InEdges, Full
  <2>8. Recorded'
    BY <1>1, <2>1, <2>2, <2>5, <2>6, <2>7 DEF Inv, Recorded
  <2> QED BY <1>1, <2>8 DEF Inv, Bash
<1> QED BY <1>7, <1>10, <1>11, <1>12, <1>13, <1>14, <1>15 DEF Inv

(* The workspace of a conversation is the one its only edge names.          *)
LEMMA RootRight ==
  ASSUME Distinct, NEW es \in Seq(Record), NEW conv \in Convs,
         \A i, j \in DOMAIN es : es[i].kid = es[j].kid => i = j
  PROVE  /\ conv \in Sids => Root(conv, es) = conv
         /\ conv \notin Sids /\ (\A i \in DOMAIN es : es[i].kid # conv) => Root(conv, es) = NoConv
         /\ conv \notin Sids => \A i \in DOMAIN es : es[i].kid = conv => Root(conv, es) = es[i].parent
         /\ Root(conv, es) \in Sids \cup {NoConv}
<1>1. Range(es) = {es[i] : i \in DOMAIN es} /\ \A i \in DOMAIN es : es[i] \in Record
  BY DEF Range
<1>2. conv \in Sids => Root(conv, es) = conv
  BY DEF Root
<1>3. conv \notin Sids /\ (\A i \in DOMAIN es : es[i].kid # conv) => Root(conv, es) = NoConv
  BY <1>1 DEF Root
<1>4. ASSUME conv \notin Sids, NEW i \in DOMAIN es, es[i].kid = conv
      PROVE  Root(conv, es) = es[i].parent /\ es[i].parent \in Sids
  <2>1. es[i] \in Range(es) /\ \A e \in Range(es) : e.kid = conv => e = es[i]
    BY <1>1, <1>4
  <2> DEFINE one == CHOOSE e \in Range(es) : e.kid = conv
  <2>2. one = es[i]
    BY <2>1, <1>4
  <2>3. Root(conv, es) = one.parent
    BY <1>4, <2>1 DEF Root
  <2> HIDE DEF one
  <2> QED BY <2>2, <2>3, <1>1 DEF Record
<1>5. Root(conv, es) \in Sids \cup {NoConv}
  BY <1>2, <1>3, <1>4
<1> QED BY <1>2, <1>3, <1>4, <1>5

(* A start aborts, or keeps as stale, exactly the runs that do not go on:   *)
(* the edge of a child of a live session is loaded, or the memory is full.  *)
LEMMA StartInv ==
  ASSUME Distinct, Inv, Start
  PROVE  Inv'
<1> DEFINE tasks == {conv \in Convs : run[conv] \in Going}
<1>es. PICK es : es = Loaded(children)
  OBVIOUS
<1>late. PICK late : late = {conv \in tasks : StaleRun(conv, es)}
  OBVIOUS
<1>loaded. edges' = es /\ late = {conv \in tasks : StaleRun(conv, edges')}
  BY <1>es, <1>late DEF Start
<1>failed. PICK failed \in SUBSET late :
         run' = [conv \in Convs |-> IF conv \in late \ failed THEN "aborting" ELSE run[conv]]
  BY <1>loaded DEF Start, Going
<1>kept. /\ stale' = late \cup ({Root(conv, edges') : conv \in late} \ {NoConv})
       /\ old' = {conv \in tasks : ~Live(OwnerSid(conv))}
       /\ up' = (IF late = {} THEN "ready" ELSE "waiting")
  BY <1>loaded DEF Start, Going
<1>roots. {Root(conv, edges') : conv \in late} = {Root(conv, es) : conv \in late}
  BY <1>loaded
<1>1. /\ es = Loaded(children)
      /\ late = {conv \in tasks : StaleRun(conv, es)}
      /\ failed \subseteq late
      /\ run' = [conv \in Convs |-> IF conv \in late \ failed THEN "aborting" ELSE run[conv]]
      /\ stale' = late \cup ({Root(conv, es) : conv \in late} \ {NoConv})
      /\ old' = {conv \in tasks : ~Live(OwnerSid(conv))}
      /\ up' = (IF late = {} THEN "ready" ELSE "waiting")
      /\ edges' = es
  BY <1>es, <1>late, <1>loaded, <1>failed, <1>kept, <1>roots
<1>2. /\ up = "off" /\ scopes' = {}
      /\ children' = {r \in children : Live(r.parent)}
      /\ call' = [c \in CallIds |-> IF call[c].at \in {None, "done"} THEN call[c]
                                    ELSE [call[c] EXCEPT !.at = "start"]]
      /\ UNCHANGED <<row, owner, sent, restarts>>
  BY DEF Start, ScopesCleared
<1>3. /\ es \in Seq(Record) /\ Len(es) <= MaxEdges
      /\ \A i \in DOMAIN es : es[i] \in children /\ Live(es[i].parent)
      /\ \A i, j \in DOMAIN es : es[i].kid = es[j].kid => i = j
      /\ Len(es) = MaxEdges \/ \A r \in children : Live(r.parent) => \E i \in DOMAIN es : es[i].kid = r.kid
  <2>1. children \in SUBSET Record
    BY DEF Inv, Types
  <2> QED BY <1>1, <2>1, LoadedRight
<1>4. \A k \in Kids : k \in Convs /\ k \notin Sids /\ k # NoConv
  BY DEF Convs, Distinct, Kids, NoConv
<1>5. /\ call' \in [CallIds -> [at : {None, "start", "made", "told", "waiting", "done"},
                                sid : Sids \cup {NoConv}, readonly : BOOLEAN]]
      /\ \A c \in CallIds : /\ call'[c].sid = call[c].sid /\ call'[c].readonly = call[c].readonly
                            /\ call'[c].at = (IF call[c].at \in {None, "done"} THEN call[c].at ELSE "start")
  BY <1>2 DEF Inv, Types
<1>6. /\ run' \in [Convs -> {None, "live", "ended", "aborting"}]
      /\ \A conv \in Convs : /\ run'[conv] = "live" => run[conv] = "live"
                             /\ run'[conv] \in Going <=> run[conv] \in Going
                             /\ run'[conv] = None <=> run[conv] = None
  BY <1>1 DEF Inv, Types, Going, None
<1>7. \A conv \in late : conv \in Convs /\ run[conv] \in Going /\ StaleRun(conv, es)
  BY <1>1
<1>8. \A conv \in Convs : /\ conv \in Sids => Root(conv, es) = conv
                          /\ Root(conv, es) \in Sids \cup {NoConv}
  BY <1>3, RootRight
<1>9. Types'
  <2>1. stale' \subseteq Convs
    BY <1>1, <1>7, <1>8 DEF Convs
  <2>2. old' \subseteq Convs /\ up' \in {"off", "waiting", "ready"}
    BY <1>1
  <2>3. children' \subseteq Record
    BY <1>2 DEF Inv, Types
  <2> QED BY <1>1, <1>2, <1>3, <1>5, <1>6, <2>1, <2>2, <2>3 DEF Inv, Types
<1>10. \A k \in Kids : owner[k] # 0 => owner[k] \in CallIds
  BY DEF Inv, Types, CallIds
<1>11. Owners'
  <2>1. \A c \in CallIds : /\ call'[c].at # None <=> call[c].at # None
                           /\ call'[c].at \notin {"made", "told", "waiting"}
    BY <1>5 DEF None, Inv, Types
  <2> QED BY <1>2, <1>4, <1>5, <1>6, <1>10, <2>1 DEF Inv, Owners
<1>12. Runs'
  <2>1. \A c \in CallIds : call'[c].at \in Under <=> call[c].at \in Under
    BY <1>5 DEF None, Under, Inv, Types
  <2>2. \A k \in Kids : run'[k] = "live" => run[k] = "live" /\ owner[k] # 0
    BY <1>4, <1>6 DEF Inv, Owners, None
  <2>3. \A c \in CallIds : call[c].at \in Under => call[c].sid \in Convs
    BY DEF Inv, Owners, Under, None, Convs
  <2> QED BY <1>2, <1>5, <1>6, <1>10, <2>1, <2>2, <2>3 DEF Inv, Runs
<1>13. Sent'
  BY <1>2, <1>4, <1>6 DEF Inv, Sent
<1>14. Records'
  <2>1. \A r \in Record : Right(r) => Right(r)'
    BY <1>2, <1>5, <1>10 DEF Record, Right
  <2>2. \A r \in children : r \in Record /\ Right(r)
    BY DEF Inv, Types, Records
  <2>3. \A r \in children : Right(r)'
    BY <2>1, <2>2
  <2>4. \A r \in children' : Right(r)'
    BY <1>2, <2>3
  <2>5. \A i \in DOMAIN edges' : /\ owner'[edges'[i].kid] # 0
                                 /\ edges'[i].parent = call'[owner'[edges'[i].kid]].sid
                                 /\ edges'[i].readonly = call'[owner'[edges'[i].kid]].readonly
    BY <1>1, <1>3, <2>3 DEF Right
  <2>6. \A i, j \in DOMAIN edges' : edges'[i].kid = edges'[j].kid => i = j
    BY <1>1, <1>3
  <2> QED BY <2>4, <2>5, <2>6 DEF Records, Right
<1>15. \A r \in children : r \in Record /\ r.parent = OwnerSid(r.kid)
  <2>1. \A r \in children : r \in Record /\ r.kid \notin Sids
    BY <1>4 DEF Inv, Types, Record
  <2> QED BY <2>1 DEF Inv, Records, Right, OwnerSid
<1>16. \A k \in Kids : \A i \in DOMAIN es : es[i].kid = k =>
         Root(k, es) = OwnerSid(k) /\ Live(OwnerSid(k)) /\ Root(k, es) # NoConv
  <2> SUFFICES ASSUME NEW k \in Kids, NEW i \in DOMAIN es, es[i].kid = k
               PROVE  Root(k, es) = OwnerSid(k) /\ Live(OwnerSid(k)) /\ Root(k, es) # NoConv
    OBVIOUS
  <2>1. es[i] \in children /\ Live(es[i].parent)
    BY <1>3
  <2>2. es[i].parent = OwnerSid(k) /\ es[i].parent \in Sids
    BY <2>1, <1>15 DEF Record
  <2>3. Root(k, es) = es[i].parent
    BY <1>3, <1>4, RootRight
  <2>4. NoConv \notin Sids
    BY DEF NoConv, Distinct
  <2> QED BY <2>1, <2>2, <2>3, <2>4
<1>17. \A k \in Kids : (\A i \in DOMAIN es : es[i].kid # k) => Root(k, es) = NoConv
  BY <1>3, <1>4, RootRight
<1>18. \A k \in Kids : run[k] = "live" /\ Live(OwnerSid(k)) =>
         /\ \E r \in children : r.kid = k /\ Live(r.parent)
         /\ Len(es) = MaxEdges \/ \E i \in DOMAIN es : es[i].kid = k
  <2> SUFFICES ASSUME NEW k \in Kids, run[k] = "live", Live(OwnerSid(k))
               PROVE  /\ \E r \in children : r.kid = k /\ Live(r.parent)
                      /\ Len(es) = MaxEdges \/ \E i \in DOMAIN es : es[i].kid = k
    OBVIOUS
  <2>1. PICK r \in children : r.kid = k
    BY DEF Inv, Recorded, InTable
  <2>2. Live(r.parent)
    BY <2>1, <1>15
  <2> QED BY <2>1, <2>2, <1>3
<1>19. \A conv \in Convs : OwnerSid(conv)' = OwnerSid(conv) \/ (conv \in Kids /\ owner[conv] = 0)
  BY <1>2, <1>5, <1>10 DEF OwnerSid, Convs
<1>20. \A s : Live(s)' <=> Live(s)
  BY <1>2 DEF Live
<1>21. \A conv \in old' : conv \in Convs /\ run[conv] \in Going /\ ~Live(OwnerSid(conv))
  BY <1>1
<1>22. \A conv \in Convs : run[conv] \in Going /\ ~Live(OwnerSid(conv)) => conv \in old'
  BY <1>1
<1>23. \A s \in Sids : OwnerSid(s) = s /\ s \in Convs /\ s # NoConv
  BY DEF OwnerSid, Convs, Distinct, NoConv
<1>24. \A conv \in late : conv \in stale'
  BY <1>1
<1>25. \A conv \in stale' : conv \in late \/ (conv \in Sids /\ \E k \in late : conv = Root(k, es))
  BY <1>1, <1>7, <1>8
<1> HIDE DEF tasks
<1>26. old' \subseteq late
  <2> SUFFICES ASSUME NEW conv \in old' PROVE conv \in late
    OBVIOUS
  <2>1. StaleRun(conv, es)
    <3>1. CASE conv \in Sids
      BY <3>1, <1>8, <1>21, <1>23 DEF StaleRun
    <3>2. CASE conv \in Kids
      BY <3>2, <1>16, <1>17, <1>21 DEF StaleRun
    <3> QED BY <3>1, <3>2, <1>21 DEF Convs
  <2> QED BY <2>1, <1>1, <1>21 DEF tasks
<1>27. \A s \in stale' \cap Sids : ~Live(s)
  <2> SUFFICES ASSUME NEW s \in stale' \cap Sids PROVE ~Live(s)
    OBVIOUS
  <2>1. CASE s \in late
    BY <2>1, <1>7, <1>8, <1>23 DEF StaleRun
  <2>2. CASE \E k \in late : s = Root(k, es)
    BY <2>2, <1>7, <1>23 DEF StaleRun
  <2> QED BY <2>1, <2>2, <1>25
<1>28. \A k \in stale' \cap Kids : run[k] \in Going /\ (run[k] = "live" => k \in old' \/ Len(es) = MaxEdges)
  <2> SUFFICES ASSUME NEW k \in stale' \cap Kids
               PROVE  run[k] \in Going /\ (run[k] = "live" => k \in old' \/ Len(es) = MaxEdges)
    OBVIOUS
  <2>1. k \in late /\ k \in Convs
    BY <1>4, <1>25
  <2>2. run[k] \in Going /\ (Root(k, es) = NoConv \/ ~Live(Root(k, es)))
    BY <2>1, <1>7 DEF StaleRun
  <2>3. \A i \in DOMAIN es : es[i].kid # k
    BY <2>2, <1>16
  <2> QED BY <2>1, <2>2, <2>3, <1>18, <1>22
<1>29. Full' <=> Len(es) = MaxEdges
  BY <1>1 DEF Full
<1>30. Stopping'
  <2>1. old' \subseteq stale' /\ \A conv \in old' : run'[conv] \in Going
    BY <1>6, <1>21, <1>24, <1>26
  <2>2. up' = "ready" => stale' = {}
    BY <1>1
  <2>3. \A s \in stale' \cap Sids : ~Live(s)' /\ (run'[s] \in Going => s \in old')
    BY <1>6, <1>20, <1>22, <1>23, <1>27
  <2>4. \A k \in stale' \cap Kids : run'[k] # None /\ (run'[k] = "live" => k \in old' \/ Full')
    BY <1>4, <1>6, <1>28, <1>29 DEF Going, None
  <2> QED BY <2>1, <2>2, <2>3, <2>4 DEF Stopping
<1>31. \A k \in Kids : InEdges(k)' <=> \E i \in DOMAIN es : es[i].kid = k
  BY <1>1 DEF InEdges
<1>32. \A k \in Kids : InTable(k)' <=> \E r \in children : r.kid = k /\ Live(r.parent)
  BY <1>2 DEF InTable
<1>33. Recorded'
  <2>1. \A k \in Kids : run'[k] = "live" => run[k] = "live" /\ OwnerSid(k)' = OwnerSid(k)
    BY <1>4, <1>6, <1>19 DEF Inv, Owners, None
  <2>2. \A k \in Kids : run'[k] = "live" => (Live(OwnerSid(k))' <=> Live(OwnerSid(k)))
    BY <1>2, <2>1 DEF Live
  <2>3. \A k \in Kids : run'[k] = "live" => InTable(k)' \/ ~Live(OwnerSid(k))'
    BY <2>1, <2>2, <1>18, <1>32
  <2>4. \A k \in Kids : run'[k] = "live" /\ k \notin old' => InEdges(k)' \/ Full'
    BY <2>1, <1>4, <1>18, <1>22, <1>29, <1>31 DEF Going
  <2>5. \A k \in Kids : owner'[k] # 0 => call'[owner'[k]].at \notin {"told", "waiting"}
    BY <1>2, <1>5, <1>10 DEF None
  <2> QED BY <2>3, <2>4, <2>5 DEF Recorded
<1>34. Bash'
  BY <1>2 DEF Bash
<1> QED BY <1>9, <1>11, <1>12, <1>13, <1>14, <1>30, <1>33, <1>34 DEF Inv

-----------------------------------------------------------------------------
LEMMA NextInv == ASSUME Distinct PROVE Inv /\ [Next]_vars => Inv'
<1> SUFFICES ASSUME Inv, [Next]_vars PROVE Inv'
  OBVIOUS
<1>1. CASE \E s \in Sids : Prompt(s) \/ Archive(s) \/ Ages(s)
  BY <1>1, PromptInv, ArchiveInv, AgesInv
<1>2. CASE \E conv \in Convs : RunEnds(conv) \/ \E w \in BOOLEAN : Tool(conv, w)
  BY <1>2, RunEndsInv, ToolInv
<1>3. CASE \E b \in scopes : BashEnds(b)
  BY <1>3, BashEndsInv
<1>4. CASE \E c \in CallIds : \/ \E s \in Sids, r \in BOOLEAN : Execute(c, s, r)
                              \/ Create(c) \/ Tell(c) \/ Submit(c) \/ Answered(c) \/ TimeOut(c)
  BY <1>4, ExecuteInv, CreateInv, TellInv, SubmitInv, AnsweredInv, TimeOutInv
<1>5. CASE \E crash \in BOOLEAN : Down(crash)
  BY <1>5, DownInv
<1>6. CASE Start
  BY <1>6, StartInv
<1>7. CASE Ready
  BY <1>7, ReadyInv
<1>8. CASE UNCHANGED vars
  BY <1>8 DEF vars, store, memory, Inv, Types, Owners, Runs, Sent, Records, Right, Stopping, Full, Live,
              Recorded, InTable, InEdges, OwnerSid, Bash
<1> QED BY <1>1, <1>2, <1>3, <1>4, <1>5, <1>6, <1>7, <1>8 DEF Next

-----------------------------------------------------------------------------
(* What the guard answers of a state with Inv.                              *)

LEMMA Known ==
  ASSUME Distinct, Inv, NEW conv \in Convs
  PROVE  /\ conv \in Sids => Root(conv, edges) = conv
         /\ conv \notin Sids /\ InEdges(conv) => Root(conv, edges) = OwnerSid(conv) /\ OwnerSid(conv) \in Sids
         /\ conv \notin Sids /\ ~InEdges(conv) => Root(conv, edges) = NoConv
<1>1. edges \in Seq(Record) /\ \A i, j \in DOMAIN edges : edges[i].kid = edges[j].kid => i = j
  BY DEF Inv, Types, Records
<1>2. ASSUME conv \notin Sids, NEW i \in DOMAIN edges, edges[i].kid = conv
      PROVE  Root(conv, edges) = OwnerSid(conv) /\ OwnerSid(conv) \in Sids
  <2>1. Root(conv, edges) = edges[i].parent
    BY <1>1, <1>2, RootRight
  <2>2. edges[i].parent = OwnerSid(conv)
    BY <1>2 DEF Inv, Records, Right, OwnerSid
  <2>3. edges[i] \in Record
    BY <1>1
  <2> QED BY <2>1, <2>2, <2>3 DEF Record
<1> QED BY <1>1, <1>2, RootRight DEF InEdges

(* The edge that gives a child its workspace gives it its role too.         *)
LEMMA InvConfined == ASSUME Distinct, Inv PROVE Confined
<1> SUFFICES ASSUME up # "off", NEW conv \in Convs, NEW writes \in BOOLEAN,
                    run[conv] = "live", GuardAllows(conv, writes)
             PROVE  /\ CwdOf(conv) = OwnerSid(conv) /\ conv \notin old
                    /\ ~(writes /\ conv \in Kids /\ call[owner[conv]].readonly)
  BY DEF Confined
<1>1. /\ conv \notin stale /\ CwdOf(conv) = Root(conv, edges) /\ Root(conv, edges) # NoConv
      /\ ~(writes /\ ReadonlyOf(conv))
  BY DEF GuardAllows, CwdOf
<1>2. conv \notin old
  BY <1>1 DEF Inv, Stopping
<1>3. CwdOf(conv) = OwnerSid(conv)
  BY <1>1, Known DEF OwnerSid
<1>4. ASSUME writes, conv \in Kids, call[owner[conv]].readonly PROVE FALSE
  <2>1. conv \notin Sids
    BY <1>4 DEF Kids, Distinct
  <2>2. PICK i \in DOMAIN edges : edges[i].kid = conv
    BY <1>1, <2>1, Known DEF InEdges
  <2>3. edges[i].readonly
    BY <1>4, <2>2 DEF Inv, Records, Right
  <2>4. edges[i] \in Range(edges)
    BY DEF Range
  <2> QED BY <1>1, <1>4, <2>2, <2>3, <2>4 DEF ReadonlyOf
<1> QED BY <1>2, <1>3, <1>4

(* Neither a conversation that goes on nor its session's is stale.          *)
LEMMA InvKnown == ASSUME Distinct, Inv PROVE WorkspaceKnown
<1> SUFFICES ASSUME up # "off", NEW conv \in Convs, run[conv] = "live", ~Full,
                    conv \notin old, OwnerSid(conv) \notin old
             PROVE  CwdOf(conv) # NoConv
  BY DEF WorkspaceKnown, Full
<1>1. conv \notin stale
  BY DEF Inv, Stopping, Convs, Going
<1>2. Root(conv, edges) = OwnerSid(conv) /\ OwnerSid(conv) \in Sids /\ run[OwnerSid(conv)] \in Going
  <2>1. CASE conv \in Sids
    BY <2>1, Known DEF OwnerSid, Going
  <2>2. CASE conv \notin Sids
    <3>1. conv \in Kids
      BY <2>2 DEF Convs
    <3>2. InEdges(conv)
      BY <3>1 DEF Inv, Recorded
    <3>3. owner[conv] \in CallIds
      BY <3>1 DEF Inv, Types, Owners, None, CallIds
    <3>4. OwnerSid(conv) = call[owner[conv]].sid /\ call[owner[conv]].at \in Under
      BY <2>2, <3>1 DEF OwnerSid, Inv, Runs
    <3> QED BY <2>2, <3>2, <3>3, <3>4, Known DEF Inv, Runs
  <2> QED BY <2>1, <2>2
<1>3. OwnerSid(conv) \notin stale
  BY <1>2 DEF Inv, Stopping
<1>4. OwnerSid(conv) # NoConv
  BY <1>2 DEF NoConv, Distinct
<1> QED BY <1>1, <1>2, <1>3, <1>4 DEF CwdOf

(* The invariant holds in every state: a step of a run, of a call, of a     *)
(* restart or of the pi-durable store keeps each part of it.                *)
THEOREM AlwaysInv == ASSUME Distinct PROVE Spec => []Inv
<1>1. Init => Inv
  BY InitInv
<1>2. Inv /\ [Next]_vars => Inv'
  BY NextInv
<1> QED BY <1>1, <1>2, PTL DEF Spec

(* Whatever is called, stopped, aged or restarted: the guard allows a tool  *)
(* call only in the workspace of the session that owns the conversation, a  *)
(* read-only child never writes, no stale run calls a tool, a run that goes *)
(* on finds its workspace, a task is sent once and no bash of an earlier    *)
(* process runs beside it (provider.mjs:372-403, 591-668, subagent.mjs).    *)
THEOREM AgentsKept ==
  ASSUME Distinct
  PROVE  Spec => [](Confined /\ WorkspaceKnown /\ TaskSentOnce /\ NoBashLeft)
<1>1. Inv => Confined /\ WorkspaceKnown /\ TaskSentOnce /\ NoBashLeft
  <2> SUFFICES ASSUME Inv PROVE Confined /\ WorkspaceKnown /\ TaskSentOnce /\ NoBashLeft
    OBVIOUS
  <2>1. Confined /\ WorkspaceKnown
    BY InvConfined, InvKnown
  <2>2. TaskSentOnce /\ NoBashLeft
    BY DEF Inv, Sent, Bash, TaskSentOnce, NoBashLeft
  <2> QED BY <2>1, <2>2
<1>2. Spec => []Inv
  BY AlwaysInv
<1> QED BY <1>1, <1>2, PTL

-----------------------------------------------------------------------------
CONSTANTS Toggles, Worktrees, MaxStarts, MaxSets, Mishaps
VARIABLES factory, child, mode, commands, toggle, made, tree, trust, guarded, trusted, watch,
          guard, again, known

Fac == INSTANCE LcFactory WITH Happens <- Mishaps

-----------------------------------------------------------------------------
(* The factory's toggle.  The mode a child will have when it has taken the   *)
(* commands sent to it.                                                      *)
Heading == IF commands = << >> THEN mode ELSE commands[Len(commands)]

Modes == {"ask", "orchestration"}

ToggleInv ==
  /\ mode \in Modes /\ commands \in Seq(Modes)
  /\ child = "start" => commands = << >> /\ mode = "ask"
  /\ child \in {"sent", "up"} => Heading = Fac!ModeOf(factory)
  /\ child \in {"none", "start", "sent", "up"}

(* A command that is sent is where the child is heading; taking one leaves   *)
(* it there.                                                                 *)
LEMMA HeadingSent ==
  ASSUME NEW c \in Seq(Modes), NEW m \in Modes
  PROVE  /\ Append(c, m) \in Seq(Modes) /\ Append(c, m) # << >>
         /\ Append(c, m)[Len(Append(c, m))] = m
  OBVIOUS

LEMMA HeadingTaken ==
  ASSUME NEW c \in Seq(Modes), c # << >>
  PROVE  /\ Head(c) \in Modes /\ Tail(c) \in Seq(Modes)
         /\ Tail(c) = << >> => Head(c) = c[Len(c)]
         /\ Tail(c) # << >> => Tail(c)[Len(Tail(c))] = c[Len(c)]
<1>1. Len(c) \in Nat /\ Len(c) > 0 /\ Tail(c) \in Seq(Modes) /\ Len(Tail(c)) = Len(c) - 1
      /\ Head(c) = c[1] /\ \A i \in 1 .. Len(c) - 1 : Tail(c)[i] = c[i + 1]
  BY HeadTailProperties
<1>2. c[1] \in Modes
  BY <1>1
<1>3. CASE Tail(c) = << >>
  <2>1. Len(c) = 1
    BY <1>1, <1>3
  <2> QED BY <1>1, <1>2, <1>3, <2>1
<1>4. CASE Tail(c) # << >>
  <2>1. Len(Tail(c)) # 0
    BY <1>1, <1>4
  <2>2. Len(c) - 1 \in 1 .. Len(c) - 1 /\ Len(c) - 1 + 1 = Len(c)
    BY <1>1, <2>1
  <2> QED BY <1>1, <1>2, <1>4, <2>2
<1> QED BY <1>3, <1>4

LEMMA ToggleInit == Fac!Init => ToggleInv
<1>1. << >> \in Seq(Modes)
  OBVIOUS
<1> QED BY <1>1 DEF Fac!Init, ToggleInv, Modes, Fac!None

LEMMA ToggleStep ==
  ASSUME "slow" \notin Mishaps, ToggleInv, [Fac!Next]_(Fac!vars)
  PROVE  ToggleInv'
<1>1. ASSUME NEW t \in Toggles, NEW on \in BOOLEAN, Fac!SetFactory(t, on) PROVE ToggleInv'
  BY <1>1 DEF Fac!SetFactory, Fac!None, ToggleInv, Heading, Fac!ModeOf
<1>2. ASSUME NEW t \in Toggles, Fac!Set(t) PROVE ToggleInv'
  <2>1. factory' = toggle[t].on /\ child \in {"none", "up"} /\ UNCHANGED <<child, mode>>
    BY <1>2 DEF Fac!Set
  <2>2. CASE child = "up"
    <3>1. commands' = Append(commands, Fac!ModeOf(toggle[t].on)) /\ Fac!ModeOf(toggle[t].on) \in Modes
      BY <1>2, <2>2 DEF Fac!Set, Fac!ModeOf, Modes
    <3>2. commands' \in Seq(Modes) /\ commands' # << >> /\ commands'[Len(commands')] = Fac!ModeOf(toggle[t].on)
      BY <3>1, HeadingSent DEF ToggleInv
    <3>3. Heading' = Fac!ModeOf(factory)'
      BY <2>1, <3>2 DEF Heading, Fac!ModeOf
    <3> QED BY <2>1, <2>2, <3>2, <3>3 DEF ToggleInv
  <2>3. CASE child = "none"
    <3>1. commands' = commands
      BY <1>2, <2>3 DEF Fac!Set
    <3> QED BY <2>1, <2>3, <3>1 DEF ToggleInv
  <2> QED BY <2>1, <2>2, <2>3
<1>3. CASE Fac!Start
  <2>1. << >> \in Seq(Modes)
    OBVIOUS
  <2> QED BY <1>3, <2>1 DEF Fac!Start, ToggleInv, Modes
<1>4. CASE Fac!Started
  <2>1. child = "start" /\ commands = << >> /\ mode = "ask" /\ UNCHANGED <<factory, mode, toggle>>
    BY <1>4 DEF Fac!Started, ToggleInv
  <2>2. CASE factory
    <3>1. child' = "sent" /\ commands' = Append(commands, "orchestration")
      BY <1>4, <2>2 DEF Fac!Started
    <3>2. commands' \in Seq(Modes) /\ commands' # << >> /\ commands'[Len(commands')] = "orchestration"
      BY <3>1, HeadingSent DEF ToggleInv, Modes
    <3> QED BY <2>1, <2>2, <3>1, <3>2 DEF ToggleInv, Heading, Fac!ModeOf
  <2>3. CASE ~factory
    <3>1. child' = "up" /\ commands' = commands
      BY <1>4, <2>3 DEF Fac!Started
    <3> QED BY <2>1, <2>3, <3>1 DEF ToggleInv, Heading, Fac!ModeOf
  <2> QED BY <2>2, <2>3
<1>5. CASE Fac!Notify
  <2>1. /\ commands # << >> /\ child \in {"sent", "up"} /\ mode' = Head(commands) /\ commands' = Tail(commands)
        /\ factory' = factory /\ child' \in {"sent", "up"}
    BY <1>5 DEF Fac!Notify, ToggleInv
  <2>2. /\ mode' \in Modes /\ commands' \in Seq(Modes)
        /\ commands' = << >> => mode' = commands[Len(commands)]
        /\ commands' # << >> => commands'[Len(commands')] = commands[Len(commands)]
    BY <2>1, HeadingTaken DEF ToggleInv
  <2>3. Heading' = Heading
    BY <2>1, <2>2 DEF Heading
  <2> QED BY <2>1, <2>2, <2>3 DEF ToggleInv, Fac!ModeOf
<1>6. CASE Fac!Exit
  <2>1. child' = "none" /\ commands' = << >> /\ mode' = mode
    BY <1>6 DEF Fac!Exit, Fac!Refused
  <2>2. << >> \in Seq(Modes)
    OBVIOUS
  <2> QED BY <2>1, <2>2 DEF ToggleInv
<1>7. ASSUME NEW t \in Toggles, Fac!Unconfirmed(t) PROVE ToggleInv'
  BY <1>7 DEF Fac!Unconfirmed
<1>8. CASE UNCHANGED Fac!flags
  BY <1>8 DEF Fac!flags, ToggleInv, Heading, Fac!ModeOf
<1>9. ASSUME NEW w \in Worktrees, Fac!RunStarts(w) \/ Fac!RunEnds(w) PROVE UNCHANGED Fac!flags
  BY <1>9 DEF Fac!RunStarts, Fac!RunEnds
<1>10. CASE Fac!Checkpoint \/ Fac!Watch \/ Fac!Trust \/ Fac!Drop \/ Fac!Forget \/ Fac!Restart
  BY <1>8, <1>10 DEF Fac!Checkpoint, Fac!Watch, Fac!Trust, Fac!Drop, Fac!Forget, Fac!Restart
<1>11. CASE UNCHANGED Fac!vars
  BY <1>8, <1>11 DEF Fac!vars
<1> QED BY <1>1, <1>2, <1>3, <1>4, <1>5, <1>6, <1>7, <1>8, <1>9, <1>10, <1>11 DEF Fac!Next

(* A child that has settled works in the mode the user's flag says, however  *)
(* toggles, starts and exits interleave, as long as every acknowledgement    *)
(* comes in time.                                                            *)
THEOREM ModeIsTheFlags == "slow" \notin Mishaps => (Fac!Spec => []Fac!FlagMatchesMode)
<1> SUFFICES ASSUME "slow" \notin Mishaps PROVE Fac!Spec => []Fac!FlagMatchesMode
  OBVIOUS
<1>1. Fac!Init => ToggleInv
  BY ToggleInit
<1>2. ToggleInv /\ [Fac!Next]_(Fac!vars) => ToggleInv'
  BY ToggleStep
<1>3. ToggleInv => Fac!FlagMatchesMode
  BY DEF ToggleInv, Heading, Fac!FlagMatchesMode
<1> QED BY <1>1, <1>2, <1>3, PTL DEF Fac!Spec

-----------------------------------------------------------------------------
(* The passes.  Runs start and end only while their child is watched;  when  *)
(* it is not, the last pass has dropped what ended, or it has found what     *)
(* lives now, or one more is asked for.                                      *)
Ended == {w \in Worktrees : tree[w] = "ended"}

Clean ==
  IF guard = Fac!NoPass THEN trust \cap Ended = {}
  ELSE again \/ guard.live \cap Ended = {}

TrustInv ==
  /\ guard = Fac!NoPass \/ guard.at \in {"trust", "drop"}
  /\ trust \subseteq trusted \cup guarded
  /\ guard = Fac!NoPass => trust \subseteq trusted /\ guarded \subseteq trusted
  /\ ~known => guard = Fac!NoPass /\ trust = {}
  /\ child = "none" => ~watch
  /\ watch => known
  /\ ~watch => Clean

(* What guardFactory makes of it: a pass over what lives, or one more.       *)
LEMMA GuardClean ==
  ASSUME TrustInv, Fac!Guard, UNCHANGED <<tree, trust, known>>
  PROVE  /\ guard' = Fac!NoPass \/ guard'.at \in {"trust", "drop"}
         /\ ~known => guard' = guard
         /\ guard' = Fac!NoPass => guard = Fac!NoPass
         /\ Clean'
<1>1. Fac!Live \cap Ended = {}
  BY DEF Fac!Live, Ended
<1>2. Ended' = Ended
  BY DEF Ended
<1> QED BY <1>1, <1>2 DEF TrustInv, Fac!Guard, Fac!NoPass, Clean

LEMMA TrustStep ==
  ASSUME Mishaps \cap {"race", "torn"} = {}, TrustInv, [Fac!Next]_(Fac!vars)
  PROVE  TrustInv'
<1>1. CASE Fac!Exit
  <2>1. child' = "none" /\ watch' = FALSE /\ UNCHANGED <<tree, trust, guarded, trusted, known>>
    BY <1>1 DEF Fac!Exit, Fac!Refused
  <2>2. CASE Fac!Guard
    BY <2>1, <2>2, GuardClean DEF TrustInv
  <2>3. CASE ~watch /\ UNCHANGED <<guard, again>>
    BY <2>1, <2>3 DEF TrustInv, Clean, Ended
  <2> QED BY <1>1, <2>2, <2>3 DEF Fac!Exit
<1>2. CASE Fac!Checkpoint
  <2>1. Fac!Guard /\ watch' = TRUE /\ known /\ child = "up" /\ UNCHANGED <<child, tree, trust, guarded, trusted, known>>
    BY <1>2 DEF Fac!Checkpoint, Fac!flags
  <2> QED BY <2>1, GuardClean DEF TrustInv
<1>3. CASE Fac!Watch
  <2>1. Fac!Guard /\ UNCHANGED <<child, tree, trust, guarded, trusted, watch, known>>
    BY <1>3 DEF Fac!Watch, Fac!flags
  <2> QED BY <2>1, GuardClean DEF TrustInv
<1>4. CASE Fac!Trust
  <2>1. /\ guard.at = "trust" /\ guard' = [guard EXCEPT !.at = "drop"]
        /\ trust' = trust \cup (guard.live \ guarded) /\ guarded' = guarded \cup guard.live
        /\ UNCHANGED <<child, tree, trusted, watch, again, known>>
    BY <1>4 DEF Fac!Trust, Fac!flags
  <2>2. guard # Fac!NoPass /\ guard'.at = "drop" /\ guard' # Fac!NoPass
    BY <2>1 DEF Fac!NoPass, TrustInv
  <2>3. guard'.live = guard.live
    BY <2>1
  <2>4. trust' \subseteq trusted' \cup guarded'
    BY <2>1 DEF TrustInv
  <2> QED BY <2>1, <2>2, <2>3, <2>4 DEF TrustInv, Clean, Ended
<1>5. CASE Fac!Drop
  <2> DEFINE gone == (trusted \cup guarded) \ guard.live
  <2>1. /\ guard.at = "drop" /\ again' = FALSE /\ UNCHANGED <<child, tree, watch, known>>
        /\ trust' = trust \ gone /\ guarded' = guarded \ gone /\ trusted' = (trusted \cup guard.live) \ gone
        /\ guard' = IF again /\ known THEN [at |-> "trust", live |-> Fac!Live] ELSE Fac!NoPass
    BY <1>5 DEF Fac!Drop, Fac!flags
  <2>2. guard # Fac!NoPass /\ known
    BY <2>1 DEF Fac!NoPass, TrustInv
  <2>3. trusted' = guard.live /\ trust' \subseteq guard.live /\ guarded' \subseteq guard.live
    BY <2>1 DEF TrustInv
  <2>4. Fac!Live \cap Ended = {} /\ Ended' = Ended
    BY <2>1 DEF Fac!Live, Ended
  <2> HIDE DEF gone
  <2>5. CASE again
    <3>1. guard' = [at |-> "trust", live |-> Fac!Live] /\ guard' # Fac!NoPass
      BY <2>1, <2>2, <2>5 DEF Fac!NoPass
    <3> QED BY <2>1, <2>2, <2>3, <2>4, <3>1 DEF TrustInv, Clean
  <2>6. CASE ~again
    <3>1. guard' = Fac!NoPass
      BY <2>1, <2>6
    <3>2. ~watch => guard.live \cap Ended = {}
      BY <2>2, <2>6 DEF TrustInv, Clean
    <3> QED BY <2>1, <2>2, <2>3, <2>4, <3>1, <3>2 DEF TrustInv, Clean
  <2> QED BY <2>5, <2>6
<1>6. CASE Fac!Forget
  <2>1. /\ known /\ child = "none" /\ guard = Fac!NoPass /\ known' = FALSE /\ trust' = trust \ trusted
        /\ UNCHANGED <<child, tree, guarded, trusted, watch, guard, again>>
    BY <1>6 DEF Fac!Forget, Fac!flags, Fac!passes
  <2>2. trust' = {}
    BY <2>1 DEF TrustInv
  <2> QED BY <2>1, <2>2 DEF TrustInv, Clean, Ended
<1>7. CASE Fac!Restart
  <2>1. /\ guard = Fac!NoPass /\ guard' = Fac!NoPass /\ guarded' = {} /\ again' = FALSE
        /\ UNCHANGED <<child, tree, trust, trusted, watch, known>>
    BY <1>7 DEF Fac!Restart, Fac!flags
  <2> QED BY <2>1 DEF TrustInv, Clean, Ended
<1>8. ASSUME NEW w \in Worktrees, Fac!RunStarts(w) \/ Fac!RunEnds(w) PROVE TrustInv'
  <2>1. watch /\ child = "up" /\ UNCHANGED <<child, trust, guarded, trusted, watch, guard, again, known>>
    BY <1>8 DEF Fac!RunStarts, Fac!RunEnds, Fac!flags, Fac!trusts, Fac!passes
  <2> QED BY <2>1 DEF TrustInv
<1>9. CASE UNCHANGED <<tree, Fac!trusts, known>> /\ (child' = "none" => child = "none" \/ ~watch)
  BY <1>9 DEF TrustInv, Clean, Ended, Fac!trusts, Fac!passes
<1>10. ASSUME NEW t \in Toggles, (\E on \in BOOLEAN : Fac!SetFactory(t, on)) \/ Fac!Set(t) \/ Fac!Unconfirmed(t)
       PROVE  TrustInv'
  BY <1>9, <1>10 DEF Fac!SetFactory, Fac!Set, Fac!Unconfirmed
<1>11. CASE Fac!Start \/ Fac!Started \/ Fac!Notify
  BY <1>9, <1>11 DEF Fac!Start, Fac!Started, Fac!Notify
<1>12. CASE UNCHANGED Fac!vars
  BY <1>9, <1>12 DEF Fac!vars, Fac!flags
<1> QED BY <1>1, <1>2, <1>3, <1>4, <1>5, <1>6, <1>7, <1>8, <1>10, <1>11, <1>12 DEF Fac!Next

(* When the child is gone and the last pass is done, no worktree of an ended *)
(* run is trusted, and none at all of a session that was forgotten, as long  *)
(* as no pass is torn by a crash or met by a forget.                         *)
THEOREM TrustEndsWithRuns ==
  Mishaps \cap {"race", "torn"} = {} => (Fac!Spec => []Fac!TrustEnds)
<1> SUFFICES ASSUME Mishaps \cap {"race", "torn"} = {} PROVE Fac!Spec => []Fac!TrustEnds
  OBVIOUS
<1>1. Fac!Init => TrustInv
  BY DEF Fac!Init, TrustInv, Clean, Ended
<1>2. TrustInv /\ [Fac!Next]_(Fac!vars) => TrustInv'
  BY TrustStep
<1>3. TrustInv => Fac!TrustEnds
  BY DEF TrustInv, Clean, Ended, Fac!TrustEnds
<1> QED BY <1>1, <1>2, <1>3, PTL DEF Fac!Spec
=============================================================================
