------------------------ MODULE OverseerActions_proofs ------------------------
(***************************************************************************)
(* Proofs about OverseerActions, for any number of callers and actions:    *)
(* its types, that it implements GatedActions, that at most one question   *)
(* is open, that a reported result had its effect, that a hand-off gets    *)
(* one agent, that a standing order sends no more than it allows, and that  *)
(* the phone's answer is taken for the action the user was asked about.     *)
(***************************************************************************)
EXTENDS OverseerActions, FiniteSetTheorems, TLAPS

(* Ids past `made` are untouched.                                           *)
Untouched ==
  \A i \in Ids : i > made =>
    items[i].state = "none" /\ confirms[i] = "none" /\ runs[i] = 0

(* A call that wrote an item knows it.                                      *)
Known ==
  \A p \in Callers :
    calls[p].step \in {"send", "sending", "unsent", "prompt"} => calls[p].id \in 1 .. made

(* What executes was confirmed, though prune may have dropped it since.     *)
Confirmed ==
  \A i \in Ids : confirms[i] \in Executing => items[i].state \in {"confirmed", "dropped"}

(* An action has had no effect before its execution ...                     *)
NotYet ==
  \A i \in Ids : (confirms[i] \in {"check", "run"} \/ items[i].state = "pending") => runs[i] = 0

(* ... and exactly one once it has something to show.                       *)
Shown ==
  \A i \in Ids :
    (items[i].result \/ agents[i] # "none" \/ confirms[i] \in {"created", "record"})
      => runs[i] = 1

(* A call judges expiry no later than the document does.                    *)
PastLapsed == \A p \in Callers : calls[p].past \subseteq lapsed

(* OneQuestion without counting.                                            *)
Alone ==
  \A i, j \in Ids : WaitsForUser(i, lapsed) /\ WaitsForUser(j, lapsed) => i = j

IndInv == TypeOK /\ Untouched /\ Known /\ Confirmed /\ NotYet /\ Shown /\ PastLapsed /\ Alone

-----------------------------------------------------------------------------
(* prune changes an item's state at most, from settled to dropped.          *)
LEMMA PruneDrops ==
  ASSUME NEW its \in [Ids -> Item], NEW i \in Ids
  PROVE  /\ Prune(its) \in [Ids -> Item]
         /\ Prune(its)[i] = its[i] \/ /\ its[i].state \in {"confirmed", "denied", "expired", "failed"}
                                      /\ Prune(its)[i] = [its[i] EXCEPT !.state = "dropped"]
<1> DEFINE old == {j \in Settled(its) : Cardinality({k \in Settled(its) : k >= j}) > Keep}
<1>1. Prune(its) = [j \in Ids |-> IF j \in old THEN [its[j] EXCEPT !.state = "dropped"] ELSE its[j]]
  BY DEF Prune
<1>2. \A j \in old : j \in Ids /\ its[j].state \in {"confirmed", "denied", "expired", "failed"}
  BY DEF Settled
<1> HIDE DEF old
<1>3. \A j \in Ids : [its[j] EXCEPT !.state = "dropped"] \in Item
  BY DEF Item
<1> QED  BY <1>1, <1>2, <1>3

(* A pushed item is pending; the others keep what they are or are dropped.  *)
LEMMA Pushed ==
  ASSUME TypeOK, Untouched, NEW item \in Item, item.state = "pending", Push(item)
  PROVE  /\ made + 1 \in Ids /\ made' = made + 1 /\ items' \in [Ids -> Item]
         /\ items[made + 1].state = "none"
         /\ items'[made + 1] = item
         /\ \A i \in Ids : i # made + 1 =>
              \/ items'[i] = items[i]
              \/ /\ items[i].state \in {"confirmed", "denied", "expired", "failed"}
                 /\ items'[i] = [items[i] EXCEPT !.state = "dropped"]
<1> DEFINE its == [items EXCEPT ![made + 1] = item]
<1>a. MaxItems \in Nat /\ made \in 0 .. MaxItems
  BY ActionsAssumption DEF TypeOK
<1>b. made < MaxItems /\ made' = made + 1 /\ items' = Prune(its)
  BY DEF Push
<1>c. made + 1 \in Ids
  BY <1>a, <1>b DEF Ids
<1>1. made + 1 \in Ids /\ made' = made + 1 /\ items' = Prune(its)
  BY <1>b, <1>c
<1>2. its \in [Ids -> Item] /\ its[made + 1] = item /\ \A i \in Ids : i # made + 1 => its[i] = items[i]
  BY <1>1 DEF TypeOK
<1>3. items[made + 1].state = "none"
  BY <1>1 DEF Untouched, TypeOK, Ids
<1> HIDE DEF its
<1>4. items' \in [Ids -> Item]
  BY <1>1, <1>2, PruneDrops
<1>5. items'[made + 1] = item
  BY <1>1, <1>2, PruneDrops
<1>6. ASSUME NEW i \in Ids, i # made + 1
      PROVE \/ items'[i] = items[i]
            \/ /\ items[i].state \in {"confirmed", "denied", "expired", "failed"}
               /\ items'[i] = [items[i] EXCEPT !.state = "dropped"]
  BY <1>1, <1>2, <1>6, PruneDrops
<1> QED  BY <1>1, <1>3, <1>4, <1>5, <1>6

LEMMA InitInv == Init => IndInv
<1> SUFFICES ASSUME Init PROVE IndInv
  OBVIOUS
<1>1. NoItem \in Item /\ NoItem.state = "none" /\ ~NoItem.result
  BY DEF NoItem, Item
<1>2. MaxItems \in Nat /\ MaxTimes \in Nat
  BY ActionsAssumption
<1>3. items \in [Ids -> Item] /\ \A i \in Ids : items[i] = NoItem
  BY <1>1 DEF Init
<1>4. calls \in [Callers -> Call] /\ \A p \in Callers : calls[p] = Idle
  BY <1>1 DEF Init, Call, Idle
<1>5. TypeOK
  <2>1. orders \in [Ids -> [listed : BOOLEAN, used : 0 .. MaxTimes]]
    BY <1>2 DEF Init
  <2>2. confirms \in [Ids -> {"none", "read", "expire", "claim"} \union Executing]
    BY DEF Init
  <2>3. made \in 0 .. MaxItems
    BY <1>2 DEF Init
  <2>4. agents \in [Ids -> {"none", "row", "idle", "tasked", "gone"}] /\ runs \in [Ids -> Nat]
    BY DEF Init
  <2>5. /\ phonePrompt \in [id : Ids \union {0}, fresh : BOOLEAN]
        /\ answer \in [about : Ids \union {0}, allow : BOOLEAN]
        /\ wire \in Seq(Ids)
    BY DEF Init, NoAnswer
  <2> QED
    BY <1>3, <1>4, <2>1, <2>2, <2>3, <2>4, <2>5 DEF Init, TypeOK
<1>6. Untouched /\ Confirmed /\ NotYet /\ Shown
  BY <1>1, <1>3 DEF Init, Untouched, Confirmed, NotYet, Shown, Executing
<1>7. Known /\ PastLapsed
  BY <1>4 DEF Known, PastLapsed, Idle
<1>8. Alone
  BY <1>1, <1>3 DEF Alone, WaitsForUser
<1> QED
  BY <1>5, <1>6, <1>7, <1>8 DEF IndInv

-----------------------------------------------------------------------------
(* Types.                                                                   *)

Steps == {"idle", "order", "send", "sending", "unsent", "read", "limits", "insert", "prompt"}
Stages == {"none", "read", "expire", "claim"} \union Executing
Order == [listed : BOOLEAN, used : 0 .. MaxTimes]

(* The types of the variables a step changes, one lemma per kind of change. *)
LEMMA CallMoves ==
  ASSUME TypeOK, NEW p \in Callers, NEW s \in Steps
  PROVE  [calls EXCEPT ![p].step = s] \in [Callers -> Call]
<1>1. calls \in [Callers -> Call]
  BY DEF TypeOK
<1>2. [calls[p] EXCEPT !.step = s] \in Call
  BY <1>1 DEF Call, Steps
<1> QED  BY <1>1, <1>2

LEMMA CallEnds ==
  ASSUME TypeOK, NEW p \in Callers
  PROVE  [calls EXCEPT ![p] = Idle] \in [Callers -> Call]
<1>1. Idle \in Call
  BY DEF Idle, Call
<1> QED  BY <1>1 DEF TypeOK

LEMMA StateMoves ==
  ASSUME TypeOK, NEW i \in Ids,
         NEW s \in {"pending", "confirmed", "denied", "expired", "failed", "dropped"}
  PROVE  [items EXCEPT ![i].state = s] \in [Ids -> Item]
<1>1. items \in [Ids -> Item]
  BY DEF TypeOK
<1>2. [items[i] EXCEPT !.state = s] \in Item
  BY <1>1 DEF Item
<1> QED  BY <1>1, <1>2

LEMMA PendingMoves ==
  ASSUME TypeOK, NEW i \in Ids, NEW s \in {"denied", "expired"},
         items' = [items EXCEPT ![i].state = IF @ = "pending" THEN s ELSE @]
  PROVE  /\ items' \in [Ids -> Item]
         /\ \A j \in Ids : \/ items'[j] = items[j]
                           \/ /\ items[j].state = "pending"
                              /\ items'[j] = [items[j] EXCEPT !.state = s]
<1>1. CASE items[i].state = "pending"
  BY <1>1, StateMoves DEF TypeOK
<1>2. CASE items[i].state # "pending"
  <2>1. items' = [items EXCEPT ![i].state = items[i].state]
    BY <1>2 DEF TypeOK
  <2>2. items' = items
    BY <2>1 DEF TypeOK, Item
  <2> QED  BY <2>2 DEF TypeOK
<1> QED  BY <1>1, <1>2

LEMMA StageMoves ==
  ASSUME TypeOK, NEW i \in Ids, NEW s \in Stages
  PROVE  [confirms EXCEPT ![i] = s] \in [Ids -> Stages]
BY DEF TypeOK, Stages

LEMMA Finishes ==
  ASSUME TypeOK, NEW i \in Ids, NEW ok \in BOOLEAN, Finish(i, ok)
  PROVE  /\ confirms' = [confirms EXCEPT ![i] = "none"]
         /\ confirms' \in [Ids -> Stages]
         /\ calls' \in [Callers -> Call]
         /\ \A p \in Callers : \/ calls'[p] = calls[p]
                               \/ calls'[p] = Idle
                               \/ /\ calls[p].step = "sending"
                                  /\ calls'[p] = [calls[p] EXCEPT !.step = "unsent"]
<1>1. confirms' = [confirms EXCEPT ![i] = "none"]
  BY DEF Finish, At
<1>2. confirms' \in [Ids -> Stages]
  BY <1>1, StageMoves DEF Stages
<1>3. ASSUME NEW p \in Callers
      PROVE /\ [calls[p] EXCEPT !.step = "unsent"] \in Call
            /\ calls[p] \in Call /\ Idle \in Call
  <2>1. calls[p] \in Call
    BY DEF TypeOK
  <2>2. [calls[p] EXCEPT !.step = "unsent"] \in Call
    BY <2>1 DEF Call
  <2>3. Idle \in Call
    BY DEF Idle, Call
  <2> QED  BY <2>1, <2>2, <2>3
<1>4. calls' = [p \in Callers |->
        IF calls[p].step # "sending" \/ calls[p].id # i THEN calls[p]
        ELSE IF ok THEN Idle ELSE [calls[p] EXCEPT !.step = "unsent"]]
  BY DEF Finish
<1>5. calls' \in [Callers -> Call]
  BY <1>3, <1>4
<1>6. \A p \in Callers : \/ calls'[p] = calls[p]
                         \/ calls'[p] = Idle
                         \/ /\ calls[p].step = "sending"
                            /\ calls'[p] = [calls[p] EXCEPT !.step = "unsent"]
  BY <1>4
<1> QED  BY <1>1, <1>2, <1>5, <1>6

LEMMA OrdersFiltered ==
  ASSUME TypeOK
  PROVE  /\ Filtered(orders) \in [Ids -> Order]
         /\ \A a \in Ids : Filtered(orders)[a].listed => Filtered(orders)[a].used < MaxTimes
<1>1. \A a \in Ids : orders[a] \in Order
  BY DEF TypeOK, Order
<1>2. \A a \in Ids : [orders[a] EXCEPT !.listed = @ /\ a \notin over /\ orders[a].used < MaxTimes] \in Order
  BY <1>1 DEF Order
<1>3. Filtered(orders) = [a \in Ids |-> [orders[a] EXCEPT !.listed = @ /\ a \notin over /\ orders[a].used < MaxTimes]]
  BY DEF Filtered
<1>4. ASSUME NEW a \in Ids, Filtered(orders)[a].listed
      PROVE Filtered(orders)[a].used < MaxTimes
  BY <1>1, <1>3, <1>4 DEF Order
<1> QED  BY <1>2, <1>3, <1>4

LEMMA NewItems ==
  ASSUME TypeOK, NEW p \in Callers, NEW a \in Ids \union {0}
  PROVE  /\ NewItem(calls[p].req, a) \in Item
         /\ NewItem(calls[p].req, a).state = "pending"
         /\ ~NewItem(calls[p].req, a).result
         /\ NewItem(calls[p].req, a).origin = calls[p].req.origin
         /\ NewItem(calls[p].req, a).standing = a
<1>1. Requests \subseteq Request
  BY ActionsAssumption
<1>2. calls[p].req \in Requests \union {NoItem}
  BY DEF TypeOK, Call
<1>3. /\ calls[p].req.kind \in Kinds \union {"none"}
      /\ calls[p].req.origin \in {"none", "overseer", "evenai"}
      /\ calls[p].req.requestId \in RequestIds \union {"none"}
      /\ calls[p].req.handoff \in BOOLEAN
      /\ calls[p].req.text \in Texts \union {"none"}
  <2>1. CASE calls[p].req = NoItem
    BY <2>1 DEF NoItem
  <2>2. CASE calls[p].req \in Request
    BY <2>2 DEF Request
  <2> QED  BY <1>1, <1>2, <2>1, <2>2
<1> QED  BY <1>3 DEF NewItem, Item

(* A step of a call keeps the types.                                        *)
LEMMA ProposingTypes ==
  ASSUME TypeOK, Untouched, Known, NEW p \in Callers, Proposing(p)
  PROVE  TypeOK'
<1>0. MaxItems \in Nat /\ MaxTimes \in Nat \ {0}
  BY ActionsAssumption
<1>1. ASSUME NEW r \in Requests, Propose(p, r) PROVE TypeOK'
  <2>1. calls' \in [Callers -> Call]
    <3>1. PICK s \in Steps : calls' = [calls EXCEPT ![p].req = r, ![p].step = s]
      BY <1>1 DEF Propose, Steps
    <3>2. calls \in [Callers -> Call]
      BY DEF TypeOK
    <3>3. [calls[p] EXCEPT !.req = r, !.step = s] \in Call
      BY <3>2 DEF Call, Steps
    <3> QED  BY <3>1, <3>2, <3>3
  <2> QED  BY <1>1, <2>1 DEF TypeOK, Propose, docVars, phoneVars, worldVars
<1>2. CASE TakeUse(p)
  <2>1. PICK a \in Ids :
          /\ Filtered(orders)[a].listed
          /\ orders' = [Filtered(orders) EXCEPT ![a].used = @ + 1]
          /\ Push(NewItem(calls[p].req, a))
    BY <1>2 DEF TakeUse
  <2>2. orders' \in [Ids -> Order]
    <3>1. Filtered(orders)[a] \in Order /\ Filtered(orders)[a].used < MaxTimes
      BY <2>1, OrdersFiltered
    <3>2. [Filtered(orders)[a] EXCEPT !.used = @ + 1] \in Order
      BY <1>0, <3>1 DEF Order
    <3> QED  BY <2>1, <3>2, OrdersFiltered
  <2>3. made + 1 \in Ids /\ made' = made + 1 /\ items' \in [Ids -> Item]
    BY <2>1, NewItems, Pushed
  <2>4. calls' \in [Callers -> Call]
    <3>1. calls' = [calls EXCEPT ![p].step = "send", ![p].id = made + 1]
      BY <1>2, <2>3 DEF TakeUse
    <3>2. calls \in [Callers -> Call]
      BY DEF TypeOK
    <3>3. [calls[p] EXCEPT !.step = "send", !.id = made + 1] \in Call
      BY <2>3, <3>2 DEF Call
    <3> QED  BY <3>1, <3>2, <3>3
  <2>5. made' \in 0 .. MaxItems
    BY <1>0, <2>3 DEF Ids
  <2> QED
    BY <1>2, <2>2, <2>3, <2>4, <2>5 DEF TypeOK, Order, TakeUse, phoneVars, worldVars
<1>3. CASE NoOrder(p)
  <2>1. orders' \in [Ids -> Order]
    BY <1>3, OrdersFiltered DEF NoOrder
  <2>2. calls' \in [Callers -> Call]
    BY <1>3, CallMoves DEF NoOrder, Goes, Steps
  <2> QED  BY <1>3, <2>1, <2>2 DEF TypeOK, Order, NoOrder, phoneVars, worldVars
<1>4. CASE Send(p)
  <2>1. calls' \in [Callers -> Call]
    BY <1>4, CallMoves DEF Send, Goes, Steps
  <2>2. confirms' \in [Ids -> Stages]
    BY <1>4 DEF Send, TypeOK, Stages
  <2> QED
    BY <1>4, <2>1, <2>2 DEF TypeOK, Stages, Send, docVars, phoneVars, worldVars
<1>5. CASE GiveBack(p)
  <2>1. calls' \in [Callers -> Call]
    BY <1>5, CallEnds DEF GiveBack, Returns
  <2>2. orders' \in [Ids -> Order]
    <3> DEFINE a == items[calls[p].id].standing
               u == IF orders[a].listed /\ orders[a].used > 0
                    THEN orders[a].used - 1 ELSE orders[a].used
    <3>1. orders' = [orders EXCEPT ![a].used = u]
      BY <1>5 DEF GiveBack
    <3>2. orders \in [Ids -> Order]
      BY DEF TypeOK, Order
    <3>3. CASE a \in Ids
      <4>1. u \in 0 .. MaxTimes
        BY <1>0, <3>2, <3>3 DEF Order
      <4> HIDE DEF u
      <4>2. [orders[a] EXCEPT !.used = u] \in Order
        BY <3>2, <3>3, <4>1 DEF Order
      <4> QED  BY <3>1, <3>2, <3>3, <4>2
    <3>4. CASE a \notin Ids
      BY <3>1, <3>2, <3>4
    <3> QED  BY <3>3, <3>4
  <2> QED  BY <1>5, <2>1, <2>2 DEF TypeOK, Order, GiveBack, phoneVars, worldVars
<1>6. CASE ReadItems(p)
  <2>1. calls' \in [Callers -> Call]
    <3>1. CASE Returns(p)
      BY <3>1, CallEnds DEF Returns
    <3>2. ASSUME NEW s \in {"limits", "insert"}, NEW q \in {{}, lapsed},
                 calls' = [calls EXCEPT ![p].step = s, ![p].past = q]
          PROVE calls' \in [Callers -> Call]
      <4>1. calls \in [Callers -> Call] /\ q \in SUBSET Ids
        BY DEF TypeOK
      <4>2. [calls[p] EXCEPT !.step = s, !.past = q] \in Call
        BY <4>1 DEF Call
      <4> QED  BY <3>2, <4>1, <4>2
    <3> QED  BY <1>6, <3>1, <3>2 DEF ReadItems
  <2> QED  BY <1>6, <2>1 DEF TypeOK, ReadItems, docVars, phoneVars, worldVars
<1>7. CASE CheckLimits(p)
  <2>1. calls' \in [Callers -> Call]
    <3>1. CASE Returns(p)
      BY <3>1, CallEnds DEF Returns
    <3>2. CASE calls' = [calls EXCEPT ![p].step = "insert", ![p].past = lapsed]
      <4>1. calls \in [Callers -> Call] /\ lapsed \in SUBSET Ids
        BY DEF TypeOK
      <4>2. [calls[p] EXCEPT !.step = "insert", !.past = lapsed] \in Call
        BY <4>1 DEF Call
      <4> QED  BY <3>2, <4>1, <4>2
    <3> QED  BY <1>7, <3>1, <3>2 DEF CheckLimits
  <2> QED  BY <1>7, <2>1 DEF TypeOK, CheckLimits, docVars, phoneVars, worldVars
<1>8. CASE Insert(p)
  <2>1. CASE Returns(p) /\ UNCHANGED <<items, made>>
    <3>1. calls' \in [Callers -> Call]
      BY <2>1, CallEnds DEF Returns
    <3> QED  BY <1>8, <2>1, <3>1 DEF TypeOK, Insert, phoneVars, worldVars
  <2>2. CASE /\ Push(NewItem(calls[p].req, 0))
             /\ \/ calls' = [calls EXCEPT ![p].step = "prompt", ![p].id = made']
                \/ Returns(p)
    <3>1. made + 1 \in Ids /\ made' = made + 1 /\ items' \in [Ids -> Item]
      BY <2>2, NewItems, Pushed
    <3>2. calls' \in [Callers -> Call]
      <4>1. calls \in [Callers -> Call]
        BY DEF TypeOK
      <4>2. [calls[p] EXCEPT !.step = "prompt", !.id = made + 1] \in Call
        BY <3>1, <4>1 DEF Call
      <4> QED  BY <2>2, <3>1, <4>1, <4>2, CallEnds DEF Returns
    <3>3. made' \in 0 .. MaxItems
      BY <1>0, <3>1 DEF Ids
    <3> QED  BY <1>8, <3>1, <3>2, <3>3 DEF TypeOK, Insert, phoneVars, worldVars
  <2> QED  BY <1>8, <2>1, <2>2 DEF Insert
<1>9. CASE Prompt(p)
  <2>1. calls' \in [Callers -> Call]
    BY <1>9, CallEnds DEF Prompt, Returns
  <2>2. calls[p].id \in Ids
    <3>1. calls[p].id \in 1 .. made /\ made \in 0 .. MaxItems
      BY <1>9 DEF Prompt, Known, TypeOK
    <3> QED  BY <1>0, <3>1 DEF Ids
  <2>3. wire' \in Seq(Ids)
    BY <1>9, <2>2 DEF Prompt, TypeOK
  <2>4. phonePrompt' \in [id : Ids \union {0}, fresh : BOOLEAN]
    BY <1>9, <2>2 DEF Prompt
  <2> QED
    BY <1>9, <2>1, <2>3, <2>4 DEF TypeOK, Prompt, docVars, worldVars
<1> QED
  BY <1>1, <1>2, <1>3, <1>4, <1>5, <1>6, <1>7, <1>8, <1>9 DEF Proposing

(* A step of a confirm keeps the types.                                     *)
LEMMA ConfirmingTypes ==
  ASSUME TypeOK, NEW i \in Ids, Confirming(i)
  PROVE  TypeOK'
<1>1. CASE ConfirmRead(i)
  <2>1. confirms' \in [Ids -> Stages] /\ calls' \in [Callers -> Call]
    <3>1. ASSUME NEW s \in {"expire", "claim"}, At(i, s), UNCHANGED calls
          PROVE confirms' \in [Ids -> Stages] /\ calls' \in [Callers -> Call]
      BY <3>1, StageMoves DEF At, TypeOK, Stages
    <3>2. ASSUME NEW ok \in BOOLEAN, Finish(i, ok)
          PROVE confirms' \in [Ids -> Stages] /\ calls' \in [Callers -> Call]
      BY <3>2, Finishes
    <3>3. items[i].result \in BOOLEAN
      BY DEF TypeOK, Item
    <3> QED  BY <1>1, <3>1, <3>2, <3>3 DEF ConfirmRead
  <2> QED
    BY <1>1, <2>1 DEF TypeOK, Stages, ConfirmRead, docVars, phoneVars, worldVars
<1>2. CASE ConfirmExpire(i)
  <2>1. items' \in [Ids -> Item]
    BY <1>2, PendingMoves DEF ConfirmExpire, Expire
  <2>2. confirms' \in [Ids -> Stages] /\ calls' \in [Callers -> Call]
    BY <1>2, Finishes DEF ConfirmExpire
  <2> QED
    BY <1>2, <2>1, <2>2 DEF TypeOK, Stages, ConfirmExpire, phoneVars, worldVars
<1>3. CASE Claim(i)
  <2>1. items' \in [Ids -> Item]
    <3>1. items' = items \/ items' = [items EXCEPT ![i].state = "confirmed"]
      BY <1>3 DEF Claim
    <3>2. items \in [Ids -> Item]
      BY DEF TypeOK
    <3> QED  BY <3>1, <3>2, StateMoves
  <2>2. confirms' \in [Ids -> Stages]
    BY <1>3, StageMoves DEF Claim, At, Stages, Executing
  <2> QED
    BY <1>3, <2>1, <2>2 DEF TypeOK, Stages, Claim, phoneVars, worldVars
<1>4. CASE Recheck(i)
  <2>1. confirms' \in [Ids -> Stages]
    BY <1>4, StageMoves DEF Recheck, At, Stages, Executing
  <2> QED
    BY <1>4, <2>1 DEF TypeOK, Stages, Recheck, docVars, phoneVars, worldVars
<1>5. CASE CreateAgent(i)
  <2>1. confirms' \in [Ids -> Stages]
    BY <1>5, StageMoves DEF CreateAgent, At, Stages, Executing
  <2>2. runs' \in [Ids -> Nat]
    BY <1>5 DEF CreateAgent, Ran, TypeOK
  <2> QED
    BY <1>5, <2>1, <2>2 DEF TypeOK, Stages, CreateAgent, docVars, phoneVars, worldVars
<1>6. CASE SubmitTask(i)
  <2>1. confirms' \in [Ids -> Stages]
    BY <1>6, StageMoves DEF SubmitTask, At, Stages, Executing
  <2>2. agents' \in [Ids -> {"none", "row", "idle", "tasked", "gone"}]
    BY <1>6 DEF SubmitTask, TypeOK
  <2> QED
    BY <1>6, <2>1, <2>2 DEF TypeOK, Stages, SubmitTask, docVars, phoneVars, worldVars
<1>7. CASE RecordStanding(i)
  <2>1. confirms' \in [Ids -> Stages]
    BY <1>7, StageMoves DEF RecordStanding, At, Stages, Executing
  <2>2. runs' \in [Ids -> Nat]
    BY <1>7 DEF RecordStanding, Ran, TypeOK
  <2>3. orders' \in [Ids -> Order]
    <3>1. [listed |-> TRUE, used |-> 0] \in Order
      <4>1. 0 \in 0 .. MaxTimes
        <5>1. MaxTimes \in Nat \ {0}
          BY ActionsAssumption
        <5> QED  BY <5>1
      <4> QED  BY <4>1 DEF Order
    <3> QED  BY <1>7, <3>1, OrdersFiltered DEF RecordStanding
  <2> QED
    BY <1>7, <2>1, <2>2, <2>3 DEF TypeOK, Stages, Order, RecordStanding, phoneVars, worldVars
<1>8. CASE Execute(i)
  <2>1. confirms' \in [Ids -> Stages]
    BY <1>8, StageMoves DEF Execute, At, Stages, Executing
  <2>2. runs' \in [Ids -> Nat]
    BY <1>8 DEF Execute, Ran, TypeOK
  <2> QED
    BY <1>8, <2>1, <2>2 DEF TypeOK, Stages, Execute, docVars, phoneVars, worldVars
<1>9. CASE Throws(i)
  <2>1. confirms' \in [Ids -> Stages]
    BY <1>9, StageMoves DEF Throws, At, Stages, Executing
  <2> QED
    BY <1>9, <2>1 DEF TypeOK, Stages, Throws, docVars, phoneVars, worldVars
<1>10. CASE Record(i)
  <2>1. items' \in [Ids -> Item]
    <3>1. items \in [Ids -> Item]
      BY DEF TypeOK
    <3>2. PICK b \in BOOLEAN : items' = [items EXCEPT ![i].result = b]
      BY <1>10 DEF Record
    <3>3. [items[i] EXCEPT !.result = b] \in Item
      BY <3>1 DEF Item
    <3> QED  BY <3>1, <3>2, <3>3
  <2>2. confirms' \in [Ids -> Stages] /\ calls' \in [Callers -> Call]
    BY <1>10, Finishes DEF Record
  <2> QED
    BY <1>10, <2>1, <2>2 DEF TypeOK, Stages, Record, phoneVars, worldVars
<1>11. CASE Fail(i)
  <2>1. items' \in [Ids -> Item]
    <3>1. items \in [Ids -> Item]
      BY DEF TypeOK
    <3>2. PICK s \in {"dropped", "failed"} : items' = [items EXCEPT ![i].state = s]
      BY <1>11, <3>1 DEF Fail
    <3> QED  BY <3>2, StateMoves
  <2>2. confirms' \in [Ids -> Stages] /\ calls' \in [Callers -> Call]
    BY <1>11, Finishes DEF Fail
  <2> QED
    BY <1>11, <2>1, <2>2 DEF TypeOK, Stages, Fail, phoneVars, worldVars
<1> QED
  BY <1>1, <1>2, <1>3, <1>4, <1>5, <1>6, <1>7, <1>8, <1>9, <1>10, <1>11 DEF Confirming

(* So does everything else.                                                 *)
LEMMA SurroundingTypes ==
  ASSUME TypeOK,
         \/ \E i \in Ids : \/ Confirm(i) \/ Deny(i) \/ Sweep(i) \/ PhoneDeny(i)
                           \/ Lapse(i) \/ OrderEnds(i) \/ AgentEnds(i)
         \/ Phone
         \/ Restart
  PROVE  TypeOK'
<1>1. ASSUME NEW i \in Ids, Confirm(i) PROVE TypeOK'
  <2>1. confirms' \in [Ids -> Stages]
    BY <1>1, StageMoves DEF Confirm, Stages
  <2> QED
    BY <1>1, <2>1 DEF TypeOK, Stages, Confirm, docVars, phoneVars, worldVars
<1>2. ASSUME NEW i \in Ids, Deny(i) \/ Sweep(i) \/ PhoneDeny(i) PROVE TypeOK'
  <2>1. items' \in [Ids -> Item]
    BY <1>2, PendingMoves DEF Deny, Sweep, PhoneDeny, Refuse, Expire
  <2>2. denying' \subseteq Ids
    BY <1>2 DEF Deny, Sweep, PhoneDeny, TypeOK
  <2> QED
    BY <1>2, <2>1, <2>2 DEF TypeOK, Deny, Sweep, PhoneDeny, phoneVars, worldVars
<1>3. ASSUME NEW i \in Ids, Lapse(i) \/ OrderEnds(i) \/ AgentEnds(i) PROVE TypeOK'
  BY <1>3 DEF TypeOK, Lapse, OrderEnds, AgentEnds, docVars, phoneVars, worldVars
<1>4. CASE Show
  <2>1. wire \in Seq(Ids) /\ wire # <<>>
    BY <1>4 DEF Show, TypeOK
  <2>2. Head(wire) \in Ids /\ Tail(wire) \in Seq(Ids)
    BY <2>1
  <2> QED  BY <1>4, <2>2 DEF TypeOK, Show, docVars, worldVars
<1>5. CASE PromptAges
  BY <1>5 DEF TypeOK, PromptAges, docVars, worldVars
<1>6. CASE Respond
  <2>1. answer' \in [about : Ids \union {0}, allow : BOOLEAN]
    BY <1>6 DEF Respond, NoAnswer
  <2>2. /\ confirms' \in [Ids -> Stages] /\ denying' \subseteq Ids
        /\ misheard' \in BOOLEAN
    <3>1. CASE UNCHANGED <<confirms, denying, misheard>>
      BY <3>1 DEF TypeOK, Stages
    <3>2. ASSUME NEW oldest \in Ids, misheard' = (misheard \/ answer.about # oldest),
                 \/ /\ confirms' = [confirms EXCEPT ![oldest] = IF @ = "none" THEN "read" ELSE @]
                    /\ UNCHANGED denying
                 \/ denying' = denying \union {oldest} /\ UNCHANGED confirms
          PROVE /\ confirms' \in [Ids -> Stages] /\ denying' \subseteq Ids
                /\ misheard' \in BOOLEAN
      BY <3>2 DEF TypeOK, Stages
    <3> QED  BY <1>6, <3>1, <3>2 DEF Respond
  <2> QED
    BY <1>6, <2>1, <2>2 DEF TypeOK, Stages, Respond, docVars, worldVars
<1>7. ASSUME NEW allow \in BOOLEAN, Press(allow) PROVE TypeOK'
  BY <1>7 DEF TypeOK, Press, docVars, worldVars
<1>8. CASE Restart
  <2>1. items' \in [Ids -> Item]
    <3>0. items \in [Ids -> Item]
      BY DEF TypeOK
    <3>1. \A i \in Ids : /\ items[i] \in Item
                         /\ [items[i] EXCEPT !.state = "expired"] \in Item
                         /\ [items[i] EXCEPT !.state = "failed"] \in Item
                         /\ [items[i] EXCEPT !.result = TRUE] \in Item
      <4> SUFFICES ASSUME NEW i \in Ids
                   PROVE  /\ items[i] \in Item
                          /\ [items[i] EXCEPT !.state = "expired"] \in Item
                          /\ [items[i] EXCEPT !.state = "failed"] \in Item
                          /\ [items[i] EXCEPT !.result = TRUE] \in Item
        OBVIOUS
      <4>1. items[i] \in Item
        BY <3>0
      <4> QED  BY <4>1 DEF Item
    <3> QED  BY <1>8, <3>1 DEF Restart
  <2>2. calls' \in [Callers -> Call]
    <3>1. Idle \in Call
      BY DEF Idle, Call
    <3> QED  BY <1>8, <3>1 DEF Restart
  <2>3. confirms' \in [Ids -> Stages] /\ phonePrompt' \in [id : Ids \union {0}, fresh : BOOLEAN]
    BY <1>8 DEF Restart, Stages
  <2> QED
    BY <1>8, <2>1, <2>2, <2>3 DEF TypeOK, Stages, Restart, worldVars
<1> QED
  BY <1>1, <1>2, <1>3, <1>4, <1>5, <1>6, <1>7, <1>8 DEF Phone

-----------------------------------------------------------------------------
(* What one step may do to one action: its item, its confirm, its agent.    *)

StageStep(i) ==
  \/ confirms'[i] = confirms[i]
  \/ i <= made /\ confirms'[i] \in {"none", "read", "expire", "claim"}
  \/ confirms[i] \in {"check", "run"} /\ confirms'[i] \in {"run", "fail"}
  \/ confirms[i] = "created" /\ confirms'[i] \in {"record", "fail"}

ItemStep(i) ==
  \/ items'[i] = items[i] /\ StageStep(i)
  \/ /\ items[i].state = "none" /\ made < i /\ i <= made'
     /\ items'[i].state = "pending" /\ ~items'[i].result
     /\ confirms'[i] = confirms[i]
  \/ /\ items[i].state = "pending"
     /\ \E s \in {"denied", "expired"} : items'[i] = [items[i] EXCEPT !.state = s]
     /\ confirms'[i] \in {confirms[i], "none"}
  \/ /\ items[i].state = "pending"
     /\ items'[i] = [items[i] EXCEPT !.state = "confirmed"]
     /\ confirms'[i] = "check"
  \/ /\ items[i].state \in {"confirmed", "denied", "expired", "failed"}
     /\ items'[i] = [items[i] EXCEPT !.state = "dropped"]
     /\ confirms'[i] = confirms[i]
  \/ /\ confirms[i] = "record" /\ confirms'[i] = "none"
     /\ \E b \in BOOLEAN : items'[i] = [items[i] EXCEPT !.result = b]
  \/ /\ confirms[i] = "fail" /\ confirms'[i] = "none"
     /\ items[i].state # "dropped" /\ items'[i] = [items[i] EXCEPT !.state = "failed"]
  \/ /\ items[i].state = "confirmed" /\ confirms'[i] = "none"
     /\ \/ items'[i] = [items[i] EXCEPT !.state = "failed"]
        \/ agents[i] # "none" /\ items'[i] = [items[i] EXCEPT !.result = TRUE]

(* A step without an effect outside the document.                           *)
Quiet(i) ==
  /\ runs'[i] = runs[i]
  /\ agents'[i] = agents[i] \/ agents[i] # "none" \/ confirms[i] = "created"
  /\ ItemStep(i)

(* A step that executes the action.                                         *)
Runs(i) ==
  /\ confirms[i] = "run"
  /\ runs' = [runs EXCEPT ![i] = @ + 1]
  /\ UNCHANGED <<items, made, lapsed, calls>>
  /\ \E s \in {"created", "record"} : confirms' = [confirms EXCEPT ![i] = s]
  /\ \A j \in Ids : j # i => agents'[j] = agents[j]

Functions ==
  /\ items \in [Ids -> Item]
  /\ confirms \in [Ids -> Stages]
  /\ runs \in [Ids -> Nat]
  /\ made \in Nat

LEMMA TypeFunctions == TypeOK => Functions
<1>1. MaxItems \in Nat
  BY ActionsAssumption
<1> QED  BY <1>1 DEF TypeOK, Functions, Stages

LEMMA RunsRun ==
  ASSUME IndInv, NEW a \in Ids, Runs(a)
  PROVE  /\ runs[a] = 0 /\ runs' = [runs EXCEPT ![a] = 1]
         /\ a <= made /\ items[a].state \in {"confirmed", "dropped"}
         /\ confirms'[a] \in {"created", "record"}
         /\ \A j \in Ids : j # a => confirms'[j] = confirms[j] /\ runs'[j] = runs[j]
<1>1. Functions
  BY TypeFunctions DEF IndInv
<1>2. runs[a] = 0 /\ items[a].state \in {"confirmed", "dropped"} /\ a <= made
  BY <1>1 DEF IndInv, Runs, NotYet, Confirmed, Untouched, Executing, Ids, Functions
<1>3. runs' = [runs EXCEPT ![a] = 1]
  BY <1>1, <1>2 DEF Runs, Functions
<1>4. /\ confirms'[a] \in {"created", "record"}
      /\ \A j \in Ids : j # a => confirms'[j] = confirms[j] /\ runs'[j] = runs[j]
  BY <1>1, <1>3 DEF Runs, Functions
<1> QED  BY <1>2, <1>3, <1>4

(* Such steps keep what relates the document, the confirms and the effects. *)
LEMMA QuietKeeps ==
  ASSUME IndInv, made' \in Nat, made <= made', NEW i \in Ids, Quiet(i)
  PROVE  /\ i > made' => items'[i].state = "none" /\ confirms'[i] = "none" /\ runs'[i] = 0
         /\ confirms'[i] \in Executing => items'[i].state \in {"confirmed", "dropped"}
         /\ (confirms'[i] \in {"check", "run"} \/ items'[i].state = "pending") => runs'[i] = 0
         /\ (items'[i].result \/ agents'[i] # "none" \/ confirms'[i] \in {"created", "record"})
              => runs'[i] = 1
<1>1. /\ items[i] \in Item /\ confirms[i] \in Stages /\ runs[i] \in Nat /\ made \in Nat
      /\ i \in Nat
  BY TypeFunctions DEF IndInv, Functions, Ids
<1>2. /\ i > made => items[i].state = "none" /\ confirms[i] = "none" /\ runs[i] = 0
      /\ confirms[i] \in Executing => items[i].state \in {"confirmed", "dropped"}
      /\ (confirms[i] \in {"check", "run"} \/ items[i].state = "pending") => runs[i] = 0
      /\ (items[i].result \/ agents[i] # "none" \/ confirms[i] \in {"created", "record"})
           => runs[i] = 1
  BY DEF IndInv, Untouched, Confirmed, NotYet, Shown
<1>3. /\ \A s : [items[i] EXCEPT !.state = s].state = s
      /\ \A s : [items[i] EXCEPT !.state = s].result = items[i].result
      /\ \A b : [items[i] EXCEPT !.result = b].state = items[i].state
      /\ \A b : [items[i] EXCEPT !.result = b].result = b
  BY <1>1 DEF Item
<1>4. /\ runs'[i] = runs[i] /\ ItemStep(i)
      /\ agents'[i] = agents[i] \/ agents[i] # "none" \/ confirms[i] = "created"
  BY DEF Quiet
<1>5. CASE items'[i] = items[i] /\ StageStep(i)
  BY <1>1, <1>2, <1>4, <1>5 DEF StageStep, Executing
<1>6. CASE /\ items[i].state = "none" /\ made < i /\ i <= made'
           /\ items'[i].state = "pending" /\ ~items'[i].result
           /\ confirms'[i] = confirms[i]
  BY <1>1, <1>2, <1>4, <1>6 DEF Executing
<1>7. CASE /\ items[i].state = "pending"
           /\ \E s \in {"denied", "expired"} : items'[i] = [items[i] EXCEPT !.state = s]
           /\ confirms'[i] \in {confirms[i], "none"}
  <2>1. PICK s \in {"denied", "expired"} : items'[i] = [items[i] EXCEPT !.state = s]
    BY <1>7
  <2>2. items'[i].state = s /\ items'[i].result = items[i].result
    BY <1>3, <2>1
  <2>3. i <= made /\ confirms[i] \notin Executing
    BY <1>1, <1>2, <1>7
  <2> QED
    BY <1>1, <1>2, <1>4, <1>7, <2>2, <2>3 DEF Executing
<1>12. CASE /\ items[i].state = "pending"
            /\ items'[i] = [items[i] EXCEPT !.state = "confirmed"]
            /\ confirms'[i] = "check"
  <2>1. items'[i].state = "confirmed" /\ items'[i].result = items[i].result
    BY <1>3, <1>12
  <2>2. i <= made
    BY <1>1, <1>2, <1>12
  <2> QED
    BY <1>1, <1>2, <1>4, <1>12, <2>1, <2>2 DEF Executing
<1>8. CASE /\ items[i].state \in {"confirmed", "denied", "expired", "failed"}
           /\ items'[i] = [items[i] EXCEPT !.state = "dropped"]
           /\ confirms'[i] = confirms[i]
  BY <1>1, <1>2, <1>3, <1>4, <1>8 DEF Executing
<1>9. CASE /\ confirms[i] = "record" /\ confirms'[i] = "none"
           /\ \E b \in BOOLEAN : items'[i] = [items[i] EXCEPT !.result = b]
  BY <1>1, <1>2, <1>3, <1>4, <1>9 DEF Executing
<1>10. CASE /\ confirms[i] = "fail" /\ confirms'[i] = "none"
            /\ items'[i] = [items[i] EXCEPT !.state = "failed"]
  BY <1>1, <1>2, <1>3, <1>4, <1>10 DEF Executing
<1>11. CASE /\ items[i].state = "confirmed" /\ confirms'[i] = "none"
            /\ items'[i] = [items[i] EXCEPT !.state = "failed"]
  BY <1>1, <1>2, <1>3, <1>4, <1>11 DEF Executing
<1>13. CASE /\ items[i].state = "confirmed" /\ confirms'[i] = "none"
            /\ agents[i] # "none" /\ items'[i] = [items[i] EXCEPT !.result = TRUE]
  <2>1. items'[i].state = "confirmed" /\ i <= made /\ runs[i] = 1
    BY <1>1, <1>2, <1>3, <1>13
  <2> QED
    BY <1>1, <1>2, <1>4, <1>13, <2>1 DEF Executing
<1> QED
  BY <1>4, <1>5, <1>6, <1>7, <1>8, <1>9, <1>10, <1>11,
     <1>12, <1>13 DEF ItemStep

LEMMA LifeKept ==
  ASSUME IndInv, made' \in Nat, made <= made',
         (\A i \in Ids : Quiet(i)) \/ \E a \in Ids : Runs(a)
  PROVE  Untouched' /\ Confirmed' /\ NotYet' /\ Shown'
<1>1. CASE \A i \in Ids : Quiet(i)
  BY <1>1, QuietKeeps DEF Untouched, Confirmed, NotYet, Shown
<1>2. ASSUME NEW a \in Ids, Runs(a) PROVE Untouched' /\ Confirmed' /\ NotYet' /\ Shown'
  <2>1. /\ runs[a] = 0 /\ runs' = [runs EXCEPT ![a] = 1]
        /\ a <= made /\ items[a].state \in {"confirmed", "dropped"}
        /\ confirms'[a] \in {"created", "record"}
        /\ \A j \in Ids : j # a => confirms'[j] = confirms[j] /\ runs'[j] = runs[j]
    BY <1>2, RunsRun
  <2>2. items' = items /\ made' = made /\ \A j \in Ids : j # a => agents'[j] = agents[j]
    BY <1>2 DEF Runs
  <2>3. runs'[a] = 1 /\ a \in Nat /\ made \in Nat
    BY <2>1, TypeFunctions DEF IndInv, Functions, Ids
  <2>4. Untouched'
    BY <2>1, <2>2, <2>3 DEF IndInv, Untouched
  <2>5. Confirmed'
    BY <2>1, <2>2 DEF IndInv, Confirmed
  <2>6. NotYet'
    BY <2>1, <2>2 DEF IndInv, NotYet
  <2>7. Shown'
    BY <2>1, <2>2, <2>3 DEF IndInv, Shown
  <2> QED  BY <2>4, <2>5, <2>6, <2>7
<1> QED  BY <1>1, <1>2

(* Every step is quiet for every action, or executes one.                   *)
Moved ==
  /\ made' \in Nat /\ made <= made'
  /\ (\A i \in Ids : Quiet(i)) \/ \E a \in Ids : Runs(a)

LEMMA NothingMoves ==
  ASSUME IndInv, UNCHANGED <<items, made, agents, runs, confirms>>
  PROVE  Moved
<1>1. made \in Nat
  BY TypeFunctions DEF IndInv, Functions
<1> QED  BY <1>1 DEF Moved, Quiet, ItemStep, StageStep

LEMMA StageChanges ==
  ASSUME IndInv, NEW i \in Ids, NEW s \in Stages, confirms' = [confirms EXCEPT ![i] = s],
         UNCHANGED <<items, made, runs>>,
         \A j \in Ids : agents'[j] = agents[j] \/ agents[j] # "none" \/ confirms[j] = "created",
         \/ s = confirms[i]
         \/ i <= made /\ s \in {"none", "read", "expire", "claim"}
         \/ confirms[i] \in {"check", "run"} /\ s \in {"run", "fail"}
         \/ confirms[i] = "created" /\ s \in {"record", "fail"}
  PROVE  Moved
<1>1. made \in Nat /\ confirms \in [Ids -> Stages]
  BY TypeFunctions DEF IndInv, Functions
<1>2. \A j \in Ids : confirms'[j] = IF j = i THEN s ELSE confirms[j]
  BY <1>1
<1>3. \A j \in Ids : StageStep(j)
  BY <1>1, <1>2 DEF StageStep
<1> QED  BY <1>1, <1>3 DEF Moved, Quiet, ItemStep

(* A confirm that is under way is of an action that was made.               *)
LEMMA Underway ==
  ASSUME IndInv, NEW i \in Ids, confirms[i] # "none"
  PROVE  i <= made
<1>1. i \in Nat /\ made \in Nat
  BY TypeFunctions DEF IndInv, Functions, Ids
<1> QED  BY <1>1 DEF IndInv, Untouched

LEMMA PushMoves ==
  ASSUME IndInv, NEW item \in Item, item.state = "pending", ~item.result, Push(item),
         UNCHANGED <<agents, runs, confirms>>
  PROVE  Moved
<1>1. made \in Nat
  BY TypeFunctions DEF IndInv, Functions
<1>2. /\ made + 1 \in Ids /\ made' = made + 1
      /\ items[made + 1].state = "none"
      /\ items'[made + 1] = item
      /\ \A i \in Ids : i # made + 1 =>
           \/ items'[i] = items[i]
           \/ /\ items[i].state \in {"confirmed", "denied", "expired", "failed"}
              /\ items'[i] = [items[i] EXCEPT !.state = "dropped"]
  BY Pushed DEF IndInv
<1>3. ItemStep(made + 1)
  BY <1>1, <1>2 DEF ItemStep
<1>4. \A i \in Ids : i # made + 1 => ItemStep(i)
  BY <1>2 DEF ItemStep, StageStep
<1> QED  BY <1>1, <1>2, <1>3, <1>4 DEF Moved, Quiet

LEMMA KnownIds ==
  ASSUME TypeOK, Known, NEW p \in Callers,
         calls[p].step \in {"send", "sending", "unsent", "prompt"}
  PROVE  calls[p].id \in Ids /\ calls[p].id <= made
<1>1. MaxItems \in Nat /\ made \in 0 .. MaxItems /\ calls[p].id \in 1 .. made
  BY ActionsAssumption DEF TypeOK, Known
<1> QED  BY <1>1 DEF Ids

LEMMA ProposingMoves ==
  ASSUME IndInv, NEW p \in Callers, Proposing(p)
  PROVE  Moved
<1>0. TypeOK /\ Known /\ made \in Nat
  BY TypeFunctions DEF IndInv, Functions
<1>1. ASSUME NEW r \in Requests, Propose(p, r) PROVE Moved
  BY <1>1, NothingMoves DEF Propose, docVars
<1>2. CASE TakeUse(p)
  <2>1. PICK a \in Ids : Push(NewItem(calls[p].req, a))
    BY <1>2 DEF TakeUse
  <2> QED  BY <1>0, <1>2, <2>1, NewItems, PushMoves DEF TakeUse
<1>3. CASE NoOrder(p)
  BY <1>3, NothingMoves DEF NoOrder
<1>4. CASE Send(p)
  <2>1. calls[p].id \in Ids /\ calls[p].id <= made
    BY <1>0, <1>4, KnownIds DEF Send
  <2>2. PICK s \in {confirms[calls[p].id], "read"} :
          confirms' = [confirms EXCEPT ![calls[p].id] = s]
    BY <1>4 DEF Send
  <2>3. s \in Stages
    BY <1>0, <2>1, TypeFunctions DEF Functions, Stages
  <2> QED  BY <1>4, <2>1, <2>2, <2>3, StageChanges DEF Send, docVars
<1>5. CASE GiveBack(p)
  BY <1>5, NothingMoves DEF GiveBack
<1>6. CASE ReadItems(p)
  BY <1>6, NothingMoves DEF ReadItems, docVars
<1>7. CASE CheckLimits(p)
  BY <1>7, NothingMoves DEF CheckLimits, docVars
<1>8. CASE Insert(p)
  <2>1. CASE UNCHANGED <<items, made>>
    BY <1>8, <2>1, NothingMoves DEF Insert
  <2>2. CASE Push(NewItem(calls[p].req, 0))
    BY <1>0, <1>8, <2>2, NewItems, PushMoves DEF Insert
  <2> QED  BY <1>8, <2>1, <2>2 DEF Insert
<1>9. CASE Prompt(p)
  BY <1>9, NothingMoves DEF Prompt, docVars
<1> QED
  BY <1>1, <1>2, <1>3, <1>4, <1>5, <1>6, <1>7, <1>8, <1>9 DEF Proposing

LEMMA ConfirmingMoves ==
  ASSUME IndInv, NEW i \in Ids, Confirming(i)
  PROVE  Moved
<1>0. /\ TypeOK /\ made \in Nat /\ i \in Nat
      /\ items \in [Ids -> Item] /\ confirms \in [Ids -> Stages]
  BY TypeFunctions DEF IndInv, Functions, Ids
<1>a. confirms[i] # "none"
  BY DEF Confirming, ConfirmRead, ConfirmExpire, Claim, Recheck, CreateAgent, SubmitTask,
         RecordStanding, Execute, Throws, Record, Fail
<1>b. i <= made
  BY <1>a, Underway
<1>c. \A s : confirms' = [confirms EXCEPT ![i] = s] =>
        confirms'[i] = s /\ \A j \in Ids : j # i => confirms'[j] = confirms[j]
  BY <1>0
<1>d. Finish(i, TRUE) \/ Finish(i, FALSE) => confirms' = [confirms EXCEPT ![i] = "none"]
  BY DEF Finish, At
<1>1. CASE ConfirmRead(i)
  <2>1. PICK s \in {"none", "expire", "claim"} : confirms' = [confirms EXCEPT ![i] = s]
    BY <1>1 DEF ConfirmRead, Finish, At
  <2>2. UNCHANGED <<items, made, runs, agents>>
    BY <1>1 DEF ConfirmRead, docVars
  <2> QED  BY <1>b, <2>1, <2>2, StageChanges DEF Stages
<1>2. CASE ConfirmExpire(i)
  <2>1. \A j \in Ids : \/ items'[j] = items[j]
                       \/ /\ items[j].state = "pending"
                          /\ items'[j] = [items[j] EXCEPT !.state = "expired"]
    BY <1>0, <1>2, PendingMoves DEF ConfirmExpire, Expire
  <2>2. confirms'[i] = "none" /\ \A j \in Ids : j # i => confirms'[j] = confirms[j]
    BY <1>2, <1>c, <1>d DEF ConfirmExpire
  <2>3. \A j \in Ids : ItemStep(j)
    BY <1>b, <2>1, <2>2 DEF ItemStep, StageStep
  <2> QED  BY <1>0, <1>2, <2>3 DEF ConfirmExpire, Moved, Quiet
<1>3. CASE Claim(i)
  <2>1. CASE items[i].state = "pending"
    <3>1. /\ items'[i] = [items[i] EXCEPT !.state = "confirmed"]
          /\ \A j \in Ids : j # i => items'[j] = items[j]
      BY <1>0, <1>3, <2>1 DEF Claim
    <3>2. confirms'[i] = "check" /\ \A j \in Ids : j # i => confirms'[j] = confirms[j]
      BY <1>3, <1>c, <2>1 DEF Claim, At
    <3>3. \A j \in Ids : ItemStep(j)
      BY <2>1, <3>1, <3>2 DEF ItemStep, StageStep
    <3> QED  BY <1>0, <1>3, <3>3 DEF Claim, Moved, Quiet
  <2>2. CASE items[i].state # "pending"
    BY <1>3, <1>b, <2>2, StageChanges DEF Claim, At, Stages
  <2> QED  BY <2>1, <2>2
<1>4. CASE Recheck(i)
  <2>1. PICK s \in {"run", "fail"} : confirms' = [confirms EXCEPT ![i] = s]
    BY <1>4 DEF Recheck, At
  <2> QED  BY <1>4, <2>1, StageChanges DEF Recheck, docVars, Stages, Executing
<1>5. CASE CreateAgent(i)
  <2>1. \A j \in Ids : j # i => agents'[j] = agents[j]
    BY <1>5 DEF CreateAgent, TypeOK
  <2>2. Runs(i)
    BY <1>5, <2>1 DEF CreateAgent, At, Ran, Runs, docVars, worldVars
  <2> QED  BY <1>0, <1>5, <2>2 DEF CreateAgent, Moved, docVars
<1>6. CASE SubmitTask(i)
  <2>1. PICK s \in {"record", "fail"} : confirms' = [confirms EXCEPT ![i] = s]
    BY <1>6 DEF SubmitTask, At
  <2>2. \A j \in Ids : agents'[j] = agents[j] \/ confirms[j] = "created"
    BY <1>0, <1>6 DEF SubmitTask, TypeOK
  <2> QED  BY <1>6, <2>1, <2>2, StageChanges DEF SubmitTask, docVars, Stages, Executing
<1>7. CASE RecordStanding(i)
  <2>1. Runs(i)
    BY <1>7 DEF RecordStanding, At, Ran, Runs, worldVars
  <2> QED  BY <1>0, <1>7, <2>1 DEF RecordStanding, Moved
<1>8. CASE Execute(i)
  <2>1. Runs(i)
    BY <1>8 DEF Execute, At, Ran, Runs, docVars, worldVars
  <2> QED  BY <1>0, <1>8, <2>1 DEF Execute, Moved, docVars
<1>9. CASE Throws(i)
  BY <1>9, StageChanges DEF Throws, At, docVars, Stages, Executing
<1>10. CASE Record(i)
  <2>1. PICK b \in BOOLEAN : items' = [items EXCEPT ![i].result = b]
    BY <1>10 DEF Record
  <2>2. /\ items'[i] = [items[i] EXCEPT !.result = b]
        /\ \A j \in Ids : j # i => items'[j] = items[j]
    BY <1>0, <2>1
  <2>3. confirms'[i] = "none" /\ \A j \in Ids : j # i => confirms'[j] = confirms[j]
    BY <1>10, <1>c, <1>d DEF Record
  <2>4. \A j \in Ids : ItemStep(j)
    BY <1>10, <2>2, <2>3 DEF ItemStep, StageStep, Record
  <2> QED  BY <1>0, <1>10, <2>4 DEF Record, Moved, Quiet
<1>11. CASE Fail(i)
  <2>1. confirms'[i] = "none" /\ \A j \in Ids : j # i => confirms'[j] = confirms[j]
    BY <1>11, <1>c, <1>d DEF Fail
  <2>2. CASE items[i].state = "dropped"
    <3>1. items' = items
      <4>1. items' = [items EXCEPT ![i].state = items[i].state]
        BY <1>0, <1>11, <2>2 DEF Fail
      <4> QED  BY <1>0, <4>1 DEF Item
    <3> QED  BY <1>0, <1>11, <1>b, <2>1, <3>1 DEF Fail, Moved, Quiet, ItemStep, StageStep
  <2>3. CASE items[i].state # "dropped"
    <3>1. /\ items'[i] = [items[i] EXCEPT !.state = "failed"]
          /\ \A j \in Ids : j # i => items'[j] = items[j]
      BY <1>0, <1>11, <2>3 DEF Fail
    <3>2. \A j \in Ids : ItemStep(j)
      BY <1>11, <2>1, <2>3, <3>1 DEF ItemStep, StageStep, Fail
    <3> QED  BY <1>0, <1>11, <3>2 DEF Fail, Moved, Quiet
  <2> QED  BY <2>2, <2>3
<1> QED
  BY <1>1, <1>2, <1>3, <1>4, <1>5, <1>6, <1>7, <1>8, <1>9, <1>10, <1>11 DEF Confirming

LEMMA SurroundingMoves ==
  ASSUME IndInv,
         \/ \E i \in Ids : \/ Confirm(i) \/ Deny(i) \/ Sweep(i) \/ PhoneDeny(i)
                           \/ Lapse(i) \/ OrderEnds(i) \/ AgentEnds(i)
         \/ Phone
         \/ Restart
  PROVE  Moved
<1>0. /\ TypeOK /\ made \in Nat /\ Ids \subseteq Nat
      /\ items \in [Ids -> Item] /\ confirms \in [Ids -> Stages]
  BY TypeFunctions DEF IndInv, Functions, Ids
<1>a. ASSUME NEW i \in Ids, NEW s \in {"denied", "expired"},
             items' = [items EXCEPT ![i].state = IF @ = "pending" THEN s ELSE @],
             UNCHANGED <<made, agents, runs, confirms>>
      PROVE  Moved
  <2>1. \A j \in Ids : \/ items'[j] = items[j]
                       \/ /\ items[j].state = "pending"
                          /\ items'[j] = [items[j] EXCEPT !.state = s]
    BY <1>0, <1>a, PendingMoves
  <2>2. \A j \in Ids : ItemStep(j)
    BY <1>a, <2>1 DEF ItemStep, StageStep
  <2> QED  BY <1>0, <1>a, <2>2 DEF Moved, Quiet
<1>1. ASSUME NEW i \in Ids, Confirm(i) PROVE Moved
  BY <1>1, StageChanges DEF Confirm, docVars, Stages
<1>2. ASSUME NEW i \in Ids, Deny(i) PROVE Moved
  BY <1>2, <1>a DEF Deny, Refuse
<1>3. ASSUME NEW i \in Ids, Sweep(i) PROVE Moved
  BY <1>3, <1>a DEF Sweep, Expire
<1>4. ASSUME NEW i \in Ids, PhoneDeny(i) PROVE Moved
  BY <1>4, <1>a DEF PhoneDeny, Refuse
<1>5. ASSUME NEW i \in Ids, Lapse(i) PROVE Moved
  BY <1>5, NothingMoves DEF Lapse, docVars
<1>6. ASSUME NEW i \in Ids, OrderEnds(i) PROVE Moved
  BY <1>6, NothingMoves DEF OrderEnds, docVars
<1>7. ASSUME NEW i \in Ids, AgentEnds(i) PROVE Moved
  <2>1. \A j \in Ids : agents'[j] = agents[j] \/ agents[j] # "none"
    BY <1>7 DEF AgentEnds, TypeOK
  <2> QED  BY <1>0, <1>7, <2>1 DEF AgentEnds, docVars, Moved, Quiet, ItemStep, StageStep
<1>8. CASE Show \/ PromptAges \/ \E allow \in BOOLEAN : Press(allow)
  BY <1>8, NothingMoves DEF Show, PromptAges, Press, docVars
<1>9. CASE Respond
  <2>1. CASE UNCHANGED confirms
    BY <1>9, <2>1, NothingMoves DEF Respond, docVars
  <2>2. ASSUME NEW o \in Ids, WaitsForUser(o, lapsed),
               confirms' = [confirms EXCEPT ![o] = IF @ = "none" THEN "read" ELSE @]
        PROVE  Moved
    <3>1. o <= made
      BY <1>0, <2>2 DEF WaitsForUser, IndInv, Untouched
    <3>2. PICK s \in {confirms[o], "read"} : confirms' = [confirms EXCEPT ![o] = s]
      BY <2>2
    <3>3. s \in Stages
      BY <1>0, <3>2 DEF Stages
    <3> QED  BY <1>9, <3>1, <3>2, <3>3, StageChanges DEF Respond, docVars
  <2> QED  BY <1>9, <2>1, <2>2 DEF Respond
<1>10. CASE Restart
  <2>1. ASSUME NEW i \in Ids PROVE ItemStep(i)
    <3>1. confirms'[i] = "none"
      BY <1>10 DEF Restart
    <3>2. i <= made \/ confirms[i] = "none"
      BY Underway
    <3>3. CASE items[i].state = "pending"
      BY <1>10, <3>1, <3>3 DEF Restart, ItemStep
    <3>4. CASE items[i].state # "pending" /\ items'[i] = items[i]
      BY <3>1, <3>2, <3>4 DEF ItemStep, StageStep
    <3>5. CASE items[i].state = "confirmed" /\ ~items[i].result
      BY <1>10, <3>1, <3>5 DEF Restart, ItemStep
    <3> QED  BY <1>10, <3>3, <3>4, <3>5 DEF Restart
  <2> QED  BY <1>0, <1>10, <2>1 DEF Restart, Moved, Quiet
<1> QED
  BY <1>1, <1>2, <1>3, <1>4, <1>5, <1>6, <1>7, <1>8, <1>9, <1>10 DEF Phone

-----------------------------------------------------------------------------
(* What the calls know, and that only one action waits for the user.        *)

LEMMA CallTurns ==
  ASSUME IndInv, made' \in Nat, made <= made', lapsed \subseteq lapsed', NEW p \in Callers, NEW c,
         calls' = [calls EXCEPT ![p] = c], c.past \subseteq lapsed,
         c.step \in {"send", "sending", "unsent", "prompt"} => c.id \in 1 .. made'
  PROVE  Known' /\ PastLapsed'
<1>1. calls \in [Callers -> Call] /\ made \in Nat
  BY TypeFunctions DEF IndInv, TypeOK, Functions
<1>2. calls'[p] = c /\ \A q \in Callers : q # p => calls'[q] = calls[q]
  BY <1>1
<1>3. 1 .. made \subseteq 1 .. made'
  BY <1>1
<1>4. Known'
  BY <1>2, <1>3 DEF IndInv, Known
<1>5. PastLapsed'
  BY <1>2 DEF IndInv, PastLapsed
<1> QED  BY <1>4, <1>5

LEMMA CallsStay ==
  ASSUME IndInv, made' \in Nat, made <= made', lapsed \subseteq lapsed',
         \A q \in Callers : \/ calls'[q] = calls[q]
                            \/ calls'[q] = Idle
                            \/ /\ calls[q].step = "sending"
                               /\ calls'[q] = [calls[q] EXCEPT !.step = "unsent"]
  PROVE  Known' /\ PastLapsed'
<1>1. made \in Nat
  BY TypeFunctions DEF IndInv, Functions
<1>2. 1 .. made \subseteq 1 .. made'
  BY <1>1
<1>3. ASSUME NEW q \in Callers
      PROVE  /\ calls'[q].step \in {"send", "sending", "unsent", "prompt"} => calls'[q].id \in 1 .. made'
             /\ calls'[q].past \subseteq lapsed'
  <2>0. /\ calls[q].step \in {"send", "sending", "unsent", "prompt"} => calls[q].id \in 1 .. made
        /\ calls[q].past \subseteq lapsed /\ calls[q] \in Call
    BY DEF IndInv, Known, PastLapsed, TypeOK
  <2>1. CASE calls'[q] = calls[q]
    BY <1>2, <2>0, <2>1
  <2>2. CASE calls'[q] = Idle
    BY <2>2 DEF Idle
  <2>3. CASE calls[q].step = "sending" /\ calls'[q] = [calls[q] EXCEPT !.step = "unsent"]
    <3>1. calls'[q].id = calls[q].id /\ calls'[q].past = calls[q].past
      BY <2>0, <2>3 DEF Call
    <3> QED  BY <1>2, <2>0, <2>3, <3>1
  <2> QED  BY <2>1, <2>2, <2>3
<1> QED  BY <1>3 DEF Known, PastLapsed

(* Nobody starts to wait except in a new item.                              *)
LEMMA WaitedBefore ==
  ASSUME IndInv, Moved, lapsed \subseteq lapsed', NEW i \in Ids, WaitsForUser(i, lapsed)'
  PROVE  WaitsForUser(i, lapsed) \/ /\ items[i].state = "none" /\ made < i /\ i <= made'
<1>1. items[i] \in Item
  BY TypeFunctions DEF IndInv, Functions
<1>2. items'[i].state = "pending" /\ i \notin lapsed' /\ items'[i].origin = "overseer" /\ items'[i].standing = 0
  BY DEF WaitsForUser
<1>3. CASE \E a \in Ids : Runs(a)
  BY <1>2, <1>3 DEF Runs, WaitsForUser
<1>4. CASE ItemStep(i)
  <2>1. /\ \A s : [items[i] EXCEPT !.state = s].state = s
        /\ \A b : [items[i] EXCEPT !.result = b].state = items[i].state
    BY <1>1 DEF Item
  <2>2. confirms[i] \in {"record", "fail"} => items[i].state \in {"confirmed", "dropped"}
    BY DEF IndInv, Confirmed, Executing
  <2>3. items'[i] = items[i] \/ (items[i].state = "none" /\ made < i /\ i <= made')
    <3>1. CASE items[i].state = "pending"
      <4>1. \A s \in {"denied", "expired"} : items'[i] # [items[i] EXCEPT !.state = s]
        BY <1>2, <2>1
      <4>2. items'[i] # [items[i] EXCEPT !.state = "confirmed"]
        BY <1>2, <2>1
      <4> QED  BY <1>4, <2>2, <3>1, <4>1, <4>2 DEF ItemStep
    <3>2. CASE items[i].state # "pending" /\ items'[i] # items[i]
      <4>1. /\ items'[i] # [items[i] EXCEPT !.state = "dropped"]
            /\ items'[i] # [items[i] EXCEPT !.state = "failed"]
        BY <1>2, <2>1
      <4>2. \A b : items'[i] # [items[i] EXCEPT !.result = b]
        BY <1>2, <2>1, <3>2
      <4> QED  BY <1>4, <3>2, <4>1, <4>2 DEF ItemStep
    <3>3. CASE items'[i] = items[i]
      BY <3>3
    <3> QED  BY <3>1, <3>2, <3>3
  <2> QED  BY <1>2, <2>3 DEF WaitsForUser
<1> QED  BY <1>3, <1>4 DEF Moved, Quiet

LEMMA AloneStays ==
  ASSUME IndInv, Moved, lapsed \subseteq lapsed', made' = made
  PROVE  Alone'
<1>1. Ids \subseteq Nat /\ made \in Nat
  BY TypeFunctions DEF IndInv, Functions, Ids
<1>2. \A i \in Ids : WaitsForUser(i, lapsed)' => WaitsForUser(i, lapsed)
  BY <1>1, WaitedBefore
<1> QED  BY <1>2 DEF IndInv, Alone

LEMMA AloneGrows ==
  ASSUME IndInv, Moved, lapsed' = lapsed, made + 1 \in Ids, made' = made + 1,
         \/ \A i \in Ids : i = made + 1 => ~WaitsForUser(i, lapsed)'
         \/ \A i \in Ids : ~WaitsForUser(i, lapsed)
  PROVE  Alone'
<1>1. Ids \subseteq Nat /\ made \in Nat
  BY TypeFunctions DEF IndInv, Functions, Ids
<1>2. \A i \in Ids : WaitsForUser(i, lapsed)' => WaitsForUser(i, lapsed) \/ i = made + 1
  BY <1>1, WaitedBefore
<1>3. CASE \A i \in Ids : i = made + 1 => ~WaitsForUser(i, lapsed)'
  <2>1. \A i \in Ids : WaitsForUser(i, lapsed)' => WaitsForUser(i, lapsed)
    BY <1>2, <1>3
  <2> QED  BY <2>1 DEF IndInv, Alone
<1>4. CASE \A i \in Ids : ~WaitsForUser(i, lapsed)
  <2>1. \A i \in Ids : WaitsForUser(i, lapsed)' => i = made + 1
    BY <1>2, <1>4
  <2> QED  BY <2>1 DEF Alone
<1> QED  BY <1>3, <1>4

LEMMA ProposingKeeps ==
  ASSUME IndInv, NEW p \in Callers, Proposing(p)
  PROVE  Known' /\ PastLapsed' /\ Alone'
<1>0. /\ TypeOK /\ Known /\ Untouched /\ made \in Nat /\ Moved /\ made' \in Nat /\ made <= made'
      /\ calls[p] \in Call /\ calls[p].past \subseteq lapsed
      /\ calls \in [Callers -> Call]
  BY TypeFunctions, ProposingMoves DEF IndInv, Functions, Moved, TypeOK, PastLapsed
<1>a. lapsed' = lapsed
  BY DEF Proposing, Propose, TakeUse, NoOrder, Send, GiveBack, ReadItems, CheckLimits, Insert, Prompt, worldVars
<1>b. ASSUME Returns(p) PROVE Known' /\ PastLapsed'
  BY <1>0, <1>a, <1>b, CallsStay DEF Returns
<1>c. ASSUME NEW s \in Steps, calls' = [calls EXCEPT ![p].step = s],
             s \in {"send", "sending", "unsent", "prompt"}
               => calls[p].step \in {"send", "sending", "unsent", "prompt"}
      PROVE  Known' /\ PastLapsed'
  <2> DEFINE c == [calls[p] EXCEPT !.step = s]
  <2>1. calls' = [calls EXCEPT ![p] = c]
    BY <1>c
  <2>2. c.past = calls[p].past /\ c.step = s /\ c.id = calls[p].id
    BY <1>0 DEF Call
  <2>3. calls[p].step \in {"send", "sending", "unsent", "prompt"} => calls[p].id \in 1 .. made'
    BY <1>0 DEF Known
  <2> HIDE DEF c
  <2> QED  BY <1>0, <1>a, <1>c, <2>1, <2>2, <2>3, CallTurns
<1>1. ASSUME NEW r \in Requests, Propose(p, r) PROVE Known' /\ PastLapsed' /\ Alone'
  <2>1. PICK s \in {"order", "read"} : calls' = [calls EXCEPT ![p].req = r, ![p].step = s]
    BY <1>1 DEF Propose
  <2> DEFINE c == [calls[p] EXCEPT !.req = r, !.step = s]
  <2>2. calls' = [calls EXCEPT ![p] = c]
    BY <1>0, <2>1
  <2>3. c.past = calls[p].past /\ c.step = s
    BY <1>0 DEF Call
  <2> HIDE DEF c
  <2>4. Known' /\ PastLapsed'
    BY <1>0, <1>a, <2>2, <2>3, CallTurns
  <2> QED  BY <1>0, <1>1, <1>a, <2>4, AloneStays DEF Propose, docVars
<1>2. CASE TakeUse(p)
  <2>1. PICK a \in Ids : Push(NewItem(calls[p].req, a))
    BY <1>2 DEF TakeUse
  <2>2. made + 1 \in Ids /\ made' = made + 1 /\ items'[made + 1] = NewItem(calls[p].req, a)
    BY <1>0, <2>1, NewItems, Pushed
  <2>3. a # 0
    BY DEF Ids
  <2>4. Alone'
    <3>1. items'[made + 1].standing # 0
      BY <2>2, <2>3 DEF NewItem
    <3>2. \A i \in Ids : i = made + 1 => ~WaitsForUser(i, lapsed)'
      BY <3>1 DEF WaitsForUser
    <3> QED  BY <1>0, <1>a, <2>2, <3>2, AloneGrows
  <2> DEFINE c == [calls[p] EXCEPT !.step = "send", !.id = made']
  <2>5. calls' = [calls EXCEPT ![p] = c]
    BY <1>0, <1>2 DEF TakeUse
  <2>6. c.past = calls[p].past /\ c.id = made' /\ made' \in 1 .. made'
    BY <1>0, <2>2 DEF Call
  <2> HIDE DEF c
  <2>7. Known' /\ PastLapsed'
    BY <1>0, <1>a, <2>5, <2>6, CallTurns
  <2> QED  BY <2>4, <2>7
<1>3. CASE NoOrder(p)
  BY <1>0, <1>3, <1>a, <1>c, AloneStays DEF NoOrder, Goes, Steps
<1>4. CASE Send(p)
  BY <1>0, <1>4, <1>a, <1>c, AloneStays DEF Send, Goes, Steps, docVars
<1>5. CASE GiveBack(p)
  BY <1>0, <1>5, <1>a, <1>b, AloneStays DEF GiveBack
<1>6. CASE ReadItems(p)
  <2>1. CASE Returns(p)
    BY <1>0, <1>6, <1>a, <1>b, <2>1, AloneStays DEF ReadItems, docVars
  <2>2. ASSUME NEW s \in {"limits", "insert"}, NEW past \in {{}, lapsed},
               calls' = [calls EXCEPT ![p].step = s, ![p].past = past]
        PROVE  Known' /\ PastLapsed' /\ Alone'
    <3> DEFINE c == [calls[p] EXCEPT !.step = s, !.past = past]
    <3>1. calls' = [calls EXCEPT ![p] = c]
      BY <1>0, <2>2
    <3>2. c.past = past /\ c.step = s
      BY <1>0 DEF Call
    <3> HIDE DEF c
    <3>3. Known' /\ PastLapsed'
      BY <1>0, <1>a, <3>1, <3>2, CallTurns
    <3> QED  BY <1>0, <1>6, <1>a, <3>3, AloneStays DEF ReadItems, docVars
  <2> QED  BY <1>6, <2>1, <2>2 DEF ReadItems
<1>7. CASE CheckLimits(p)
  <2>1. CASE Returns(p)
    BY <1>0, <1>7, <1>a, <1>b, <2>1, AloneStays DEF CheckLimits, docVars
  <2>2. CASE calls' = [calls EXCEPT ![p].step = "insert", ![p].past = lapsed]
    <3> DEFINE c == [calls[p] EXCEPT !.step = "insert", !.past = lapsed]
    <3>1. calls' = [calls EXCEPT ![p] = c]
      BY <1>0, <2>2
    <3>2. c.past = lapsed /\ c.step = "insert"
      BY <1>0 DEF Call
    <3> HIDE DEF c
    <3>3. Known' /\ PastLapsed'
      BY <1>0, <1>a, <3>1, <3>2, CallTurns
    <3> QED  BY <1>0, <1>7, <1>a, <3>3, AloneStays DEF CheckLimits, docVars
  <2> QED  BY <1>7, <2>1, <2>2 DEF CheckLimits
<1>8. CASE Insert(p)
  <2>1. CASE Returns(p) /\ UNCHANGED <<items, made>>
    BY <1>0, <1>a, <1>b, <2>1, AloneStays
  <2>2. CASE /\ Push(NewItem(calls[p].req, 0))
             /\ calls[p].req.origin = "overseer"
                  => \A i \in Ids : ~WaitsForUser(i, calls[p].past)
    <3>1. made + 1 \in Ids /\ made' = made + 1 /\ items'[made + 1] = NewItem(calls[p].req, 0)
      BY <1>0, <2>2, NewItems, Pushed
    <3>2. \A i \in Ids : WaitsForUser(i, lapsed) => WaitsForUser(i, calls[p].past)
      BY <1>0 DEF WaitsForUser
    <3>3. Alone'
      <4>1. CASE calls[p].req.origin = "overseer"
        BY <1>0, <1>a, <2>2, <3>1, <3>2, <4>1, AloneGrows
      <4>2. CASE calls[p].req.origin # "overseer"
        <5>1. items'[made + 1].origin # "overseer"
          BY <3>1, <4>2 DEF NewItem
        <5>2. \A i \in Ids : i = made + 1 => ~WaitsForUser(i, lapsed)'
          BY <5>1 DEF WaitsForUser
        <5> QED  BY <1>0, <1>a, <3>1, <5>2, AloneGrows
      <4> QED  BY <4>1, <4>2
    <3>4. CASE Returns(p)
      BY <1>b, <3>3, <3>4
    <3>5. CASE calls' = [calls EXCEPT ![p].step = "prompt", ![p].id = made']
      <4> DEFINE c == [calls[p] EXCEPT !.step = "prompt", !.id = made']
      <4>1. calls' = [calls EXCEPT ![p] = c]
        BY <1>0, <3>5
      <4>2. c.past = calls[p].past /\ c.id = made' /\ made' \in 1 .. made'
        BY <1>0, <3>1 DEF Call
      <4> HIDE DEF c
      <4> QED  BY <1>0, <1>a, <3>3, <4>1, <4>2, CallTurns
    <3> QED  BY <1>8, <3>1, <3>4, <3>5 DEF Insert
  <2> QED  BY <1>8, <2>1, <2>2 DEF Insert
<1>9. CASE Prompt(p)
  BY <1>0, <1>9, <1>a, <1>b, AloneStays DEF Prompt, docVars
<1> QED
  BY <1>1, <1>2, <1>3, <1>4, <1>5, <1>6, <1>7, <1>8, <1>9 DEF Proposing

LEMMA ConfirmingKeeps ==
  ASSUME IndInv, NEW i \in Ids, Confirming(i)
  PROVE  Known' /\ PastLapsed' /\ Alone'
<1>0. TypeOK /\ Moved /\ made' \in Nat /\ made <= made'
  BY ConfirmingMoves DEF IndInv, Moved
<1>1. lapsed' = lapsed /\ made' = made
  BY DEF Confirming, ConfirmRead, ConfirmExpire, Claim, Recheck, CreateAgent, SubmitTask,
         RecordStanding, Execute, Throws, Record, Fail, docVars, worldVars
<1>2. Alone'
  BY <1>0, <1>1, AloneStays
<1>3. UNCHANGED calls \/ \E ok \in BOOLEAN : Finish(i, ok)
  BY DEF Confirming, ConfirmRead, ConfirmExpire, Claim, Recheck, CreateAgent, SubmitTask,
         RecordStanding, Execute, Throws, Record, Fail
<1>4. \A q \in Callers : \/ calls'[q] = calls[q]
                         \/ calls'[q] = Idle
                         \/ /\ calls[q].step = "sending"
                            /\ calls'[q] = [calls[q] EXCEPT !.step = "unsent"]
  BY <1>0, <1>3, Finishes
<1> QED  BY <1>0, <1>1, <1>2, <1>4, CallsStay

LEMMA SurroundingKeeps ==
  ASSUME IndInv,
         \/ \E i \in Ids : \/ Confirm(i) \/ Deny(i) \/ Sweep(i) \/ PhoneDeny(i)
                           \/ Lapse(i) \/ OrderEnds(i) \/ AgentEnds(i)
         \/ Phone
         \/ Restart
  PROVE  Known' /\ PastLapsed' /\ Alone'
<1>0. TypeOK /\ Moved /\ made' \in Nat /\ made <= made'
  BY SurroundingMoves DEF IndInv, Moved
<1>1. lapsed \subseteq lapsed' /\ made' = made
  BY DEF Confirm, Deny, Sweep, PhoneDeny, Lapse, OrderEnds, AgentEnds, Phone, Show, Press,
         PromptAges, Respond, Restart, docVars, worldVars
<1>2. \A q \in Callers : calls'[q] = calls[q] \/ calls'[q] = Idle
  BY DEF Confirm, Deny, Sweep, PhoneDeny, Lapse, OrderEnds, AgentEnds, Phone, Show, Press,
         PromptAges, Respond, Restart
<1> QED  BY <1>0, <1>1, <1>2, AloneStays, CallsStay

-----------------------------------------------------------------------------
(* The invariant is inductive.                                              *)

LEMMA StepMoves == IndInv /\ Next => Moved
BY ProposingMoves, ConfirmingMoves, SurroundingMoves DEF Next

LEMMA NextInv == IndInv /\ [Next]_vars => IndInv'
<1> SUFFICES ASSUME IndInv, [Next]_vars PROVE IndInv'
  OBVIOUS
<1>1. CASE Next
  <2>1. TypeOK'
    BY <1>1, ProposingTypes, ConfirmingTypes, SurroundingTypes DEF Next, IndInv
  <2>2. Untouched' /\ Confirmed' /\ NotYet' /\ Shown'
    BY <1>1, StepMoves, LifeKept DEF Moved
  <2>3. Known' /\ PastLapsed' /\ Alone'
    BY <1>1, ProposingKeeps, ConfirmingKeeps, SurroundingKeeps DEF Next
  <2> QED  BY <2>1, <2>2, <2>3 DEF IndInv
<1>2. CASE UNCHANGED vars
  <2>1. TypeOK'
    BY <1>2 DEF vars, IndInv, TypeOK
  <2>2. Untouched' /\ Confirmed' /\ NotYet' /\ Shown' /\ Known' /\ PastLapsed'
    BY <1>2 DEF vars, IndInv, Untouched, Confirmed, NotYet, Shown, Known, PastLapsed
  <2>3. Alone'
    BY <1>2 DEF vars, IndInv, Alone, WaitsForUser
  <2> QED  BY <2>1, <2>2, <2>3 DEF IndInv
<1> QED  BY <1>1, <1>2

LEMMA Invariant == Spec => []IndInv
<1> QED  BY InitInv, NextInv, PTL DEF Spec

(* Every value of every variable stays what actions.mjs writes there, for   *)
(* any number of callers and actions.                                       *)
THEOREM ActionTypes == Spec => []TypeOK
<1>1. IndInv => TypeOK
  BY DEF IndInv
<1> QED  BY <1>1, Invariant, PTL

(* Two actions never wait for the phone's answer, which carries no id.      *)
THEOREM OneQuestionOnly == Spec => []OneQuestion
<1>1. ASSUME Alone PROVE OneQuestion
  <2> DEFINE W == {i \in Ids : WaitsForUser(i, lapsed)}
  <2>1. CASE W = {}
    BY <2>1, FS_EmptySet DEF OneQuestion
  <2>2. CASE W # {}
    <3>1. PICK w : w \in W
      BY <2>2
    <3>2. W = {w}
      BY <1>1, <3>1 DEF Alone
    <3> HIDE DEF W
    <3>3. Cardinality(W) = 1
      BY <3>2, FS_Singleton
    <3> QED  BY <3>3 DEF OneQuestion, W
  <2> QED  BY <2>1, <2>2
<1> QED  BY <1>1, Invariant, PTL DEF IndInv

(* What a confirm reports as done had its effect exactly once, across       *)
(* restarts too.                                                            *)
THEOREM ResultsRan == Spec => []ResultMeansRun
<1>1. IndInv => ResultMeansRun
  BY DEF IndInv, Shown, ResultMeansRun
<1> QED  BY <1>1, Invariant, PTL

(* A quiet step moves an action as the gate allows.                         *)
LEMMA QuietStands ==
  ASSUME IndInv, NEW i \in Ids, Quiet(i)
  PROVE  /\ Standing(i)' \in Gate!Status
         /\ Standing(i)' = Standing(i) \/ <<Standing(i), Standing(i)'>> \in Gate!Moves
<1>1. items[i] \in Item /\ confirms[i] \in Stages
  BY TypeFunctions DEF IndInv, Functions
<1>2. /\ \A s : [items[i] EXCEPT !.state = s].state = s
      /\ \A b : [items[i] EXCEPT !.result = b].state = items[i].state
  BY <1>1 DEF Item
<1>3. /\ confirms[i] \in Executing => items[i].state \in {"confirmed", "dropped"}
      /\ confirms[i] # "none" => i <= made
      /\ i > made => items[i].state = "none"
  BY Underway DEF IndInv, Confirmed, Untouched
<1>4. items[i].state \in {"none", "pending", "confirmed", "denied", "expired", "failed", "dropped"}
  BY <1>1 DEF Item
<1>5. ItemStep(i)
  BY DEF Quiet
<1>6. CASE items'[i] = items[i] /\ StageStep(i)
  BY <1>1, <1>3, <1>4, <1>6 DEF StageStep, Standing, Executing, Gate!Status, Gate!Moves
<1>7. CASE items[i].state = "none" /\ items'[i].state = "pending"
  BY <1>7 DEF Standing, Gate!Status, Gate!Moves
<1>8. CASE /\ items[i].state = "pending"
           /\ \E s \in {"denied", "expired", "confirmed"} : items'[i] = [items[i] EXCEPT !.state = s]
  <2>1. items'[i].state \in {"denied", "expired", "confirmed"}
    BY <1>2, <1>8
  <2> QED  BY <1>8, <2>1 DEF Standing, Gate!Status, Gate!Moves
<1>9. CASE /\ items[i].state \in {"confirmed", "denied", "expired", "failed"}
           /\ items'[i] = [items[i] EXCEPT !.state = "dropped"]
           /\ confirms'[i] = confirms[i]
  <2>1. items'[i].state = "dropped"
    BY <1>2, <1>9
  <2> QED  BY <1>3, <1>9, <2>1 DEF Standing, Gate!Status, Gate!Moves
<1>10. CASE /\ confirms[i] = "record" /\ confirms'[i] = "none"
            /\ \E b \in BOOLEAN : items'[i] = [items[i] EXCEPT !.result = b]
  <2>1. items'[i].state = items[i].state /\ items[i].state \in {"confirmed", "dropped"}
    BY <1>2, <1>3, <1>10 DEF Executing
  <2> QED  BY <1>10, <2>1 DEF Standing, Executing, Gate!Status, Gate!Moves
<1>11. CASE /\ items[i].state = "confirmed"
            /\ \/ items'[i] = [items[i] EXCEPT !.state = "failed"]
               \/ items'[i] = [items[i] EXCEPT !.result = TRUE]
  <2>1. items'[i].state \in {"confirmed", "failed"}
    BY <1>2, <1>11
  <2> QED  BY <1>11, <2>1 DEF Standing, Gate!Status, Gate!Moves
<1>12. confirms[i] = "fail" /\ items[i].state # "dropped" => items[i].state = "confirmed"
  BY <1>3 DEF Executing
<1> QED
  BY <1>5, <1>6, <1>7, <1>8, <1>9, <1>10, <1>11, <1>12 DEF ItemStep

(* The document, prune and the confirms in flight implement GatedActions:   *)
(* no action runs twice or without having been allowed, and an answer is    *)
(* final.                                                                   *)
THEOREM GateKept == Spec => KeepsGate
<1>1. Init => Gate!Init
  BY DEF Init, Gate!Init, Standing, NoItem
<1>2. ASSUME IndInv, IndInv', Moved
      PROVE  [Gate!Next]_<<[i \in Ids |-> Standing(i)], runs>>
  <2>0. Functions
    BY <1>2, TypeFunctions DEF IndInv
  <2>1. ASSUME NEW a \in Ids, Runs(a) PROVE Gate!Run(a)
    <3>1. /\ runs[a] = 0 /\ runs' = [runs EXCEPT ![a] = 1]
          /\ items[a].state \in {"confirmed", "dropped"}
          /\ confirms'[a] \in {"created", "record"}
          /\ \A j \in Ids : j # a => confirms'[j] = confirms[j]
      BY <1>2, <2>1, RunsRun
    <3>2. confirms[a] = "run" /\ items' = items
      BY <2>1 DEF Runs
    <3>3. Standing(a) = "allowed"
      BY <3>1, <3>2 DEF Standing, Executing
    <3>4. \A j \in Ids : Standing(j)' = Standing(j)
      BY <3>1, <3>2 DEF Standing, Executing
    <3> QED  BY <3>1, <3>3, <3>4 DEF Gate!Run
  <2>2. ASSUME \A i \in Ids : Quiet(i) PROVE Gate!Settle
    <3>1. runs' = runs
      BY <1>2, <2>0, <2>2 DEF IndInv, TypeOK, Functions, Quiet
    <3>2. \A i \in Ids : /\ Standing(i)' \in Gate!Status
                         /\ \/ Standing(i)' = Standing(i)
                            \/ <<Standing(i), Standing(i)'>> \in Gate!Moves
      BY <1>2, <2>2, QuietStands
    <3> QED  BY <3>1, <3>2 DEF Gate!Settle
  <2> QED  BY <1>2, <2>1, <2>2 DEF Moved, Gate!Next
<1>3. IndInv /\ [Next]_vars => [Gate!Next]_<<[i \in Ids |-> Standing(i)], runs>>
  <2>1. CASE UNCHANGED vars
    BY <2>1 DEF vars, Standing
  <2> QED  BY <1>2, <2>1, StepMoves, NextInv
<1> QED  BY <1>1, <1>3, Invariant, PTL DEF KeepsGate, Gate!Spec, Spec

-----------------------------------------------------------------------------
(* What one step does to one action, in full.                               *)

(* Its item stays.                                                          *)
ConfirmStep(i) ==
  /\ items'[i] = items[i] /\ runs'[i] = runs[i]
  /\ \/ confirms'[i] = confirms[i] /\ agents'[i] \in {agents[i], "gone"}
     \/ /\ agents'[i] = agents[i]
        /\ \/ confirms[i] = "none" /\ confirms'[i] = "read"
           \/ confirms[i] = "read" /\ confirms'[i] = "none"
           \/ /\ confirms[i] = "read" /\ confirms'[i] \in {"expire", "claim"}
              /\ items[i].state = "pending"
           \/ /\ confirms[i] = "claim" /\ confirms'[i] = "read"
              /\ items[i].state # "pending"
           \/ confirms[i] = "expire" /\ confirms'[i] = "none"
           \/ confirms[i] \in {"check", "run"} /\ confirms'[i] \in {"run", "fail"}
           \/ /\ confirms[i] = "fail" /\ confirms'[i] = "none"
              /\ items[i].state = "dropped"
     \/ confirms[i] = "created" /\ confirms'[i] = "record"
     \/ confirms[i] = "created" /\ confirms'[i] = "fail" /\ agents'[i] # "tasked"

(* It has its effect.                                                       *)
RunStep(i) ==
  /\ items'[i] = items[i] /\ confirms[i] = "run" /\ runs'[i] = runs[i] + 1
  /\ \/ /\ items[i].kind = "session_start"
        /\ confirms'[i] = "created" /\ agents'[i] = "row"
     \/ confirms'[i] = "record" /\ agents'[i] = agents[i]

(* Its item is written.                                                     *)
WriteStep(i) ==
  /\ runs'[i] = runs[i] /\ agents'[i] = agents[i]
  /\ \/ /\ items[i].state = "none" /\ made < i /\ i <= made'
        /\ items'[i] \in Item /\ items'[i].state = "pending"
        /\ items'[i].standing # 0 => items'[i].kind = "session_message"
        /\ items'[i].handoff => items'[i].kind = "session_start"
        /\ items'[i].standing # 0 => orders[items'[i].standing].listed
        /\ confirms'[i] = confirms[i]
     \/ /\ items[i].state = "pending"
        /\ \E s \in {"denied", "expired"} : items'[i] = [items[i] EXCEPT !.state = s]
        /\ \/ confirms'[i] = confirms[i]
           \/ confirms[i] = "expire" /\ confirms'[i] = "none"
     \/ /\ items[i].state = "pending" /\ confirms[i] = "claim"
        /\ items'[i] = [items[i] EXCEPT !.state = "confirmed"]
        /\ confirms'[i] = "check"
     \/ /\ items[i].state \in {"confirmed", "denied", "expired", "failed"} /\ made # made'
        /\ items'[i] = [items[i] EXCEPT !.state = "dropped"]
        /\ confirms'[i] = confirms[i]
     \/ /\ confirms[i] = "record" /\ confirms'[i] = "none"
        /\ items'[i] = [items[i] EXCEPT !.result = (items[i].state # "dropped")]
     \/ /\ confirms[i] = "fail" /\ confirms'[i] = "none"
        /\ items[i].state # "dropped" /\ items'[i] = [items[i] EXCEPT !.state = "failed"]

Step(i) == ConfirmStep(i) \/ RunStep(i) \/ WriteStep(i)

(* Only the overseer's messages look for a standing order.                  *)
OrderCalls == \A p \in Callers : calls[p].step = "order" => calls[p].req.kind = "session_message"

LEMMA Stays ==
  ASSUME UNCHANGED <<items, agents, runs, confirms>>
  PROVE  \A i \in Ids : Step(i)
BY DEF Step, ConfirmStep

(* The item a call writes: only messages go under a standing order, only    *)
(* starts for a hand-off.                                                   *)
LEMMA ProperItems ==
  ASSUME TypeOK, NEW p \in Callers, NEW a \in Ids \union {0},
         a # 0 => calls[p].req.kind = "session_message"
  PROVE  /\ NewItem(calls[p].req, a).standing # 0 => NewItem(calls[p].req, a).kind = "session_message"
         /\ NewItem(calls[p].req, a).handoff => NewItem(calls[p].req, a).kind = "session_start"
<1>1. calls[p].req \in Requests \union {NoItem}
  BY DEF TypeOK, Call
<1>2. calls[p].req.handoff => calls[p].req.kind = "session_start"
  <2>1. ~NoItem.handoff
    BY DEF NoItem
  <2> QED  BY <1>1, <2>1, ActionsAssumption
<1> QED  BY <1>2 DEF NewItem

(* Filtering lists nothing new and counts no use.                           *)
LEMMA FilteredKeeps ==
  ASSUME TypeOK, NEW a \in Ids
  PROVE  /\ Filtered(orders)[a].listed => orders[a].listed
         /\ Filtered(orders)[a].used = orders[a].used
<1>1. orders[a] \in Order
  BY DEF TypeOK, Order
<1>2. Filtered(orders)[a] = [orders[a] EXCEPT !.listed = @ /\ a \notin over /\ orders[a].used < MaxTimes]
  BY DEF Filtered
<1>3. /\ Filtered(orders)[a].used = orders[a].used
      /\ Filtered(orders)[a].listed = (orders[a].listed /\ a \notin over /\ orders[a].used < MaxTimes)
  BY <1>1, <1>2 DEF Order
<1> QED  BY <1>3

LEMMA PushSteps ==
  ASSUME IndInv, NEW item \in Item, item.state = "pending", Push(item),
         item.standing # 0 => item.kind = "session_message",
         item.handoff => item.kind = "session_start",
         item.standing # 0 => orders[item.standing].listed,
         UNCHANGED <<agents, runs, confirms>>
  PROVE  \A i \in Ids : Step(i)
<1>1. made \in Nat
  BY TypeFunctions DEF IndInv, Functions
<1>2. /\ made + 1 \in Ids /\ made' = made + 1
      /\ items[made + 1].state = "none"
      /\ items'[made + 1] = item
      /\ \A i \in Ids : i # made + 1 =>
           \/ items'[i] = items[i]
           \/ /\ items[i].state \in {"confirmed", "denied", "expired", "failed"}
              /\ items'[i] = [items[i] EXCEPT !.state = "dropped"]
  BY Pushed DEF IndInv
<1>3. Step(made + 1)
  BY <1>1, <1>2 DEF Step, WriteStep
<1>4. \A i \in Ids : i # made + 1 => Step(i)
  BY <1>1, <1>2 DEF Step, WriteStep, ConfirmStep
<1> QED  BY <1>3, <1>4

LEMMA ProposingSteps ==
  ASSUME IndInv, OrderCalls, NEW p \in Callers, Proposing(p)
  PROVE  \A i \in Ids : Step(i)
<1>0. TypeOK /\ Known /\ confirms \in [Ids -> Stages]
  BY TypeFunctions DEF IndInv, Functions
<1>1. ASSUME NEW r \in Requests, Propose(p, r) PROVE \A i \in Ids : Step(i)
  BY <1>1, Stays DEF Propose, docVars
<1>2. CASE TakeUse(p)
  <2>1. PICK a \in Ids : Filtered(orders)[a].listed /\ Push(NewItem(calls[p].req, a))
    BY <1>2 DEF TakeUse
  <2>2. calls[p].req.kind = "session_message"
    BY <1>2 DEF TakeUse, OrderCalls
  <2>3. orders[a].listed
    BY <1>0, <2>1, FilteredKeeps
  <2> QED  BY <1>0, <1>2, <2>1, <2>2, <2>3, NewItems, ProperItems, PushSteps DEF TakeUse
<1>3. CASE NoOrder(p) \/ GiveBack(p) \/ ReadItems(p) \/ CheckLimits(p) \/ Prompt(p)
  BY <1>3, Stays DEF NoOrder, GiveBack, ReadItems, CheckLimits, Prompt, docVars
<1>4. CASE Send(p)
  <2>1. \A j \in Ids : \/ confirms'[j] = confirms[j]
                       \/ confirms[j] = "none" /\ confirms'[j] = "read"
    BY <1>0, <1>4 DEF Send
  <2> QED  BY <1>4, <2>1 DEF Send, docVars, Step, ConfirmStep
<1>5. CASE Insert(p)
  <2>1. CASE UNCHANGED <<items, made>>
    BY <1>5, <2>1, Stays DEF Insert
  <2>2. CASE Push(NewItem(calls[p].req, 0))
    BY <1>0, <1>5, <2>2, NewItems, ProperItems, PushSteps DEF Insert
  <2> QED  BY <1>5, <2>1, <2>2 DEF Insert
<1> QED
  BY <1>1, <1>2, <1>3, <1>4, <1>5 DEF Proposing

LEMMA ConfirmingSteps ==
  ASSUME IndInv, NEW i \in Ids, Confirming(i)
  PROVE  \A j \in Ids : Step(j)
<1>0. /\ TypeOK
      /\ items \in [Ids -> Item] /\ confirms \in [Ids -> Stages] /\ runs \in [Ids -> Nat]
      /\ agents \in [Ids -> {"none", "row", "idle", "tasked", "gone"}]
  BY TypeFunctions DEF IndInv, Functions, TypeOK
<1>c. \A s : confirms' = [confirms EXCEPT ![i] = s] =>
        confirms'[i] = s /\ \A j \in Ids : j # i => confirms'[j] = confirms[j]
  BY <1>0
<1>d. Finish(i, TRUE) \/ Finish(i, FALSE) => confirms' = [confirms EXCEPT ![i] = "none"]
  BY DEF Finish, At
<1>1. CASE ConfirmRead(i)
  <2>1. \/ confirms' = [confirms EXCEPT ![i] = "none"]
        \/ /\ \E s \in {"expire", "claim"} : confirms' = [confirms EXCEPT ![i] = s]
           /\ items[i].state = "pending"
    BY <1>1 DEF ConfirmRead, Finish, At
  <2>2. UNCHANGED <<items, made, runs, agents>> /\ confirms[i] = "read"
    BY <1>1 DEF ConfirmRead, docVars
  <2> QED  BY <1>c, <2>1, <2>2 DEF Step, ConfirmStep
<1>2. CASE ConfirmExpire(i)
  <2>1. \A j \in Ids : \/ items'[j] = items[j]
                       \/ /\ items[j].state = "pending"
                          /\ items'[j] = [items[j] EXCEPT !.state = "expired"]
    BY <1>0, <1>2, PendingMoves DEF ConfirmExpire, Expire
  <2>2. confirms'[i] = "none" /\ \A j \in Ids : j # i => confirms'[j] = confirms[j]
    BY <1>2, <1>c, <1>d DEF ConfirmExpire
  <2>3. UNCHANGED <<runs, agents>> /\ confirms[i] = "expire"
    BY <1>2 DEF ConfirmExpire
  <2> QED  BY <2>1, <2>2, <2>3 DEF Step, WriteStep, ConfirmStep
<1>3. CASE Claim(i)
  <2>0. UNCHANGED <<runs, agents>> /\ confirms[i] = "claim"
    BY <1>3 DEF Claim
  <2>1. CASE items[i].state = "pending"
    <3>1. /\ items'[i] = [items[i] EXCEPT !.state = "confirmed"]
          /\ \A j \in Ids : j # i => items'[j] = items[j]
      BY <1>0, <1>3, <2>1 DEF Claim
    <3>2. confirms'[i] = "check" /\ \A j \in Ids : j # i => confirms'[j] = confirms[j]
      BY <1>3, <1>c, <2>1 DEF Claim, At
    <3> QED  BY <2>0, <2>1, <3>1, <3>2 DEF Step, WriteStep, ConfirmStep
  <2>2. CASE items[i].state # "pending"
    <3>1. confirms'[i] = "read" /\ \A j \in Ids : j # i => confirms'[j] = confirms[j]
      BY <1>3, <1>c, <2>2 DEF Claim, At
    <3> QED  BY <1>3, <2>0, <2>2, <3>1 DEF Claim, Step, ConfirmStep
  <2> QED  BY <2>1, <2>2
<1>4. CASE Recheck(i) \/ Throws(i)
  <2>1. /\ \E s \in {"run", "fail"} : confirms' = [confirms EXCEPT ![i] = s]
        /\ UNCHANGED <<items, runs, agents>> /\ confirms[i] \in {"check", "run"}
    BY <1>4 DEF Recheck, Throws, At, docVars
  <2> QED  BY <1>c, <2>1 DEF Step, ConfirmStep
<1>5. CASE CreateAgent(i)
  <2>1. /\ confirms' = [confirms EXCEPT ![i] = "created"] /\ UNCHANGED items
        /\ runs' = [runs EXCEPT ![i] = @ + 1] /\ agents' = [agents EXCEPT ![i] = "row"]
        /\ confirms[i] = "run" /\ items[i].kind = "session_start"
    BY <1>5 DEF CreateAgent, At, Ran, docVars
  <2>2. RunStep(i)
    BY <1>0, <1>c, <2>1 DEF RunStep
  <2>3. \A j \in Ids : j # i => ConfirmStep(j)
    BY <1>0, <1>c, <2>1 DEF ConfirmStep
  <2> QED  BY <2>2, <2>3 DEF Step
<1>6. CASE SubmitTask(i)
  <2>1. /\ UNCHANGED <<items, runs>> /\ confirms[i] = "created"
        /\ \/ /\ confirms' = [confirms EXCEPT ![i] = "record"]
              /\ agents' = [agents EXCEPT ![i] = "tasked"]
           \/ /\ confirms' = [confirms EXCEPT ![i] = "fail"]
              /\ \E left \in {"row", "idle", "gone"} : agents' = [agents EXCEPT ![i] = left]
    BY <1>6 DEF SubmitTask, At, docVars
  <2> QED  BY <1>0, <1>c, <2>1 DEF Step, ConfirmStep
<1>7. CASE RecordStanding(i) \/ Execute(i)
  <2>1. /\ confirms' = [confirms EXCEPT ![i] = "record"] /\ UNCHANGED <<items, agents>>
        /\ runs' = [runs EXCEPT ![i] = @ + 1] /\ confirms[i] = "run"
    BY <1>7 DEF RecordStanding, Execute, At, Ran, docVars
  <2>2. RunStep(i)
    BY <1>0, <1>c, <2>1 DEF RunStep
  <2>3. \A j \in Ids : j # i => ConfirmStep(j)
    BY <1>0, <1>c, <2>1 DEF ConfirmStep
  <2> QED  BY <2>2, <2>3 DEF Step
<1>8. CASE Record(i)
  <2>1. /\ items'[i] = [items[i] EXCEPT !.result = (items[i].state # "dropped")]
        /\ \A j \in Ids : j # i => items'[j] = items[j]
    BY <1>0, <1>8 DEF Record
  <2>2. confirms'[i] = "none" /\ \A j \in Ids : j # i => confirms'[j] = confirms[j]
    BY <1>8, <1>c, <1>d DEF Record
  <2>3. UNCHANGED <<runs, agents>> /\ confirms[i] = "record"
    BY <1>8 DEF Record
  <2> QED  BY <2>1, <2>2, <2>3 DEF Step, WriteStep, ConfirmStep
<1>9. CASE Fail(i)
  <2>1. confirms'[i] = "none" /\ \A j \in Ids : j # i => confirms'[j] = confirms[j]
    BY <1>9, <1>c, <1>d DEF Fail
  <2>2. UNCHANGED <<runs, agents>> /\ confirms[i] = "fail"
    BY <1>9 DEF Fail
  <2>3. CASE items[i].state = "dropped"
    <3>1. items' = [items EXCEPT ![i].state = items[i].state]
      BY <1>0, <1>9, <2>3 DEF Fail
    <3>2. items' = items
      BY <1>0, <3>1 DEF Item
    <3> QED  BY <2>1, <2>2, <2>3, <3>2 DEF Step, ConfirmStep
  <2>4. CASE items[i].state # "dropped"
    <3>1. /\ items'[i] = [items[i] EXCEPT !.state = "failed"]
          /\ \A j \in Ids : j # i => items'[j] = items[j]
      BY <1>0, <1>9, <2>4 DEF Fail
    <3> QED  BY <2>1, <2>2, <2>4, <3>1 DEF Step, WriteStep, ConfirmStep
  <2> QED  BY <2>3, <2>4
<1> QED
  BY <1>1, <1>2, <1>3, <1>4, <1>5, <1>6, <1>7, <1>8, <1>9 DEF Confirming

Surrounding ==
  \/ \E i \in Ids : \/ Confirm(i) \/ Deny(i) \/ Sweep(i) \/ PhoneDeny(i)
                    \/ Lapse(i) \/ OrderEnds(i) \/ AgentEnds(i)
  \/ Phone

LEMMA SurroundingSteps ==
  ASSUME IndInv, Surrounding
  PROVE  \A i \in Ids : Step(i)
<1>0. /\ TypeOK /\ items \in [Ids -> Item] /\ confirms \in [Ids -> Stages]
      /\ agents \in [Ids -> {"none", "row", "idle", "tasked", "gone"}]
  BY TypeFunctions DEF IndInv, Functions, TypeOK
<1>1. ASSUME NEW i \in Ids, Confirm(i) PROVE \A j \in Ids : Step(j)
  BY <1>0, <1>1 DEF Confirm, docVars, Step, ConfirmStep
<1>2. ASSUME NEW i \in Ids, Deny(i) \/ Sweep(i) \/ PhoneDeny(i) PROVE \A j \in Ids : Step(j)
  <2>1. UNCHANGED <<runs, agents, confirms>>
    BY <1>2 DEF Deny, Sweep, PhoneDeny
  <2>2. PICK s \in {"denied", "expired"} :
          items' = [items EXCEPT ![i].state = IF @ = "pending" THEN s ELSE @]
    BY <1>2 DEF Deny, Sweep, PhoneDeny, Refuse, Expire
  <2>3. \A j \in Ids : \/ items'[j] = items[j]
                       \/ /\ items[j].state = "pending"
                          /\ items'[j] = [items[j] EXCEPT !.state = s]
    BY <1>0, <2>2, PendingMoves
  <2> QED  BY <2>1, <2>3 DEF Step, WriteStep, ConfirmStep
<1>3. ASSUME NEW i \in Ids, Lapse(i) \/ OrderEnds(i) PROVE \A j \in Ids : Step(j)
  BY <1>3, Stays DEF Lapse, OrderEnds, docVars
<1>4. ASSUME NEW i \in Ids, AgentEnds(i) PROVE \A j \in Ids : Step(j)
  BY <1>0, <1>4 DEF AgentEnds, docVars, Step, ConfirmStep
<1>5. CASE Show \/ PromptAges \/ \E allow \in BOOLEAN : Press(allow)
  BY <1>5, Stays DEF Show, PromptAges, Press, docVars
<1>6. CASE Respond
  <2>1. UNCHANGED <<items, runs, agents>>
    BY <1>6 DEF Respond, docVars
  <2>2. \/ UNCHANGED confirms
        \/ \E o \in Ids : confirms' = [confirms EXCEPT ![o] = IF @ = "none" THEN "read" ELSE @]
    BY <1>6 DEF Respond
  <2> QED  BY <1>0, <2>1, <2>2 DEF Step, ConfirmStep
<1> QED
  BY <1>1, <1>2, <1>3, <1>4, <1>5, <1>6 DEF Surrounding, Phone

(* What a restart does to it.                                               *)
RestartStep(i) ==
  /\ confirms'[i] = "none" /\ runs'[i] = runs[i] /\ agents'[i] = agents[i]
  /\ \/ /\ items[i].state = "pending"
        /\ items'[i] = [items[i] EXCEPT !.state = "expired"]
     \/ /\ items[i].state # "pending" /\ (items[i].state # "confirmed" \/ items[i].result)
        /\ items'[i] = items[i]
     \/ /\ items[i].state = "confirmed" /\ agents[i] \notin {"none", "gone"}
        /\ items'[i] = [items[i] EXCEPT !.result = TRUE]
     \/ /\ items[i].state = "confirmed" /\ agents[i] \in {"none", "gone"}
        /\ items'[i] = [items[i] EXCEPT !.state = "failed"]

LEMMA RestartSteps ==
  ASSUME IndInv, Restart, NEW i \in Ids
  PROVE  RestartStep(i)
<1>1. items[i] \in Item
  BY TypeFunctions DEF IndInv, Functions
<1>2. items[i].result \in BOOLEAN
  BY <1>1 DEF Item
<1>3. confirms'[i] = "none" /\ runs'[i] = runs[i] /\ agents'[i] = agents[i]
  BY DEF Restart
<1>4. items'[i] = IF items[i].state = "pending" THEN [items[i] EXCEPT !.state = "expired"]
                  ELSE IF items[i].state # "confirmed" \/ items[i].result THEN items[i]
                  ELSE IF agents[i] \notin {"none", "gone"} THEN [items[i] EXCEPT !.result = TRUE]
                  ELSE [items[i] EXCEPT !.state = "failed"]
  BY DEF Restart
<1> QED  BY <1>2, <1>3, <1>4 DEF RestartStep

LEMMA NextSteps ==
  ASSUME IndInv, OrderCalls, Next
  PROVE  (\A i \in Ids : Step(i)) \/ (Restart /\ \A i \in Ids : RestartStep(i))
BY ProposingSteps, ConfirmingSteps, SurroundingSteps, RestartSteps DEF Next, Surrounding

-----------------------------------------------------------------------------
(* How an action's item, confirm, agent and effect belong together.         *)
Row(i) ==
  /\ items[i].standing # 0 => items[i].kind = "session_message"
  /\ items[i].handoff => items[i].kind = "session_start"
  /\ items[i].state = "confirmed" => items[i].result \/ confirms[i] \in Executing
  /\ items[i].state \in {"denied", "expired"} => runs[i] = 0
  /\ confirms[i] \in {"expire", "claim"} =>
       items[i].state \in {"pending", "denied", "expired", "dropped"}
  /\ confirms[i] = "created" => items[i].kind = "session_start"
  /\ confirms[i] = "fail" /\ items[i].kind = "session_message" => runs[i] = 0
  /\ agents[i] = "tasked" => items[i].state \in {"confirmed", "dropped"}
  /\ agents[i] = "tasked" => confirms[i] \notin {"created", "fail"}

LEMMA Writes ==
  ASSUME NEW it \in Item
  PROVE  /\ \A s : /\ [it EXCEPT !.state = s].state = s
                   /\ [it EXCEPT !.state = s].result = it.result
                   /\ [it EXCEPT !.state = s].kind = it.kind
                   /\ [it EXCEPT !.state = s].standing = it.standing
                   /\ [it EXCEPT !.state = s].handoff = it.handoff
         /\ \A b : /\ [it EXCEPT !.result = b].state = it.state
                   /\ [it EXCEPT !.result = b].result = b
                   /\ [it EXCEPT !.result = b].kind = it.kind
                   /\ [it EXCEPT !.result = b].standing = it.standing
                   /\ [it EXCEPT !.result = b].handoff = it.handoff
BY DEF Item

LEMMA RowKept ==
  ASSUME IndInv, NEW i \in Ids, Row(i), Step(i) \/ RestartStep(i)
  PROVE  Row(i)'
<1>1. /\ items[i] \in Item /\ confirms[i] \in Stages /\ runs[i] \in Nat
      /\ agents[i] \in {"none", "row", "idle", "tasked", "gone"}
  BY TypeFunctions DEF IndInv, Functions, TypeOK
<1>2. /\ confirms[i] \in Executing => items[i].state \in {"confirmed", "dropped"}
      /\ (confirms[i] \in {"check", "run"} \/ items[i].state = "pending") => runs[i] = 0
      /\ agents[i] # "none" => runs[i] = 1
  BY DEF IndInv, Confirmed, NotYet, Shown
<1>3. made < i => items[i].state = "none" /\ confirms[i] = "none" /\ runs[i] = 0
  BY TypeFunctions DEF IndInv, Functions, Untouched, Ids
<1>4. CASE ConfirmStep(i)
  BY <1>1, <1>2, <1>4 DEF ConfirmStep, Row, Executing, Stages
<1>5. CASE RunStep(i)
  BY <1>1, <1>2, <1>5 DEF RunStep, Row, Executing, Stages
<1>6. CASE WriteStep(i)
  <2>0. runs'[i] = runs[i] /\ agents'[i] = agents[i]
    BY <1>6 DEF WriteStep
  <2>1. CASE /\ items[i].state = "none" /\ made < i
             /\ items'[i] \in Item /\ items'[i].state = "pending"
             /\ items'[i].standing # 0 => items'[i].kind = "session_message"
             /\ items'[i].handoff => items'[i].kind = "session_start"
             /\ confirms'[i] = confirms[i]
    BY <1>2, <1>3, <2>0, <2>1 DEF Row
  <2>2. ASSUME items[i].state = "pending", NEW s \in {"denied", "expired"},
               items'[i] = [items[i] EXCEPT !.state = s],
               confirms'[i] \in {confirms[i], "none"}
        PROVE  Row(i)'
    <3>1. /\ items'[i].state = s /\ items'[i].kind = items[i].kind
          /\ items'[i].standing = items[i].standing /\ items'[i].handoff = items[i].handoff
      BY <1>1, <2>2, Writes
    <3> QED  BY <1>2, <2>0, <2>2, <3>1 DEF Row, Executing
  <2>3. CASE /\ items[i].state = "pending"
             /\ items'[i] = [items[i] EXCEPT !.state = "confirmed"]
             /\ confirms'[i] = "check"
    <3>1. /\ items'[i].state = "confirmed" /\ items'[i].kind = items[i].kind
          /\ items'[i].standing = items[i].standing /\ items'[i].handoff = items[i].handoff
      BY <1>1, <2>3, Writes
    <3> QED  BY <2>0, <2>3, <3>1 DEF Row, Executing
  <2>4. CASE /\ items[i].state \in {"confirmed", "denied", "expired", "failed"}
             /\ items'[i] = [items[i] EXCEPT !.state = "dropped"]
             /\ confirms'[i] = confirms[i]
    <3>1. /\ items'[i].state = "dropped" /\ items'[i].kind = items[i].kind
          /\ items'[i].standing = items[i].standing /\ items'[i].handoff = items[i].handoff
      BY <1>1, <2>4, Writes
    <3> QED  BY <2>0, <2>4, <3>1 DEF Row
  <2>5. CASE /\ confirms[i] = "record" /\ confirms'[i] = "none"
             /\ items'[i] = [items[i] EXCEPT !.result = (items[i].state # "dropped")]
    <3>1. /\ items'[i].state = items[i].state /\ items'[i].kind = items[i].kind
          /\ items'[i].standing = items[i].standing /\ items'[i].handoff = items[i].handoff
          /\ items'[i].result = (items[i].state # "dropped")
      BY <1>1, <2>5, Writes
    <3>2. items'[i].state = "confirmed" => items'[i].result
      BY <3>1
    <3>3. items'[i].state \in {"confirmed", "dropped"}
      BY <1>2, <2>5, <3>1 DEF Executing
    <3> QED  BY <2>0, <2>5, <3>1, <3>2, <3>3 DEF Row
  <2>6. CASE /\ confirms[i] = "fail" /\ confirms'[i] = "none"
             /\ items'[i] = [items[i] EXCEPT !.state = "failed"]
    <3>1. /\ items'[i].state = "failed" /\ items'[i].kind = items[i].kind
          /\ items'[i].standing = items[i].standing /\ items'[i].handoff = items[i].handoff
      BY <1>1, <2>6, Writes
    <3> QED  BY <2>0, <2>6, <3>1 DEF Row
  <2> QED  BY <1>6, <2>1, <2>2, <2>3, <2>4, <2>5, <2>6 DEF WriteStep
<1>7. CASE RestartStep(i)
  <2>0. confirms'[i] = "none" /\ runs'[i] = runs[i] /\ agents'[i] = agents[i]
    BY <1>7 DEF RestartStep
  <2>1. CASE items[i].state = "pending" /\ items'[i] = [items[i] EXCEPT !.state = "expired"]
    <3>1. /\ items'[i].state = "expired" /\ items'[i].kind = items[i].kind
          /\ items'[i].standing = items[i].standing /\ items'[i].handoff = items[i].handoff
      BY <1>1, <2>1, Writes
    <3> QED  BY <1>2, <2>0, <2>1, <3>1 DEF Row
  <2>2. CASE /\ items[i].state # "confirmed" \/ items[i].result
             /\ items'[i] = items[i]
    BY <2>0, <2>2 DEF Row
  <2>3. CASE items[i].state = "confirmed" /\ items'[i] = [items[i] EXCEPT !.result = TRUE]
    <3>1. /\ items'[i].state = "confirmed" /\ items'[i].kind = items[i].kind /\ items'[i].result
          /\ items'[i].standing = items[i].standing /\ items'[i].handoff = items[i].handoff
      BY <1>1, <2>3, Writes
    <3> QED  BY <2>0, <2>3, <3>1 DEF Row
  <2>4. CASE /\ items[i].state = "confirmed" /\ agents[i] \in {"none", "gone"}
             /\ items'[i] = [items[i] EXCEPT !.state = "failed"]
    <3>1. /\ items'[i].state = "failed" /\ items'[i].kind = items[i].kind
          /\ items'[i].standing = items[i].standing /\ items'[i].handoff = items[i].handoff
      BY <1>1, <2>4, Writes
    <3> QED  BY <2>0, <2>4, <3>1 DEF Row
  <2> QED  BY <1>7, <2>1, <2>2, <2>3, <2>4 DEF RestartStep
<1> QED  BY <1>4, <1>5, <1>6, <1>7 DEF Step

-----------------------------------------------------------------------------
(* Hand-offs.                                                               *)

(* What HandoffTaken looks for.                                             *)
Taken(i) == items[i].handoff /\ items[i].state \in {"pending", "confirmed"}
TakenOnce == \A i, j \in Ids : Taken(i) /\ Taken(j) => i = j

HandoffInv == IndInv /\ OrderCalls /\ (\A i \in Ids : Row(i)) /\ TakenOnce

LEMMA OrderCallsKept ==
  ASSUME IndInv, OrderCalls, Next
  PROVE  OrderCalls'
<1>0. calls \in [Callers -> Call]
  BY DEF IndInv, TypeOK
<1>1. ASSUME \A q \in Callers : \/ calls'[q] = calls[q]
                                \/ calls'[q].step # "order"
                                \/ calls'[q].req.kind = "session_message"
      PROVE OrderCalls'
  BY <1>1 DEF OrderCalls
<1>2. ASSUME NEW p \in Callers, Proposing(p) PROVE OrderCalls'
  <2>1. ASSUME NEW r \in Requests, Propose(p, r) PROVE OrderCalls'
    <3>1. calls' = [calls EXCEPT ![p].req = r,
            ![p].step = IF r.kind = "session_message" /\ r.origin = "overseer"
                        THEN "order" ELSE "read"]
      BY <2>1 DEF Propose
    <3>2. \A q \in Callers : q # p => calls'[q] = calls[q]
      BY <1>0, <3>1
    <3>3. calls'[p].step # "order" \/ calls'[p].req.kind = "session_message"
      <4>1. calls[p] \in Call
        BY <1>0
      <4>2. calls'[p] = [calls[p] EXCEPT !.req = r,
              !.step = IF r.kind = "session_message" /\ r.origin = "overseer"
                       THEN "order" ELSE "read"]
        BY <1>0, <3>1
      <4> QED  BY <4>1, <4>2 DEF Call
    <3> QED  BY <1>1, <3>2, <3>3
  <2>2. ASSUME ~\E r \in Requests : Propose(p, r) PROVE OrderCalls'
    <3>1. \/ \E s \in Steps \ {"order"} : calls' = [calls EXCEPT ![p].step = s]
          \/ \E s \in Steps \ {"order"} : \E x : calls' = [calls EXCEPT ![p].step = s, ![p].id = x]
          \/ \E s \in Steps \ {"order"} : \E x : calls' = [calls EXCEPT ![p].step = s, ![p].past = x]
          \/ calls' = [calls EXCEPT ![p] = Idle]
      BY <1>2, <2>2 DEF Proposing, TakeUse, NoOrder, Send, GiveBack, ReadItems, CheckLimits,
                        Insert, Prompt, Goes, Returns, Steps
    <3>2. \A q \in Callers : q # p => calls'[q] = calls[q]
      BY <1>0, <3>1
    <3>3. calls'[p].step # "order"
      <4>1. calls[p] \in Call
        BY <1>0
      <4>2. \/ \E s \in Steps \ {"order"} : calls'[p] = [calls[p] EXCEPT !.step = s]
            \/ \E s \in Steps \ {"order"} : \E x : calls'[p] = [calls[p] EXCEPT !.step = s, !.id = x]
            \/ \E s \in Steps \ {"order"} : \E x : calls'[p] = [calls[p] EXCEPT !.step = s, !.past = x]
            \/ calls'[p] = Idle
        BY <1>0, <3>1
      <4>3. /\ \A t : [calls[p] EXCEPT !.step = t].step = t
            /\ \A t, x : [calls[p] EXCEPT !.step = t, !.id = x].step = t
            /\ \A t, x : [calls[p] EXCEPT !.step = t, !.past = x].step = t
        BY <4>1 DEF Call
      <4>4. Idle.step # "order"
        BY DEF Idle
      <4>5. ASSUME NEW s \in Steps \ {"order"}, calls'[p] = [calls[p] EXCEPT !.step = s]
            PROVE  calls'[p].step # "order"
        BY <4>3, <4>5
      <4>6. ASSUME NEW s \in Steps \ {"order"}, NEW x,
                   \/ calls'[p] = [calls[p] EXCEPT !.step = s, !.id = x]
                   \/ calls'[p] = [calls[p] EXCEPT !.step = s, !.past = x]
            PROVE  calls'[p].step # "order"
        BY <4>3, <4>6
      <4> QED  BY <4>2, <4>4, <4>5, <4>6
    <3> QED  BY <1>1, <3>2, <3>3
  <2> QED  BY <2>1, <2>2
<1>3. ASSUME NEW i \in Ids, Confirming(i) PROVE OrderCalls'
  <2>1. UNCHANGED calls \/ Finish(i, TRUE) \/ Finish(i, FALSE)
    <3>1. items[i].result \in BOOLEAN
      BY DEF IndInv, TypeOK, Item
    <3> QED
      BY <1>3, <3>1 DEF Confirming, ConfirmRead, ConfirmExpire, Claim, Recheck, CreateAgent,
         SubmitTask, RecordStanding, Execute, Throws, Record, Fail
  <2>2. \A q \in Callers : \/ calls'[q] = calls[q]
                           \/ calls'[q] = Idle
                           \/ calls'[q] = [calls[q] EXCEPT !.step = "unsent"]
    BY <2>1, Finishes DEF IndInv
  <2>3. ASSUME NEW q \in Callers PROVE calls'[q] = calls[q] \/ calls'[q].step # "order"
    <3>1. calls[q] \in Call
      BY <1>0
    <3>2. [calls[q] EXCEPT !.step = "unsent"].step = "unsent" /\ Idle.step = "idle"
      BY <3>1 DEF Call, Idle
    <3> QED  BY <2>2, <3>2
  <2> QED  BY <1>1, <2>3
<1>4. CASE Surrounding \/ Restart
  <2>1. \A q \in Callers : calls'[q] = calls[q] \/ calls'[q] = Idle
    BY <1>4 DEF Surrounding, Confirm, Deny, Sweep, PhoneDeny, Lapse, OrderEnds, AgentEnds, Phone, Show,
       Press, PromptAges, Respond, Restart
  <2> QED  BY <1>1, <2>1 DEF Idle
<1> QED  BY <1>2, <1>3, <1>4 DEF Next, Surrounding

LEMMA TakenBefore ==
  ASSUME IndInv, NEW i \in Ids, Row(i), Step(i) \/ RestartStep(i), Taken(i)'
  PROVE  Taken(i) \/ /\ items[i].state = "none" /\ made < i /\ i <= made'
<1>1. items[i] \in Item /\ confirms[i] \in Stages
  BY TypeFunctions DEF IndInv, Functions
<1>2. confirms[i] \in Executing => items[i].state \in {"confirmed", "dropped"}
  BY DEF IndInv, Confirmed
<1>3. items'[i].handoff /\ items'[i].state \in {"pending", "confirmed"}
  BY DEF Taken
<1>4. CASE items'[i] = items[i]
  BY <1>3, <1>4 DEF Taken
<1>5. CASE WriteStep(i)
  <2>1. ASSUME NEW s, items'[i] = [items[i] EXCEPT !.state = s]
        PROVE  items'[i].state = s /\ items'[i].handoff = items[i].handoff
    BY <1>1, <2>1, Writes
  <2>2. CASE items[i].state = "none" /\ made < i /\ i <= made'
    BY <2>2
  <2>3. CASE items[i].state = "pending" /\ \E s : items'[i] = [items[i] EXCEPT !.state = s]
    BY <1>3, <2>1, <2>3 DEF Taken
  <2>4. CASE \E s \in {"dropped", "failed"} : items'[i] = [items[i] EXCEPT !.state = s]
    BY <1>3, <2>1, <2>4
  <2>5. CASE /\ confirms[i] = "record"
             /\ items'[i] = [items[i] EXCEPT !.result = (items[i].state # "dropped")]
    BY <1>1, <1>2, <1>3, <2>5, Writes DEF Taken
  <2> QED  BY <1>5, <2>2, <2>3, <2>4, <2>5 DEF WriteStep
<1>6. CASE RestartStep(i)
  <2>1. CASE \E s \in {"expired", "failed"} : items'[i] = [items[i] EXCEPT !.state = s]
    BY <1>1, <1>3, <2>1, Writes
  <2>2. CASE items'[i] = [items[i] EXCEPT !.result = TRUE]
    BY <1>1, <1>3, <2>2, Writes DEF Taken
  <2> QED  BY <1>4, <1>6, <2>1, <2>2 DEF RestartStep
<1> QED  BY <1>4, <1>5, <1>6 DEF Step, ConfirmStep, RunStep

LEMMA TakenOnceKept ==
  ASSUME HandoffInv, Next
  PROVE  TakenOnce'
<1>0. Ids \subseteq Nat /\ made \in Nat /\ IndInv /\ OrderCalls
  BY TypeFunctions DEF HandoffInv, IndInv, Functions, Ids
<1>1. ASSUME NEW i \in Ids, Taken(i)'
      PROVE  Taken(i) \/ /\ items[i].state = "none" /\ made < i /\ i <= made'
  BY <1>0, <1>1, NextSteps, TakenBefore DEF HandoffInv
<1>2. CASE made' = made
  <2>1. \A i \in Ids : Taken(i)' => Taken(i)
    BY <1>0, <1>1, <1>2
  <2> QED  BY <2>1 DEF HandoffInv, TakenOnce
<1>3. ASSUME made' # made,
             NEW p \in Callers, NEW a \in Ids \union {0}, Push(NewItem(calls[p].req, a)),
             NewItem(calls[p].req, a).handoff => ~HandoffTaken
      PROVE  TakenOnce'
  <2>1. made' = made + 1 /\ items'[made + 1] = NewItem(calls[p].req, a)
    BY <1>0, <1>3, NewItems, Pushed DEF IndInv
  <2>2. \A i \in Ids : Taken(i)' => Taken(i) \/ i = made + 1
    BY <1>0, <1>1, <2>1
  <2>3. CASE NewItem(calls[p].req, a).handoff
    <3>1. \A i \in Ids : ~Taken(i)
      BY <1>3, <2>3 DEF HandoffTaken, Taken
    <3> QED  BY <2>2, <3>1 DEF TakenOnce
  <2>4. CASE ~NewItem(calls[p].req, a).handoff
    <3>1. \A i \in Ids : Taken(i)' => Taken(i)
      BY <2>1, <2>2, <2>4 DEF Taken
    <3> QED  BY <3>1 DEF HandoffInv, TakenOnce
  <2> QED  BY <2>3, <2>4
<1>4. ASSUME NEW p \in Callers, Proposing(p), made' # made PROVE TakenOnce'
  <2>1. CASE TakeUse(p)
    <3>1. PICK a \in Ids : Push(NewItem(calls[p].req, a))
      BY <2>1 DEF TakeUse
    <3>2. calls[p].req.kind = "session_message"
      BY <1>0, <2>1 DEF TakeUse, OrderCalls
    <3>3. NewItem(calls[p].req, a).handoff => NewItem(calls[p].req, a).kind = "session_start"
      BY <1>0, <3>2, ProperItems DEF IndInv
    <3>4. ~NewItem(calls[p].req, a).handoff
      <4>1. NewItem(calls[p].req, a).kind = "session_message"
        BY <3>2 DEF NewItem
      <4> QED  BY <3>3, <4>1
    <3> QED  BY <1>3, <1>4, <3>1, <3>4
  <2>2. CASE Insert(p)
    <3>1. Push(NewItem(calls[p].req, 0)) /\ (calls[p].req.handoff => ~HandoffTaken)
      BY <1>4, <2>2 DEF Insert
    <3>2. NewItem(calls[p].req, 0).handoff = calls[p].req.handoff
      BY DEF NewItem
    <3> QED  BY <1>3, <1>4, <3>1, <3>2
  <2> QED
    BY <1>4, <2>1, <2>2 DEF Proposing, Propose, NoOrder, Send, GiveBack, ReadItems, CheckLimits,
                            Prompt, docVars
<1>5. ASSUME NEW i \in Ids, Confirming(i) PROVE made' = made
  BY <1>5 DEF Confirming, ConfirmRead, ConfirmExpire, Claim, Recheck, CreateAgent, SubmitTask,
              RecordStanding, Execute, Throws, Record, Fail, docVars
<1>6. CASE Surrounding \/ Restart
  <2>1. made' = made
    BY <1>6 DEF Surrounding, Confirm, Deny, Sweep, PhoneDeny, Lapse, OrderEnds, AgentEnds, Phone, Show,
                Press, PromptAges, Respond, Restart, docVars
  <2> QED  BY <1>2, <2>1
<1> QED  BY <1>2, <1>4, <1>5, <1>6 DEF Next, Surrounding

LEMMA HandoffInvariant == Spec => []HandoffInv
<1>1. Init => HandoffInv
  <2> SUFFICES ASSUME Init PROVE HandoffInv
    OBVIOUS
  <2>1. IndInv
    BY InitInv
  <2>2. \A i \in Ids : /\ items[i].standing = 0 /\ ~items[i].handoff /\ items[i].state = "none"
                       /\ confirms[i] = "none" /\ agents[i] = "none"
    BY DEF Init, NoItem
  <2>3. OrderCalls
    BY DEF Init, OrderCalls, Idle
  <2>4. \A i \in Ids : Row(i)
    BY <2>2 DEF Row
  <2> QED  BY <2>1, <2>2, <2>3, <2>4 DEF HandoffInv, TakenOnce, Taken
<1>2. HandoffInv /\ [Next]_vars => HandoffInv'
  <2> SUFFICES ASSUME HandoffInv, [Next]_vars PROVE HandoffInv'
    OBVIOUS
  <2>0. IndInv'
    BY NextInv DEF HandoffInv
  <2>1. CASE Next
    <3>1. \A i \in Ids : Row(i)'
      BY <2>1, NextSteps, RowKept DEF HandoffInv
    <3> QED  BY <2>0, <2>1, <3>1, OrderCallsKept, TakenOnceKept DEF HandoffInv
  <2>2. CASE UNCHANGED vars
    <3>1. OrderCalls'
      BY <2>2 DEF vars, HandoffInv, OrderCalls
    <3>2. \A i \in Ids : Row(i)'
      BY <2>2 DEF vars, HandoffInv, Row
    <3>3. TakenOnce'
      BY <2>2 DEF vars, HandoffInv, TakenOnce, Taken
    <3> QED  BY <2>0, <3>1, <3>2, <3>3 DEF HandoffInv
  <2> QED  BY <2>1, <2>2
<1> QED  BY <1>1, <1>2, PTL DEF Spec

(* prune has not taken a hand-off's item from the document.                 *)
HandoffKept == \A i \in Ids : items[i].handoff => items[i].state # "dropped"

(* A hand-off gets one agent with its task, as long as its item is in the   *)
(* document (actions.mjs:443, 464): proposals are compared with the items   *)
(* there.                                                                   *)
THEOREM OneAgentWhileKept == Spec => [](HandoffKept => OneHandoffAgent)
<1>1. ASSUME HandoffInv, HandoffKept PROVE OneHandoffAgent
  <2> DEFINE W == {i \in Ids : items[i].handoff /\ agents[i] = "tasked"}
  <2>1. \A i \in W : i \in Ids /\ Taken(i)
    BY <1>1 DEF HandoffInv, HandoffKept, Row, Taken
  <2>2. CASE W = {}
    BY <2>2, FS_EmptySet DEF OneHandoffAgent
  <2>3. CASE W # {}
    <3>1. PICK w : w \in W
      BY <2>3
    <3>2. W = {w}
      BY <1>1, <2>1, <3>1 DEF HandoffInv, TakenOnce
    <3> HIDE DEF W
    <3>3. Cardinality(W) = 1
      BY <3>2, FS_Singleton
    <3> QED  BY <3>3 DEF OneHandoffAgent, W
  <2> QED  BY <2>2, <2>3
<1> QED  BY <1>1, HandoffInvariant, PTL


-----------------------------------------------------------------------------
(* Standing orders.                                                         *)

(* The call that took a use for the action, until it is sent or given back. *)
Owner(p, i) == calls[p].step \in {"send", "sending", "unsent"} /\ calls[p].id = i

(* An action that can have no effect any more, and had none.                *)
Lost(i) ==
  /\ items[i].state \in {"denied", "expired", "failed", "dropped"}
  /\ confirms[i] \notin Executing
  /\ runs[i] = 0

Owners ==
  \A p \in Callers, i \in Ids : Owner(p, i) =>
    /\ items[i].standing # 0 /\ items[i].state # "none"
    /\ items[i].state = "failed" => runs[i] = 0
    /\ calls[p].step = "unsent" => Lost(i)

OwnersDiffer == \A p, q \in Callers, i \in Ids : Owner(p, i) /\ Owner(q, i) => p = q

(* A message goes under an order that was confirmed; so is what is listed.  *)
Granted == \A i \in Ids : items[i].standing # 0 => runs[items[i].standing] > 0
Listed == \A a \in Ids : orders[a].listed => runs[a] > 0

(* The actions that had, may have or still hold a use of the order.         *)
Live(i) == runs[i] > 0 \/ items[i].state = "pending" \/ confirms[i] \in Executing
Held(a) == {i \in Ids : items[i].standing = a /\ (Live(i) \/ \E p \in Callers : Owner(p, i))}

Uses ==
  \A a \in Ids : /\ Cardinality(Held(a)) <= MaxTimes
                 /\ orders[a].listed => Cardinality(Held(a)) <= orders[a].used

UsesInv == Owners /\ OwnersDiffer /\ Granted /\ Listed /\ Uses

(* prune leaves alone what a call is sending.                               *)
InUseKept ==
  \A p \in Callers, i \in Ids :
    calls[p].step \in {"send", "sending"} /\ calls[p].id = i => items[i].state # "dropped"

(* How a call comes to own an action, and to give its use back.             *)
LEMMA OwnerSteps ==
  ASSUME IndInv, Next, NEW q \in Callers, NEW i \in Ids, Owner(q, i)'
  PROVE  \/ /\ Owner(q, i)
            /\ calls'[q].step = "unsent" =>
                 \/ calls[q].step = "unsent"
                 \/ calls[q].step = "sending" /\ Confirming(i) /\ Finish(i, FALSE)
         \/ TakeUse(q) /\ i = made + 1 /\ calls'[q].step = "send"
<1>0. calls[q] \in Call /\ calls \in [Callers -> Call]
  BY DEF IndInv, TypeOK
<1>a. calls'[q].step \in {"send", "sending", "unsent"} /\ calls'[q].id = i
  BY DEF Owner
<1>b. CASE calls'[q] = calls[q]
  BY <1>a, <1>b DEF Owner
<1>c. Idle.step \notin {"send", "sending", "unsent"}
  BY DEF Idle
<1>1. ASSUME NEW p \in Callers, Proposing(p)
      PROVE  \/ calls'[q] = calls[q]
             \/ /\ Owner(q, i) /\ calls'[q].step # "unsent"
             \/ TakeUse(q) /\ i = made + 1 /\ calls'[q].step = "send"
  <2>1. CASE q # p
    BY <1>0, <1>1, <2>1 DEF Proposing, Propose, TakeUse, NoOrder, Send, GiveBack, ReadItems,
                            CheckLimits, Insert, Prompt, Goes, Returns
  <2>2. CASE q = p /\ TakeUse(q)
    <3>1. PICK a \in Ids : Push(NewItem(calls[q].req, a))
      BY <2>2 DEF TakeUse
    <3>2. calls' = [calls EXCEPT ![q].step = "send", ![q].id = made + 1]
      BY <2>2, <3>1 DEF TakeUse, Push
    <3>3. calls'[q] = [calls[q] EXCEPT !.step = "send", !.id = made + 1]
      BY <1>0, <3>2
    <3>4. calls'[q].step = "send" /\ calls'[q].id = made + 1
      BY <1>0, <3>3 DEF Call
    <3> QED  BY <1>a, <2>2, <3>4
  <2>3. CASE q = p /\ Send(q)
    <3>1. calls'[q] = [calls[q] EXCEPT !.step = "sending"] /\ calls[q].step = "send"
      BY <1>0, <2>3 DEF Send, Goes
    <3>2. calls'[q].step = "sending" /\ calls'[q].id = calls[q].id
      BY <1>0, <3>1 DEF Call
    <3> QED  BY <1>a, <3>1, <3>2 DEF Owner
  <2>4. CASE q = p /\ ~TakeUse(q) /\ ~Send(q)
    <3> DEFINE Out == Steps \ {"send", "sending", "unsent"}
    <3>1. \/ \E s \in Out : calls' = [calls EXCEPT ![p].step = s]
          \/ \E s \in Out : \E x : calls' = [calls EXCEPT ![p].req = x, ![p].step = s]
          \/ \E s \in Out : \E x : calls' = [calls EXCEPT ![p].step = s, ![p].id = x]
          \/ \E s \in Out : \E x : calls' = [calls EXCEPT ![p].step = s, ![p].past = x]
          \/ calls' = [calls EXCEPT ![p] = Idle]
      BY <1>1, <2>4 DEF Proposing, Propose, NoOrder, GiveBack, ReadItems, CheckLimits,
                        Insert, Prompt, Goes, Returns, Steps
    <3>2. \/ \E s \in Out : calls'[q] = [calls[q] EXCEPT !.step = s]
          \/ \E s \in Out : \E x : calls'[q] = [calls[q] EXCEPT !.req = x, !.step = s]
          \/ \E s \in Out : \E x : calls'[q] = [calls[q] EXCEPT !.step = s, !.id = x]
          \/ \E s \in Out : \E x : calls'[q] = [calls[q] EXCEPT !.step = s, !.past = x]
          \/ calls'[q] = Idle
      BY <1>0, <2>4, <3>1
    <3>3. /\ \A t : [calls[q] EXCEPT !.step = t].step = t
          /\ \A t, x : [calls[q] EXCEPT !.req = x, !.step = t].step = t
          /\ \A t, x : [calls[q] EXCEPT !.step = t, !.id = x].step = t
          /\ \A t, x : [calls[q] EXCEPT !.step = t, !.past = x].step = t
      BY <1>0 DEF Call
    <3> HIDE DEF Out
    <3>4. ASSUME \E s \in Out : calls'[q] = [calls[q] EXCEPT !.step = s]
          PROVE  calls'[q].step \in Out
      BY <3>3, <3>4
    <3>5. ASSUME \E s \in Out : \E x : calls'[q] = [calls[q] EXCEPT !.req = x, !.step = s]
          PROVE  calls'[q].step \in Out
      BY <3>3, <3>5
    <3>6. ASSUME \E s \in Out : \E x : calls'[q] = [calls[q] EXCEPT !.step = s, !.id = x]
          PROVE  calls'[q].step \in Out
      BY <3>3, <3>6
    <3>7. ASSUME \E s \in Out : \E x : calls'[q] = [calls[q] EXCEPT !.step = s, !.past = x]
          PROVE  calls'[q].step \in Out
      BY <3>3, <3>7
    <3>8. calls'[q].step \in Out \/ calls'[q] = Idle
      BY <3>2, <3>4, <3>5, <3>6, <3>7
    <3> QED  BY <1>a, <1>c, <3>8 DEF Out
  <2> QED  BY <2>1, <2>2, <2>3, <2>4
<1>2. ASSUME NEW j \in Ids, Confirming(j)
      PROVE  \/ calls'[q] = calls[q]
             \/ /\ Owner(q, i) /\ calls[q].step = "sending"
                /\ Confirming(i) /\ Finish(i, FALSE)
  <2>1. items[j].result \in BOOLEAN
    BY DEF IndInv, TypeOK, Item
  <2>2. UNCHANGED calls \/ Finish(j, TRUE) \/ Finish(j, FALSE)
    BY <1>2, <2>1 DEF Confirming, ConfirmRead, ConfirmExpire, Claim, Recheck, CreateAgent,
         SubmitTask, RecordStanding, Execute, Throws, Record, Fail
  <2>3. CASE Finish(j, TRUE)
    <3>1. calls'[q] = calls[q] \/ calls'[q] = Idle
      BY <2>3 DEF Finish
    <3> QED  BY <1>a, <1>c, <3>1
  <2>4. CASE Finish(j, FALSE)
    <3>1. \/ calls'[q] = calls[q]
          \/ /\ calls[q].step = "sending" /\ calls[q].id = j
             /\ calls'[q] = [calls[q] EXCEPT !.step = "unsent"]
      BY <2>4 DEF Finish
    <3>2. CASE /\ calls[q].step = "sending" /\ calls[q].id = j
               /\ calls'[q] = [calls[q] EXCEPT !.step = "unsent"]
      <4>1. calls'[q].id = j
        BY <1>0, <3>2 DEF Call
      <4> QED  BY <1>2, <1>a, <2>4, <3>2, <4>1 DEF Owner
    <3> QED  BY <3>1, <3>2
  <2> QED  BY <2>2, <2>3, <2>4
<1>3. ASSUME Surrounding \/ Restart PROVE calls'[q] = calls[q]
  <2>1. calls'[q] = calls[q] \/ calls'[q] = Idle
    BY <1>3 DEF Surrounding, Confirm, Deny, Sweep, PhoneDeny, Lapse, OrderEnds, AgentEnds, Phone, Show,
       Press, PromptAges, Respond, Restart
  <2> QED  BY <1>a, <1>c, <2>1
<1> QED  BY <1>b, <1>1, <1>2, <1>3 DEF Next, Surrounding

LEMMA LostStays ==
  ASSUME IndInv, NEW i \in Ids, Row(i), Step(i), Lost(i)
  PROVE  Lost(i)'
<1>1. items[i] \in Item /\ confirms[i] \in Stages
  BY TypeFunctions DEF IndInv, Functions
<1>2. CASE ConfirmStep(i)
  BY <1>1, <1>2 DEF ConfirmStep, Lost, Executing
<1>3. CASE WriteStep(i)
  <2>1. runs'[i] = 0
    BY <1>3 DEF WriteStep, Lost
  <2>2. CASE items'[i] = [items[i] EXCEPT !.state = "dropped"] /\ confirms'[i] = confirms[i]
    <3>1. items'[i].state = "dropped"
      BY <1>1, <2>2, Writes
    <3> QED  BY <2>1, <2>2, <3>1 DEF Lost
  <2> QED  BY <1>3, <2>2 DEF WriteStep, Lost, Executing
<1> QED  BY <1>2, <1>3 DEF Step, RunStep, Lost, Executing

(* No confirm meets the kill switch: one that does gives the use back but   *)
(* leaves the action pending, to be confirmed later (actions.mjs:600).      *)
NoKillSwitch == "kill switch" \notin Happens

(* A send reported as failed had no effect, and never will have one.        *)
LEMMA SendLost ==
  ASSUME HandoffInv, Owners, InUseKept, NoKillSwitch,
         NEW p \in Callers, NEW i \in Ids, Owner(p, i), calls[p].step = "sending",
         Confirming(i), Finish(i, FALSE)
  PROVE  Lost(i)'
<1>0. /\ TypeOK /\ items[i] \in Item /\ items \in [Ids -> Item] /\ confirms \in [Ids -> Stages]
      /\ calls \in [Callers -> Call]
  BY TypeFunctions DEF HandoffInv, IndInv, Functions, TypeOK
<1>1. confirms'[i] = "none" /\ calls'[p] = [calls[p] EXCEPT !.step = "unsent"]
  BY <1>0 DEF Finish, At, Owner
<1>2. calls'[p].step = "unsent"
  BY <1>0, <1>1 DEF Call
<1>3. calls'[p] # calls[p] /\ ~Finish(i, TRUE)
  <2>1. calls'[p] # calls[p]
    BY <1>2
  <2>2. Finish(i, TRUE) => calls'[p] = Idle
    BY DEF Finish, Owner
  <2>3. Idle.step # "unsent"
    BY DEF Idle
  <2> QED  BY <1>2, <2>1, <2>2, <2>3
<1>4. /\ items[i].standing # 0 /\ items[i].state # "none" /\ items[i].state # "dropped"
      /\ items[i].state = "failed" => runs[i] = 0
  BY DEF Owners, InUseKept, Owner
<1>5. /\ items[i].kind = "session_message"
      /\ items[i].state = "confirmed" => items[i].result \/ confirms[i] \in Executing
      /\ items[i].state \in {"denied", "expired"} => runs[i] = 0
      /\ confirms[i] \in {"expire", "claim"} =>
           items[i].state \in {"pending", "denied", "expired", "dropped"}
      /\ confirms[i] = "fail" => runs[i] = 0
  BY <1>4 DEF HandoffInv, Row
<1>6. items[i].state = "pending" => runs[i] = 0
  BY DEF HandoffInv, IndInv, NotYet
<1>7. items[i].state \in {"none", "pending", "confirmed", "denied", "expired", "failed", "dropped"}
  BY <1>0 DEF Item
<1>8. CASE ConfirmRead(i)
  <2>1. confirms[i] = "read" /\ UNCHANGED <<items, runs>>
    BY <1>8 DEF ConfirmRead, docVars
  <2>2. items[i].state # "pending" /\ ~(items[i].state = "confirmed" /\ items[i].result)
    <3>1. items[i].state = "confirmed" /\ items[i].result => (items[i].state = "confirmed" /\ items[i].result) = TRUE
      OBVIOUS
    <3> QED  BY <1>3, <1>8, <3>1 DEF ConfirmRead, NoKillSwitch
  <2>3. items[i].state \in {"denied", "expired", "failed"}
    BY <1>4, <1>5, <1>7, <2>1, <2>2 DEF Executing
  <2> QED  BY <1>1, <1>4, <1>5, <2>1, <2>3 DEF Lost, Executing
<1>9. CASE ConfirmExpire(i)
  <2>1. confirms[i] = "expire" /\ UNCHANGED runs
    BY <1>9 DEF ConfirmExpire
  <2>2. items'[i].state = IF items[i].state = "pending" THEN "expired" ELSE items[i].state
    <3>1. items'[i] = [items[i] EXCEPT !.state = IF items[i].state = "pending" THEN "expired" ELSE items[i].state]
      BY <1>0, <1>9 DEF ConfirmExpire, Expire
    <3> QED  BY <1>0, <3>1, Writes
  <2> QED  BY <1>1, <1>4, <1>5, <1>6, <2>1, <2>2 DEF Lost, Executing
<1>10. CASE Fail(i)
  <2>1. confirms[i] = "fail" /\ UNCHANGED runs
    BY <1>10 DEF Fail
  <2>2. items'[i].state = "failed"
    <3>1. items'[i] = [items[i] EXCEPT !.state = "failed"]
      BY <1>0, <1>4, <1>10 DEF Fail
    <3> QED  BY <1>0, <3>1, Writes
  <2> QED  BY <1>1, <1>5, <2>1, <2>2 DEF Lost, Executing
<1> QED
  BY <1>3, <1>8, <1>9, <1>10 DEF Confirming, Claim, Recheck, CreateAgent, SubmitTask, RecordStanding,
     Execute, Throws, Record

(* An item that was written stays one, under the same order; effects stay.  *)
LEMMA ItemStays ==
  ASSUME IndInv, NEW i \in Ids, Step(i) \/ RestartStep(i)
  PROVE  /\ runs'[i] \in Nat /\ runs'[i] >= runs[i]
         /\ \/ items'[i].standing = items[i].standing
            \/ items[i].state = "none" /\ made < i /\ i <= made'
         /\ items[i].state # "none" => items'[i].state # "none"
<1>1. items[i] \in Item /\ runs[i] \in Nat
  BY TypeFunctions DEF IndInv, Functions
<1>2. runs'[i] \in Nat /\ runs'[i] >= runs[i]
  BY <1>1 DEF Step, ConfirmStep, RunStep, WriteStep, RestartStep
<1>3. ASSUME NEW s, items'[i] = [items[i] EXCEPT !.state = s]
      PROVE  items'[i].standing = items[i].standing /\ items'[i].state = s
  BY <1>1, <1>3, Writes
<1>4. ASSUME NEW b, items'[i] = [items[i] EXCEPT !.result = b]
      PROVE  items'[i].standing = items[i].standing /\ items'[i].state = items[i].state
  BY <1>1, <1>4, Writes
<1>5. CASE ConfirmStep(i) \/ RunStep(i)
  BY <1>2, <1>5 DEF ConfirmStep, RunStep
<1>6. CASE WriteStep(i)
  BY <1>2, <1>3, <1>4, <1>6 DEF WriteStep
<1>7. CASE RestartStep(i)
  BY <1>2, <1>3, <1>4, <1>7 DEF RestartStep
<1> QED  BY <1>5, <1>6, <1>7 DEF Step

LEMMA FailedBefore ==
  ASSUME IndInv, NEW i \in Ids, Row(i), Step(i), items[i].kind = "session_message",
         items[i].state = "failed" => runs[i] = 0, items'[i].state = "failed"
  PROVE  runs'[i] = 0
<1>1. items[i] \in Item
  BY TypeFunctions DEF IndInv, Functions
<1>2. confirms[i] \in Executing => items[i].state \in {"confirmed", "dropped"}
  BY DEF IndInv, Confirmed
<1>3. CASE ConfirmStep(i) \/ RunStep(i)
  BY <1>2, <1>3 DEF ConfirmStep, RunStep, Executing
<1>4. CASE WriteStep(i)
  <2>1. ASSUME NEW s \in {"denied", "expired", "confirmed", "dropped"}
        PROVE  items'[i] # [items[i] EXCEPT !.state = s]
    <3>1. [items[i] EXCEPT !.state = s].state = s
      BY <1>1 DEF Item
    <3> QED  BY <3>1
  <2>2. confirms[i] = "record" => items'[i] # [items[i] EXCEPT !.result = (items[i].state # "dropped")]
    <3>1. [items[i] EXCEPT !.result = (items[i].state # "dropped")].state = items[i].state
      BY <1>1 DEF Item
    <3>2. confirms[i] = "record" => items[i].state # "failed"
      BY <1>2 DEF Executing
    <3> QED  BY <3>1, <3>2
  <2>3. confirms[i] = "fail" => runs[i] = 0
    BY DEF Row
  <2> QED  BY <1>4, <2>1, <2>2, <2>3 DEF WriteStep
<1> QED  BY <1>3, <1>4 DEF Step

LEMMA OwnersKept ==
  ASSUME HandoffInv, UsesInv, InUseKept, NoKillSwitch, Next
  PROVE  Owners' /\ OwnersDiffer'
<1>0. IndInv /\ OrderCalls /\ TypeOK /\ Known /\ made \in Nat /\ calls \in [Callers -> Call]
  BY TypeFunctions DEF HandoffInv, IndInv, Functions, TypeOK
<1>1. ASSUME NEW q \in Callers, NEW i \in Ids, Owner(q, i)'
      PROVE  /\ items'[i].standing # 0 /\ items'[i].state # "none"
             /\ items'[i].state = "failed" => runs'[i] = 0
             /\ calls'[q].step = "unsent" => Lost(i)'
  <2>1. ~Restart
    BY <1>1 DEF Restart, Owner, Idle
  <2>2. Step(i)
    BY <1>0, <2>1, NextSteps
  <2>3. CASE /\ Owner(q, i)
             /\ calls'[q].step = "unsent" =>
                  \/ calls[q].step = "unsent"
                  \/ calls[q].step = "sending" /\ Confirming(i) /\ Finish(i, FALSE)
    <3>1. /\ items[i].standing # 0 /\ items[i].state # "none"
          /\ items[i].state = "failed" => runs[i] = 0
          /\ calls[q].step = "unsent" => Lost(i)
      BY <2>3 DEF UsesInv, Owners
    <3>2. items'[i].standing # 0 /\ items'[i].state # "none"
      BY <1>0, <2>2, <3>1, ItemStays
    <3>3. items[i].kind = "session_message"
      BY <3>1 DEF HandoffInv, Row
    <3>4. items'[i].state = "failed" => runs'[i] = 0
      BY <1>0, <2>2, <3>1, <3>3, FailedBefore DEF HandoffInv
    <3>5. calls'[q].step = "unsent" => Lost(i)'
      BY <1>0, <2>2, <2>3, <3>1, LostStays, SendLost DEF HandoffInv, UsesInv
    <3> QED  BY <3>2, <3>4, <3>5
  <2>4. CASE TakeUse(q) /\ i = made + 1 /\ calls'[q].step = "send"
    <3>1. PICK a \in Ids : Push(NewItem(calls[q].req, a))
      BY <2>4 DEF TakeUse
    <3>2. items'[i] = NewItem(calls[q].req, a) /\ items'[i].state = "pending" /\ items'[i].standing = a
      BY <1>0, <2>4, <3>1, NewItems, Pushed DEF IndInv
    <3>3. a # 0
      BY DEF Ids
    <3> QED  BY <2>4, <3>2, <3>3
  <2> QED  BY <1>0, <1>1, <2>3, <2>4, OwnerSteps
<1>2. ASSUME NEW p \in Callers, NEW q \in Callers, NEW i \in Ids, Owner(p, i)', Owner(q, i)'
      PROVE  p = q
  <2>1. \A r \in Callers : Owner(r, i) => i <= made
    BY <1>0 DEF Known, Owner
  <2>2. Owner(p, i) \/ (TakeUse(p) /\ i = made + 1 /\ calls'[p].step = "send")
    BY <1>0, <1>2, OwnerSteps
  <2>3. Owner(q, i) \/ (TakeUse(q) /\ i = made + 1 /\ calls'[q].step = "send")
    BY <1>0, <1>2, OwnerSteps
  <2>4. CASE Owner(p, i) /\ Owner(q, i)
    BY <2>4 DEF UsesInv, OwnersDiffer
  <2>5. CASE TakeUse(p) /\ TakeUse(q) /\ calls'[q].step = "send"
    <3>1. calls[q].step = "order" /\ \A r \in Callers : r # p => calls'[r] = calls[r]
      BY <1>0, <2>5 DEF TakeUse
    <3> QED  BY <2>5, <3>1
  <2>6. i <= made => i # made + 1
    BY <1>0 DEF Ids
  <2> QED  BY <2>1, <2>2, <2>3, <2>4, <2>5, <2>6
<1> QED  BY <1>1, <1>2 DEF Owners, OwnersDiffer

(* What one step does to one order.                                         *)
OrderStep(a) ==
  \/ /\ orders'[a].listed => orders[a].listed
     /\ orders'[a].used = orders[a].used
  \/ RecordStanding(a) /\ orders'[a].used = 0
  \/ /\ orders[a].listed /\ orders'[a].used = orders[a].used + 1 /\ orders'[a].used <= MaxTimes
     /\ made' = made + 1 /\ items'[made + 1].standing = a
  \/ /\ orders[a].listed = orders'[a].listed
     /\ \E p \in Callers : GiveBack(p) /\ items[calls[p].id].standing = a
     /\ orders'[a].used = IF orders[a].listed /\ orders[a].used > 0
                          THEN orders[a].used - 1 ELSE orders[a].used

LEMMA OrderSteps ==
  ASSUME IndInv, Next, NEW a \in Ids
  PROVE  OrderStep(a)
<1>0. /\ TypeOK /\ Untouched /\ orders \in [Ids -> Order] /\ orders[a] \in Order
      /\ Filtered(orders) \in [Ids -> Order]
  BY OrdersFiltered DEF IndInv, TypeOK, Order
<1>a. ASSUME UNCHANGED orders PROVE OrderStep(a)
  BY <1>a DEF OrderStep
<1>b. ASSUME orders'[a] = Filtered(orders)[a] PROVE OrderStep(a)
  BY <1>0, <1>b, FilteredKeeps DEF OrderStep
<1>1. ASSUME NEW p \in Callers, Proposing(p) PROVE OrderStep(a)
  <2>1. CASE TakeUse(p)
    <3>1. PICK b \in Ids :
            /\ Filtered(orders)[b].listed
            /\ orders' = [Filtered(orders) EXCEPT ![b].used = @ + 1]
            /\ Push(NewItem(calls[p].req, b))
      BY <2>1 DEF TakeUse
    <3>2. CASE a # b
      <4>1. orders'[a] = Filtered(orders)[a]
        BY <1>0, <3>1, <3>2
      <4> QED  BY <1>b, <4>1
    <3>3. CASE a = b
      <4>1. /\ orders[a].listed /\ Filtered(orders)[a].used = orders[a].used
            /\ Filtered(orders)[a].used < MaxTimes
        BY <1>0, <3>1, <3>3, FilteredKeeps, OrdersFiltered
      <4>2. orders'[a] = [Filtered(orders)[a] EXCEPT !.used = @ + 1]
        BY <1>0, <3>1, <3>3
      <4>3. orders'[a].used = orders[a].used + 1
        BY <1>0, <4>1, <4>2 DEF Order
      <4>4. orders[a].used \in Nat /\ MaxTimes \in Nat
        <5>1. MaxTimes \in Nat
          BY ActionsAssumption
        <5> QED  BY <1>0, <5>1 DEF Order
      <4>5. made' = made + 1 /\ items'[made + 1].standing = a
        BY <1>0, <3>1, <3>3, NewItems, Pushed
      <4>6. orders'[a].used <= MaxTimes
        BY <4>1, <4>3, <4>4
      <4> QED  BY <4>1, <4>3, <4>5, <4>6 DEF OrderStep
    <3> QED  BY <3>2, <3>3
  <2>2. CASE NoOrder(p)
    BY <1>b, <2>2 DEF NoOrder
  <2>3. CASE GiveBack(p)
    <3> DEFINE b == items[calls[p].id].standing
               u == IF orders[b].listed /\ orders[b].used > 0
                    THEN orders[b].used - 1 ELSE orders[b].used
    <3>1. orders' = [orders EXCEPT ![b].used = u]
      BY <2>3 DEF GiveBack
    <3>2. CASE b # a
      <4>1. orders'[a] = orders[a]
        BY <1>0, <3>1, <3>2
      <4> QED  BY <4>1 DEF OrderStep
    <3>3. CASE b = a
      <4> HIDE DEF u
      <4>1. orders'[a] = [orders[a] EXCEPT !.used = u]
        BY <1>0, <3>1, <3>3
      <4>2. orders'[a].listed = orders[a].listed /\ orders'[a].used = u
        BY <1>0, <4>1 DEF Order
      <4> QED  BY <2>3, <3>3, <4>2 DEF OrderStep, u
    <3> QED  BY <3>2, <3>3
  <2> QED
    BY <1>1, <1>a, <2>1, <2>2, <2>3 DEF Proposing, Propose, Send, ReadItems, CheckLimits, Insert,
                                        Prompt, docVars
<1>2. ASSUME NEW i \in Ids, Confirming(i) PROVE OrderStep(a)
  <2>1. CASE RecordStanding(i)
    <3>1. CASE i = a
      <4>1. orders'[a].used = 0
        BY <1>0, <2>1, <3>1 DEF RecordStanding
      <4> QED  BY <2>1, <3>1, <4>1 DEF OrderStep
    <3>2. CASE i # a
      <4>1. orders'[a] = Filtered(orders)[a]
        BY <1>0, <2>1, <3>2 DEF RecordStanding
      <4> QED  BY <1>b, <4>1
    <3> QED  BY <3>1, <3>2
  <2> QED
    BY <1>2, <1>a, <2>1 DEF Confirming, ConfirmRead, ConfirmExpire, Claim, Recheck, CreateAgent,
      SubmitTask, Execute, Throws, Record, Fail, docVars
<1>3. CASE Surrounding \/ Restart
  BY <1>3, <1>a DEF Surrounding, Confirm, Deny, Sweep, PhoneDeny, Lapse, OrderEnds, AgentEnds, Phone,
     Show, Press, PromptAges, Respond, Restart, docVars
<1> QED  BY <1>1, <1>2, <1>3 DEF Next, Surrounding

LEMMA ListedKept ==
  ASSUME HandoffInv, UsesInv, Next
  PROVE  Listed' /\ Granted'
<1>0. IndInv /\ OrderCalls /\ items \in [Ids -> Item] /\ items' \in [Ids -> Item]
      /\ runs \in [Ids -> Nat] /\ runs' \in [Ids -> Nat] /\ 0 \notin Ids
  <2>1. IndInv /\ IndInv' /\ OrderCalls
    BY NextInv DEF HandoffInv
  <2>2. TypeOK /\ TypeOK'
    BY <2>1 DEF IndInv
  <2>3. items \in [Ids -> Item] /\ runs \in [Ids -> Nat]
    BY <2>2, TypeFunctions DEF Functions
  <2>4. items' \in [Ids -> Item] /\ runs' \in [Ids -> Nat]
    <3>1. MaxItems \in Nat
      BY ActionsAssumption
    <3> QED  BY <2>2, <3>1 DEF TypeOK, Stages
  <2>5. 0 \notin Ids
    BY DEF Ids
  <2> QED  BY <2>1, <2>3, <2>4, <2>5
<1>1. \A i \in Ids : runs'[i] >= runs[i]
  BY <1>0, NextSteps, ItemStays
<1>2. ASSUME NEW a \in Ids, orders'[a].listed PROVE runs'[a] > 0
  <2>1. orders[a].listed => runs'[a] > 0
    BY <1>0, <1>1 DEF UsesInv, Listed
  <2>2. RecordStanding(a) => runs'[a] > 0
    BY <1>0 DEF RecordStanding, Ran
  <2> QED  BY <1>0, <1>2, <2>1, <2>2, OrderSteps DEF OrderStep
<1>3. ASSUME NEW i \in Ids, items'[i].standing # 0 PROVE runs'[items'[i].standing] > 0
  <2>0. items'[i].standing \in Ids
    BY <1>0, <1>3 DEF Item
  <2>1. CASE items'[i].standing = items[i].standing
    BY <1>0, <1>1, <1>3, <2>0, <2>1 DEF UsesInv, Granted
  <2>2. CASE orders[items'[i].standing].listed
    BY <1>0, <1>1, <2>0, <2>2 DEF UsesInv, Listed
  <2>3. \/ items'[i].standing = items[i].standing
        \/ orders[items'[i].standing].listed
    <3>0. items[i] \in Item
      BY <1>0
    <3>1. ASSUME NEW s, items'[i] = [items[i] EXCEPT !.state = s]
          PROVE  items'[i].standing = items[i].standing
      BY <3>0, <3>1, Writes
    <3>2. ASSUME NEW b, items'[i] = [items[i] EXCEPT !.result = b]
          PROVE  items'[i].standing = items[i].standing
      BY <3>0, <3>2, Writes
    <3>3. CASE WriteStep(i)
      <4>1. \/ orders[items'[i].standing].listed
            \/ \E s : items'[i] = [items[i] EXCEPT !.state = s]
            \/ \E b : items'[i] = [items[i] EXCEPT !.result = b]
        BY <1>3, <3>3 DEF WriteStep
      <4> QED  BY <3>1, <3>2, <4>1
    <3>4. CASE RestartStep(i)
      <4>1. \/ items'[i] = items[i]
            \/ \E s : items'[i] = [items[i] EXCEPT !.state = s]
            \/ \E b : items'[i] = [items[i] EXCEPT !.result = b]
        BY <3>4 DEF RestartStep
      <4> QED  BY <3>1, <3>2, <4>1
    <3>5. Step(i) \/ RestartStep(i)
      BY <1>0, NextSteps
    <3> QED  BY <3>3, <3>4, <3>5 DEF Step, ConfirmStep, RunStep
  <2> QED  BY <2>1, <2>2, <2>3
<1> QED  BY <1>2, <1>3 DEF Listed, Granted

LEMMA LiveBefore ==
  ASSUME IndInv, NEW i \in Ids, Step(i) \/ RestartStep(i), Live(i)'
  PROVE  Live(i) \/ (items[i].state = "none" /\ made < i /\ i <= made')
<1>1. items[i] \in Item /\ runs[i] \in Nat /\ confirms[i] \in Stages
  BY TypeFunctions DEF IndInv, Functions
<1>2. CASE ConfirmStep(i) \/ RunStep(i)
  BY <1>1, <1>2 DEF ConfirmStep, RunStep, Live, Executing
<1>3. CASE WriteStep(i)
  <2>1. ASSUME NEW s \in {"denied", "expired", "dropped", "failed"}
        PROVE  [items[i] EXCEPT !.state = s].state # "pending"
    BY <1>1 DEF Item
  <2> QED  BY <1>3, <2>1 DEF WriteStep, Live, Executing
<1>4. CASE RestartStep(i)
  <2>1. ASSUME NEW s \in {"expired", "failed"}
        PROVE  [items[i] EXCEPT !.state = s].state # "pending"
    BY <1>1 DEF Item
  <2>2. [items[i] EXCEPT !.result = TRUE].state = items[i].state
    BY <1>1 DEF Item
  <2> QED  BY <1>4, <2>1, <2>2 DEF RestartStep, Live, Executing
<1> QED  BY <1>2, <1>3, <1>4 DEF Step

LEMMA HeldBefore ==
  ASSUME HandoffInv, Next, NEW a \in Ids, NEW i \in Ids, i \in Held(a)'
  PROVE  \/ i \in Held(a)
         \/ made < i /\ i <= made' /\ items'[i].standing = a
<1>0. IndInv /\ OrderCalls /\ TypeOK /\ Untouched /\ made \in Nat /\ Ids \subseteq Nat
  BY TypeFunctions DEF HandoffInv, IndInv, Functions, Ids
<1>1. /\ items'[i].standing = a
      /\ Live(i)' \/ \E q \in Callers : Owner(q, i)'
  BY DEF Held
<1>2. Step(i) \/ RestartStep(i)
  BY <1>0, NextSteps
<1>3. items'[i].standing = items[i].standing \/ (made < i /\ i <= made')
  BY <1>0, <1>2, ItemStays
<1>4. Live(i)' => Live(i) \/ (made < i /\ i <= made')
  BY <1>0, <1>2, LiveBefore
<1>5. ASSUME NEW q \in Callers, Owner(q, i)'
      PROVE  Owner(q, i) \/ (made < i /\ i <= made')
  <2>1. CASE TakeUse(q) /\ i = made + 1
    <3>1. made' = made + 1
      BY <2>1 DEF TakeUse, Push
    <3> QED  BY <1>0, <2>1, <3>1
  <2> QED  BY <1>0, <1>5, <2>1, OwnerSteps
<1> QED  BY <1>1, <1>3, <1>4, <1>5 DEF Held

LEMMA HeldFinite ==
  ASSUME NEW a
  PROVE  IsFiniteSet(Held(a)) /\ Cardinality(Held(a)) \in Nat
<1>1. MaxItems \in Nat
  BY ActionsAssumption
<1>2. IsFiniteSet(Ids)
  BY <1>1, FS_Interval DEF Ids
<1>3. Held(a) \subseteq Ids
  BY DEF Held
<1> QED  BY <1>2, <1>3, FS_Subset, FS_CardinalityType

(* A new item under an order takes one of its uses.                         *)
LEMMA UseTaken ==
  ASSUME IndInv, Next, NEW a \in Ids, NEW i \in Ids, made < i, i <= made', items'[i].standing = a
  PROVE  /\ i = made + 1 /\ orders[a].listed
         /\ orders'[a].used = orders[a].used + 1 /\ orders'[a].used <= MaxTimes
<1>0. TypeOK /\ Untouched /\ made \in Nat /\ Ids \subseteq Nat /\ a # 0
      /\ orders \in [Ids -> Order] /\ Filtered(orders) \in [Ids -> Order] /\ orders[a] \in Order
  <2>1. TypeOK /\ Untouched
    BY DEF IndInv
  <2>2. Ids \subseteq Nat /\ a # 0
    BY DEF Ids
  <2>3. orders \in [Ids -> Order]
    BY <2>1 DEF TypeOK, Order
  <2> QED  BY <2>1, <2>2, <2>3, TypeFunctions, OrdersFiltered DEF Functions
<1>1. made' # made
  BY <1>0
<1>2. PICK p \in Callers : TakeUse(p) \/ Insert(p)
  BY <1>1 DEF Next, Proposing, Propose, NoOrder, Send, GiveBack, ReadItems, CheckLimits, Prompt,
     Confirming, ConfirmRead, ConfirmExpire, Claim, Recheck, CreateAgent, SubmitTask, RecordStanding,
     Execute, Throws, Record, Fail, Confirm, Deny, Sweep, PhoneDeny, Lapse, OrderEnds, AgentEnds,
     Phone, Show, Press, PromptAges, Respond, Restart, docVars
<1>3. CASE Insert(p)
  <2>1. Push(NewItem(calls[p].req, 0))
    BY <1>1, <1>3 DEF Insert
  <2>2. made' = made + 1 /\ items'[made + 1].standing = 0
    BY <1>0, <2>1, NewItems, Pushed
  <2> QED  BY <1>0, <2>2
<1>4. CASE TakeUse(p)
  <2>1. PICK b \in Ids :
          /\ Filtered(orders)[b].listed
          /\ orders' = [Filtered(orders) EXCEPT ![b].used = @ + 1]
          /\ Push(NewItem(calls[p].req, b))
    BY <1>4 DEF TakeUse
  <2>2. made' = made + 1 /\ items'[made + 1].standing = b
    BY <1>0, <2>1, NewItems, Pushed
  <2>3. i = made + 1 /\ a = b
    BY <1>0, <2>2
  <2>4. /\ orders[a].listed /\ Filtered(orders)[a].used = orders[a].used
        /\ Filtered(orders)[a].used < MaxTimes
    BY <1>0, <2>1, <2>3, FilteredKeeps, OrdersFiltered
  <2>5. orders'[a] = [Filtered(orders)[a] EXCEPT !.used = @ + 1]
    BY <1>0, <2>1, <2>3
  <2>6. orders'[a].used = orders[a].used + 1
    BY <1>0, <2>4, <2>5 DEF Order
  <2>7. orders[a].used \in Nat /\ MaxTimes \in Nat
    <3>1. MaxTimes \in Nat
      BY ActionsAssumption
    <3> QED  BY <1>0, <3>1 DEF Order
  <2>8. orders'[a].used <= MaxTimes
    BY <2>4, <2>6, <2>7
  <2> QED  BY <2>3, <2>4, <2>6, <2>8
<1> QED  BY <1>2, <1>3, <1>4

(* The uses counted cover the actions that hold one.                        *)
LEMMA UsesKept ==
  ASSUME HandoffInv, UsesInv, Next, NEW a \in Ids
  PROVE  /\ Cardinality(Held(a)') <= MaxTimes
         /\ orders'[a].listed => Cardinality(Held(a)') <= orders'[a].used
<1>0. /\ IndInv /\ OrderCalls /\ TypeOK /\ Known /\ made \in Nat /\ Ids \subseteq Nat
      /\ runs \in [Ids -> Nat] /\ calls \in [Callers -> Call] /\ orders[a] \in Order
      /\ a # 0
  <2>1. IndInv /\ OrderCalls /\ TypeOK /\ Known
    BY DEF HandoffInv, IndInv
  <2>2. Ids \subseteq Nat /\ a # 0
    BY DEF Ids
  <2>3. calls \in [Callers -> Call] /\ orders[a] \in Order
    BY <2>1 DEF TypeOK, Order
  <2> QED  BY <2>1, <2>2, <2>3, TypeFunctions DEF Functions
<1>1. MaxTimes \in Nat /\ orders[a].used \in Nat
  <2>1. MaxTimes \in Nat
    BY ActionsAssumption
  <2> QED  BY <1>0, <2>1 DEF Order
<1>2. /\ IsFiniteSet(Held(a)) /\ Cardinality(Held(a)) \in Nat
      /\ Cardinality(Held(a)) <= MaxTimes
      /\ orders[a].listed => Cardinality(Held(a)) <= orders[a].used
  BY HeldFinite DEF UsesInv, Uses
<1>3. ASSUME Held(a)' \subseteq Held(a)
      PROVE  Cardinality(Held(a)') \in Nat /\ Cardinality(Held(a)') <= Cardinality(Held(a))
  BY <1>2, <1>3, FS_Subset, FS_CardinalityType
<1>4. ASSUME NEW i \in Held(a)', i \notin Held(a)
      PROVE  i \in Ids /\ made < i /\ i <= made' /\ items'[i].standing = a
  <2>1. i \in Ids
    BY DEF Held
  <2> QED  BY <1>4, <2>1, HeldBefore
<1>5. ASSUME NEW n \in Held(a)', n \notin Held(a)
      PROVE  /\ Cardinality(Held(a)') <= MaxTimes
             /\ Cardinality(Held(a)') <= orders'[a].used
  <2>1. /\ n = made + 1 /\ orders[a].listed
        /\ orders'[a].used = orders[a].used + 1 /\ orders'[a].used <= MaxTimes
    BY <1>0, <1>4, <1>5, UseTaken
  <2>2. Held(a)' \subseteq Held(a) \union {n}
    <3>1. \A i \in Held(a)' : i \notin Held(a) => i = n
      BY <1>0, <1>4, <2>1, UseTaken
    <3> QED  BY <3>1
  <2>3. /\ IsFiniteSet(Held(a) \union {n})
        /\ Cardinality(Held(a) \union {n}) = Cardinality(Held(a)) + 1
    BY <1>2, <1>5, FS_AddElement
  <2>4. Cardinality(Held(a)') \in Nat /\ Cardinality(Held(a)') <= Cardinality(Held(a)) + 1
    BY <2>2, <2>3, FS_Subset, FS_CardinalityType
  <2> QED  BY <1>1, <1>2, <2>1, <2>4
<1>6. CASE /\ orders'[a].listed => orders[a].listed
           /\ orders'[a].used = orders[a].used
           /\ Held(a)' \subseteq Held(a)
  BY <1>1, <1>2, <1>3, <1>6
<1>7. CASE RecordStanding(a) /\ orders'[a].used = 0 /\ Held(a)' \subseteq Held(a)
  <2>1. runs[a] = 0
    BY <1>0, <1>7 DEF IndInv, NotYet, RecordStanding
  <2>2. Held(a) = {}
    <3>1. \A i \in Ids : items[i].standing = a => runs[a] > 0
      BY <1>0 DEF UsesInv, Granted
    <3>2. \A i \in Ids : items[i].standing # a
      BY <2>1, <3>1
    <3> QED  BY <3>2 DEF Held
  <2>3. Cardinality(Held(a)') = 0
    BY <1>7, <2>2, FS_EmptySet
  <2> QED  BY <1>1, <1>7, <2>3
<1>8. CASE orders[a].listed /\ orders'[a].used = orders[a].used + 1 /\ Held(a)' \subseteq Held(a)
  BY <1>1, <1>2, <1>3, <1>8
<1>9. ASSUME NEW p \in Callers, GiveBack(p), items[calls[p].id].standing = a,
             orders[a].listed = orders'[a].listed,
             orders'[a].used = IF orders[a].listed /\ orders[a].used > 0
                               THEN orders[a].used - 1 ELSE orders[a].used,
             Held(a)' \subseteq Held(a)
      PROVE  /\ Cardinality(Held(a)') <= MaxTimes
             /\ orders'[a].listed => Cardinality(Held(a)') <= orders'[a].used
  <2>0. PICK i \in Ids : i = calls[p].id
    BY <1>0, <1>9, KnownIds DEF GiveBack
  <2>1. Owner(p, i) /\ calls[p].step = "unsent" /\ items[i].standing = a
    BY <1>9, <2>0 DEF GiveBack, Owner
  <2>2. Lost(i)
    BY <2>1 DEF UsesInv, Owners
  <2>3. i \in Held(a)
    BY <2>1 DEF Held
  <2>4. i \notin Held(a)'
    <3>1. ~Live(i)'
      <4>1. UNCHANGED <<items, runs, confirms>>
        BY <1>9 DEF GiveBack
      <4>2. items[i].state # "pending" /\ confirms[i] \notin Executing /\ runs[i] = 0
        BY <2>2 DEF Lost
      <4> QED BY <4>1, <4>2 DEF Live
    <3>2. ASSUME NEW q \in Callers, Owner(q, i)' PROVE FALSE
      <4>1. calls'[p] = Idle /\ \A r \in Callers : r # p => calls'[r] = calls[r]
        BY <1>0, <1>9 DEF GiveBack, Returns
      <4>2. Idle.step \notin {"send", "sending", "unsent"}
        BY DEF Idle
      <4>3. q # p
        BY <3>2, <4>1, <4>2 DEF Owner
      <4>4. Owner(q, i)
        BY <3>2, <4>1, <4>3 DEF Owner
      <4> QED  BY <2>1, <4>3, <4>4 DEF UsesInv, OwnersDiffer
    <3> QED  BY <3>1, <3>2 DEF Held
  <2>5. Held(a)' \subseteq Held(a) \ {i}
    BY <1>9, <2>4
  <2>6. /\ IsFiniteSet(Held(a) \ {i})
        /\ Cardinality(Held(a) \ {i}) = Cardinality(Held(a)) - 1
    BY <1>2, <2>3, FS_RemoveElement
  <2>7. Cardinality(Held(a)') \in Nat /\ Cardinality(Held(a)') <= Cardinality(Held(a)) - 1
    BY <2>5, <2>6, FS_Subset, FS_CardinalityType
  <2>8. Cardinality(Held(a)') <= MaxTimes
    BY <1>1, <1>2, <2>7
  <2>9. orders'[a].listed => Cardinality(Held(a)') <= orders'[a].used
    BY <1>1, <1>2, <1>9, <2>7
  <2> QED  BY <2>8, <2>9
<1>10. CASE Held(a)' \subseteq Held(a)
  BY <1>0, <1>6, <1>7, <1>8, <1>9, <1>10, OrderSteps DEF OrderStep
<1> QED  BY <1>5, <1>10

LEMMA UsesInit == Init => UsesInv
<1> SUFFICES ASSUME Init PROVE UsesInv
  OBVIOUS
<1>1. /\ \A i \in Ids : /\ items[i].standing = 0 /\ items[i].state = "none"
                        /\ ~orders[i].listed
      /\ \A p \in Callers : calls[p].step = "idle"
  BY DEF Init, NoItem, Idle
<1>2. Owners /\ OwnersDiffer /\ Granted /\ Listed
  BY <1>1 DEF Owners, OwnersDiffer, Owner, Granted, Listed
<1>3. ASSUME NEW a \in Ids PROVE Cardinality(Held(a)) <= MaxTimes
  <2>1. a # 0
    BY DEF Ids
  <2>2. Held(a) = {}
    BY <1>1, <2>1 DEF Held
  <2>3. MaxTimes \in Nat
    BY ActionsAssumption
  <2> QED  BY <2>2, <2>3, FS_EmptySet
<1> QED  BY <1>1, <1>2, <1>3 DEF UsesInv, Uses

LEMMA UsesNext ==
  ASSUME HandoffInv, UsesInv, InUseKept, NoKillSwitch, [Next]_vars
  PROVE  UsesInv'
<1>1. CASE Next
  <2>1. Uses'
    BY <1>1, UsesKept DEF Uses
  <2> QED  BY <1>1, <2>1, OwnersKept, ListedKept DEF UsesInv
<1>2. CASE UNCHANGED vars
  <2>1. Owners' /\ OwnersDiffer'
    BY <1>2 DEF vars, UsesInv, Owners, OwnersDiffer, Owner, Lost
  <2>2. Granted' /\ Listed'
    BY <1>2 DEF vars, UsesInv, Granted, Listed
  <2>3. Uses'
    <3>1. \A a \in Ids : Held(a)' = Held(a)
      BY <1>2 DEF vars, Held, Live, Owner
    <3> QED  BY <1>2, <3>1 DEF vars, UsesInv, Uses
  <2> QED  BY <2>1, <2>2, <2>3 DEF UsesInv
<1> QED  BY <1>1, <1>2

LEMMA UsesBound == UsesInv => StandingWithinUses
<1> SUFFICES ASSUME UsesInv, NEW a \in Ids PROVE Cardinality(SentUnder(a)) <= MaxTimes
  BY DEF StandingWithinUses
<1>1. SentUnder(a) \subseteq Held(a)
  BY DEF SentUnder, Held, Live
<1>2. /\ IsFiniteSet(Held(a)) /\ Cardinality(Held(a)) \in Nat
      /\ Cardinality(Held(a)) <= MaxTimes
  BY HeldFinite DEF UsesInv, Uses
<1>3. Cardinality(SentUnder(a)) \in Nat /\ Cardinality(SentUnder(a)) <= Cardinality(Held(a))
  BY <1>1, <1>2, FS_Subset, FS_CardinalityType
<1>4. MaxTimes \in Nat
  BY ActionsAssumption
<1> QED  BY <1>2, <1>3, <1>4

(* A standing order never sends more messages than the user allowed, as     *)
(* long as prune leaves alone what is being sent (ACTIONS_KEEP settled      *)
(* actions would have to pass it) and no confirm meets the kill switch.     *)
THEOREM OrdersKeepTheirUses ==
  ASSUME NoKillSwitch
  PROVE  Spec /\ []InUseKept => []StandingWithinUses
<1>1. HandoffInv /\ UsesInv /\ InUseKept /\ [Next]_vars => UsesInv'
  BY UsesNext
<1> QED  BY <1>1, UsesInit, UsesBound, HandoffInvariant, PTL DEF Spec

-----------------------------------------------------------------------------
(* With no more actions than the document keeps, prune drops nothing.       *)
NoneDropped == \A i \in Ids : items[i].state # "dropped"

LEMMA NothingPruned ==
  ASSUME MaxItems <= Keep, NEW its \in [Ids -> Item]
  PROVE  Prune(its) = its
<1>1. MaxItems \in Nat /\ Keep \in Nat
  BY ActionsAssumption
<1>2. IsFiniteSet(Ids) /\ Cardinality(Ids) = MaxItems
  BY <1>1, FS_Interval DEF Ids
<1>3. ASSUME NEW i PROVE ~(Cardinality({j \in Settled(its) : j >= i}) > Keep)
  <2> DEFINE S == {j \in Settled(its) : j >= i}
  <2>1. S \subseteq Ids
    BY DEF Settled
  <2> HIDE DEF S
  <2>2. Cardinality(S) \in Nat /\ Cardinality(S) <= MaxItems
    BY <1>2, <2>1, FS_Subset, FS_CardinalityType
  <2>3. ~(Cardinality(S) > Keep)
    BY <1>1, <2>2
  <2> QED  BY <2>3 DEF S
<1>4. Prune(its) = [i \in Ids |-> its[i]]
  BY <1>3 DEF Prune
<1> QED  BY <1>4

LEMMA NoneDroppedInvariant ==
  ASSUME MaxItems <= Keep
  PROVE  Spec => []NoneDropped
<1>1. Init => NoneDropped
  BY DEF Init, NoneDropped, NoItem
<1>2. ASSUME HandoffInv, NoneDropped, [Next]_vars PROVE NoneDropped'
  <2>0. IndInv /\ OrderCalls /\ TypeOK /\ Untouched /\ items \in [Ids -> Item]
    <3>1. IndInv /\ OrderCalls /\ TypeOK /\ Untouched
      BY <1>2 DEF HandoffInv, IndInv
    <3> QED  BY <3>1 DEF TypeOK
  <2>1. CASE UNCHANGED vars
    BY <1>2, <2>1 DEF vars, NoneDropped
  <2>2. CASE Next /\ made' = made
    <3>1. ASSUME NEW i \in Ids, items'[i].state = "dropped" PROVE FALSE
      <4>1. items[i] \in Item /\ items[i].state # "dropped"
        BY <1>2, <2>0 DEF NoneDropped
      <4>2. Step(i) \/ RestartStep(i)
        BY <2>0, <2>2, NextSteps
      <4>3. ASSUME NEW s \in {"denied", "expired", "confirmed", "failed"}
            PROVE  items'[i] # [items[i] EXCEPT !.state = s]
        <5>1. [items[i] EXCEPT !.state = s].state = s
          BY <4>1 DEF Item
        <5> QED  BY <3>1, <5>1
      <4>4. ASSUME NEW b PROVE items'[i] # [items[i] EXCEPT !.result = b]
        <5>1. [items[i] EXCEPT !.result = b].state = items[i].state
          BY <4>1 DEF Item
        <5> QED  BY <3>1, <4>1, <5>1
      <4>5. CASE WriteStep(i)
        BY <2>2, <3>1, <4>3, <4>4, <4>5 DEF WriteStep
      <4>6. CASE RestartStep(i)
        BY <3>1, <4>1, <4>3, <4>4, <4>6 DEF RestartStep
      <4> QED  BY <3>1, <4>1, <4>2, <4>5, <4>6 DEF Step, ConfirmStep, RunStep
    <3> QED  BY <3>1 DEF NoneDropped
  <2>3. CASE Next /\ made' # made
    <3>1. PICK p \in Callers, a \in Ids \union {0} : Push(NewItem(calls[p].req, a))
      BY <2>3 DEF Next, Proposing, Propose, TakeUse, NoOrder, Send, GiveBack, ReadItems, CheckLimits,
         Insert, Prompt, Confirming, ConfirmRead, ConfirmExpire, Claim, Recheck, CreateAgent, SubmitTask,
         RecordStanding, Execute, Throws, Record, Fail, Confirm, Deny, Sweep, PhoneDeny, Lapse,
         OrderEnds, AgentEnds, Phone, Show, Press, PromptAges, Respond, Restart, docVars
    <3> DEFINE its == [items EXCEPT ![made + 1] = NewItem(calls[p].req, a)]
    <3>2. NewItem(calls[p].req, a) \in Item /\ NewItem(calls[p].req, a).state = "pending"
      BY <2>0, NewItems
    <3>3. its \in [Ids -> Item] /\ \A i \in Ids : its[i].state # "dropped"
      BY <1>2, <2>0, <3>2 DEF NoneDropped
    <3>4. items' = its
      BY <3>1, <3>3, NothingPruned DEF Push
    <3> HIDE DEF its
    <3> QED  BY <3>3, <3>4 DEF NoneDropped
  <2> QED  BY <1>2, <2>1, <2>2, <2>3
<1> QED  BY <1>1, <1>2, HandoffInvariant, PTL DEF Spec

(* So a hand-off gets one agent with its task ...                           *)
THEOREM HandoffOnce ==
  ASSUME MaxItems <= Keep
  PROVE  Spec => []OneHandoffAgent
<1>1. NoneDropped => HandoffKept
  BY DEF NoneDropped, HandoffKept
<1> QED  BY <1>1, NoneDroppedInvariant, OneAgentWhileKept, PTL

(* ... and a standing order sends no more messages than it allows.          *)
THEOREM SendsWithinUses ==
  ASSUME MaxItems <= Keep, NoKillSwitch
  PROVE  Spec => []StandingWithinUses
<1>1. NoneDropped => InUseKept
  BY DEF NoneDropped, InUseKept
<1>2. Spec => []InUseKept
  BY <1>1, NoneDroppedInvariant, PTL
<1> QED  BY <1>2, OrdersKeepTheirUses, PTL
-----------------------------------------------------------------------------
(* The phone: the newest prompt is the last one on the wire, or it was      *)
(* shown and anything older has left the screen; and once it is not fresh,  *)
(* nothing older is on its way in either direction.                         *)
LastSent ==
  phonePrompt.id # 0 =>
    IF wire = <<>> THEN screen \in {0, phonePrompt.id} ELSE wire[Len(wire)] = phonePrompt.id
Settles ==
  phonePrompt.id # 0 /\ ~phonePrompt.fresh =>
    /\ wire = <<>>
    /\ screen \in {0, phonePrompt.id}
    /\ answer.about \in {0, phonePrompt.id}
NoPhone == "phone" \notin Happens => wire = <<>> /\ screen = 0 /\ answer.about = 0
PhoneInv ==
  /\ LastSent /\ Settles /\ NoPhone
  /\ answer.about = 0 => answer = NoAnswer
  /\ AnswerMeansPrompt

LEMMA PhoneInit == Init => PhoneInv
BY DEF Init, PhoneInv, LastSent, Settles, NoPhone, NoAnswer, AnswerMeansPrompt

LEMMA PhoneStill == PhoneInv /\ UNCHANGED phoneVars => PhoneInv'
BY DEF PhoneInv, LastSent, Settles, NoPhone, AnswerMeansPrompt, phoneVars

LEMMA PromptPhone ==
  ASSUME TypeOK, PhoneInv, NEW p \in Callers, Prompt(p)
  PROVE  PhoneInv'
<1>1. wire \in Seq(Ids) /\ calls[p] \in Call
  BY DEF TypeOK
<1>2. /\ phonePrompt'.id = calls[p].id /\ phonePrompt'.fresh
      /\ screen' = screen /\ answer' = answer /\ misheard' = misheard
  BY DEF Prompt
<1>3. calls[p].step = "prompt"
  BY DEF Prompt
<1>4. CASE "phone" \in Happens
  <2>1. wire' = Append(wire, calls[p].id)
    BY <1>4 DEF Prompt
  <2>2. wire' # <<>> /\ wire'[Len(wire')] = calls[p].id
    BY <1>1, <2>1
  <2> QED  BY <1>2, <1>4, <2>2 DEF PhoneInv, LastSent, Settles, NoPhone, AnswerMeansPrompt
<1>5. CASE "phone" \notin Happens
  <2>1. wire' = <<>> /\ screen = 0 /\ answer.about = 0
    BY <1>5 DEF Prompt, PhoneInv, NoPhone
  <2> QED  BY <1>2, <1>5, <2>1 DEF PhoneInv, LastSent, Settles, NoPhone, AnswerMeansPrompt
<1> QED  BY <1>4, <1>5

LEMMA ShowPhone ==
  ASSUME TypeOK, PhoneInv, Show
  PROVE  PhoneInv'
<1>1. /\ wire \in Seq(Ids) /\ wire # <<>> /\ wire' = Tail(wire) /\ screen' = wire[1]
      /\ phonePrompt' = phonePrompt /\ answer' = answer /\ misheard' = misheard
  BY DEF TypeOK, Show
<1>2. wire' = <<>> => wire[Len(wire)] = wire[1]
  <2>1. Len(wire') = Len(wire) - 1 /\ Len(wire) \in Nat
    BY <1>1
  <2>2. wire' = <<>> => Len(wire') = 0
    OBVIOUS
  <2>3. wire' = <<>> => Len(wire) = 1
    BY <2>1, <2>2
  <2> QED  BY <2>3
<1>3. wire' # <<>> => wire'[Len(wire')] = wire[Len(wire)]
  BY <1>1
<1> QED  BY <1>1, <1>2, <1>3 DEF PhoneInv, LastSent, Settles, NoPhone, AnswerMeansPrompt

LEMMA PressPhone ==
  ASSUME PhoneInv, NEW allow \in BOOLEAN, Press(allow)
  PROVE  PhoneInv'
<1>1. /\ screen # 0 /\ answer'.about = screen /\ screen' = 0
      /\ phonePrompt' = phonePrompt /\ wire' = wire /\ misheard' = misheard
  BY DEF Press
<1> QED  BY <1>1 DEF PhoneInv, LastSent, Settles, NoPhone, AnswerMeansPrompt

LEMMA AgesPhone ==
  ASSUME AnswersInTime, TypeOK, PhoneInv, PromptAges
  PROVE  PhoneInv'
<1>1. /\ wire = <<>> /\ answer.about \in {0, phonePrompt.id}
      /\ phonePrompt'.id = phonePrompt.id
      /\ wire' = wire /\ screen' = screen /\ answer' = answer /\ misheard' = misheard
  BY DEF PromptAges, TypeOK
<1> QED  BY <1>1 DEF PhoneInv, LastSent, Settles, NoPhone, AnswerMeansPrompt

LEMMA RespondPhone ==
  ASSUME TypeOK, PhoneInv, Respond
  PROVE  PhoneInv'
<1>1. /\ answer # NoAnswer /\ answer' = NoAnswer /\ answer'.about = 0
      /\ phonePrompt' = phonePrompt /\ wire' = wire /\ screen' = screen
  BY DEF Respond, NoAnswer
<1>2. PICK i \in Ids \union {0} :
        IF i = 0 \/ phonePrompt # [id |-> i, fresh |-> FALSE]
        THEN misheard' = misheard
        ELSE misheard' = (misheard \/ answer.about # i)
  BY DEF Respond
<1>3. answer.about # 0
  BY <1>1 DEF PhoneInv
<1>4. ASSUME i # 0, phonePrompt = [id |-> i, fresh |-> FALSE] PROVE answer.about = i
  <2>1. phonePrompt.id = i /\ ~phonePrompt.fresh
    BY <1>4
  <2> QED  BY <1>3, <1>4, <2>1 DEF PhoneInv, Settles
<1>5. ~misheard'
  BY <1>2, <1>4 DEF PhoneInv, AnswerMeansPrompt
<1> QED  BY <1>1, <1>5 DEF PhoneInv, LastSent, Settles, NoPhone, AnswerMeansPrompt

LEMMA RestartPhone ==
  ASSUME PhoneInv, Restart
  PROVE  PhoneInv'
<1>1. /\ phonePrompt'.id = 0 /\ wire' = wire /\ screen' = screen /\ answer' = answer
      /\ misheard' = misheard
  BY DEF Restart
<1> QED  BY <1>1 DEF PhoneInv, LastSent, Settles, NoPhone, AnswerMeansPrompt

LEMMA PhoneNext ==
  ASSUME AnswersInTime, IndInv, PhoneInv, [Next]_vars
  PROVE  PhoneInv'
<1>1. TypeOK
  BY DEF IndInv
<1>2. CASE UNCHANGED vars
  BY <1>2, PhoneStill DEF vars, phoneVars
<1>3. ASSUME NEW p \in Callers, Proposing(p) PROVE PhoneInv'
  <2>1. UNCHANGED phoneVars \/ Prompt(p)
    BY <1>3 DEF Proposing, Propose, TakeUse, NoOrder, Send, GiveBack, ReadItems, CheckLimits, Insert
  <2> QED  BY <1>1, <2>1, PhoneStill, PromptPhone
<1>4. ASSUME NEW i \in Ids,
             \/ Confirm(i) \/ Confirming(i) \/ Deny(i) \/ Sweep(i) \/ PhoneDeny(i)
             \/ Lapse(i) \/ OrderEnds(i) \/ AgentEnds(i)
      PROVE  PhoneInv'
  <2>1. UNCHANGED phoneVars
    BY <1>4 DEF Confirm, Confirming, ConfirmRead, ConfirmExpire, Claim, Recheck, CreateAgent,
       SubmitTask, RecordStanding, Execute, Throws, Record, Fail, Deny, Sweep, PhoneDeny, Lapse,
       OrderEnds, AgentEnds
  <2> QED  BY <2>1, PhoneStill
<1>5. CASE Phone
  BY <1>1, <1>5, ShowPhone, PressPhone, AgesPhone, RespondPhone DEF Phone
<1>6. CASE Restart
  BY <1>6, RestartPhone
<1> QED  BY <1>2, <1>3, <1>4, <1>5, <1>6 DEF Next

(* The phone's answer, which names no action, is only ever taken for the    *)
(* action whose prompt the user saw, while prompts and answers cross the    *)
(* network within PHONE_ANSWER_MIN_MS (actions.mjs:54-60, 805-812), for any *)
(* number of callers, actions, prompts on their way and restarts.           *)
THEOREM AnswersTakenRight ==
  ASSUME AnswersInTime
  PROVE  Spec => []AnswerMeansPrompt
<1>1. PhoneInv => AnswerMeansPrompt
  BY DEF PhoneInv
<1>2. IndInv /\ PhoneInv /\ [Next]_vars => PhoneInv'
  BY PhoneNext
<1> QED  BY <1>1, <1>2, PhoneInit, Invariant, PTL DEF Spec
===============================================================================
