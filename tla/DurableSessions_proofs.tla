----------------------- MODULE DurableSessions_proofs -----------------------
(***************************************************************************)
(* Sessions of the durable provider: a requestId creates one session and    *)
(* one input, and the runs of an archived session end, for any number of    *)
(* calls, sessions, inputs and restarts.  The last section is about the     *)
(* assistant, which is such a session: its child works with the memory the  *)
(* store has, its runs are left alone and no note for it is lost.           *)
(***************************************************************************)
EXTENDS DurableSessions, Sequences, FiniteSetTheorems, TLAPS

Call == [at : {"idle", "admit", "ensure", "creating", "attach", "submit", "status", "stopping"},
         sid : Sids \union {None}, req : Requests \union {None}, created : BOOLEAN]

Types ==
  /\ row \in [Sids -> {"none", "live", "archived"}]
  /\ DOMAIN conv = Sids /\ DOMAIN creating = Sids
  /\ request \in [Requests -> Sids \union {None}]
  /\ calls \in [Calls -> Call]

(* A call that has a session has it for its requestId, and past the wait    *)
(* for its conversation the session has one.                                *)
Going(c) ==
  /\ calls[c].at = "admit" => calls[c].req \in Requests
  /\ calls[c].at \in {"ensure", "creating", "attach", "submit", "status"} =>
       (calls[c].req \in Requests => request[calls[c].req] = calls[c].sid)
  /\ calls[c].at \in {"attach", "submit", "status"} => conv[calls[c].sid] # 0
  /\ calls[c].at \in {"ensure", "creating", "attach", "submit", "status", "stopping"} =>
       calls[c].sid \in Sids /\ row[calls[c].sid] # "none"

(* A conversation is made for a session that has none.                      *)
Making(s) == creating[s] # {} => conv[s] = 0

(* An input of a requestId is the one input of the session it created.      *)
Placed(i) ==
  /\ \E s \in Sids : conv[s] = i.conv /\ i.conv # 0
  /\ i.req \in Requests => /\ request[i.req] \in Sids
                           /\ i = [conv |-> conv[request[i.req]], req |-> i.req, n |-> 0]

(* A session was created by a requestId.                                    *)
Created(s) == row[s] # "none" => \E r \in Requests : request[r] = s

Inv ==
  /\ Types
  /\ \A c \in Calls : Going(c)
  /\ \A s \in Sids : Making(s) /\ Created(s)
  /\ \A i \in inputs : Placed(i)

Proper == None \notin Requests \union Sids

LEMMA InitInv == Init => Inv
  BY DEF Init, Inv, Types, Call, Going, Making, Created, Idle, None

(* A step that leaves the sessions and what was placed alone, and changes   *)
(* calls only to what is allowed.                                           *)
LEMMA CallsOnly ==
  ASSUME Inv, UNCHANGED <<row, conv, request, inputs, creating>>,
         calls' \in [Calls -> Call], \A c \in Calls : Going(c)'
  PROVE  Inv'
  BY DEF Inv, Types, Making, Created, Placed

LEMMA Ending ==
  ASSUME Inv, UNCHANGED <<row, conv, request, inputs, creating>>,
         NEW c \in Calls, calls' = calls \/ Ended(c)
  PROVE  Inv'
<1>1. Idle \in Call
  BY DEF Idle, Call
<1>2. CASE calls' = calls
  BY <1>2, CallsOnly DEF Inv, Types, Going
<1>3. CASE calls' = [calls EXCEPT ![c] = Idle]
  <2>1. calls' \in [Calls -> Call]
    BY <1>1, <1>3 DEF Inv, Types
  <2>2. ASSUME NEW d \in Calls PROVE Going(d)'
    BY <1>3 DEF Inv, Types, Idle, Going
  <2> QED BY <2>1, <2>2, CallsOnly
<1> QED BY <1>2, <1>3 DEF Ended

(* A requestId that is new creates a session.                               *)
LEMMA CreateInv ==
  ASSUME Inv, Proper, NEW c \in Calls, NEW r \in Requests, NEW engine, Create(c, r, engine),
         request[r] = None, UNCHANGED <<inputs, creating>>
  PROVE  Inv'
<1>1. PICK s \in Sids :
        /\ row[s] = "none" /\ row' = [row EXCEPT ![s] = "live"]
        /\ request' = [request EXCEPT ![r] = s]
        /\ calls' = [calls EXCEPT ![c] = [at |-> "ensure", sid |-> s, req |-> r, created |-> TRUE]]
        /\ conv' = conv
  BY DEF Create
<1>2. Types'
  <2>1. calls' \in [Calls -> Call]
    BY <1>1 DEF Inv, Types, Call
  <2>2. row' \in [Sids -> {"none", "live", "archived"}]
    BY <1>1 DEF Inv, Types
  <2>3. request' \in [Requests -> Sids \union {None}]
    BY <1>1 DEF Inv, Types
  <2> QED BY <2>1, <2>2, <2>3, <1>1 DEF Inv, Types
<1>3. ASSUME NEW d \in Calls PROVE Going(d)'
  <2>1. CASE d = c
    BY <1>1, <2>1 DEF Inv, Types, Going
  <2>2. CASE d # c
    <3>1. calls'[d] = calls[d] /\ Going(d) /\ \A t \in Sids : row[t] # "none" => row'[t] # "none"
      BY <1>1, <2>2 DEF Inv, Types
    <3>2. \A q \in Requests : request[q] \in Sids => request'[q] = request[q]
      BY <1>1 DEF Inv, Types, Proper
    <3> QED BY <1>1, <3>1, <3>2 DEF Going
  <2> QED BY <2>1, <2>2
<1>4. ASSUME NEW t \in Sids PROVE Making(t)' /\ Created(t)'
  <2>1. Making(t)'
    BY <1>1 DEF Inv, Making
  <2>2. CASE t = s
    BY <1>1, <2>1, <2>2 DEF Inv, Types, Created
  <2>3. CASE t # s
    <3>1. row'[t] = row[t] /\ Created(t)
      BY <1>1, <2>3 DEF Inv, Types
    <3>2. \A q \in Requests : request[q] = t => request'[q] = t
      BY <1>1 DEF Inv, Types, Proper
    <3> QED BY <2>1, <3>1, <3>2 DEF Created
  <2> QED BY <2>2, <2>3
<1>5. ASSUME NEW i \in inputs PROVE Placed(i)'
  <2>1. \A q \in Requests : request[q] \in Sids => request'[q] = request[q]
    BY <1>1 DEF Inv, Types, Proper
  <2> QED BY <1>1, <2>1 DEF Inv, Placed
<1> QED BY <1>2, <1>3, <1>4, <1>5 DEF Inv

LEMMA FoundInv ==
  ASSUME Inv, Proper, NEW c \in Calls, NEW r \in Requests, Found(c, r), request[r] # None,
         UNCHANGED <<inputs, creating>>
  PROVE  Inv'
<1>1. request[r] \in Sids
  BY DEF Inv, Types
<1>2. calls' \in [Calls -> Call]
  BY <1>1 DEF Found, Inv, Types, Call, Idle
<1>3. UNCHANGED <<row, conv, request>>
  BY DEF Found, stored
<1>4. ASSUME NEW d \in Calls PROVE Going(d)'
  BY <1>1, <1>3 DEF Found, Inv, Types, Call, Idle, Going
<1> QED BY <1>2, <1>3, <1>4, CallsOnly

LEMMA StartInv ==
  ASSUME Inv, Proper, NEW c \in Calls, NEW r \in Requests, Start(c, r)
  PROVE  Inv'
<1>1. UNCHANGED <<inputs, creating>>
  BY DEF Start, runs, memory
<1>2. CASE request[r] # None
  BY <1>1, <1>2, FoundInv DEF Start
<1>3. CASE request[r] = None /\ Create(c, r, "native")
  BY <1>1, <1>3, CreateInv
<1>4. CASE calls' = [calls EXCEPT ![c] = [Idle EXCEPT !.at = "admit", !.req = r]] /\ UNCHANGED stored
  <2>1. calls' \in [Calls -> Call]
    BY <1>4 DEF Inv, Types, Call, Idle
  <2>2. ASSUME NEW d \in Calls PROVE Going(d)'
    BY <1>4 DEF Inv, Types, Call, Idle, Going, stored
  <2> QED BY <1>1, <1>4, <2>1, <2>2, CallsOnly DEF stored
<1> QED BY <1>2, <1>3, <1>4 DEF Start

LEMMA AdmittedInv ==
  ASSUME Inv, Proper, NEW c \in Calls, Admitted(c)
  PROVE  Inv'
<1>1. UNCHANGED <<inputs, creating>> /\ calls[c].req \in Requests
  BY DEF Admitted, runs, memory, Inv, Going
<1>2. CASE Ended(c) /\ UNCHANGED stored
  BY <1>1, <1>2, Ending DEF stored
<1>3. CASE request[calls[c].req] # None /\ Found(c, calls[c].req)
  BY <1>1, <1>3, FoundInv
<1>4. CASE request[calls[c].req] = None /\ Create(c, calls[c].req, "lets-code")
  BY <1>1, <1>4, CreateInv
<1> QED BY <1>2, <1>3, <1>4 DEF Admitted

LEMMA PromptInv ==
  ASSUME Inv, Proper, NEW c \in Calls, NEW s \in Sids, Prompt(c, s) \/ Stop(c, s)
  PROVE  Inv'
<1>1. UNCHANGED <<row, conv, request, inputs, creating>>
  BY DEF Prompt, Stop, stored, runs, memory
<1>2. PICK at \in {"ensure", "stopping"} : calls' = [calls EXCEPT ![c] = [Idle EXCEPT !.at = at, !.sid = s]]
  BY DEF Prompt, Stop
<1>3. calls' \in [Calls -> Call]
  BY <1>2 DEF Inv, Types, Call, Idle
<1>4. ASSUME NEW d \in Calls PROVE Going(d)'
  <2>1. row[s] # "none"
    BY DEF Prompt, Stop
  <2>2. CASE d = c
    <3>1. calls'[d] = [at |-> calls'[d].at, sid |-> s, req |-> None, created |-> FALSE]
          /\ calls'[d].at \in {"ensure", "stopping"}
      BY <1>2, <2>2 DEF Inv, Types, Idle
    <3> QED BY <1>1, <2>1, <3>1 DEF Going, Proper
  <2>3. CASE d # c
    BY <1>1, <1>2, <2>3 DEF Inv, Types, Going
  <2> QED BY <2>2, <2>3
<1> QED BY <1>1, <1>3, <1>4, CallsOnly

LEMMA EnsureInv ==
  ASSUME Inv, NEW c \in Calls, EnsureConversation(c)
  PROVE  Inv'
<1> DEFINE s == calls[c].sid
<1>1. UNCHANGED <<row, conv, request, inputs>> /\ s \in Sids
  BY DEF EnsureConversation, stored, runs, Inv, Going
<1>2. calls' \in [Calls -> Call]
  BY DEF EnsureConversation, At, Inv, Types, Call
<1>3. ASSUME NEW d \in Calls PROVE Going(d)'
  BY SMTT(30), <1>1 DEF EnsureConversation, At, Inv, Types, Call, Going
<1>4. DOMAIN creating' = Sids
  BY <1>1 DEF EnsureConversation, Inv, Types
<1>5. ASSUME NEW t \in Sids PROVE Making(t)'
  BY <1>1 DEF EnsureConversation, Inv, Types, Making
<1> QED BY <1>1, <1>2, <1>3, <1>4, <1>5 DEF Inv, Types, Created, Placed

LEMMA CreatingInv ==
  ASSUME Inv, NEW s \in Sids, Made(s) \/ CreatingEnds(s)
  PROVE  Inv'
<1>1. CASE Made(s)
  BY <1>1 DEF Made, Inv, Types, Going, Making, Created, Placed, runs
<1>2. CASE CreatingEnds(s)
  <2>1. UNCHANGED <<row, request, inputs>> /\ conv[s] = 0
    BY <1>2 DEF CreatingEnds, runs, Inv, Making
  <2>2. \A t \in Sids : conv[t] # 0 => conv'[t] = conv[t]
    BY <1>2, <2>1 DEF CreatingEnds, Inv, Types
  <2>3. DOMAIN conv' = Sids /\ creating' = [creating EXCEPT ![s] = {}]
    BY <1>2 DEF CreatingEnds, Inv, Types
  <2>4. calls' \in [Calls -> Call]
    <3>1. ASSUME NEW d \in Calls PROVE calls[d] \in Call /\ [calls[d] EXCEPT !.at = "attach"] \in Call
      BY DEF Inv, Types, Call
    <3>2. Idle \in Call
      BY DEF Call, Idle
    <3> QED BY <1>2, <3>1, <3>2 DEF CreatingEnds
  <2>5. ASSUME NEW d \in Calls PROVE Going(d)'
    <3>1. CASE calls[d].at = "creating" /\ calls[d].sid = s
      <4>1. CASE calls'[d] = Idle
        BY <4>1 DEF Going, Idle
      <4>2. CASE calls'[d] = [calls[d] EXCEPT !.at = "attach"] /\ conv'[s] # 0
        <5>1. calls'[d].at = "attach" /\ calls'[d].sid = s /\ calls'[d].req = calls[d].req
          BY <3>1, <4>2 DEF Inv, Types, Call
        <5> QED BY <2>1, <3>1, <4>2, <5>1 DEF Inv, Going
      <4> QED BY <1>2, <3>1, <4>1, <4>2 DEF CreatingEnds, Inv, Types
    <3>2. CASE ~(calls[d].at = "creating" /\ calls[d].sid = s)
      <4>1. calls'[d] = calls[d]
        BY <1>2, <3>2 DEF CreatingEnds
      <4> QED BY <2>1, <2>2, <4>1 DEF Inv, Going
    <3> QED BY <3>1, <3>2
  <2>6. ASSUME NEW t \in Sids PROVE Making(t)'
    BY <1>2, <2>3 DEF CreatingEnds, Inv, Types, Making
  <2>7. ASSUME NEW i \in inputs PROVE Placed(i)'
    BY <2>1, <2>2 DEF Inv, Placed
  <2> QED BY <2>1, <2>3, <2>4, <2>5, <2>6, <2>7 DEF Inv, Types, Created
<1> QED BY <1>1, <1>2

LEMMA AttachInv ==
  ASSUME Inv, NEW c \in Calls, Attach(c)
  PROVE  Inv'
<1>1. UNCHANGED <<row, conv, request, inputs, creating>>
  BY DEF Attach, stored, runs, memory
<1>2. CASE At(c, "submit")
  <2>1. calls' \in [Calls -> Call]
    BY <1>2 DEF At, Inv, Types, Call
  <2>2. ASSUME NEW d \in Calls PROVE Going(d)'
    BY <1>1, <1>2 DEF Attach, At, Inv, Types, Call, Going
  <2> QED BY <1>1, <2>1, <2>2, CallsOnly
<1> QED BY <1>1, <1>2, Ending DEF Attach

(* A row that is archived stays one that a requestId created.               *)
LEMMA ArchiveInv ==
  ASSUME Inv, NEW s \in Sids, row[s] # "none", row' = [row EXCEPT ![s] = "archived"],
         UNCHANGED <<conv, request, inputs, creating>>,
         calls' \in [Calls -> Call], \A c \in Calls : Going(c)'
  PROVE  Inv'
<1>1. row' \in [Sids -> {"none", "live", "archived"}]
  BY DEF Inv, Types
<1>2. \A t \in Sids : row'[t] # "none" => row[t] # "none"
  BY DEF Inv, Types
<1> QED BY <1>1, <1>2 DEF Inv, Types, Making, Created, Placed

LEMMA SubmitInv ==
  ASSUME Inv, Proper, NEW c \in Calls, Submit(c)
  PROVE  Inv'
<1> DEFINE s == calls[c].sid
           k == conv[s]
           n == Cardinality({i \in inputs : i.conv = k})
           input == [conv |-> k, req |-> calls[c].req, n |-> IF calls[c].req = None THEN n ELSE 0]
<1>1. s \in Sids /\ row[s] # "none" /\ k # 0 /\ calls[c].req \in Requests \union {None}
  BY DEF Submit, Inv, Types, Call, Going
<1>2. creating' = creating
  BY DEF Submit
<1>3. CASE inputs' = inputs \union {input} /\ At(c, "status") /\ UNCHANGED stored
  <2>1. UNCHANGED <<row, conv, request>>
    BY <1>3 DEF stored
  <2>2. calls' \in [Calls -> Call]
    BY <1>3 DEF At, Inv, Types, Call
  <2>3. ASSUME NEW d \in Calls PROVE Going(d)'
    BY <1>3, <2>1 DEF Submit, At, Inv, Types, Call, Going
  <2>4. Placed(input)
    <3>1. calls[c].req \in Requests => request[calls[c].req] = s
      BY DEF Submit, Inv, Going
    <3>2. calls[c].req \in Requests => calls[c].req # None
      BY DEF Proper
    <3>3. input.conv = k /\ input.req = calls[c].req
      OBVIOUS
    <3> QED BY <1>1, <3>1, <3>2, <3>3 DEF Placed
  <2>5. ASSUME NEW i \in inputs' PROVE Placed(i)'
    BY <1>3, <2>1, <2>4 DEF Inv, Placed
  <2> QED BY <1>2, <2>1, <2>2, <2>3, <2>5 DEF Inv, Types, Making, Created
<1>4. CASE Ended(c) /\ UNCHANGED inputs /\ UNCHANGED stored
  BY <1>2, <1>4, Ending DEF stored
<1>5. CASE Ended(c) /\ UNCHANGED inputs /\ Archive(s)
  <2>1. UNCHANGED <<conv, request>> /\ row' = [row EXCEPT ![s] = "archived"]
    BY <1>5 DEF Archive
  <2>2. calls' \in [Calls -> Call]
    BY <1>5 DEF Ended, Idle, Inv, Types, Call
  <2>3. ASSUME NEW d \in Calls PROVE Going(d)'
    BY <1>5, <2>1 DEF Ended, Idle, Inv, Types, Going
  <2> QED BY <1>1, <1>2, <1>5, <2>1, <2>2, <2>3, ArchiveInv
<1> QED BY <1>3, <1>4, <1>5 DEF Submit

LEMMA AnsweredInv ==
  ASSUME Inv, NEW c \in Calls, Answered(c)
  PROVE  Inv'
  BY Ending DEF Answered, stored, runs

(* What happens to runs leaves the tables alone.                            *)
LEMMA RunsInv ==
  ASSUME Inv, \/ \E k \in 1 .. MaxConvs : RunEnds(k) \/ Aborted(k)
              \/ \E s \in Sids : Noticed(s) \/ Interrupt(s)
              \/ Inspect \/ Ready
  PROVE  Inv'
<1>1. UNCHANGED <<row, conv, request, inputs, creating, calls>>
  BY DEF RunEnds, Aborted, Noticed, Interrupt, Inspect, Ready, stored, runs, memory
<1> QED BY <1>1 DEF Inv, Types, Going, Making, Created, Placed

LEMMA ForgetInv ==
  ASSUME Inv, NEW s \in Sids, ForgetSession(s)
  PROVE  Inv'
<1>1. row[s] # "none" /\ row' = [row EXCEPT ![s] = "archived"]
  BY DEF ForgetSession, Archive
<1>2. UNCHANGED <<conv, request, inputs, creating, calls>>
  BY DEF ForgetSession, Archive, runs
<1>3. ASSUME NEW d \in Calls PROVE Going(d)'
  BY <1>1, <1>2 DEF Inv, Types, Going
<1>4. calls' \in [Calls -> Call]
  BY <1>2 DEF Inv, Types
<1> QED BY <1>1, <1>2, <1>3, <1>4, ArchiveInv

LEMMA StopEndsInv ==
  ASSUME Inv, NEW c \in Calls, StopEnds(c)
  PROVE  Inv'
<1> DEFINE s == calls[c].sid
<1>1. s \in Sids /\ row[s] # "none" /\ row' = [row EXCEPT ![s] = "archived"]
  BY DEF StopEnds, Archive, Inv, Going
<1>2. UNCHANGED <<conv, request, inputs, creating>>
  BY DEF StopEnds, Archive, runs
<1>3. ASSUME NEW d \in Calls PROVE Going(d)'
  BY <1>1, <1>2 DEF StopEnds, Ended, Idle, Inv, Types, Going
<1>4. calls' \in [Calls -> Call]
  BY DEF StopEnds, Ended, Idle, Inv, Types, Call
<1> QED BY <1>1, <1>2, <1>3, <1>4, ArchiveInv

LEMMA RestartInv ==
  ASSUME Inv, Restart
  PROVE  Inv'
<1>1. UNCHANGED <<row, conv, request, inputs>>
  BY DEF Restart, stored, runs
<1>2. calls' = [c \in Calls |-> Idle] /\ creating' = [s \in Sids |-> {}]
  BY DEF Restart
<1>3. Types'
  BY <1>1, <1>2 DEF Inv, Types, Call, Idle
<1>4. ASSUME NEW d \in Calls PROVE Going(d)'
  BY <1>2 DEF Going, Idle
<1> QED BY <1>1, <1>2, <1>3, <1>4 DEF Inv, Making, Created, Placed

LEMMA NextInv == Proper /\ Inv /\ [Next]_vars => Inv'
<1> SUFFICES ASSUME Proper, Inv, [Next]_vars PROVE Inv'
  OBVIOUS
<1>1. CASE UNCHANGED vars
  BY <1>1 DEF vars, stored, runs, memory, Inv, Types, Going, Making, Created, Placed
<1>2. CASE Next
  <2>1. ASSUME NEW c \in Calls, Prompting(c) \/ StopEnds(c) PROVE Inv'
    BY <2>1, AdmittedInv, EnsureInv, AttachInv, SubmitInv, AnsweredInv, StopEndsInv DEF Prompting
  <2>2. ASSUME NEW c \in Calls, NEW r \in Requests, Start(c, r) PROVE Inv'
    BY <2>2, StartInv
  <2>3. ASSUME NEW c \in Calls, NEW s \in Sids, Prompt(c, s) \/ Stop(c, s) PROVE Inv'
    BY <2>3, PromptInv
  <2>4. ASSUME NEW s \in Sids, Made(s) \/ CreatingEnds(s) PROVE Inv'
    BY <2>4, CreatingInv
  <2>5. ASSUME NEW s \in Sids, ForgetSession(s) PROVE Inv'
    BY <2>5, ForgetInv
  <2>6. CASE \/ \E k \in 1 .. MaxConvs : RunEnds(k) \/ Aborted(k)
             \/ \E s \in Sids : Noticed(s) \/ Interrupt(s)
             \/ Inspect \/ Ready
    BY <2>6, RunsInv
  <2> QED BY <1>2, <2>1, <2>2, <2>3, <2>4, <2>5, <2>6, RestartInv DEF Next
<1> QED BY <1>1, <1>2

(* The sessions of the table are among those the requests created.          *)
LEMMA OnePerRequest ==
  ASSUME Inv, IsFiniteSet(Requests)
  PROVE  OncePerRequest
<1> DEFINE there == {s \in Sids : row[s] # "none"}
           made == {request[r] : r \in Requests}
<1>1. IsFiniteSet(made) /\ Cardinality(made) <= Cardinality(Requests)
  <2>1. request \in Surjection(Requests, made)
    BY DEF Inv, Types, Surjection
  <2> QED BY <2>1, FS_Surjection
<1>2. there \subseteq made
  BY DEF Inv, Created
<1>3. Cardinality(there) <= Cardinality(made)
  BY <1>1, <1>2, FS_Subset
<1>4. Cardinality(there) \in Nat /\ Cardinality(made) \in Nat /\ Cardinality(Requests) \in Nat
  BY <1>1, <1>2, FS_Subset, FS_CardinalityType
<1>5. Cardinality(there) <= Cardinality(Requests)
  BY <1>1, <1>3, <1>4
<1>6. \A i, j \in inputs : i.req = j.req /\ i.req \in Requests => i = j
  BY DEF Inv, Placed
<1>7. \A i \in inputs : \E s \in Sids : conv[s] = i.conv
  BY DEF Inv, Placed
<1> QED BY <1>5, <1>6, <1>7 DEF OncePerRequest

(* However many calls retry a requestId, and whatever fails, is stopped,    *)
(* forgotten or cut off by a restart between their awaits                   *)
(* (durable/provider.mjs prompt), it creates one session and one input.     *)
THEOREM RequestsOnce ==
  ASSUME IsFiniteSet(Requests), None \notin Requests \union Sids
  PROVE  Spec => []OncePerRequest
<1>1. Proper
  BY DEF Proper
<1>2. Inv => OncePerRequest
  BY OnePerRequest
<1>3. Inv /\ [Next]_vars => Inv'
  BY <1>1, NextInv
<1> QED BY InitInv, <1>2, <1>3, PTL DEF Spec

-----------------------------------------------------------------------------
(* Runs of archived sessions.  A conversation is of one session, one that is *)
(* being made of none yet, and runs are of conversations that were made.     *)
Ranged(s) ==
  /\ conv[s] \in 0 .. convs /\ creating[s] \subseteq 0 .. convs
  /\ row[s] = "none" => conv[s] = 0 /\ creating[s] = {}
Alone(s, t) ==
  /\ conv[s] = conv[t] /\ conv[s] # 0 => s = t
  /\ \A k \in creating[s] \ {0} : k # conv[t] /\ k \notin running /\ (k \in creating[t] => s = t)
ConvsApart ==
  /\ convs \in Nat /\ running \subseteq 1 .. convs
  /\ \A s \in Sids : Ranged(s)
  /\ \A s, t \in Sids : Alone(s, t)

(* The run of a live session shows in its state, is marked, or was started   *)
(* by a call that has its state still to set.                                *)
RunSeen ==
  up # "opening" =>
    \A s \in Sids : row[s] = "live" /\ conv[s] \in running =>
      \/ s \in states \/ conv[s] \in marked
      \/ \E c \in Calls : calls[c].at = "status" /\ calls[c].sid = s

(* A call that may start a run of an archived session is late, and so is a   *)
(* run that a stop under way does not abort.  While the bridge opens its     *)
(* sessions there is no call.                                                *)
CallsLate ==
  /\ \A c \in Calls :
       calls[c].at = "submit" /\ calls[c].sid \notin LetsCode /\ row[calls[c].sid] = "archived" =>
         calls[c].sid \in late
  /\ \A c \in Calls :
       calls[c].at = "stopping" /\ conv[calls[c].sid] \in running =>
         conv[calls[c].sid] \in aborts \/ calls[c].sid \in late
  /\ up = "opening" => \A c \in Calls : calls[c].at = "idle"

EndInv == ConvsApart /\ RunSeen /\ CallsLate /\ ArchivedRunsEnd

LEMMA EndInit == Init => EndInv
BY DEF Init, EndInv, ConvsApart, Ranged, Alone, RunSeen, CallsLate, ArchivedRunsEnd, Idle

(* Steps that make no conversation.                                          *)
LEMMA StayApart ==
  ASSUME Inv, ConvsApart, UNCHANGED <<conv, convs>>,
         \A s \in Sids : creating'[s] = creating[s] \/ (row[s] # "none" /\ creating[s] = {} /\ creating'[s] = {0})
                         \/ creating'[s] = {},
         \A s \in Sids : row'[s] = "none" => row[s] = "none",
         \A k \in running' : k \in running \/ (\E s \in Sids : k = conv[s] /\ k # 0)
  PROVE  ConvsApart'
<1>1. convs \in Nat /\ running \subseteq 1 .. convs
  BY DEF ConvsApart
<1>2. ASSUME NEW s \in Sids
      PROVE  /\ conv[s] \in 0 .. convs /\ creating[s] \subseteq 0 .. convs
             /\ row[s] = "none" => conv[s] = 0 /\ creating[s] = {}
  <2>1. Ranged(s)
    BY DEF ConvsApart
  <2> QED BY <2>1 DEF Ranged
<1>3. running' \subseteq 1 .. convs
  <2>1. ASSUME NEW s \in Sids, conv[s] # 0 PROVE conv[s] \in 1 .. convs
    BY <1>1, <1>2, <2>1
  <2> QED BY <1>1, <2>1
<1>4. ASSUME NEW s \in Sids PROVE Ranged(s)'
  <2>1. 0 \in 0 .. convs
    BY <1>1
  <2> QED BY <1>2, <2>1 DEF Ranged
<1>5. ASSUME NEW s \in Sids, NEW t \in Sids PROVE Alone(s, t)'
  <2>1. Alone(s, t) /\ \A u \in Sids : Alone(s, u)
    BY DEF ConvsApart
  <2>2. creating'[s] \ {0} \subseteq creating[s] /\ creating'[t] \ {0} \subseteq creating[t]
    OBVIOUS
  <2> QED BY <2>1, <2>2 DEF Alone
<1> QED BY <1>1, <1>3, <1>4, <1>5 DEF ConvsApart

(* Steps on the way to a run: sessions appear and get conversations, and     *)
(* calls move, but none that submits for an archived session.                *)
LEMMA OnTheWay ==
  ASSUME Inv, EndInv, ConvsApart', UNCHANGED <<running, marked, states, up, aborts, late>>,
         \A s \in Sids : row'[s] = row[s] \/ (row[s] = "none" /\ row'[s] = "live"),
         \A s \in Sids : conv'[s] = conv[s] \/ conv'[s] \notin running,
         \A c \in Calls : \/ calls'[c] = calls[c]
                          \/ /\ calls[c].at # "status" /\ calls'[c].at # "stopping" /\ up # "opening"
                             /\ calls'[c].at = "submit" => calls'[c].sid \in Sids /\ (calls'[c].sid \in LetsCode \/ row'[calls'[c].sid] = "live")
  PROVE  EndInv'
<1>1. ASSUME NEW s \in Sids, row[s] = "none" PROVE conv'[s] \notin running
  <2>1. Ranged(s) /\ running \subseteq 1 .. convs /\ convs \in Nat
    BY <1>1 DEF EndInv, ConvsApart
  <2>2. conv[s] \notin running
    BY <1>1, <2>1 DEF Ranged
  <2> QED BY <2>2
<1>2. RunSeen'
  <2> SUFFICES ASSUME up # "opening", NEW s \in Sids, row'[s] = "live", conv'[s] \in running
      PROVE  s \in states \/ conv'[s] \in marked \/ \E c \in Calls : calls'[c].at = "status" /\ calls'[c].sid = s
    BY DEF RunSeen
  <2>1. row[s] = "live" /\ conv'[s] = conv[s]
    BY <1>1
  <2>2. s \in states \/ conv[s] \in marked \/ \E c \in Calls : calls[c].at = "status" /\ calls[c].sid = s
    BY <2>1 DEF EndInv, RunSeen
  <2> QED BY <2>1, <2>2
<1>3. ArchivedRunsEnd'
  <2> SUFFICES ASSUME NEW s \in Sids, row'[s] = "archived", conv'[s] \in running
      PROVE  conv'[s] \in aborts \union marked \/ s \in late \/ up = "opening"
    BY DEF ArchivedRunsEnd
  <2> QED BY DEF EndInv, ArchivedRunsEnd
<1>4. ASSUME NEW c \in Calls, calls'[c].at = "submit", calls'[c].sid \notin LetsCode, row'[calls'[c].sid] = "archived"
      PROVE  calls'[c].sid \in late
  <2>1. calls'[c] = calls[c]
    BY <1>4
  <2>2. calls[c].sid \in Sids
    BY <1>4, <2>1 DEF Inv, Going
  <2>3. row[calls[c].sid] = "archived"
    BY <1>4, <2>1, <2>2
  <2> QED BY <1>4, <2>1, <2>3 DEF EndInv, CallsLate
<1>5. ASSUME NEW c \in Calls, calls'[c].at = "stopping", conv'[calls'[c].sid] \in running
      PROVE  conv'[calls'[c].sid] \in aborts \/ calls'[c].sid \in late
  <2>1. calls'[c] = calls[c]
    BY <1>5
  <2>2. calls[c].sid \in Sids
    BY <1>5, <2>1 DEF Inv, Going
  <2>3. conv'[calls[c].sid] = conv[calls[c].sid]
    BY <1>5, <2>1, <2>2
  <2> QED BY <1>5, <2>1, <2>3 DEF EndInv, CallsLate
<1>6. up = "opening" => \A c \in Calls : calls'[c].at = "idle"
  BY DEF EndInv, CallsLate
<1>7. CallsLate'
  BY <1>4, <1>5, <1>6 DEF CallsLate
<1> QED BY <1>2, <1>3, <1>7 DEF EndInv

LEMMA MakingEnd ==
  ASSUME Inv, EndInv, NEW s \in Sids, Made(s) \/ CreatingEnds(s)
  PROVE  EndInv'
<1>0. convs \in Nat /\ running \subseteq 1 .. convs /\ (\A t \in Sids : Ranged(t)) /\ \A t, u \in Sids : Alone(t, u)
  BY DEF EndInv, ConvsApart
<1>1. CASE Made(s)
  <2> DEFINE k == convs + 1
  <2>1. /\ creating[s] = {0} /\ convs' = k /\ creating' = [creating EXCEPT ![s] = {k}]
        /\ UNCHANGED <<row, conv, running, marked, states, up, aborts, late, calls>>
    BY <1>1 DEF Made, runs
  <2>2. k \in Nat /\ k \notin running /\ 0 .. convs \subseteq 0 .. k /\ 1 .. convs \subseteq 1 .. k /\ k \in 0 .. k /\ k \notin 0 .. convs
    BY <1>0
  <2> HIDE DEF k
  <2>3. \A t \in Sids : creating'[t] = IF t = s THEN {k} ELSE creating[t]
    BY <2>1 DEF Inv, Types
  <2>4. ASSUME NEW t \in Sids PROVE Ranged(t)'
    BY <1>0, <2>1, <2>2, <2>3 DEF Ranged
  <2>5. \A t \in Sids : conv[t] # k /\ k \notin creating[t]
    BY <1>0, <2>2 DEF Ranged
  <2>6. ASSUME NEW t \in Sids, NEW u \in Sids PROVE Alone(t, u)'
    BY <1>0, <2>1, <2>2, <2>3, <2>5 DEF Alone
  <2>7. ConvsApart'
    BY <1>0, <2>1, <2>2, <2>4, <2>6 DEF ConvsApart
  <2> QED BY <2>1, <2>7, OnTheWay
<1>2. CASE CreatingEnds(s)
  <2>1. /\ creating' = [creating EXCEPT ![s] = {}]
        /\ UNCHANGED <<row, convs, running, marked, states, up, aborts, late>>
        /\ conv' = conv \/ \E k \in creating[s] \ {0} : conv' = [conv EXCEPT ![s] = k]
    BY <1>2 DEF CreatingEnds, runs
  <2>2. \A t \in Sids : creating'[t] = IF t = s THEN {} ELSE creating[t]
    BY <2>1 DEF Inv, Types
  <2>3. \A c \in Calls : calls'[c] = calls[c] \/ (calls[c].at = "creating" /\ calls'[c].at \in {"attach", "idle"})
    BY <1>2 DEF CreatingEnds, Inv, Types, Call, Idle
  <2>4. up = "opening" => \A c \in Calls : calls[c].at = "idle"
    BY DEF EndInv, CallsLate
  <2>5. CASE conv' = conv
    <3>1. ConvsApart'
      BY <2>1, <2>2, <2>5, StayApart DEF EndInv
    <3> QED BY <2>1, <2>3, <2>4, <2>5, <3>1, OnTheWay
  <2>6. ASSUME NEW k \in creating[s] \ {0}, conv' = [conv EXCEPT ![s] = k] PROVE EndInv'
    <3>1. \A t \in Sids : conv'[t] = IF t = s THEN k ELSE conv[t]
      BY <2>6 DEF Inv, Types
    <3>2. k \in 0 .. convs /\ k # 0 /\ k \notin running /\ row[s] # "none"
      BY <1>0 DEF Ranged, Alone
    <3>3. \A t \in Sids : k # conv[t] /\ (k \in creating[t] => t = s)
      BY <1>0 DEF Alone
    <3>4. ASSUME NEW t \in Sids PROVE Ranged(t)'
      BY <1>0, <2>1, <2>2, <3>1, <3>2 DEF Ranged
    <3>5. ASSUME NEW t \in Sids, NEW u \in Sids PROVE Alone(t, u)'
      BY <1>0, <2>1, <2>2, <3>1, <3>2, <3>3 DEF Alone
    <3>6. ConvsApart'
      BY <1>0, <2>1, <3>4, <3>5 DEF ConvsApart
    <3> QED BY <2>1, <2>3, <2>4, <3>1, <3>2, <3>6, OnTheWay
  <2> QED BY <2>1, <2>5, <2>6
<1> QED BY <1>1, <1>2

LEMMA CallsEnd ==
  ASSUME Inv, Proper, EndInv, NEW c \in Calls,
         \/ \E r \in Requests : Start(c, r)
         \/ \E s \in Sids : Prompt(c, s)
         \/ Admitted(c) \/ EnsureConversation(c) \/ Attach(c)
  PROVE  EndInv'
<1>1. UNCHANGED <<conv, convs, running, marked, states, up, aborts, late>>
  BY DEF Start, Prompt, Admitted, EnsureConversation, Attach, Create, Found, stored, runs, memory
<1>2. up # "opening"
  BY DEF EndInv, CallsLate, Start, Prompt, Admitted, EnsureConversation, Attach
<1>3. \A s \in Sids : row'[s] = row[s] \/ (row[s] = "none" /\ row'[s] = "live")
  BY DEF Start, Prompt, Admitted, EnsureConversation, Attach, Create, Found, stored, Inv, Types
<1>4. \A s \in Sids : creating'[s] = creating[s] \/ (row[s] # "none" /\ creating[s] = {} /\ creating'[s] = {0})
  <2>1. CASE EnsureConversation(c)
    <3>1. calls[c].sid \in Sids /\ row[calls[c].sid] # "none"
      BY <2>1 DEF EnsureConversation, Inv, Going
    <3> QED BY <2>1, <3>1 DEF EnsureConversation, Inv, Types
  <2>2. CASE ~EnsureConversation(c)
    BY <2>2 DEF Start, Prompt, Admitted, Attach, memory
  <2> QED BY <2>1, <2>2
<1>5. \A d \in Calls : d # c => calls'[d] = calls[d]
  BY DEF Start, Prompt, Admitted, EnsureConversation, Attach, Create, Found, At, Ended, Inv, Types
<1>6. calls[c].at # "status"
  <2>1. calls[c] = Idle \/ calls[c].at \in {"admit", "ensure", "attach"}
    BY DEF Start, Prompt, Admitted, EnsureConversation, Attach
  <2> QED BY <2>1 DEF Idle
<1> DEFINE before == {"idle", "admit", "ensure", "creating", "attach"}
<1>7. \/ calls'[c].at \in before
      \/ /\ calls'[c].at = "submit" /\ calls'[c].sid \in Sids
         /\ calls'[c].sid \in LetsCode \/ row'[calls'[c].sid] = "live"
  <2>1. ASSUME NEW r \in Requests, NEW engine, Create(c, r, engine) PROVE calls'[c].at \in before
    BY <2>1 DEF Create, Inv, Types
  <2>2. ASSUME NEW r \in Requests, Found(c, r) PROVE calls'[c].at \in before
    BY <2>2 DEF Found, Idle, Inv, Types
  <2>3. ASSUME Ended(c) PROVE calls'[c].at \in before
    BY <2>3 DEF Ended, Idle, Inv, Types
  <2>4. ASSUME NEW r \in Requests, Start(c, r) PROVE calls'[c].at \in before
    <3>1. ASSUME calls' = [calls EXCEPT ![c] = [Idle EXCEPT !.at = "admit", !.req = r]] PROVE calls'[c].at \in before
      BY <3>1 DEF Idle, Inv, Types
    <3> QED BY <2>1, <2>2, <2>4, <3>1 DEF Start
  <2>5. ASSUME NEW s \in Sids, Prompt(c, s) PROVE calls'[c].at \in before
    BY <2>5 DEF Prompt, Idle, Inv, Types
  <2>6. ASSUME Admitted(c) PROVE calls'[c].at \in before
    <3>1. calls[c].req \in Requests
      BY <2>6 DEF Admitted, Inv, Going
    <3> QED BY <2>1, <2>2, <2>3, <2>6, <3>1 DEF Admitted
  <2>7. ASSUME EnsureConversation(c) PROVE calls'[c].at \in before
    <3>1. At(c, "attach") \/ At(c, "creating")
      BY <2>7 DEF EnsureConversation
    <3>2. calls \in [Calls -> Call]
      BY DEF Inv, Types
    <3>3. calls'[c].at = "attach" \/ calls'[c].at = "creating"
      BY <3>1, <3>2 DEF At, Call
    <3> QED BY <3>3
  <2>8. CASE Attach(c)
    <3>1. calls[c].sid \in Sids /\ row' = row
      BY <2>8 DEF Attach, stored, Inv, Going
    <3>2. CASE At(c, "submit") /\ (calls[c].sid \in LetsCode \/ row[calls[c].sid] = "live")
      <4>1. calls'[c].at = "submit" /\ calls'[c].sid = calls[c].sid
        BY <3>2 DEF At, Inv, Types, Call
      <4> QED BY <3>1, <3>2, <4>1
    <3> QED BY <2>3, <2>8, <3>2 DEF Attach
  <2> QED BY <2>4, <2>5, <2>6, <2>7, <2>8
<1>8. ConvsApart'
  BY <1>1, <1>3, <1>4, StayApart DEF EndInv
<1>9. calls'[c].at \in before => calls'[c].at # "submit" /\ calls'[c].at # "stopping"
  OBVIOUS
<1> HIDE DEF before
<1> QED BY <1>1, <1>2, <1>3, <1>5, <1>6, <1>7, <1>8, <1>9, OnTheWay
(* Steps that leave the sessions and the calls, and may end runs.            *)
LEMMA RunsOnly ==
  ASSUME Inv, EndInv, UNCHANGED <<row, conv, convs, creating, calls, late, up>>,
         running' \subseteq running,
         \A s \in Sids : s \in states' \/ conv[s] \notin running' \/ s \notin states,
         \A k \in running' : (k \in marked => k \in marked') /\ (k \in aborts => k \in aborts')
  PROVE  EndInv'
<1>1. ConvsApart'
  BY StayApart DEF EndInv
<1>2. RunSeen'
  BY DEF EndInv, RunSeen
<1>3. ArchivedRunsEnd'
  BY DEF EndInv, ArchivedRunsEnd
<1>4. CallsLate'
  BY DEF EndInv, CallsLate
<1> QED BY <1>1, <1>2, <1>3, <1>4 DEF EndInv

LEMMA RunsStop ==
  ASSUME Inv, EndInv,
         \/ \E k \in 1 .. MaxConvs : RunEnds(k) \/ Aborted(k)
         \/ \E s \in Sids : Noticed(s) \/ Interrupt(s)
  PROVE  EndInv'
<1>1. ASSUME NEW k \in 1 .. MaxConvs, RunEnds(k) \/ Aborted(k) PROVE EndInv'
  <2>1. /\ UNCHANGED <<row, conv, convs, creating, calls, late, up, states>>
        /\ running' = running \ {k} /\ marked \ {k} \subseteq marked' /\ aborts \ {k} \subseteq aborts'
    BY <1>1 DEF RunEnds, Aborted, stored, memory
  <2> QED BY <2>1, RunsOnly
<1>2. ASSUME NEW s \in Sids, Noticed(s) PROVE EndInv'
  <2>1. /\ UNCHANGED <<row, conv, convs, creating, calls, late, up, running, marked, aborts>>
        /\ states' = IF s \in states THEN states \ {s} ELSE states \union {s}
        /\ s \in states => conv[s] \notin running
    BY <1>2 DEF Noticed, stored, runs
  <2> QED BY <2>1, RunsOnly
<1>3. ASSUME NEW s \in Sids, Interrupt(s) PROVE EndInv'
  <2>1. /\ UNCHANGED <<row, conv, convs, creating, calls, late, up, running, marked, states>>
        /\ aborts' = aborts \union {conv[s]}
    BY <1>3 DEF Interrupt, stored, runs
  <2> QED BY <2>1, RunsOnly
<1> QED BY <1>1, <1>2, <1>3

(* A session is archived: its run is aborted, marked, or a call is late.     *)
LEMMA ArchivedEnd ==
  ASSUME Inv, EndInv, NEW s \in Sids, Archive(s), UNCHANGED <<running, marked, up, creating>>,
         row[s] # "none", aborts \subseteq aborts',
         \A c \in Calls : calls'[c] = calls[c] \/ (calls[c].at # "status" /\ calls'[c].at = "idle"),
         conv[s] \in running => conv[s] \in aborts' \union marked \/ s \in late'
  PROVE  EndInv'
<1>1. /\ row' = [row EXCEPT ![s] = "archived"] /\ states' = states \ {s} /\ UNCHANGED <<conv, convs>>
      /\ late \subseteq late' /\ \A d \in Calls : calls[d].sid = s /\ calls[d].at = "submit" => s \in late'
  BY DEF Archive
<1>2. \A t \in Sids : row'[t] = IF t = s THEN "archived" ELSE row[t]
  BY <1>1 DEF Inv, Types
<1>3. ConvsApart'
  BY <1>1, <1>2, StayApart DEF EndInv
<1>4. RunSeen'
  BY <1>1, <1>2 DEF EndInv, RunSeen
<1>5. ArchivedRunsEnd'
  BY <1>1, <1>2 DEF EndInv, ArchivedRunsEnd
<1>6. ASSUME NEW c \in Calls, calls'[c].at = "submit", calls'[c].sid \notin LetsCode, row'[calls'[c].sid] = "archived"
      PROVE  calls'[c].sid \in late'
  <2>1. calls'[c] = calls[c]
    BY <1>6
  <2>2. calls[c].sid \in Sids
    BY <1>6, <2>1 DEF Inv, Going
  <2> QED BY <1>1, <1>2, <1>6, <2>1, <2>2 DEF EndInv, CallsLate
<1>7. ASSUME NEW c \in Calls, calls'[c].at = "stopping", conv[calls'[c].sid] \in running
      PROVE  conv[calls'[c].sid] \in aborts' \/ calls'[c].sid \in late'
  BY <1>1, <1>7 DEF EndInv, CallsLate
<1>8. up = "opening" => \A c \in Calls : calls'[c].at = "idle"
  BY DEF EndInv, CallsLate
<1>9. CallsLate'
  BY <1>1, <1>6, <1>7, <1>8 DEF CallsLate
<1> QED BY <1>3, <1>4, <1>5, <1>9 DEF EndInv
LEMMA ForgetEnd ==
  ASSUME Inv, EndInv, NEW s \in Sids, ForgetSession(s)
  PROVE  EndInv'
<1>1. /\ Archive(s) /\ UNCHANGED <<running, marked, up, creating, calls>> /\ row[s] = "live" /\ up # "opening"
      /\ aborts' = IF conv[s] # 0 /\ (s \in states \/ s \in LetsCode) THEN aborts \union {conv[s]} ELSE aborts
  BY DEF ForgetSession, runs
<1>2. ASSUME conv[s] \in running PROVE conv[s] \in aborts' \union marked \/ s \in late'
  <2>1. conv[s] # 0
    BY <1>2 DEF EndInv, ConvsApart
  <2>2. s \in states \/ conv[s] \in marked \/ \E c \in Calls : calls[c].at = "status" /\ calls[c].sid = s
    BY <1>1, <1>2 DEF EndInv, RunSeen
  <2>3. (\E c \in Calls : calls[c].at = "status" /\ calls[c].sid = s) => s \in late'
    BY <1>1 DEF Archive
  <2> QED BY <1>1, <2>1, <2>2, <2>3
<1> QED BY <1>1, <1>2, ArchivedEnd

LEMMA StopEnd ==
  ASSUME Inv, EndInv, NEW c \in Calls, (\E s \in Sids : Stop(c, s)) \/ StopEnds(c)
  PROVE  EndInv'
<1>1. ASSUME NEW s \in Sids, Stop(c, s) PROVE EndInv'
  <2>1. /\ UNCHANGED <<row, conv, convs, creating, running, marked, states, late, up>> /\ calls[c] = Idle /\ up # "opening"
        /\ calls' = [calls EXCEPT ![c] = [Idle EXCEPT !.at = "stopping", !.sid = s]]
        /\ aborts' = IF conv[s] \in running THEN aborts \union {conv[s]} ELSE aborts
    BY <1>1 DEF Stop, stored, runs
  <2>2. ConvsApart'
    BY <2>1, StayApart DEF EndInv
  <2>3. calls'[c].at = "stopping" /\ calls'[c].sid = s /\ \A d \in Calls : d # c => calls'[d] = calls[d]
    BY <2>1 DEF Inv, Types, Idle
  <2>4. RunSeen'
    BY <2>1, <2>3 DEF EndInv, RunSeen, Idle
  <2>5. ArchivedRunsEnd'
    BY <2>1 DEF EndInv, ArchivedRunsEnd
  <2>6. CallsLate'
    BY <2>1, <2>3 DEF EndInv, CallsLate
  <2> QED BY <2>2, <2>4, <2>5, <2>6 DEF EndInv
<1>2. CASE StopEnds(c)
  <2> DEFINE s == calls[c].sid
  <2>1. s \in Sids /\ row[s] # "none" /\ calls[c].at = "stopping"
    BY <1>2 DEF StopEnds, Inv, Going
  <2>2. Archive(s) /\ Ended(c) /\ conv[s] \notin aborts /\ UNCHANGED <<running, marked, up, creating, aborts>>
    BY <1>2 DEF StopEnds, runs
  <2>3. \A d \in Calls : calls'[d] = calls[d] \/ (calls[d].at # "status" /\ calls'[d].at = "idle")
    BY <2>1, <2>2 DEF Ended, Idle, Inv, Types
  <2>4. conv[s] \in running => s \in late
    BY <2>1, <2>2 DEF EndInv, CallsLate
  <2>5. late \subseteq late'
    BY <2>2 DEF Archive
  <2> HIDE DEF s
  <2> QED BY <2>1, <2>2, <2>3, <2>4, <2>5, ArchivedEnd
<1> QED BY <1>1, <1>2

LEMMA RestartEnd ==
  ASSUME Inv, EndInv, Restart \/ Inspect \/ Ready
  PROVE  EndInv'
<1>1. UNCHANGED <<row, conv, convs, running>> /\ \A s \in Sids : creating'[s] = creating[s] \/ creating'[s] = {}
  BY DEF Restart, Inspect, Ready, stored, runs
<1>2. ConvsApart'
  BY <1>1, StayApart DEF EndInv
<1>3. CASE Restart
  <2>1. up' = "opening" /\ calls' = [c \in Calls |-> Idle]
    BY <1>3 DEF Restart
  <2> QED BY <1>2, <2>1 DEF EndInv, RunSeen, CallsLate, ArchivedRunsEnd, Idle
<1>4. CASE Inspect
  <2>1. PICK old \in SUBSET Sids :
          LET kept == {s \in Sids \ old : row[s] = "live" /\ conv[s] \in running}
          IN  states' = kept /\ marked' = running \ {conv[s] : s \in kept}
    BY <1>4 DEF Inspect
  <2>2. up = "opening" /\ up' = "resuming" /\ UNCHANGED <<calls, aborts, late>>
    BY <1>4 DEF Inspect
  <2>3. ASSUME NEW s \in Sids, conv[s] \in running, s \notin states' PROVE conv[s] \in marked'
    <3>1. conv[s] # 0
      BY <2>3 DEF EndInv, ConvsApart
    <3>2. \A t \in Sids : conv[t] = conv[s] => t = s
      BY <3>1 DEF EndInv, ConvsApart, Alone
    <3> QED BY <2>1, <2>3, <3>2
  <2>4. \A s \in states' : row[s] = "live"
    BY <2>1
  <2>5. RunSeen' /\ ArchivedRunsEnd'
    BY <1>1, <2>3, <2>4 DEF RunSeen, ArchivedRunsEnd
  <2>6. \A c \in Calls : calls'[c].at = "idle"
    BY <2>2 DEF EndInv, CallsLate
  <2> QED BY <1>2, <2>5, <2>6 DEF EndInv, CallsLate
<1>5. CASE Ready
  <2>1. up = "resuming" /\ up' = "ready" /\ UNCHANGED <<calls, aborts, late, marked, states>>
    BY <1>5 DEF Ready, runs
  <2>2. RunSeen' /\ ArchivedRunsEnd'
    BY <1>1, <2>1 DEF EndInv, RunSeen, ArchivedRunsEnd
  <2>3. CallsLate'
    BY <1>1, <2>1 DEF EndInv, CallsLate
  <2> QED BY <1>2, <2>2, <2>3 DEF EndInv
<1> QED BY <1>3, <1>4, <1>5

(* A submitted input: its run is seen by the call that has its state to set. *)
LEMMA SubmitEnd ==
  ASSUME Inv, Proper, EndInv, NEW c \in Calls, Submit(c)
  PROVE  EndInv'
<1> DEFINE s == calls[c].sid
<1>1. s \in Sids /\ row[s] # "none" /\ calls[c].at = "submit" /\ conv[s] # 0 /\ UNCHANGED <<marked, up, creating, aborts>> /\ up # "opening"
  BY DEF Submit, Inv, Going, EndInv, CallsLate
<1>2. CASE /\ At(c, "status") /\ UNCHANGED stored /\ states' = states
           /\ running' = running \/ (running' = running \union {conv[s]} /\ ~(s \in LetsCode /\ row[s] # "live"))
           /\ late' = IF \E d \in Calls : calls[d].sid = s /\ calls[d].at = "stopping" THEN late \union {s} ELSE late
  <2>1. UNCHANGED <<row, conv, convs>>
    BY <1>2 DEF stored
  <2>2. ConvsApart'
    BY <1>1, <1>2, <2>1, StayApart DEF EndInv
  <2>3. calls'[c].at = "status" /\ calls'[c].sid = s /\ \A d \in Calls : d # c => calls'[d] = calls[d]
    BY <1>2 DEF At, Inv, Types, Call
  <2>4. \A t \in Sids : t # s => conv[t] # conv[s]
    BY <1>1 DEF EndInv, ConvsApart, Alone
  <2>5. \A t \in Sids : t # s /\ conv[t] \in running' => conv[t] \in running
    BY <1>2, <2>4
  <2> HIDE DEF s
  <2>6. RunSeen'
    <3> SUFFICES ASSUME NEW t \in Sids, row[t] = "live", conv[t] \in running'
        PROVE t \in states \/ conv[t] \in marked \/ \E d \in Calls : calls'[d].at = "status" /\ calls'[d].sid = t
      BY <1>1, <1>2, <2>1 DEF RunSeen
    <3>1. CASE t = s
      BY <2>3, <3>1
    <3>2. CASE t # s
      <4>1. t \in states \/ conv[t] \in marked \/ \E d \in Calls : calls[d].at = "status" /\ calls[d].sid = t
        BY <1>1, <2>5, <3>2 DEF EndInv, RunSeen
      <4> QED BY <1>1, <2>3, <4>1
    <3> QED BY <3>1, <3>2
  <2>7. ArchivedRunsEnd'
    <3> SUFFICES ASSUME NEW t \in Sids, row[t] = "archived", conv[t] \in running'
        PROVE conv[t] \in aborts \union marked \/ t \in late'
      BY <1>1, <2>1 DEF ArchivedRunsEnd
    <3>1. late \subseteq late'
      BY <1>2
    <3>2. CASE conv[t] \in running
      BY <1>1, <3>1, <3>2 DEF EndInv, ArchivedRunsEnd
    <3>3. CASE conv[t] \notin running
      <4>1. t = s /\ s \notin LetsCode
        BY <1>2, <2>5, <3>3
      <4>2. s \in late
        BY <1>1, <4>1 DEF EndInv, CallsLate, s
      <4> QED BY <3>1, <4>1, <4>2
    <3> QED BY <3>2, <3>3
  <2>8. CallsLate'
    <3>1. late \subseteq late'
      BY <1>2
    <3>2. ASSUME NEW d \in Calls, calls'[d].at = "submit", calls'[d].sid \notin LetsCode, row[calls'[d].sid] = "archived"
          PROVE  calls'[d].sid \in late'
      BY <2>3, <3>1, <3>2 DEF EndInv, CallsLate
    <3>3. ASSUME NEW d \in Calls, calls'[d].at = "stopping", conv[calls'[d].sid] \in running'
          PROVE  conv[calls'[d].sid] \in aborts \/ calls'[d].sid \in late'
      <4>1. calls'[d] = calls[d] /\ calls[d].at = "stopping"
        BY <2>3, <3>3
      <4>2. calls[d].sid \in Sids
        BY <4>1 DEF Inv, Going
      <4>3. CASE calls[d].sid = s
        BY <1>2, <4>1, <4>3
      <4>4. CASE calls[d].sid # s
        BY <2>5, <3>1, <3>3, <4>1, <4>2, <4>4 DEF EndInv, CallsLate
      <4> QED BY <4>3, <4>4
    <3> QED BY <1>1, <2>1, <3>2, <3>3 DEF CallsLate
  <2> QED BY <2>2, <2>6, <2>7, <2>8 DEF EndInv
<1>3. CASE Ended(c) /\ running' = running /\ Archive(s)
  <2>1. \A d \in Calls : calls'[d] = calls[d] \/ (calls[d].at # "status" /\ calls'[d].at = "idle")
    BY <1>1, <1>3 DEF Ended, Idle, Inv, Types
  <2>2. s \in late'
    BY <1>1, <1>3 DEF Archive
  <2> HIDE DEF s
  <2> QED BY <1>1, <1>3, <2>1, <2>2, ArchivedEnd
<1>4. CASE Ended(c) /\ running' = running /\ UNCHANGED <<stored, states, late>>
  <2>1. UNCHANGED <<row, conv, convs>>
    BY <1>4 DEF stored
  <2>2. ConvsApart'
    BY <1>1, <1>4, <2>1, StayApart DEF EndInv
  <2>3. \A d \in Calls : calls'[d] = calls[d] \/ (calls[d].at # "status" /\ calls'[d].at = "idle")
    BY <1>1, <1>4 DEF Ended, Idle, Inv, Types
  <2> HIDE DEF s
  <2> QED BY <1>1, <1>4, <2>1, <2>2, <2>3, OnTheWay
<1> QED
  BY <1>2, <1>3, <1>4 DEF Submit

LEMMA AnsweredEnd ==
  ASSUME Inv, EndInv, NEW c \in Calls, Answered(c)
  PROVE  EndInv'
<1> DEFINE s == calls[c].sid
<1>1. /\ UNCHANGED <<row, conv, convs, running, marked, up, creating, aborts, late>> /\ calls[c].at = "status"
      /\ states' = IF conv[s] \in running THEN states \union {s} ELSE states
      /\ Ended(c) /\ up # "opening"
  BY DEF Answered, stored, runs, EndInv, CallsLate
<1>2. ConvsApart'
  BY <1>1, StayApart DEF EndInv
<1>3. calls'[c].at = "idle" /\ \A d \in Calls : d # c => calls'[d] = calls[d]
  BY <1>1 DEF Ended, Idle, Inv, Types
<1>4. RunSeen'
  <2> SUFFICES ASSUME NEW t \in Sids, row[t] = "live", conv[t] \in running
      PROVE t \in states' \/ conv[t] \in marked \/ \E d \in Calls : calls'[d].at = "status" /\ calls'[d].sid = t
    BY <1>1 DEF RunSeen
  <2>1. t \in states \/ conv[t] \in marked \/ \E d \in Calls : calls[d].at = "status" /\ calls[d].sid = t
    BY <1>1 DEF EndInv, RunSeen
  <2> QED BY <1>1, <1>3, <2>1
<1>5. ArchivedRunsEnd'
  BY <1>1 DEF EndInv, ArchivedRunsEnd
<1>6. CallsLate'
  BY <1>1, <1>3 DEF EndInv, CallsLate
<1> QED BY <1>2, <1>4, <1>5, <1>6 DEF EndInv

LEMMA NextEnd == Proper /\ Inv /\ EndInv /\ [Next]_vars => EndInv'
<1> SUFFICES ASSUME Proper, Inv, EndInv, [Next]_vars PROVE EndInv'
  OBVIOUS
<1>1. CASE UNCHANGED vars
  <2>1. UNCHANGED <<row, conv, convs, creating, calls, late, up, running, states, marked, aborts>>
    BY <1>1 DEF vars, stored, runs, memory
  <2> QED BY <2>1, RunsOnly
<1>2. CASE Next
  <2>1. ASSUME NEW c \in Calls, Prompting(c) \/ StopEnds(c) PROVE EndInv'
    BY <2>1, CallsEnd, SubmitEnd, AnsweredEnd, StopEnd DEF Prompting
  <2>2. ASSUME NEW c \in Calls, NEW r \in Requests, Start(c, r) PROVE EndInv'
    BY <2>2, CallsEnd
  <2>3. ASSUME NEW c \in Calls, NEW s \in Sids, Prompt(c, s) \/ Stop(c, s) PROVE EndInv'
    BY <2>3, CallsEnd, StopEnd
  <2>4. ASSUME NEW s \in Sids, Made(s) \/ CreatingEnds(s) \/ ForgetSession(s) PROVE EndInv'
    BY <2>4, MakingEnd, ForgetEnd
  <2>5. CASE \/ \E k \in 1 .. MaxConvs : RunEnds(k) \/ Aborted(k)
             \/ \E s \in Sids : Noticed(s) \/ Interrupt(s)
    BY <2>5, RunsStop
  <2> QED BY <1>2, <2>1, <2>2, <2>3, <2>4, <2>5, RestartEnd DEF Next
<1> QED BY <1>1, <1>2

(* No run goes on in a session that is archived, where nobody can see or     *)
(* stop it (forgetSession, stopSession, inspectRows): it is being aborted,   *)
(* or a prompt was past its check of the row.                                *)
THEOREM ArchivedEnds == None \notin Requests \union Sids => (Spec => []ArchivedRunsEnd)
<1> SUFFICES ASSUME None \notin Requests \union Sids PROVE Spec => []ArchivedRunsEnd
  OBVIOUS
<1>1. Proper
  BY DEF Proper
<1>2. Init => Inv /\ EndInv
  BY InitInv, EndInit
<1>3. Inv /\ EndInv /\ [Next]_vars => Inv' /\ EndInv'
  BY <1>1, NextInv, NextEnd
<1>4. EndInv => ArchivedRunsEnd
  BY DEF EndInv
<1> QED BY <1>2, <1>3, <1>4, PTL DEF Spec

-----------------------------------------------------------------------------
CONSTANTS MaxNotes, MaxSets, MaxResets, MaxAsks, MaxExits, MaxBoots
VARIABLES child, starting, line, over, synced, spawning, timer, busy, asking, handing, queue,
          sending, notes, heard, pending, applying, store, read, count

Even == INSTANCE Assistant WITH MaxRestarts <- MaxBoots

-----------------------------------------------------------------------------
(* The assistant.  A step that may end with a write of the memory: the       *)
(* child it leaves runs on the store as it was, and a write that stops a     *)
(* child has found the engine idle.                                          *)
LEMMA WriteSafe ==
  ASSUME NEW c, NEW a, Even!FlushPointers(c, a)
  PROVE  /\ child' = "none" \/ (store' = store /\ c # "none")
         /\ (applying' = a /\ child' = c) \/ (applying' \in {"no", "stop"} /\ busy' = "idle")
         /\ applying' = "stop" => child' = "stop" \/ (a = "stop" /\ child' = c)
BY DEF Even!FlushPointers, Even!Apply, Even!Quiet, Even!Busy

(* While the engine has a run there is no hand-off, and the write that has   *)
(* told its child to stop waits for that child, which gets no run.           *)
Errands ==
  /\ busy # "idle" => handing = "no"
  /\ applying = "stop" => child = "stop"
  /\ busy = "run" => applying # "stop"

AsstInv == Even!StoreCurrent /\ Errands

LEMMA AsstInit == Even!Init => AsstInv
BY DEF Even!Init, AsstInv, Even!StoreCurrent, Even!Running, Errands

LEMMA AsstStep == ASSUME AsstInv, [Even!Next]_(Even!vars) PROVE AsstInv'
<1> USE DEF AsstInv, Even!StoreCurrent, Even!Running, Errands
<1>1. CASE Even!Launch \/ Even!ToolsLine \/ Even!GotState \/ Even!Started
  BY <1>1 DEF Even!Launch, Even!ToolsLine, Even!GotState, Even!Started, Even!warm, Even!mail, Even!memory
<1>2. CASE Even!ToolsWaited
  <2>1. Even!FlushPointers(child, IF applying = "respawn" THEN "no" ELSE applying) /\ UNCHANGED <<read, busy, handing>>
    BY <1>2 DEF Even!ToolsWaited
  <2> QED BY <2>1, WriteSafe
<1>3. CASE Even!Exit
  <2>1. /\ child \in {"start", "up"} /\ UNCHANGED <<read, handing>>
        /\ busy' = IF busy = "idle" THEN "idle" ELSE "cut"
        /\ \/ Even!FlushPointers("none", IF applying = "respawn" THEN "no" ELSE applying)
           \/ child' = "none" /\ UNCHANGED <<applying, store>>
    BY <1>3 DEF Even!Exit, Even!mail, Even!memory
  <2> QED BY <2>1, WriteSafe
<1>4. CASE Even!Stopped
  BY <1>4 DEF Even!Stopped
<1>5. CASE Even!Respawn \/ Even!Prompt \/ Even!MemoryWaited \/ Even!SpawnWaited
  BY <1>5 DEF Even!Respawn, Even!Prompt, Even!MemoryWaited, Even!SpawnWaited, Even!proc, Even!memory
<1>6. CASE Even!Submit \/ Even!Run
  BY <1>6 DEF Even!Submit, Even!Run, Even!proc, Even!memory
<1>7. CASE Even!RunEnds \/ Even!Cut
  <2>1. Even!FlushPointers(child, applying) /\ busy' = "idle" /\ UNCHANGED <<read, handing>>
    BY <1>7 DEF Even!RunEnds, Even!Cut
  <2> QED BY <2>1, WriteSafe
<1>8. CASE Even!Capped
  <2>1. Even!FlushPointers("stop", applying) /\ child = "up" /\ busy' = "idle" /\ UNCHANGED <<read, handing>>
    BY <1>8 DEF Even!Capped
  <2> QED BY <2>1, WriteSafe
<1>9. CASE Even!Note \/ Even!Hear \/ Even!Sent \/ Even!NotSent
  BY <1>9 DEF Even!Note, Even!Hear, Even!Sent, Even!NotSent, Even!proc, Even!memory
<1>10. CASE Even!Handoff \/ Even!Compacted \/ Even!NewSession \/ Even!HandedOff \/ Even!HandoffFails \/ Even!CompactedOnly
  BY <1>10 DEF Even!Handoff, Even!Compacted, Even!NewSession, Even!HandedOff, Even!HandoffFails,
               Even!CompactedOnly, Even!Busy, Even!proc, Even!memory
<1>11. CASE Even!Pointers
  BY <1>11 DEF Even!Pointers, Even!Quiet, Even!Busy, Even!Apply
<1>12. CASE Even!Restart
  BY <1>12 DEF Even!Restart
<1>13. CASE UNCHANGED Even!vars
  BY <1>13 DEF Even!vars, Even!proc, Even!memory
<1> QED BY <1>1, <1>2, <1>3, <1>4, <1>5, <1>6, <1>7, <1>8, <1>9, <1>10, <1>11, <1>12, <1>13
        DEF Even!Next, Even!ChildStep, Even!AskStep

(* The child never works with a memory other than the store's                *)
(* (memoryPointers: written while the engine is idle, and the child that     *)
(* read the older one is replaced), for any number of prompts, exits,        *)
(* hand-offs, pointer sets and restarts.                                     *)
THEOREM MemoryCurrent == Even!Spec => []Even!StoreCurrent
<1>1. Even!Init => AsstInv
  BY AsstInit
<1>2. AsstInv /\ [Even!Next]_(Even!vars) => AsstInv'
  BY AsstStep
<1>3. AsstInv => Even!StoreCurrent
  BY DEF AsstInv
<1> QED BY <1>1, <1>2, <1>3, PTL DEF Even!Spec

(* The bridge's errands leave the child's runs alone (assistant.mjs:20-23):  *)
(* hand-offs and memory writes find the engine idle.                         *)
THEOREM RunsUndisturbed == Even!Spec => []Even!RunsLeftAlone
<1>1. Even!Init => AsstInv
  BY AsstInit
<1>2. AsstInv /\ [Even!Next]_(Even!vars) => AsstInv'
  BY AsstStep
<1>3. AsstInv => Even!RunsLeftAlone
  BY DEF AsstInv, Errands, Even!RunsLeftAlone
<1> QED BY <1>1, <1>2, <1>3, PTL DEF Even!Spec

(* The notes: what the child has not read waits in the queue.                *)
NotesInv ==
  /\ notes \in Nat /\ queue \in Seq(Nat)
  /\ \A n \in (1 .. notes) \ heard : \E i \in DOMAIN queue : queue[i] = n

(* What is put at an end of the queue is in it.                              *)
LEMMA QueueGrows ==
  ASSUME NEW q \in Seq(Nat), NEW n \in Nat, NEW r, r = Append(q, n) \/ r = <<n>> \o q
  PROVE  r \in Seq(Nat) /\ \E i \in DOMAIN r : r[i] = n
<1>1. CASE r = Append(q, n)
  <2>1. r \in Seq(Nat) /\ Len(q) + 1 \in DOMAIN r /\ r[Len(q) + 1] = n
    BY <1>1
  <2> QED BY <2>1, Zenon
<1>2. CASE r = <<n>> \o q
  <2>1. r \in Seq(Nat) /\ 1 \in DOMAIN r /\ r[1] = n
    BY <1>2
  <2> QED BY <2>1, Zenon
<1> QED BY <1>1, <1>2

LEMMA NotesStep == ASSUME NotesInv, [Even!Next]_(Even!vars) PROVE NotesInv'
<1>1. CASE UNCHANGED <<notes, queue>> /\ heard \subseteq heard'
  BY <1>1 DEF NotesInv
<1>2. CASE notes' = notes + 1 /\ heard' = heard /\ (queue' = Append(queue, notes + 1) \/ queue' = <<notes + 1>> \o queue)
  <2>1. notes + 1 \in Nat /\ queue \in Seq(Nat) /\ \A n \in 1 .. notes + 1 : n \in 1 .. notes \/ n = notes + 1
    BY DEF NotesInv
  <2>2. queue' \in Seq(Nat) /\ (\E i \in DOMAIN queue' : queue'[i] = notes + 1)
        /\ \A m : (\E i \in DOMAIN queue : queue[i] = m) => (\E i \in DOMAIN queue' : queue'[i] = m)
    <3>1. notes + 1 \in Nat /\ queue \in Seq(Nat)
          /\ (queue' = Append(queue, notes + 1) \/ queue' = <<notes + 1>> \o queue)
      BY <2>1, <1>2
    <3>2. PICK n \in Nat : n = notes + 1
      BY <3>1
    <3>3. queue' = Append(queue, n) \/ queue' = <<n>> \o queue
      BY <3>1, <3>2
    <3>4. queue' \in Seq(Nat) /\ \E i \in DOMAIN queue' : queue'[i] = n
      BY <3>1, <3>3, QueueGrows
    <3>5. ASSUME NEW m, NEW i \in DOMAIN queue, queue[i] = m PROVE \E j \in DOMAIN queue' : queue'[j] = m
      <4>1. queue \in Seq(Nat) /\ Len(queue) \in Nat /\ DOMAIN queue = 1 .. Len(queue)
        BY <3>1
      <4>2. CASE queue' = Append(queue, n)
        <5>1. i \in DOMAIN queue' /\ queue'[i] = m
          BY <3>5, <4>1, <4>2
        <5> QED BY <5>1, Zenon
      <4>3. CASE queue' = <<n>> \o queue
        <5>1. i + 1 \in DOMAIN queue' /\ queue'[i + 1] = m
          BY <3>5, <4>1, <4>3
        <5> QED BY <5>1, Zenon
      <4> QED BY <3>3, <4>2, <4>3
    <3> QED BY <3>2, <3>4, <3>5, Zenon
  <2> QED BY <1>2, <2>1, <2>2 DEF NotesInv
<1>3. CASE Even!Note \/ Even!Cut \/ Even!HandedOff
  BY <1>1, <1>2, <1>3 DEF Even!Note, Even!Cut, Even!HandedOff, Even!NewNote
<1>4. CASE Even!Sent
  <2>1. sending \in heard /\ UNCHANGED <<notes, heard>>
        /\ queue' = IF queue # << >> /\ Head(queue) = sending THEN Tail(queue) ELSE queue
    BY <1>4 DEF Even!Sent
  <2>2. CASE queue' = Tail(queue) /\ queue # << >> /\ Head(queue) = sending
    <3>1. queue \in Seq(Nat) /\ Len(queue) \in Nat /\ DOMAIN queue = 1 .. Len(queue) /\ Len(queue) > 0
      BY <2>2 DEF NotesInv
    <3>2. queue' \in Seq(Nat) /\ DOMAIN queue' = 1 .. Len(queue) - 1 /\ \A i \in 1 .. Len(queue) - 1 : queue'[i] = queue[i + 1]
      BY <2>2, <3>1
    <3>3. queue[1] \in heard
      BY <2>1, <2>2, <3>1
    <3>4. ASSUME NEW n \in (1 .. notes) \ heard PROVE \E i \in DOMAIN queue' : queue'[i] = n
      <4>1. PICK i \in DOMAIN queue : queue[i] = n
        BY DEF NotesInv
      <4>2. i # 1 /\ i - 1 \in 1 .. Len(queue) - 1
        BY <3>1, <3>3, <4>1
      <4>3. (i - 1) + 1 = i
        BY <3>1
      <4>4. i - 1 \in DOMAIN queue' /\ queue'[i - 1] = n
        BY <3>2, <4>1, <4>2, <4>3
      <4> QED BY <4>4, Zenon
    <3> QED BY <2>1, <3>2, <3>4 DEF NotesInv
  <2> QED BY <1>1, <2>1, <2>2
<1>5. CASE Even!Restart
  <2> DEFINE left == (1 .. notes) \ heard
  <2>1. queue' \in [1 .. Even!Cardinality(left) -> left] /\ Even!Range(queue') = left /\ UNCHANGED <<notes, heard>>
    BY <1>5 DEF Even!Restart, Even!Listed
  <2>2. IsFiniteSet(left) /\ Cardinality(left) \in Nat
    <3>1. IsFiniteSet(1 .. notes)
      BY FS_Interval DEF NotesInv
    <3>2. IsFiniteSet(left)
      BY <3>1, FS_Difference
    <3> QED BY <3>2, FS_CardinalityType
  <2>3. Even!Cardinality(left) = Cardinality(left)
    BY DEF Cardinality, Even!Cardinality
  <2>4. left \subseteq Nat
    BY DEF NotesInv
  <2> HIDE DEF left
  <2>5. queue' \in [1 .. Cardinality(left) -> Nat]
    BY <2>1, <2>3, <2>4
  <2>6. queue' \in Seq(Nat)
    BY <2>2, <2>5
  <2>7. \A n \in left : \E i \in DOMAIN queue' : queue'[i] = n
    BY <2>1 DEF Even!Range
  <2> QED BY <2>1, <2>6, <2>7 DEF NotesInv, left
<1>6. CASE Even!Hear
  BY <1>1, <1>6 DEF Even!Hear
<1>7. CASE \/ Even!Launch \/ Even!GotState \/ Even!Started \/ Even!ToolsWaited \/ Even!Stopped \/ Even!Respawn
           \/ Even!MemoryWaited \/ Even!SpawnWaited \/ Even!Submit \/ Even!Run
  BY <1>1, <1>7 DEF Even!Launch, Even!GotState, Even!Started, Even!ToolsWaited, Even!Stopped, Even!Respawn,
       Even!MemoryWaited, Even!SpawnWaited, Even!Submit, Even!Run, Even!mail
<1>8. CASE \/ Even!ToolsLine \/ Even!Exit \/ Even!Prompt \/ Even!RunEnds \/ Even!Capped \/ Even!NotSent
           \/ Even!Handoff \/ Even!Compacted \/ Even!NewSession \/ Even!HandoffFails \/ Even!CompactedOnly
           \/ Even!Pointers \/ UNCHANGED Even!vars
  BY <1>1, <1>8 DEF Even!ToolsLine, Even!Exit, Even!Prompt, Even!RunEnds, Even!Capped, Even!NotSent,
       Even!Handoff, Even!Compacted, Even!NewSession, Even!HandoffFails, Even!CompactedOnly,
       Even!Pointers, Even!mail, Even!vars
<1> QED BY <1>3, <1>4, <1>5, <1>6, <1>7, <1>8 DEF Even!Next, Even!ChildStep, Even!AskStep

(* A note is never lost: until the child has read its file, it waits in the  *)
(* queue, whatever hand-offs, exits and restarts come between.               *)
THEOREM NotesStay == Even!Spec => []Even!NotesKept
<1>1. Even!Init => NotesInv
  BY DEF Even!Init, NotesInv
<1>2. NotesInv /\ [Even!Next]_(Even!vars) => NotesInv'
  BY NotesStep
<1>3. NotesInv => Even!NotesKept
  BY DEF NotesInv, Even!NotesKept, Even!Range
<1> QED BY <1>1, <1>2, <1>3, PTL DEF Even!Spec
===============================================================================
