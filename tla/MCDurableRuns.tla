----------------------------- MODULE MCDurableRuns -----------------------------
(* How durable sessions run, in one run of four instances: prompts of         *)
(* lets-code sessions that cross while they are admitted, run and tried again *)
(* (`calls`, the instance this module extends), and fewer of them where a     *)
(* child crashes and the bridge restarts (`mishaps`); how views of a durable  *)
(* conversation fold into frames (`folds`: three entries, nothing fails); and *)
(* watches of it that die, restarts and replays (`faults`: two entries).      *)
(* `part` says which runs; the others stay in their initial states.           *)
EXTENDS LcEngine

CONSTANT FewCalls

VARIABLES part, entries, run, failure, inbox, partial, given, ring, state, live, tr, work,
          due, carried, tries, call, clients, seed, recent, base, lost, seen, faults

Mishaps == INSTANCE LcEngine WITH Calls <- FewCalls, MaxMishaps <- 2
Folds == INSTANCE DurableWatch WITH
  MaxEntries <- 3, TextLen <- 1, MaxTries <- 1, MaxFaults <- 0, Continues <- FALSE,
  Clients <- {"phone"}, tasks <- given
Faults == INSTANCE DurableWatch WITH
  MaxEntries <- 2, TextLen <- 1, MaxTries <- 1, MaxFaults <- 1, Continues <- FALSE,
  Clients <- {"phone"}, tasks <- given

watchVars == <<entries, run, failure, inbox, partial, given, ring, state, live, tr, work,
               due, carried, tries, call, clients, seed, recent, base, lost, seen, faults>>
allVars == <<part, vars, watchVars>>

AllInit ==
  /\ part \in {"calls", "mishaps", "folds", "faults"}
  /\ IF part = "mishaps" THEN Mishaps!Init ELSE Init
  /\ Folds!Init
CallsNext == part = "calls" /\ Next /\ UNCHANGED <<part, watchVars>>
MishapsNext == part = "mishaps" /\ Mishaps!Next /\ UNCHANGED <<part, watchVars>>
FoldsNext == part = "folds" /\ Folds!Next /\ UNCHANGED <<part, vars>>
FaultsNext == part = "faults" /\ Faults!Next /\ UNCHANGED <<part, vars>>
AllSpec == AllInit /\ [][CallsNext \/ MishapsNext \/ FoldsNext \/ FaultsNext]_allVars

--------------------------------------------------------------------------------
(* The ring follows the conversation: nothing twice, nothing missed, and the *)
(* state that is polled is the conversation's (DurableWatch).                *)
RingFollows == part \in {"folds", "faults"} => Folds!TypeOK /\ Folds!RingFollows
================================================================================
