----------------------------- MODULE CoreMemory -----------------------------
(***************************************************************************)
(* The assistant's core memory on disk (providers/durable/lc/assistant.mjs: *)
(* checkCoreMemory, writeKbPointers): memory.jsonl and memory.md, which the *)
(* bridge, lets-code and the user all write.  A set of knowledge-base       *)
(* pointers replaces the pointers of the store in their places; memory.md is *)
(* written before memory.jsonl, and lets-code reads an edited memory.md back *)
(* when it starts.  An entry is its id, its gist and whether it is a pointer.*)
(***************************************************************************)
EXTENDS Integers, Sequences, SequencesExt, FiniteSets

CONSTANTS Gists,     (* numbers: a gist's hash is its own number            *)
          MaxNotes,  (* bound on the notes of the agent and the user        *)
          MaxPuts,   (* bound on the sets of pointers                       *)
          Happens    (* "crash": between the two writes; "edit": the user   *)
                     (* edits memory.md; "tear": a line becomes unreadable  *)

VARIABLES jsonl, md,  (* the entries of the two files                       *)
          newer,      (* memory.md is newer by more than the slack          *)
          torn,       (* memory.jsonl has a line that cannot be read        *)
          put,        (* the set being written: its step and pointers       *)
          last,       (* the pointers of the last set that was done         *)
          owed,       (* the notes written and not taken out by the user    *)
          notes, puts

cmVars == <<jsonl, md, newer, torn, put, last, owed, notes, puts>>

NoPut == [at |-> "none", set |-> <<>>]
Entry(id, gist, kb) == [id |-> id, gist |-> gist, kb |-> kb]
IsKb(e) == e.kb
Ids(s) == {s[i].id : i \in DOMAIN s}
Kb(s) == SelectSeq(s, IsKb)
Own(s) == SelectSeq(s, LAMBDA e : ~e.kb)
GistsOf(s) == [i \in DOMAIN s |-> s[i].gist]

Init ==
  /\ jsonl = <<>> /\ md = <<>> /\ newer = FALSE /\ torn = FALSE
  /\ put = NoPut /\ last = <<>> /\ owed = <<>> /\ notes = 0 /\ puts = 0

-----------------------------------------------------------------------------
(* The id of a gist, hashed again while another entry has it.               *)
IdFor(taken, gist) == CHOOSE n \in gist..(gist + Cardinality(taken)) : /\ n \notin taken
                                                                      /\ \A k \in gist..(n-1) : k \in taken

(* Slip: ids are kept apart from the other pointers' only.                  *)
FreshAmong(rows, gists) ==
  FoldLeft(LAMBDA s, g : Append(s, Entry(IdFor(Ids(s), g), g, TRUE)), <<>>, gists)
Fresh(rows, gists) ==
  FoldLeft(LAMBDA s, g : Append(s, Entry(IdFor(Ids(s) \union Ids(Own(rows)), g), g, TRUE)), <<>>, gists)

(* Slip: what does not fit the old places is not appended.                  *)
InPlaceOnly(rows, fresh) ==
  LET nth(i) == Len(Kb(SubSeq(rows, 1, i)))
  IN  SelectSeq([i \in DOMAIN rows |-> IF ~rows[i].kb THEN rows[i]
                                       ELSE IF nth(i) <= Len(fresh) THEN fresh[nth(i)] ELSE Entry(0, 0, TRUE)],
                LAMBDA e : e.id # 0)
(* The n-th pointer goes where the n-th old one was; extra places go, extra *)
(* pointers are appended.                                                   *)
InPlace(rows, fresh) ==
  LET nth(i) == Len(Kb(SubSeq(rows, 1, i)))
      old == Len(Kb(rows))
  IN  SelectSeq([i \in DOMAIN rows |-> IF ~rows[i].kb THEN rows[i]
                                       ELSE IF nth(i) <= Len(fresh) THEN fresh[nth(i)] ELSE Entry(0, 0, TRUE)],
                LAMBDA e : e.id # 0)
      \o SubSeq(fresh, old + 1, Len(fresh))

(* Slip: a memory.md that was edited is written over.                       *)
Readable == ~torn
(* checkCoreMemory: 409 when memory.md is newer or a line is unreadable.    *)
Rewritable == ~newer /\ ~torn

(* writeKbPointers: nothing is written for a set that is unchanged; else    *)
(* memory.md is written first.                                              *)
Put ==
  /\ put = NoPut /\ puts < MaxPuts /\ puts' = puts + 1
  /\ \E gists \in UNION {[1..n -> Gists] : n \in 0..2} :
       LET entries == InPlace(jsonl, Fresh(jsonl, gists))
       IN  IF ~Rewritable THEN UNCHANGED <<md, newer, put, last>>
           ELSE IF Kb(jsonl) = Fresh(jsonl, gists) THEN last' = gists /\ UNCHANGED <<md, newer, put>>
           ELSE /\ md' = entries /\ newer' = TRUE
                /\ put' = [at |-> "md", set |-> gists] /\ UNCHANGED last
  /\ UNCHANGED <<jsonl, torn, owed, notes>>

PutJsonl ==
  /\ put.at = "md"
  /\ jsonl' = md /\ newer' = FALSE /\ put' = NoPut /\ last' = put.set
  /\ UNCHANGED <<md, torn, owed, notes, puts>>

Crash ==
  /\ "crash" \in Happens /\ put.at = "md" /\ put' = NoPut /\ last' = put.set
  /\ UNCHANGED <<jsonl, md, newer, torn, owed, notes, puts>>

-----------------------------------------------------------------------------
(* lets-code starts: a newer memory.md is read back; a line without an id   *)
(* gets one.                                                                *)
ReadBack ==
  /\ put = NoPut /\ newer /\ newer' = FALSE
  /\ jsonl' = FoldLeft(LAMBDA s, e : Append(s, [e EXCEPT !.id = IF @ = 0 THEN IdFor(Ids(s) \union Ids(md), e.gist) ELSE @]), <<>>, md)
  /\ md' = jsonl' /\ torn' = FALSE
  /\ UNCHANGED <<put, last, owed, notes, puts>>

(* The agent remembers something: lets-code saves both files, the lines it  *)
(* cannot read dropped.                                                     *)
Remembers ==
  /\ put = NoPut /\ ~newer /\ notes < MaxNotes /\ notes' = notes + 1
  /\ \E g \in Gists : LET e == Entry(IdFor(Ids(jsonl), g), g, FALSE)
                      IN  jsonl' = Append(jsonl, e) /\ md' = jsonl' /\ owed' = Append(GistsOf(Own(jsonl)), g)
  /\ torn' = FALSE
  /\ UNCHANGED <<newer, put, last, puts>>

(* The user adds a line to memory.md or takes one of the notes out.         *)
Edits ==
  /\ "edit" \in Happens /\ put = NoPut /\ notes < MaxNotes /\ notes' = notes + 1
  /\ newer' = TRUE
  /\ \/ \E g \in Gists : md' = Append(md, Entry(0, g, FALSE))
     \/ \E i \in DOMAIN md : ~md[i].kb /\ md' = RemoveAt(md, i)
  /\ owed' = GistsOf(Own(md'))
  /\ UNCHANGED <<jsonl, torn, put, last, puts>>

Tears ==
  /\ "tear" \in Happens /\ put = NoPut /\ ~torn /\ jsonl # <<>> /\ torn' = TRUE
  /\ UNCHANGED <<jsonl, md, newer, put, last, owed, notes, puts>>

Next == Put \/ PutJsonl \/ Crash \/ ReadBack \/ Remembers \/ Edits \/ Tears
Spec == Init /\ [][Next]_cmVars

-----------------------------------------------------------------------------
TypeOK ==
  /\ newer \in BOOLEAN /\ torn \in BOOLEAN /\ notes \in 0..MaxNotes /\ puts \in 0..MaxPuts
  /\ \A i \in DOMAIN jsonl : jsonl[i].id > 0 /\ jsonl[i].gist \in Gists

(* The file that counts holds the agent's and the user's notes in their     *)
(* order, whatever sets of pointers were written, refused or cut off, and   *)
(* no two entries have one id.                                              *)
MemoryKept ==
  /\ GistsOf(Own(IF newer THEN md ELSE jsonl)) = owed
  /\ Cardinality(Ids(jsonl)) = Len(jsonl)

(* A set that was written is the store's set of pointers, in its order,     *)
(* until another one is begun; one that was cut off between the files is,   *)
(* once lets-code has read memory.md back.                                  *)
PointersStand == puts > 0 /\ ~newer /\ put = NoPut => GistsOf(Kb(jsonl)) = last
=============================================================================
