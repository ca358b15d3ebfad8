---------------------------- MODULE SessionLists ----------------------------
(***************************************************************************)
(* GET /api/sessions (ext-router.mjs), the phone's one list of every kind   *)
(* of session, and with it session-twins.mjs and rc-transcripts.mjs: a live *)
(* Remote Control session also exists as a local Claude transcript, whose   *)
(* row is dropped for the Remote Control one.  The lists are asked for one  *)
(* after the other, and the sessions go on meanwhile.                       *)
(***************************************************************************)
EXTENDS Integers, Sequences, SequencesExt, FiniteSets, FiniteSetsExt

CONSTANTS Claude,    (* Claude conversations: each has a local transcript   *)
          Agents,    (* durable agents                                      *)
          Overseer,  (* the overseer's session, pinned first                *)
          CwdOf,     (* the directory of each of them                       *)
          Filters,   (* the project filters asked for; None for none        *)
          Limit,     (* the rows asked for                                  *)
          Headroom,  (* local rows fetched beyond the limit (10)            *)
          MaxClock,  (* bound on the timestamps                             *)
          MaxRc,     (* bound on the Remote Control ids                     *)
          Happens    (* "reconnect": a session's id changes during a list   *)

VARIABLES clock,   (* the newest timestamp                                  *)
          at,      (* the last activity of each session                     *)
          rc,      (* the live Remote Control id of each conversation       *)
          marks,   (* the ids its transcript was marked with, oldest first  *)
          used,    (* Remote Control ids so far                             *)
          req      (* the request: its step, filter, rows and answer        *)

slVars == <<clock, at, rc, marks, used, req>>

None == "none"
Sessions == Claude \union Agents \union {Overseer}
Idle == [step |-> "idle", cwd |-> None, local |-> {}, remote |-> {}, durable |-> {}, had |-> {}, listed |-> <<>>]

Row(s, via, id) == [of |-> s, via |-> via, id |-> id, at |-> at[s], cwd |-> IF via = "rc" THEN None ELSE CwdOf[s]]
Newest(rows, n) == LET s == SetToSortSeq(rows, LAMBDA x, y : x.at > y.at) IN IF Len(s) > n THEN SubSeq(s, 1, n) ELSE s
Fits(row) == req.cwd = None \/ row.cwd = req.cwd

Init ==
  /\ clock = Cardinality(Sessions)
  /\ at \in {f \in [Sessions -> 1..Cardinality(Sessions)] : \A s, t \in Sessions : s # t => f[s] # f[t]}
  /\ rc = [c \in Claude |-> 0] /\ marks = [c \in Claude |-> <<>>] /\ used = 0
  /\ req = Idle

-----------------------------------------------------------------------------
(* listCcSessions: the newest transcripts, then those of the project.       *)
Scan ==
  /\ req.step = "idle"
  /\ \E f \in Filters :
       LET rows == ToSet(Newest({Row(c, "local", 0) : c \in Claude}, Limit + Headroom))
       IN  req' = [Idle EXCEPT !.step = "rc", !.cwd = f, !.had = {s \in Sessions : f \in {None, CwdOf[s]}},
                               !.local = {r \in rows : f \in {None, r.cwd}}]
  /\ UNCHANGED <<clock, at, rc, marks, used>>

(* The Remote Control list: the live ones, of every project.                *)
AskRemote ==
  /\ req.step = "rc"
  /\ req' = [req EXCEPT !.step = "durable", !.remote = ToSet(Newest({Row(c, "rc", rc[c]) : c \in {x \in Claude : rc[x] # 0}}, Limit))]
  /\ UNCHANGED <<clock, at, rc, marks, used>>

(* The agents of the project, with the overseer among them.                 *)
AskDurable ==
  /\ req.step = "durable"
  /\ LET agents == {r \in {Row(a, "durable", 0) : a \in Agents} : Fits(r)}
         head == {r \in {[Row(Overseer, "durable", 0) EXCEPT !.at = MaxClock + 1]} : Fits(r)}
     IN  req' = [req EXCEPT !.step = "merge", !.durable = ToSet(Newest(head \union agents, Limit))]
  /\ UNCHANGED <<clock, at, rc, marks, used>>

(* Slip: the first mark.                                                    *)
FirstMark(c) == IF marks[c] = <<>> THEN 0 ELSE Head(marks[c])
(* findBridgeSessionId: the last mark of the transcript.                    *)
TwinOf(c) == IF marks[c] = <<>> THEN 0 ELSE Last(marks[c])

(* Slip: any marked transcript is dropped.                                  *)
MarkedDropped(local, remote) == {r \in local : TwinOf(r.of) = 0}
(* dropRcTwins: the local row goes when its Remote Control row is there.    *)
Kept(local, remote) == {r \in local : ~\E x \in remote : x.id = TwinOf(r.of)}
(* The Remote Control row borrows its twin's directory.                     *)
Borrowed(local, remote) ==
  {LET twins == {r \in local : TwinOf(r.of) = x.id} IN IF twins = {} THEN x ELSE [x EXCEPT !.cwd = (CHOOSE r \in twins : TRUE).cwd]
     : x \in remote}

(* Slip: the filter comes before the borrowed directory.                    *)
FilteredFirst(local, remote) == Borrowed(local, {x \in remote : Fits(x)})
Filtered(local, remote) == {x \in Borrowed(local, remote) : Fits(x)}

(* Slip: the overseer's row is pinned on top of a full page.                *)
PagePinned(pins, others) ==
  pins \o (IF Len(others) > Limit THEN SubSeq(others, 1, Limit) ELSE others)
Page(pins, others) ==
  IF Len(pins \o others) > Limit THEN SubSeq(pins \o others, 1, Limit) ELSE pins \o others

Merge ==
  /\ req.step = "merge"
  /\ LET rows == Kept(req.local, req.remote) \union Filtered(req.local, req.remote) \union req.durable
         sorted == Newest(rows, Cardinality(rows))
     IN  req' = [req EXCEPT !.step = "done",
                            !.listed = Page(SelectSeq(sorted, LAMBDA r : r.of = Overseer),
                                            SelectSeq(sorted, LAMBDA r : r.of # Overseer))]
  /\ UNCHANGED <<clock, at, rc, marks, used>>

Answered ==
  /\ req.step = "done" /\ req' = Idle
  /\ UNCHANGED <<clock, at, rc, marks, used>>

-----------------------------------------------------------------------------
(* A session is written to.                                                 *)
Writes(s) ==
  /\ clock < MaxClock /\ clock' = clock + 1
  /\ at' = [at EXCEPT ![s] = clock']
  /\ UNCHANGED <<rc, marks, used, req>>

(* A conversation connects to Remote Control and its transcript is marked;  *)
(* one that is live reconnects with a new id.                               *)
Connects(c) ==
  /\ used < MaxRc /\ used' = used + 1
  /\ marks[c] # <<>> => req.step = "idle" \/ "reconnect" \in Happens
  /\ rc' = [rc EXCEPT ![c] = used'] /\ marks' = [marks EXCEPT ![c] = Append(@, used')]
  /\ UNCHANGED <<clock, at, req>>

Disconnects(c) ==
  /\ rc[c] # 0 /\ rc' = [rc EXCEPT ![c] = 0]
  /\ UNCHANGED <<clock, at, marks, used, req>>

Next ==
  \/ Scan \/ AskRemote \/ AskDurable \/ Merge \/ Answered
  \/ \E s \in Claude \union Agents : Writes(s)
  \/ \E c \in Claude : Connects(c) \/ Disconnects(c)

Spec == Init /\ [][Next]_slVars

-----------------------------------------------------------------------------
TypeOK ==
  /\ clock \in 0..MaxClock /\ used \in 0..MaxRc
  /\ at \in [Sessions -> 1..MaxClock] /\ rc \in [Claude -> 0..MaxRc]
  /\ Len(req.listed) <= Limit

Listed == {req.listed[i].of : i \in DOMAIN req.listed}

(* One conversation is one row: never as a Remote Control session and as    *)
(* the local transcript of the same, whatever connected, reconnected before *)
(* or ended while the lists were read.                                      *)
NoConversationTwice == Cardinality(Listed) = Len(req.listed)

(* While the list has room, no session of the project is missing: neither   *)
(* one whose Remote Control ended meanwhile nor one known by its local      *)
(* directory only.                                                          *)
NoneMissing == req.step = "done" /\ Len(req.listed) < Limit => req.had \subseteq Listed
=============================================================================
