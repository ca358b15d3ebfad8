------------------------------ MODULE PaneDelivery ------------------------------
(***************************************************************************)
(* Messages typed into terminals (pi/provider.mjs, cc-local.mjs, detect.mjs): *)
(* the overseer's, one line each, and the phone's prompts to a pi session a *)
(* terminal drives.  The terminals of one folder, each running a program    *)
(* (pi, or Claude Code) on a conversation, and their users are external.    *)
(***************************************************************************)
EXTENDS Naturals, Sequences, FiniteSets, FiniteSetsExt, SequencesExt

CONSTANTS Sids,      (* conversations of the folder                          *)
          Messages,  (* each sent once                                       *)
          Routes,    (* who sends: "overseer", "phone"                       *)
          MaxMoves,  (* bound on what the users do                           *)
          Happens    (* what may happen besides: "overlap" (two messages to  *)
                     (* one folder at a time), "outside" (a terminal without *)
                     (* a pane beside one with), "late" (the user acts after *)
                     (* the last look at the screen), "stale" (the newest    *)
                     (* transcript is of no terminal that runs)              *)

Terms == 1 .. 2      (* in tmux's order *)
None == "none"
NoTerm == 0
User == "user"       (* what a user types *)

VARIABLES
  program,  (* pi or claude                                                 *)
  term,     (* each terminal: on (the program runs; else a shell), tmux, the *)
            (* conversation, shown (its prompts are on the screen), known    *)
            (* (Claude Code's record names it), menu (it asks something)     *)
  input,    (* typed into each and not submitted                            *)
  unread,   (* submitted, and not read yet: what is typed meanwhile joins it *)
  last,     (* paneLastDelivery: the message delivered a moment ago         *)
  call,     (* each message: its step, route, conversation, terminal and    *)
            (* the delivery it waits after                                  *)
  lines,    (* the lines read: what they hold, and the conversation or      *)
            (* "shell"                                                      *)
  moves

world == <<program, term, moves>>
panes == <<input, unread, lines>>
vars == <<world, panes, last, call>>

New == [at |-> "new", route |-> "overseer", sid |-> None, to |-> NoTerm, after |-> None]

Init ==
  /\ program \in {"pi", "claude"}
  /\ term \in [Terms -> [on : {TRUE}, tmux : BOOLEAN, conv : Sids, shown : BOOLEAN, known : BOOLEAN,
                         menu : {FALSE}]]
  /\ \A t \in Terms : term[t].known => program = "claude"
  /\ \A t \in Terms \ {1} : term[t].conv # term[1].conv     (* each drives its own *)
  /\ "outside" \in Happens \/ term[1].tmux = term[2].tmux
  /\ input = [t \in Terms |-> << >>] /\ unread = [t \in Terms |-> << >>] /\ lines = {}
  /\ last = [t \in Terms |-> None] /\ call = [m \in Messages |-> New] /\ moves = 0

-----------------------------------------------------------------------------
(* Which terminal runs a conversation.                                      *)

External == {t \in Terms : term[t].on}
Panes == {t \in External : term[t].tmux}
FirstPane == Min(Panes \cup {3}) % 3       (* NoTerm without one *)

(* The conversation of the folder's newest transcript.                      *)
Newest == IF "stale" \in Happens \/ External = {} THEN Sids ELSE {term[t].conv : t \in External}

ScreenShows(t, sid) == term[t].shown /\ term[t].conv = sid

(* The only element, or NoTerm.                                             *)
Only(S) == IF Cardinality(S) = 1 THEN Max(S) ELSE NoTerm

(* externalOwnsSession: by the screen of the first pane, else by the newest *)
(* transcript of the folder.                                                *)
OwnsSession(sid, newest) ==
  IF FirstPane # NoTerm /\ term[FirstPane].shown THEN ScreenShows(FirstPane, sid) ELSE newest = sid

PiTarget(sid, newest) ==
  IF External = {} \/ ~OwnsSession(sid, newest) THEN NoTerm
  ELSE IF Cardinality(Panes) < 2 THEN Only(Panes)
  ELSE Only({t \in Panes : ScreenShows(t, sid)})

(* Claude Code's own record, else the screen.                               *)
Recorded == {t \in External : term[t].known}
Drivers(sid) == {t \in External : t \in Recorded => term[t].conv = sid}
ClaudeTarget(sid) ==
  LET owners == Drivers(sid) \cap Recorded
  IN  IF owners # {} THEN Only(owners \cap Panes)
      ELSE Only({t \in Drivers(sid) \cap Panes : ScreenShows(t, sid)})

(* Slip: of several terminals, the first.                                   *)
TargetFirst(sid, newest) ==
  IF External = {} \/ (program = "pi" /\ ~OwnsSession(sid, newest)) THEN NoTerm ELSE FirstPane

Target(sid, newest) == IF program = "pi" THEN PiTarget(sid, newest) ELSE ClaudeTarget(sid)

(* The phone's prompt is typed into the first pane of the folder ...        *)
PiPhoneTarget(sid, newest) == IF External # {} /\ OwnsSession(sid, newest) THEN FirstPane ELSE NoTerm

(* ... or into the one a record names.                                      *)
ClaudePhoneTarget(sid, newest) ==
  LET owners == Drivers(sid) \cap Recorded
  IN  IF owners # {} THEN Only(owners \cap Panes)
      ELSE IF Drivers(sid) # {} /\ FirstPane # NoTerm /\ (ScreenShows(FirstPane, sid) \/ newest = sid)
           THEN FirstPane ELSE NoTerm

PhoneTarget(sid, newest) ==
  IF program = "pi" THEN PiPhoneTarget(sid, newest) ELSE ClaudePhoneTarget(sid, newest)

(* No terminal runs it: the bridge's own pi, or the official router.        *)
Undriven(sid, newest) ==
  IF program = "pi" THEN External = {} \/ ~OwnsSession(sid, newest) ELSE Drivers(sid) = {}

-----------------------------------------------------------------------------
(* deliverToTerminal, and the terminal branch of pi's prompt.               *)

InFlight == {m \in Messages : call[m].at \notin {"new", "done", "blocked", "elsewhere"}}

(* Found, it waits when the pane had a delivery a moment ago; a Claude      *)
(* Code terminal has read what came before.                                 *)
Found(m, route, sid, t) ==
  LET gap == t # NoTerm /\ program = "pi" /\ last[t] # None
  IN  call' = [call EXCEPT ![m] =
                 [at |-> IF t = NoTerm THEN "blocked" ELSE IF gap THEN "gap" ELSE "check",
                  route |-> route, sid |-> sid, to |-> t, after |-> IF gap THEN last[t] ELSE None]]

Deliver(m, sid) ==
  /\ "overseer" \in Routes /\ call[m] = New
  /\ "overlap" \in Happens \/ InFlight = {}
  /\ program = "claude" => \A t \in Terms : unread[t] = << >>
  /\ \E newest \in Newest : Found(m, "overseer", sid, Target(sid, newest))
  /\ UNCHANGED <<world, panes, last>>

PhonePrompt(m, sid) ==
  /\ "phone" \in Routes /\ call[m] = New
  /\ "overlap" \in Happens \/ InFlight = {}
  /\ program = "claude" => \A t \in Terms : unread[t] = << >>
  /\ \E newest \in Newest :
       IF Undriven(sid, newest)
       THEN call' = [call EXCEPT ![m] = [New EXCEPT !.at = "elsewhere", !.route = "phone", !.sid = sid]]
       ELSE Found(m, "phone", sid, PhoneTarget(sid, newest))
  /\ UNCHANGED <<world, panes, last>>

(* Slip: no wait after the delivery before.                                 *)
AwakeAtOnce(m) == TRUE

(* The gap is long enough for that delivery to have been read.              *)
Awake(m) == \A t \in Terms : call[m].after \notin Range(unread[t])

Wake(m) ==
  /\ call[m].at = "gap" /\ Awake(m)
  /\ call' = [call EXCEPT ![m].at = "check"]
  /\ UNCHANGED <<world, panes, last>>

GapOver(t) ==
  /\ last[t] # None /\ last[t] \notin Range(unread[t])
  /\ last' = [last EXCEPT ![t] = None]
  /\ UNCHANGED <<world, panes, call>>

(* paneCheck: the program still runs there.                                 *)
StillRuns(m) == term[call[m].to].on

Check(m) ==
  /\ call[m].at = "check"
  /\ call' = [call EXCEPT ![m].at =
                IF call[m].route = "phone" THEN "type" ELSE IF StillRuns(m) THEN "look" ELSE "blocked"]
  /\ UNCHANGED <<world, panes, last>>

(* Slip: whatever the program shows is typed into.                          *)
ReadyAlways(t) == TRUE

(* inputReady: its own input box, with nothing in it.                       *)
InputReady(t) == term[t].on /\ ~term[t].menu /\ input[t] = << >>

Look(m) ==
  /\ call[m].at = "look"
  /\ call' = [call EXCEPT ![m].at = IF InputReady(call[m].to) THEN "type" ELSE "blocked"]
  /\ UNCHANGED <<world, panes, last>>

(* tmuxDeliver: the text, then Enter.                                       *)
Type(m) ==
  /\ call[m].at = "type"
  /\ input' = [input EXCEPT ![call[m].to] = Append(@, m)]
  /\ call' = [call EXCEPT ![m].at = "enter"]
  /\ UNCHANGED <<world, unread, lines, last>>

Enter(m) ==
  /\ call[m].at = "enter"
  /\ LET t == call[m].to
     IN  /\ unread' = [unread EXCEPT ![t] = @ \o input[t]]
         /\ input' = [input EXCEPT ![t] = << >>]
         /\ last' = [last EXCEPT ![t] = IF program = "pi" THEN m ELSE None]
  /\ call' = [call EXCEPT ![m].at = "done"]
  /\ UNCHANGED <<world, lines>>

-----------------------------------------------------------------------------
(* The terminals.                                                           *)

Reads(t) ==
  /\ unread[t] # << >>
  /\ lines' = lines \cup {[holds |-> Range(unread[t]),
                           by |-> IF ~term[t].on THEN "shell" ELSE IF term[t].menu THEN "menu" ELSE term[t].conv]}
  /\ unread' = [unread EXCEPT ![t] = << >>]
  /\ UNCHANGED <<world, input, last, call>>

(* The user acts; not between a look at the screen and the Enter.           *)
Free(t) ==
  /\ moves < MaxMoves /\ moves' = moves + 1 /\ unread[t] = << >>
  /\ "late" \in Happens \/ \A m \in Messages : call[m].to = t => call[m].at \notin {"look", "type", "enter"}

Drafts(t) ==
  /\ Free(t) /\ term[t].on /\ input[t] = << >>
  /\ input' = [input EXCEPT ![t] = <<User>>]
  /\ UNCHANGED <<program, term, unread, lines, last, call>>

(* It quits, asks something, scrolls, or goes on with another conversation: *)
(* not while a message is on its way to it.                                 *)
Changes(t) ==
  /\ Free(t) /\ input[t] = << >>
  /\ \/ term' = [term EXCEPT ![t].on = ~@, ![t].menu = FALSE]
     \/ term[t].on /\ term' = [term EXCEPT ![t].menu = ~@]
     \/ term[t].on /\ term' = [term EXCEPT ![t].shown = ~@]
     \/ /\ term[t].on /\ \A m \in InFlight : call[m].to # t
        /\ \E s \in Sids \ {term[u].conv : u \in Terms} : term' = [term EXCEPT ![t].conv = s]
  /\ UNCHANGED <<program, panes, last, call>>

Next ==
  \/ \E m \in Messages :
       \/ \E sid \in Sids : Deliver(m, sid) \/ PhonePrompt(m, sid)
       \/ Wake(m) \/ Check(m) \/ Look(m) \/ Type(m) \/ Enter(m)
  \/ \E t \in Terms : GapOver(t) \/ Reads(t) \/ Drafts(t) \/ Changes(t)

Spec == Init /\ [][Next]_vars

-----------------------------------------------------------------------------
TypeOK ==
  /\ \A m \in Messages : /\ call[m].at \in {"new", "gap", "check", "look", "type", "enter", "done", "blocked", "elsewhere"}
                         /\ call[m].at \in {"new", "blocked", "elsewhere"} \/ call[m].to \in Terms
  /\ \A t \in Terms : last[t] \in Messages \cup {None} /\ Range(input[t]) \subseteq Messages \cup {User}

Of(l, route) == {m \in l.holds \cap Messages : call[m].route = route}

(* An overseer's message is read alone, by the program that runs its        *)
(* conversation: no shell executes it, no menu or dialog takes it for an    *)
(* answer, no user's draft or other message is submitted with it            *)
(* (pi/provider.mjs:558-579; cc-local.mjs:334-337).                         *)
ReadAlone ==
  \A l \in lines : \A m \in Of(l, "overseer") : l.holds = {m} /\ l.by = call[m].sid

(* "two terminals in one folder never cross" (pi/provider.mjs:231-232): what is *)
(* typed is never read by a program on another conversation.                *)
NeverCrosses == \A l \in lines : \A m \in Of(l, "overseer") : l.by \in Sids => l.by = call[m].sid

(* "Serialize rapid deliveries per pane: back-to-back glasses prompts would *)
(* otherwise merge into one line" (pi/provider.mjs:223-224).                *)
PromptsApart == \A l \in lines : Cardinality(Of(l, "phone")) <= 1
=============================================================================
