----------------------------- MODULE Workspaces -----------------------------
(***************************************************************************)
(* Where an agent may work (providers/durable/provider.mjs: forbiddenDirs,  *)
(* usableRoots, checkAgentCwd, resolveAgentCwd).  The wanted directory is   *)
(* resolved through symlinks and checked, made when it is missing, resolved *)
(* and checked again; other programs change the file system in between.     *)
(* A path is a sequence of names; fs gives what stands at each path below / *)
(* that the model follows, anything else is missing.                        *)
(***************************************************************************)
EXTENDS Integers, Sequences, SequencesExt, FiniteSets

CONSTANTS Calls,     (* prompts and proposals for a new agent               *)
          Wants,     (* the directories asked for                           *)
          Configured,(* EVEN_BRIDGE_AGENT_ROOTS (or the default one)        *)
          Kept,      (* the bridge's checkout, tool and config trees, PATH  *)
          HomeDir,
          Fixed,     (* directories nothing changes                         *)
          Open,      (* paths other programs change                         *)
          Targets,   (* where their links point                             *)
          Hops,      (* bound on the names and links of one path            *)
          MaxSwaps   (* bound on the changes of other programs              *)

VARIABLES fs, usable, place, swaps

wsVars == <<fs, usable, place, swaps>>

Lost == <<"?">>
File(is) == [is |-> is, to |-> <<>>]
Files == {File("none"), File("dir"), File("file")} \union {[is |-> "link", to |-> t] : t \in Targets}
At(files, p) == IF p = <<>> THEN File("dir") ELSE IF p \in DOMAIN files THEN files[p] ELSE File("none")

-----------------------------------------------------------------------------
(* realpathSync, or Lost where the path does not exist.                     *)
RealPath(files, path) ==
  LET walk[n \in 0..Hops, at \in Seq(STRING), todo \in Seq(STRING)] ==
        IF todo = <<>> THEN at
        ELSE LET next == Append(at, Head(todo))
                 here == At(files, next)
             IN  IF n = 0 \/ here.is = "none" \/ (here.is = "file" /\ Len(todo) > 1) THEN Lost
                 ELSE IF here.is = "link" THEN walk[n - 1, <<>>, here.to \o Tail(todo)]
                 ELSE walk[n - 1, next, Tail(todo)]
  IN  walk[Hops, <<>>, path]

Exists(files, p) == RealPath(files, p) # Lost
IsDir(files, p) == Exists(files, p) /\ At(files, RealPath(files, p)).is = "dir"

(* realish: the deepest ancestor that exists, resolved, and the rest.       *)
Realish(files, p) ==
  LET n == CHOOSE k \in 0..Len(p) : /\ Exists(files, SubSeq(p, 1, k))
                                     /\ \A j \in (k+1)..Len(p) : ~Exists(files, SubSeq(p, 1, j))
  IN  RealPath(files, SubSeq(p, 1, n)) \o SubSeq(p, n + 1, Len(p))

Clash(p, dirs) == \E d \in dirs : IsPrefix(d, p) \/ IsPrefix(p, d)

(* usableRoots, once at start: a root that clashes is dropped.              *)
UsableRoots(files) == {r \in Configured : ~Clash(Realish(files, r), {Realish(files, d) : d \in Kept})}

(* Slip: the root itself passes.                                            *)
AllowedAtRoot(files, roots, real) ==
  /\ real # <<>> /\ real # Realish(files, HomeDir)
  /\ \E r \in roots : IsPrefix(Realish(files, r), real)
  /\ ~Clash(real, {Realish(files, d) : d \in Kept})
(* check: strictly below a usable root, clear of what is kept from agents.  *)
Allowed(files, roots, real) ==
  /\ real # <<>> /\ real # Realish(files, HomeDir)
  /\ \E r \in roots : IsStrictPrefix(Realish(files, r), real)
  /\ ~Clash(real, {Realish(files, d) : d \in Kept})

-----------------------------------------------------------------------------
NewCall == [at |-> "new", dir |-> <<>>]

Init ==
  /\ fs \in [Fixed \union Open -> Files]
  /\ \A p \in Fixed : fs[p] = File("dir")
  /\ \A p \in Open : fs[p].is # "none" /\ Len(p) > 1 => fs[Front(p)].is = "dir"
  /\ usable = UsableRoots(fs)
  /\ place = [c \in Calls |-> NewCall]
  /\ swaps = 0

Becomes(c, at, dir) == place' = [place EXCEPT ![c] = [at |-> at, dir |-> dir]]

(* checkAgentCwd: nothing is created; a proposal goes no further.           *)
Check(c) ==
  /\ place[c].at = "new"
  /\ \E want \in Wants :
       LET target == Realish(fs, want)
       IN  IF Allowed(fs, usable, target) THEN Becomes(c, "checked", target) ELSE Becomes(c, "refused", <<>>)
  /\ UNCHANGED <<fs, usable, swaps>>

(* mkdirSync, recursive: every missing directory on the way, through links. *)
Made(files, p) ==
  [q \in DOMAIN files |-> IF files[q].is = "none" /\ \E k \in 1..Len(p) : q = Realish(files, SubSeq(p, 1, k))
                          THEN File("dir") ELSE files[q]]
(* A name on the way that is a file, or a link to nothing, fails it.        *)
CanMake(files, p) == LET now == Made(files, p) IN IsDir(now, p)

Make(c) ==
  /\ place[c].at = "checked"
  /\ LET p == place[c].dir
     IN  IF IsDir(fs, p) THEN Becomes(c, "made", p) /\ UNCHANGED fs
         ELSE IF Exists(fs, p) \/ ~CanMake(fs, p) THEN Becomes(c, "refused", <<>>) /\ UNCHANGED fs
         ELSE fs' = Made(fs, p) /\ Becomes(c, "made", p)
  /\ UNCHANGED <<usable, swaps>>

(* Slip: the path that was checked before it was made is given.             *)
DecideUnchecked(c) ==
  /\ place[c].at = "made"
  /\ LET real == RealPath(fs, place[c].dir)
     IN  IF real = Lost THEN Becomes(c, "refused", <<>>) ELSE Becomes(c, "given", real)

(* The real path, checked again (a race may have swapped a component).      *)
Decide(c) ==
  /\ place[c].at = "made"
  /\ LET real == RealPath(fs, place[c].dir)
     IN  IF Allowed(fs, usable, Realish(fs, real)) /\ real # Lost THEN Becomes(c, "given", real) ELSE Becomes(c, "refused", <<>>)
Recheck(c) == Decide(c) /\ UNCHANGED <<fs, usable, swaps>>

(* Another program replaces what stands at an open path.                    *)
Swap(p) ==
  /\ swaps < MaxSwaps /\ swaps' = swaps + 1
  /\ Len(p) > 1 => At(fs, Front(p)).is = "dir"
  /\ \E f \in Files \ {fs[p]} :
       fs' = [q \in DOMAIN fs |-> IF q = p THEN f ELSE IF IsStrictPrefix(p, q) THEN File("none") ELSE fs[q]]
  /\ UNCHANGED <<usable, place>>

Next ==
  \/ \E c \in Calls : Check(c) \/ Make(c) \/ Recheck(c)
  \/ \E p \in Open : Swap(p)

Spec == Init /\ [][Next]_wsVars

-----------------------------------------------------------------------------
TypeOK ==
  /\ fs \in [Fixed \union Open -> Files] /\ usable \subseteq Configured /\ swaps \in 0..MaxSwaps
  /\ \A c \in Calls : place[c].at \in {"new", "checked", "made", "given", "refused"}

(* Clear of the kept trees and strictly inside one of the roots that were   *)
(* usable at the start, wherever the links lead.                            *)
Proper(files, p) ==
  /\ RealPath(files, p) = p
  /\ \E r \in usable : LET root == RealPath(files, r) IN Len(root) < Len(p) /\ SubSeq(p, 1, Len(root)) = root
  /\ \A d \in Kept : LET k == RealPath(files, d) IN ~IsPrefix(k, p) /\ ~IsPrefix(p, k)

(* The directory an agent is given is real, strictly below a root and clear *)
(* of the kept trees in the file system at that moment, whatever changed    *)
(* while it was being checked and made.                                     *)
ProperStep == \A c \in Calls : place'[c].at = "given" /\ place[c].at # "given" => Proper(fs', place'[c].dir)
GivenIsProper == [][ProperStep]_wsVars

(* Unless another program changed the file system meanwhile, no directory   *)
(* is made but a root, or below one, and none in a kept tree.               *)
MadeStep ==
  swaps' = 0 => \A p \in DOMAIN fs : fs'[p] # fs[p] =>
    /\ RealPath(fs', p) = p
    /\ \E r \in Configured : IsPrefix(RealPath(fs', r), p)
    /\ \A d \in Kept : ~IsPrefix(RealPath(fs', d), p)
MadeInside == [][MadeStep]_wsVars
=============================================================================
