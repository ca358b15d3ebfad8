------------------------------- MODULE Transcript -------------------------------
(***************************************************************************)
(* The transcript file of one session, as another process writes it and the *)
(* bridge reads it: complete lines and perhaps the first half of the next   *)
(* one.  A line takes two units of the file, so an offset can lie inside    *)
(* it.  The writers (a terminal pi or claude) are external.                 *)
(***************************************************************************)
EXTENDS Naturals, Sequences, SequencesExt

CONSTANTS MaxLines,      (* bound on lines written                          *)
          MaxRewrites    (* bound on times the file is replaced             *)

VARIABLES lines,     (* the complete lines: number and prompt (0: not one)   *)
          half,      (* there is the first half of a line after them         *)
          written,   (* lines written so far                                 *)
          rewrites

file == <<lines, half, written, rewrites>>

Size == 2 * Len(lines) + IF half THEN 1 ELSE 0

(* What a reader of the units after `from` up to `to` can parse: the lines  *)
(* that lie whole in between.                                               *)
Between(from, to) == SelectSeq(lines, LAMBDA l : \E i \in 1 .. Len(lines) :
                       lines[i] = l /\ from <= 2 * i - 2 /\ 2 * i <= to)

(* The end of the last line that ends in there, `from` if there is none.    *)
LastNewline(from, to) == IF 2 * (to \div 2) > from THEN 2 * (to \div 2) ELSE from

InitFile(n) ==
  /\ lines = [i \in 1 .. n |-> [n |-> i, prompt |-> 0]]
  /\ half = FALSE /\ written = n /\ rewrites = 0

Begin == ~half /\ written < MaxLines /\ half' = TRUE /\ UNCHANGED <<lines, written, rewrites>>

End(prompt) ==
  /\ half /\ half' = FALSE
  /\ lines' = Append(lines, [n |-> written + 1, prompt |-> prompt])
  /\ written' = written + 1 /\ UNCHANGED rewrites

(* The file is replaced by a shorter one that is not empty.                 *)
Rewrite ==
  /\ rewrites < MaxRewrites /\ rewrites' = rewrites + 1
  /\ \E k \in 1 .. Len(lines) - 1 : lines' = SubSeq(lines, 1, k)
  /\ half' = FALSE /\ UNCHANGED written
===============================================================================
