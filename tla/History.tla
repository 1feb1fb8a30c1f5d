------------------------------- MODULE History -------------------------------
(* What Back and Forward promise: the pages visited lie on a tape, the one  *)
(* shown is somewhere on it.  A visit of another page drops what lies ahead *)
(* and comes after the one shown; Back and Forward only move along the      *)
(* tape.  Nothing else changes either, a page that cannot be shown least of *)
(* all.                                                                     *)
EXTENDS Integers, Sequences

CONSTANT Pages

VARIABLES
  tape,    \* the pages, oldest first
  place    \* where on it the page shown is

vars == <<tape, place>>

Init == \E p \in Pages : tape = <<p>> /\ place = 1

Visit(p) ==
  /\ p # tape[place]
  /\ tape' = Append(SubSeq(tape, 1, place), p)
  /\ place' = place + 1

Back == place > 1 /\ place' = place - 1 /\ UNCHANGED tape

Forward == place < Len(tape) /\ place' = place + 1 /\ UNCHANGED tape

Next == Back \/ Forward \/ \E p \in Pages : Visit(p)

Spec == Init /\ [][Next]_vars
=============================================================================
