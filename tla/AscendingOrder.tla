--------------------------- MODULE AscendingOrder ---------------------------
(***************************************************************************)
(* Finite sets of numbers as sequences, and the part of a sequence that is *)
(* left at some of its places.  SortSeq and SelectSeq are defined by       *)
(* recursion over operators; these say the same of numbers in first-order  *)
(* terms, which the proofs can follow.                                     *)
(***************************************************************************)
EXTENDS Naturals, Sequences, FiniteSets

Ascending(S) ==
  CHOOSE f \in [1..Cardinality(S) -> S] :
    \A i, j \in 1..Cardinality(S) : i < j => f[i] < f[j]

(* What stays of s when all places but those of I are left out. *)
KeepAt(s, I) == [i \in 1..Cardinality(I) |-> s[Ascending(I)[i]]]
=============================================================================
