----------------------------- MODULE MCRunMarkers -----------------------------
(* Instances of RunMarkers for TLC.  Runs are interchangeable.              *)
EXTENDS RunMarkers, TLC

RunSymmetry == Permutations(Runs)
=============================================================================
