---------------------------- MODULE MCRateLimiter ----------------------------
(* Instances of RateLimiter for TLC.  The window is 2 ticks and holds two   *)
(* grants, so bursts, expiry of a part of a queue and expiry of a whole     *)
(* queue all happen within the bounded clock, and there are more callers    *)
(* than places in the table.                                                *)
EXTENDS RateLimiter, TLC

SubjectSymmetry == Permutations(Subjects)
=============================================================================
