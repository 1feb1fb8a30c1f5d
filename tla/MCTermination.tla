---------------------------- MODULE MCTermination ----------------------------
(* Instances of Termination: small sets of PIDs, users and clients.         *)
EXTENDS Termination, TLC

CONSTANTS weak, alice, bob

Admin(sid) == [sid |-> sid, elevated |-> TRUE, administrator |-> TRUE]

(* Clients of one user, so that one may meet the limit and the process of    *)
(* the other; `weak' has no elevated token.                                 *)
Tokens == [c \in Clients |-> [Admin(alice) EXCEPT !.elevated = c # weak]]
=============================================================================
