------------------------------ MODULE RemoteCall ------------------------------
(***************************************************************************)
(* What an exchange with the service promises a run of the CLI, with       *)
(* nothing of pipes, buffers, waits and acknowledgements: its request is   *)
(* executed at most once, success means that it was executed, and a call   *)
(* that was refused will not be executed later.  Of a call that was lost   *)
(* the CLI does not know; the service may execute it even then.            *)
(***************************************************************************)
EXTENDS Integers

CONSTANTS
  Calls   \* the exchanges

VARIABLES
  executed,  \* how often the request of each call was dispatched
  outcome    \* what the caller has been told of each call

vars == <<executed, outcome>>

Init ==
  /\ executed = [c \in Calls |-> 0]
  /\ outcome = [c \in Calls |-> "pending"]

Execute(c) ==
  /\ executed[c] = 0
  /\ outcome[c] \in {"pending", "lost"}
  /\ executed' = [executed EXCEPT ![c] = 1]
  /\ UNCHANGED outcome

Tell(c, what) ==
  /\ outcome[c] = "pending"
  /\ outcome' = [outcome EXCEPT ![c] = what]
  /\ UNCHANGED executed

Answer(c) == executed[c] = 1 /\ Tell(c, "answered")

Refuse(c) == executed[c] = 0 /\ Tell(c, "refused")

Lose(c) == Tell(c, "lost")

Next == \E c \in Calls : Execute(c) \/ Answer(c) \/ Refuse(c) \/ Lose(c)

Spec == Init /\ [][Next]_vars
=============================================================================
