------------------------------ MODULE ServiceLife ------------------------------
(***************************************************************************)
(* A service as its manager sees it, with nothing of threads, gates and    *)
(* handles: it starts only when the last process of it has ended, is       *)
(* called running only once it can be stopped, and what it is called never *)
(* goes back.  A stop is accepted only by a service that is ending or will *)
(* end because of it, never by one that may still begin to serve.          *)
(***************************************************************************)
VARIABLES
  phase,     \* what the process does: "down", "starting", "serving", "ending"
  known,     \* what the manager calls the service
  told,      \* the process has been told to stop
  accepted   \* it answered that it will

vars == <<phase, known, told, accepted>>

Init ==
  /\ phase = "down"
  /\ known = "stopped"
  /\ told = FALSE
  /\ accepted = FALSE

Start ==
  /\ phase = "down"
  /\ known = "stopped"
  /\ phase' = "starting"
  /\ known' = "start_pending"
  /\ told' = FALSE
  /\ accepted' = FALSE

Serve ==
  /\ phase = "starting"
  /\ phase' = "serving"
  /\ known' = "running"
  /\ UNCHANGED <<told, accepted>>

Tell ==
  /\ phase \in {"serving", "ending"}
  /\ told' = TRUE
  /\ UNCHANGED <<phase, known, accepted>>

Accept ==
  /\ phase = "ending" \/ (phase = "serving" /\ told)
  /\ accepted' = TRUE
  /\ UNCHANGED <<phase, known, told>>

End ==
  /\ phase \in {"starting", "serving"}
  /\ phase' = "ending"
  /\ UNCHANGED <<known, told, accepted>>

Report ==
  /\ phase = "ending"
  /\ \/ known = "running" /\ known' = "stop_pending"
     \/ known # "stopped" /\ known' = "stopped"
  /\ UNCHANGED <<phase, told, accepted>>

(* The process is over, by its return or by force. *)
Die ==
  /\ phase # "down"
  /\ phase' = "down"
  /\ known' = "stopped"
  /\ told' = FALSE
  /\ UNCHANGED accepted

Next == Start \/ Serve \/ Tell \/ Accept \/ End \/ Report \/ Die

Spec == Init /\ [][Next]_vars
=============================================================================
