----------------------------- MODULE GuardedKill -----------------------------
(***************************************************************************)
(* What the controlled termination path promises, with nothing of how it   *)
(* is done: processes come and go, PIDs are reused, callers ask for the    *)
(* end of "the process that has this PID and was created at this time",    *)
(* and the service ends a process only as the answer to such a request.    *)
(***************************************************************************)
EXTENDS Integers

CONSTANTS
  Clients,     \* the requests' senders
  Pids,        \* process identifiers
  Protected,   \* the PIDs 0 and 4 and the service's own
  Sids,        \* account SIDs of users
  SystemSid,   \* LocalSystem, LocalService and NetworkService
  Token,       \* the security facts of a client's token
  Times,       \* process creation times
  NoProcess, NoRequest

VARIABLES
  procs,   \* the process that runs under a PID, or NoProcess
  asked,   \* what a client named in its termination request
  ended    \* the pairs <<client, creation time>> of processes ended

vars == <<procs, asked, ended>>

(* The process a client named is the one that now runs under the PID.       *)
Named(c) ==
  /\ asked[c] # NoRequest
  /\ procs[asked[c].pid] # NoProcess
  /\ procs[asked[c].pid].created = asked[c].created

(* The caller owns it, may end processes, and it is nothing of the system.  *)
MayEnd(c) ==
  /\ Token[c].elevated
  /\ Token[c].administrator
  /\ asked[c].pid \notin Protected
  /\ procs[asked[c].pid].owner = Token[c].sid
  /\ procs[asked[c].pid].owner # SystemSid

-----------------------------------------------------------------------------
Init ==
  /\ procs = [p \in Pids |-> IF p \in Protected
                               THEN [created |-> 0, owner |-> SystemSid]
                               ELSE NoProcess]
  /\ asked = [c \in Clients |-> NoRequest]
  /\ ended = {}

Create(p, owner, time) ==
  /\ procs[p] = NoProcess
  /\ procs' = [procs EXCEPT ![p] = [created |-> time, owner |-> owner]]
  /\ UNCHANGED <<asked, ended>>

Exit(p) ==
  /\ p \notin Protected
  /\ procs[p] # NoProcess
  /\ procs' = [procs EXCEPT ![p] = NoProcess]
  /\ UNCHANGED <<asked, ended>>

Ask(c, p, time) ==
  /\ asked[c] = NoRequest
  /\ asked' = [asked EXCEPT ![c] = [pid |-> p, created |-> time]]
  /\ UNCHANGED <<procs, ended>>

(* Once per request. *)
End(c) ==
  /\ Named(c)
  /\ MayEnd(c)
  /\ <<c, asked[c].created>> \notin ended
  /\ ended' = ended \cup {<<c, asked[c].created>>}
  /\ UNCHANGED <<procs, asked>>

Next ==
  \/ \E p \in Pids, owner \in Sids \cup {SystemSid} :
       \E time \in Times : Create(p, owner, time)
  \/ \E p \in Pids : Exit(p)
  \/ \E c \in Clients, p \in Pids : \E time \in Times : Ask(c, p, time)
  \/ \E c \in Clients : End(c)

Spec == Init /\ [][Next]_vars
=============================================================================
