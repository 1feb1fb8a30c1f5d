---------------------------- MODULE SystemMonitor ----------------------------
(***************************************************************************)
(* The MonitorSampler behind `rustnt monitor --watch' (rustnt-core         *)
(* monitor.rs, lib.rs): every sample lists the processes, opens each one   *)
(* for its creation time, and reports which have come and gone since the   *)
(* last good sample.  Processes begin and end all the time, also between   *)
(* the listing of a PID and its opening, and PIDs are used again.  The     *)
(* command itself ends with the first error; a caller of the sampler may   *)
(* ask again.                                                              *)
(***************************************************************************)
EXTENDS Integers, FiniteSets, Functions

CONSTANTS
  Pids,
  MaxProcesses   \* bound: processes that ever begin

Nobody == 0

(* A process is the number of its birth, which stands for its creation time *)
(* and for the name it is listed under.                                     *)
Processes == 1..MaxProcesses

VARIABLES
  running,    \* the process that has a PID, or Nobody
  born,       \* how many processes have begun
  sampling,   \* "idle", "opening" or "comparing"
  names,      \* the listing of this sample: PIDs and their processes
  creation,   \* process_identities: whom opening a PID has met, if anyone
  previous,   \* the last good sample, [names, creation]; none at first
  view,       \* history: who has which PID for one who reads the reports
  exits       \* history: the processes that were ever reported as exited

monitorVars == <<running, born, sampling, names, creation, previous, view, exits>>

NoneListed == [p \in {} |-> Nobody]

-----------------------------------------------------------------------------
Begin(pid) ==
  /\ running[pid] = Nobody
  /\ born < MaxProcesses
  /\ born' = born + 1
  /\ running' = [running EXCEPT ![pid] = born']
  /\ UNCHANGED <<sampling, names, creation, previous, view, exits>>

End(pid) ==
  /\ running[pid] # Nobody
  /\ running' = [running EXCEPT ![pid] = Nobody]
  /\ UNCHANGED <<born, sampling, names, creation, previous, view, exits>>

-----------------------------------------------------------------------------
(* sample_processes: the Tool Help snapshot is of one instant ...           *)
List ==
  /\ sampling = "idle"
  /\ \E pid \in Pids : running[pid] # Nobody
  /\ sampling' = "opening"
  /\ names' = Restrict(running, {pid \in Pids : running[pid] # Nobody})
  /\ creation' = NoneListed
  /\ UNCHANGED <<running, born, previous, view, exits>>

(* ... but process_metrics opens one PID after the other: whoever has it by *)
(* then, unless nobody has, or access is denied.                            *)
Open ==
  /\ sampling = "opening"
  /\ \E pid \in DOMAIN names \ DOMAIN creation :
       \E met \in {running[pid], Nobody} :
         /\ creation' = [p \in DOMAIN creation \cup {pid} |->
                           IF p = pid THEN met ELSE creation[p]]
         /\ sampling' = IF DOMAIN creation' = DOMAIN names THEN "comparing"
                        ELSE "opening"
  /\ UNCHANGED <<running, born, names, previous, view, exits>>

(* same_process_identity: told apart only when both samples know.           *)
SameProcess(pid) ==
  \/ Nobody \in {creation[pid], previous.creation[pid]}
  \/ creation[pid] = previous.creation[pid]

(* process_changes_from; the first sample has nothing to compare with.      *)
Replaced ==
  {pid \in DOMAIN names \cap DOMAIN previous.names : ~SameProcess(pid)}

Added == (DOMAIN names \ DOMAIN previous.names) \cup Replaced

Exited == (DOMAIN previous.names \ DOMAIN names) \cup Replaced

(* The sample goes out of scope. *)
Forget == names' = NoneListed /\ creation' = NoneListed

(* All readings worked: the sample is reported, and is the previous one from *)
(* now on.                                                                   *)
Report ==
  /\ sampling = "comparing"
  /\ sampling' = "idle"
  /\ previous' = [names |-> names, creation |-> creation]
  /\ IF DOMAIN previous.names = {} THEN view' = names /\ UNCHANGED exits
     ELSE /\ view' = [pid \in (DOMAIN view \ Exited) \cup Added |->
                        IF pid \in Added THEN names[pid] ELSE view[pid]]
          /\ exits' = exits \cup {previous.names[pid] : pid \in Exited}
  /\ Forget
  /\ UNCHANGED <<running, born>>

(* Variant: a sample without a report is the previous one nevertheless. *)
FailAdvancing ==
  /\ sampling' = "idle"
  /\ previous' = IF sampling = "comparing" THEN [names |-> names, creation |-> creation]
                 ELSE previous
  /\ Forget
  /\ UNCHANGED <<running, born, view, exits>>

(* The times, the list, the memory or the drives cannot be read: an error   *)
(* instead of a report.                                                     *)
Fail ==
  /\ sampling' = "idle"
  /\ Forget
  /\ UNCHANGED <<running, born, previous, view, exits>>

-----------------------------------------------------------------------------
Init ==
  /\ running = [pid \in Pids |-> Nobody]
  /\ born = 0
  /\ sampling = "idle"
  /\ names = NoneListed
  /\ creation = NoneListed
  /\ previous = [names |-> NoneListed, creation |-> NoneListed]
  /\ view = NoneListed
  /\ exits = {}

Next == List \/ Open \/ Report \/ Fail \/ \E pid \in Pids : Begin(pid) \/ End(pid)

-----------------------------------------------------------------------------
TypeOK ==
  /\ running \in [Pids -> Processes \cup {Nobody}]
  /\ born \in 0..MaxProcesses
  /\ sampling \in {"idle", "opening", "comparing"}
  /\ DOMAIN creation \subseteq DOMAIN names /\ DOMAIN names \subseteq Pids
  /\ DOMAIN previous.names \subseteq Pids
  /\ names \in [DOMAIN names -> Processes]
  /\ creation \in [DOMAIN creation -> Processes \cup {Nobody}]
  /\ previous.names \in [DOMAIN previous.names -> Processes]
  /\ previous.creation \in [DOMAIN previous.names -> Processes \cup {Nobody}]
  /\ view \in [DOMAIN view -> Processes]
  /\ exits \subseteq Processes

(* The reports add up and are true.  Whoever follows them from the first    *)
(* sample on knows exactly the PIDs of the last good one: a failed sample   *)
(* swallows no change.  And a process that was said to have exited has,     *)
(* although PIDs are reused while they are looked at.                       *)
ChangesAddUp ==
  /\ DOMAIN view = DOMAIN previous.names
  /\ exits \cap Range(running) = {}
=============================================================================
