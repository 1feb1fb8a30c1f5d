------------------------------ MODULE RunMarkers ------------------------------
(***************************************************************************)
(* How the GUI notices that an earlier run did not end normally            *)
(* (rustnt-gui recovery.rs and run_gui in main.rs).  Every run has a file  *)
(* of its own, its marker, with its PID and the creation time of its       *)
(* process.  A start inspects all markers it finds, removes those of       *)
(* processes that are over, and then writes its own, which only a normal   *)
(* exit removes.  Runs may overlap, die at any step, and PIDs are reused.  *)
(*                                                                         *)
(* The shell recovery session of the same run is the subject of            *)
(* ShellRecovery; here it succeeds or fails in one step.                   *)
(***************************************************************************)
EXTENDS Integers

CONSTANTS
  Runs,        \* runs of the GUI; a run stands for its creation time too
  Pids,
  Legacy,      \* the marker an older version may have left, without a time
  LegacyPid,   \* the PID in it
  Other, None

Markers == Runs \cup {Legacy}

ASSUME RunMarkersAssumption ==
  /\ LegacyPid \in Pids
  /\ Legacy # Other /\ Legacy # None /\ Other # None
  /\ {Legacy, Other, None} \cap Runs = {}
  /\ None \notin Pids

VARIABLES
  holder,   \* the process that has a PID: a run, Other, or None
  marker,   \* each marker file: "none", "empty" (just created) or "written"
  run,      \* each run: [pc, pid, todo, stale, incomplete, opened]
  remover,  \* history: the run that removed a marker as stale, or None
  dead      \* history: the dead of a run's beginning that it was let see

vars == <<holder, marker, run, remover, dead>>

-----------------------------------------------------------------------------
PidOf(m) == IF m = Legacy THEN LegacyPid ELSE run[m].pid

Alive(r) == run[r].pid # None /\ holder[run[r].pid] = r

(* The process of a marker is over: nobody, or somebody else, has its PID. *)
Over(m) == holder[PidOf(m)] \notin (IF m = Legacy THEN {Other} \cup Runs ELSE {m})

Goto(r, pc) == run' = [run EXCEPT ![r].pc = pc]

(* The process ends; its marker stays as it is. *)
Leave(r, pc) ==
  /\ run' = [run EXCEPT ![r] = [@ EXCEPT !.pc = pc, !.todo = {}, !.stale = None]]
  /\ holder' = [holder EXCEPT ![run[r].pid] = None]

Fail(r) == Leave(r, "failed") /\ UNCHANGED <<marker, remover, dead>>

FilesUnchanged == UNCHANGED <<marker, remover>>

-----------------------------------------------------------------------------
(* The environment: processes begin and end.                                *)

Begin(r) ==
  /\ run[r].pc = "idle"
  /\ \E pid \in Pids :
       /\ holder[pid] = None
       /\ holder' = [holder EXCEPT ![pid] = r]
       /\ run' = [run EXCEPT ![r].pc = "list", ![r].pid = pid]
  /\ dead' = [dead EXCEPT ![r] = {m \in Markers : marker[m] = "written" /\ Over(m)}]
  /\ FilesUnchanged

Die(r) ==
  /\ Alive(r)
  /\ Leave(r, "dead")
  /\ UNCHANGED <<marker, remover, dead>>

OtherProcess(pid) ==
  /\ holder[pid] \in {None, Other}
  /\ holder' = [holder EXCEPT ![pid] = IF @ = None THEN Other ELSE None]
  /\ UNCHANGED <<marker, run, remover, dead>>

-----------------------------------------------------------------------------
(* inspect *)

(* marker_paths: an entry of the directory that cannot be read is left out, *)
(* as one that is not there.                                                *)
ListMarkers(r) ==
  /\ run[r].pc = "list"
  /\ \/ LET present == {m \in Markers : marker[m] # "none"}
        IN  \E unread \in SUBSET present :
              /\ run' = [run EXCEPT ![r].pc = "inspect", ![r].todo = present \ unread]
              /\ dead' = [dead EXCEPT ![r] = @ \ unread]
        /\ UNCHANGED holder
        /\ FilesUnchanged
     \/ Fail(r)

(* Variant: only the PID is compared. *)
StaleByPid(m) == marker[m] = "written" /\ holder[PidOf(m)] = None

(* Variant: what cannot be identified is taken for stale. *)
StaleUnlessRunning(m) == marker[m] = "empty" \/ Over(m)

(* marker_liveness: what is not known to be over is left alone.             *)
Stale(m) == marker[m] = "written" /\ Over(m)

(* Windows may refuse to open a process of another user.                    *)
Denied(m) == marker[m] = "written" /\ holder[PidOf(m)] = Other

(* Variant: a marker that is cleaned up is none that matters. *)
InspectQuietly(r, m) ==
  /\ run[r].pc = "inspect"
  /\ m \in run[r].todo
  /\ LET rest == [run[r] EXCEPT !.todo = @ \ {m}]
         seen == [rest EXCEPT !.incomplete = TRUE]
     IN  \/ marker[m] = "none" /\ run' = [run EXCEPT ![r] = rest] /\ UNCHANGED dead
         \/ /\ marker[m] # "none" /\ (~Stale(m) \/ Denied(m))
            /\ run' = [run EXCEPT ![r] = seen]
            /\ dead' = [dead EXCEPT ![r] = IF Denied(m) THEN @ \ {m} ELSE @]
         \/ /\ Stale(m)
            /\ run' = [run EXCEPT ![r] = [rest EXCEPT !.pc = "clean", !.stale = m]]
            /\ UNCHANGED dead
  /\ UNCHANGED holder
  /\ FilesUnchanged

(* A marker that has disappeared meanwhile says nothing; any other one says *)
(* that a run is, or was, incomplete.                                       *)
InspectMarker(r, m) ==
  /\ run[r].pc = "inspect"
  /\ m \in run[r].todo
  /\ LET rest == [run[r] EXCEPT !.todo = @ \ {m}]
         seen == [rest EXCEPT !.incomplete = TRUE]
     IN  \/ marker[m] = "none" /\ run' = [run EXCEPT ![r] = rest] /\ UNCHANGED dead
         \/ /\ marker[m] # "none" /\ (~Stale(m) \/ Denied(m))
            /\ run' = [run EXCEPT ![r] = seen]
            /\ dead' = [dead EXCEPT ![r] = IF Denied(m) THEN @ \ {m} ELSE @]
         \/ /\ Stale(m)
            /\ run' = [run EXCEPT ![r] = [seen EXCEPT !.pc = "clean", !.stale = m]]
            /\ UNCHANGED dead
  /\ UNCHANGED holder
  /\ FilesUnchanged

RemoveStale(r) ==
  /\ run[r].pc = "clean"
  /\ \/ LET m == run[r].stale
        IN  /\ marker' = [marker EXCEPT ![m] = "none"]
            /\ remover' = [remover EXCEPT ![m] = IF marker[m] = "none" THEN @ ELSE r]
            /\ run' = [run EXCEPT ![r].pc = "inspect", ![r].stale = None]
            /\ UNCHANGED <<holder, dead>>
     \/ Fail(r)

(* An unreadable marker ends the start. *)
InspectFails(r) == run[r].pc = "inspect" /\ run[r].todo # {} /\ Fail(r)

(* load_config and startup_config *)
LoadConfig(r) ==
  /\ run[r].pc = "inspect"
  /\ run[r].todo = {}
  /\ \/ Goto(r, "create") /\ UNCHANGED <<holder, dead>> /\ FilesUnchanged
     \/ Fail(r)

-----------------------------------------------------------------------------
(* create_marker: a new file, and then its contents.                        *)

CreateMarker(r) ==
  /\ run[r].pc = "create"
  /\ \/ /\ marker' = [marker EXCEPT ![r] = "empty"]
        /\ Goto(r, "write")
        /\ UNCHANGED <<holder, remover, dead>>
     \/ Fail(r)

WriteMarker(r) ==
  /\ run[r].pc = "write"
  /\ \/ /\ marker' = [marker EXCEPT ![r] = IF @ = "none" THEN @ ELSE "written"]
        /\ Goto(r, "session")
        /\ UNCHANGED <<holder, remover, dead>>
     \/ /\ marker' = [marker EXCEPT ![r] = "none"]
        /\ Leave(r, "failed")
        /\ UNCHANGED <<remover, dead>>
     \/ Fail(r)

(* The shell recovery session, the snapshot, and the window. *)
OpenWindow(r) ==
  /\ run[r].pc = "session"
  /\ \/ /\ run' = [run EXCEPT ![r].pc = "window", ![r].opened = TRUE]
        /\ UNCHANGED <<holder, dead>>
        /\ FilesUnchanged
     \/ Fail(r)

(* run_native returns, or fails.  After it, saving the configuration and    *)
(* completing the session may fail, the marker is removed all the same.     *)
CloseWindow(r) ==
  /\ run[r].pc = "window"
  /\ \/ Goto(r, "remove") /\ UNCHANGED <<holder, dead>> /\ FilesUnchanged
     \/ Fail(r)

RemoveMarker(r) ==
  /\ run[r].pc = "remove"
  /\ marker' = [marker EXCEPT ![r] = "none"] \/ UNCHANGED marker
  /\ Leave(r, "ended")
  /\ UNCHANGED <<remover, dead>>

-----------------------------------------------------------------------------
Init ==
  /\ holder = [pid \in Pids |-> None]
  /\ marker \in {[m \in Markers |-> IF m = Legacy THEN state ELSE "none"] :
                   state \in {"none", "written"}}
  /\ run = [r \in Runs |-> [pc |-> "idle", pid |-> None, todo |-> {}, stale |-> None,
                            incomplete |-> FALSE, opened |-> FALSE]]
  /\ remover = [m \in Markers |-> None]
  /\ dead = [r \in Runs |-> {}]

Step(r) ==
  \/ ListMarkers(r) \/ (\E m \in Markers : InspectMarker(r, m)) \/ RemoveStale(r)
  \/ InspectFails(r) \/ LoadConfig(r) \/ CreateMarker(r) \/ WriteMarker(r)
  \/ OpenWindow(r) \/ CloseWindow(r) \/ RemoveMarker(r)

Next ==
  \/ \E r \in Runs : Begin(r) \/ Step(r) \/ Die(r)
  \/ \E pid \in Pids : OtherProcess(pid)

Spec == Init /\ [][Next]_vars

-----------------------------------------------------------------------------
Running == {"list", "inspect", "clean", "create", "write", "session", "window",
            "remove"}
Gone    == {"ended", "failed", "dead"}

RunRecords ==
  [pc : {"idle"} \cup Running \cup Gone, pid : Pids \cup {None},
   todo : SUBSET Markers, stale : Markers \cup {None},
   incomplete : BOOLEAN, opened : BOOLEAN]

TypeOK ==
  /\ holder \in [Pids -> Runs \cup {Other, None}]
  /\ marker \in [Markers -> {"none", "empty", "written"}]
  /\ run \in [Runs -> RunRecords]
  /\ remover \in [Markers -> Runs \cup {None}]
  /\ dead \in [Runs -> SUBSET Markers]
  /\ \A r \in Runs :
       /\ run[r].pid = None <=> run[r].pc = "idle"
       /\ Alive(r) <=> run[r].pc \in Running
       /\ run[r].todo # {} => run[r].pc \in {"inspect", "clean"}
       /\ run[r].stale # None <=> run[r].pc = "clean"

(* Nobody removes the marker of a run that is not over, not even while it   *)
(* is being written, and whoever has had its PID before.                    *)
LiveMarkerKept ==
  \A r \in Runs :
    /\ run[r].pc = "write" => marker[r] = "empty"
    /\ run[r].pc \in {"session", "window", "remove"} => marker[r] = "written"

(* A run whose window opens has cleaned up after every run that was over,   *)
(* with a marker that identifies it, when it began, if it could list that   *)
(* marker and was not denied the process: a reused PID keeps no marker of a *)
(* dead run, which would mean recovery for ever.                            *)
StaleMarkersAreRemoved ==
  \A r \in Runs : run[r].opened => \A m \in dead[r] \ {Legacy} : marker[m] = "none"

(* A marker is removed as stale only by a run that goes into recovery       *)
(* because of it: the removal loses no crash.                               *)
CrashIsNoticed ==
  \A m \in Markers : remover[m] # None => run[remover[m]].incomplete

-----------------------------------------------------------------------------
(* What the design says, and the code does not ensure. *)

(* Task 14 design: after an abnormal exit the next start enters recovery    *)
(* and shows a notice.  The run that removed the marker of a crashed run    *)
(* has shown it, or still may, or has left a marker for the next start.     *)
CrashIsShown ==
  \A m \in Runs :
    remover[m] # None =>
      LET r == remover[m]
      IN  run[r].pc \in {"dead", "failed"} =>
            run[r].opened \/ marker[r] # "none" \/ remover[r] # None
=============================================================================
