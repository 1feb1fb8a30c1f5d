------------------------------- MODULE Desktop -------------------------------
(***************************************************************************)
(* The two observers of a running desktop: the preview of its windows and  *)
(* `rustnt monitor --watch' for its processes.  They are programs of their *)
(* own that share nothing, so a behaviour has one of them.                 *)
(***************************************************************************)
EXTENDS WindowFeed

CONSTANTS Pids, MaxProcesses   \* of SystemMonitor

ASSUME DesktopAssumption == Pids \subseteq Nat /\ MaxProcesses \in Nat

VARIABLES
  program,                     \* "preview" or "monitor"
  running, born, sampling, names, creation, previous, view, exits

Monitor == INSTANCE SystemMonitor

sampleVars == <<running, born, sampling, names, creation, previous, view, exits>>
desktopVars == <<program, feedVars, sampleVars>>

(* A preview that is not started has a desktop without windows. *)
DesktopInit ==
  /\ Init
  /\ Monitor!Init
  /\ \/ program = "preview"
     \/ program = "monitor" /\ Present = {}

PreviewRuns == program = "preview" /\ Next /\ UNCHANGED <<program, sampleVars>>

MonitorRuns == program = "monitor" /\ Monitor!Next /\ UNCHANGED <<program, feedVars>>

(* The preview draws again and again and ends what a click began, and time  *)
(* passes.  Nothing makes the feed or the monitor go on.                    *)
DesktopSpec ==
  /\ DesktopInit
  /\ [][PreviewRuns \/ MonitorRuns]_desktopVars
  /\ WF_desktopVars(PreviewRuns /\ Frame)
  /\ WF_desktopVars(PreviewRuns /\ (Check \/ Request \/ Look))
  /\ WF_desktopVars(PreviewRuns /\ Tick)

-----------------------------------------------------------------------------
DesktopTypeOK ==
  /\ program \in {"preview", "monitor"}
  /\ TypeOK
  /\ Monitor!TypeOK

(* SystemMonitor!ChangesAddUp: no change is swallowed, no exit is invented. *)
ChangesAddUp == Monitor!ChangesAddUp
=============================================================================
