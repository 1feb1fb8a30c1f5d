-------------------------------- MODULE GuiRun --------------------------------
(***************************************************************************)
(* A run of the GUI from its start to its exit (rustnt-gui main.rs): the   *)
(* shell recovery transaction (ShellRecovery) together with the two files  *)
(* written outside of its mutex, the settings (config.rs) and the snapshot *)
(* of the shell values in the registry (shell_snapshot.rs), and with the   *)
(* run's marker.  Both files are written to a temporary one first, which   *)
(* then replaces the old one; only that step is seen by others.            *)
(***************************************************************************)
EXTENDS ShellRecovery

CONSTANTS
  Settings,    \* what the user may leave: theme and size
  Default,     \* GuiConfig::default()
  MinWidth, MinHeight    \* MIN_WINDOW_WIDTH, MIN_WINDOW_HEIGHT

(* GuiConfig::validate: each dimension that is too small gives way to its   *)
(* default.  A window of any size is saved.                                 *)
Validated(s) ==
  [theme |-> s.theme,
   width |-> IF s.width < MinWidth THEN Default.width ELSE s.width,
   height |-> IF s.height < MinHeight THEN Default.height ELSE s.height]

(* What gui.toml may say.                                                   *)
Stored == Settings \cup {Validated(s) : s \in Settings}

ASSUME GuiRunAssumption ==
  /\ MinWidth \in Nat /\ MinHeight \in Nat
  /\ Settings \subseteq [theme : {"dark", "light"}, width : Nat, height : Nat]
  /\ Default \in Settings /\ Validated(Default) = Default
  /\ {Absent, Damaged, Nothing} \cap Stored = {}

VARIABLES
  config,      \* gui.toml: Absent, Damaged (it does not parse), or settings
  markers,     \* the runs whose gui.running marker exists
  inUse,       \* each run's settings in memory (SharedConfig)
  saving,      \* each run's save: "idle", "writing", "replacing", "saved" or "notSaved"
  complete,    \* each run has read both values of the registry
  leaving,     \* each run's window was closed
  tried,       \* history: what the exit of each run has attempted
  stored,      \* history: the runs that have put a complete snapshot in place
  kept         \* history: the settings the user has left, or Nothing once a run
               \* has not gone as it should

guiVars ==
  <<config, markers, inUse, saving, complete, leaving, tried, stored, kept>>
runVars == <<pc, lock, session, log, buffer, previous, history, lost, config,
             markers, inUse, saving, complete, leaving, tried, stored, kept>>

At(r, stage) == saving[r] = stage

Stage(r, next) == saving' = [saving EXCEPT ![r] = next]

(* Nobody asks for the settings any more.                                   *)
Forget(r) == inUse' = [inUse EXCEPT ![r] = Default]

(* The process is there although the transaction may be over.               *)
Running(r) == Alive(r) \/ (leaving[r] /\ "marker" \notin tried[r] /\ pc[r] # "dead")

-----------------------------------------------------------------------------
(* Variant: a run marks itself before it looks for the markers of others. *)
FindsMarkerOfAny(r) == TRUE

(* inspect: another run has not ended normally, or is still open.           *)
FindsMarker(r) == markers # {}

(* load_config, startup_config and create_marker.  A run that has found a   *)
(* marker is a safe one, it begins with the defaults; so does a run whose   *)
(* file does not parse.  The markers of the dead are removed.               *)
StartUp(r) ==
  /\ Launch(r)
  /\ inUse' = [inUse EXCEPT ![r] =
                 IF ~FindsMarker(r) /\ config \in Stored THEN Validated(config)
                                                         ELSE Default]
  /\ markers' = {m \in markers : Running(m)} \cup {r}
  /\ kept' = IF \E other \in Runs : Running(other) THEN Nothing ELSE kept
  /\ UNCHANGED <<config, saving, complete, leaving, tried, stored>>

(* One of them fails: no window, and no session either.                     *)
StartError(r) ==
  /\ pc[r] = "off"
  /\ Fail(r)
  /\ UNCHANGED guiVars

-----------------------------------------------------------------------------
(* save_config in the window, save_snapshot before it opens. *)

OfSettings(r) == pc[r] = "window"

NotSaved(r) ==
  /\ Stage(r, "notSaved")
  /\ kept' = IF OfSettings(r) THEN Nothing ELSE kept
  /\ UNCHANGED <<vars, markers, inUse, complete, leaving, tried, stored>>

(* write_temporary_*: a new file of a name of its own, or an error.         *)
WriteTemporary(r) ==
  /\ At(r, "writing")
  /\ \/ Stage(r, "replacing") /\ UNCHANGED <<vars, config, markers, inUse, complete,
                                              leaving, tried, stored, kept>>
     \/ NotSaved(r) /\ UNCHANGED config

(* replace_*_file: the new content takes the place of the old as a whole.   *)
(* Nothing in the program ever reads the snapshot.                          *)
Replace(r) ==
  /\ At(r, "replacing")
  /\ Stage(r, "saved")
  /\ IF OfSettings(r) THEN config' = inUse[r] /\ UNCHANGED stored
     ELSE /\ stored' = IF complete[r] THEN stored \cup {r} ELSE stored
          /\ UNCHANGED config
  /\ UNCHANGED <<vars, markers, inUse, complete, leaving, tried, kept>>

(* Without a backup, ReplaceFileW may have removed the old file before it   *)
(* fails, or before the process dies in it.                                 *)
OrLost(r) ==
  {config} \cup (IF OfSettings(r) /\ At(r, "replacing") THEN {Absent} ELSE {})

(* The temporary file is removed then.                                      *)
ReplaceFails(r) ==
  /\ At(r, "replacing")
  /\ NotSaved(r)
  /\ config' \in OrLost(r)

-----------------------------------------------------------------------------
(* collect_snapshot: either value of the registry may be missing, which is  *)
(* a result too, or unreadable.  What was read is saved in any case.        *)
ReadRegistry(r) ==
  /\ pc[r] = "collect"
  /\ At(r, "idle")
  /\ Stage(r, "writing")
  /\ complete' \in {[complete EXCEPT ![r] = c] : c \in BOOLEAN}
  /\ UNCHANGED <<vars, config, markers, inUse, leaving, tried, stored, kept>>

(* Variant: a snapshot that was saved is one. *)
SnapshotFailedToSave(r) == At(r, "notSaved")

(* snapshot_failure_summary, and what the save adds to it.                  *)
SnapshotFailed(r) == ~complete[r] \/ At(r, "notSaved")

FinishSnapshot(r) ==
  /\ saving[r] \in {"saved", "notSaved"}
  /\ CollectSnapshot(r)
  /\ pc'[r] = "saved" => ~SnapshotFailed(r)
  /\ pc'[r] = "unavailable" => SnapshotFailed(r)
  /\ Stage(r, "idle")
  /\ complete' = [complete EXCEPT ![r] = FALSE]
  /\ UNCHANGED <<config, markers, inUse, leaving, tried, stored, kept>>

-----------------------------------------------------------------------------
(* The theme is toggled, the window is moved. *)
Edit(r) ==
  /\ pc[r] = "window"
  /\ At(r, "idle")
  /\ \E s \in Settings :
       /\ inUse' = [inUse EXCEPT ![r] = s]
       /\ kept' = IF kept = Nothing THEN Nothing ELSE s
  /\ UNCHANGED <<vars, config, markers, saving, complete, leaving, tried, stored>>

(* The button saves, and so does the exit before anything else.             *)
BeginSave(r) ==
  /\ pc[r] = "window"
  /\ At(r, "idle")
  /\ Stage(r, "writing")
  /\ \E exit \in BOOLEAN : leaving' = [leaving EXCEPT ![r] = exit]
  /\ UNCHANGED <<vars, config, markers, inUse, complete, tried, stored, kept>>

FinishSave(r) ==
  /\ pc[r] = "window"
  /\ ~leaving[r]
  /\ saving[r] \in {"saved", "notSaved"}
  /\ Stage(r, "idle")
  /\ UNCHANGED <<vars, config, markers, inUse, complete, leaving, tried, stored, kept>>

(* Variant: an exit whose save failed goes no further. *)
CompleteSessionIfSaved(r) ==
  /\ leaving[r]
  /\ \/ At(r, "saved") /\ CloseWindow(r)
     \/ At(r, "notSaved") /\ pc[r] = "window" /\ Fail(r)
  /\ Forget(r)
  /\ Stage(r, "idle")
  /\ tried' = [tried EXCEPT ![r] = @ \cup
                 (IF At(r, "saved") THEN {"settings", "session"} ELSE {"settings"})]
  /\ UNCHANGED <<config, markers, complete, leaving, stored, kept>>

(* cleanup_after_normal_exit goes on when the save has failed ...           *)
CompleteSession(r) ==
  /\ leaving[r]
  /\ saving[r] \in {"saved", "notSaved"}
  /\ CloseWindow(r)
  /\ Forget(r)
  /\ Stage(r, "idle")
  /\ tried' = [tried EXCEPT ![r] = @ \cup {"settings", "session"}]
  /\ UNCHANGED <<config, markers, complete, leaving, stored, kept>>

(* ... and when the session has; the removal of the marker may fail as well.*)
RemoveMarker(r) ==
  /\ leaving[r]
  /\ pc[r] \in {"done", "failed"}
  /\ "marker" \notin tried[r]
  /\ \/ markers' = markers \ {r} /\ UNCHANGED kept
     \/ kept' = Nothing /\ UNCHANGED markers
  /\ tried' = [tried EXCEPT ![r] = @ \cup {"marker"}]
  /\ UNCHANGED <<vars, config, inUse, saving, complete, leaving, stored>>

(* An error of the transaction, or of eframe, ends the run or its exit.     *)
Ends(r, error) ==
  /\ error
  /\ Forget(r)
  /\ kept' = Nothing
  /\ UNCHANGED <<config, markers, saving, complete, leaving, tried, stored>>

ReadError(r) == Ends(r, SessionError(r) \/ LogError(r))

TransactionError(r) ==
  \/ ReadError(r)
  \/ Ends(r, LockError(r) \/ WriteError(r) \/ (WindowError(r) /\ At(r, "idle")))

(* The process may die at any step, a replacement included; its temporary   *)
(* file stays then.                                                         *)
Die(r) ==
  /\ \/ Crash(r)
     \/ /\ ~Alive(r)
        /\ Running(r)
        /\ pc' = [pc EXCEPT ![r] = "dead"]
        /\ UNCHANGED <<lock, files, buffer, previous, history>>
  /\ Forget(r)
  /\ Stage(r, "idle")
  /\ complete' = [complete EXCEPT ![r] = FALSE]
  /\ leaving' = [leaving EXCEPT ![r] = FALSE]
  /\ tried' = [tried EXCEPT ![r] = {}]
  /\ kept' = Nothing
  /\ config' \in OrLost(r)
  /\ UNCHANGED <<markers, stored>>

-----------------------------------------------------------------------------
(* A file that holds the defaults is read like none. *)
GuiInit ==
  /\ Init
  /\ config \in (Settings \ {Default}) \cup {Absent, Damaged}
  /\ markers = {}
  /\ inUse = [r \in Runs |-> Default]
  /\ saving = [r \in Runs |-> "idle"]
  /\ complete = [r \in Runs |-> FALSE]
  /\ leaving = [r \in Runs |-> FALSE]
  /\ tried = [r \in Runs |-> {}]
  /\ stored = {}
  /\ kept = CASE config = Absent -> Default [] config = Damaged -> Nothing
              [] OTHER -> config

(* The steps of the transaction that touch nothing else.                    *)
Transaction(r) ==
  /\ \/ Lock(r) \/ ReadSession(r) \/ CheckOwner(r) \/ ReadLog(r) \/ StoreLog(r)
     \/ WriteSession(r) \/ RemoveSession(r)
  /\ UNCHANGED guiVars

FileSteps(r) ==
  \/ ReadRegistry(r) \/ WriteTemporary(r) \/ Replace(r) \/ ReplaceFails(r)
  \/ FinishSnapshot(r) \/ FinishSave(r) \/ CompleteSession(r) \/ RemoveMarker(r)

RunStep(r) ==
  \/ StartUp(r) \/ StartError(r) \/ Transaction(r) \/ TransactionError(r)
  \/ FileSteps(r) \/ Edit(r) \/ BeginSave(r) \/ Die(r)

RunNext == \E r \in Runs : RunStep(r)

(* A live process goes on: its operations return, with an error where there *)
(* is nothing else to return, and a mutex that stays free is granted.  No   *)
(* one has to launch, edit, save or close anything.                         *)
RunFairness ==
  \A r \in Runs : WF_runVars(Transaction(r) \/ ReadError(r) \/ FileSteps(r))

RunSpec == GuiInit /\ [][RunNext]_runVars /\ RunFairness

-----------------------------------------------------------------------------
(* The log tells the truth about the snapshots: a run that has recorded its *)
(* own as saved has put one in place in which nothing is missing, and one   *)
(* that has recorded it as unavailable has not, wherever reading, writing   *)
(* or replacing failed and whichever run came between.                      *)
SnapshotEventIsTrue ==
  \A r \in Runs :
    /\ LogHas("snapshot_saved", r) => r \in stored
    /\ LogHas("snapshot_unavailable", r) => r \notin stored

(* What the user has chosen survives: as long as no run died, failed to     *)
(* save, or ran beside another one, every run shows the settings the one    *)
(* before was left with, and so does gui.toml between them; the one thing   *)
(* that does not survive is a dimension the next start takes for too small. *)
SettingsSurviveCleanRuns ==
  kept # Nothing =>
    /\ \A r \in Runs : pc[r] = "window" => inUse[r] \in {kept, Validated(kept)}
    /\ (\A r \in Runs : ~Running(r)) =>
         config \in {kept, Validated(kept)} \/ (config = Absent /\ kept = Default)

(* An exit whose window closed normally attempts all of its cleanup, unless *)
(* the process dies: a save that fails does not keep the session open, and  *)
(* neither keeps the marker, which would send the next start into recovery. *)
ExitTriesEverything ==
  \A r \in Runs :
    leaving[r] ~> tried[r] = {"settings", "session", "marker"} \/ pc[r] = "dead"
=============================================================================
