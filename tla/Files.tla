-------------------------------- MODULE Files --------------------------------
(***************************************************************************)
(* The two readers of directories: the window of the GUI with its file     *)
(* manager, and `rustnt fs search'.  They are programs of their own that   *)
(* share nothing but the disk, which neither of them changes, so a         *)
(* behaviour has one of them.                                              *)
(***************************************************************************)
EXTENDS GuiWindow, FileSearch

CONSTANT WindowDisks   \* bound: the states of the disk under the window

ASSUME FilesAssumption == WindowDisks \subseteq Disks

VARIABLE program   \* "window" or "search"

filesVars == <<program, allVars, searchVars>>

(* Of a window that never opens any state it could open in will do. *)
WindowClosed ==
  /\ WindowInit
  /\ Unshown(CHOOSE p \in Typed : TRUE)
  /\ notices = <<>>

FilesInit ==
  /\ DiskInit
  /\ SearchInit
  /\ \/ program = "window" /\ disk \in WindowDisks /\ WindowInit
     \/ program = "search" /\ WindowClosed

WindowRuns ==
  /\ program = "window"
  /\ WindowNext
  /\ disk' \in WindowDisks
  /\ UNCHANGED <<program, searchVars>>

SearchRuns ==
  /\ program = "search"
  /\ SearchNext
  /\ UNCHANGED <<program, browserVars, windowVars>>

FilesSpec == FilesInit /\ [][WindowRuns \/ SearchRuns]_filesVars

-----------------------------------------------------------------------------
FilesTypeOK ==
  /\ DiskOK
  /\ TypeOK
  /\ WindowTypeOK
  /\ walk \in {"start", "searching", "found", "failed"}
=============================================================================
