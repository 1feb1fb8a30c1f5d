------------------------------ MODULE GuiWindow ------------------------------
(***************************************************************************)
(* The window of the GUI around its file manager (rustnt-gui app.rs,       *)
(* navigation.rs, notifications.rs): three pages, the page switcher, and   *)
(* the notices with their panel.  A page acts only while it is the one     *)
(* drawn; the panels lie over any page.                                    *)
(***************************************************************************)
EXTENDS FileBrowser

CONSTANT MaxNotices   \* MAX_NOTIFICATIONS, 32

VARIABLES
  page,           \* navigation.current_page
  switcherOpen,   \* navigation.switcher_open
  panelOpen,      \* notifications_open
  notices         \* the notices, oldest first: TRUE once read

ASSUME GuiWindowAssumption == MaxNotices \in Nat \ {0}

windowVars == <<page, switcherOpen, panelOpen, notices>>
allVars == <<disk, browserVars, windowVars>>

Pages == {"overview", "system_monitor", "file_manager"}

-----------------------------------------------------------------------------
(* Variant: room is made one notice too late. *)
PushedTooMany ==
  LET all == Append(notices, FALSE)
  IN  IF Len(all) > MaxNotices + 1 THEN Tail(all) ELSE all

(* push: the oldest notice makes room for a new, unread one. *)
Pushed ==
  LET all == Append(notices, FALSE)
  IN  IF Len(all) > MaxNotices THEN Tail(all) ELSE all

AllRead == [i \in DOMAIN notices |-> TRUE]

(* finish_file_browser_action: an error of the browser becomes a notice.    *)
FileAction ==
  /\ page = "file_manager"
  /\ \/ (Attempt \/ Select \/ SetFilter) /\ UNCHANGED notices
     \/ Fail /\ notices' = Pushed
  /\ UNCHANGED <<page, switcherOpen, panelOpen>>

(* record_save_result: both outcomes are told. *)
SaveConfig ==
  /\ page = "overview"
  /\ notices' = Pushed
  /\ UNCHANGED <<disk, browserVars, page, switcherOpen, panelOpen>>

(* The list of pages, and Ctrl+1 to Ctrl+3. *)
SelectPage ==
  /\ page' \in Pages
  /\ UNCHANGED <<disk, browserVars, switcherOpen, panelOpen, notices>>

SelectInSwitcher ==
  /\ switcherOpen
  /\ page' \in Pages
  /\ switcherOpen' = FALSE
  /\ UNCHANGED <<disk, browserVars, panelOpen, notices>>

(* Ctrl+K; also Esc and the cross of an open switcher. *)
ToggleSwitcher ==
  /\ switcherOpen' = ~switcherOpen
  /\ UNCHANGED <<disk, browserVars, page, panelOpen, notices>>

OpenPanel ==
  /\ panelOpen' = TRUE
  /\ notices' = AllRead
  /\ UNCHANGED <<disk, browserVars, page, switcherOpen>>

ClosePanel ==
  /\ panelOpen' = FALSE
  /\ UNCHANGED <<disk, browserVars, page, switcherOpen, notices>>

(* The button of the panel, or Esc when neither window is open. *)
ClearNotices ==
  /\ panelOpen \/ ~switcherOpen
  /\ notices' = <<>>
  /\ UNCHANGED <<disk, browserVars, page, switcherOpen, panelOpen>>

-----------------------------------------------------------------------------
(* Up to three notices tell about the start. *)
WindowInit ==
  /\ Init
  /\ page = "overview"
  /\ switcherOpen = FALSE
  /\ panelOpen = FALSE
  /\ \E n \in 0..3 : notices = [i \in 1..(IF n < MaxNotices THEN n ELSE MaxNotices)
                                  |-> FALSE]

WindowNext ==
  \/ FileAction \/ SaveConfig \/ SelectPage \/ SelectInSwitcher \/ ToggleSwitcher
  \/ OpenPanel \/ ClosePanel \/ ClearNotices
  \/ ChangeDisk /\ UNCHANGED <<browserVars, windowVars>>

WindowSpec == DiskInit /\ WindowInit /\ [][WindowNext]_allVars

-----------------------------------------------------------------------------
WindowTypeOK ==
  /\ page \in Pages
  /\ switcherOpen \in BOOLEAN
  /\ panelOpen \in BOOLEAN
  /\ notices \in Seq(BOOLEAN) /\ Len(notices) <= MaxNotices
=============================================================================
