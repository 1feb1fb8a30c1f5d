----------------------------- MODULE FileBrowser -----------------------------
(***************************************************************************)
(* The file manager of the GUI (rustnt-gui file_browser.rs and its use in  *)
(* app.rs): the directory shown, what Back and Forward lead to, what is    *)
(* selected and filtered, over directories that come and go.  Every        *)
(* operation lists a directory first and changes its state only when that  *)
(* worked.                                                                 *)
(*                                                                         *)
(* A path is a node and the way it is spelled: the history compares paths  *)
(* as text, the disk does not, and both the parent and the children of a   *)
(* path inherit something of its spelling.                                 *)
(***************************************************************************)
EXTENDS Directories, SequencesExt

CONSTANTS
  RootIsDrive,   \* the root is a drive (`C:\'), or a share (`\\host\share')
  Typed,         \* the paths the user types, and those a start begins with
  Filters,       \* filters: the nodes whose names they let through
  MaxHistory,    \* bound: paths on the back stack (unbounded in the code)
  Nothing

(* `C:\a\b', `C:\a\\b', `C:\a\b\', `C:\a\b\\', and `C:\a\b\..'.             *)
Forms == {"plain", "doubled", "trailing", "trailing2", "dotted"}

Paths == {p \in [node : Places, form : Forms] :
            p.node = Root => p.form \notin {"doubled", "dotted"}}

ASSUME FileBrowserAssumption ==
  /\ RootIsDrive \in BOOLEAN
  /\ Typed \subseteq Paths
  /\ Filters \subseteq SUBSET Nodes
  /\ MaxHistory \in Nat
  /\ Nothing \notin Paths

VARIABLES
  current,    \* current_path
  entries,    \* the listing, each entry a path and whether it is a directory
  back,       \* back_stack
  forward,    \* forward_stack
  filter,     \* the nodes the filter lets through
  selected,   \* selected_path
  failed,     \* last_error is set
  loaded

browserVars ==
  <<current, entries, back, forward, filter, selected, failed, loaded>>
vars == <<disk, browserVars>>

-----------------------------------------------------------------------------
(* Paths. *)

(* The directory a path leads to: GetFullPathNameW resolves the dots.       *)
DirOf(p) == IF p.form = "dotted" THEN Up[p.node] ELSE p.node

(* Of a drive root the plain spelling has its separator already. *)
Spell(n, form) ==
  [node |-> n,
   form |-> IF n = Root /\ RootIsDrive /\ form = "trailing" THEN "plain" ELSE form]

(* What normalize_path leaves of the spelling is a separator at the end.    *)
EndsInSeparator(p) ==
  \/ p.form \in {"trailing", "trailing2"}
  \/ DirOf(p) = Root /\ RootIsDrive

(* list_directory puts a separator and the name behind the normalized path. *)
ChildPath(p, n) ==
  Spell(n, IF EndsInSeparator(p) THEN "doubled" ELSE "plain")

(* parent_path: what is left when the last component is dropped, with the   *)
(* separators before it.  Nothing for a root, however it is spelled.  The   *)
(* component dropped from a dotted path are the dots.                       *)
ParentPath(p) ==
  IF p.node = Root THEN Nothing
  ELSE IF p.form = "dotted" THEN Spell(p.node, "trailing")
  ELSE IF p.form = "doubled" THEN Spell(Up[p.node], "trailing2")
  ELSE Spell(Up[p.node], "trailing")

-----------------------------------------------------------------------------
(* The disk as the browser sees it. *)

EntriesOf(p) ==
  {[path |-> ChildPath(p, n), directory |-> IsDirectory(disk[n])] :
     n \in Children(DirOf(p))}

CanList(p) == Reading(DirOf(p)) = "listed"

(* view: what the filter leaves of the listing.  The order it is sorted in  *)
(* decides nothing.                                                         *)
Visible == {e \in entries : e.path.node \in filter}

-----------------------------------------------------------------------------
(* Variant: a selection survives the listing it was made in. *)
ShowKeepingSelection(p) ==
  /\ CanList(p)
  /\ current' = p
  /\ entries' = EntriesOf(p)
  /\ failed' = FALSE
  /\ loaded' = TRUE
  /\ UNCHANGED <<selected, filter, disk>>

(* apply_loaded, after the listing worked. *)
Show(p) ==
  /\ CanList(p)
  /\ current' = p
  /\ entries' = EntriesOf(p)
  /\ selected' = Nothing
  /\ failed' = FALSE
  /\ loaded' = TRUE
  /\ UNCHANGED <<filter, disk>>

(* refresh and load *)
Refresh == Show(current) /\ UNCHANGED <<back, forward>>

(* navigate_to *)
Visit(p) ==
  /\ p # current => Len(back) < MaxHistory
  /\ Show(p)
  /\ IF p = current THEN UNCHANGED <<back, forward>>
     ELSE back' = Append(back, current) /\ forward' = <<>>

(* The path box, the button to the parent, and a double click.              *)
Submit == \E p \in Typed : Visit(p)

Parent == ParentPath(current) # Nothing /\ Visit(ParentPath(current))

Enter == \E e \in Visible : e.directory /\ Visit(e.path)

(* Variant: what lies ahead is forgotten on the way back. *)
GoBackForgetting ==
  /\ back # <<>>
  /\ Show(Last(back))
  /\ back' = Front(back)
  /\ forward' = <<current>>

GoBack ==
  /\ back # <<>>
  /\ Show(Last(back))
  /\ back' = Front(back)
  /\ forward' = Append(forward, current)

GoForward ==
  /\ forward # <<>>
  /\ Show(Last(forward))
  /\ forward' = Front(forward)
  /\ back' = Append(back, current)

(* Any of these fails when its directory is gone, closed or no directory    *)
(* any more, or when Windows fails; the error is all that changes.          *)
Fail ==
  /\ failed' = TRUE
  /\ UNCHANGED <<current, entries, back, forward, filter, selected, loaded, disk>>

(* A click selects a directory. *)
Select ==
  /\ \E e \in Visible : e.directory /\ selected' = e.path
  /\ UNCHANGED <<current, entries, back, forward, filter, failed, loaded, disk>>

SetFilter ==
  /\ filter' \in Filters
  /\ UNCHANGED <<current, entries, back, forward, selected, failed, loaded, disk>>

-----------------------------------------------------------------------------
(* initialize_file_browser: the preferred directory, or else the fallback   *)
(* with the error of the preferred one, or else just an error.              *)
Shown(p) == current = p /\ entries = EntriesOf(p) /\ loaded = TRUE

Unshown(p) == current = p /\ entries = {} /\ loaded = FALSE

Init ==
  /\ \E preferred, fallback \in Typed :
       \/ CanList(preferred) /\ Shown(preferred) /\ failed = FALSE
       \/ /\ preferred # fallback
          /\ CanList(fallback) /\ Shown(fallback) /\ failed = TRUE
       \/ Unshown(fallback) /\ failed = TRUE
  /\ back = <<>>
  /\ forward = <<>>
  /\ filter = Nodes
  /\ selected = Nothing

Attempt == Refresh \/ Submit \/ Parent \/ Enter \/ GoBack \/ GoForward

Next ==
  \/ Attempt \/ Fail \/ Select \/ SetFilter
  \/ ChangeDisk /\ UNCHANGED browserVars

Spec == DiskInit /\ Init /\ [][Next]_vars

-----------------------------------------------------------------------------
Entries == [path : Paths, directory : BOOLEAN]

TypeOK ==
  /\ current \in Paths
  /\ entries \subseteq Entries
  /\ back \in Seq(Paths)
  /\ forward \in Seq(Paths)
  /\ filter \in SUBSET Nodes
  /\ selected \in Paths \cup {Nothing}
  /\ failed \in BOOLEAN
  /\ loaded \in BOOLEAN

(* Whatever failed, came back or was filtered before: the entries on the    *)
(* screen are those of the directory the path box names, a double click on  *)
(* one leads into the directory that bears its name, and what is selected   *)
(* is one of them.                                                          *)
ScreenIsOfOneDirectory ==
  /\ \A e \in entries : /\ e.path = ChildPath(current, e.path.node)
                        /\ Up[DirOf(e.path)] = DirOf(current)
  /\ selected # Nothing => \E e \in entries : e.path = selected /\ e.directory
  /\ ~loaded => entries = {} /\ failed

(* Back and Forward keep their promise (History): the back stack, the path  *)
(* shown and the forward stack, which has its next path last, are the tape; *)
(* an attempt that fails leaves all of it as it was.                        *)
Tape == INSTANCE History WITH
  Pages <- Paths,
  tape <- Append(back, current) \o Reverse(forward),
  place <- Len(back) + 1

BackAndForwardKeepTheTape == Tape!Spec
=============================================================================
