----------------------------- MODULE Directories -----------------------------
(***************************************************************************)
(* The part of the disk that the read-only file commands and the file      *)
(* manager look at (rustnt-core filesystem.rs): a tree whose nodes come,   *)
(* go and change their kind while somebody reads it.  A reading of one     *)
(* directory (list_directory) is one step; two readings are two steps, and *)
(* anything may change between them.                                       *)
(*                                                                         *)
(* A node is a number, in the order of the names; where it hangs is fixed. *)
(***************************************************************************)
EXTENDS Integers, Sequences, FiniteSets

CONSTANTS
  Nodes,        \* files and directories below the root
  Root,         \* a drive root or the root of a share
  Up,           \* the directory each node is in
  Disks         \* bound: the states of the disk that occur

Places == Nodes \cup {Root}

ASSUME DirectoriesAssumption ==
  /\ Nodes \subseteq Nat
  /\ Root \notin Nodes
  /\ Up \in [Nodes -> Places]
  /\ IsFiniteSet(Nodes)
  /\ \A S \in SUBSET Nodes : S # {} => \E n \in S : Up[n] \notin S   \* a tree

VARIABLE disk   \* what each node is now

(* file_kind_from_attributes: a directory that is a reparse point counts as *)
(* one.  A directory may be closed to the caller, which only shows when it  *)
(* is opened.                                                               *)
Kinds == {"file", "directory", "denied", "reparse"}

IsDirectory(kind) == kind \in {"directory", "denied"}

Children(d) == {n \in Nodes : Up[n] = d /\ disk[n] # "absent"}

(* What list_directory returns for a directory: its entries in the order of *)
(* their names, or why it has none to return.                               *)
Reading(d) ==
  CASE disk[d] = "absent"               -> "not_found"
    [] disk[d] \in {"file", "reparse"}  -> "invalid_path"
    [] disk[d] = "denied"               -> "access_denied"
    [] disk[d] = "directory"            -> "listed"

-----------------------------------------------------------------------------
(* Only directories hold something. *)
DiskOK ==
  /\ disk \in [Places -> Kinds \cup {"absent"}]
  /\ IsDirectory(disk[Root])
  /\ \A n \in Nodes : disk[n] # "absent" => IsDirectory(disk[Up[n]])

DiskInit == disk \in Disks /\ DiskOK

(* Another program creates, deletes or replaces a node, or changes who may  *)
(* open it.                                                                 *)
ChangeNode(n) ==
  /\ \E kind \in Kinds \cup {"absent"} :
       kind # disk[n] /\ disk' = [disk EXCEPT ![n] = kind]
  /\ disk' \in Disks
  /\ DiskOK'

ChangeDisk == \E n \in Nodes : ChangeNode(n)
=============================================================================
