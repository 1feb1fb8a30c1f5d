------------------------------- MODULE MCFiles -------------------------------
(* An instance of Files for TLC: two directories below the root, and below  *)
(* the first a third one with a file, so that the search has siblings, a    *)
(* way back up and a level that is too deep.                                *)
EXTENDS Files

TreeUp == <<0, 0, 1, 2, 3>>

TypedPaths == {[node |-> 0, form |-> "plain"],
               [node |-> 1, form |-> "dotted"]}

FilterSets == {{1}}

AllDisks == [Places -> Kinds \cup {"absent"}]

(* The directory 3 comes and goes, or a file takes its place; 1 is closed.  *)
FewDisks ==
  {[n \in Places |-> CASE n = 0 -> "directory" [] n = 1 -> above [] n = 3 -> below
                      [] n = 2 -> "file" [] OTHER -> "absent"] :
     above \in {"directory", "denied"}, below \in {"directory", "absent", "file"}}
=============================================================================
