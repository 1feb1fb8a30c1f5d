------------------------------ MODULE FileSearch ------------------------------
(***************************************************************************)
(* `rustnt fs search' (rustnt-core filesystem.rs, search_path): a walk     *)
(* through the tree below a directory, one list_directory at a time, with  *)
(* a bound on the depth and one on the matches, while other programs       *)
(* change the tree.                                                        *)
(***************************************************************************)
EXTENDS Directories, SequencesExt

CONSTANTS
  Matching,     \* the nodes whose name contains the query
  MaxDepth,     \* SearchLimits.max_depth, 16 in the CLI
  MaxResults,   \* SearchLimits.max_results, 1000 in the CLI
  MaxChanges    \* bound: changes of the disk beside a search

ASSUME FileSearchAssumption ==
  /\ Matching \subseteq Nodes
  /\ {MaxDepth, MaxResults, MaxChanges} \subseteq Nat

VARIABLES
  walk,      \* "start", "searching", "found" or "failed"
  pending,   \* the directories still to be listed, the next one last
  report,    \* SearchReport
  changes,   \* how often the disk has changed
  steady     \* history: the nodes nobody has changed since the start

searchVars == <<walk, pending, report, changes, steady>>

-----------------------------------------------------------------------------
SearchInit ==
  /\ walk = "start"
  /\ pending = <<>>
  /\ report = [matches |-> <<>>, skippedAccess |-> 0, skippedReparse |-> 0,
               truncated |-> MaxResults = 0]
  /\ changes = 0
  /\ steady = Nodes

(* The path must name a directory; whether it can be opened shows later.    *)
Start ==
  /\ walk = "start"
  /\ walk' = IF ~IsDirectory(disk[Root]) THEN "failed"
             ELSE IF MaxResults = 0 THEN "found" ELSE "searching"
  /\ pending' = <<[dir |-> Root, depth |-> 0]>>
  /\ UNCHANGED <<disk, changes, report, steady>>

(* The names of S in the order list_directory returns them in; there is one *)
(* such order.                                                              *)
InOrder(S) ==
  {s \in Bijection(1..Cardinality(S), S) : \A i, j \in DOMAIN s : i < j => s[i] < s[j]}

IsHit(n) == n \in Matching /\ disk[n] # "reparse"

(* The part of a listing that is looked at: each entry until the limit was  *)
(* reached by the ones before it.                                           *)
LookedAt(entries) ==
  LET HitsBefore(n) == {m \in entries : m < n /\ IsHit(m)}
  IN  {n \in entries : Len(report.matches) + Cardinality(HitsBefore(n)) < MaxResults}

(* Variant: the last name on top of the stack. *)
PushInOrder(entered) == entered

(* The directories the walk will enter, the first name on top of the stack. *)
Push(entered) == Reverse(entered)

(* One turn of the loop: the directory on top of the stack is listed, its   *)
(* entries are reported, its directories are stacked.                       *)
ListNext ==
  /\ walk = "searching"
  /\ LET next    == Last(pending)
         entries == Children(next.dir)
         seen    == LookedAt(entries)
     IN  /\ Reading(next.dir) = "listed"
         /\ \E found \in InOrder({n \in seen : IsHit(n)}) :
              report' = [report EXCEPT
                !.matches = @ \o found,
                !.skippedReparse = @ + Cardinality({n \in seen : disk[n] = "reparse"}),
                !.truncated = seen # entries]
         /\ \E entered \in InOrder({n \in seen : IsDirectory(disk[n])
                                                  /\ next.depth < MaxDepth}) :
              pending' = Front(pending)
                         \o [i \in DOMAIN entered |->
                              [dir |-> Push(entered)[i], depth |-> next.depth + 1]]
         /\ walk' = IF seen # entries \/ pending' = <<>> THEN "found" ELSE "searching"
  /\ UNCHANGED <<disk, changes, steady>>

(* Variant: a closed directory ends the walk. *)
StopAtDenied ==
  /\ walk = "searching"
  /\ Last(pending).depth > 0
  /\ Reading(Last(pending).dir) = "access_denied"
  /\ report' = [report EXCEPT !.skippedAccess = @ + 1]
  /\ walk' = "found"
  /\ UNCHANGED <<disk, changes, steady, pending>>

(* A directory below the root that may not be opened is counted, and left   *)
(* out.                                                                     *)
SkipDenied ==
  /\ walk = "searching"
  /\ Last(pending).depth > 0
  /\ Reading(Last(pending).dir) = "access_denied"
  /\ report' = [report EXCEPT !.skippedAccess = @ + 1]
  /\ pending' = Front(pending)
  /\ walk' = IF pending' = <<>> THEN "found" ELSE "searching"
  /\ UNCHANGED <<disk, changes, steady>>

(* Everything else ends the search without a report: the root is closed, a  *)
(* directory has gone or is one no more since its listing, or Windows fails.*)
Abort ==
  /\ walk = "searching"
  /\ Reading(Last(pending).dir) = "access_denied" => Last(pending).depth = 0
  /\ walk' = "failed"
  /\ UNCHANGED <<disk, changes, pending, report, steady>>

Change ==
  /\ changes < MaxChanges
  /\ changes' = changes + 1
  /\ \E n \in Nodes :
       /\ ChangeNode(n)
       /\ steady' = IF walk = "start" THEN steady ELSE steady \ {n}
  /\ UNCHANGED <<walk, pending, report>>

Search == Start \/ ListNext \/ SkipDenied \/ Abort

SearchNext == Search \/ Change

SearchSpec == DiskInit /\ SearchInit /\ [][SearchNext]_<<disk, searchVars>>

-----------------------------------------------------------------------------
(* The way from the root to a node. *)
PathTo[n \in Places] == IF n = Root THEN <<>> ELSE Append(PathTo[Up[n]], n)

(* The directories a node is in. *)
Above(n) == {Root} \cup ToSet(PathTo[Up[n]])

(* A node the search is asked about: near enough, and all directories above *)
(* it can be opened.                                                        *)
Reachable(n) ==
  /\ disk[n] # "absent"
  /\ Len(PathTo[n]) - 1 <= MaxDepth
  /\ \A m \in Above(n) : disk[m] = "directory"

(* The order of a report: directory by directory, each before those in it.  *)
PathBefore(p, q) ==
  \E i \in 1..Len(q) :
    /\ i - 1 <= Len(p)
    /\ \A j \in 1..(i - 1) : p[j] = q[j]
    /\ i > Len(p) \/ p[i] < q[i]

Precedes(n, m) ==
  \/ PathBefore(PathTo[Up[n]], PathTo[Up[m]])
  \/ Up[n] = Up[m] /\ n < m

InOrderOfTree ==
  \A i, j \in DOMAIN report.matches :
    i < j => Precedes(report.matches[i], report.matches[j])

(* What a search of a tree nobody changes meanwhile has to report: the      *)
(* first MaxResults of all hits in the order of the tree; `truncated' only  *)
(* when there are that many; and otherwise every closed directory and every *)
(* reparse point that stood in its way, once each.                          *)
QuietSearchIsExact ==
  walk = "found" /\ steady = Nodes =>
    LET hits  == {n \in Nodes : Reachable(n) /\ IsHit(n)}
        found == ToSet(report.matches)
        skipped(kind) == {m \in Nodes : Reachable(m) /\ disk[m] = kind}
    IN  /\ found \subseteq hits
        /\ InOrderOfTree
        /\ \A n \in found, m \in hits \ found : Precedes(n, m)
        /\ Len(report.matches) <= MaxResults
        /\ IF report.truncated
           THEN Len(report.matches) = MaxResults
           ELSE /\ found = hits
                /\ report.skippedReparse = Cardinality(skipped("reparse"))
                /\ report.skippedAccess =
                     Cardinality({m \in skipped("denied") : Len(PathTo[m]) <= MaxDepth})

(* Whatever others do to the tree meanwhile: a search that says it is       *)
(* complete has found every match that stayed where it was, below           *)
(* directories that stayed; and no search reports anything twice.           *)
SearchMissesNothingThatStayed ==
  walk = "found" =>
    /\ IsInjective(report.matches)
    /\ ~report.truncated =>
         \A n \in steady :
           Reachable(n) /\ IsHit(n) /\ Above(n) \ {Root} \subseteq steady
             => n \in ToSet(report.matches)
=============================================================================
