--------------------------- MODULE RunMarkersProofs ---------------------------
(***************************************************************************)
(* The markers, for every number of runs and PIDs: the marker of a run     *)
(* that is not over is never removed, the marker of one that was over is,  *)
(* and whoever removes one is a run in recovery.                           *)
(***************************************************************************)
EXTENDS RunMarkers, TLAPS

-----------------------------------------------------------------------------
(* What makes it inductive.  A run that is about to remove a marker knows   *)
(* that the process of it was over: such a process does not come back,      *)
(* whoever has its PID by now.                                              *)
MarkersOfTheBegun ==
  \A m \in Runs : run[m].pc = "idle" => marker[m] = "none"

StaleAreGone ==
  \A r \in Runs : run[r].stale \in Runs => run[run[r].stale].pc \in Gone

CleanersAreIncomplete ==
  \A r \in Runs : run[r].pc = "clean" => run[r].incomplete

DeadAreGone ==
  \A r \in Runs : \A m \in dead[r] \cap Runs :
    run[m].pc \in Gone /\ marker[m] \in {"none", "written"}

(* The dead of a run's beginning that still have a marker are on the run's  *)
(* list once it has one, as long as it has not given up.                    *)
DeadAreHandled ==
  \A r \in Runs :
    /\ run[r].opened => run[r].pc \in {"window", "remove"} \cup Gone
    /\ \A m \in dead[r] \cap Runs :
         \/ marker[m] = "none"
         \/ m \in run[r].todo
         \/ m = run[r].stale
         \/ run[r].pc \in {"idle", "list"} \cup Gone /\ ~run[r].opened

IInv ==
  /\ TypeOK
  /\ LiveMarkerKept
  /\ CrashIsNoticed
  /\ MarkersOfTheBegun
  /\ StaleAreGone
  /\ CleanersAreIncomplete
  /\ DeadAreGone
  /\ DeadAreHandled

LEMMA Constants ==
  /\ None \notin Runs /\ Other \notin Runs /\ Legacy \notin Runs
  /\ Other # None /\ Legacy # None
  /\ None \notin Pids /\ None \notin Markers
  /\ Runs \subseteq Markers
BY RunMarkersAssumption DEF Markers

LEMMA InitHolds == Init => IInv
<1> SUFFICES ASSUME Init PROVE IInv
  OBVIOUS
<1>1. \A r \in Runs :
        /\ run[r].pc = "idle" /\ run[r].pid = None
        /\ run[r].todo = {} /\ run[r].stale = None
        /\ run[r].incomplete = FALSE /\ run[r].opened = FALSE
  BY DEF Init
<1>2. \A m \in Runs : marker[m] = "none"
  BY Constants DEF Init
<1>3. TypeOK
  <2>1. run \in [Runs -> RunRecords]
    BY Constants DEF Init, RunRecords
  <2>2. marker \in [Markers -> {"none", "empty", "written"}]
    BY DEF Init
  <2>3. \A r \in Runs : ~Alive(r)
    BY <1>1 DEF Alive
  <2>4. /\ holder \in [Pids -> Runs \cup {Other, None}]
        /\ remover \in [Markers -> Runs \cup {None}]
        /\ dead \in [Runs -> SUBSET Markers]
    BY DEF Init
  <2>5. \A r \in Runs :
          /\ run[r].pid = None <=> run[r].pc = "idle"
          /\ Alive(r) <=> run[r].pc \in Running
          /\ run[r].todo # {} => run[r].pc \in {"inspect", "clean"}
          /\ run[r].stale # None <=> run[r].pc = "clean"
    BY <1>1, <2>3 DEF Running
  <2> QED BY <2>1, <2>2, <2>4, <2>5 DEF TypeOK
<1> QED BY <1>1, <1>2, <1>3, Constants
        DEF Init, IInv, LiveMarkerKept, CrashIsNoticed, MarkersOfTheBegun, StaleAreGone,
            CleanersAreIncomplete, DeadAreGone, DeadAreHandled

-----------------------------------------------------------------------------
(* The end of a process, alone or with the removal of its marker. *)
LEMMA LeaveKeeps ==
  ASSUME IInv, NEW r \in Runs, run[r].pc \in Running, NEW pc \in Gone, Leave(r, pc),
         UNCHANGED <<remover, dead>>,
         UNCHANGED marker \/ marker' = [marker EXCEPT ![r] = "none"]
  PROVE  IInv'
<1> DEFINE new == [run[r] EXCEPT !.pc = pc, !.todo = {}, !.stale = None]
<1>0. Alive(r) /\ run[r].pid \in Pids /\ holder[run[r].pid] = r
  <2>1. Alive(r)
    BY DEF IInv, TypeOK
  <2>2. run[r].pid \in Pids \cup {None}
    BY DEF IInv, TypeOK, RunRecords
  <2> QED BY <2>1, <2>2 DEF Alive
<1>1. new \in RunRecords
  <2>1. run[r] \in RunRecords
    BY DEF IInv, TypeOK
  <2> QED BY <2>1 DEF RunRecords
<1>2. run' = [run EXCEPT ![r] = new] /\ holder' = [holder EXCEPT ![run[r].pid] = None]
  BY DEF Leave
<1>3. /\ new.pc = pc /\ new.pid = run[r].pid /\ new.todo = {} /\ new.stale = None
      /\ new.incomplete = run[r].incomplete /\ new.opened = run[r].opened
  BY DEF IInv, TypeOK, RunRecords
<1> HIDE DEF new
<1>4. /\ run' \in [Runs -> RunRecords]
      /\ run'[r] = new
      /\ \A q \in Runs : q # r => run'[q] = run[q]
  BY <1>1, <1>2 DEF IInv, TypeOK
<1>5. /\ holder' \in [Pids -> Runs \cup {Other, None}]
      /\ holder'[run[r].pid] = None
      /\ \A p \in Pids : p # run[r].pid => holder'[p] = holder[p]
  BY <1>0, <1>2 DEF IInv, TypeOK
<1>6. /\ marker' \in [Markers -> {"none", "empty", "written"}]
      /\ \A m \in Markers : m # r => marker'[m] = marker[m]
      /\ marker'[r] \in {marker[r], "none"}
  BY DEF IInv, TypeOK
<1>7. \A q \in Runs : Alive(q)' <=> Alive(q) /\ q # r
  BY <1>0, <1>3, <1>4, <1>5, Constants DEF Alive, IInv, TypeOK, RunRecords
<1>8. TypeOK'
  BY <1>3, <1>4, <1>5, <1>6, <1>7 DEF IInv, TypeOK, Gone, Running
<1>9. LiveMarkerKept' /\ CrashIsNoticed' /\ MarkersOfTheBegun'
  BY <1>3, <1>4, <1>6, Constants
     DEF IInv, TypeOK, LiveMarkerKept, CrashIsNoticed, MarkersOfTheBegun, Gone
<1>10. StaleAreGone' /\ CleanersAreIncomplete' /\ DeadAreGone'
  BY <1>3, <1>4, <1>6, Constants
     DEF IInv, TypeOK, StaleAreGone, CleanersAreIncomplete, DeadAreGone, Gone
<1>11. DeadAreHandled'
  <2> SUFFICES ASSUME NEW q \in Runs
               PROVE  /\ run'[q].opened => run'[q].pc \in {"window", "remove"} \cup Gone
                      /\ \A m \in dead'[q] \cap Runs :
                           \/ marker'[m] = "none"
                           \/ m \in run'[q].todo
                           \/ m = run'[q].stale
                           \/ run'[q].pc \in {"idle", "list"} \cup Gone /\ ~run'[q].opened
    BY DEF DeadAreHandled
  <2>1. CASE q # r
    <3>1. run'[q] = run[q] /\ dead'[q] = dead[q]
      BY <2>1, <1>4
    <3>2. \A m \in Runs : marker[m] = "none" => marker'[m] = "none"
      BY <1>6, Constants
    <3> QED BY <3>1, <3>2 DEF IInv, DeadAreHandled
  <2>2. CASE q = r /\ ~run[r].opened
    BY <2>2, <1>3, <1>4
  <2>3. CASE q = r /\ run[r].opened
    <3>1. run[r].todo = {} /\ run[r].stale = None
      BY <2>3 DEF IInv, TypeOK, DeadAreHandled, Gone
    <3> QED BY <2>3, <3>1, <1>3, <1>4, <1>6, Constants DEF IInv, DeadAreHandled, Gone
  <2> QED BY <2>1, <2>2, <2>3
<1> QED BY <1>8, <1>9, <1>10, <1>11 DEF IInv
-----------------------------------------------------------------------------
(* A step of a run that lives on. *)
LEMMA StepIsTyped ==
  ASSUME IInv, NEW r \in Runs, NEW new \in RunRecords,
         run' = [run EXCEPT ![r] = new],
         run[r].pc \in Running, new.pc \in Running, new.pid = run[r].pid,
         new.todo # {} => new.pc \in {"inspect", "clean"},
         new.stale # None <=> new.pc = "clean",
         UNCHANGED holder,
         marker' \in [Markers -> {"none", "empty", "written"}],
         remover' \in [Markers -> Runs \cup {None}],
         dead' \in [Runs -> SUBSET Markers]
  PROVE  /\ TypeOK'
         /\ run'[r] = new
         /\ \A q \in Runs : q # r => run'[q] = run[q]
<1>1. /\ run' \in [Runs -> RunRecords]
      /\ run'[r] = new
      /\ \A q \in Runs : q # r => run'[q] = run[q]
  BY DEF IInv, TypeOK
<1>2. \A q \in Runs : Alive(q)' <=> Alive(q)
  BY <1>1 DEF Alive
<1>3. "idle" \notin Running
  BY DEF Running
<1>4. \A q \in Runs :
        /\ run'[q].pid = None <=> run'[q].pc = "idle"
        /\ Alive(q)' <=> run'[q].pc \in Running
        /\ run'[q].todo # {} => run'[q].pc \in {"inspect", "clean"}
        /\ run'[q].stale # None <=> run'[q].pc = "clean"
  BY <1>1, <1>2, <1>3 DEF IInv, TypeOK
<1>5. holder' \in [Pids -> Runs \cup {Other, None}]
  BY DEF IInv, TypeOK
<1> QED BY <1>1, <1>4, <1>5 DEF TypeOK

(* The same with the files left alone: from and to where what is asked of   *)
(* the markers is the same.                                                 *)
LEMMA QuietStepKeeps ==
  ASSUME IInv, NEW r \in Runs, NEW new \in RunRecords,
         run' = [run EXCEPT ![r] = new],
         run[r].pc \in Running, new.pc \in Running, new.pid = run[r].pid,
         new.todo # {} => new.pc \in {"inspect", "clean"},
         new.stale # None <=> new.pc = "clean",
         UNCHANGED <<holder, marker, remover>>,
         new.pc \in {"session", "window", "remove"}
           => run[r].pc \in {"session", "window", "remove"},
         new.pc # "write",
         run[r].incomplete => new.incomplete,
         new.pc = "clean" => new.incomplete,
         new.stale \in Runs => run[new.stale].pc \in Gone,
         dead' \in [Runs -> SUBSET Markers],
         \A q \in Runs : q # r => dead'[q] = dead[q],
         dead'[r] \subseteq dead[r],
         new.opened => new.pc \in {"window", "remove"},
         \A m \in dead'[r] \cap Runs :
           \/ marker[m] = "none" \/ m \in new.todo \/ m = new.stale
           \/ new.pc = "list" /\ ~new.opened
  PROVE  IInv'
<1>1. /\ TypeOK'
      /\ run'[r] = new
      /\ \A q \in Runs : q # r => run'[q] = run[q]
  <2>1. /\ marker' \in [Markers -> {"none", "empty", "written"}]
        /\ remover' \in [Markers -> Runs \cup {None}]
    BY DEF IInv, TypeOK
  <2> QED BY <2>1, StepIsTyped
<1>2. run[r].pc \notin Gone /\ new.pc # "idle"
  BY DEF Running, Gone
<1>3. LiveMarkerKept' /\ CrashIsNoticed' /\ MarkersOfTheBegun'
  BY <1>1, <1>2, Constants
     DEF IInv, TypeOK, LiveMarkerKept, CrashIsNoticed, MarkersOfTheBegun
<1>4. \A q \in Runs : run[q].pc \in Gone => run'[q].pc \in Gone
  BY <1>1, <1>2
<1>5. StaleAreGone' /\ CleanersAreIncomplete'
  BY <1>1, <1>4 DEF IInv, StaleAreGone, CleanersAreIncomplete
<1>6. \A q \in Runs : dead'[q] \subseteq dead[q]
  OBVIOUS
<1>7. DeadAreGone'
  BY <1>4, <1>6 DEF IInv, DeadAreGone
<1>8. DeadAreHandled'
  <2> SUFFICES ASSUME NEW q \in Runs
               PROVE  /\ run'[q].opened => run'[q].pc \in {"window", "remove"} \cup Gone
                      /\ \A m \in dead'[q] \cap Runs :
                           \/ marker'[m] = "none"
                           \/ m \in run'[q].todo
                           \/ m = run'[q].stale
                           \/ run'[q].pc \in {"idle", "list"} \cup Gone /\ ~run'[q].opened
    BY DEF DeadAreHandled
  <2>1. CASE q # r
    BY <2>1, <1>1 DEF IInv, DeadAreHandled
  <2>2. CASE q = r
    BY <2>2, <1>1
  <2> QED BY <2>1, <2>2
<1> QED BY <1>1, <1>3, <1>5, <1>7, <1>8 DEF IInv

LEMMA RecordTyped ==
  ASSUME IInv, NEW r \in Runs
  PROVE  /\ run[r] \in RunRecords
         /\ run[r].todo \in SUBSET Markers
         /\ run[r].stale \in Markers \cup {None}
         /\ run[r].incomplete \in BOOLEAN /\ run[r].opened \in BOOLEAN
         /\ dead[r] \in SUBSET Markers
BY DEF IInv, TypeOK, RunRecords

LEMMA FailKeeps ==
  ASSUME IInv, NEW r \in Runs, run[r].pc \in Running, Fail(r)
  PROVE  IInv'
BY LeaveKeeps DEF Fail, Gone

LEMMA ListKeeps ==
  ASSUME IInv, NEW r \in Runs, ListMarkers(r)
  PROVE  IInv'
<1>1. run[r].pc = "list" /\ run[r].pc \in Running
  BY DEF ListMarkers, Running
<1>2. CASE Fail(r)
  BY <1>1, <1>2, FailKeeps
<1>3. CASE ~Fail(r)
  <2> DEFINE present == {m \in Markers : marker[m] # "none"}
  <2>0. PICK unread \in SUBSET present :
          /\ run' = [run EXCEPT ![r].pc = "inspect", ![r].todo = present \ unread]
          /\ dead' = [dead EXCEPT ![r] = @ \ unread]
    BY <1>3 DEF ListMarkers
  <2> DEFINE found == present \ unread
             new == [run[r] EXCEPT !.pc = "inspect", !.todo = found]
  <2>1. run' = [run EXCEPT ![r] = new] /\ UNCHANGED <<holder, marker, remover>>
    BY <1>3, <2>0, RecordTyped DEF ListMarkers, FilesUnchanged, IInv, TypeOK
  <2>6. /\ dead' \in [Runs -> SUBSET Markers]
        /\ dead'[r] = dead[r] \ unread
        /\ \A q \in Runs : q # r => dead'[q] = dead[q]
    BY <2>0 DEF IInv, TypeOK
  <2>2. /\ new \in RunRecords
        /\ new.pc = "inspect" /\ new.pid = run[r].pid /\ new.todo = found
        /\ new.stale = run[r].stale
        /\ new.incomplete = run[r].incomplete /\ new.opened = run[r].opened
    BY RecordTyped DEF RunRecords, Running
  <2>3. \A m \in Markers : marker[m] = "none" \/ m \in found \/ m \in unread
    OBVIOUS
  <2> HIDE DEF new, found
  <2>4. new.stale = None /\ ~new.opened
    BY <1>1, <2>2 DEF IInv, TypeOK, DeadAreHandled, Gone
  <2>5. \A m \in dead'[r] \cap Runs : marker[m] = "none" \/ m \in new.todo
    BY <2>1, <2>2, <2>3, <2>6, Constants
  <2> QED BY <1>1, <2>1, <2>2, <2>4, <2>5, <2>6, Constants, QuietStepKeeps, RecordTyped
          DEF Running, IInv, TypeOK
<1> QED BY <1>2, <1>3

(* A process that does not run any more has none of the PIDs. *)
LEMMA OverIsGone ==
  ASSUME IInv, NEW m \in Runs, Over(m), run[m].pc # "idle"
  PROVE  run[m].pc \in Gone
<1>1. PidOf(m) = run[m].pid
  BY Constants DEF PidOf
<1>2. ~Alive(m)
  BY <1>1, Constants DEF Alive, Over
<1> QED BY <1>2, RecordTyped DEF IInv, TypeOK, RunRecords

LEMMA GoneIsOver ==
  ASSUME IInv, NEW m \in Runs, run[m].pc \in Gone
  PROVE  Over(m)
<1>1. ~Alive(m) /\ run[m].pid # None
  BY DEF IInv, TypeOK, Gone, Running
<1> QED BY <1>1, Constants DEF Alive, Over, PidOf

LEMMA InspectKeeps ==
  ASSUME IInv, NEW r \in Runs, NEW m \in Markers, InspectMarker(r, m)
  PROVE  IInv'
<1> DEFINE rest == [run[r] EXCEPT !.todo = @ \ {m}]
           seen == [rest EXCEPT !.incomplete = TRUE]
           removing == [seen EXCEPT !.pc = "clean", !.stale = m]
<1>1. run[r].pc = "inspect" /\ run[r].pc \in Running /\ m \in run[r].todo
  BY DEF InspectMarker, Running
<1>2. UNCHANGED <<holder, marker, remover>>
  BY DEF InspectMarker, FilesUnchanged
<1>3. /\ rest \in RunRecords
      /\ rest.pc = "inspect" /\ rest.pid = run[r].pid /\ rest.stale = run[r].stale
      /\ rest.todo = run[r].todo \ {m}
      /\ rest.incomplete = run[r].incomplete /\ rest.opened = run[r].opened
  BY <1>1, RecordTyped DEF RunRecords
<1>4. /\ seen \in RunRecords
      /\ seen.pc = "inspect" /\ seen.pid = run[r].pid /\ seen.stale = run[r].stale
      /\ seen.todo = run[r].todo \ {m}
      /\ seen.incomplete /\ seen.opened = run[r].opened
  BY <1>1, RecordTyped DEF RunRecords
<1>5. /\ removing \in RunRecords
      /\ removing.pc = "clean" /\ removing.pid = run[r].pid /\ removing.stale = m
      /\ removing.todo = run[r].todo \ {m}
      /\ removing.incomplete /\ removing.opened = run[r].opened
  BY <1>1, RecordTyped DEF RunRecords, Running
<1>6. run[r].stale = None /\ ~run[r].opened
  BY <1>1 DEF IInv, TypeOK, DeadAreHandled, Gone
<1>7. \A d \in dead[r] \cap Runs : marker[d] = "none" \/ d \in run[r].todo
  BY <1>1, <1>6, Constants DEF IInv, DeadAreHandled, Gone
<1>8. \A d \in dead[r] \cap Runs :
        run[d].pc \in Gone /\ marker[d] \in {"none", "written"}
  BY DEF IInv, DeadAreGone
<1>9. CASE marker[m] = "none" /\ run' = [run EXCEPT ![r] = rest] /\ UNCHANGED dead
  <2> HIDE DEF rest
  <2>1. \A d \in dead'[r] \cap Runs : marker[d] = "none" \/ d \in rest.todo
    BY <1>3, <1>7, <1>9
  <2> QED BY <1>1, <1>2, <1>3, <1>6, <1>9, <2>1, Constants, QuietStepKeeps, RecordTyped
          DEF Running, IInv, TypeOK
<1>10. CASE /\ marker[m] # "none" /\ (~Stale(m) \/ Denied(m))
            /\ run' = [run EXCEPT ![r] = seen]
            /\ dead' = [dead EXCEPT ![r] = IF Denied(m) THEN @ \ {m} ELSE @]
  <2> HIDE DEF seen
  <2>1. /\ dead' \in [Runs -> SUBSET Markers]
        /\ \A q \in Runs : q # r => dead'[q] = dead[q]
        /\ dead'[r] = IF Denied(m) THEN dead[r] \ {m} ELSE dead[r]
    BY <1>10 DEF IInv, TypeOK
  <2>2. m \notin dead'[r] \cap Runs
    <3>1. CASE Denied(m)
      BY <2>1, <3>1
    <3>2. CASE ~Denied(m)
      <4> SUFFICES ASSUME m \in dead[r] \cap Runs PROVE FALSE
        BY <2>1, <3>2
      <4>1. marker[m] = "written" /\ Over(m)
        BY <1>8, <1>10, GoneIsOver
      <4> QED BY <1>10, <3>2, <4>1 DEF Stale
    <3> QED BY <3>1, <3>2
  <2>3. \A d \in dead'[r] \cap Runs : marker[d] = "none" \/ d \in seen.todo
    BY <1>4, <1>7, <2>1, <2>2
  <2> QED BY <1>1, <1>2, <1>4, <1>6, <1>10, <2>1, <2>3, Constants, QuietStepKeeps
          DEF Running
<1>11. CASE /\ Stale(m)
            /\ run' = [run EXCEPT ![r] = removing]
            /\ UNCHANGED dead
  <2> HIDE DEF removing
  <2>1. m \in Runs => run[m].pc \in Gone
    BY <1>11, OverIsGone DEF Stale, IInv, MarkersOfTheBegun
  <2>2. \A d \in dead'[r] \cap Runs :
          marker[d] = "none" \/ d \in removing.todo \/ d = removing.stale
    BY <1>5, <1>7, <1>11
  <2>3. dead' \in [Runs -> SUBSET Markers] /\ m # None
    BY <1>11, Constants DEF IInv, TypeOK
  <2> QED BY <1>1, <1>2, <1>5, <1>6, <1>11, <2>1, <2>2, <2>3, Constants, QuietStepKeeps
          DEF Running
<1> QED BY <1>9, <1>10, <1>11 DEF InspectMarker

LEMMA RemoveStaleKeeps ==
  ASSUME IInv, NEW r \in Runs, RemoveStale(r)
  PROVE  IInv'
<1>1. run[r].pc = "clean" /\ run[r].pc \in Running
  BY DEF RemoveStale, Running
<1>2. CASE Fail(r)
  BY <1>1, <1>2, FailKeeps
<1>3. CASE ~Fail(r)
  <2> DEFINE m == run[r].stale
             new == [run[r] EXCEPT !.pc = "inspect", !.stale = None]
  <2>1. m \in Markers
    BY <1>1, RecordTyped DEF IInv, TypeOK
  <2>2. /\ run' = [run EXCEPT ![r] = new]
        /\ marker' = [marker EXCEPT ![m] = "none"]
        /\ remover' = [remover EXCEPT ![m] = IF marker[m] = "none" THEN @ ELSE r]
        /\ UNCHANGED <<holder, dead>>
    BY <1>3, RecordTyped DEF RemoveStale, IInv, TypeOK
  <2>3. /\ new \in RunRecords
        /\ new.pc = "inspect" /\ new.pid = run[r].pid /\ new.todo = run[r].todo
        /\ new.stale = None
        /\ new.incomplete = run[r].incomplete /\ new.opened = run[r].opened
    BY RecordTyped DEF RunRecords, Running
  <2>4. m \in Runs => run[m].pc \in Gone
    BY DEF IInv, StaleAreGone
  <2> HIDE DEF m, new
  <2>5. /\ marker' \in [Markers -> {"none", "empty", "written"}]
        /\ marker'[m] = "none"
        /\ \A n \in Markers : n # m => marker'[n] = marker[n]
    BY <2>1, <2>2 DEF IInv, TypeOK
  <2>6. /\ remover' \in [Markers -> Runs \cup {None}]
        /\ remover'[m] \in {remover[m], r}
        /\ \A n \in Markers : n # m => remover'[n] = remover[n]
    BY <2>1, <2>2 DEF IInv, TypeOK
  <2>7. /\ TypeOK'
        /\ run'[r] = new
        /\ \A q \in Runs : q # r => run'[q] = run[q]
    BY <1>1, <2>2, <2>3, <2>5, <2>6, StepIsTyped DEF Running, IInv, TypeOK
  <2>8. LiveMarkerKept'
    BY <2>1, <2>3, <2>4, <2>5, <2>7, Constants DEF IInv, LiveMarkerKept, Gone
  <2>9. CrashIsNoticed'
    <3>1. run[r].incomplete
      BY <1>1 DEF IInv, CleanersAreIncomplete
    <3>2. \A q \in Runs : run[q].incomplete => run'[q].incomplete
      BY <2>3, <2>7
    <3>3. \A n \in Markers : remover'[n] \in {remover[n], r}
      BY <2>6
    <3>4. \A n \in Markers : remover[n] \in Runs \cup {None}
      BY DEF IInv, TypeOK
    <3> QED BY <3>1, <3>2, <3>3, <3>4 DEF IInv, CrashIsNoticed
  <2>10. MarkersOfTheBegun' /\ CleanersAreIncomplete'
    BY <2>3, <2>5, <2>7, Constants DEF IInv, MarkersOfTheBegun, CleanersAreIncomplete
  <2>11. \A q \in Runs : run[q].pc \in Gone => run'[q].pc \in Gone
    BY <1>1, <2>3, <2>7 DEF Gone
  <2>12. StaleAreGone'
    BY <2>3, <2>7, <2>11, Constants DEF IInv, StaleAreGone
  <2>13. DeadAreGone'
    BY <2>2, <2>5, <2>11, Constants DEF IInv, DeadAreGone
  <2>14. DeadAreHandled'
    <3> SUFFICES ASSUME NEW q \in Runs
                 PROVE  /\ run'[q].opened => run'[q].pc \in {"window", "remove"} \cup Gone
                        /\ \A d \in dead'[q] \cap Runs :
                             \/ marker'[d] = "none"
                             \/ d \in run'[q].todo
                             \/ d = run'[q].stale
                             \/ run'[q].pc \in {"idle", "list"} \cup Gone
                                /\ ~run'[q].opened
      BY DEF DeadAreHandled
    <3>1. \A d \in Runs : marker[d] = "none" => marker'[d] = "none"
      BY <2>5, Constants
    <3>2. CASE q # r
      BY <2>2, <2>7, <3>1, <3>2 DEF IInv, DeadAreHandled
    <3>3. CASE q = r
      <4>1. ~run[r].opened
        BY <1>1 DEF IInv, DeadAreHandled, Gone
      <4>2. \A d \in dead[r] \cap Runs :
              marker[d] = "none" \/ d \in run[r].todo \/ d = m
        BY <1>1 DEF IInv, DeadAreHandled, Gone, m
      <4> QED BY <2>2, <2>3, <2>5, <2>7, <3>1, <3>3, <4>1, <4>2
    <3> QED BY <3>2, <3>3
  <2> QED BY <2>7, <2>8, <2>9, <2>10, <2>12, <2>13, <2>14 DEF IInv
<1> QED BY <1>2, <1>3

(* What a run has taken care of when its list is at its end. *)
LEMMA LaterAllAreHandled ==
  ASSUME IInv, NEW r \in Runs, run[r].todo = {}, run[r].stale = None,
         run[r].pc \notin {"idle", "list"} \cup Gone
  PROVE  \A m \in dead[r] \cap Runs : marker[m] = "none"
BY Constants DEF IInv, DeadAreHandled

(* The steps that only change where the run is, and whether its window was  *)
(* opened.                                                                  *)
LEMMA MoveKeeps ==
  ASSUME IInv, NEW r \in Runs, NEW pc \in {"create", "window", "remove"},
         NEW opened \in BOOLEAN,
         run[r].pc \in Running, run[r].todo = {}, run[r].stale = None,
         run[r].pc # "list",
         pc \in {"window", "remove"} => run[r].pc \in {"session", "window"},
         opened => pc \in {"window", "remove"},
         run' = [run EXCEPT ![r].pc = pc, ![r].opened = opened],
         UNCHANGED <<holder, marker, remover, dead>>
  PROVE  IInv'
<1> DEFINE new == [run[r] EXCEPT !.pc = pc, !.opened = opened]
<1>1. run' = [run EXCEPT ![r] = new]
  BY RecordTyped DEF IInv, TypeOK
<1>2. /\ new \in RunRecords
      /\ new.pc = pc /\ new.pid = run[r].pid /\ new.todo = {} /\ new.stale = None
      /\ new.incomplete = run[r].incomplete /\ new.opened = opened
  BY RecordTyped DEF RunRecords, Running
<1> HIDE DEF new
<1>3. \A m \in dead'[r] \cap Runs : marker[m] = "none"
  <2>1. run[r].pc \notin {"idle", "list"} \cup Gone
    BY DEF Running, Gone
  <2>2. dead'[r] = dead[r]
    OBVIOUS
  <2> QED BY <2>1, <2>2, LaterAllAreHandled
<1>4. dead' \in [Runs -> SUBSET Markers] /\ dead' = dead
  BY DEF IInv, TypeOK
<1>5. pc \in Running /\ pc \notin {"inspect", "clean", "list", "write"}
  BY DEF Running
<1>6. run[r].incomplete => new.incomplete
  BY <1>2
<1>7. new.stale \in Runs => run[new.stale].pc \in Gone
  BY <1>2, Constants
<1>8. new.pc \in {"session", "window", "remove"}
        => run[r].pc \in {"session", "window", "remove"}
  BY <1>2
<1> QED BY <1>1, <1>2, <1>3, <1>4, <1>5, <1>6, <1>7, <1>8, QuietStepKeeps

LEMMA LoadConfigKeeps ==
  ASSUME IInv, NEW r \in Runs, LoadConfig(r)
  PROVE  IInv'
<1>1. run[r].pc = "inspect" /\ run[r].pc \in Running /\ run[r].todo = {}
  BY DEF LoadConfig, Running
<1>2. run[r].stale = None /\ run[r].opened = FALSE
  BY <1>1, RecordTyped DEF IInv, TypeOK, DeadAreHandled, Gone
<1>3. CASE Fail(r)
  BY <1>1, <1>3, FailKeeps
<1>4. CASE Goto(r, "create") /\ UNCHANGED <<holder, dead>> /\ FilesUnchanged
  <2>1. run' = [run EXCEPT ![r].pc = "create", ![r].opened = FALSE]
    BY <1>2, <1>4, RecordTyped DEF Goto, IInv, TypeOK, RunRecords
  <2> QED BY <1>1, <1>2, <1>4, <2>1, MoveKeeps DEF FilesUnchanged
<1> QED BY <1>3, <1>4 DEF LoadConfig

LEMMA OpenWindowKeeps ==
  ASSUME IInv, NEW r \in Runs, OpenWindow(r)
  PROVE  IInv'
<1>1. run[r].pc = "session" /\ run[r].pc \in Running
  BY DEF OpenWindow, Running
<1>2. run[r].todo = {} /\ run[r].stale = None
  BY <1>1 DEF IInv, TypeOK
<1>3. CASE Fail(r)
  BY <1>1, <1>3, FailKeeps
<1>4. CASE ~Fail(r)
  <2>1. /\ run' = [run EXCEPT ![r].pc = "window", ![r].opened = TRUE]
        /\ UNCHANGED <<holder, marker, remover, dead>>
    BY <1>4 DEF OpenWindow, FilesUnchanged
  <2>2. TRUE \in BOOLEAN
    OBVIOUS
  <2> QED BY <1>1, <1>2, <2>1, <2>2, MoveKeeps, Zenon
<1> QED BY <1>3, <1>4

LEMMA CloseWindowKeeps ==
  ASSUME IInv, NEW r \in Runs, CloseWindow(r)
  PROVE  IInv'
<1>1. run[r].pc = "window" /\ run[r].pc \in Running
  BY DEF CloseWindow, Running
<1>2. run[r].todo = {} /\ run[r].stale = None
  BY <1>1 DEF IInv, TypeOK
<1>3. CASE Fail(r)
  BY <1>1, <1>3, FailKeeps
<1>4. CASE Goto(r, "remove") /\ UNCHANGED <<holder, dead>> /\ FilesUnchanged
  <2>1. run' = [run EXCEPT ![r].pc = "remove", ![r].opened = run[r].opened]
    BY <1>4, RecordTyped DEF Goto, IInv, TypeOK, RunRecords
  <2> QED BY <1>1, <1>2, <1>4, <2>1, MoveKeeps, RecordTyped DEF FilesUnchanged
<1> QED BY <1>3, <1>4 DEF CloseWindow

-----------------------------------------------------------------------------
(* A run at its own marker. *)
LEMMA OwnMarkerKeeps ==
  ASSUME IInv, NEW r \in Runs, run[r].pc \in {"create", "write"},
         NEW pc \in {"write", "session"}, NEW state,
         state = IF pc = "write" THEN "empty" ELSE "written",
         Goto(r, pc),
         marker' = [marker EXCEPT ![r] = state],
         UNCHANGED <<holder, remover, dead>>
  PROVE  IInv'
<1> DEFINE new == [run[r] EXCEPT !.pc = pc]
<1>1. run' = [run EXCEPT ![r] = new]
  BY RecordTyped DEF Goto, IInv, TypeOK
<1>2. run[r].pc \in Running /\ run[r].todo = {} /\ run[r].stale = None
  BY DEF IInv, TypeOK, Running
<1>3. /\ new \in RunRecords
      /\ new.pc = pc /\ new.pid = run[r].pid /\ new.todo = {} /\ new.stale = None
      /\ new.incomplete = run[r].incomplete /\ new.opened = run[r].opened
  BY <1>2, RecordTyped DEF RunRecords, Running
<1> HIDE DEF new
<1>4. /\ marker' \in [Markers -> {"none", "empty", "written"}]
      /\ marker'[r] = state
      /\ \A m \in Markers : m # r => marker'[m] = marker[m]
  BY Constants DEF IInv, TypeOK
<1>5. /\ TypeOK'
      /\ run'[r] = new
      /\ \A q \in Runs : q # r => run'[q] = run[q]
  <2>1. remover' \in [Markers -> Runs \cup {None}] /\ dead' \in [Runs -> SUBSET Markers]
    BY DEF IInv, TypeOK
  <2> QED BY <1>1, <1>2, <1>3, <1>4, <2>1, StepIsTyped DEF Running
<1>6. LiveMarkerKept'
  BY <1>3, <1>4, <1>5, Constants DEF IInv, LiveMarkerKept
<1>7. CrashIsNoticed' /\ MarkersOfTheBegun' /\ CleanersAreIncomplete'
  BY <1>3, <1>4, <1>5, Constants
     DEF IInv, TypeOK, CrashIsNoticed, MarkersOfTheBegun, CleanersAreIncomplete
<1>8. /\ run[r].pc \notin Gone
      /\ \A q \in Runs : run[q].pc \in Gone => run'[q].pc \in Gone
  BY <1>5 DEF Gone
<1>9. StaleAreGone'
  BY <1>3, <1>5, <1>8, Constants DEF IInv, StaleAreGone
<1>10. \A q \in Runs : r \notin dead[q]
  BY <1>8 DEF IInv, DeadAreGone
<1>11. DeadAreGone'
  BY <1>4, <1>8, <1>10, Constants DEF IInv, DeadAreGone
<1>12. DeadAreHandled'
  <2>1. \A m \in dead[r] \cap Runs : marker[m] = "none"
    BY <1>2, LaterAllAreHandled DEF Gone
  <2>2. ~run[r].opened
    BY DEF IInv, DeadAreHandled, Gone
  <2> SUFFICES ASSUME NEW q \in Runs
               PROVE  /\ run'[q].opened => run'[q].pc \in {"window", "remove"} \cup Gone
                      /\ \A d \in dead'[q] \cap Runs :
                           \/ marker'[d] = "none"
                           \/ d \in run'[q].todo
                           \/ d = run'[q].stale
                           \/ run'[q].pc \in {"idle", "list"} \cup Gone
                              /\ ~run'[q].opened
    BY DEF DeadAreHandled
  <2>3. \A d \in dead'[q] \cap Runs : marker'[d] = marker[d]
    BY <1>4, <1>10, Constants
  <2>4. CASE q # r
    BY <1>5, <2>3, <2>4 DEF IInv, DeadAreHandled
  <2>5. CASE q = r
    BY <1>3, <1>5, <2>1, <2>2, <2>3, <2>5
  <2> QED BY <2>4, <2>5
<1> QED BY <1>5, <1>6, <1>7, <1>9, <1>11, <1>12 DEF IInv

LEMMA CreateMarkerKeeps ==
  ASSUME IInv, NEW r \in Runs, CreateMarker(r)
  PROVE  IInv'
<1>1. run[r].pc = "create" /\ run[r].pc \in Running
  BY DEF CreateMarker, Running
<1>2. CASE Fail(r)
  BY <1>1, <1>2, FailKeeps
<1>3. CASE ~Fail(r)
  BY <1>1, <1>3, OwnMarkerKeeps DEF CreateMarker
<1> QED BY <1>2, <1>3

LEMMA WriteMarkerKeeps ==
  ASSUME IInv, NEW r \in Runs, WriteMarker(r)
  PROVE  IInv'
<1>1. run[r].pc = "write" /\ run[r].pc \in Running
  BY DEF WriteMarker, Running
<1>2. CASE Fail(r)
  BY <1>1, <1>2, FailKeeps
<1>3. CASE /\ marker' = [marker EXCEPT ![r] = IF @ = "none" THEN @ ELSE "written"]
           /\ Goto(r, "session")
           /\ UNCHANGED <<holder, remover, dead>>
  <2>1. marker[r] = "empty"
    BY <1>1 DEF IInv, LiveMarkerKept
  <2>2. marker' = [marker EXCEPT ![r] = "written"]
    BY <1>3, <2>1
  <2> QED BY <1>1, <1>3, <2>2, OwnMarkerKeeps
<1>4. CASE /\ marker' = [marker EXCEPT ![r] = "none"]
           /\ Leave(r, "failed")
           /\ UNCHANGED <<remover, dead>>
  BY <1>1, <1>4, LeaveKeeps DEF Gone
<1> QED BY <1>2, <1>3, <1>4 DEF WriteMarker

LEMMA RemoveMarkerKeeps ==
  ASSUME IInv, NEW r \in Runs, RemoveMarker(r)
  PROVE  IInv'
<1>1. run[r].pc \in Running
  BY DEF RemoveMarker, Running
<1> QED BY <1>1, LeaveKeeps DEF RemoveMarker, Gone

LEMMA DieKeeps ==
  ASSUME IInv, NEW r \in Runs, Die(r)
  PROVE  IInv'
<1>1. run[r].pc \in Running
  BY DEF Die, IInv, TypeOK
<1> QED BY <1>1, LeaveKeeps DEF Die, Gone

-----------------------------------------------------------------------------
(* The environment. *)
LEMMA OtherProcessKeeps ==
  ASSUME IInv, NEW pid \in Pids, OtherProcess(pid)
  PROVE  IInv'
<1>1. UNCHANGED <<marker, run, remover, dead>>
  BY DEF OtherProcess
<1>2. holder' \in [Pids -> Runs \cup {Other, None}]
  BY DEF OtherProcess, IInv, TypeOK
<1>3. \A q \in Runs : Alive(q)' <=> Alive(q)
  <2> SUFFICES ASSUME NEW q \in Runs PROVE Alive(q)' <=> Alive(q)
    OBVIOUS
  <2>1. run[q].pid \in Pids \cup {None}
    BY DEF IInv, TypeOK, RunRecords
  <2>2. \A p \in Pids : p # pid => holder'[p] = holder[p]
    BY DEF OtherProcess, IInv, TypeOK
  <2>3. holder[pid] \notin Runs /\ holder'[pid] \notin Runs
    BY Constants DEF OtherProcess, IInv, TypeOK
  <2> QED BY <1>1, <2>1, <2>2, <2>3 DEF Alive
<1>4. TypeOK'
  BY <1>1, <1>2, <1>3 DEF IInv, TypeOK
<1> QED BY <1>1, <1>4
        DEF IInv, LiveMarkerKept, CrashIsNoticed, MarkersOfTheBegun, StaleAreGone,
            CleanersAreIncomplete, DeadAreGone, DeadAreHandled

LEMMA BeginKeeps ==
  ASSUME IInv, NEW r \in Runs, Begin(r)
  PROVE  IInv'
<1> DEFINE found == {m \in Markers : marker[m] = "written" /\ Over(m)}
<1>1. run[r].pc = "idle" /\ run[r].pid = None
  BY DEF Begin, IInv, TypeOK
<1>2. PICK pid \in Pids : /\ holder[pid] = None
                          /\ holder' = [holder EXCEPT ![pid] = r]
                          /\ run' = [run EXCEPT ![r].pc = "list", ![r].pid = pid]
  BY DEF Begin
<1>3. dead' = [dead EXCEPT ![r] = found] /\ UNCHANGED <<marker, remover>>
  BY DEF Begin, FilesUnchanged
<1>4. \A m \in found \cap Runs : run[m].pc \in Gone /\ marker[m] = "written"
  BY OverIsGone DEF IInv, MarkersOfTheBegun
<1>5. found \in SUBSET Markers
  OBVIOUS
<1> HIDE DEF found
<1> DEFINE new == [run[r] EXCEPT !.pc = "list", !.pid = pid]
<1>6. run' = [run EXCEPT ![r] = new]
  BY <1>2, RecordTyped DEF IInv, TypeOK
<1>7. /\ new \in RunRecords
      /\ new.pc = "list" /\ new.pid = pid /\ new.todo = run[r].todo
      /\ new.stale = run[r].stale
      /\ new.incomplete = run[r].incomplete /\ new.opened = run[r].opened
  BY RecordTyped DEF RunRecords, Running
<1>8. new.todo = {} /\ new.stale = None /\ ~new.opened
  BY <1>1, <1>7 DEF IInv, TypeOK, DeadAreHandled, Gone
<1> HIDE DEF new
<1>9. /\ run' \in [Runs -> RunRecords]
      /\ run'[r] = new
      /\ \A q \in Runs : q # r => run'[q] = run[q]
  BY <1>6, <1>7 DEF IInv, TypeOK
<1>10. /\ holder' \in [Pids -> Runs \cup {Other, None}]
       /\ holder'[pid] = r
       /\ \A p \in Pids : p # pid => holder'[p] = holder[p]
  BY <1>2 DEF IInv, TypeOK
<1>11. /\ dead' \in [Runs -> SUBSET Markers]
       /\ dead'[r] = found
       /\ \A q \in Runs : q # r => dead'[q] = dead[q]
  BY <1>3, <1>5 DEF IInv, TypeOK
<1>12. \A q \in Runs : Alive(q)' <=> Alive(q) \/ q = r
  <2> SUFFICES ASSUME NEW q \in Runs PROVE Alive(q)' <=> Alive(q) \/ q = r
    OBVIOUS
  <2>1. run[q].pid \in Pids \cup {None}
    BY DEF IInv, TypeOK, RunRecords
  <2>2. CASE q = r
    BY <1>7, <1>9, <1>10, <2>2, Constants DEF Alive
  <2>3. CASE q # r
    BY <1>2, <1>9, <1>10, <2>1, <2>3, Constants DEF Alive
  <2> QED BY <2>2, <2>3
<1>13. TypeOK'
  <2>1. \A q \in Runs :
          /\ run'[q].pid = None <=> run'[q].pc = "idle"
          /\ Alive(q)' <=> run'[q].pc \in Running
          /\ run'[q].todo # {} => run'[q].pc \in {"inspect", "clean"}
          /\ run'[q].stale # None <=> run'[q].pc = "clean"
    BY <1>7, <1>8, <1>9, <1>12, Constants DEF IInv, TypeOK, Running
  <2>2. /\ marker' \in [Markers -> {"none", "empty", "written"}]
        /\ remover' \in [Markers -> Runs \cup {None}]
    BY <1>3 DEF IInv, TypeOK
  <2> QED BY <1>9, <1>10, <1>11, <2>1, <2>2 DEF TypeOK
<1>14. \A q \in Runs : run[q].pc \in Gone => run'[q].pc \in Gone
  BY <1>1, <1>9 DEF Gone
<1>15. LiveMarkerKept' /\ CrashIsNoticed' /\ MarkersOfTheBegun'
  BY <1>3, <1>7, <1>9
     DEF IInv, TypeOK, LiveMarkerKept, CrashIsNoticed, MarkersOfTheBegun
<1>16. StaleAreGone' /\ CleanersAreIncomplete'
  BY <1>7, <1>8, <1>9, <1>14, Constants DEF IInv, StaleAreGone, CleanersAreIncomplete
<1>17. DeadAreGone'
  BY <1>3, <1>4, <1>11, <1>14 DEF IInv, DeadAreGone
<1>18. DeadAreHandled'
  BY <1>3, <1>7, <1>8, <1>9, <1>11 DEF IInv, DeadAreHandled
<1> QED BY <1>13, <1>15, <1>16, <1>17, <1>18 DEF IInv

LEMMA NextKeeps == IInv /\ [Next]_vars => IInv'
<1> SUFFICES ASSUME IInv, [Next]_vars PROVE IInv'
  OBVIOUS
<1>1. CASE UNCHANGED vars
  BY <1>1 DEF vars, IInv, TypeOK, Alive, LiveMarkerKept, CrashIsNoticed,
              MarkersOfTheBegun, StaleAreGone, CleanersAreIncomplete, DeadAreGone,
              DeadAreHandled
<1>2. ASSUME NEW r \in Runs, Begin(r) \/ Step(r) \/ Die(r) PROVE IInv'
  <2>1. CASE InspectFails(r)
    BY <2>1, FailKeeps DEF InspectFails, Running
  <2> QED BY <1>2, <2>1, BeginKeeps, ListKeeps, InspectKeeps, RemoveStaleKeeps,
             LoadConfigKeeps, CreateMarkerKeeps, WriteMarkerKeeps, OpenWindowKeeps,
             CloseWindowKeeps, RemoveMarkerKeeps, DieKeeps DEF Step
<1>3. ASSUME NEW pid \in Pids, OtherProcess(pid) PROVE IInv'
  BY <1>3, OtherProcessKeeps
<1> QED BY <1>1, <1>2, <1>3 DEF Next

-----------------------------------------------------------------------------
LEMMA InvHolds == Spec => []IInv
BY InitHolds, NextKeeps, PTL DEF Spec

(* A process that runs holds its PID, and one that does not holds none, and *)
(* the variables stay in their types.                                       *)
THEOREM TypesHold == Spec => []TypeOK
<1>1. IInv => TypeOK
  BY DEF IInv
<1> QED BY <1>1, InvHolds, PTL

(* However many runs overlap, die and share PIDs: no start removes the      *)
(* marker of a run that is still there.                                     *)
THEOREM LiveMarkersAreKept == Spec => []LiveMarkerKept
<1>1. IInv => LiveMarkerKept
  BY DEF IInv
<1> QED BY <1>1, InvHolds, PTL

(* Whoever removes a marker runs in recovery.                               *)
THEOREM CrashesAreNoticed == Spec => []CrashIsNoticed
<1>1. IInv => CrashIsNoticed
  BY DEF IInv
<1> QED BY <1>1, InvHolds, PTL

(* A run that opens its window has left no marker of a process that was     *)
(* over when it began and could be identified, not even one whose PID       *)
(* belongs to somebody else by now.                                         *)
THEOREM StaleMarkersDisappear == Spec => []StaleMarkersAreRemoved
<1>1. ASSUME IInv PROVE StaleMarkersAreRemoved
  <2> SUFFICES ASSUME NEW r \in Runs, run[r].opened, NEW m \in dead[r] \ {Legacy}
               PROVE  marker[m] = "none"
    BY DEF StaleMarkersAreRemoved
  <2>1. m \in Runs
    BY <1>1, RecordTyped DEF Markers
  <2>2. run[r].pc \in {"window", "remove"} \cup Gone
    BY <1>1 DEF IInv, DeadAreHandled
  <2>3. run[r].todo = {} /\ run[r].stale = None
    BY <1>1, <2>2 DEF IInv, TypeOK, Gone
  <2> QED BY <1>1, <2>1, <2>3, Constants DEF IInv, DeadAreHandled
<1> QED BY <1>1, InvHolds, PTL
=============================================================================
