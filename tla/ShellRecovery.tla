---------------------------- MODULE ShellRecovery ----------------------------
(***************************************************************************)
(* The startup transaction of the GUI (rustnt-gui shell_recovery.rs):      *)
(* every run leaves a session file while it lives and a line in a bounded  *)
(* log for each thing that happened, so that the next run can tell whether *)
(* the last one ended as it should.  A named mutex makes the critical      *)
(* sections of concurrent runs exclusive; within one, every file operation *)
(* is a step, after any of which the process may die or the operation may  *)
(* fail.  No file is ever half written: the new content is put in the      *)
(* place of the old as a whole.  But a replacement that does not come to   *)
(* its end may leave neither.                                              *)
(***************************************************************************)
EXTENDS Integers, Sequences

CONSTANTS
  Runs,          \* runs of the GUI, each with its own nonce
  LogCapacity,   \* events the log holds (MAX_LOG_BYTES)
  Damageable,    \* the files ("log", "session") found damaged at the start
  Absent, Damaged, Free, Nothing

States   == {"starting", "running", "snapshot_unavailable", "completed"}
Sessions == [owner : Runs, state : States]

ASSUME ShellRecoveryAssumption ==
  /\ LogCapacity \in Nat \ {0}
  /\ Damageable \subseteq {"log", "session"}
  /\ {Absent, Damaged, Free, Nothing} \cap Runs = {}
  /\ {Absent, Damaged} \cap Sessions = {}
  /\ Absent # Damaged

VARIABLES
  pc,        \* where each run is
  lock,      \* the run that owns the named mutex, or Free
  session,   \* shell.session: Absent, Damaged, or [owner, state]
  log,       \* shell_recovery.log: the events it holds, or Damaged
  buffer,    \* the log as a run has read it, before it writes it back
  previous,  \* the run whose session begin_startup found unfinished
  history,   \* history: every event ever stored, in order
  lost       \* history: the runs whose own replacement lost their session, and
             \* how many events had been stored when one last lost the log

files == <<session, log, lost>>
vars == <<pc, lock, session, log, buffer, previous, history, lost>>

-----------------------------------------------------------------------------
(* Where a run is outside every critical section. *)
Outside == {"off", "start", "collect", "saved", "unavailable", "marking",
            "window", "closing", "done", "failed", "dead"}

Alive(r) == pc[r] \notin {"off", "done", "failed", "dead"}

(* Variant: a run in its window still has the mutex. *)
MoveUnlessWindow(r, next) ==
  /\ pc' = [pc EXCEPT ![r] = next]
  /\ lock' = IF next \in Outside \ {"window"} /\ lock = r THEN Free ELSE lock

(* Leaving a critical section drops the guard of the mutex. *)
Move(r, next) ==
  /\ pc' = [pc EXCEPT ![r] = next]
  /\ lock' = IF next \in Outside /\ lock = r THEN Free ELSE lock

(* The run is over, by an error or by its death.                            *)
End(r, how) ==
  /\ Move(r, how)
  /\ buffer' = [buffer EXCEPT ![r] = Nothing]
  /\ UNCHANGED <<previous, history>>

(* Every error of a section is returned through the run to main.            *)
Fail(r) == End(r, "failed") /\ UNCHANGED files

-----------------------------------------------------------------------------
(* run_gui, as far as the transaction is concerned. *)

Launch(r) ==
  /\ pc[r] = "off"
  /\ Move(r, "start")
  /\ UNCHANGED <<files, buffer, previous, history>>

(* Variant: a snapshot that failed is shown to the user, but not recorded. *)
CollectSnapshotUnrecorded(r) ==
  /\ pc[r] = "collect"
  /\ \E outcome \in {"saved", "marking"} : Move(r, outcome)
  /\ UNCHANGED <<files, buffer, previous, history>>

(* collect_snapshot and save_snapshot: either may fail, the run goes on.    *)
CollectSnapshot(r) ==
  /\ pc[r] = "collect"
  /\ \E outcome \in {"saved", "unavailable"} : Move(r, outcome)
  /\ UNCHANGED <<files, buffer, previous, history>>

(* The user closes the window; only then is the exit a normal one.          *)
CloseWindow(r) ==
  /\ pc[r] = "window"
  /\ Move(r, "closing")
  /\ UNCHANGED <<files, buffer, previous, history>>

(* eframe returns an error: finish_run_native skips the cleanup.            *)
WindowError(r) == pc[r] = "window" /\ Fail(r)

-----------------------------------------------------------------------------
(* lock_session_coordinator: an infinite wait.  A mutex whose owner died is *)
(* granted like a free one (WAIT_ABANDONED_0).                              *)
Entered ==
  [start |-> "begin", saved |-> "ownSaved", unavailable |-> "ownUnavailable",
   marking |-> "ownMark", closing |-> "ownExit"]

Lock(r) ==
  /\ pc[r] \in DOMAIN Entered
  /\ lock = Free
  /\ lock' = r
  /\ pc' = [pc EXCEPT ![r] = Entered[pc[r]]]
  /\ UNCHANGED <<files, buffer, previous, history>>

LockError(r) == pc[r] \in DOMAIN Entered /\ Fail(r)

(* Variant: only a run that had reached its window counts as unfinished. *)
UnfinishedOnlyRunning == session # Absent /\ session.state = "running"

(* begin_startup looks for what the run before it has left behind.          *)
Unfinished == session # Absent /\ session.state # "completed"

ReadSession(r) ==
  /\ pc[r] = "begin"
  /\ session # Damaged
  /\ Move(r, IF Unfinished THEN "logRecovery" ELSE "writeStarting")
  /\ previous' = [previous EXCEPT ![r] = IF Unfinished THEN session.owner
                                                       ELSE Nothing]
  /\ UNCHANGED <<files, buffer, history>>

(* Variant: any session file is taken for the run's own. *)
OwnsAny(r) == session \notin {Absent, Damaged}

(* owns_current_session_locked: the file bears the nonce of this run.       *)
Owns(r) == session \notin {Absent, Damaged} /\ session.owner = r

OwnedNext == [ownSaved |-> "logSaved", ownUnavailable |-> "logUnavailable",
              ownMark |-> "writeRunning", ownExit |-> "logCompleted"]

SupersededNext == [ownSaved |-> "marking", ownUnavailable |-> "marking",
                   ownMark |-> "window", ownExit |-> "done"]

CheckOwner(r) ==
  /\ pc[r] \in DOMAIN OwnedNext
  /\ session # Damaged
  /\ Move(r, IF Owns(r) THEN OwnedNext[pc[r]] ELSE SupersededNext[pc[r]])
  /\ UNCHANGED <<files, buffer, previous, history>>

(* read_session_file fails on a file it does not understand, and leaves it. *)
SessionError(r) ==
  /\ pc[r] \in {"begin"} \cup DOMAIN OwnedNext
  /\ Fail(r)

-----------------------------------------------------------------------------
(* append_event: read the log, add a line, drop the oldest lines that do    *)
(* not fit any more, replace the file.                                      *)
EventOf ==
  [logRecovery |-> "recovery_required", logStarted |-> "started",
   logSaved |-> "snapshot_saved", logUnavailable |-> "snapshot_unavailable",
   logCompleted |-> "completed"]

AfterEvent ==
  [logRecovery |-> "writeStarting", logStarted |-> "collect",
   logSaved |-> "marking", logUnavailable |-> "writeUnavailable",
   logCompleted |-> "writeCompleted"]

Event(r) ==
  [kind |-> EventOf[pc[r]], run |-> r,
   about |-> IF pc[r] = "logRecovery" THEN previous[r] ELSE r]

(* Variant: the log is trimmed at the wrong end. *)
Oldest(events) ==
  IF Len(events) > LogCapacity THEN SubSeq(events, 1, LogCapacity) ELSE events

Newest(events) ==
  LET excess == Len(events) - LogCapacity
  IN  IF excess > 0 THEN SubSeq(events, excess + 1, Len(events)) ELSE events

ReadLog(r) ==
  /\ pc[r] \in DOMAIN EventOf
  /\ buffer[r] = Nothing
  /\ log # Damaged
  /\ buffer' = [buffer EXCEPT ![r] = log]
  /\ UNCHANGED <<pc, lock, files, previous, history>>

StoreLog(r) ==
  /\ pc[r] \in DOMAIN EventOf
  /\ buffer[r] # Nothing
  /\ log' = Newest(Append(buffer[r], Event(r)))
  /\ history' = Append(history, Event(r))
  /\ buffer' = [buffer EXCEPT ![r] = Nothing]
  /\ Move(r, AfterEvent[pc[r]])
  /\ UNCHANGED <<session, previous, lost>>

(* ReplaceFileW without a backup fails, or the process dies in it: the old  *)
(* file may be gone by then.  The code removes the temporary one as well.   *)
LogLost(r) ==
  /\ pc[r] \in DOMAIN EventOf
  /\ buffer[r] # Nothing
  /\ log' = <<>>
  /\ lost' = [lost EXCEPT !.events = Len(history)]
  /\ UNCHANGED session

LogError(r) ==
  /\ pc[r] \in DOMAIN EventOf
  /\ End(r, "failed")
  /\ UNCHANGED files \/ LogLost(r)

-----------------------------------------------------------------------------
(* write_state_locked, and the removal of the file at a normal exit.        *)
StateOf == [writeStarting |-> "starting", writeRunning |-> "running",
            writeUnavailable |-> "snapshot_unavailable",
            writeCompleted |-> "completed"]

AfterWrite == [writeStarting |-> "logStarted", writeRunning |-> "window",
               writeUnavailable |-> "marking", writeCompleted |-> "remove"]

WriteSession(r) ==
  /\ pc[r] \in DOMAIN StateOf
  /\ session' = [owner |-> r, state |-> StateOf[pc[r]]]
  /\ Move(r, AfterWrite[pc[r]])
  /\ UNCHANGED <<log, buffer, previous, history, lost>>

RemoveSession(r) ==
  /\ pc[r] = "remove"
  /\ session' = Absent
  /\ Move(r, "done")
  /\ UNCHANGED <<log, buffer, previous, history, lost>>

(* As for the log.  The file may have been that of another run.             *)
SessionLost(r) ==
  /\ pc[r] \in DOMAIN StateOf
  /\ session' = Absent
  /\ lost' = [lost EXCEPT !.runs = IF Owns(r) THEN @ \cup {r} ELSE @]
  /\ UNCHANGED log

WriteError(r) ==
  /\ pc[r] \in DOMAIN StateOf \cup {"remove"}
  /\ End(r, "failed")
  /\ UNCHANGED files \/ SessionLost(r)

(* The process is killed, or panics.  The system releases its mutex.        *)
Crash(r) ==
  /\ Alive(r)
  /\ End(r, "dead")
  /\ UNCHANGED files \/ LogLost(r) \/ SessionLost(r)

-----------------------------------------------------------------------------
Init ==
  /\ pc = [r \in Runs |-> "off"]
  /\ lock = Free
  /\ session \in {Absent} \cup (IF "session" \in Damageable THEN {Damaged} ELSE {})
  /\ log \in {<<>>} \cup (IF "log" \in Damageable THEN {Damaged} ELSE {})
  /\ buffer = [r \in Runs |-> Nothing]
  /\ previous = [r \in Runs |-> Nothing]
  /\ history = <<>>
  /\ lost = [runs |-> {}, events |-> 0]

Errors(r) ==
  LockError(r) \/ SessionError(r) \/ LogError(r) \/ WriteError(r) \/ WindowError(r)

(* What a run does by itself once it was launched. *)
Work(r) ==
  \/ ReadSession(r) \/ CheckOwner(r) \/ ReadLog(r) \/ StoreLog(r)
  \/ WriteSession(r) \/ RemoveSession(r) \/ CollectSnapshot(r)

Step(r) == Launch(r) \/ Lock(r) \/ Work(r) \/ CloseWindow(r) \/ Errors(r) \/ Crash(r)

Next == \E r \in Runs : Step(r)

Spec == Init /\ [][Next]_vars

-----------------------------------------------------------------------------
Inside == DOMAIN Entered \cup {"begin"} \cup DOMAIN OwnedNext
          \cup DOMAIN EventOf \cup DOMAIN StateOf \cup {"remove"}

Events == [kind : {EventOf[p] : p \in DOMAIN EventOf}, run : Runs, about : Runs]

TypeOK ==
  /\ pc \in [Runs -> Outside \cup Inside]
  /\ lock \in Runs \cup {Free}
  /\ session \in Sessions \cup {Absent, Damaged}
  /\ log = Damaged \/ (log \in Seq(Events) /\ Len(log) <= LogCapacity)
  /\ buffer \in [Runs -> Seq(Events) \cup {Nothing}]
  /\ previous \in [Runs -> Runs \cup {Nothing}]
  /\ history \in Seq(Events)
  /\ lost \in [runs : SUBSET Runs, events : 0..Len(history)]
  /\ \A r \in Runs : lock = r <=> pc[r] \notin Outside

(* No run that left a session behind is ever forgotten: its file is still   *)
(* there, or it logged its completion, or some start has recorded it as     *)
(* unfinished before it put its own file in the place of that one; crashes  *)
(* and errors at any step, and starts of several runs at once, included.    *)
(* The one exception is a run whose own replacement of its own session went *)
(* wrong and took the old file with it: no other run can do that to it.     *)
LogHas(kind, about) ==
  \E i \in DOMAIN history : history[i].kind = kind /\ history[i].about = about

HasSession(r) == session \notin {Absent, Damaged} /\ session.owner = r

Began(r) == LogHas("started", r) \/ HasSession(r)

NoSessionForgotten ==
  \A r \in Runs :
    Began(r) => \/ HasSession(r)
                \/ LogHas("completed", r)
                \/ LogHas("recovery_required", r)
                \/ r \in lost.runs

(* The bounded log is exactly the newest of the events stored since it was  *)
(* last lost, as many as fit: the read and the write of append_event lose   *)
(* no line of another run, and trimming drops the oldest.                   *)
LogIsNewestHistory ==
  log # Damaged =>
    LET since == Len(history) - lost.events
    IN  /\ Len(log) = IF since < LogCapacity THEN since ELSE LogCapacity
        /\ \A i \in DOMAIN log : log[i] = history[Len(history) - Len(log) + i]

(* A run whose session was superseded by a newer one leaves that one alone: *)
(* the file is changed only by the run it belongs to or by a start, and a   *)
(* start puts its own `starting' there, or loses in the attempt what it was *)
(* to replace, which had completed or is recorded as unfinished.            *)
SupersededRunsAreHarmless ==
  [][session' # session =>
       \/ HasSession(lock)
       \/ /\ session' \in {Absent, [owner |-> lock, state |-> "starting"]}
          /\ session # Absent => \/ session.state = "completed"
                                 \/ LogHas("recovery_required", session.owner)]_vars

(* The window opens only when the recovery chain worked: the run's start is *)
(* in the log, what it found unfinished is, and, unless a newer run took    *)
(* its place, the result of its snapshot is and its session says so.        *)
WindowNeedsRecoveryChain ==
  \A r \in Runs :
    pc[r] \in {"window", "closing"} =>
      /\ LogHas("started", r)
      /\ previous[r] # Nothing => LogHas("recovery_required", previous[r])
      /\ HasSession(r) =>
           /\ session.state = "running"
           /\ LogHas("snapshot_saved", r) \/ LogHas("snapshot_unavailable", r)

(* A launched run reaches its window or fails: the infinite wait for the    *)
(* mutex always ends, also when the process that held it has died.          *)
EveryStartEnds ==
  \A r \in Runs : pc[r] = "start" ~> pc[r] \in {"window", "failed", "dead"}

=============================================================================
