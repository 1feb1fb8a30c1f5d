# A TLA+ model of RustNT

RustNT is a set of Windows programs: a privileged service that ends processes
on behalf of administrators, a command line (`rustnt`) that talks to it over a
local named pipe and looks at processes, windows and directories, and a desktop
program (the GUI) with a file manager, a preview of the open windows, and a
start that must recognise the crashes of earlier ones. This directory holds TLA+
models of the parts whose correctness depends on an order of events, the TLC
instances that check them, and proofs of what TLC checks on small instances
only.

Paths below are relative to the root of the repository, `core` stands for
`crates/rustnt-core/src`, `cli` for `crates/rustnt-cli/src` and `gui` for
`crates/rustnt-gui/src`.

## 1. The system

| Part | Code | State | Operations | What makes it correct |
|---|---|---|---|---|
| Termination limit | `core/authorization.rs` 205-263 | grants of each SID in the window, order of SIDs | `allow_at` | never more than the quota in a window, never stricter, bounded memory |
| Authorization, audit, dispatch | `core/authorization.rs`, `core/service.rs` 1170-1480 | next request id, audit ring | `dispatch_request` and its ways out | one true event for each request, in order |
| Process control | `core/process_control.rs` | none of its own; handles on processes | inspect, terminate | only the process that was named ends |
| CLI process commands | `cli/main.rs` 290-420 | the inspection it holds between two exchanges | `process inspect`, `process terminate` | the second exchange names what the first one saw |
| Pipe transport | `core/service.rs` 1528-1613, 1890-2204 | one pipe instance, one overlapped call | accept, read, write, acknowledge, cancel | one exchange per connection; can always be stopped |
| Service host | `core/service.rs` 306-477, 2240-2499 | gate, stop event, boxed context, SCM state | service_main, control callback, install/start/stop/uninstall | the callback never uses what was freed, no stop is lost |
| Run markers | `gui/recovery.rs`, `gui/main.rs` | one marker file for each run | inspect, create, remove | live markers stay, dead ones go, with recovery |
| Shell recovery | `gui/shell_recovery.rs`, `gui/main.rs` 174-240 | session file, bounded log, named mutex | begin, snapshot result, running, normal exit | no unfinished run is forgotten; runs do not damage each other |
| Shell snapshot | `gui/shell_snapshot.rs` | snapshot file, its temporary file | collect, save | the log tells the truth about it |
| GUI configuration | `gui/config.rs`, `gui/app.rs` | settings file, settings in memory | load, edit, save | clean runs keep what the user set |
| Read-only filesystem | `core/filesystem.rs` | a stack of pending directories | stat, list, search | the first matches, exactly; what stayed is found |
| File manager | `gui/file_browser.rs` | listing, selection, path box, two stacks | visit, back, forward, up, refresh, select | the screen is of one directory; Back and Forward invert each other |
| Notifications, navigation | `gui/notifications.rs`, `gui/navigation.rs`, `gui/app.rs` | bounded queue, page, panel | push, mark read, clear, switch | bounded, and the newest are kept |
| Desktop preview | `gui/desktop_preview.rs`, `core/window.rs` | a background feed, its channel, the last list | enumerate, send, poll, activate | complete lists, own windows left alone, a stuck feed shows |
| Process list, monitor | `core/lib.rs`, `core/monitor.rs` | the last good sample | sample, compare | no change is swallowed or invented |
| Arguments, tables, entry points | `cli/main.rs`, `rustnt-service`, `rustnt-bench` | none | parse, print | left to the unit tests |

How they interact. A CLI run connects to the pipe, writes a request, reads a
response and acknowledges it (`PipeServer`). The one thread of the service
decodes the request, draws an id, authorizes, asks the limiter, works on the
target and audits (`Termination`, which contains `RateLimiter`). The thread
itself is started and stopped by the service control manager through a callback
on another thread (`ServiceHost`, which relies on `PipeServer` to return after
the stop event). The GUI shares nothing with the service; its runs share files
with each other (`RunMarkers`, `GuiRun` over `ShellRecovery`). The window of one
run holds the file manager, the notices and the pages (`GuiWindow` over
`FileBrowser`). The readers of the system, the file manager and `fs search`
(`Files`), the preview and the monitor (`Desktop`), share nothing but the
system they look at.

What is hard. Processes exit and PIDs are reused between any two calls; so are
windows and their handles. The client of the service may vanish, or leave
something unread, at any step. A cancelled overlapped call may have completed.
The callback runs beside the thread that frees its context. Any Windows call may
fail, any process may be killed between two file operations, and several GUIs
may run at once. Directories change while they are walked. A thread that asks a
window for its title waits for the thread of that window. `PROJECT.json` lists
each hazard at its line.

## 2. The modules

Each component has a module without bounds of its own choosing, and an `MC...`
module that TLC instantiates. History variables are named in the modules; they
never guard a step. Definitions introduced as *variants* are plausible defects
of the operator they stand before: each property is known to fail when one of
them takes the operator's place, so it does say something about the code.

### The service and its clients

* **RateLimiter**. `requests` is the map of queues, `subjects` the order.
  `Allow(s)` is all of `allow_at`: clearing, eviction, verdict, insertion.
  `granted` is the history of the grants of each caller since it was last
  evicted. What stays of the order when subjects leave the table is picked by its
  positions (`KeepAt` of **AscendingOrder**, a choice of the one ascending list of
  them, which proofs can reason about).
* **GuardedKill**. The abstract promise: a process ends only as the answer to a
  request that named its PID and its creation time, sent by its owner with an
  elevated administrator's token, and never a protected or system process.
* **Termination**. The state of Windows (`procs`, with exit and reuse of PIDs;
  an open handle pins the object), the clients, the request being served, the
  audit ring and the limiter (`INSTANCE RateLimiter`). A step is one Windows
  call or one decision of `dispatch_request`, `inspect_process` or
  `terminate_process`; `Finish` is the common way out: record, close the handle,
  answer. `OnlyTheNamedProcessEnds` is the refinement of `GuardedKill`: the
  request is what a client holds as PID and creation time, the processes are the
  running ones, the ended ones are the successful `TerminateProcess` calls.
* **PipeServer**. `server.pc` is the place in `run_pipe_server`. A call that may
  be pending has a `Begin` step (it may complete at once) and a `Finish` step.
  `GiveUp` is the end of the wait by the stop event or the timeout, `Cancel` is
  `CancelIoEx` with the result that call had after all. `CliStep` is
  `ServiceClient::request`; raw clients write any messages and read or do not.
  A message is one of five kinds, told apart by length and by decoding.
* **RemoteCall**. The abstract promise of an exchange to a run of the CLI: its
  request is executed at most once; success means that it was executed; a call
  refused before a connection is never executed; of a call that was lost the CLI
  does not know. `CallsHappenAtMostOnce` is the refinement by `PipeServer`:
  `handled` counts the executions, `Told` is the result of `ServiceClient::request`.
* **ServiceHost**. `main` is the place in `service_main`, `handler` the
  callback, `context` the boxed runtime with its gate, `scm` what the service
  control manager knows, `command` the CLI runs. The dispatcher returns, and the
  process with it, once the service was reported stopped (`ProcessReturns`): a
  process whose report failed lingers without its `service_main`, and controls
  that still come run into the freed context (`EnterFreed`). `ProcessIsKilled`
  may happen at any step.
* **ServiceLife**. A service as its manager sees it: down, starting, serving,
  ending; called running only while it can be stopped, in states that never go
  back; a stop is accepted only if it is set, or the service ends anyway.
  `LifeIsOrderly` is the refinement by `ServiceHost`, with `Phase` for the places
  of `service_main`, the state the SCM knows, and the stop event.

### The runs of the GUI

* **RunMarkers**. A run lists the markers, inspects each, removes the stale ones,
  creates and later writes its own, opens its window and removes its marker.
  Runs overlap, other programs take PIDs, an older version may have left a
  marker without a creation time. Entries of the directory that cannot be read
  are passed over; `dead` is what a run was let see.
* **ShellRecovery**. The variables and operations of `shell_recovery.rs`: each
  run executes `begin_startup`, the snapshot result, `mark_running` and
  `complete_normal_exit` as critical sections of a named mutex; reading and
  replacing the log, replacing and removing the session are steps of their own,
  after any of which the run may crash or fail. A replacement that fails, or in
  which the run dies, leaves the old file or none (`LogLost`, `SessionLost`);
  `lost` is the history of the second. Of the states `is_valid` accepts
  in a session file, two are never written by the code and are left out.
* **GuiRun** extends it to the whole of `run_gui`: the settings, the snapshot
  and the marker are read and written in the places `main.rs` gives them,
  outside of the mutex. `config` is the file, `inUse` the settings in memory,
  `saving` the place in a save (temporary file, then replacement), `tried` what
  the exit has attempted. Settings are a theme and a size; a start puts the
  default for a dimension that is too small (`Validated`), a save does not. Its
  specification is `RunSpec`. A marker is here only
  there or not; which ones are stale is the matter of `RunMarkers`.

### Directories and the window

* **Directories**. The disk: places in a tree, each a file, a directory, a
  link, one that may not be opened, or absent, and the ways other programs
  change them. `stat_path` and `list_directory` are functions of a disk.
* **FileSearch**. `search_path` over such a disk: `walk` is the place in it,
  `pending` the stack, `report` what it has found and whether it truncated. Each
  listing is a step, and the disk changes between them. What a listing adds to
  the report and to the stack is a set of names in their order (`InOrder`); what
  of it is looked at ends where the limit is reached (`LookedAt`). `steady` is the
  history of what has not changed since the search began.
* **History**. The abstract promise of Back and Forward: a tape with a cursor.
* **FileBrowser**. `FileBrowserState` with every operation of it; a path is a
  node and how it is spelled. `BackAndForwardKeepTheTape` is the refinement of
  `History`: the tape is the reversed back stack, the path shown, and the
  forward stack.
* **GuiWindow**. What surrounds the file manager: pages, switcher, panel,
  shortcuts, buttons, and the bounded queue of notices with its read marks; each
  failure of the file manager pushes one.
* **Files** extends `GuiWindow` and `FileSearch`: a behaviour has the window or a
  search, over one disk.

### Observers of the system

* **WindowFeed**. The desktop with handles that are reused, the background
  thread (`worker`, one step for each window it meets and each it reads; the
  windows whose thread, session or desktop it cannot read are `skipped`), the
  channel, the state of the feed that `poll` leaves, and the click with its three
  calls. `Break` is a call that never returns or the end of the thread.
* **SystemMonitor**. Processes with PIDs that are reused, `MonitorSampler::sample`
  with a step for each process opened and a failure at any place, `view` and
  `exits` what a reader of the reports believes.
* **Desktop** composes them as `Files` does.

## 3. The runs

| Run | Instance | Shows |
|---|---|---|
| RateLimiter | 3 callers, 2 places, 2 grants in a window of 2, clock to 4 | `WindowBound`, `OrderEnumeratesTable`; `VerdictsAreExact` (each verdict is the one of a limiter that keeps everything), with evictions |
| Termination | a CLI run and a raw client of one administrator, PIDs 10 and 4 (protected), 2 births, audit of 2, 1 grant per window | the refinement of `GuardedKill`; `InspectionIsOfOneProcess`, `AuditIsTrue`, `AnswersAreTrue`, `KillsKeepTheWindow` |
| TerminationRights | the raw client has no elevated token, two request ids, audit of 1 | `OnlyTheNamedProcessEnds` for callers without rights; `AuditHasEveryRequestOnce` when the audit is full and the ids run out; `EveryRequestEnds` |
| PipeServer | a CLI client, a raw client with 2 unread messages, large responses | `OneExchangePerConnection`, `NoResponseIsDiscarded`; the refinement of `RemoteCall`; `StopAlwaysWorks`, `EveryCallReturns`, `NobodyKeepsThePipe` |
| ServiceHost | 2 commands of any kind, 2 starts, one shutdown of Windows | `CallbackKeepsContext`; the refinement of `ServiceLife`; `ShutdownEnds`, `EveryCommandReturns` |
| RunMarkers | 3 runs, 2 PIDs, a legacy marker | `LiveMarkerKept`, `CrashIsNoticed`, `StaleMarkersAreRemoved` (of what the start could list) |
| GuiRun | 2 overlapping runs, a log of 3 events, 2 settings (one narrower than the minimum), damaged files | `NoSessionForgotten`, `LogIsNewestHistory`, `WindowNeedsRecoveryChain`, `SnapshotEventIsTrue`, `SettingsSurviveCleanRuns`, `SupersededRunsAreHarmless`; `EveryStartEnds`, `ExitTriesEverything` |
| Files | a tree of 5 below a drive, 2 changes; search for 4 names, at most 2 matches, one level; history of 2, one notice | `QuietSearchIsExact`, `SearchMissesNothingThatStayed`; `ScreenIsOfOneDirectory`; the refinement of `History` |
| Desktop | 3 windows (an application's, a mute one of the preview, one elsewhere) on 2 handles, stall after 2 ticks, a channel of 1; 3 processes on 2 PIDs | `ListIsOfOneEnumeration`, `OwnWindowsAreLeftAlone`, `ChangesAddUp`; `StuckFeedIsReported` |
| PipeServerMalformed, ServiceHostCallback, RunMarkersShown | smallest instances | the findings of section 6; TLC finds the violation |

Why the bounds are enough to mean something. Two processes on one PID are what
reuse needs, and the second PID is a protected one. The single audit place of
TerminationRights overflows with the second request, and with two ids the third
one is refused. The
limiter's clock passes two windows, and three callers for two places evict each
other in turn. A second message in the pipe is what is left over for a wrong
reader. Two overlapping GUI runs are enough for one to supersede the other, and a
log of three events overflows in a single run. Of the two settings one comes
back from the file as it was, the other one as the default. Three marker runs let one start
inspect while another cleans up and a third dies. The tree has two siblings, a
directory in one of them and a file in that: the least in which the order of the
stack, the way up and the bound on depth show, and the limit of matches is
reached inside of a directory and between two. A history of two is enough to go
back and then elsewhere. Three windows on two handles let a handle pass from an
application to the preview while a click is under way; windows that are hidden
or belong to the UI thread are in the proofs only. A channel of one makes the
feed wait, one more than that makes `poll` choose; the proof has any number.

`MaxBirths`, `MaxRequestId`, `MaxTime`, `MaxQueued`, `MaxStarts`, `MaxChanges`,
`MaxHistory`, `MaxQueue` and `MaxProcesses` are bounds of the instances; request
ids really end, the others are unbounded in the program. `LogCapacity`,
`MaxSubjects`, `MaxNotices`, `MaxDepth` and `MaxResults` are small values of
limits the program has, `WindowDisks` restricts the states of the disk under the
window.

`CHECK_DEADLOCK FALSE` is set where the system may stop for good: all clients,
commands or runs of an instance have ended, the window is closed, the search is
over. The limiter never stops.

## 4. Fairness

Weak fairness is given only to threads that run by themselves.

* `Termination`: the service thread. Each Windows call returns and the wait for
  the target is at most 2 s (`process_control.rs:510`), so each step is enabled
  until it is taken. Nobody else has to act: targets may refuse to die, clients
  may vanish, clocks may stand still.
* `PipeServer`: the server thread and each CLI run. Raw clients owe nothing, the
  stop event need not be set, and no call needs to fail. `StopAlwaysWorks` holds
  because every pending call is waited for together with the stop event;
  each exchange after the stop was set ends, and the clients of an instance are
  finitely many.
* `ServiceHost`: the two threads of the process and each command. That a set
  stop event ends `run_pipe_server` is `PipeServer!StopAlwaysWorks`. Nothing
  makes a status report succeed: `ShutdownEnds` promises the stopped state or,
  where that one report failed, the return of `service_main`, and the commands
  return by their deadline.
* `GuiRun`: a live run works on, one condition for all the steps it takes by
  itself, and the mutex it waits for is granted when it is free; Windows abandons
  the mutex of a dead process and the code accepts it (`shell_recovery.rs:367`).
  The user need not edit, save or close anything.
* `Desktop`: a frame is drawn every 500 ms, the UI thread ends what a click began
  (its three calls do not wait for another thread), and time passes. The
  background thread has no fairness at all: that it may hang is the point, and
  `StuckFeedIsReported` asks for a report without its help. That its calls return
  is not needed for anything that is checked.

`RunMarkers`, `RateLimiter` and `Files` state safety only and assume nothing.

## 5. Proofs

Each component has its theorems in a module `...Proofs`. They hold for every
value of the constants, under the assumptions the modules name: that constants
which must differ do, that capacities and windows are natural numbers, that the
places of the disk are finitely many and form a tree (every nonempty set of them
has one whose parent is outside: going up always ends at the root). Every module proves its type invariant (`TypesHold`, in Files also
`FilesTypesHold`), which the runs therefore do not repeat; the proofs of the other
properties rest on it.

| Module | Theorems | Inductive invariant |
|---|---|---|
| RateLimiterProofs | `WindowBoundHolds`, `VerdictsHold`, `NoSpuriousDenialHolds`, `OrderHolds`, `HistoriesAreComplete` | `HistoryInv`, `WindowInv`, `OrderInv` |
| TerminationProofs | `TerminationIsGuarded`, `InspectionsAreOfOneProcess`, `AnswersHold`, `AuditIsComplete`, `AuditHolds`, `KillsArePaidFor` | `Inv`, `AuditInv`, `PaidInv` |
| PipeServerProofs | `ConnectionsCarryOneExchange`, `ResponsesAreKept`, `RequestsAreServedAtMostOnce` | `Inv`, `CallInv` |
| ServiceHostProofs | `CallbackKeepsContextHolds`, `NoStopIsLostHolds`, `LifeHolds` | `HostInv`, `LifeInv` |
| RunMarkersProofs | `LiveMarkersAreKept`, `CrashesAreNoticed`, `StaleMarkersDisappear` | `IInv` |
| GuiRunProofs | `LogIsTheNewest`, `NoSessionIsForgotten`, `WindowsHaveTheirChain`, `SupersededAreHarmless`, `SnapshotEventsAreTrue`, `SettingsSurvive` | `IInv`, `SnapInv`, `SettingsInv` |
| FilesProofs | `ScreenHolds`, `TapeIsKept`, `FilesImplementBrowser`, `StayersAreFound`, `QuietSearchHolds` | `BrowserInv`, `SearchInv` |
| DesktopProofs | `ListsAreOfOneEnumeration`, `OwnWindowsStayAlone`, `ChangesAlwaysAddUp` | `DesktopInv` |

The arguments.

*RateLimiter.* `NoSpuriousDenial` speaks of the history, the code of its queues.
`HistoryInv` says that the history of each caller is in the order of time and
that the queue is a suffix of it: clearing drops a front, a grant appends to
both, eviction begins both anew. A full queue whose front is not expired
therefore names `MaxRequests` grants of the window. For the other direction the
invariant has to say what the queue lacks: `WindowInv` adds that whatever of the
history is not in the queue has expired (`OnlyExpiredLost`). The bound is one on
grants since the last eviction; `HistoriesAreComplete` closes the gap: where each
caller has a place in the table nothing is evicted (`NobodyEvicted` counts the
table), and the history is of all grants there were. `OrderInv` says that the
order lists the table without repetition; the eviction from its front needs that,
because each turn of the loop must free a place. With the three invariants the
queue that is left after clearing *is* the part of the history inside the window
(`RecentAreQueued`), and a subject is in the table exactly while it has such a
part. `VerdictsHold` follows: a call is granted if and only if an unbounded
limiter would grant it, and it costs another caller its grants only when the
table is full of callers with grants in the window. `NoSpuriousDenialHolds` is the
half of it that speaks of a state.

*Termination.* The heart of it is `TargetOK`: what `inspect_process` and
`terminate_process` have read is still true, because the open handle pins the
object. It needs `ProcessesOK` (no two processes share a PID and a creation
time), and `ExchangeOK` (the request that is served is the one its sender waits
for). `KillsOK` says that a request ends at most one process, as its last step
but one. With these each step of the service is a step of `GuardedKill` or none
of its business. `AuditInv` relates the ring to the ids drawn so far; recording
and drawing are in different places of the dispatch, and only the single served
request keeps them in step. `KillsArePaidFor` brings in the theorems of
RateLimiterProofs through an instance of that module: seen from the limiter,
everything else the service does is a stutter (`LimiterRuns`), so `WindowBound`
holds inside of the service. `PaidInv` then counts: the processes ended for a
caller, and one more while its request is between the gate and the kill, are no
more than its grants. An eviction forgets grants, so that half of
`KillsKeepTheWindow` is stated of a limiter with a place for every caller
(256 in the code).

*PipeServer.* `InstanceOK` says for each place of `run_pipe_server` what lies in
the two directions of the pipe and what the loop remembers; `DispatchOK` that the
request of the connected client was dispatched exactly once where the loop is
past that, and for no client more than once; `ExchangeOK`, for each CLI run, how
far the exchange and the connection have got, in every pair of places. Every step
of the server is one of a few movements (`Moves`, `Take`, `Write`,
`Disconnect`), each with a lemma, and a step of one client leaves the part of the
others alone. The late result of a cancelled call is no special case: the
instance is left the same way. For `RemoteCall` the invariant `CallInv` adds what
the single places do not show: what the server has read of a CLI run is its
request, what the run has read is the response to it, and a run that found no
service or a busy pipe was never connected, so that what it was told stays true.

*ServiceHost.* Neither property speaks of where `service_main` is, and both
depend on it, so `ContextInv` says what each place of that thread means for the
context: the event is open from its creation to its release, and the gate is
shut once the thread drains. `ControlInv` says that no control exists before
the service was reported running. With the two, `GateInv` is inductive: the
thread leaves the drain when nobody is inside, and nobody enters after that
because the gate is shut. `AnswerInv` relates the answer to the event: who
answers `NO_ERROR` has set it, or has found the service no longer serving. `LifeInv` adds
what the SCM calls the service at each place of the thread, although every report
may fail: the last report that can have failed before a place decides. A step of
the thread is then a step of `ServiceLife` or invisible to the manager, and so is
one of the callback, which by `ControlInv` runs only while the service serves,
ends or has ended without the manager's knowing, and accepts by `AnswerInv` only a stop that is set or no longer needed.

*RunMarkers.* Besides the properties, `IInv` says whose markers there can be,
that a start which has passed a stale marker has removed it (`StaleAreGone`) or
will not open its window, that whoever removed one is in recovery
(`CleanersAreIncomplete`), and how a dead run's PID has been dealt with
(`DeadAreGone`, `DeadAreHandled`).

*GuiRun.* `BufferIsLog` makes the read and the write back of `append_event` one
step in effect: whoever is between the two owns the mutex and holds the log as it
is. The rest of `IInv` (`Stages`) says what each place of a run has already put
into the history of events or the session file; it is the chain of
`WindowNeedsRecoveryChain` taken apart, one link for each place. Errors and
deaths share their lemmas (`EndTyped`, `EndKeeps`, then `LogLostKeeps` and
`SessionLostKeeps` for a file that goes with them): the log that is lost is empty
from there on, and the session that is lost is the run's own, which `lost`
records, or one a start has found completed or recorded as unfinished (`MayGo`),
so that every other run keeps what its place promises. `SnapInv` does
the same for the snapshot: a run that has not collected has stored nothing, and
the outcome that is logged is the one of its own save. `SettingsInv` says what is
true while it is known which settings were kept: at most one run is there, only
it has a marker, it shows what the user left (`AsKept`: as chosen or as
validated, which is the same after the first time, `ValidatedOnce`), and from its
exit on the file has the same. A death, a failed save, a marker that could not be removed and a second
run at a time make it unknown.

*Files.* The types and `ScreenIsOfOneDirectory` are inductive together: the
spelled paths of the stacks lead to places of the tree, whether they exist or
not. The refinement shows each operation as a move on the tape. It is stated of
`FileBrowser`, and `FilesImplementBrowser` carries it to the window, in which
notices, pages and a search stand around it. The search needs facts about the
tree first: `PathTo` is defined by recursion over it, exists by the assumption on
trees (`PathsExist`), and orders the places (`OrderOfPaths`). `SearchInv` has
three parts. `Shape` says of any disk, whatever others change in it, that the
stack is in the order of the tree, that everything reported comes before
everything pending, and that nothing pending is inside another: from it follow
the order of the report and that nothing is reported twice. `Complete` says that
a match which stayed where it was, below directories which stayed, is reported or
lies ahead of the walk (it will be met in what is pending). `Quiet` says of a
tree at rest that what is reported are hits, that they come before every other
hit of the tree, and that the counters are the numbers of closed directories and
links the walk has passed.

*Desktop.* `EnumerationOK` follows one window that stays: it is still to be met,
or being read under its handle, or it is in the list exactly when it is an
application's and was not skipped (`Met`). `ActivationOK` says that a click which got as far as
raising has met a window that is not the preview's own. `MonitorInv` says of
every process met that it has (or had) that PID, and that whoever was taken for
gone is gone; time does not bring anybody back.

Only model-checked: what needs fairness, which this prover cannot treat:
`EveryRequestEnds`, `StopAlwaysWorks`, `EveryCallReturns`, `NobodyKeepsThePipe`,
`ShutdownEnds`, `EveryCommandReturns`, `EveryStartEnds`, `ExitTriesEverything`,
`StuckFeedIsReported`. Every invariant, action property and refinement the passing
runs check has a theorem.

## 6. Findings

Each has a run that ends with the violation.

1. `ServiceHostCallback`. The control callback is counted by the gate only from
   `try_enter` on (`core/service.rs:2394`). If the service ends by itself
   between the call of the callback and that line, nothing waits for it, the box
   is dropped, and the callback locks a freed mutex; the comment at line 2379
   says this cannot happen. A code bug, with a window of a few instructions; it
   needs no such window when the reports of the end have failed, because the
   manager then goes on sending controls.
2. `PipeServerMalformed`. A message longer than the buffer that arrives while the
   read is pending ends the service (`core/service.rs:2069`), although the plan
   of task 03 says that a malformed request must not.
3. `RunMarkersShown`. A start removes the marker of a crashed run before it has
   one of its own (`gui/recovery.rs:62`); if it fails in between, no start shows
   the notice the design of task 14 promises.

Observations that came out of the models and have no run. In the service:

* A caller evicted from the limiter's table by 256 others starts with a fresh
  quota inside the same window (`core/authorization.rs:229`); `README.md:115`
  states the limit without that exception.
* A client that opens the new pipe instance and closes it before
  `ConnectNamedPipe` makes that call fail with `ERROR_NO_DATA`, which ends the
  service (`core/service.rs:2116`).
* The rest of an oversized request that was read at once is taken for the
  acknowledgement; the error response may be lost (`core/service.rs:2185`).
* A failed report is never repeated (`core/service.rs:2415`, `:2430`, `:2442`; a
  failed registration at `:2463`). The manager keeps the last state it heard,
  `StartServiceCtrlDispatcherW` does not return, and the process lingers without
  a service: it can be neither stopped nor started before it is killed.
* `uninstall_service` reads the state and deletes in two calls
  (`core/service.rs:414`): a service started in between is marked for deletion
  while it runs.

In the runs of the GUI:

* A start that dies after it recorded an unfinished session records it again at
  the next start (`gui/shell_recovery.rs:291`); the design says once.
* The exit of a run that took the session over removes the session file
  (`gui/shell_recovery.rs:226`). The run it took it from may still be open, or
  have died since: no later start can tell, except from the event that
  superseded it.
* A damaged recovery log makes every start fail (`gui/shell_recovery.rs:475`),
  which the design of task 17A excludes.
* A run that dies between the creation and the writing of its marker leaves an
  empty file, which no start can attribute and none removes: every later start
  is one in recovery (`gui/recovery.rs:97`).
* A start in recovery runs on the defaults (`gui/main.rs:77`), and its exit saves
  them over the settings of the user (`gui/main.rs:234`). So does the exit after
  a start that could not parse the file. `SettingsSurviveCleanRuns` is stated of
  runs without either.
* `ReplaceFileW` without a backup may fail after it has removed the file it should
  replace (`gui/config.rs:338`, `gui/shell_snapshot.rs:465`); the save then
  deletes the temporary one as well. The test at `gui/shell_snapshot.rs:828`
  shows the preservation of the old file for an earlier failure only.
* The session and the recovery log are replaced in the same way
  (`gui/shell_recovery.rs:684`). A run whose `mark_running` fails or dies there
  may leave no session, and the next start finds nothing unfinished; a log that is
  lost is begun anew without a word. The design of task 17A (line 118) relies on
  atomic replacement.
* A window smaller than 320 x 240 is saved (`gui/app.rs:83`; nothing limits the
  size of the window) and refused by the next start, which says that the size is
  invalid and takes the default (`gui/config.rs:68`).
* An entry of the directory that cannot be read is left out of the inspection of
  the markers (`gui/recovery.rs:165`), although every other error there ends the
  start: the crash it stands for is not noticed by that start.
* A run that dies in a save leaves its temporary file, which nobody removes.
* A registry that cannot be read replaces a complete snapshot by an incomplete
  one (`gui/main.rs`, `gui/shell_snapshot.rs:315`). Nothing but a test reads it.

In the readers:

* A typed path keeps its spelling: from `C:\a\..`, which lists `C:\`, the parent
  is `C:\a\` (`gui/file_browser.rs:260`); the plan of task 16 (line 42) wants
  navigation that is Windows-safe.
* A search whose limit is reached by the last entry of a directory goes on to
  the next one, which may fail it, and reports `truncated` only if another entry
  turns up (`core/filesystem.rs:526`); the design of task 12A (line 190) says
  that it stops and reports when the limit is reached.
* A subdirectory that vanishes during a search ends it with an error and without
  the matches so far (`core/filesystem.rs:521`); one that is closed is skipped.
* A file manager that cannot read its first directory starts without a notice
  (`gui/app.rs:589`); Escape clears the notices, the unread ones too, when no
  panel is open (`gui/app.rs:257`).
* A window whose desktop name cannot be read is skipped (`core/window.rs:352`).
  The design of task 13 (lines 96 and 180-182) keeps it, without the name, and
  counts only those whose PID, session or thread is unknown; the plan of the task
  (lines 220-221) skips it, too. The list of the preview does not say how many
  windows were skipped (`gui/desktop_preview.rs:96`), that of the CLI does.
* The window whose handle was clicked may have closed by the time it is raised,
  and another one have its handle (`core/window.rs:684`). The same gap makes the
  one case in which the feed may wait for a window of its own process.
* The CPU usage of a PID that was reused between two samples is computed over
  both processes (`core/lib.rs:98`); the design of task 02 (line 78) says there is
  none.
* The listing takes an error of `Process32NextW` for the end of the list
  (`core/lib.rs:294`). The model assumes that it fails only there.

## 7. Not modelled

* Arguments, filters, sort orders and tables of the CLI, the entry points of the
  service, the benchmark and the test target: functions of one thread, with unit
  tests beside them.
* The bytes of frames, tokens, files and TOML: a message is a kind, a file a
  value, and `validate` is modelled for the two sizes; a theme or a position that
  only an edited file can hold is not there. The
  field arithmetic of the frames and the quotients of the CPU usage are pure
  functions of their arguments and not stated as operators here.
* Single queries without state: `read_permissions`, `disk_space`, the list of
  sessions, the query of the service's state, sizes of memory and drives (an
  outcome: read or not).
* A title or class name that cannot be read of a window that is there
  (`core/window.rs:259`, `:284`): Windows keeps both, and hands them out for
  windows of other processes without asking them.
* The text of the crash log of `gui/recovery.rs`, drawing, the wording of
  notices, the orders of the file table.
* `PipeServer` handles a request in one step and `Termination` has no transport:
  their composition is the single thread, which the one served request of
  `Termination` stands for. In the same way `ServiceHost` takes from `PipeServer`
  that a set stop event ends it, and `GuiRun` from `RunMarkers` which markers are
  removed.

## 8. What could follow

1. The composition of `ServiceHost` with `PipeServer` and of `PipeServer` with
   `Termination`, in place of the assumptions they make of each other.
2. The frame arithmetic (lengths, truncation, trailing bytes) and the CPU
   quotient as operators, checked against reference definitions.
