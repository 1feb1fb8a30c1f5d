------------------------------ MODULE WindowFeed ------------------------------
(***************************************************************************)
(* The desktop preview (rustnt-gui desktop_preview.rs over rustnt-core     *)
(* window.rs): a background thread enumerates the top-level windows again  *)
(* and again and sends what it found; the UI thread shows the newest list  *)
(* and activates what is clicked in it.  Windows open and close all the    *)
(* time, their handles are used again, and any call of the thread may      *)
(* never return: the screen has to say so.                                 *)
(***************************************************************************)
EXTENDS Integers, Sequences, FiniteSets

CONSTANTS
  Handles,
  Windows,
  KindOf,       \* what a window is: see Kinds
  StallAfter,   \* PREVIEW_STALL_TIMEOUT in ticks of the clock, 3 of 2 s
  MaxQueue,     \* bound: events in the channel (unbounded in the code)
  Nothing

(* A window of an application that is listed; one that is filtered out by   *)
(* its class, its title or its being hidden, or that is of another session  *)
(* or desktop; one of the preview's own UI thread, and one of another       *)
(* thread of the preview, which answers no message.                         *)
Kinds == {"app", "hidden", "elsewhere", "ui", "mute"}

Readings == [hwnd : Handles, owner : Windows]
Items == [hwnd : Handles, window : Windows]

ASSUME WindowFeedAssumption ==
  /\ KindOf \in [Windows -> Kinds]
  /\ StallAfter \in Nat \ {0}
  /\ MaxQueue \in Nat \ {0}
  /\ Nothing \notin Windows \cup Handles \cup Readings

VARIABLES
  at,           \* the window a handle denotes, or Nothing
  opened,       \* the windows that have ever been opened
  worker,       \* the feed: [pc, todo, reading, items, skipped]; of the windows
                \* skipped the code keeps the number, each counted once
  lasting,      \* history: [hwnd, window] undisturbed since the enumeration began
  channel,      \* the events sent and not yet received
  feed,         \* WindowFeed: [latest, error, disconnected, age]
  ui            \* the UI thread: [pc, hwnd, met, raised], the windows it has
                \* checked and raised

world == <<at, opened>>
feedVars == <<at, opened, worker, lasting, channel, feed, ui>>

Mine(w) == KindOf[w] \in {"ui", "mute"}

Present == {h \in Handles : at[h] # Nothing}

-----------------------------------------------------------------------------
(* Other programs, and the threads of this one, open and close windows.      *)
OpenWindow(h, w) ==
  /\ at[h] = Nothing
  /\ w \notin opened
  /\ at' = [at EXCEPT ![h] = w]
  /\ opened' = opened \cup {w}
  /\ UNCHANGED <<worker, lasting, channel, feed, ui>>

CloseWindow(h) ==
  /\ at[h] # Nothing
  /\ at' = [at EXCEPT ![h] = Nothing]
  /\ lasting' = {l \in lasting : l.hwnd # h}
  /\ UNCHANGED <<opened, worker, channel, feed, ui>>

-----------------------------------------------------------------------------
(* enumerate_windows, on the background thread. *)

Working(pc) == worker.pc = pc

At(pc) ==
  [pc |-> pc, todo |-> {}, reading |-> Nothing, items |-> {}, skipped |-> {}]

(* The session and the desktop are read once, then EnumWindows takes the    *)
(* handles it will call back for.                                           *)
StartEnumeration ==
  /\ Working("start")
  /\ worker' = [At("collecting") EXCEPT !.todo = Present]
  /\ lasting' = {[hwnd |-> h, window |-> at[h]] : h \in Present}
  /\ UNCHANGED <<world, channel, feed, ui>>

(* Variant: the callback stops at a window it cannot identify. *)
StopAtUnidentified(h) == {}

(* The callback goes on with the next window, whatever this one was.        *)
Remaining(h) == worker.todo \ {h}

(* collect_window, first part: whose window it is, and where.  The thread,  *)
(* the session or the desktop of any window may be unavailable, whether it  *)
(* has gone or not: it is counted as skipped.  One of another session or    *)
(* desktop is left out, uncounted.                                          *)
Identify ==
  /\ Working("collecting")
  /\ worker.reading = Nothing
  /\ \E h \in worker.todo :
       \/ worker' = [worker EXCEPT !.todo = Remaining(h),
                                    !.skipped = @ \cup {h}]
       \/ /\ at[h] # Nothing
          /\ KindOf[at[h]] = "elsewhere"
          /\ worker' = [worker EXCEPT !.todo = @ \ {h}]
       \/ /\ at[h] # Nothing
          /\ KindOf[at[h]] # "elsewhere"
          /\ worker' = [worker EXCEPT !.todo = @ \ {h},
                                      !.reading = [hwnd |-> h, owner |-> at[h]]]
  /\ UNCHANGED <<world, lasting, channel, feed, ui>>

(* may_send_window_messages: a window of this process is not asked for its  *)
(* text, because the thread that owns it might not answer.                  *)
MaySendMessages(owner) == ~Mine(owner)

(* Second part: the texts and the state of the window that has the handle   *)
(* now.  What is_preview_window will not list is left out of the snapshot   *)
(* here.                                                                    *)
Read ==
  /\ Working("collecting")
  /\ worker.reading # Nothing
  /\ LET h == worker.reading.hwnd
         owner == worker.reading.owner
         text == IF at[h] # Nothing /\ MaySendMessages(owner)
                 THEN KindOf[at[h]] ELSE "none"
     IN  worker' = [worker EXCEPT
           !.pc = IF text = "mute" THEN "waiting" ELSE @,
           !.reading = IF text = "mute" THEN @ ELSE Nothing,
           !.items = IF text \in {"app", "ui", "elsewhere"} /\ ~Mine(owner)
                     THEN @ \cup {[hwnd |-> h, window |-> at[h]]} ELSE @]
  /\ UNCHANGED <<world, lasting, channel, feed, ui>>

Collected ==
  Working("collecting") /\ worker.todo = {} /\ worker.reading = Nothing

(* The event is a snapshot, of which a click uses the handles; or Nothing,  *)
(* because the session, the desktop or the windows could not be read.       *)
Send ==
  /\ Len(channel) < MaxQueue
  /\ \/ Collected /\ channel' = Append(channel, {i.hwnd : i \in worker.items})
     \/ Working("start") /\ channel' = Append(channel, Nothing)
     \/ Working("collecting") /\ channel' = Append(channel, Nothing)
  /\ worker' = At("asleep")
  /\ lasting' = {}
  /\ UNCHANGED <<world, feed, ui>>

WakeUp ==
  /\ Working("asleep")
  /\ worker' = At("start")
  /\ UNCHANGED <<world, lasting, channel, feed, ui>>

(* The thread waits for an answer of its own process, or a call of Windows  *)
(* does not return, or the thread has ended, which drops the sender.        *)
Stuck == worker.pc \in {"waiting", "hung", "gone"}

Break ==
  /\ ~Stuck
  /\ \E pc \in {"hung", "gone"} : worker' = At(pc)
  /\ lasting' = {}
  /\ UNCHANGED <<world, channel, feed, ui>>

-----------------------------------------------------------------------------
(* The UI thread. *)

(* Variant: a list that was received once is good for ever. *)
SnapshotFirst(f) ==
  CASE f.latest # Nothing     -> "ready"
    [] f.disconnected         -> "failed"
    [] f.age >= StallAfter    -> "failed"
    [] OTHER                  -> IF f.error THEN "failed" ELSE "waiting"

(* preview_state *)
PreviewState(f) ==
  IF f.disconnected \/ f.age >= StallAfter THEN "failed"
  ELSE IF f.latest # Nothing THEN "ready"
  ELSE IF f.error THEN "failed" ELSE "waiting"

(* poll takes every event there is; a closed channel shows after the last.  *)
Polled ==
  LET snapshots == {i \in DOMAIN channel : channel[i] # Nothing}
      newest == CHOOSE i \in snapshots : \A j \in snapshots : j <= i
  IN  [latest |-> IF snapshots = {} THEN feed.latest ELSE channel[newest],
       error |-> IF channel = <<>> THEN feed.error ELSE channel[Len(channel)] = Nothing,
       disconnected |-> worker.pc = "gone",
       age |-> IF channel = <<>> THEN feed.age ELSE 0]

(* A frame polls, and draws what is known then.  It comes again every       *)
(* 500 ms.                                                                  *)
Frame ==
  /\ ui.pc = "idle"
  /\ feed' = Polled
  /\ channel' = <<>>
  /\ UNCHANGED <<world, worker, lasting, ui>>

NoFeed == [latest |-> Nothing, error |-> FALSE, disconnected |-> FALSE, age |-> 0]

Idle == [pc |-> "idle", hwnd |-> Nothing, met |-> Nothing, raised |-> Nothing]

(* A click on one of the windows drawn, or on one of the taskbar.           *)
Click ==
  /\ ui.pc = "idle"
  /\ feed.latest # Nothing
  /\ \E h \in feed.latest : ui' = [Idle EXCEPT !.pc = "checking", !.hwnd = h]
  /\ UNCHANGED <<world, worker, lasting, channel, feed>>

(* Variant: what was listed is not looked at again. *)
MayActivateListed(w) == w # Nothing

(* activation_precheck: it is still a window, and not one of our own.       *)
MayActivate(w) == w # Nothing /\ ~Mine(w)

Check ==
  /\ ui.pc = "checking"
  /\ ui' = IF MayActivate(at[ui.hwnd])
           THEN [ui EXCEPT !.pc = "requesting", !.met = at[ui.hwnd]] ELSE Idle
  /\ UNCHANGED <<world, worker, lasting, channel, feed>>

(* SetForegroundWindow raises whatever has the handle now; or Windows       *)
(* refuses, or accepts without an effect.                                   *)
Request ==
  /\ ui.pc = "requesting"
  /\ \E window \in {at[ui.hwnd], Nothing} :
       ui' = [ui EXCEPT !.pc = "looking", !.raised = window]
  /\ UNCHANGED <<world, worker, lasting, channel, feed>>

(* GetForegroundWindow; the notice says which of the three it was.          *)
Look ==
  /\ ui.pc = "looking"
  /\ ui' = Idle
  /\ UNCHANGED <<world, worker, lasting, channel, feed>>

(* The window is closed, the process ends and its threads with it.          *)
ClosePreview ==
  /\ ui.pc = "idle"
  /\ ui' = [Idle EXCEPT !.pc = "closed"]
  /\ worker' = At("gone")
  /\ lasting' = {}
  /\ channel' = <<>>
  /\ feed' = NoFeed
  /\ UNCHANGED world

Tick ==
  /\ feed.age < StallAfter
  /\ feed' = [feed EXCEPT !.age = @ + 1]
  /\ UNCHANGED <<world, worker, lasting, channel, ui>>

-----------------------------------------------------------------------------
(* The preview starts over the windows there are. *)
Init ==
  /\ at \in [Handles -> Windows \cup {Nothing}]
  /\ \A g, h \in Handles : at[g] = at[h] => g = h \/ at[g] = Nothing
  /\ opened = {at[h] : h \in Present}
  /\ worker = At("start")
  /\ lasting = {}
  /\ channel = <<>>
  /\ feed = NoFeed
  /\ ui = Idle

Others ==
  \/ \E h \in Handles : CloseWindow(h) \/ \E w \in Windows : OpenWindow(h, w)
  \/ Break

Feed == StartEnumeration \/ Identify \/ Read \/ Send \/ WakeUp

UiThread == Frame \/ Check \/ Request \/ Look

Next ==
  /\ ui.pc # "closed"
  /\ Others \/ Feed \/ UiThread \/ Click \/ ClosePreview \/ Tick

-----------------------------------------------------------------------------
TypeOK ==
  /\ at \in [Handles -> Windows \cup {Nothing}]
  /\ opened \subseteq Windows
  /\ worker \in [pc : {"start", "collecting", "asleep", "waiting", "hung", "gone"},
                 todo : SUBSET Handles, reading : Readings \cup {Nothing},
                 items : SUBSET Items, skipped : SUBSET Handles]
  /\ lasting \subseteq Items
  /\ channel \in Seq((SUBSET Handles) \cup {Nothing})
  /\ feed \in [latest : (SUBSET Handles) \cup {Nothing}, error : BOOLEAN,
               disconnected : BOOLEAN, age : 0..StallAfter]
  /\ ui \in [pc : {"idle", "checking", "requesting", "looking", "closed"},
             hwnd : Handles \cup {Nothing}, met : Windows \cup {Nothing},
             raised : Windows \cup {Nothing}]

(* What is sent as a list of windows is one: every window of an application *)
(* that stayed open all through the enumeration is in it or was counted as  *)
(* skipped, and not both, whatever came and went around it and whatever     *)
(* else could not be read; of all else that stayed open, nothing is in it.  *)
ListIsOfOneEnumeration ==
  Collected =>
    \A l \in lasting :
      l \in worker.items <=>
        KindOf[l.window] = "app" /\ l.hwnd \notin worker.skipped

(* The preview leaves its own windows alone, whose threads might not answer *)
(* it: it waits for none of them, and a click raises none, unless the       *)
(* handle has changed hands between the look and the act.                   *)
OwnWindowsAreLeftAlone ==
  /\ Working("waiting") => at[worker.reading.hwnd] # worker.reading.owner
  /\ ui.raised # Nothing => ~Mine(ui.raised) \/ ui.raised # ui.met

(* A feed that will never send again is reported in the end, and the report *)
(* stays, whatever list there is to show and whatever is clicked.           *)
StuckFeedIsReported ==
  <>[]Stuck => <>[](ui.pc = "closed" \/ PreviewState(feed) = "failed")
=============================================================================
