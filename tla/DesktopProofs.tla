---------------------------- MODULE DesktopProofs ----------------------------
(***************************************************************************)
(* The preview and the monitor for every set of windows, handles, PIDs and *)
(* processes: what is listed is of one enumeration, the preview leaves its *)
(* own windows alone, and the reports of the monitor add up.               *)
(***************************************************************************)
EXTENDS Desktop, TLAPS, WellFoundedInduction

(* Every window that was opened had one handle, and has it or none now.     *)
WorldOK ==
  /\ \A h \in Handles : at[h] # Nothing => at[h] \in opened
  /\ \A g, h \in Handles : at[g] = at[h] => g = h \/ at[g] = Nothing

(* How far the enumeration has got with a window that stayed.               *)
Met(l) ==
  \/ l.hwnd \in worker.todo
  \/ /\ worker.reading # Nothing
     /\ worker.reading = [hwnd |-> l.hwnd, owner |-> l.window]
  \/ /\ l.hwnd \notin worker.todo
     /\ worker.reading # Nothing => worker.reading.hwnd # l.hwnd
     /\ l \in worker.items <=>
          KindOf[l.window] = "app" /\ l.hwnd \notin worker.skipped

EnumerationOK ==
  /\ worker.pc = "start" => worker.items = {} /\ worker.todo = {} /\ worker.reading = Nothing
  /\ worker.skipped \cap worker.todo = {}
  /\ worker.pc \in {"asleep", "hung", "gone", "start"} => lasting = {}
  /\ \A l \in lasting : at[l.hwnd] = l.window
  /\ worker.reading # Nothing =>
       /\ worker.reading.owner \in opened
       /\ KindOf[worker.reading.owner] # "elsewhere"
       /\ worker.reading.hwnd \notin worker.todo \cup worker.skipped
  /\ \A i \in worker.items :
       /\ i.hwnd \notin worker.todo
       /\ worker.reading # Nothing => i.hwnd # worker.reading.hwnd
  /\ worker.pc = "collecting" => \A l \in lasting : Met(l)
  /\ worker.pc = "waiting" =>
       /\ worker.reading # Nothing
       /\ at[worker.reading.hwnd] # worker.reading.owner

ActivationOK ==
  /\ ui.pc = "requesting" => ui.met # Nothing /\ ~Mine(ui.met)
  /\ ui.pc \in {"idle", "checking", "requesting", "closed"} => ui.raised = Nothing
  /\ ui.pc \in {"checking", "requesting"} => ui.hwnd \in Handles
  /\ ui.raised # Nothing => ~Mine(ui.raised) \/ ui.raised # ui.met

FeedInv == TypeOK /\ WorldOK /\ EnumerationOK /\ ActivationOK
-----------------------------------------------------------------------------
(* The preview. *)

WorkerRecord ==
  [pc : {"start", "collecting", "asleep", "waiting", "hung", "gone"},
   todo : SUBSET Handles, reading : Readings \cup {Nothing}, items : SUBSET Items,
   skipped : SUBSET Handles]

FeedRecord ==
  [latest : (SUBSET Handles) \cup {Nothing}, error : BOOLEAN, disconnected : BOOLEAN,
   age : 0..StallAfter]

UiRecord ==
  [pc : {"idle", "checking", "requesting", "looking", "closed"},
   hwnd : Handles \cup {Nothing}, met : Windows \cup {Nothing},
   raised : Windows \cup {Nothing}]

LEMMA FeedInit == Init => FeedInv
<1> SUFFICES ASSUME Init PROVE FeedInv
  OBVIOUS
<1>1. TypeOK
  <2>1. opened \subseteq Windows
    BY DEF Init, Present
  <2>2. 0 \in 0..StallAfter
    BY WindowFeedAssumption
  <2>3. worker = At("start") /\ feed = NoFeed /\ ui = Idle /\ channel = <<>> /\ lasting = {}
        /\ at \in [Handles -> Windows \cup {Nothing}]
    BY DEF Init
  <2>4. At("start") \in WorkerRecord
    BY DEF At, WorkerRecord
  <2>5. NoFeed \in FeedRecord
    BY <2>2 DEF NoFeed, FeedRecord
  <2>6. Idle \in UiRecord
    BY DEF Idle, UiRecord
  <2> QED BY <2>1, <2>3, <2>4, <2>5, <2>6 DEF TypeOK, WorkerRecord, UiRecord, FeedRecord
<1>2. WorldOK
  BY DEF Init, WorldOK, Present
<1>3. EnumerationOK
  BY DEF Init, EnumerationOK, At
<1>4. ActivationOK
  BY DEF Init, ActivationOK, Idle
<1> QED BY <1>1, <1>2, <1>3, <1>4 DEF FeedInv

(* The world changes, and the enumeration does not see it. *)
LEMMA OpenKeeps ==
  ASSUME FeedInv, NEW h \in Handles, NEW w \in Windows, OpenWindow(h, w)
  PROVE  FeedInv'
<1>1. /\ at' = [at EXCEPT ![h] = w] /\ opened' = opened \cup {w}
      /\ at[h] = Nothing /\ w \notin opened
      /\ UNCHANGED <<worker, lasting, channel, feed, ui>>
  BY DEF OpenWindow
<1>2. at \in [Handles -> Windows \cup {Nothing}]
  BY DEF FeedInv, TypeOK
<1>3. at'[h] = w /\ w # Nothing /\ \A g \in Handles \ {h} : at'[g] = at[g]
  BY <1>1, <1>2, WindowFeedAssumption
<1>4. TypeOK'
  BY <1>1 DEF FeedInv, TypeOK
<1>5. WorldOK'
  BY <1>1, <1>3 DEF FeedInv, WorldOK
<1>6. EnumerationOK'
  <2>1. \A l \in lasting : l.hwnd \in Handles /\ l.window # Nothing
    BY WindowFeedAssumption DEF FeedInv, TypeOK, Items
  <2>2. \A l \in lasting : at'[l.hwnd] = l.window
    BY <1>1, <1>3, <2>1 DEF FeedInv, EnumerationOK
  <2>3. worker.reading # Nothing => worker.reading.hwnd \in Handles
    BY DEF FeedInv, TypeOK, Readings
  <2>4. worker.pc = "waiting" => at'[worker.reading.hwnd] # worker.reading.owner
    BY <1>1, <1>3, <2>3 DEF FeedInv, EnumerationOK
  <2> QED BY <1>1, <2>2, <2>4 DEF FeedInv, EnumerationOK, Met
<1>7. ActivationOK'
  BY <1>1 DEF FeedInv, ActivationOK
<1> QED BY <1>4, <1>5, <1>6, <1>7 DEF FeedInv

LEMMA CloseKeeps ==
  ASSUME FeedInv, NEW h \in Handles, CloseWindow(h)
  PROVE  FeedInv'
<1>1. /\ at' = [at EXCEPT ![h] = Nothing] /\ at[h] # Nothing
      /\ lasting' = {l \in lasting : l.hwnd # h}
      /\ UNCHANGED <<opened, worker, channel, feed, ui>>
  BY DEF CloseWindow
<1>2. at \in [Handles -> Windows \cup {Nothing}]
  BY DEF FeedInv, TypeOK
<1>3. at'[h] = Nothing /\ \A g \in Handles \ {h} : at'[g] = at[g]
  BY <1>1, <1>2
<1>4. TypeOK'
  BY <1>1 DEF FeedInv, TypeOK
<1>5. WorldOK'
  BY <1>1, <1>3 DEF FeedInv, WorldOK
<1>6. EnumerationOK'
  <2>1. \A l \in lasting' : l \in lasting /\ at'[l.hwnd] = l.window
    BY <1>1, <1>3 DEF FeedInv, EnumerationOK, TypeOK, Items
  <2>2. worker.reading # Nothing =>
          worker.reading.hwnd \in Handles /\ worker.reading.owner # Nothing
    BY WindowFeedAssumption DEF FeedInv, TypeOK, Readings
  <2>3. worker.pc = "waiting" => at'[worker.reading.hwnd] # worker.reading.owner
    BY <1>1, <1>3, <2>2 DEF FeedInv, EnumerationOK
  <2> QED BY <1>1, <2>1, <2>3 DEF FeedInv, EnumerationOK, Met
<1>7. ActivationOK'
  BY <1>1 DEF FeedInv, ActivationOK
<1> QED BY <1>4, <1>5, <1>6, <1>7 DEF FeedInv

(* The steps of the feed. *)
LEMMA StartKeeps ==
  ASSUME FeedInv, StartEnumeration
  PROVE  FeedInv'
<1>1. /\ worker' = [pc |-> "collecting", todo |-> Present, reading |-> Nothing,
                    items |-> {}, skipped |-> {}]
      /\ lasting' = {[hwnd |-> h, window |-> at[h]] : h \in Present}
      /\ UNCHANGED <<at, opened, channel, feed, ui>>
  BY DEF StartEnumeration, At, world
<1>2. /\ lasting' \subseteq Items
      /\ \A l \in lasting' : at[l.hwnd] = l.window /\ l.hwnd \in Present
  BY <1>1 DEF FeedInv, TypeOK, Items, Present
<1>3. TypeOK'
  BY <1>1, <1>2 DEF FeedInv, TypeOK, Present
<1>4. WorldOK'
  BY <1>1 DEF FeedInv, WorldOK
<1>5. EnumerationOK'
  BY <1>1, <1>2 DEF EnumerationOK, Met
<1>6. ActivationOK'
  BY <1>1 DEF FeedInv, ActivationOK
<1> QED BY <1>3, <1>4, <1>5, <1>6 DEF FeedInv

LEMMA IdentifyKeeps ==
  ASSUME FeedInv, Identify
  PROVE  FeedInv'
<1>1. /\ worker.pc = "collecting" /\ worker.reading = Nothing
      /\ UNCHANGED <<at, opened, lasting, channel, feed, ui>>
  BY DEF Identify, Working, world
<1>2. PICK h \in worker.todo :
        \/ worker' = [worker EXCEPT !.todo = @ \ {h}, !.skipped = @ \cup {h}]
        \/ /\ at[h] # Nothing /\ KindOf[at[h]] = "elsewhere"
           /\ worker' = [worker EXCEPT !.todo = @ \ {h}]
        \/ /\ at[h] # Nothing /\ KindOf[at[h]] # "elsewhere"
           /\ worker' = [worker EXCEPT !.todo = @ \ {h},
                                       !.reading = [hwnd |-> h, owner |-> at[h]]]
  BY DEF Identify, Remaining
<1>3. /\ h \in Handles /\ at[h] \in Windows \cup {Nothing}
      /\ worker \in WorkerRecord
  BY DEF FeedInv, TypeOK, WorkerRecord
<1>4. /\ worker'.pc = "collecting" /\ worker'.todo = worker.todo \ {h}
      /\ worker'.items = worker.items
  BY <1>1, <1>2, <1>3 DEF WorkerRecord
<1> DEFINE Skipped == worker' = [worker EXCEPT !.todo = @ \ {h}, !.skipped = @ \cup {h}]
           Elsewhere == /\ at[h] # Nothing /\ KindOf[at[h]] = "elsewhere"
                        /\ worker' = [worker EXCEPT !.todo = @ \ {h}]
           Reading == /\ at[h] # Nothing /\ KindOf[at[h]] # "elsewhere"
                      /\ worker' = [worker EXCEPT !.todo = @ \ {h},
                                                  !.reading = [hwnd |-> h, owner |-> at[h]]]
<1>5. ASSUME Reading
      PROVE  /\ worker'.reading = [hwnd |-> h, owner |-> at[h]]
             /\ worker'.reading \in Readings /\ worker'.reading # Nothing
             /\ worker'.skipped = worker.skipped
  <2>1. [hwnd |-> h, owner |-> at[h]] \in Readings
    BY <1>3, <1>5 DEF Readings
  <2>2. worker'.reading = [hwnd |-> h, owner |-> at[h]] /\ worker'.skipped = worker.skipped
    BY <1>3, <1>5 DEF WorkerRecord
  <2> QED BY <2>1, <2>2, WindowFeedAssumption
<1>6. ASSUME Skipped \/ Elsewhere
      PROVE  /\ worker'.reading = Nothing
             /\ worker'.skipped \in {worker.skipped, worker.skipped \cup {h}}
             /\ worker'.skipped = worker.skipped \cup {h} \/ KindOf[at[h]] = "elsewhere"
  <2>1. CASE Skipped
    BY <1>1, <1>3, <2>1 DEF WorkerRecord
  <2>2. CASE Elsewhere
    BY <1>1, <1>3, <2>2 DEF WorkerRecord
  <2> QED BY <1>6, <2>1, <2>2
<1>7. TypeOK'
  <2>1. CASE Skipped
    BY <1>1, <1>3, <2>1 DEF FeedInv, TypeOK, WorkerRecord
  <2>2. CASE Elsewhere
    BY <1>1, <1>3, <2>2 DEF FeedInv, TypeOK, WorkerRecord
  <2>3. CASE Reading
    BY <1>1, <1>3, <1>5, <2>3 DEF FeedInv, TypeOK, WorkerRecord
  <2> QED BY <1>2, <2>1, <2>2, <2>3
<1>8. EnumerationOK'
  <2>1. /\ worker'.skipped \ {h} = worker.skipped \ {h}
        /\ h \notin worker.skipped
        /\ worker'.reading # Nothing => Reading
    BY <1>2, <1>5, <1>6 DEF FeedInv, EnumerationOK
  <2>2. \A l \in lasting : Met(l)'
    <3>1. SUFFICES ASSUME NEW l \in lasting PROVE Met(l)'
      OBVIOUS
    <3>2. at[l.hwnd] = l.window /\ Met(l) /\ l.window # Nothing /\ l \in Items
      BY <1>1, WindowFeedAssumption DEF FeedInv, EnumerationOK, TypeOK, Items
    <3>3. CASE l.hwnd # h
      <4>1. l.hwnd \in worker'.skipped <=> l.hwnd \in worker.skipped
        BY <2>1, <3>3
      <4>2. worker'.reading # Nothing => worker'.reading.hwnd = h
        BY <1>5, <2>1
      <4> QED BY <1>1, <1>4, <3>2, <3>3, <4>1, <4>2 DEF Met
    <3>4. CASE l.hwnd = h /\ Reading
      BY <1>5, <3>2, <3>4 DEF Met
    <3>5. CASE l.hwnd = h /\ (Skipped \/ Elsewhere)
      <4>1. l \notin worker.items
        BY <1>2, <3>5 DEF FeedInv, EnumerationOK
      <4>2. KindOf[l.window] # "app" \/ h \in worker'.skipped
        BY <1>6, <3>2, <3>5
      <4> QED BY <1>4, <1>6, <3>5, <4>1, <4>2 DEF Met
    <3> QED BY <1>2, <3>3, <3>4, <3>5
  <2>3. at[h] # Nothing => at[h] \in opened
    BY <1>3 DEF FeedInv, WorldOK
  <2>4. /\ \A l \in lasting : at[l.hwnd] = l.window
        /\ \A i \in worker.items : i.hwnd \notin worker.todo
        /\ worker.skipped \cap worker.todo = {}
    BY DEF FeedInv, EnumerationOK
  <2>5. worker'.reading # Nothing =>
          /\ worker'.reading.owner \in opened
          /\ KindOf[worker'.reading.owner] # "elsewhere"
          /\ worker'.reading.hwnd = h
          /\ worker'.skipped = worker.skipped
    BY <1>5, <2>1, <2>3
  <2>6. worker'.skipped \cap worker'.todo = {}
    BY <1>4, <2>1, <2>4
  <2> QED BY <1>1, <1>2, <1>4, <2>1, <2>2, <2>4, <2>5, <2>6 DEF EnumerationOK
<1>9. WorldOK' /\ ActivationOK'
  BY <1>1 DEF FeedInv, WorldOK, ActivationOK
<1> QED BY <1>7, <1>8, <1>9 DEF FeedInv

LEMMA ReadKeeps ==
  ASSUME FeedInv, Read
  PROVE  FeedInv'
<1>1. /\ worker.pc = "collecting" /\ worker.reading # Nothing
      /\ UNCHANGED <<at, opened, lasting, channel, feed, ui>>
      /\ worker \in WorkerRecord /\ worker.reading \in Readings
  BY DEF Read, Working, world, FeedInv, TypeOK, WorkerRecord
<1>2. PICK h \in Handles, owner \in Windows : worker.reading = [hwnd |-> h, owner |-> owner]
  BY <1>1 DEF Readings
<1>3. worker.reading.hwnd = h /\ worker.reading.owner = owner
      /\ at[h] \in Windows \cup {Nothing}
  BY <1>2 DEF FeedInv, TypeOK
<1>4. PICK text : text = IF at[h] # Nothing /\ MaySendMessages(owner) THEN KindOf[at[h]]
                         ELSE "none"
  OBVIOUS
<1>5. PICK new : new = IF text \in {"app", "ui", "elsewhere"} /\ ~Mine(owner)
                       THEN {[hwnd |-> h, window |-> at[h]]} ELSE {}
  OBVIOUS
<1>6. worker' = [worker EXCEPT !.pc = IF text = "mute" THEN "waiting" ELSE @,
                               !.reading = IF text = "mute" THEN @ ELSE Nothing,
                               !.items = @ \cup new]
  <2>1. new = {} => worker.items \cup new = worker.items
    OBVIOUS
  <2> QED BY <1>3, <1>4, <1>5, <2>1 DEF Read
<1>7. /\ owner \in opened /\ KindOf[owner] # "elsewhere"
      /\ h \notin worker.todo \cup worker.skipped /\ worker.skipped \cap worker.todo = {}
      /\ \A i \in worker.items : i.hwnd \notin worker.todo /\ i.hwnd # h
      /\ \A l \in lasting : at[l.hwnd] = l.window /\ Met(l) /\ l \in Items
  BY <1>1, <1>3 DEF FeedInv, EnumerationOK, TypeOK
<1>8. new \subseteq Items /\ \A i \in new : i.hwnd = h
  <2>1. CASE new = {}
    BY <2>1
  <2>2. CASE new = {[hwnd |-> h, window |-> at[h]]}
    <3>1. at[h] \in Windows
      BY <1>3, <1>4, <1>5, <2>2
    <3> QED BY <2>2, <3>1 DEF Items
  <2> QED BY <1>5, <2>1, <2>2
<1>9. /\ worker'.items = worker.items \cup new /\ worker'.todo = worker.todo
      /\ worker'.skipped = worker.skipped
      /\ worker'.pc = IF text = "mute" THEN "waiting" ELSE "collecting"
      /\ worker'.reading = IF text = "mute" THEN worker.reading ELSE Nothing
      /\ worker' \in WorkerRecord
  BY <1>1, <1>6, <1>8 DEF WorkerRecord
<1>10. TypeOK'
  BY <1>1, <1>9 DEF FeedInv, TypeOK, WorkerRecord
<1>11. EnumerationOK'
  <2>1. CASE text = "mute"
    <3>1. at[h] # Nothing /\ Mine(at[h]) /\ ~Mine(owner) /\ new = {}
      BY <1>4, <1>5, <2>1 DEF MaySendMessages, Mine
    <3>2. at[h] # owner
      BY <3>1
    <3> QED BY <1>1, <1>3, <1>7, <1>9, <2>1, <3>1, <3>2 DEF EnumerationOK
  <2>2. CASE text # "mute"
    <3>1. ASSUME NEW l \in lasting PROVE Met(l)'
      <4>1. l \in Items /\ at[l.hwnd] = l.window /\ Met(l) /\ l.window # Nothing
            /\ l = [hwnd |-> l.hwnd, window |-> l.window]
        BY <1>7, WindowFeedAssumption DEF Items
      <4>2. CASE l.hwnd \in worker.todo
        BY <1>9, <4>2 DEF Met
      <4>3. CASE l.hwnd = h
        <5>1. worker.reading = [hwnd |-> l.hwnd, owner |-> l.window]
          BY <1>1, <1>3, <1>7, <4>1, <4>3 DEF Met
        <5>2. owner = l.window /\ at[h] = owner /\ l \notin worker.items
          BY <1>3, <1>7, <4>1, <4>3, <5>1
        <5>3. l \in new <=> KindOf[l.window] = "app"
          <6>1. CASE Mine(owner)
            BY <1>5, <5>2, <6>1 DEF Mine
          <6>2. CASE ~Mine(owner)
            <7>1. text = KindOf[owner] /\ owner # Nothing
              BY <1>4, <4>1, <5>2, <6>2 DEF MaySendMessages
            <7>2. text \notin {"ui", "elsewhere"}
              BY <1>7, <6>2, <7>1 DEF Mine
            <7> QED BY <1>5, <4>1, <4>3, <5>2, <6>2, <7>1, <7>2
          <6> QED BY <6>1, <6>2
        <5> QED BY <1>7, <1>9, <2>2, <4>3, <5>2, <5>3 DEF Met
      <4>4. CASE l.hwnd \notin worker.todo /\ l.hwnd # h
        <5>1. worker.reading # [hwnd |-> l.hwnd, owner |-> l.window]
          BY <1>3, <4>4
        <5>2. l \notin new
              /\ (l \in worker.items <=>
                    KindOf[l.window] = "app" /\ l.hwnd \notin worker.skipped)
          BY <1>8, <4>1, <4>4, <5>1 DEF Met
        <5> QED BY <1>9, <2>2, <4>4, <5>2 DEF Met
      <4> QED BY <4>2, <4>3, <4>4
    <3> QED BY <1>1, <1>7, <1>8, <1>9, <2>2, <3>1 DEF EnumerationOK
  <2> QED BY <2>1, <2>2
<1> QED BY <1>1, <1>10, <1>11 DEF FeedInv, WorldOK, ActivationOK

(* The feed begins from nothing, after an event or because it is stuck.     *)
LEMMA AnewKeeps ==
  ASSUME FeedInv, NEW pc \in {"start", "asleep", "hung", "gone"}, worker' = At(pc),
         lasting' = {}, UNCHANGED <<at, opened>>, ActivationOK', ui' \in UiRecord,
         channel' \in Seq((SUBSET Handles) \cup {Nothing}), feed' \in FeedRecord
  PROVE  FeedInv'
<1>1. worker' \in WorkerRecord /\ worker'.pc = pc /\ worker'.todo = {}
      /\ worker'.reading = Nothing /\ worker'.items = {}
  BY DEF At, WorkerRecord
<1>2. TypeOK'
  BY <1>1 DEF FeedInv, TypeOK, WorkerRecord, UiRecord, FeedRecord
<1>3. EnumerationOK'
  BY <1>1 DEF EnumerationOK
<1> QED BY <1>2, <1>3 DEF FeedInv, WorldOK

LEMMA SendKeeps ==
  ASSUME FeedInv, Send
  PROVE  FeedInv'
<1>1. {i.hwnd : i \in worker.items} \in SUBSET Handles
  BY DEF FeedInv, TypeOK, Items
<1>2. channel' \in Seq((SUBSET Handles) \cup {Nothing})
  <2>1. channel \in Seq((SUBSET Handles) \cup {Nothing})
    BY DEF FeedInv, TypeOK
  <2>2. PICK e \in (SUBSET Handles) \cup {Nothing} : channel' = Append(channel, e)
    BY <1>1 DEF Send
  <2> QED BY <2>1, <2>2
<1> QED BY <1>2, AnewKeeps
        DEF Send, world, FeedInv, TypeOK, UiRecord, FeedRecord, ActivationOK

(* The newest of the lists received is one of them. *)
LEMMA NewestExists ==
  ASSUME NEW c, NEW S, c \in Seq(S), {i \in DOMAIN c : c[i] # Nothing} # {}
  PROVE  LET snapshots == {i \in DOMAIN c : c[i] # Nothing}
         IN  (CHOOSE i \in snapshots : \A j \in snapshots : j <= i) \in snapshots
<1> DEFINE snapshots == {i \in DOMAIN c : c[i] # Nothing}
           left == {Len(c) - i : i \in snapshots}
<1>1. DOMAIN c = 1..Len(c) /\ Len(c) \in Nat
  OBVIOUS
<1>2. left \subseteq Nat /\ left # {}
  BY <1>1
<1>3. PICK n \in left : \A m \in left : ~(<<m, n>> \in OpToRel(<, Nat))
  BY <1>2, NatLessThanWellFounded, WFMin
<1>4. \A m \in left : ~(m < n)
  BY <1>2, <1>3 DEF OpToRel
<1>5. PICK i \in snapshots : n = Len(c) - i
  BY <1>3
<1>6. \A j \in snapshots : j <= i
  <2>1. SUFFICES ASSUME NEW j \in snapshots PROVE j <= i
    OBVIOUS
  <2>2. ~(Len(c) - j < n)
    BY <1>4
  <2> QED BY <1>1, <1>5, <2>2
<1> QED BY <1>6

LEMMA FrameKeeps ==
  ASSUME FeedInv, Frame
  PROVE  FeedInv'
<1>1. feed' = Polled /\ channel' = <<>> /\ UNCHANGED <<at, opened, worker, lasting, ui>>
  BY DEF Frame, world
<1>2. channel \in Seq((SUBSET Handles) \cup {Nothing}) /\ feed \in FeedRecord
  BY DEF FeedInv, TypeOK, FeedRecord
<1> DEFINE snapshots == {i \in DOMAIN channel : channel[i] # Nothing}
           newest == CHOOSE i \in snapshots : \A j \in snapshots : j <= i
<1>3. snapshots # {} => channel[newest] \in (SUBSET Handles) \cup {Nothing}
  <2>1. snapshots # {} => newest \in DOMAIN channel
    BY <1>2, NewestExists
  <2> HIDE DEF newest, snapshots
  <2> QED BY <1>2, <2>1
<1> HIDE DEF newest, snapshots
<1>4. PICK latest \in (SUBSET Handles) \cup {Nothing} :
        latest = IF snapshots = {} THEN feed.latest ELSE channel[newest]
  <2>1. feed.latest \in (SUBSET Handles) \cup {Nothing}
    BY <1>2 DEF FeedRecord
  <2> QED BY <1>3, <2>1
<1>5. feed'.latest = latest /\ feed' \in FeedRecord
  <2>1. PICK e \in BOOLEAN :
          e = IF channel = <<>> THEN feed.error ELSE channel[Len(channel)] = Nothing
    BY <1>2 DEF FeedRecord
  <2>2. PICK d \in BOOLEAN : d = (worker.pc = "gone")
    OBVIOUS
  <2>3. PICK age \in 0..StallAfter : age = IF channel = <<>> THEN feed.age ELSE 0
    BY <1>2, WindowFeedAssumption DEF FeedRecord
  <2>4. feed' = [latest |-> latest, error |-> e, disconnected |-> d, age |-> age]
    BY <1>1, <1>4, <2>1, <2>2, <2>3 DEF Polled, newest, snapshots
  <2> QED BY <2>4 DEF FeedRecord
<1>6. TypeOK'
  BY <1>1, <1>5 DEF FeedInv, TypeOK, FeedRecord
<1> QED BY <1>1, <1>6 DEF FeedInv, WorldOK, EnumerationOK, Met, ActivationOK

(* The steps of a click. *)
LEMMA ActivationKeeps ==
  ASSUME FeedInv, UNCHANGED <<at, opened, worker, lasting, channel>>,
         feed' \in FeedRecord, ui' \in UiRecord, ActivationOK'
  PROVE  FeedInv'
BY DEF FeedInv, TypeOK, WorldOK, EnumerationOK, Met, FeedRecord, UiRecord

LEMMA ClickKeeps ==
  ASSUME FeedInv, Click \/ Check \/ Request \/ Look
  PROVE  FeedInv'
<1>1. /\ UNCHANGED <<at, opened, worker, lasting, channel, feed>>
      /\ feed \in FeedRecord /\ ui \in UiRecord
      /\ at \in [Handles -> Windows \cup {Nothing}]
  BY DEF Click, Check, Request, Look, world, FeedInv, TypeOK, FeedRecord, UiRecord
<1>2. /\ Idle \in UiRecord /\ Idle.pc = "idle" /\ Idle.raised = Nothing
  BY DEF Idle, UiRecord
<1>3. CASE Click
  <2>1. PICK h \in Handles : ui' = [Idle EXCEPT !.pc = "checking", !.hwnd = h]
    BY <1>1, <1>3 DEF Click, FeedRecord
  <2>2. ui' \in UiRecord /\ ui'.pc = "checking" /\ ui'.hwnd = h /\ ui'.raised = Nothing
    BY <1>2, <2>1 DEF Idle, UiRecord
  <2> QED BY <1>1, <2>2, ActivationKeeps DEF ActivationOK
<1>4. CASE Check
  <2>1. ui.pc = "checking" /\ ui.hwnd \in Handles /\ at[ui.hwnd] \in Windows \cup {Nothing}
        /\ ui.raised = Nothing
    BY <1>1, <1>4 DEF Check, FeedInv, ActivationOK
  <2>2. CASE ui' = Idle
    BY <1>1, <1>2, <2>2, ActivationKeeps DEF ActivationOK
  <2>3. CASE MayActivate(at[ui.hwnd]) /\ ui' = [ui EXCEPT !.pc = "requesting", !.met = at[ui.hwnd]]
    <3>1. ui' \in UiRecord /\ ui'.pc = "requesting" /\ ui'.met = at[ui.hwnd]
          /\ ui'.hwnd = ui.hwnd /\ ui'.raised = Nothing
      BY <1>1, <2>1, <2>3 DEF UiRecord
    <3> QED BY <1>1, <2>1, <2>3, <3>1, ActivationKeeps DEF ActivationOK, MayActivate
  <2> QED BY <1>4, <2>2, <2>3 DEF Check
<1>5. CASE Request
  <2>1. ui.pc = "requesting" /\ ui.hwnd \in Handles /\ at[ui.hwnd] \in Windows \cup {Nothing}
        /\ ~Mine(ui.met)
    BY <1>1, <1>5 DEF Request, FeedInv, ActivationOK
  <2>2. PICK window \in {at[ui.hwnd], Nothing} :
          ui' = [ui EXCEPT !.pc = "looking", !.raised = window]
    BY <1>5 DEF Request
  <2>3. ui' \in UiRecord /\ ui'.pc = "looking" /\ ui'.met = ui.met
    BY <1>1, <2>1, <2>2 DEF UiRecord
  <2>4. ~Mine(ui'.raised) \/ ui'.raised # ui'.met
    BY <2>1, <2>3
  <2> QED BY <1>1, <2>3, <2>4, ActivationKeeps DEF ActivationOK
<1>6. CASE Look
  BY <1>1, <1>2, <1>6, ActivationKeeps DEF Look, ActivationOK
<1> QED BY <1>3, <1>4, <1>5, <1>6

LEMMA FeedNext == FeedInv /\ [Next]_feedVars => FeedInv'
<1> SUFFICES ASSUME FeedInv, [Next]_feedVars PROVE FeedInv'
  OBVIOUS
<1>1. feed \in FeedRecord /\ ui \in UiRecord
      /\ channel \in Seq((SUBSET Handles) \cup {Nothing}) /\ ActivationOK
  BY DEF FeedInv, TypeOK, FeedRecord, UiRecord
<1>2. CASE UNCHANGED feedVars
  BY <1>2 DEF feedVars, FeedInv, TypeOK, WorldOK, EnumerationOK, Met, ActivationOK
<1>3. CASE WakeUp
  BY <1>1, <1>3, AnewKeeps DEF WakeUp, world, ActivationOK, FeedInv, EnumerationOK, Working
<1>4. CASE Break
  <2>1. PICK pc \in {"hung", "gone"} : worker' = At(pc)
    BY <1>4 DEF Break
  <2> QED BY <1>1, <1>4, <2>1, AnewKeeps DEF Break, world, ActivationOK
<1>5. CASE ClosePreview
  <2>1. NoFeed \in FeedRecord
    <3>1. 0 \in 0..StallAfter
      BY WindowFeedAssumption
    <3> QED BY <3>1 DEF NoFeed, FeedRecord
  <2>2. ui' \in UiRecord /\ ui'.pc = "closed" /\ ui'.raised = Nothing
    BY <1>5 DEF ClosePreview, Idle, UiRecord
  <2> QED BY <1>5, <2>1, <2>2, AnewKeeps DEF ClosePreview, world, ActivationOK
<1>6. CASE Tick
  <2>1. feed' \in FeedRecord
    BY <1>1, <1>6, WindowFeedAssumption DEF Tick, FeedRecord
  <2> QED BY <1>1, <1>6, <2>1, ActivationKeeps DEF Tick, world, ActivationOK
<1> QED BY <1>2, <1>3, <1>4, <1>5, <1>6, OpenKeeps, CloseKeeps, StartKeeps, IdentifyKeeps,
           ReadKeeps, SendKeeps, FrameKeeps, ClickKeeps
        DEF Next, Others, Feed, UiThread

-----------------------------------------------------------------------------
(* The monitor. *)

(* A process that has begun has one PID, if it still has one.               *)
Has(p, pid) == p \in 1..born /\ \A q \in Pids : running[q] = p => q = pid

Gone(p) == p \in 1..born /\ \A q \in Pids : running[q] # p

(* Whoever was met under a PID came after the one that was listed, or is it.*)
SampleOK(listed, met) ==
  /\ \A pid \in DOMAIN listed : Has(listed[pid], pid)
  /\ \A pid \in DOMAIN met :
       met[pid] # Monitor!Nobody =>
         Has(met[pid], pid) /\ (met[pid] = listed[pid] \/ Gone(listed[pid]))

(* What makes a PID differ from the sample before.                          *)
DifferencesOK ==
  sampling # "idle" =>
    /\ \A pid \in DOMAIN previous.names \ DOMAIN names : Gone(previous.names[pid])
    /\ \A pid \in DOMAIN creation \cap DOMAIN previous.names :
         creation[pid] = previous.creation[pid]
           \/ Monitor!Nobody \in {creation[pid], previous.creation[pid]}
           \/ Gone(previous.creation[pid])

MonitorInv ==
  /\ Monitor!TypeOK
  /\ \A pid \in Pids : running[pid] # Monitor!Nobody => Has(running[pid], pid)
  /\ SampleOK(names, creation)
  /\ SampleOK(previous.names, previous.creation)
  /\ DifferencesOK
  /\ sampling = "comparing" => DOMAIN creation = DOMAIN names
  /\ \A p \in exits : Gone(p)
  /\ DOMAIN view = DOMAIN previous.names

LEMMA MonitorInit == Monitor!Init => MonitorInv
BY DesktopAssumption
   DEF Monitor!Init, MonitorInv, Monitor!TypeOK, SampleOK, DifferencesOK, Monitor!NoneListed,
       Monitor!Nobody, Monitor!Processes

(* Time does not bring a process back, and gives none another PID.          *)
LEMMA WorldKeeps ==
  ASSUME MonitorInv, \E pid \in Pids : Monitor!Begin(pid) \/ Monitor!End(pid)
  PROVE  /\ born \in Nat /\ born' \in Nat
         /\ running' \in [Pids -> Monitor!Processes \cup {Monitor!Nobody}]
         /\ born' \in 0..MaxProcesses
         /\ UNCHANGED <<sampling, names, creation, previous, view, exits>>
         /\ \A p, pid : Has(p, pid) => Has(p, pid)'
         /\ \A p : Gone(p) => Gone(p)'
         /\ \A pid \in Pids : (running[pid] # Monitor!Nobody => Has(running[pid], pid))'
<1>1. /\ born \in 0..MaxProcesses /\ MaxProcesses \in Nat
      /\ running \in [Pids -> Monitor!Processes \cup {Monitor!Nobody}]
      /\ \A pid \in Pids : running[pid] # Monitor!Nobody => Has(running[pid], pid)
  BY DesktopAssumption DEF MonitorInv, Monitor!TypeOK
<1>2. PICK pid \in Pids : Monitor!Begin(pid) \/ Monitor!End(pid)
  OBVIOUS
<1>3. UNCHANGED <<sampling, names, creation, previous, view, exits>>
  BY <1>2 DEF Monitor!Begin, Monitor!End
<1>4. CASE Monitor!Begin(pid)
  <2>1. /\ born < MaxProcesses /\ born' = born + 1
        /\ running' = [running EXCEPT ![pid] = born']
    BY <1>4 DEF Monitor!Begin
  <2>2. born' \in 0..MaxProcesses /\ born' \in Monitor!Processes
    BY <1>1, <2>1 DEF Monitor!Processes
  <2>3. running'[pid] = born' /\ \A q \in Pids \ {pid} : running'[q] = running[q]
    BY <1>1, <2>1
  <2>4. \A p, q : Has(p, q) => Has(p, q)'
    BY <1>1, <2>1, <2>3 DEF Has
  <2>5. \A p : Gone(p) => Gone(p)'
    BY <1>1, <2>1, <2>3 DEF Gone
  <2>6. Has(born, pid)'
    BY <1>1, <2>1, <2>3 DEF Has, Monitor!Nobody
  <2> QED BY <1>1, <1>3, <2>1, <2>2, <2>3, <2>4, <2>5, <2>6
<1>5. CASE Monitor!End(pid)
  <2>1. born' = born /\ running' = [running EXCEPT ![pid] = Monitor!Nobody]
    BY <1>5 DEF Monitor!End
  <2>2. running'[pid] = Monitor!Nobody /\ \A q \in Pids \ {pid} : running'[q] = running[q]
    BY <1>1, <2>1
  <2>3. \A p, q : Has(p, q) => Has(p, q)'
    BY <2>1, <2>2 DEF Has, Monitor!Nobody
  <2>4. \A p : Gone(p) => Gone(p)'
    BY <2>1, <2>2 DEF Gone, Monitor!Nobody
  <2> QED BY <1>1, <1>3, <2>1, <2>2, <2>3, <2>4
<1> QED BY <1>2, <1>4, <1>5

LEMMA WorldStepKeeps ==
  ASSUME MonitorInv, \E pid \in Pids : Monitor!Begin(pid) \/ Monitor!End(pid)
  PROVE  MonitorInv'
<1>1. /\ UNCHANGED <<sampling, names, creation, previous, view, exits>>
      /\ \A p, pid : Has(p, pid) => Has(p, pid)'
      /\ \A p : Gone(p) => Gone(p)'
      /\ \A pid \in Pids : (running[pid] # Monitor!Nobody => Has(running[pid], pid))'
  BY WorldKeeps
<1>2. Monitor!TypeOK'
  BY <1>1, WorldKeeps DEF MonitorInv, Monitor!TypeOK, Monitor!Processes
<1>3. SampleOK(names, creation)' /\ SampleOK(previous.names, previous.creation)'
  BY <1>1 DEF MonitorInv, SampleOK
<1>4. DifferencesOK'
  BY <1>1 DEF MonitorInv, DifferencesOK
<1> QED BY <1>1, <1>2, <1>3, <1>4 DEF MonitorInv

LEMMA ListKeeps ==
  ASSUME MonitorInv, Monitor!List
  PROVE  MonitorInv'
<1> DEFINE there == {pid \in Pids : running[pid] # Monitor!Nobody}
<1>1. /\ sampling' = "opening" /\ names' = [pid \in there |-> running[pid]]
      /\ creation' = [p \in {} |-> Monitor!Nobody]
      /\ UNCHANGED <<running, born, previous, view, exits>>
  BY DEF Monitor!List, Monitor!Restrict, Monitor!NoneListed
<1>2. DOMAIN names' = there /\ \A pid \in there : names'[pid] = running[pid]
  BY <1>1
<1>3. DOMAIN creation' = {}
  BY <1>1
<1>4. Monitor!TypeOK'
  <2>1. names' \in [there -> Monitor!Processes]
    BY <1>1 DEF MonitorInv, Monitor!TypeOK
  <2>2. creation' \in [{} -> Monitor!Processes \cup {Monitor!Nobody}]
    BY <1>1
  <2> QED BY <1>1, <1>2, <1>3, <2>1, <2>2 DEF MonitorInv, Monitor!TypeOK
<1>5. SampleOK(names, creation)'
  BY <1>1, <1>2, <1>3 DEF MonitorInv, SampleOK, Has
<1>6. SampleOK(previous.names, previous.creation)' /\ \A p \in exits : Gone(p)'
  BY <1>1 DEF MonitorInv, SampleOK, Has, Gone
<1>7. DifferencesOK'
  <2>1. \A pid \in DOMAIN previous.names \ there : Gone(previous.names[pid])
    BY DEF MonitorInv, SampleOK, Has, Gone, Monitor!TypeOK, Monitor!Processes, Monitor!Nobody
  <2> QED BY <1>1, <1>2, <1>3, <2>1 DEF DifferencesOK, Gone
<1> QED BY <1>1, <1>4, <1>5, <1>6, <1>7 DEF MonitorInv, Has, Gone

LEMMA OpenPidKeeps ==
  ASSUME MonitorInv, Monitor!Open
  PROVE  MonitorInv'
<1>1. sampling = "opening" /\ UNCHANGED <<running, born, names, previous, view, exits>>
  BY DEF Monitor!Open
<1>0. PICK pid \in DOMAIN names \ DOMAIN creation :
        \E met \in {running[pid], Monitor!Nobody} :
          /\ creation' = [p \in DOMAIN creation \cup {pid} |->
                            IF p = pid THEN met ELSE creation[p]]
          /\ sampling' = IF DOMAIN creation' = DOMAIN names THEN "comparing" ELSE "opening"
  BY DEF Monitor!Open
<1>2. PICK met \in {running[pid], Monitor!Nobody} :
        /\ creation' = [p \in DOMAIN creation \cup {pid} |-> IF p = pid THEN met ELSE creation[p]]
        /\ sampling' = IF DOMAIN creation' = DOMAIN names THEN "comparing" ELSE "opening"
  BY <1>0
<1>3. /\ DOMAIN creation' = DOMAIN creation \cup {pid} /\ creation'[pid] = met
      /\ \A p \in DOMAIN creation : creation'[p] = creation[p]
      /\ pid \in Pids
  BY <1>2 DEF MonitorInv, Monitor!TypeOK
<1>4. met \in Monitor!Processes \cup {Monitor!Nobody}
      /\ (met # Monitor!Nobody => Has(met, pid) /\ met = running[pid])
  BY <1>2, <1>3 DEF MonitorInv, Monitor!TypeOK
<1>5. Monitor!TypeOK'
  <2>1. creation' \in [DOMAIN creation' -> Monitor!Processes \cup {Monitor!Nobody}]
    BY <1>2, <1>3, <1>4 DEF MonitorInv, Monitor!TypeOK
  <2> QED BY <1>1, <1>2, <1>3, <2>1 DEF MonitorInv, Monitor!TypeOK
<1>6. \A p \in Monitor!Processes : Has(p, pid) /\ met # Monitor!Nobody /\ p # met => Gone(p)
  BY <1>3, <1>4 DEF Has, Gone
<1>7. SampleOK(names, creation)'
  <2>1. Has(names[pid], pid) /\ names[pid] \in Monitor!Processes
    BY <1>2 DEF MonitorInv, SampleOK, Monitor!TypeOK
  <2>2. met # Monitor!Nobody => Has(met, pid) /\ (met = names[pid] \/ Gone(names[pid]))
    BY <1>4, <1>6, <2>1
  <2>3. SampleOK(names, creation')
    BY <1>3, <2>2 DEF MonitorInv, SampleOK
  <2> QED BY <1>1, <2>3 DEF SampleOK, Has, Gone
<1>8. SampleOK(previous.names, previous.creation)' /\ \A p \in exits : Gone(p)'
  BY <1>1 DEF MonitorInv, SampleOK, Has, Gone
<1>9. DifferencesOK'
  <2>1. ASSUME pid \in DOMAIN previous.names, met # Monitor!Nobody,
               previous.creation[pid] # Monitor!Nobody, met # previous.creation[pid]
        PROVE  Gone(previous.creation[pid])
    <3>1. Has(previous.creation[pid], pid) /\ previous.creation[pid] \in Monitor!Processes
      BY <2>1 DEF MonitorInv, SampleOK, Monitor!TypeOK
    <3> QED BY <1>6, <2>1, <3>1
  <2> QED BY <1>1, <1>3, <2>1 DEF MonitorInv, DifferencesOK, Gone
<1> QED BY <1>1, <1>2, <1>5, <1>7, <1>8, <1>9 DEF MonitorInv, Has, Gone

LEMMA ReportKeeps ==
  ASSUME MonitorInv, Monitor!Report
  PROVE  MonitorInv'
<1>1. /\ sampling = "comparing" /\ sampling' = "idle"
      /\ previous' = [names |-> names, creation |-> creation]
      /\ names' = [p \in {} |-> Monitor!Nobody] /\ creation' = [p \in {} |-> Monitor!Nobody]
      /\ UNCHANGED <<running, born>>
  BY DEF Monitor!Report, Monitor!Forget, Monitor!NoneListed
<1>2. /\ previous'.names = names /\ previous'.creation = creation
      /\ DOMAIN names' = {} /\ DOMAIN creation' = {} /\ DOMAIN creation = DOMAIN names
  BY <1>1 DEF MonitorInv
<1>3. /\ DOMAIN view' = DOMAIN names
      /\ view' \in [DOMAIN view' -> Monitor!Processes]
  <2>1. CASE DOMAIN previous.names = {}
    BY <2>1 DEF Monitor!Report, MonitorInv, Monitor!TypeOK
  <2>2. CASE DOMAIN previous.names # {}
    <3>1. view' = [pid \in (DOMAIN view \ Monitor!Exited) \cup Monitor!Added |->
                     IF pid \in Monitor!Added THEN names[pid] ELSE view[pid]]
      BY <2>2 DEF Monitor!Report
    <3>2. (DOMAIN view \ Monitor!Exited) \cup Monitor!Added = DOMAIN names
      BY DEF MonitorInv, Monitor!Exited, Monitor!Added, Monitor!Replaced
    <3>3. DOMAIN view' = DOMAIN names
      BY <3>1, <3>2
    <3>4. \A pid \in DOMAIN names : view'[pid] \in Monitor!Processes
      BY <3>1, <3>2 DEF MonitorInv, Monitor!TypeOK
    <3> QED BY <3>1, <3>2, <3>3, <3>4
  <2> QED BY <2>1, <2>2
<1>4. \A p \in exits' : Gone(p) /\ p \in Monitor!Processes
  <2>1. ASSUME NEW pid \in Monitor!Exited PROVE Gone(previous.names[pid])
    <3>1. pid \in DOMAIN previous.names
      BY DEF Monitor!Exited, Monitor!Replaced
    <3>2. CASE pid \notin DOMAIN names
      BY <1>1, <3>1, <3>2 DEF MonitorInv, DifferencesOK
    <3>3. CASE pid \in DOMAIN names
      <4>1. ~Monitor!SameProcess(pid)
        BY <3>3 DEF Monitor!Exited, Monitor!Replaced
      <4>2. /\ creation[pid] # Monitor!Nobody /\ previous.creation[pid] # Monitor!Nobody
            /\ creation[pid] # previous.creation[pid]
        BY <4>1 DEF Monitor!SameProcess
      <4>3. Gone(previous.creation[pid])
        BY <1>1, <1>2, <3>1, <3>3, <4>2 DEF MonitorInv, DifferencesOK
      <4>4. pid \in DOMAIN previous.creation
        BY <3>1 DEF MonitorInv, Monitor!TypeOK
      <4> QED BY <4>2, <4>3, <4>4 DEF MonitorInv, SampleOK
    <3> QED BY <3>2, <3>3
  <2>2. exits' \subseteq exits \cup {previous.names[pid] : pid \in Monitor!Exited}
    BY DEF Monitor!Report
  <2>3. Monitor!Exited \subseteq DOMAIN previous.names
    BY DEF Monitor!Exited, Monitor!Replaced
  <2> QED BY <2>1, <2>2, <2>3 DEF MonitorInv, Monitor!TypeOK
<1>5. Monitor!TypeOK'
  <2>1. names' \in [{} -> Monitor!Processes]
        /\ creation' \in [{} -> Monitor!Processes \cup {Monitor!Nobody}]
    BY <1>1
  <2>2. exits' \subseteq Monitor!Processes
    BY <1>4
  <2> QED BY <1>1, <1>2, <1>3, <2>1, <2>2 DEF MonitorInv, Monitor!TypeOK
<1>6. SampleOK(names, creation)'
  BY <1>2 DEF SampleOK
<1>7. SampleOK(previous.names, previous.creation)'
  BY <1>1, <1>2 DEF MonitorInv, SampleOK, Has, Gone
<1>8. DifferencesOK'
  BY <1>1 DEF DifferencesOK
<1>9. \A p \in exits' : Gone(p)'
  BY <1>1, <1>4 DEF Gone
<1> QED BY <1>1, <1>2, <1>3, <1>5, <1>6, <1>7, <1>8, <1>9 DEF MonitorInv, Has

LEMMA FailedKeeps ==
  ASSUME MonitorInv, Monitor!Fail
  PROVE  MonitorInv'
<1>1. /\ sampling' = "idle" /\ UNCHANGED <<running, born, previous, view, exits>>
      /\ names' = [p \in {} |-> Monitor!Nobody] /\ creation' = [p \in {} |-> Monitor!Nobody]
  BY DEF Monitor!Fail, Monitor!Forget, Monitor!NoneListed
<1>2. DOMAIN names' = {} /\ DOMAIN creation' = {}
  BY <1>1
<1>3. Monitor!TypeOK'
  <2>1. names' \in [{} -> Monitor!Processes]
        /\ creation' \in [{} -> Monitor!Processes \cup {Monitor!Nobody}]
    BY <1>1
  <2> QED BY <1>1, <1>2, <2>1 DEF MonitorInv, Monitor!TypeOK
<1>4. SampleOK(names, creation)'
  BY <1>2 DEF SampleOK
<1>5. SampleOK(previous.names, previous.creation)' /\ \A p \in exits : Gone(p)'
  BY <1>1 DEF MonitorInv, SampleOK, Has, Gone
<1> QED BY <1>1, <1>3, <1>4, <1>5 DEF MonitorInv, DifferencesOK, Has, Gone

LEMMA MonitorNext == MonitorInv /\ [Monitor!Next]_sampleVars => MonitorInv'
<1> SUFFICES ASSUME MonitorInv, [Monitor!Next]_sampleVars PROVE MonitorInv'
  OBVIOUS
<1>1. CASE UNCHANGED sampleVars
  BY <1>1 DEF sampleVars, MonitorInv, Monitor!TypeOK, SampleOK, DifferencesOK, Has, Gone
<1> QED BY <1>1, WorldStepKeeps, ListKeeps, OpenPidKeeps, ReportKeeps, FailedKeeps
        DEF Monitor!Next

-----------------------------------------------------------------------------
(* Both, of which a behaviour has one. *)

DesktopInv == program \in {"preview", "monitor"} /\ FeedInv /\ MonitorInv

LEMMA DesktopNext ==
  DesktopInv /\ [PreviewRuns \/ MonitorRuns]_desktopVars => DesktopInv'
<1> SUFFICES ASSUME DesktopInv, [PreviewRuns \/ MonitorRuns]_desktopVars PROVE DesktopInv'
  OBVIOUS
<1>1. [Next]_feedVars /\ [Monitor!Next]_sampleVars /\ UNCHANGED program
  BY DEF PreviewRuns, MonitorRuns, desktopVars
<1> QED BY <1>1, FeedNext, MonitorNext DEF DesktopInv

THEOREM DesktopInvHolds == DesktopSpec => []DesktopInv
<1>1. DesktopInit => DesktopInv
  BY FeedInit, MonitorInit DEF DesktopInit, DesktopInv
<1> QED BY <1>1, DesktopNext, PTL DEF DesktopSpec

(* Preview and monitor keep their types: what the UI thread shows and       *)
(* clicks are handles, whichever events it has received.                    *)
THEOREM TypesHold == DesktopSpec => []DesktopTypeOK
<1>1. DesktopInv => DesktopTypeOK
  BY DEF DesktopInv, DesktopTypeOK, FeedInv, MonitorInv
<1> QED BY <1>1, DesktopInvHolds, PTL

(* What enumerate_windows has collected is of one enumeration, however      *)
(* windows open, close and pass their handles on while it runs.             *)
THEOREM ListsAreOfOneEnumeration == DesktopSpec => []ListIsOfOneEnumeration
<1>1. DesktopInv => ListIsOfOneEnumeration
  BY DEF DesktopInv, FeedInv, EnumerationOK, Met, ListIsOfOneEnumeration, Collected, Working
<1> QED BY <1>1, DesktopInvHolds, PTL

(* Neither the texts the feed asks for nor a click reach a window of the    *)
(* preview, unless its handle changed hands after the look at it.           *)
THEOREM OwnWindowsStayAlone == DesktopSpec => []OwnWindowsAreLeftAlone
<1>1. DesktopInv => OwnWindowsAreLeftAlone
  BY DEF DesktopInv, FeedInv, EnumerationOK, ActivationOK, OwnWindowsAreLeftAlone, Working
<1> QED BY <1>1, DesktopInvHolds, PTL

(* The changes MonitorSampler reports lead from one good sample to the next,*)
(* and whoever it reports as exited has, although PIDs are reused between   *)
(* the listing, the opening and the next sample.                            *)
THEOREM ChangesAlwaysAddUp == DesktopSpec => []ChangesAddUp
<1>1. DesktopInv => ChangesAddUp
  <2> SUFFICES ASSUME DesktopInv PROVE ChangesAddUp
    OBVIOUS
  <2>1. DOMAIN running = Pids /\ \A p \in exits : Gone(p)
    BY DEF DesktopInv, MonitorInv, Monitor!TypeOK
  <2>2. exits \cap Monitor!Range(running) = {}
    BY <2>1 DEF Monitor!Range, Gone
  <2> QED BY <2>2 DEF ChangesAddUp, Monitor!ChangesAddUp, DesktopInv, MonitorInv
<1> QED BY <1>1, DesktopInvHolds, PTL
=============================================================================
