----------------------------- MODULE GuiRunProofs -----------------------------
(***************************************************************************)
(* The startup transaction of the GUI in the runs it is part of, for every *)
(* number of runs, every capacity of the log and every order of deaths and *)
(* errors: mutual exclusion, the bounded log, what is known about every    *)
(* session, what a window that opens can rely on, and the settings.        *)
(***************************************************************************)
EXTENDS GuiRun, SequenceTheorems, TLAPS

-----------------------------------------------------------------------------
(* What makes it inductive.  A run that has read the log, or has found the  *)
(* session to be its own, or not to be in its way, still finds it so when   *)
(* it acts on it, because the mutex is its own all the while.               *)

BufferIsLog ==
  \A r \in Runs :
    buffer[r] # Nothing =>
      pc[r] \in DOMAIN EventOf /\ buffer[r] = log /\ log # Damaged

OwnStages == {"logStarted", "logSaved", "logUnavailable", "writeUnavailable",
              "writeRunning", "logCompleted", "writeCompleted", "remove"}

OwnersOwn == \A r \in Runs : pc[r] \in OwnStages => HasSession(r)

FoundIsThere ==
  \A r \in Runs :
    pc[r] = "logRecovery" => session \in Sessions /\ previous[r] = session.owner

Accounted(r) == LogHas("completed", r) \/ LogHas("recovery_required", r)

(* A start may put its own session in the place of this one.                *)
MayGo == session.state = "completed" \/ LogHas("recovery_required", session.owner)

ReplacedIsAccountedFor ==
  \A r \in Runs :
    pc[r] = "writeStarting" =>
      session # Damaged /\ (session \in Sessions => MayGo)

CompletedIsLogged ==
  /\ \A r \in Runs : pc[r] \in {"writeCompleted", "remove"} => LogHas("completed", r)
  /\ session \in Sessions /\ session.state = "completed"
       => LogHas("completed", session.owner)

(* The stages after which the run is in the log.                            *)
Snapshotted == {"marking", "ownMark", "writeRunning", "window", "closing", "ownExit",
                "logCompleted", "writeCompleted", "remove"}

Begun == {"collect", "saved", "ownSaved", "logSaved", "unavailable",
          "ownUnavailable", "logUnavailable", "writeUnavailable"} \cup Snapshotted

Opened == {"window", "closing", "ownExit", "logCompleted", "writeCompleted"}

StartIsLogged == \A r \in Runs : pc[r] \in Begun => LogHas("started", r)

PreviousIsLogged ==
  \A r \in Runs :
    pc[r] \in {"writeStarting", "logStarted"} \cup Begun /\ previous[r] # Nothing
      => LogHas("recovery_required", previous[r])

SnapshotIsLogged ==
  \A r \in Runs :
    HasSession(r) =>
      /\ pc[r] = "writeUnavailable" => LogHas("snapshot_unavailable", r)
      /\ pc[r] \in Snapshotted
           => LogHas("snapshot_saved", r) \/ LogHas("snapshot_unavailable", r)
      /\ pc[r] \in Opened => session.state = "running"

Stages == /\ OwnersOwn
          /\ FoundIsThere
          /\ ReplacedIsAccountedFor
          /\ CompletedIsLogged
          /\ StartIsLogged
          /\ PreviousIsLogged
          /\ SnapshotIsLogged

IInv == /\ TypeOK
        /\ BufferIsLog
        /\ LogIsNewestHistory
        /\ NoSessionForgotten
        /\ Stages

-----------------------------------------------------------------------------
(* The log and its history. *)

LEMMA LogHasMore ==
  ASSUME history \in Seq(Events), NEW e \in Events, history' = Append(history, e)
  PROVE  /\ \A kind, about : LogHas(kind, about) => LogHas(kind, about)'
         /\ LogHas(e.kind, e.about)'
<1>1. /\ Len(history) \in Nat
      /\ Len(history') = Len(history) + 1
      /\ \A i \in 1..Len(history) : history'[i] = history[i]
      /\ history'[Len(history) + 1] = e
      /\ history' \in Seq(Events)
  BY AppendProperties, LenProperties
<1>2. /\ DOMAIN history = 1..Len(history)
      /\ DOMAIN history' = 1..(Len(history) + 1)
  BY <1>1, LenProperties
<1>3. ASSUME NEW kind, NEW about, LogHas(kind, about) PROVE LogHas(kind, about)'
  <2>1. PICK i \in 1..Len(history) :
          history[i].kind = kind /\ history[i].about = about
    BY <1>2, <1>3 DEF LogHas
  <2>2. i \in DOMAIN history' /\ history'[i] = history[i]
    BY <1>1, <1>2
  <2> QED BY <2>1, <2>2 DEF LogHas
<1>4. LogHas(e.kind, e.about)'
  <2>1. Len(history) + 1 \in DOMAIN history'
    BY <1>1, <1>2
  <2> QED BY <1>1, <2>1 DEF LogHas
<1> QED BY <1>3, <1>4

LEMMA LogHasSame ==
  ASSUME UNCHANGED history
  PROVE  \A kind, about : LogHas(kind, about) <=> LogHas(kind, about)'
BY DEF LogHas

(* The newest events of h after its first n, as many as there is room for. *)
IsNewestOf(l, h, n) ==
  /\ Len(l) = IF Len(h) - n < LogCapacity THEN Len(h) - n ELSE LogCapacity
  /\ \A i \in 1..Len(l) : l[i] = h[Len(h) - Len(l) + i]

LEMMA NewestOfAppend ==
  ASSUME NEW S, NEW l \in Seq(S), NEW h \in Seq(S), NEW e \in S,
         NEW n \in 0..Len(h), IsNewestOf(l, h, n)
  PROVE  /\ Newest(Append(l, e)) \in Seq(S)
         /\ IsNewestOf(Newest(Append(l, e)), Append(h, e), n)
<1> DEFINE le == Append(l, e)
           he == Append(h, e)
           new == Newest(le)
<1>0. LogCapacity \in Nat \ {0} /\ Len(l) \in Nat /\ Len(h) \in Nat /\ n \in Nat
  BY ShellRecoveryAssumption, LenProperties
<1>1. /\ le \in Seq(S) /\ Len(le) = Len(l) + 1
      /\ \A i \in 1..Len(l) : le[i] = l[i]
      /\ le[Len(l) + 1] = e
  BY AppendProperties
<1>2. /\ he \in Seq(S) /\ Len(he) = Len(h) + 1
      /\ \A i \in 1..Len(h) : he[i] = h[i]
      /\ he[Len(h) + 1] = e
  BY AppendProperties
<1>6. new = IF Len(le) - LogCapacity > 0
            THEN SubSeq(le, Len(le) - LogCapacity + 1, Len(le)) ELSE le
  BY DEF Newest
<1>7. /\ Len(l) = IF Len(h) - n < LogCapacity THEN Len(h) - n ELSE LogCapacity
      /\ \A i \in 1..Len(l) : l[i] = h[Len(h) - Len(l) + i]
  BY DEF IsNewestOf
<1> HIDE DEF le, he, new
<1>3. \A i \in 1..Len(le) : le[i] = he[Len(he) - Len(le) + i]
  <2> SUFFICES ASSUME NEW i \in 1..Len(le) PROVE le[i] = he[Len(he) - Len(le) + i]
    OBVIOUS
  <2>1. CASE i = Len(l) + 1
    <3>1. Len(he) - Len(le) + i = Len(h) + 1
      BY <2>1, <1>0, <1>1, <1>2
    <3> QED BY <2>1, <3>1, <1>1, <1>2
  <2>2. CASE i # Len(l) + 1
    <3>1. i \in 1..Len(l)
      BY <2>2, <1>0, <1>1
    <3>2. /\ Len(he) - Len(le) + i = Len(h) - Len(l) + i
          /\ Len(h) - Len(l) + i \in 1..Len(h)
      BY <3>1, <1>0, <1>1, <1>2, <1>7
    <3> QED BY <3>1, <3>2, <1>1, <1>2, <1>7
  <2> QED BY <2>1, <2>2
<1>4. CASE Len(le) <= LogCapacity
  <2>1. new = le
    BY <1>4, <1>0, <1>1, <1>6
  <2>2. Len(le) = Len(he) - n
    BY <1>4, <1>0, <1>1, <1>2, <1>7
  <2>3. Len(new) = IF Len(he) - n < LogCapacity THEN Len(he) - n ELSE LogCapacity
    <3>1. Len(new) = Len(he) - n
      BY <2>1, <2>2
    <3>2. Len(he) - n \in Int /\ Len(he) - n <= LogCapacity
      BY <1>4, <2>2, <1>0, <1>2
    <3> QED BY <3>1, <3>2, <1>0
  <2> QED BY <1>1, <1>3, <2>1, <2>3 DEF IsNewestOf, new, le, he
<1>5. CASE Len(le) > LogCapacity
  <2>1. Len(le) = LogCapacity + 1 /\ Len(l) = LogCapacity /\ Len(h) - n >= LogCapacity
    BY <1>5, <1>0, <1>1, <1>7
  <2>2. new = SubSeq(le, 2, Len(le))
    <3>1. Len(le) - LogCapacity > 0 /\ Len(le) - LogCapacity + 1 = 2
      BY <2>1, <1>0
    <3> QED BY <3>1, <1>6
  <2>3. le # <<>> /\ new = Tail(le)
    <3>1. le # <<>>
      BY <2>1, <1>0, EmptySeq
    <3> QED BY <2>2, <3>1, <1>1, TailIsSubSeq
  <2>4. /\ new \in Seq(S)
        /\ Len(new) = LogCapacity
        /\ \A i \in 1..LogCapacity : new[i] = le[i + 1]
    <3>1. /\ Tail(le) \in Seq(S)
          /\ Len(Tail(le)) = Len(le) - 1
          /\ \A i \in 1..Len(Tail(le)) : Tail(le)[i] = le[i + 1]
      BY <2>3, <1>1, HeadTailProperties
    <3>2. Len(le) - 1 = LogCapacity
      BY <2>1, <1>0
    <3> QED BY <2>3, <3>1, <3>2
  <2>5. \A i \in 1..Len(new) : new[i] = he[Len(he) - Len(new) + i]
    <3> SUFFICES ASSUME NEW i \in 1..LogCapacity
                 PROVE  new[i] = he[Len(he) - LogCapacity + i]
      BY <2>4
    <3>1. i + 1 \in 1..Len(le) /\ Len(he) - Len(le) + (i + 1) = Len(he) - LogCapacity + i
      BY <2>1, <1>0, <1>2
    <3> QED BY <3>1, <2>4, <1>3
  <2>6. Len(new) = IF Len(he) - n < LogCapacity THEN Len(he) - n ELSE LogCapacity
    BY <2>1, <2>4, <1>0, <1>2
  <2> QED BY <2>4, <2>5, <2>6 DEF IsNewestOf, new, le, he
<1> QED BY <1>4, <1>5, <1>0, <1>1 DEF new, le, he
-----------------------------------------------------------------------------
(* The mutex. *)

PlacesOK ==
  /\ pc \in [Runs -> Outside \cup Inside]
  /\ lock \in Runs \cup {Free}
  /\ \A r \in Runs : lock = r <=> pc[r] \notin Outside

LEMMA Constants ==
  /\ Free \notin Runs /\ Nothing \notin Runs
  /\ Absent \notin Sessions /\ Damaged \notin Sessions
BY ShellRecoveryAssumption

(* What follows for the moves of a run, and for its end. *)
LEMMA MoveTyped ==
  ASSUME PlacesOK, NEW r \in Runs, NEW next \in Outside \cup Inside, Move(r, next),
         next \in Outside \/ pc[r] \notin Outside
  PROVE  PlacesOK' /\ pc' = [pc EXCEPT ![r] = next]
<1>1. /\ pc' \in [Runs -> Outside \cup Inside]
      /\ pc' = [pc EXCEPT ![r] = next]
      /\ pc'[r] = next
      /\ \A q \in Runs : q # r => pc'[q] = pc[q]
  BY DEF Move, PlacesOK
<1>2. CASE next \in Outside
  <2>1. lock' = IF lock = r THEN Free ELSE lock
    BY <1>2 DEF Move
  <2> QED BY <1>1, <1>2, <2>1, Constants DEF PlacesOK
<1>3. CASE next \notin Outside
  <2>1. lock' = lock
    BY <1>3 DEF Move
  <2> QED BY <1>1, <1>3, <2>1 DEF PlacesOK
<1> QED BY <1>2, <1>3

(* Only one run at a time is inside. *)
LEMMA OneInside ==
  ASSUME PlacesOK, NEW r \in Runs, pc[r] \notin Outside
  PROVE  lock = r /\ \A q \in Runs : q # r => pc[q] \in Outside
BY DEF PlacesOK

(* Where the stages of the transaction are. *)
LEMMA StagesAreInside ==
  /\ OwnStages \cap Outside = {} /\ DOMAIN EventOf \cap Outside = {}
  /\ DOMAIN OwnedNext \cap Outside = {} /\ DOMAIN StateOf \cap Outside = {}
  /\ {"begin", "logRecovery", "writeStarting", "remove"} \cap Outside = {}
BY DEF OwnStages, Outside, EventOf, OwnedNext, StateOf

LEMMA TypesOf ==
  ASSUME IInv
  PROVE  /\ PlacesOK
         /\ session \in Sessions \cup {Absent, Damaged}
         /\ log = Damaged \/ (log \in Seq(Events) /\ Len(log) <= LogCapacity)
         /\ buffer \in [Runs -> Seq(Events) \cup {Nothing}]
         /\ previous \in [Runs -> Runs \cup {Nothing}]
         /\ history \in Seq(Events)
         /\ lost \in [runs : SUBSET Runs, events : 0..Len(history)]
BY DEF IInv, TypeOK, PlacesOK

LEMMA HasSessionIs ==
  ASSUME IInv, NEW r \in Runs
  PROVE  HasSession(r) <=> session \in Sessions /\ session.owner = r
BY Constants DEF HasSession, IInv, TypeOK

-----------------------------------------------------------------------------
(* A move that leaves the session alone, and what is known about it.        *)
LEMMA MoveKeepsStages ==
  ASSUME IInv, NEW r \in Runs, NEW next,
         pc' = [pc EXCEPT ![r] = next],
         UNCHANGED <<session, history, previous>>, lost.runs \subseteq lost'.runs,
         next \notin {"logRecovery", "writeStarting", "logStarted", "writeUnavailable",
                      "writeCompleted", "remove"},
         next \in OwnStages => HasSession(r),
         next \in Begun => pc[r] \in Begun,
         HasSession(r) /\ next \in Snapshotted => pc[r] \in Snapshotted,
         HasSession(r) /\ next \in Opened => pc[r] \in Opened
  PROVE  NoSessionForgotten' /\ Stages'
<1>1. pc'[r] = next /\ \A q \in Runs : q # r => pc'[q] = pc[q]
  BY TypesOf DEF PlacesOK
<1>2. /\ \A kind, about : LogHas(kind, about) <=> LogHas(kind, about)'
      /\ \A q \in Runs : HasSession(q) <=> HasSession(q)'
      /\ \A q \in Runs : Began(q) <=> Began(q)'
      /\ MayGo <=> MayGo'
  BY DEF LogHas, HasSession, Began, MayGo
<1>3. NoSessionForgotten'
  BY <1>2 DEF IInv, NoSessionForgotten
<1>4. OwnersOwn' /\ FoundIsThere'
  BY <1>1, <1>2 DEF IInv, Stages, OwnersOwn, FoundIsThere
<1>5. ReplacedIsAccountedFor'
  BY <1>1, <1>2 DEF IInv, Stages, ReplacedIsAccountedFor
<1>6. CompletedIsLogged'
  BY <1>1, <1>2 DEF IInv, Stages, CompletedIsLogged
<1>7. StartIsLogged' /\ PreviousIsLogged'
  BY <1>1, <1>2 DEF IInv, Stages, StartIsLogged, PreviousIsLogged
<1>8. SnapshotIsLogged'
  BY <1>1, <1>2 DEF IInv, Stages, SnapshotIsLogged
<1> QED BY <1>3, <1>4, <1>5, <1>6, <1>7, <1>8 DEF Stages

(* A move that leaves the files and what is known about them alone. *)
LEMMA QuietMoveKeeps ==
  ASSUME IInv, NEW r \in Runs, NEW next \in Outside \cup Inside,
         PlacesOK', pc' = [pc EXCEPT ![r] = next],
         UNCHANGED <<session, log, lost, history, previous>>,
         buffer' \in [Runs -> Seq(Events) \cup {Nothing}],
         buffer'[r] = Nothing, \A q \in Runs : q # r => buffer'[q] = buffer[q],
         next \notin {"logRecovery", "writeStarting", "logStarted", "writeUnavailable",
                      "writeCompleted", "remove"},
         next \in OwnStages => HasSession(r),
         next \in Begun => pc[r] \in Begun,
         HasSession(r) /\ next \in Snapshotted => pc[r] \in Snapshotted,
         HasSession(r) /\ next \in Opened => pc[r] \in Opened
  PROVE  IInv'
<1>1. \A q \in Runs : q # r => pc'[q] = pc[q]
  BY TypesOf DEF PlacesOK
<1>2. TypeOK'
  BY DEF IInv, TypeOK, PlacesOK
<1>3. BufferIsLog'
  BY <1>1 DEF IInv, BufferIsLog
<1>4. LogIsNewestHistory'
  BY DEF IInv, LogIsNewestHistory
<1>5. NoSessionForgotten' /\ Stages'
  BY MoveKeepsStages
<1> QED BY <1>2, <1>3, <1>4, <1>5 DEF IInv

(* Outside, and before the log is read, a run has no copy of it.            *)
LEMMA NoCopy ==
  ASSUME IInv, NEW r \in Runs, pc[r] \notin DOMAIN EventOf
  PROVE  buffer[r] = Nothing
BY DEF IInv, BufferIsLog

(* An error or a death; no stage of the transaction is left.                *)
LEMMA EndsAre ==
  ASSUME NEW end \in {"failed", "dead"}
  PROVE  /\ end \in Outside
         /\ end \notin {"logRecovery", "writeStarting", "logStarted", "writeUnavailable",
                        "writeCompleted", "remove"} \cup OwnStages \cup Begun
                       \cup Snapshotted \cup Opened
BY DEF Outside, OwnStages, Begun, Snapshotted, Opened

LEMMA EndTyped ==
  ASSUME IInv, NEW r \in Runs, NEW end \in {"failed", "dead"}, End(r, end)
  PROVE  /\ PlacesOK' /\ pc' = [pc EXCEPT ![r] = end]
         /\ buffer' \in [Runs -> Seq(Events) \cup {Nothing}]
         /\ buffer'[r] = Nothing /\ \A q \in Runs : q # r => buffer'[q] = buffer[q]
         /\ UNCHANGED <<previous, history>>
<1>1. Move(r, end) /\ buffer' = [buffer EXCEPT ![r] = Nothing]
      /\ UNCHANGED <<previous, history>>
  BY DEF End
<1>2. PlacesOK' /\ pc' = [pc EXCEPT ![r] = end]
  BY <1>1, EndsAre, TypesOf, MoveTyped
<1> QED BY <1>1, <1>2, TypesOf

LEMMA EndKeeps ==
  ASSUME IInv, NEW r \in Runs, NEW end \in {"failed", "dead"}, End(r, end), UNCHANGED files
  PROVE  IInv'
BY EndsAre, EndTyped, QuietMoveKeeps DEF files

(* Where one run is inside, no other has a copy of the log. *)
LEMMA OthersHaveNoCopy ==
  ASSUME IInv, NEW r \in Runs, pc[r] \notin Outside
  PROVE  \A q \in Runs : q # r => pc[q] \in Outside /\ buffer[q] = Nothing
BY TypesOf, OneInside, NoCopy, StagesAreInside

LEMMA LogLostKeeps ==
  ASSUME IInv, NEW r \in Runs, NEW end \in {"failed", "dead"}, End(r, end), LogLost(r)
  PROVE  IInv'
<1>1. /\ log' = <<>> /\ lost' = [lost EXCEPT !.events = Len(history)]
      /\ UNCHANGED session
      /\ pc[r] \notin Outside
  BY StagesAreInside DEF LogLost
<1>2. /\ history \in Seq(Events) /\ Len(history) \in Nat
      /\ log' \in Seq(Events) /\ Len(log') = 0 /\ DOMAIN log' = {}
      /\ LogCapacity \in Nat \ {0}
  BY <1>1, TypesOf, EmptySeq, LenProperties, ShellRecoveryAssumption
<1>3. /\ lost' \in [runs : SUBSET Runs, events : 0..Len(history)]
      /\ lost'.events = Len(history) /\ lost'.runs = lost.runs
  BY <1>1, <1>2, TypesOf
<1>4. LogIsNewestHistory'
  BY <1>2, <1>3, EndTyped DEF LogIsNewestHistory
<1>5. TypeOK'
  BY <1>1, <1>2, <1>3, EndTyped DEF IInv, TypeOK, PlacesOK
<1>6. BufferIsLog'
  BY <1>1, EndTyped, OthersHaveNoCopy DEF BufferIsLog
<1>7. NoSessionForgotten' /\ Stages'
  BY <1>1, <1>3, EndsAre, EndTyped, MoveKeepsStages
<1> QED BY <1>4, <1>5, <1>6, <1>7 DEF IInv

(* A run that leaves the transaction with no session in place. *)
LEMMA AbsentKeeps ==
  ASSUME IInv, NEW r \in Runs, NEW end \in {"done", "failed", "dead"},
         PlacesOK', pc' = [pc EXCEPT ![r] = end], pc[r] \notin Outside,
         session' = Absent, UNCHANGED <<log, previous, history>>,
         buffer' \in [Runs -> Seq(Events) \cup {Nothing}],
         buffer'[r] = Nothing,
         \A q \in Runs : q # r => buffer'[q] = buffer[q],
         lost' \in [runs : SUBSET Runs, events : {lost.events}],
         NoSessionForgotten'
  PROVE  IInv'
<1>1. /\ end \in Outside /\ end \notin Begun
      /\ pc'[r] = end /\ \A q \in Runs : q # r => pc'[q] = pc[q] /\ pc[q] \in Outside
  BY TypesOf, OthersHaveNoCopy DEF PlacesOK, Outside, Begun, Snapshotted
<1>2. \A q \in Runs : pc'[q] \in Outside
  BY <1>1
<1>3. lost'.events = lost.events /\ lost' \in [runs : SUBSET Runs, events : 0..Len(history)]
  BY TypesOf
<1>4. TypeOK'
  BY <1>3, TypesOf DEF IInv, TypeOK, PlacesOK
<1>5. LogIsNewestHistory'
  BY <1>3 DEF IInv, LogIsNewestHistory
<1>6. BufferIsLog'
  BY <1>1, OthersHaveNoCopy DEF BufferIsLog
<1>7. \A kind, about : LogHas(kind, about) <=> LogHas(kind, about)'
  BY LogHasSame
<1>8. \A q \in Runs : ~HasSession(q)'
  BY DEF HasSession
<1>9. OwnersOwn' /\ FoundIsThere' /\ ReplacedIsAccountedFor' /\ SnapshotIsLogged'
  BY <1>2, <1>8, StagesAreInside
     DEF OwnersOwn, FoundIsThere, ReplacedIsAccountedFor, SnapshotIsLogged
<1>10. CompletedIsLogged'
  <2>1. \A q \in Runs : pc'[q] \notin {"writeCompleted", "remove"}
    BY <1>2 DEF Outside
  <2> QED BY <2>1, Constants DEF CompletedIsLogged
<1>11. StartIsLogged' /\ PreviousIsLogged'
  <2>1. end \notin {"writeStarting", "logStarted"} \cup Begun
    BY <1>1
  <2> QED BY <1>1, <1>7, <2>1 DEF IInv, Stages, StartIsLogged, PreviousIsLogged
<1> QED BY <1>4, <1>5, <1>6, <1>9, <1>10, <1>11 DEF IInv, Stages

(* What a failed replacement of the session loses was the run's own, or had *)
(* been accounted for.                                                      *)
LEMMA SessionLostKeeps ==
  ASSUME IInv, NEW r \in Runs, NEW end \in {"failed", "dead"}, End(r, end), SessionLost(r)
  PROVE  IInv'
<1>1. /\ session' = Absent /\ UNCHANGED log
      /\ lost' = [lost EXCEPT !.runs = IF Owns(r) THEN @ \cup {r} ELSE @]
      /\ pc[r] \notin Outside /\ pc[r] \in DOMAIN StateOf
  BY StagesAreInside DEF SessionLost
<1>2. Owns(r) <=> HasSession(r)
  BY DEF Owns, HasSession
<1>3. /\ lost' \in [runs : SUBSET Runs, events : {lost.events}]
      /\ lost.runs \subseteq lost'.runs
      /\ HasSession(r) => r \in lost'.runs
  BY <1>1, <1>2, TypesOf
<1>4. pc[r] # "writeStarting" => HasSession(r)
  BY <1>1 DEF StateOf, IInv, Stages, OwnersOwn, OwnStages
<1>5. ASSUME NEW q \in Runs, HasSession(q), q # r PROVE Accounted(q)
  <2>1. session \in Sessions /\ session.owner = q /\ ~HasSession(r)
    BY <1>5, HasSessionIs
  <2>2. MayGo
    BY <1>4, <2>1 DEF IInv, Stages, ReplacedIsAccountedFor
  <2> QED BY <2>1, <2>2 DEF MayGo, Accounted, IInv, Stages, CompletedIsLogged
<1>6. \A kind, about : LogHas(kind, about) <=> LogHas(kind, about)'
  BY EndTyped, LogHasSame
<1>7. NoSessionForgotten'
  <2> SUFFICES ASSUME NEW q \in Runs, Began(q)'
               PROVE  \/ LogHas("completed", q)'
                      \/ LogHas("recovery_required", q)'
                      \/ q \in lost'.runs
    BY DEF NoSessionForgotten
  <2>1. Began(q)
    BY <1>1, <1>6 DEF Began, HasSession
  <2>2. CASE HasSession(q)
    BY <2>2, <1>3, <1>5, <1>6 DEF Accounted
  <2>3. CASE ~HasSession(q)
    BY <2>1, <2>3, <1>3, <1>6 DEF IInv, NoSessionForgotten
  <2> QED BY <2>2, <2>3
<1> QED BY <1>1, <1>3, <1>7, EndTyped, AbsentKeeps

LEMMA FailKeeps ==
  ASSUME IInv, NEW r \in Runs, Fail(r)
  PROVE  IInv'
BY EndKeeps DEF Fail

LEMMA CrashKeeps ==
  ASSUME IInv, NEW r \in Runs, Crash(r)
  PROVE  IInv'
BY EndKeeps, LogLostKeeps, SessionLostKeeps DEF Crash

(* The moves of a run between its critical sections, and into one.          *)
LEMMA OutsideKeeps ==
  ASSUME IInv, NEW r \in Runs,
         Launch(r) \/ CollectSnapshot(r) \/ CloseWindow(r) \/ Lock(r)
  PROVE  IInv'
<1>1. PICK next \in Outside \cup Inside :
        /\ pc[r] \in Outside
        /\ pc' = [pc EXCEPT ![r] = next] /\ PlacesOK'
        /\ next \notin {"logRecovery", "writeStarting", "logStarted", "writeUnavailable",
                        "writeCompleted", "remove"} \cup OwnStages
        /\ next \in Begun => pc[r] \in Begun
        /\ next \in Snapshotted => pc[r] \in Snapshotted
        /\ next \in Opened => pc[r] \in Opened
  <2>1. CASE Launch(r)
    <3>1. /\ pc[r] \in Outside /\ Move(r, "start") /\ "start" \in Outside
          /\ "start" \notin {"logRecovery", "writeStarting", "logStarted",
                             "writeUnavailable", "writeCompleted", "remove"}
                            \cup OwnStages \cup Begun \cup Snapshotted \cup Opened
      BY <2>1 DEF Launch, Outside, OwnStages, Begun, Snapshotted, Opened
    <3> QED BY <3>1, TypesOf, MoveTyped
  <2>2. CASE CollectSnapshot(r)
    <3>1. PICK next \in {"saved", "unavailable"} : pc[r] = "collect" /\ Move(r, next)
      BY <2>2 DEF CollectSnapshot
    <3>2. /\ pc[r] \in Outside /\ next \in Outside /\ pc[r] \in Begun
          /\ next \notin {"logRecovery", "writeStarting", "logStarted",
                          "writeUnavailable", "writeCompleted", "remove"}
                         \cup OwnStages \cup Snapshotted \cup Opened
      BY <3>1 DEF Outside, OwnStages, Begun, Snapshotted, Opened
    <3> QED BY <3>1, <3>2, TypesOf, MoveTyped
  <2>3. CASE CloseWindow(r)
    <3>1. /\ pc[r] \in Outside /\ Move(r, "closing") /\ "closing" \in Outside
          /\ pc[r] \in Begun /\ pc[r] \in Snapshotted /\ pc[r] \in Opened
          /\ "closing" \notin {"logRecovery", "writeStarting", "logStarted",
                               "writeUnavailable", "writeCompleted", "remove"}
                              \cup OwnStages
      BY <2>3 DEF CloseWindow, Outside, OwnStages, Begun, Snapshotted, Opened
    <3> QED BY <3>1, TypesOf, MoveTyped
  <2>4. CASE Lock(r)
    <3> DEFINE next == Entered[pc[r]]
    <3>1. /\ pc[r] \in Outside /\ next \in Inside /\ next \notin Outside
          /\ next \notin {"logRecovery", "writeStarting", "logStarted", "writeUnavailable",
                          "writeCompleted", "remove"} \cup OwnStages
          /\ next \in Begun => pc[r] \in Begun
          /\ next \in Snapshotted => pc[r] \in Snapshotted
          /\ next \in Opened => pc[r] \in Opened
      BY <2>4 DEF Lock, Entered, Outside, Inside, OwnStages, Begun, Snapshotted, Opened,
                  OwnedNext, EventOf, StateOf
    <3> HIDE DEF next
    <3>2. pc' = [pc EXCEPT ![r] = next] /\ lock = Free /\ lock' = r
      BY <2>4 DEF Lock, next
    <3>3. PlacesOK'
      BY <3>1, <3>2, TypesOf, Constants DEF PlacesOK
    <3> QED BY <3>1, <3>2, <3>3
  <2> QED BY <2>1, <2>2, <2>3, <2>4
<1>2. UNCHANGED <<session, log, lost, history, previous, buffer>>
  BY DEF Launch, CollectSnapshot, CloseWindow, Lock, files
<1>3. buffer[r] = Nothing
  BY <1>1, NoCopy, StagesAreInside
<1> QED BY <1>1, <1>2, <1>3, TypesOf, QuietMoveKeeps

LEMMA CheckOwnerKeeps ==
  ASSUME IInv, NEW r \in Runs, CheckOwner(r)
  PROVE  IInv'
<1> DEFINE next == IF Owns(r) THEN OwnedNext[pc[r]] ELSE SupersededNext[pc[r]]
<1>1. /\ pc[r] \in DOMAIN OwnedNext /\ pc[r] \notin Outside
      /\ pc[r] \notin DOMAIN EventOf
  BY StagesAreInside DEF CheckOwner, OwnedNext, EventOf
<1>2. /\ next \in Outside \cup Inside
      /\ next \notin {"logRecovery", "writeStarting", "logStarted", "writeUnavailable",
                      "writeCompleted", "remove"}
  BY <1>1 DEF OwnedNext, SupersededNext, Outside, Inside, EventOf, StateOf
<1>3. /\ next \in Begun => pc[r] \in Begun
      /\ next \in OwnStages => Owns(r)
      /\ Owns(r) /\ next \in Snapshotted => pc[r] \in Snapshotted
      /\ Owns(r) /\ next \in Opened => pc[r] \in Opened
  BY <1>1 DEF OwnedNext, SupersededNext, OwnStages, Begun, Snapshotted, Opened
<1>4. Owns(r) <=> HasSession(r)
  BY DEF Owns, HasSession
<1>5. Move(r, next) /\ UNCHANGED <<session, log, lost, history, previous, buffer>>
  BY DEF CheckOwner, files
<1> HIDE DEF next
<1>6. PlacesOK' /\ pc' = [pc EXCEPT ![r] = next]
  BY <1>1, <1>2, <1>3, <1>5, TypesOf, MoveTyped
<1> QED BY <1>1, <1>2, <1>3, <1>4, <1>5, <1>6, NoCopy, TypesOf, QuietMoveKeeps

-----------------------------------------------------------------------------
(* The steps inside. *)

LEMMA ReadSessionKeeps ==
  ASSUME IInv, NEW r \in Runs, ReadSession(r)
  PROVE  IInv'
<1> DEFINE next == IF Unfinished THEN "logRecovery" ELSE "writeStarting"
           found == IF Unfinished THEN session.owner ELSE Nothing
<1>1. /\ pc[r] = "begin" /\ pc[r] \notin Outside /\ pc[r] \notin DOMAIN EventOf
      /\ session \in Sessions \cup {Absent}
  BY TypesOf, StagesAreInside DEF ReadSession, EventOf
<1>2. next \in Inside /\ next \in {"logRecovery", "writeStarting"}
  BY DEF Inside, EventOf, StateOf
<1>3. /\ Move(r, next)
      /\ previous' = [previous EXCEPT ![r] = found]
      /\ UNCHANGED <<session, log, lost, buffer, history>>
  BY DEF ReadSession, files
<1>4. /\ next = "logRecovery" => session \in Sessions /\ found = session.owner
      /\ next = "writeStarting" =>
           /\ found = Nothing
           /\ session \in Sessions => session.state = "completed"
  BY <1>1, Constants DEF Unfinished
<1>5. found \in Runs \cup {Nothing}
  BY <1>1, Constants DEF Unfinished, Sessions
<1> HIDE DEF next, found
<1>6. /\ PlacesOK'
      /\ pc'[r] = next /\ \A q \in Runs : q # r => pc'[q] = pc[q]
  BY <1>1, <1>2, <1>3, TypesOf, MoveTyped DEF PlacesOK
<1>7. /\ previous' \in [Runs -> Runs \cup {Nothing}]
      /\ previous'[r] = found /\ \A q \in Runs : q # r => previous'[q] = previous[q]
  BY <1>3, <1>5, TypesOf
<1>8. TypeOK'
  BY <1>3, <1>6, <1>7 DEF IInv, TypeOK, PlacesOK
<1>9. buffer[r] = Nothing
  BY <1>1, NoCopy
<1>10. BufferIsLog' /\ LogIsNewestHistory'
  BY <1>3, <1>6, <1>9 DEF IInv, BufferIsLog, LogIsNewestHistory
<1>11. /\ \A kind, about : LogHas(kind, about) <=> LogHas(kind, about)'
       /\ \A q \in Runs : HasSession(q) <=> HasSession(q)'
       /\ \A q \in Runs : Began(q) <=> Began(q)'
       /\ MayGo <=> MayGo'
  BY <1>3 DEF LogHas, HasSession, MayGo, Began
<1>12. NoSessionForgotten'
  BY <1>3, <1>11 DEF IInv, NoSessionForgotten
<1>13. next \notin OwnStages \cup Begun \cup Snapshotted \cup Opened
  BY <1>2 DEF OwnStages, Begun, Snapshotted, Opened
<1>14. OwnersOwn' /\ StartIsLogged' /\ SnapshotIsLogged'
  BY <1>2, <1>3, <1>6, <1>11, <1>13
     DEF IInv, Stages, OwnersOwn, StartIsLogged, SnapshotIsLogged
<1>15. FoundIsThere' /\ PreviousIsLogged'
  BY <1>2, <1>3, <1>4, <1>6, <1>7, <1>11, <1>13
     DEF IInv, Stages, FoundIsThere, PreviousIsLogged
<1>16. CompletedIsLogged'
  BY <1>2, <1>3, <1>6, <1>11 DEF IInv, Stages, CompletedIsLogged
<1>17. ReplacedIsAccountedFor'
  <2>1. session # Damaged
    BY <1>1 DEF ReadSession
  <2>2. next = "writeStarting" /\ session \in Sessions => MayGo
    BY <1>4 DEF MayGo
  <2> QED BY <1>3, <1>6, <1>11, <2>1, <2>2 DEF IInv, Stages, ReplacedIsAccountedFor
<1> QED BY <1>8, <1>10, <1>12, <1>14, <1>15, <1>16, <1>17 DEF IInv, Stages

LEMMA ReadLogKeeps ==
  ASSUME IInv, NEW r \in Runs, ReadLog(r)
  PROVE  IInv'
<1>1. /\ pc[r] \in DOMAIN EventOf /\ log # Damaged
      /\ buffer' = [buffer EXCEPT ![r] = log]
      /\ UNCHANGED <<pc, lock, session, log, lost, previous, history>>
  BY DEF ReadLog, files
<1>2. /\ buffer' \in [Runs -> Seq(Events) \cup {Nothing}]
      /\ buffer'[r] = log /\ \A q \in Runs : q # r => buffer'[q] = buffer[q]
  BY <1>1, TypesOf
<1>3. TypeOK'
  BY <1>1, <1>2 DEF IInv, TypeOK
<1>4. BufferIsLog' /\ LogIsNewestHistory'
  BY <1>1, <1>2 DEF IInv, BufferIsLog, LogIsNewestHistory
<1> QED BY <1>1, <1>3, <1>4
        DEF IInv, NoSessionForgotten, Began, LogHas, HasSession, Stages, OwnersOwn,
            FoundIsThere, ReplacedIsAccountedFor, MayGo, CompletedIsLogged,
            StartIsLogged, PreviousIsLogged, SnapshotIsLogged

LEMMA EventTyped ==
  ASSUME IInv, NEW r \in Runs, pc[r] \in DOMAIN EventOf
  PROVE  /\ Event(r) \in Events
         /\ Event(r).kind = EventOf[pc[r]]
         /\ pc[r] = "logRecovery" => session \in Sessions /\ Event(r).about = session.owner
         /\ pc[r] # "logRecovery" => Event(r).about = r
<1>1. pc[r] = "logRecovery" => session \in Sessions /\ previous[r] = session.owner
  BY DEF IInv, Stages, FoundIsThere
<1>2. session \in Sessions => session.owner \in Runs
  BY DEF Sessions
<1>3. EventOf[pc[r]] \in {EventOf[p] : p \in DOMAIN EventOf}
  OBVIOUS
<1> QED BY <1>1, <1>2, <1>3 DEF Event, Events

LEMMA StoreLogKeeps ==
  ASSUME IInv, NEW r \in Runs, StoreLog(r)
  PROVE  IInv'
<1> DEFINE next == AfterEvent[pc[r]]
<1>0. PICK e : e = Event(r)
  OBVIOUS
<1>1. /\ pc[r] \in DOMAIN EventOf /\ pc[r] \notin Outside
      /\ buffer[r] = log /\ log # Damaged /\ log \in Seq(Events)
  BY TypesOf, StagesAreInside DEF StoreLog, IInv, BufferIsLog
<1>2. /\ e \in Events /\ e.kind = EventOf[pc[r]]
      /\ pc[r] = "logRecovery" => session \in Sessions /\ e.about = session.owner
      /\ pc[r] # "logRecovery" => e.about = r
  BY <1>0, <1>1, EventTyped
<1>3. next \in Outside \cup Inside
  BY <1>1 DEF AfterEvent, EventOf, Outside, Inside, StateOf
<1>4. /\ log' = Newest(Append(log, e))
      /\ history' = Append(history, e)
      /\ buffer' = [buffer EXCEPT ![r] = Nothing]
      /\ Move(r, next)
      /\ UNCHANGED <<session, previous, lost>>
  BY <1>0, <1>1 DEF StoreLog
<1>5. /\ pc[r] = "logRecovery" => next = "writeStarting" /\ e.kind = "recovery_required"
      /\ pc[r] = "logStarted" => next = "collect" /\ e.kind = "started"
      /\ pc[r] = "logSaved" => next = "marking" /\ e.kind = "snapshot_saved"
      /\ pc[r] = "logUnavailable" =>
           next = "writeUnavailable" /\ e.kind = "snapshot_unavailable"
      /\ pc[r] = "logCompleted" => next = "writeCompleted" /\ e.kind = "completed"
      /\ pc[r] \in {"logRecovery", "logStarted", "logSaved", "logUnavailable",
                    "logCompleted"}
  BY <1>1, <1>2 DEF AfterEvent, EventOf
<1> HIDE DEF next
<1>6. /\ PlacesOK'
      /\ pc'[r] = next /\ \A q \in Runs : q # r => pc'[q] = pc[q]
  BY <1>1, <1>3, <1>4, TypesOf, MoveTyped DEF PlacesOK
<1>7. \A q \in Runs : q # r => pc[q] \in Outside
  BY <1>1, TypesOf, OneInside
<1>8. \A q \in Runs : buffer'[q] = Nothing
  <2>1. \A q \in Runs : q # r => buffer[q] = Nothing
    BY <1>7, NoCopy, StagesAreInside
  <2> QED BY <1>4, <2>1, TypesOf
<1>9. history' \in Seq(Events) /\ history \in Seq(Events)
  BY <1>2, <1>4, TypesOf, AppendProperties
<1>10. log' \in Seq(Events) /\ IsNewestOf(log', history', lost.events)
  <2>1. IsNewestOf(log, history, lost.events)
    <3>1. DOMAIN log = 1..Len(log)
      BY <1>1, LenProperties
    <3> QED BY <1>1, <3>1 DEF IInv, LogIsNewestHistory, IsNewestOf
  <2>2. lost.events \in 0..Len(history)
    BY TypesOf
  <2> QED BY <1>1, <1>2, <1>4, <1>9, <2>1, <2>2, NewestOfAppend
<1>11. /\ Len(log') <= LogCapacity
       /\ lost' \in [runs : SUBSET Runs, events : 0..Len(history')]
  <2>1. Len(history') = Len(history) + 1 /\ Len(history) \in Nat
    BY <1>2, <1>4, <1>9, AppendProperties, LenProperties
  <2>2. /\ lost.events \in 0..Len(history) /\ LogCapacity \in Nat
        /\ lost \in [runs : SUBSET Runs, events : 0..Len(history)]
    BY TypesOf, ShellRecoveryAssumption
  <2>3. 0..Len(history) \subseteq 0..Len(history')
    BY <2>1
  <2>4. Len(log') <= LogCapacity
    BY <1>10, <2>1, <2>2 DEF IsNewestOf
  <2> QED BY <1>4, <2>2, <2>3, <2>4
<1>12. LogIsNewestHistory'
  <2>1. DOMAIN log' = 1..Len(log')
    BY <1>10, LenProperties
  <2> QED BY <1>4, <1>10, <2>1 DEF LogIsNewestHistory, IsNewestOf
<1>13. TypeOK' /\ BufferIsLog'
  <2>1. buffer' \in [Runs -> Seq(Events) \cup {Nothing}]
    BY <1>4, TypesOf
  <2>2. TypeOK'
    BY <1>4, <1>6, <1>9, <1>10, <1>11, <2>1 DEF IInv, TypeOK, PlacesOK
  <2> QED BY <1>8, <2>2 DEF BufferIsLog
<1>14. /\ \A kind, about : LogHas(kind, about) => LogHas(kind, about)'
       /\ LogHas(e.kind, e.about)'
  BY <1>2, <1>4, <1>9, LogHasMore
<1>15. /\ \A q \in Runs : HasSession(q) <=> HasSession(q)'
       /\ MayGo => MayGo'
  BY <1>4, <1>14 DEF HasSession, MayGo
<1>16. pc[r] # "logRecovery" => HasSession(r)
  BY <1>5 DEF IInv, Stages, OwnersOwn, OwnStages
<1>18. NoSessionForgotten'
  <2> SUFFICES ASSUME NEW q \in Runs, Began(q)'
               PROVE  \/ HasSession(q)'
                      \/ LogHas("completed", q)'
                      \/ LogHas("recovery_required", q)'
                      \/ q \in lost'.runs
    BY DEF NoSessionForgotten
  <2>1. CASE Began(q)
    BY <2>1, <1>4, <1>14, <1>15 DEF IInv, NoSessionForgotten
  <2>2. CASE ~Began(q)
    <3>1. LogHas("started", q)' /\ ~LogHas("started", q)
      BY <2>2, <1>15 DEF Began
    <3>2. e.kind = "started" /\ e.about = q
      <4>1. PICK i \in DOMAIN history' :
              history'[i].kind = "started" /\ history'[i].about = q
        BY <3>1 DEF LogHas
      <4>2. /\ Len(history) \in Nat
            /\ DOMAIN history = 1..Len(history)
            /\ DOMAIN history' = 1..(Len(history) + 1)
            /\ \A k \in 1..Len(history) : history'[k] = history[k]
            /\ history'[Len(history) + 1] = e
        BY <1>2, <1>4, <1>9, AppendProperties, LenProperties
      <4>3. CASE i \in DOMAIN history
        BY <3>1, <4>1, <4>2, <4>3 DEF LogHas
      <4>4. CASE i \notin DOMAIN history
        <5>1. i = Len(history) + 1
          BY <4>2, <4>4
        <5> QED BY <4>1, <4>2, <5>1
      <4> QED BY <4>3, <4>4
    <3>3. pc[r] = "logStarted" /\ q = r
      BY <1>2, <1>5, <3>2
    <3> QED BY <1>15, <1>16, <3>3
  <2> QED BY <2>1, <2>2
<1>19. OwnersOwn' /\ FoundIsThere'
  <2>1. next \in OwnStages => HasSession(r)
    BY <1>5, <1>16 DEF OwnStages
  <2>2. next # "logRecovery"
    BY <1>5
  <2> QED BY <1>4, <1>6, <1>15, <2>1, <2>2 DEF IInv, Stages, OwnersOwn, FoundIsThere
<1>20. ReplacedIsAccountedFor'
  <2>1. next = "writeStarting" =>
          session # Damaged /\ (session \in Sessions => MayGo')
    <3> SUFFICES ASSUME next = "writeStarting"
                 PROVE  session # Damaged /\ MayGo'
      OBVIOUS
    <3>1. pc[r] = "logRecovery" /\ e.kind = "recovery_required"
      BY <1>5
    <3>2. session \in Sessions /\ e.about = session.owner /\ session' = session
      BY <3>1, <1>2, <1>4
    <3>3. LogHas("recovery_required", session.owner)'
      BY <3>1, <3>2, <1>14
    <3> QED BY <3>2, <3>3, Constants DEF MayGo
  <2> QED BY <1>4, <1>6, <1>15, <2>1 DEF IInv, Stages, ReplacedIsAccountedFor
<1>21. CompletedIsLogged'
  <2>1. next \in {"writeCompleted", "remove"} => LogHas("completed", r)'
    BY <1>2, <1>5, <1>14
  <2> QED BY <1>4, <1>6, <1>14, <2>1 DEF IInv, Stages, CompletedIsLogged
<1>22. next \in Begun => pc[r] \in Begun \/ (pc[r] = "logStarted" /\ e.kind = "started")
  BY <1>5 DEF Begun, Snapshotted
<1>23. StartIsLogged'
  <2>1. next \in Begun => LogHas("started", r)'
    <3>1. CASE pc[r] \in Begun
      BY <3>1, <1>14 DEF IInv, Stages, StartIsLogged
    <3>2. CASE pc[r] = "logStarted" /\ e.kind = "started"
      <4>1. e.about = r
        BY <3>2, <1>2
      <4> QED BY <3>2, <4>1, <1>14
    <3> QED BY <3>1, <3>2, <1>22
  <2> QED BY <1>6, <1>14, <2>1 DEF IInv, Stages, StartIsLogged
<1>24. PreviousIsLogged'
  <2>1. next \in {"writeStarting", "logStarted"} \cup Begun /\ previous[r] # Nothing
          => LogHas("recovery_required", previous[r])'
    <3>1. CASE pc[r] = "logRecovery"
      <4>1. e.kind = "recovery_required" /\ e.about = previous[r] /\ previous' = previous
        BY <3>1, <1>2, <1>4, <1>5 DEF IInv, Stages, FoundIsThere
      <4> QED BY <4>1, <1>14
    <3>2. CASE pc[r] # "logRecovery"
      <4>1. /\ pc[r] \in {"writeStarting", "logStarted"} \cup Begun
            /\ previous' = previous
        BY <3>2, <1>4, <1>5 DEF Begun, Snapshotted
      <4> QED BY <4>1, <1>14 DEF IInv, Stages, PreviousIsLogged
    <3> QED BY <3>1, <3>2
  <2> QED BY <1>4, <1>6, <1>14, <2>1 DEF IInv, Stages, PreviousIsLogged
<1>25. SnapshotIsLogged'
  <2>1. /\ next = "writeUnavailable" => LogHas("snapshot_unavailable", r)'
        /\ next \in Snapshotted =>
             LogHas("snapshot_saved", r)' \/ LogHas("snapshot_unavailable", r)'
        /\ next \in Opened => session.state = "running"
    <3>1. CASE pc[r] = "logSaved" \/ pc[r] = "logUnavailable"
      <4>1. e.about = r /\ next \notin Opened
        BY <3>1, <1>2, <1>5 DEF Opened
      <4>2. LogHas(e.kind, r)'
        BY <4>1, <1>14
      <4>3. CASE pc[r] = "logSaved"
        BY <4>1, <4>2, <4>3, <1>5
      <4>4. CASE pc[r] = "logUnavailable"
        BY <4>1, <4>2, <4>4, <1>5
      <4> QED BY <3>1, <4>3, <4>4
    <3>2. CASE pc[r] = "logCompleted"
      <4>1. HasSession(r) /\ pc[r] \in Snapshotted /\ pc[r] \in Opened
        BY <3>2, <1>16 DEF Snapshotted, Opened
      <4>2. /\ LogHas("snapshot_saved", r) \/ LogHas("snapshot_unavailable", r)
            /\ session.state = "running"
        BY <4>1 DEF IInv, Stages, SnapshotIsLogged
      <4> QED BY <3>2, <4>2, <1>5, <1>14
    <3>3. CASE pc[r] = "logRecovery" \/ pc[r] = "logStarted"
      BY <3>3, <1>5 DEF Snapshotted, Opened
    <3> QED BY <3>1, <3>2, <3>3, <1>5
  <2> QED BY <1>4, <1>6, <1>14, <1>15, <2>1 DEF IInv, Stages, SnapshotIsLogged
<1> QED BY <1>12, <1>13, <1>18, <1>19, <1>20, <1>21, <1>23, <1>24, <1>25
        DEF IInv, Stages

LEMMA WriteSessionKeeps ==
  ASSUME IInv, NEW r \in Runs, WriteSession(r)
  PROVE  IInv'
<1> DEFINE next == AfterWrite[pc[r]]
           state == StateOf[pc[r]]
<1>1. /\ pc[r] \in DOMAIN StateOf /\ pc[r] \notin Outside /\ pc[r] \notin DOMAIN EventOf
  BY StagesAreInside DEF WriteSession, EventOf, StateOf
<1>2. /\ next \in Outside \cup Inside /\ state \in States
  BY <1>1 DEF AfterWrite, StateOf, States, Outside, Inside, EventOf
<1>3. /\ pc[r] = "writeStarting" => next = "logStarted" /\ state = "starting"
      /\ pc[r] = "writeRunning" => next = "window" /\ state = "running"
      /\ pc[r] = "writeUnavailable" => next = "marking" /\ state # "completed"
      /\ pc[r] = "writeCompleted" => next = "remove" /\ state = "completed"
      /\ pc[r] \in {"writeStarting", "writeRunning", "writeUnavailable",
                    "writeCompleted"}
  BY <1>1 DEF AfterWrite, StateOf
<1>4. /\ session' = [owner |-> r, state |-> state]
      /\ Move(r, next)
      /\ UNCHANGED <<log, lost, buffer, previous, history>>
  BY DEF WriteSession
<1> HIDE DEF next, state
<1>5. session' \in Sessions /\ session'.owner = r /\ session'.state = state
  BY <1>2, <1>4 DEF Sessions
<1>6. /\ PlacesOK'
      /\ pc'[r] = next /\ \A q \in Runs : q # r => pc'[q] = pc[q]
  BY <1>1, <1>2, <1>4, TypesOf, MoveTyped DEF PlacesOK
<1>7. \A q \in Runs : q # r => pc[q] \in Outside
  BY <1>1, TypesOf, OneInside
<1>8. TypeOK'
  BY <1>4, <1>5, <1>6 DEF IInv, TypeOK, PlacesOK
<1>9. buffer[r] = Nothing
  BY <1>1, NoCopy
<1>10. BufferIsLog' /\ LogIsNewestHistory'
  BY <1>4, <1>6, <1>9 DEF IInv, BufferIsLog, LogIsNewestHistory
<1>11. \A kind, about : LogHas(kind, about) <=> LogHas(kind, about)'
  BY <1>4, LogHasSame
<1>12. \A q \in Runs : HasSession(q)' <=> q = r
  BY <1>5, Constants DEF HasSession
<1>13. pc[r] # "writeStarting" => HasSession(r)
  BY <1>3 DEF IInv, Stages, OwnersOwn, OwnStages
<1>14. NoSessionForgotten'
  <2> SUFFICES ASSUME NEW q \in Runs, Began(q)', q # r
               PROVE  \/ LogHas("completed", q)'
                      \/ LogHas("recovery_required", q)'
                      \/ q \in lost'.runs
    BY <1>12 DEF NoSessionForgotten
  <2>1. Began(q)
    BY <1>11, <1>12 DEF Began
  <2>2. HasSession(q) => Accounted(q)
    <3> SUFFICES ASSUME HasSession(q) PROVE Accounted(q)
      OBVIOUS
    <3>1. session \in Sessions /\ session.owner = q
      BY HasSessionIs
    <3>2. ~HasSession(r)
      BY <3>1, HasSessionIs
    <3>3. MayGo
      BY <3>1, <3>2, <1>3, <1>13 DEF IInv, Stages, ReplacedIsAccountedFor
    <3> QED BY <3>1, <3>3 DEF MayGo, Accounted, IInv, Stages, CompletedIsLogged
  <2> QED BY <2>1, <2>2, <1>4, <1>11 DEF IInv, NoSessionForgotten, Accounted
<1>15. OwnersOwn' /\ FoundIsThere' /\ ReplacedIsAccountedFor'
  <2>1. \A q \in Runs : q # r =>
          pc'[q] \notin OwnStages \cup {"logRecovery", "writeStarting"}
    BY <1>6, <1>7, StagesAreInside
  <2>2. next \notin {"logRecovery", "writeStarting"}
    BY <1>3
  <2> QED BY <1>6, <1>12, <2>1, <2>2
          DEF OwnersOwn, FoundIsThere, ReplacedIsAccountedFor
<1>16. CompletedIsLogged'
  <2>1. pc[r] = "writeCompleted" => LogHas("completed", r)
    BY DEF IInv, Stages, CompletedIsLogged
  <2>2. state = "completed" => pc[r] = "writeCompleted"
    BY <1>3
  <2>3. next \in {"writeCompleted", "remove"} => pc[r] = "writeCompleted"
    BY <1>3
  <2>4. \A q \in Runs : q # r => pc'[q] \notin {"writeCompleted", "remove"}
    BY <1>6, <1>7 DEF Outside
  <2> QED BY <1>5, <1>6, <1>11, <2>1, <2>2, <2>3, <2>4 DEF CompletedIsLogged
<1>17. next \in Begun => pc[r] \in Begun
  BY <1>3 DEF Begun, Snapshotted
<1>18. StartIsLogged'
  BY <1>6, <1>11, <1>17 DEF IInv, Stages, StartIsLogged
<1>19. PreviousIsLogged'
  <2>1. pc[r] \in {"writeStarting", "logStarted"} \cup Begun
    BY <1>3 DEF Begun, Snapshotted
  <2> QED BY <1>4, <1>6, <1>11, <2>1 DEF IInv, Stages, PreviousIsLogged
<1>20. SnapshotIsLogged'
  <2>1. next # "writeUnavailable"
    BY <1>3
  <2>2. next \in Snapshotted =>
          LogHas("snapshot_saved", r) \/ LogHas("snapshot_unavailable", r)
    <3>1. CASE pc[r] = "writeUnavailable"
      BY <3>1, <1>13 DEF IInv, Stages, SnapshotIsLogged
    <3>2. CASE pc[r] \in {"writeRunning", "writeCompleted"}
      <4>1. HasSession(r) /\ pc[r] \in Snapshotted
        BY <3>2, <1>13 DEF Snapshotted
      <4> QED BY <4>1 DEF IInv, Stages, SnapshotIsLogged
    <3>3. CASE pc[r] = "writeStarting"
      BY <3>3, <1>3 DEF Snapshotted
    <3> QED BY <3>1, <3>2, <3>3, <1>3
  <2>3. next \in Opened => state = "running"
    BY <1>3 DEF Opened
  <2> QED BY <1>5, <1>6, <1>11, <1>12, <2>1, <2>2, <2>3 DEF SnapshotIsLogged
<1> QED BY <1>8, <1>10, <1>14, <1>15, <1>16, <1>18, <1>19, <1>20 DEF IInv, Stages

LEMMA RemoveSessionKeeps ==
  ASSUME IInv, NEW r \in Runs, RemoveSession(r)
  PROVE  IInv'
<1>1. pc[r] = "remove" /\ pc[r] \notin Outside /\ pc[r] \notin DOMAIN EventOf
  BY StagesAreInside DEF RemoveSession, EventOf
<1>2. /\ session' = Absent
      /\ Move(r, "done")
      /\ UNCHANGED <<log, buffer, previous, history, lost>>
  BY DEF RemoveSession
<1>3. PlacesOK' /\ pc' = [pc EXCEPT ![r] = "done"]
  <2>1. "done" \in Outside
    BY DEF Outside
  <2> QED BY <1>2, <2>1, TypesOf, MoveTyped
<1>4. buffer[r] = Nothing
  BY <1>1, NoCopy
<1>5. \A kind, about : LogHas(kind, about) <=> LogHas(kind, about)'
  BY <1>2, LogHasSame
<1>6. HasSession(r) /\ LogHas("completed", r)
  BY <1>1 DEF IInv, Stages, OwnersOwn, OwnStages, CompletedIsLogged
<1>7. NoSessionForgotten'
  <2> SUFFICES ASSUME NEW q \in Runs, Began(q)'
               PROVE  \/ LogHas("completed", q)'
                      \/ LogHas("recovery_required", q)'
                      \/ q \in lost'.runs
    BY DEF NoSessionForgotten
  <2>1. Began(q)
    BY <1>2, <1>5 DEF Began, HasSession
  <2>2. HasSession(q) => q = r
    BY <1>6, HasSessionIs
  <2> QED BY <2>1, <2>2, <1>2, <1>5, <1>6 DEF IInv, NoSessionForgotten
<1>8. lost' \in [runs : SUBSET Runs, events : {lost.events}]
  BY <1>2, TypesOf
<1> QED BY <1>1, <1>2, <1>3, <1>4, <1>7, <1>8, TypesOf, AbsentKeeps

-----------------------------------------------------------------------------
(* The run around it. *)

LEMMA InitHolds == Init => IInv
<1> SUFFICES ASSUME Init PROVE IInv
  OBVIOUS
<1>0. /\ \A r \in Runs : pc[r] = "off" /\ buffer[r] = Nothing
      /\ history = <<>> /\ history \in Seq(Events)
      /\ session \in {Absent, Damaged} /\ log \in {<<>>, Damaged}
      /\ lost = [runs |-> {}, events |-> 0]
  BY EmptySeq DEF Init
<1>1. TypeOK
  <2>1. pc \in [Runs -> Outside \cup Inside] /\ \A r \in Runs : pc[r] \in Outside
    BY <1>0 DEF Init, Outside
  <2>2. /\ buffer \in [Runs -> Seq(Events) \cup {Nothing}]
        /\ previous \in [Runs -> Runs \cup {Nothing}]
    BY DEF Init
  <2>3. log = Damaged \/ (log \in Seq(Events) /\ Len(log) <= LogCapacity)
    <3>1. CASE log = <<>>
      <4>1. log \in Seq(Events) /\ Len(log) = 0
        BY <3>1, EmptySeq
      <4>2. 0 <= LogCapacity
        BY ShellRecoveryAssumption
      <4> QED BY <4>1, <4>2
    <3> QED BY <1>0, <3>1
  <2>4. lock = Free
    BY DEF Init
  <2>5. lost \in [runs : SUBSET Runs, events : 0..Len(history)]
    <3>1. Len(history) = 0
      BY <1>0, EmptySeq
    <3> QED BY <1>0, <3>1
  <2> QED BY <1>0, <2>1, <2>2, <2>3, <2>4, <2>5, Constants DEF TypeOK
<1>2. LogIsNewestHistory
  <2>1. log # Damaged => log = <<>>
    BY <1>0
  <2>2. Len(<<>>) = 0 /\ DOMAIN <<>> = {}
    OBVIOUS
  <2> QED BY <1>0, <2>1, <2>2, ShellRecoveryAssumption DEF LogIsNewestHistory
<1>3. /\ \A kind, about : ~LogHas(kind, about)
      /\ \A r \in Runs : ~HasSession(r)
  <2>1. DOMAIN <<>> = {}
    OBVIOUS
  <2> QED BY <1>0, <2>1 DEF LogHas, HasSession
<1>4. NoSessionForgotten /\ BufferIsLog
  BY <1>0, <1>3 DEF NoSessionForgotten, Began, BufferIsLog
<1>5. "off" \notin OwnStages \cup Begun
  BY DEF OwnStages, Begun, Snapshotted
<1>6. Stages
  BY <1>0, <1>3, <1>5, Constants
     DEF Stages, OwnersOwn, FoundIsThere, ReplacedIsAccountedFor, CompletedIsLogged,
         StartIsLogged, PreviousIsLogged, SnapshotIsLogged
<1> QED BY <1>1, <1>2, <1>4, <1>6 DEF IInv

LEMMA SameKeeps ==
  ASSUME IInv, UNCHANGED vars
  PROVE  IInv'
BY DEF vars, files, IInv, TypeOK, BufferIsLog, LogIsNewestHistory, NoSessionForgotten,
       Began, LogHas, HasSession, Stages, OwnersOwn, FoundIsThere,
       ReplacedIsAccountedFor, MayGo, CompletedIsLogged, StartIsLogged,
       PreviousIsLogged, SnapshotIsLogged

LEMMA ErrorKeeps ==
  ASSUME IInv, NEW r \in Runs, Errors(r)
  PROVE  IInv'
BY FailKeeps, EndKeeps, LogLostKeeps, SessionLostKeeps
   DEF Errors, LockError, SessionError, LogError, WriteError, WindowError

LEMMA TransactionKeeps ==
  ASSUME IInv, NEW r \in Runs, Transaction(r)
  PROVE  IInv'
BY OutsideKeeps, ReadSessionKeeps, CheckOwnerKeeps, ReadLogKeeps, StoreLogKeeps,
   WriteSessionKeeps, RemoveSessionKeeps DEF Transaction

LEMMA DieKeeps ==
  ASSUME IInv, NEW r \in Runs, Die(r)
  PROVE  IInv'
<1>1. CASE Crash(r)
  BY <1>1, CrashKeeps
<1>2. CASE ~Crash(r)
  <2>1. /\ ~Alive(r)
        /\ pc' = [pc EXCEPT ![r] = "dead"]
        /\ UNCHANGED <<lock, files, buffer, previous, history>>
    BY <1>2 DEF Die
  <2>2. /\ pc[r] \in {"off", "done", "failed", "dead"}
        /\ pc[r] \in Outside /\ pc[r] \notin DOMAIN EventOf /\ "dead" \in Outside
    BY <2>1, StagesAreInside DEF Alive, Outside
  <2>3. lock # r /\ lock' = IF lock = r THEN Free ELSE lock
    BY <2>1, <2>2, TypesOf DEF PlacesOK
  <2>4. UNCHANGED buffer /\ buffer[r] = Nothing
    BY <2>1, <2>2, NoCopy
  <2>5. buffer' = [buffer EXCEPT ![r] = Nothing]
    BY <2>4, TypesOf
  <2>6. End(r, "dead")
    BY <2>1, <2>2, <2>3, <2>5 DEF End, Move
  <2> QED BY <2>1, <2>6, EndKeeps
<1> QED BY <1>1, <1>2

(* Every step of a run is one of the transaction, or none of its concern.   *)
LEMMA RunStepIs ==
  ASSUME NEW r \in Runs, RunStep(r)
  PROVE  \/ Transaction(r)
         \/ Launch(r) \/ CollectSnapshot(r) \/ CloseWindow(r)
         \/ Fail(r) \/ Errors(r)
         \/ Die(r)
         \/ UNCHANGED vars
<1>1. CASE StartUp(r) \/ StartError(r)
  BY <1>1 DEF StartUp, StartError
<1>2. CASE TransactionError(r)
  <2>1. CASE ReadError(r)
    BY <2>1 DEF ReadError, Ends, Errors
  <2>2. CASE Ends(r, LockError(r) \/ WriteError(r) \/ (WindowError(r) /\ At(r, "idle")))
    BY <2>2 DEF Ends, Errors
  <2> QED BY <1>2, <2>1, <2>2 DEF TransactionError
<1>3. CASE FileSteps(r)
  <2>1. CASE FinishSnapshot(r) \/ CompleteSession(r)
    BY <2>1 DEF FinishSnapshot, CompleteSession
  <2>2. CASE ReadRegistry(r) \/ WriteTemporary(r) \/ Replace(r)
    BY <2>2 DEF ReadRegistry, WriteTemporary, NotSaved, Replace
  <2>3. CASE ReplaceFails(r) \/ FinishSave(r) \/ RemoveMarker(r)
    BY <2>3 DEF ReplaceFails, NotSaved, FinishSave, RemoveMarker
  <2> QED BY <1>3, <2>1, <2>2, <2>3 DEF FileSteps
<1>4. CASE Edit(r) \/ BeginSave(r)
  BY <1>4 DEF Edit, BeginSave
<1> QED BY <1>1, <1>2, <1>3, <1>4 DEF RunStep

LEMMA RunNextKeeps == IInv /\ [RunNext]_runVars => IInv'
<1> SUFFICES ASSUME IInv, [RunNext]_runVars PROVE IInv'
  OBVIOUS
<1>1. CASE UNCHANGED runVars
  <2>1. UNCHANGED vars
    BY <1>1 DEF runVars, vars
  <2> QED BY <2>1, SameKeeps
<1>2. ASSUME NEW r \in Runs, RunStep(r) PROVE IInv'
  <2>1. CASE Transaction(r)
    BY <2>1, TransactionKeeps
  <2>2. CASE Launch(r) \/ CollectSnapshot(r) \/ CloseWindow(r)
    BY <2>2, OutsideKeeps
  <2>3. CASE Fail(r) \/ Errors(r)
    BY <2>3, FailKeeps, ErrorKeeps
  <2>4. CASE Die(r)
    BY <2>4, DieKeeps
  <2>5. CASE UNCHANGED vars
    BY <2>5, SameKeeps
  <2> QED BY <1>2, <2>1, <2>2, <2>3, <2>4, <2>5, RunStepIs
<1> QED BY <1>1, <1>2 DEF RunNext

LEMMA InvHolds == RunSpec => []IInv
<1>1. GuiInit => IInv
  BY InitHolds DEF GuiInit
<1> QED BY <1>1, RunNextKeeps, PTL DEF RunSpec

-----------------------------------------------------------------------------
(* The mutex lets one run at a time into the transaction, and only its      *)
(* owner; the log never holds more than it has room for, and every event is *)
(* one that append_event makes.                                             *)
THEOREM TypesHold == RunSpec => []TypeOK
<1>1. IInv => TypeOK
  BY DEF IInv
<1> QED BY <1>1, InvHolds, PTL

(* The bounded log is exactly the newest of the events stored since a       *)
(* replacement last lost it, for every number of runs and every capacity:   *)
(* no read and write back of append_event loses a line of another run,      *)
(* wherever runs die or fail.                                               *)
THEOREM LogIsTheNewest == RunSpec => []LogIsNewestHistory
<1>1. IInv => LogIsNewestHistory
  BY DEF IInv
<1> QED BY <1>1, InvHolds, PTL

(* A run that left a session behind is on record: its file, its completion, *)
(* or the start that found it unfinished; unless a replacement of its own   *)
(* went wrong and lost the file.                                            *)
THEOREM NoSessionIsForgotten == RunSpec => []NoSessionForgotten
<1>1. IInv => NoSessionForgotten
  BY DEF IInv
<1> QED BY <1>1, InvHolds, PTL

(* A window that is open has the whole chain of recovery behind it.         *)
THEOREM WindowsHaveTheirChain == RunSpec => []WindowNeedsRecoveryChain
<1>1. IInv => WindowNeedsRecoveryChain
  <2> SUFFICES ASSUME IInv, NEW r \in Runs, pc[r] \in {"window", "closing"}
               PROVE  /\ LogHas("started", r)
                      /\ previous[r] # Nothing => LogHas("recovery_required", previous[r])
                      /\ HasSession(r) =>
                           /\ session.state = "running"
                           /\ LogHas("snapshot_saved", r) \/ LogHas("snapshot_unavailable", r)
    BY DEF WindowNeedsRecoveryChain
  <2>1. pc[r] \in Begun /\ pc[r] \in Snapshotted /\ pc[r] \in Opened
    BY DEF Begun, Snapshotted, Opened
  <2>2. LogHas("started", r)
    BY <2>1 DEF IInv, Stages, StartIsLogged
  <2>3. previous[r] # Nothing => LogHas("recovery_required", previous[r])
    BY <2>1 DEF IInv, Stages, PreviousIsLogged
  <2>4. HasSession(r) =>
          /\ session.state = "running"
          /\ LogHas("snapshot_saved", r) \/ LogHas("snapshot_unavailable", r)
    BY <2>1 DEF IInv, Stages, SnapshotIsLogged
  <2> QED BY <2>2, <2>3, <2>4
<1> QED BY <1>1, InvHolds, PTL

-----------------------------------------------------------------------------
(* Three steps change the session file, all inside the transaction.         *)
LEMMA SessionIsWritten ==
  ASSUME NEW r \in Runs, RunStep(r), session' # session
  PROVE  WriteSession(r) \/ RemoveSession(r) \/ SessionLost(r)
<1>1. CASE Launch(r) \/ CollectSnapshot(r) \/ CloseWindow(r)
  BY <1>1 DEF Launch, CollectSnapshot, CloseWindow, files
<1>2. CASE Fail(r) \/ Errors(r)
  BY <1>2 DEF Errors, LockError, SessionError, LogError, WriteError, WindowError, Fail,
              LogLost, files
<1>3. CASE Die(r)
  BY <1>3 DEF Die, Crash, LogLost, files
<1>4. CASE Transaction(r)
  BY <1>4 DEF Transaction, Lock, ReadSession, CheckOwner, ReadLog, StoreLog, files
<1>5. CASE UNCHANGED vars
  BY <1>5 DEF vars
<1> QED BY <1>1, <1>2, <1>3, <1>4, <1>5, RunStepIs

LEMMA SupersededStep ==
  ASSUME IInv, NEW r \in Runs, RunStep(r), session' # session
  PROVE  \/ HasSession(lock)
         \/ /\ session' \in {Absent, [owner |-> lock, state |-> "starting"]}
            /\ session # Absent => \/ session.state = "completed"
                                   \/ LogHas("recovery_required", session.owner)
<1>1. pc[r] \in DOMAIN StateOf \cup {"remove"}
  BY SessionIsWritten DEF WriteSession, RemoveSession, SessionLost
<1>2. lock = r
  BY <1>1, StagesAreInside, TypesOf, OneInside
<1>3. CASE pc[r] = "writeStarting"
  <2>1. WriteSession(r) \/ SessionLost(r)
    BY <1>3, SessionIsWritten DEF RemoveSession
  <2>2. StateOf["writeStarting"] = "starting"
    BY DEF StateOf
  <2>3. session' \in {Absent, [owner |-> lock, state |-> "starting"]}
    BY <1>2, <1>3, <2>1, <2>2 DEF WriteSession, SessionLost
  <2>4. session # Absent => MayGo
    BY <1>3, TypesOf DEF IInv, Stages, ReplacedIsAccountedFor
  <2> QED BY <2>3, <2>4 DEF MayGo
<1>4. CASE pc[r] # "writeStarting"
  <2>1. pc[r] \in OwnStages
    BY <1>1, <1>4 DEF StateOf, OwnStages
  <2> QED BY <1>2, <2>1 DEF IInv, Stages, OwnersOwn
<1> QED BY <1>3, <1>4

(* No step of any run, its exit included, changes the session of another    *)
(* one, except that a start puts its own in its place, or loses it in the   *)
(* attempt, after it was completed or recorded as unfinished: the check of  *)
(* the owner and the change lie in one critical section.                    *)
THEOREM SupersededAreHarmless == RunSpec => SupersededRunsAreHarmless
<1>1. IInv /\ [RunNext]_runVars =>
        [session' # session =>
           \/ HasSession(lock)
           \/ /\ session' \in {Absent, [owner |-> lock, state |-> "starting"]}
              /\ session # Absent => \/ session.state = "completed"
                                     \/ LogHas("recovery_required", session.owner)]_vars
  <2> SUFFICES ASSUME IInv, [RunNext]_runVars, session' # session
               PROVE  \/ HasSession(lock)
                      \/ /\ session' \in {Absent, [owner |-> lock, state |-> "starting"]}
                         /\ session # Absent =>
                              \/ session.state = "completed"
                              \/ LogHas("recovery_required", session.owner)
    OBVIOUS
  <2>1. RunNext
    BY DEF runVars
  <2> QED BY <2>1, SupersededStep DEF RunNext
<1> QED BY <1>1, InvHolds, PTL DEF RunSpec, SupersededRunsAreHarmless

-----------------------------------------------------------------------------
(* What the log says about the snapshots, beside the registry and the disk. *)

LEMMA LogHasOneMore ==
  ASSUME history \in Seq(Events), NEW e \in Events, history' = Append(history, e),
         NEW kind, NEW about, kind # e.kind \/ about # e.about
  PROVE  LogHas(kind, about)' <=> LogHas(kind, about)
<1>1. /\ Len(history) \in Nat
      /\ Len(history') = Len(history) + 1
      /\ \A i \in 1..Len(history) : history'[i] = history[i]
      /\ history'[Len(history) + 1] = e
      /\ history' \in Seq(Events)
  BY AppendProperties, LenProperties
<1>2. DOMAIN history' = 1..(Len(history) + 1) /\ DOMAIN history = 1..Len(history)
  BY <1>1, LenProperties
<1>3. ASSUME LogHas(kind, about)' PROVE LogHas(kind, about)
  <2>1. PICK i \in DOMAIN history' :
          history'[i].kind = kind /\ history'[i].about = about
    BY <1>3 DEF LogHas
  <2>2. i # Len(history) + 1
    BY <2>1, <1>1
  <2>3. i \in DOMAIN history /\ history'[i] = history[i]
    BY <2>1, <2>2, <1>1, <1>2
  <2> QED BY <2>1, <2>3 DEF LogHas
<1> QED BY <1>3, LogHasMore

Recorded(r) == LogHas("snapshot_saved", r) \/ LogHas("snapshot_unavailable", r)

(* Before its snapshot, a run has neither put one in place nor recorded it. *)
Early == {"off", "start", "begin", "logRecovery", "writeStarting", "logStarted"}

SavingTyped ==
  /\ saving \in [Runs -> {"idle", "writing", "replacing", "saved", "notSaved"}]
  /\ complete \in [Runs -> BOOLEAN]
  /\ \A r \in Runs : pc[r] \notin {"collect", "window"} => saving[r] = "idle"

EarlyHasNone == \A r \in Runs : pc[r] \in Early => r \notin stored /\ ~Recorded(r)

(* While it is saved, it is in place once it has replaced the old one, if   *)
(* both values were read.                                                   *)
CollectingStores ==
  \A r \in Runs :
    pc[r] = "collect" =>
      /\ ~Recorded(r)
      /\ r \in stored <=> (saving[r] = "saved" /\ complete[r])

(* What the run goes on to record is what has happened.                     *)
OutcomeIsKnown ==
  \A r \in Runs :
    /\ pc[r] \in {"saved", "ownSaved", "logSaved"} => r \in stored /\ ~Recorded(r)
    /\ pc[r] \in {"unavailable", "ownUnavailable", "logUnavailable"}
         => r \notin stored /\ ~Recorded(r)

SnapInv == /\ SavingTyped
           /\ EarlyHasNone
           /\ CollectingStores
           /\ OutcomeIsKnown
           /\ SnapshotEventIsTrue

(* A step of the transaction that stores no event: the run goes where it    *)
(* knows as much.                                                           *)
SameGroup(from, to) ==
  /\ to # "collect"
  /\ to \in Early => from \in Early
  /\ to \in {"saved", "ownSaved", "logSaved"} => from \in {"saved", "ownSaved", "logSaved"}
  /\ to \in {"unavailable", "ownUnavailable", "logUnavailable"}
       => from \in {"unavailable", "ownUnavailable", "logUnavailable"}

LEMMA QuietKeepsSnap ==
  ASSUME SnapInv, NEW r \in Runs, NEW to, pc \in [Runs -> Outside \cup Inside],
         pc' = [pc EXCEPT ![r] = to], SameGroup(pc[r], to),
         saving' \in [Runs -> {"idle", "writing", "replacing", "saved", "notSaved"}],
         complete' \in [Runs -> BOOLEAN],
         \A q \in Runs : q # r => saving'[q] = saving[q] /\ complete'[q] = complete[q],
         to # "window" => saving'[r] = "idle",
         UNCHANGED <<stored, history>>
  PROVE  SnapInv'
<1>1. pc'[r] = to /\ \A q \in Runs : q # r => pc'[q] = pc[q]
  OBVIOUS
<1>2. /\ \A kind, about : LogHas(kind, about) <=> LogHas(kind, about)'
      /\ \A q \in Runs : Recorded(q) <=> Recorded(q)'
  BY LogHasSame DEF Recorded
<1>3. SavingTyped'
  BY <1>1 DEF SnapInv, SavingTyped
<1>4. EarlyHasNone'
  BY <1>1, <1>2 DEF SnapInv, EarlyHasNone, SameGroup
<1>5. CollectingStores'
  <2> SUFFICES ASSUME NEW q \in Runs, pc'[q] = "collect"
               PROVE  /\ ~Recorded(q)'
                      /\ q \in stored' <=> (saving'[q] = "saved" /\ complete'[q])
    BY DEF CollectingStores
  <2>1. q # r /\ pc[q] = "collect"
    BY <1>1 DEF SameGroup
  <2>2. /\ ~Recorded(q)
        /\ q \in stored <=> (saving[q] = "saved" /\ complete[q])
    BY <2>1 DEF SnapInv, CollectingStores
  <2>3. saving'[q] = saving[q] /\ complete'[q] = complete[q] /\ stored' = stored
    BY <2>1
  <2> QED BY <2>2, <2>3, <1>2
<1>6. OutcomeIsKnown'
  BY <1>1, <1>2 DEF SnapInv, OutcomeIsKnown, SameGroup
<1>7. SnapshotEventIsTrue'
  BY <1>2 DEF SnapInv, SnapshotEventIsTrue
<1> QED BY <1>3, <1>4, <1>5, <1>6, <1>7 DEF SnapInv

LEMMA SnapTypes ==
  ASSUME IInv, SnapInv
  PROVE  /\ pc \in [Runs -> Outside \cup Inside]
         /\ saving \in [Runs -> {"idle", "writing", "replacing", "saved", "notSaved"}]
         /\ complete \in [Runs -> BOOLEAN]
         /\ \A r \in Runs : pc[r] \notin {"collect", "window"} => saving[r] = "idle"
BY DEF IInv, TypeOK, SnapInv, SavingTyped

(* A run moves, and nothing is stored or saved. *)
LEMMA MoveKeepsSnap ==
  ASSUME IInv, SnapInv, NEW r \in Runs, NEW to,
         pc' = [pc EXCEPT ![r] = to], SameGroup(pc[r], to),
         saving[r] = "idle",
         UNCHANGED <<saving, complete, stored, history>>
  PROVE  SnapInv'
BY SnapTypes, QuietKeepsSnap

LEMMA StayKeepsSnap ==
  ASSUME SnapInv, UNCHANGED <<pc, saving, complete, stored, history>>
  PROVE  SnapInv'
BY DEF SnapInv, SavingTyped, EarlyHasNone, CollectingStores, OutcomeIsKnown,
       SnapshotEventIsTrue, Recorded, LogHas

LEMMA FailKeepsSnap ==
  ASSUME IInv, SnapInv, NEW r \in Runs, End(r, "failed"), saving[r] = "idle",
         UNCHANGED <<saving, complete, stored>>
  PROVE  SnapInv'
<1>1. pc' = [pc EXCEPT ![r] = "failed"] /\ UNCHANGED history
  BY DEF End, Move
<1>2. SameGroup(pc[r], "failed")
  BY DEF SameGroup, Early
<1> QED BY <1>1, <1>2, MoveKeepsSnap

LEMMA ErrorKeepsSnap ==
  ASSUME IInv, SnapInv, NEW r \in Runs, StartError(r) \/ TransactionError(r)
  PROVE  SnapInv'
<1>1. End(r, "failed") /\ UNCHANGED <<saving, complete, stored>>
  BY DEF StartError, guiVars, TransactionError, ReadError, Ends, SessionError, LogError,
         LockError, WriteError, WindowError, Fail
<1>2. saving[r] = "idle"
  <2>1. CASE pc[r] \notin {"collect", "window"}
    BY <2>1, SnapTypes
  <2>2. CASE pc[r] \in {"collect", "window"}
    <3>1. pc[r] \notin {"off", "begin"} \cup DOMAIN Entered \cup DOMAIN OwnedNext
                       \cup DOMAIN EventOf \cup DOMAIN StateOf \cup {"remove"}
      BY <2>2 DEF Entered, OwnedNext, EventOf, StateOf
    <3>2. WindowError(r) /\ At(r, "idle")
      BY <3>1 DEF StartError, TransactionError, ReadError, Ends, SessionError, LogError,
                  LockError, WriteError
    <3> QED BY <3>2 DEF At
  <2> QED BY <2>1, <2>2
<1> QED BY <1>1, <1>2, FailKeepsSnap

LEMMA LaunchKeepsSnap ==
  ASSUME IInv, SnapInv, NEW r \in Runs, StartUp(r)
  PROVE  SnapInv'
<1>1. /\ pc[r] = "off" /\ pc' = [pc EXCEPT ![r] = "start"]
      /\ UNCHANGED <<saving, complete, stored, history>>
  BY DEF StartUp, Launch, Move
<1>2. SameGroup(pc[r], "start") /\ saving[r] = "idle"
  BY <1>1, SnapTypes DEF SameGroup, Early
<1> QED BY <1>1, <1>2, MoveKeepsSnap

(* The transaction, as long as it stores no event. *)
LEMMA MostOfTransactionKeepsSnap ==
  ASSUME IInv, SnapInv, NEW r \in Runs, UNCHANGED guiVars,
         \/ Lock(r) \/ ReadSession(r) \/ CheckOwner(r)
         \/ WriteSession(r) \/ RemoveSession(r)
  PROVE  SnapInv'
<1>1. PICK to : /\ pc' = [pc EXCEPT ![r] = to]
                /\ SameGroup(pc[r], to)
                /\ pc[r] \notin {"collect", "window"}
                /\ UNCHANGED history
  <2>1. CASE Lock(r)
    <3>1. /\ pc[r] \in DOMAIN Entered /\ UNCHANGED history
          /\ pc' = [pc EXCEPT ![r] = Entered[pc[r]]]
      BY <2>1 DEF Lock
    <3>2. SameGroup(pc[r], Entered[pc[r]]) /\ pc[r] \notin {"collect", "window"}
      BY <3>1 DEF Entered, SameGroup, Early
    <3> QED BY <3>1, <3>2
  <2>2. CASE ReadSession(r)
    <3>1. PICK to \in {"logRecovery", "writeStarting"} :
            pc[r] = "begin" /\ UNCHANGED history /\ pc' = [pc EXCEPT ![r] = to]
      BY <2>2 DEF ReadSession, Move
    <3>2. SameGroup(pc[r], to)
      BY <3>1 DEF SameGroup, Early
    <3> QED BY <3>1, <3>2
  <2>3. CASE CheckOwner(r)
    <3>1. PICK to \in {OwnedNext[pc[r]], SupersededNext[pc[r]]} :
            /\ pc[r] \in DOMAIN OwnedNext /\ UNCHANGED history
            /\ pc' = [pc EXCEPT ![r] = to]
      BY <2>3 DEF CheckOwner, Move
    <3>2. SameGroup(pc[r], to) /\ pc[r] \notin {"collect", "window"}
      BY <3>1 DEF SameGroup, Early, OwnedNext, SupersededNext
    <3> QED BY <3>1, <3>2
  <2>4. CASE WriteSession(r)
    <3>1. /\ pc[r] \in DOMAIN StateOf /\ UNCHANGED history
          /\ pc' = [pc EXCEPT ![r] = AfterWrite[pc[r]]]
      BY <2>4 DEF WriteSession, Move
    <3>2. SameGroup(pc[r], AfterWrite[pc[r]]) /\ pc[r] \notin {"collect", "window"}
      BY <3>1 DEF SameGroup, Early, StateOf, AfterWrite
    <3> QED BY <3>1, <3>2
  <2>5. CASE RemoveSession(r)
    <3>1. pc[r] = "remove" /\ UNCHANGED history /\ pc' = [pc EXCEPT ![r] = "done"]
      BY <2>5 DEF RemoveSession, Move
    <3>2. SameGroup(pc[r], "done")
      BY DEF SameGroup, Early
    <3> QED BY <3>1, <3>2
  <2> QED BY <2>1, <2>2, <2>3, <2>4, <2>5
<1>2. saving[r] = "idle"
  BY <1>1, SnapTypes
<1> QED BY <1>1, <1>2, MoveKeepsSnap DEF guiVars

(* An event is stored: what it says is what happened. *)
LEMMA StoreKeepsSnap ==
  ASSUME IInv, SnapInv, NEW r \in Runs, StoreLog(r), UNCHANGED guiVars
  PROVE  SnapInv'
<1> DEFINE stages == DOMAIN EventOf
<1>1. PICK at \in stages : pc[r] = at
  BY DEF StoreLog
<1>2. PICK e : e = Event(r)
  OBVIOUS
<1>3. /\ pc' = [pc EXCEPT ![r] = AfterEvent[at]]
      /\ history' = Append(history, e)
      /\ UNCHANGED <<saving, complete, stored>>
  BY <1>1, <1>2 DEF StoreLog, Move, guiVars
<1>4. /\ e.kind = EventOf[at]
      /\ at # "logRecovery" => e.about = r
  BY <1>1, <1>2 DEF Event
<1>5. e \in Events /\ history \in Seq(Events)
  BY <1>1, <1>2, EventTyped, TypesOf
<1>6. /\ pc'[r] = AfterEvent[at]
      /\ \A q \in Runs : q # r => pc'[q] = pc[q]
      /\ saving[r] = "idle"
      /\ SavingTyped'
  <2>1. pc'[r] = AfterEvent[at] /\ \A q \in Runs : q # r => pc'[q] = pc[q]
    BY <1>3, SnapTypes
  <2>2. AfterEvent[at] # "window" /\ at \notin {"collect", "window"}
    BY DEF EventOf, AfterEvent
  <2>3. saving[r] = "idle"
    BY <1>1, <2>2, SnapTypes
  <2> QED BY <1>3, <2>1, <2>3 DEF SnapInv, SavingTyped
<1>7. /\ \A q \in Runs : q # r => (Recorded(q)' <=> Recorded(q))
      /\ \A q \in Runs : q # r =>
           /\ LogHas("snapshot_saved", q)' <=> LogHas("snapshot_saved", q)
           /\ LogHas("snapshot_unavailable", q)' <=> LogHas("snapshot_unavailable", q)
  <2> SUFFICES ASSUME NEW q \in Runs, q # r
               PROVE  /\ LogHas("snapshot_saved", q)' <=> LogHas("snapshot_saved", q)
                      /\ LogHas("snapshot_unavailable", q)'
                           <=> LogHas("snapshot_unavailable", q)
    BY DEF Recorded
  <2>1. e.about # q \/ e.kind \notin {"snapshot_saved", "snapshot_unavailable"}
    BY <1>4 DEF EventOf
  <2> QED BY <2>1, <1>3, <1>5, LogHasOneMore
<1>8. /\ at # "logSaved"
           => (LogHas("snapshot_saved", r)' <=> LogHas("snapshot_saved", r))
      /\ at # "logUnavailable"
           => (LogHas("snapshot_unavailable", r)' <=> LogHas("snapshot_unavailable", r))
  <2>1. /\ at # "logSaved" => e.kind # "snapshot_saved"
        /\ at # "logUnavailable" => e.kind # "snapshot_unavailable"
    BY <1>4 DEF EventOf
  <2> QED BY <2>1, <1>3, <1>5, LogHasOneMore
<1>9. SnapshotEventIsTrue'
  <2>1. /\ LogHas("snapshot_saved", r)' => r \in stored
        /\ LogHas("snapshot_unavailable", r)' => r \notin stored
    <3>1. CASE at = "logSaved"
      <4>1. r \in stored /\ ~Recorded(r)
        BY <1>1, <3>1 DEF SnapInv, OutcomeIsKnown
      <4> QED BY <3>1, <4>1, <1>8 DEF Recorded
    <3>2. CASE at = "logUnavailable"
      <4>1. r \notin stored /\ ~Recorded(r)
        BY <1>1, <3>2 DEF SnapInv, OutcomeIsKnown
      <4> QED BY <3>2, <4>1, <1>8 DEF Recorded
    <3>3. CASE at \notin {"logSaved", "logUnavailable"}
      BY <3>3, <1>8 DEF SnapInv, SnapshotEventIsTrue
    <3> QED BY <3>1, <3>2, <3>3
  <2> QED BY <2>1, <1>3, <1>7 DEF SnapInv, SnapshotEventIsTrue
<1>10. EarlyHasNone'
  <2>1. pc'[r] \in Early => at = "logRecovery"
    BY <1>6 DEF EventOf, AfterEvent, Early
  <2>2. at = "logRecovery" => r \notin stored /\ ~Recorded(r)'
    BY <1>1, <1>8 DEF SnapInv, EarlyHasNone, Early, Recorded
  <2> QED BY <2>1, <2>2, <1>3, <1>6, <1>7 DEF SnapInv, EarlyHasNone
<1>11. CollectingStores'
  <2>1. pc'[r] = "collect" => at = "logStarted"
    BY <1>6 DEF EventOf, AfterEvent
  <2>2. at = "logStarted" => r \notin stored /\ ~Recorded(r)'
    BY <1>1, <1>8 DEF SnapInv, EarlyHasNone, Early, Recorded
  <2> QED BY <2>1, <2>2, <1>3, <1>6, <1>7 DEF SnapInv, CollectingStores
<1>12. OutcomeIsKnown'
  <2>1. pc'[r] \notin {"saved", "ownSaved", "logSaved", "unavailable", "ownUnavailable",
                       "logUnavailable"}
    BY <1>6 DEF EventOf, AfterEvent
  <2> QED BY <2>1, <1>3, <1>6, <1>7 DEF SnapInv, OutcomeIsKnown
<1> QED BY <1>6, <1>9, <1>10, <1>11, <1>12 DEF SnapInv

-----------------------------------------------------------------------------
(* A save goes on, for the settings or for the snapshot. *)

LEMMA SaveKeepsSnap ==
  ASSUME SnapInv, NEW r \in Runs, NEW stage,
         saving' = [saving EXCEPT ![r] = stage],
         stage \in {"idle", "writing", "replacing", "saved", "notSaved"},
         complete' \in [Runs -> BOOLEAN],
         \A q \in Runs : q # r => complete'[q] = complete[q],
         \A q \in Runs : q # r => (q \in stored' <=> q \in stored),
         pc[r] \in {"collect", "window"},
         pc[r] = "collect" => (r \in stored' <=> (stage = "saved" /\ complete'[r])),
         pc[r] = "window" => (r \in stored' <=> r \in stored),
         UNCHANGED <<pc, history>>
  PROVE  SnapInv'
<1>1. /\ \A kind, about : LogHas(kind, about) <=> LogHas(kind, about)'
      /\ \A q \in Runs : Recorded(q) <=> Recorded(q)'
  BY LogHasSame DEF Recorded
<1>2. /\ saving \in [Runs -> {"idle", "writing", "replacing", "saved", "notSaved"}]
      /\ saving'[r] = stage /\ \A q \in Runs : q # r => saving'[q] = saving[q]
  BY DEF SnapInv, SavingTyped
<1>3. SavingTyped'
  BY <1>2 DEF SnapInv, SavingTyped
<1>4. EarlyHasNone' /\ OutcomeIsKnown'
  BY <1>1 DEF SnapInv, EarlyHasNone, OutcomeIsKnown, Early
<1>5. CollectingStores'
  <2> SUFFICES ASSUME NEW q \in Runs, pc[q] = "collect"
               PROVE  /\ ~Recorded(q)'
                      /\ q \in stored' <=> (saving'[q] = "saved" /\ complete'[q])
    BY DEF CollectingStores
  <2>1. ~Recorded(q)'
    BY <1>1 DEF SnapInv, CollectingStores
  <2>2. CASE q = r
    BY <2>1, <2>2, <1>2
  <2>3. CASE q # r
    <3>1. q \in stored <=> (saving[q] = "saved" /\ complete[q])
      BY DEF SnapInv, CollectingStores
    <3>2. saving'[q] = saving[q] /\ complete'[q] = complete[q]
          /\ (q \in stored' <=> q \in stored)
      BY <2>3, <1>2
    <3> QED BY <2>1, <3>1, <3>2
  <2> QED BY <2>2, <2>3
<1>6. SnapshotEventIsTrue'
  <2> SUFFICES ASSUME NEW q \in Runs
               PROVE  /\ LogHas("snapshot_saved", q)' => q \in stored'
                      /\ LogHas("snapshot_unavailable", q)' => q \notin stored'
    BY DEF SnapshotEventIsTrue
  <2>1. CASE pc[q] = "collect"
    BY <2>1, <1>1 DEF SnapInv, CollectingStores, Recorded
  <2>2. CASE pc[q] # "collect"
    BY <2>2, <1>1 DEF SnapInv, SnapshotEventIsTrue
  <2> QED BY <2>1, <2>2
<1> QED BY <1>3, <1>4, <1>5, <1>6 DEF SnapInv

LEMMA FilesKeepSnap ==
  ASSUME IInv, SnapInv, NEW r \in Runs,
         \/ ReadRegistry(r) \/ WriteTemporary(r) \/ Replace(r) \/ ReplaceFails(r)
         \/ FinishSave(r) \/ BeginSave(r)
  PROVE  SnapInv'
<1> USE SnapTypes
<1>1. /\ UNCHANGED <<pc, history>>
      /\ pc[r] \in {"collect", "window"}
  <2>1. UNCHANGED vars
    BY DEF ReadRegistry, WriteTemporary, NotSaved, Replace, ReplaceFails, FinishSave, BeginSave
  <2>2. CASE ReadRegistry(r) \/ FinishSave(r) \/ BeginSave(r)
    BY <2>1, <2>2 DEF vars, ReadRegistry, FinishSave, BeginSave
  <2>3. CASE WriteTemporary(r) \/ Replace(r) \/ ReplaceFails(r)
    <3>1. saving[r] # "idle"
      BY <2>3 DEF WriteTemporary, Replace, ReplaceFails, At
    <3> QED BY <2>1, <3>1 DEF vars
  <2> QED BY <2>2, <2>3
<1>2. pc[r] = "collect" => (r \in stored <=> (saving[r] = "saved" /\ complete[r]))
  BY DEF SnapInv, CollectingStores
<1>3. CASE ReadRegistry(r)
  <2>1. /\ pc[r] = "collect" /\ saving[r] = "idle"
        /\ saving' = [saving EXCEPT ![r] = "writing"]
        /\ UNCHANGED stored
    BY <1>3 DEF ReadRegistry, At, Stage
  <2>2. PICK c \in BOOLEAN : complete' = [complete EXCEPT ![r] = c]
    BY <1>3 DEF ReadRegistry
  <2>3. complete' \in [Runs -> BOOLEAN] /\ \A q \in Runs : q # r => complete'[q] = complete[q]
    BY <2>2
  <2> QED BY <1>1, <1>2, <2>1, <2>3, SaveKeepsSnap
<1>4. CASE WriteTemporary(r)
  <2>1. PICK stage \in {"replacing", "notSaved"} : saving' = [saving EXCEPT ![r] = stage]
    BY <1>4 DEF WriteTemporary, NotSaved, Stage
  <2>2. saving[r] = "writing" /\ UNCHANGED <<complete, stored>>
    BY <1>4 DEF WriteTemporary, NotSaved, At
  <2> QED BY <1>1, <1>2, <2>1, <2>2, SaveKeepsSnap
<1>5. CASE Replace(r)
  <2>1. /\ saving[r] = "replacing" /\ saving' = [saving EXCEPT ![r] = "saved"]
        /\ UNCHANGED complete
    BY <1>5 DEF Replace, At, Stage
  <2>2. CASE pc[r] = "window"
    <3>1. UNCHANGED stored
      BY <1>5, <2>2 DEF Replace, OfSettings
    <3> QED BY <1>1, <2>1, <2>2, <3>1, SaveKeepsSnap
  <2>3. CASE pc[r] = "collect"
    <3>1. stored' = IF complete[r] THEN stored \cup {r} ELSE stored
      BY <1>5, <2>3 DEF Replace, OfSettings
    <3>2. r \notin stored
      BY <1>2, <2>1, <2>3
    <3>3. r \in stored' <=> complete[r]
      BY <3>1, <3>2
    <3>4. \A q \in Runs : q # r => (q \in stored' <=> q \in stored)
      BY <3>1
    <3> QED BY <1>1, <2>1, <2>3, <3>3, <3>4, SaveKeepsSnap
  <2> QED BY <1>1, <2>2, <2>3
<1>6. CASE ReplaceFails(r)
  <2>1. /\ saving[r] = "replacing" /\ saving' = [saving EXCEPT ![r] = "notSaved"]
        /\ UNCHANGED <<complete, stored>>
    BY <1>6 DEF ReplaceFails, NotSaved, At, Stage
  <2> QED BY <1>1, <1>2, <2>1, SaveKeepsSnap
<1>7. CASE FinishSave(r) \/ BeginSave(r)
  <2>1. PICK stage \in {"idle", "writing"} : saving' = [saving EXCEPT ![r] = stage]
    BY <1>7 DEF FinishSave, BeginSave, Stage
  <2>2. pc[r] = "window" /\ UNCHANGED <<complete, stored>>
    BY <1>7 DEF FinishSave, BeginSave
  <2> QED BY <1>1, <2>1, <2>2, SaveKeepsSnap
<1> QED BY <1>3, <1>4, <1>5, <1>6, <1>7

(* What was saved in the collecting stage is what the run knows after it.   *)
LEMMA FinishKeepsSnap ==
  ASSUME IInv, SnapInv, NEW r \in Runs, FinishSnapshot(r)
  PROVE  SnapInv'
<1>1. /\ pc[r] = "collect" /\ saving[r] \in {"saved", "notSaved"}
      /\ saving' = [saving EXCEPT ![r] = "idle"]
      /\ complete' = [complete EXCEPT ![r] = FALSE]
      /\ UNCHANGED <<stored, history>>
  BY DEF FinishSnapshot, CollectSnapshot, Stage
<1>2. PICK outcome \in {"saved", "unavailable"} : pc' = [pc EXCEPT ![r] = outcome]
  BY DEF FinishSnapshot, CollectSnapshot, Move
<1>3. /\ pc'[r] = outcome /\ \A q \in Runs : q # r => pc'[q] = pc[q]
      /\ saving'[r] = "idle" /\ \A q \in Runs : q # r => saving'[q] = saving[q]
      /\ \A q \in Runs : q # r => complete'[q] = complete[q]
  BY <1>1, <1>2, SnapTypes
<1>4. /\ outcome = "saved" => r \in stored
      /\ outcome = "unavailable" => r \notin stored
      /\ ~Recorded(r)
  <2>1. /\ ~Recorded(r)
        /\ r \in stored <=> (saving[r] = "saved" /\ complete[r])
    BY <1>1 DEF SnapInv, CollectingStores
  <2>2. /\ outcome = "saved" => complete[r] /\ saving[r] # "notSaved"
        /\ outcome = "unavailable" => ~complete[r] \/ saving[r] = "notSaved"
    BY <1>3 DEF FinishSnapshot, SnapshotFailed, At
  <2> QED BY <1>1, <2>1, <2>2
<1>5. /\ \A kind, about : LogHas(kind, about) <=> LogHas(kind, about)'
      /\ \A q \in Runs : Recorded(q) <=> Recorded(q)'
  BY <1>1, LogHasSame DEF Recorded
<1>6. SavingTyped'
  BY <1>1, <1>3, SnapTypes DEF SavingTyped
<1>7. EarlyHasNone'
  BY <1>1, <1>3, <1>5 DEF SnapInv, EarlyHasNone, Early
<1>8. CollectingStores'
  BY <1>1, <1>3, <1>5 DEF SnapInv, CollectingStores
<1>9. OutcomeIsKnown'
  BY <1>1, <1>3, <1>4, <1>5 DEF SnapInv, OutcomeIsKnown
<1>10. SnapshotEventIsTrue'
  BY <1>1, <1>5 DEF SnapInv, SnapshotEventIsTrue
<1> QED BY <1>6, <1>7, <1>8, <1>9, <1>10 DEF SnapInv

LEMMA ExitKeepsSnap ==
  ASSUME IInv, SnapInv, NEW r \in Runs, CompleteSession(r) \/ RemoveMarker(r) \/ Edit(r)
  PROVE  SnapInv'
<1>1. CASE CompleteSession(r)
  <2>1. /\ pc' = [pc EXCEPT ![r] = "closing"]
        /\ saving' = [saving EXCEPT ![r] = "idle"]
        /\ UNCHANGED <<complete, stored, history>>
    BY <1>1 DEF CompleteSession, CloseWindow, Move, Stage
  <2>2. SameGroup(pc[r], "closing")
    BY DEF SameGroup, Early
  <2>3. /\ saving' \in [Runs -> {"idle", "writing", "replacing", "saved", "notSaved"}]
        /\ saving'[r] = "idle" /\ \A q \in Runs : q # r => saving'[q] = saving[q]
    BY <2>1, SnapTypes
  <2> QED BY <2>1, <2>2, <2>3, SnapTypes, QuietKeepsSnap
<1>2. CASE RemoveMarker(r) \/ Edit(r)
  BY <1>2, StayKeepsSnap DEF RemoveMarker, Edit, vars
<1> QED BY <1>1, <1>2

LEMMA DieKeepsSnap ==
  ASSUME IInv, SnapInv, NEW r \in Runs, Die(r)
  PROVE  SnapInv'
<1>1. /\ pc' = [pc EXCEPT ![r] = "dead"]
      /\ saving' = [saving EXCEPT ![r] = "idle"]
      /\ complete' = [complete EXCEPT ![r] = FALSE]
      /\ UNCHANGED <<stored, history>>
  BY DEF Die, Crash, End, Move, Stage
<1>2. SameGroup(pc[r], "dead")
  BY DEF SameGroup, Early
<1>3. /\ saving' \in [Runs -> {"idle", "writing", "replacing", "saved", "notSaved"}]
      /\ complete' \in [Runs -> BOOLEAN]
      /\ saving'[r] = "idle"
      /\ \A q \in Runs : q # r => saving'[q] = saving[q] /\ complete'[q] = complete[q]
  BY <1>1, SnapTypes
<1> QED BY <1>1, <1>2, <1>3, SnapTypes, QuietKeepsSnap

LEMMA StepKeepsSnap ==
  ASSUME IInv, SnapInv, NEW r \in Runs, RunStep(r)
  PROVE  SnapInv'
<1>1. CASE StartUp(r)
  BY <1>1, LaunchKeepsSnap
<1>2. CASE StartError(r) \/ TransactionError(r)
  BY <1>2, ErrorKeepsSnap
<1>3. CASE Transaction(r)
  <2>1. CASE StoreLog(r)
    BY <1>3, <2>1, StoreKeepsSnap DEF Transaction
  <2>2. CASE ReadLog(r)
    BY <1>3, <2>2, StayKeepsSnap DEF Transaction, ReadLog, guiVars
  <2>3. CASE ~StoreLog(r) /\ ~ReadLog(r)
    BY <1>3, <2>3, MostOfTransactionKeepsSnap DEF Transaction
  <2> QED BY <2>1, <2>2, <2>3
<1>4. CASE FileSteps(r)
  BY <1>4, FilesKeepSnap, FinishKeepsSnap, ExitKeepsSnap DEF FileSteps
<1>5. CASE Edit(r) \/ BeginSave(r)
  BY <1>5, ExitKeepsSnap, FilesKeepSnap
<1>6. CASE Die(r)
  BY <1>6, DieKeepsSnap
<1> QED BY <1>1, <1>2, <1>3, <1>4, <1>5, <1>6 DEF RunStep

LEMMA SnapInitHolds == GuiInit => SnapInv
<1> SUFFICES ASSUME GuiInit PROVE SnapInv
  OBVIOUS
<1>1. /\ \A r \in Runs : pc[r] = "off"
      /\ history = <<>> /\ stored = {}
      /\ saving = [r \in Runs |-> "idle"] /\ complete = [r \in Runs |-> FALSE]
  BY DEF GuiInit, Init
<1>2. \A kind, about : ~LogHas(kind, about)
  <2>1. DOMAIN <<>> = {}
    OBVIOUS
  <2> QED BY <1>1, <2>1 DEF LogHas
<1>3. SavingTyped
  BY <1>1 DEF SavingTyped
<1>4. EarlyHasNone /\ CollectingStores /\ OutcomeIsKnown /\ SnapshotEventIsTrue
  BY <1>1, <1>2 DEF EarlyHasNone, CollectingStores, OutcomeIsKnown, SnapshotEventIsTrue,
                    Recorded
<1> QED BY <1>3, <1>4 DEF SnapInv

LEMMA SnapNext == IInv /\ SnapInv /\ [RunNext]_runVars => SnapInv'
<1> SUFFICES ASSUME IInv, SnapInv, [RunNext]_runVars PROVE SnapInv'
  OBVIOUS
<1>1. CASE UNCHANGED runVars
  BY <1>1, StayKeepsSnap DEF runVars
<1>2. CASE RunNext
  BY <1>2, StepKeepsSnap DEF RunNext
<1> QED BY <1>1, <1>2

(* What the log says about a snapshot is what has happened to it, wherever  *)
(* reading the registry, writing or replacing failed, whoever died in       *)
(* between, and for every number of runs that save theirs at once.          *)
THEOREM SnapshotEventsAreTrue == RunSpec => []SnapshotEventIsTrue
<1>1. SnapInv => SnapshotEventIsTrue
  BY DEF SnapInv
<1> QED BY <1>1, SnapNext, SnapInitHolds, InvHolds, PTL DEF RunSpec

-----------------------------------------------------------------------------
(* The settings.  As long as `kept' is known, at most one run is there, it  *)
(* is the only one with a marker, and it shows what the user has left.      *)

Exiting == {"closing", "ownExit", "logCompleted", "writeCompleted", "remove"}

(* As the user left it, or as the next start has read that.                 *)
AsKept(s) == s \in {kept, Validated(kept)}

AtHome == AsKept(config) \/ (config = Absent /\ kept = Default)

SettingsTyped ==
  /\ config \in Stored \cup {Absent, Damaged}
  /\ kept \in Settings \cup {Nothing}
  /\ inUse \in [Runs -> Stored]
  /\ leaving \in [Runs -> BOOLEAN]
  /\ tried \in [Runs -> SUBSET {"settings", "session", "marker"}]
  /\ markers \subseteq Runs

(* What the run shows, and from which place of its exit on the file has it. *)
CleanRun(r) ==
  /\ Alive(r) /\ pc[r] \notin Exiting => AsKept(inUse[r])
  /\ pc[r] = "window" =>
       saving[r] # "notSaved" /\ (saving[r] = "saved" => AsKept(config))
  /\ pc[r] \in Exiting => leaving[r]
  /\ pc[r] \in Exiting \cup {"done", "failed"} /\ Running(r) => AtHome
  /\ pc[r] = "off" => ~leaving[r]
  /\ "marker" \in tried[r] => pc[r] \in {"done", "failed"}

CleanRuns ==
  /\ \A r, q \in Runs : Running(r) /\ Running(q) => r = q
  /\ \A m \in markers : Running(m)
  /\ \A r \in Runs : CleanRun(r)
  /\ (\A r \in Runs : ~Running(r)) => AtHome

SettingsInv == SettingsTyped /\ (kept # Nothing => CleanRuns)

(* What a start has read, every later one reads the same.                   *)
LEMMA ValidatedOnce ==
  /\ Default \in Settings /\ Validated(Default) = Default
  /\ Settings \subseteq Stored
  /\ \A s \in Stored : Validated(s) \in Stored /\ Validated(Validated(s)) = Validated(s)
  /\ {Absent, Damaged, Nothing} \cap Stored = {}
<1>1. ASSUME NEW s \in Settings PROVE Validated(Validated(s)) = Validated(s)
  <2>1. /\ s.width \in Nat /\ s.height \in Nat
        /\ MinWidth \in Nat /\ MinHeight \in Nat
    BY GuiRunAssumption
  <2>2. /\ Default.width \in Nat /\ Default.height \in Nat
    BY GuiRunAssumption
  <2> QED BY <2>1, <2>2 DEF Validated
<1> QED BY <1>1, GuiRunAssumption DEF Stored

LEMMA RunningIs ==
  ASSUME NEW r \in Runs
  PROVE  /\ Running(r) <=> Alive(r) \/ (leaving[r] /\ "marker" \notin tried[r] /\ pc[r] # "dead")
         /\ Alive(r) => Running(r)
         /\ pc[r] = "window" \/ pc[r] \in Exiting => Alive(r)
BY DEF Running, Alive, Exiting

LEMMA RunningSame ==
  ASSUME NEW r \in Runs, pc'[r] = pc[r], leaving'[r] = leaving[r], tried'[r] = tried[r]
  PROVE  Running(r)' <=> Running(r)
BY DEF Running, Alive

(* The one run that is there goes on. *)
LEMMA CleanStep ==
  ASSUME CleanRuns, NEW r \in Runs, Running(r), Running(r)', CleanRun(r)',
         \A q \in Runs : q # r =>
           /\ pc'[q] = pc[q] /\ saving'[q] = saving[q] /\ leaving'[q] = leaving[q]
           /\ tried'[q] = tried[q] /\ inUse'[q] = inUse[q],
         markers' \subseteq markers \cup {r}, markers \subseteq Runs
  PROVE  CleanRuns'
<1>1. \A q \in Runs : q # r => ~Running(q) /\ ~Running(q)'
  BY RunningSame DEF CleanRuns
<1>2. ASSUME NEW q \in Runs, q # r PROVE CleanRun(q)'
  <2>1. CleanRun(q) /\ ~Running(q) /\ ~Running(q)'
    BY <1>1, <1>2 DEF CleanRuns
  <2>2. ~Alive(q) /\ ~Alive(q)'
    BY <2>1, <1>2 DEF Running, Alive
  <2>3. pc'[q] # "window" /\ pc'[q] \notin Exiting
    BY <2>2 DEF Alive, Exiting
  <2> QED BY <2>1, <2>2, <2>3, <1>2 DEF CleanRun
<1>3. \A m \in markers' : Running(m)'
  BY <1>1 DEF CleanRuns
<1> QED BY <1>1, <1>2, <1>3 DEF CleanRuns

(* The transaction moves the run on, and ends only what is at its exit.     *)
LEMMA TransactionMoves ==
  ASSUME pc \in [Runs -> Outside \cup Inside], NEW r \in Runs, Transaction(r)
  PROVE  \E to :
           /\ pc' = [pc EXCEPT ![r] = to]
           /\ pc[r] \notin {"off", "done", "failed", "dead", "collect", "window"}
           /\ to \notin {"off", "failed", "dead"}
           /\ pc[r] \in Exiting <=> to \in Exiting \cup {"done"}
<1>1. CASE Lock(r)
  <2>1. pc[r] \in DOMAIN Entered /\ pc' = [pc EXCEPT ![r] = Entered[pc[r]]]
    BY <1>1 DEF Lock
  <2>2. /\ pc[r] \notin {"off", "done", "failed", "dead", "collect", "window"}
        /\ Entered[pc[r]] \notin {"off", "failed", "dead"}
        /\ pc[r] \in Exiting <=> Entered[pc[r]] \in Exiting \cup {"done"}
    BY <2>1 DEF Entered, Exiting
  <2> QED BY <2>1, <2>2
<1>2. CASE ReadSession(r)
  <2>1. PICK to \in {"logRecovery", "writeStarting"} :
          pc[r] = "begin" /\ pc' = [pc EXCEPT ![r] = to]
    BY <1>2 DEF ReadSession, Move
  <2> QED BY <2>1 DEF Exiting
<1>3. CASE CheckOwner(r)
  <2>1. PICK to \in {OwnedNext[pc[r]], SupersededNext[pc[r]]} :
          pc[r] \in DOMAIN OwnedNext /\ pc' = [pc EXCEPT ![r] = to]
    BY <1>3 DEF CheckOwner, Move
  <2>2. /\ pc[r] \notin {"off", "done", "failed", "dead", "collect", "window"}
        /\ to \notin {"off", "failed", "dead"}
        /\ pc[r] \in Exiting <=> to \in Exiting \cup {"done"}
    BY <2>1 DEF Exiting, OwnedNext, SupersededNext
  <2> QED BY <2>1, <2>2
<1>4. CASE ReadLog(r)
  <2>1. pc[r] \in DOMAIN EventOf /\ pc' = pc
    BY <1>4 DEF ReadLog
  <2>2. pc' = [pc EXCEPT ![r] = pc[r]]
    BY <2>1
  <2> QED BY <2>1, <2>2 DEF EventOf, Exiting
<1>5. CASE StoreLog(r)
  <2>1. pc[r] \in DOMAIN EventOf /\ pc' = [pc EXCEPT ![r] = AfterEvent[pc[r]]]
    BY <1>5 DEF StoreLog, Move
  <2>2. /\ pc[r] \notin {"off", "done", "failed", "dead", "collect", "window"}
        /\ AfterEvent[pc[r]] \notin {"off", "failed", "dead"}
        /\ pc[r] \in Exiting <=> AfterEvent[pc[r]] \in Exiting \cup {"done"}
    BY <2>1 DEF EventOf, AfterEvent, Exiting
  <2> QED BY <2>1, <2>2
<1>6. CASE WriteSession(r)
  <2>1. pc[r] \in DOMAIN StateOf /\ pc' = [pc EXCEPT ![r] = AfterWrite[pc[r]]]
    BY <1>6 DEF WriteSession, Move
  <2>2. /\ pc[r] \notin {"off", "done", "failed", "dead", "collect", "window"}
        /\ AfterWrite[pc[r]] \notin {"off", "failed", "dead"}
        /\ pc[r] \in Exiting <=> AfterWrite[pc[r]] \in Exiting \cup {"done"}
    BY <2>1 DEF StateOf, AfterWrite, Exiting
  <2> QED BY <2>1, <2>2
<1>7. CASE RemoveSession(r)
  <2>1. pc[r] = "remove" /\ pc' = [pc EXCEPT ![r] = "done"]
    BY <1>7 DEF RemoveSession, Move
  <2> QED BY <2>1 DEF Exiting
<1> QED BY <1>1, <1>2, <1>3, <1>4, <1>5, <1>6, <1>7 DEF Transaction

LEMMA TransactionKeepsSettings ==
  ASSUME IInv, SnapInv, SettingsInv, NEW r \in Runs, Transaction(r)
  PROVE  SettingsInv'
<1>1. UNCHANGED guiVars /\ SettingsTyped'
  BY DEF Transaction, guiVars, SettingsInv, SettingsTyped
<1>2. SUFFICES ASSUME kept # Nothing PROVE CleanRuns'
  BY <1>1 DEF guiVars, SettingsInv
<1>3. CleanRuns /\ SettingsTyped
  BY <1>2 DEF SettingsInv
<1>4. PICK to : /\ pc' = [pc EXCEPT ![r] = to]
                /\ pc[r] \notin {"off", "done", "failed", "dead", "collect", "window"}
                /\ to \notin {"off", "failed", "dead"}
                /\ pc[r] \in Exiting <=> to \in Exiting \cup {"done"}
  BY TransactionMoves, SnapTypes
<1>5. pc'[r] = to /\ \A q \in Runs : q # r => pc'[q] = pc[q]
  BY <1>4, SnapTypes
<1>6. saving[r] = "idle" /\ Running(r) /\ CleanRun(r)
  BY <1>3, <1>4, SnapTypes DEF Running, Alive, CleanRuns
<1>7. "marker" \notin tried[r]
  BY <1>4, <1>6 DEF CleanRun
<1>8. Running(r)'
  BY <1>1, <1>4, <1>5, <1>6, <1>7 DEF Running, Alive, CleanRun, guiVars
<1>9. CleanRun(r)'
  BY <1>1, <1>4, <1>5, <1>6, <1>7, <1>8 DEF CleanRun, Alive, guiVars, AtHome, AsKept
<1> QED BY <1>1, <1>3, <1>5, <1>6, <1>8, <1>9, CleanStep DEF guiVars, SettingsTyped

(* A run starts where no other is, and finds no marker. *)
LEMMA LaunchKeepsSettings ==
  ASSUME IInv, SnapInv, SettingsInv, NEW r \in Runs, StartUp(r)
  PROVE  SettingsInv'
<1>1. /\ pc[r] = "off" /\ pc' = [pc EXCEPT ![r] = "start"]
      /\ inUse' = [inUse EXCEPT ![r] =
                     IF ~FindsMarker(r) /\ config \in Stored THEN Validated(config)
                                                             ELSE Default]
      /\ markers' = {m \in markers : Running(m)} \cup {r}
      /\ kept' = IF \E other \in Runs : Running(other) THEN Nothing ELSE kept
      /\ UNCHANGED <<config, saving, leaving, tried>>
  BY DEF StartUp, Launch, Move
<1>2. SettingsTyped
  BY DEF SettingsInv
<1>3. SettingsTyped'
  <2>1. Default \in Stored /\ (config \in Stored => Validated(config) \in Stored)
    BY ValidatedOnce
  <2> QED BY <1>1, <1>2, <2>1 DEF SettingsTyped
<1>4. SUFFICES ASSUME kept' # Nothing PROVE CleanRuns'
  BY <1>3 DEF SettingsInv
<1>5. /\ kept # Nothing /\ kept' = kept /\ CleanRuns
      /\ \A q \in Runs : ~Running(q)
  BY <1>1, <1>4 DEF SettingsInv
<1>6. markers = {} /\ AtHome
  BY <1>2, <1>5 DEF CleanRuns, SettingsTyped
<1>7. pc'[r] = "start" /\ \A q \in Runs : q # r => pc'[q] = pc[q]
  BY <1>1, SnapTypes
<1>8. AsKept(inUse[r])'
  <2>1. inUse'[r] = IF config \in Stored THEN Validated(config) ELSE Default
    BY <1>1, <1>2, <1>6 DEF FindsMarker, SettingsTyped
  <2>2. kept \in Settings /\ kept' = kept
    BY <1>2, <1>5 DEF SettingsTyped
  <2>3. CASE AsKept(config)
    <3>1. config \in Stored /\ Validated(config) = Validated(kept)
      BY <2>2, <2>3, ValidatedOnce DEF AsKept
    <3> QED BY <2>1, <2>2, <3>1 DEF AsKept
  <2>4. CASE config = Absent /\ kept = Default
    BY <2>1, <2>2, <2>4, ValidatedOnce DEF AsKept
  <2> QED BY <2>3, <2>4, <1>6 DEF AtHome
<1>9. CleanRun(r)'
  BY <1>1, <1>5, <1>7, <1>8 DEF CleanRun, CleanRuns, Exiting
<1>10. \A q \in Runs : q # r => ~Running(q)'
  BY <1>1, <1>5, <1>7, RunningSame
<1>11. Running(r)' /\ markers' = {r}
  BY <1>1, <1>6, <1>7 DEF Running, Alive
<1>12. ASSUME NEW q \in Runs, q # r PROVE CleanRun(q)'
  <2>1. CleanRun(q) /\ ~Running(q) /\ ~Running(q)'
    BY <1>5, <1>10, <1>12 DEF CleanRuns
  <2>2. ~Alive(q) /\ ~Alive(q)' /\ pc'[q] # "window" /\ pc'[q] \notin Exiting
    BY <2>1, <1>7, <1>12 DEF Running, Alive, Exiting
  <2> QED BY <2>1, <2>2, <1>1, <1>7, <1>12 DEF CleanRun
<1> QED BY <1>9, <1>10, <1>11, <1>12 DEF CleanRuns

(* One that fails before it has a marker changes nothing; any other error,  *)
(* and a death, end what is promised.                                       *)
LEMMA ErrorKeepsSettings ==
  ASSUME IInv, SnapInv, SettingsInv, NEW r \in Runs,
         StartError(r) \/ TransactionError(r) \/ Die(r)
  PROVE  SettingsInv'
<1>1. CASE TransactionError(r) \/ Die(r)
  <2>1. /\ kept' = Nothing /\ inUse' = [inUse EXCEPT ![r] = Default]
        /\ config' \in {config, Absent} /\ UNCHANGED markers
        /\ leaving' = leaving \/ leaving' = [leaving EXCEPT ![r] = FALSE]
        /\ tried' = tried \/ tried' = [tried EXCEPT ![r] = {}]
    BY <1>1 DEF TransactionError, ReadError, Ends, Forget, Die, OrLost
  <2>2. SettingsTyped'
    BY <2>1, ValidatedOnce DEF SettingsInv, SettingsTyped
  <2> QED BY <2>1, <2>2 DEF SettingsInv
<1>2. CASE StartError(r)
  <2>1. /\ pc[r] = "off" /\ pc' = [pc EXCEPT ![r] = "failed"]
        /\ UNCHANGED <<config, markers, inUse, saving, leaving, tried, kept>>
    BY <1>2 DEF StartError, Fail, End, Move, guiVars
  <2>2. pc'[r] = "failed" /\ \A q \in Runs : q # r => pc'[q] = pc[q]
    BY <2>1, SnapTypes
  <2>3. SettingsTyped'
    BY <2>1 DEF SettingsInv, SettingsTyped
  <2>4. ASSUME kept # Nothing PROVE CleanRuns'
    <3>1. CleanRuns /\ CleanRun(r)
      BY <2>4 DEF SettingsInv, CleanRuns
    <3>2. ~Running(r) /\ ~Running(r)'
      BY <3>1, <2>1, <2>2 DEF CleanRun, Running, Alive
    <3>3. \A q \in Runs : Running(q)' <=> Running(q)
      BY <3>2, <2>1, <2>2, RunningSame
    <3>4. CleanRun(r)'
      BY <3>1, <3>2, <2>1, <2>2 DEF CleanRun, Alive, Exiting, AsKept
    <3>5. ASSUME NEW q \in Runs, q # r PROVE CleanRun(q)'
      BY <3>1, <3>3, <3>5, <2>1, <2>2 DEF CleanRuns, CleanRun, Alive, AtHome, AsKept
    <3>6. markers \subseteq Runs
      BY DEF SettingsInv, SettingsTyped
    <3> QED BY <3>1, <3>3, <3>4, <3>5, <3>6, <2>1 DEF CleanRuns, AtHome, AsKept
  <2> QED BY <2>1, <2>3, <2>4 DEF SettingsInv
<1> QED BY <1>1, <1>2

(* Reading, editing and saving.  What a window has saved is what it shows,  *)
(* because it is not edited while it saves.                                 *)
LEMMA SaveKeepsSettings ==
  ASSUME IInv, SnapInv, SettingsInv, NEW r \in Runs,
         \/ ReadRegistry(r) \/ WriteTemporary(r) \/ Replace(r) \/ ReplaceFails(r)
         \/ FinishSave(r) \/ Edit(r) \/ BeginSave(r)
  PROVE  SettingsInv'
<1>1. /\ UNCHANGED <<pc, markers, tried>>
      /\ pc[r] \in {"collect", "window"}
  <2>1. CASE ReadRegistry(r) \/ FinishSave(r) \/ Edit(r) \/ BeginSave(r)
    BY <2>1 DEF ReadRegistry, FinishSave, Edit, BeginSave, vars
  <2>2. CASE WriteTemporary(r) \/ Replace(r) \/ ReplaceFails(r)
    <3>1. saving[r] # "idle"
      BY <2>2 DEF WriteTemporary, Replace, ReplaceFails, At
    <3> QED BY <2>2, <3>1, SnapTypes DEF WriteTemporary, NotSaved, Replace, ReplaceFails, vars
  <2> QED BY <2>1, <2>2
<1>2. /\ \E stage \in {"idle", "writing", "replacing", "saved", "notSaved"} :
           saving' = [saving EXCEPT ![r] = stage]
      /\ \A q \in Runs : q # r => saving'[q] = saving[q]
  BY SnapTypes
     DEF ReadRegistry, WriteTemporary, NotSaved, Replace, ReplaceFails, FinishSave, Edit,
         BeginSave, Stage
<1>3. /\ inUse' \in [Runs -> Stored] /\ leaving' \in [Runs -> BOOLEAN]
      /\ \A q \in Runs : q # r => inUse'[q] = inUse[q] /\ leaving'[q] = leaving[q]
  BY ValidatedOnce
     DEF ReadRegistry, WriteTemporary, NotSaved, Replace, ReplaceFails, FinishSave, Edit,
         BeginSave, SettingsInv, SettingsTyped
<1>4. config' \in Stored \cup {Absent, Damaged} /\ kept' \in Settings \cup {Nothing}
  BY DEF ReadRegistry, WriteTemporary, NotSaved, Replace, ReplaceFails, OrLost, FinishSave,
         Edit, BeginSave, SettingsInv, SettingsTyped
<1>5. SettingsTyped'
  BY <1>1, <1>3, <1>4 DEF SettingsInv, SettingsTyped
<1>6. SUFFICES ASSUME kept' # Nothing PROVE CleanRuns'
  BY <1>5 DEF SettingsInv
<1>7. kept # Nothing
  BY <1>6 DEF ReadRegistry, WriteTemporary, NotSaved, Replace, ReplaceFails, FinishSave, Edit,
              BeginSave
<1>8. CleanRuns /\ CleanRun(r) /\ SettingsTyped /\ Running(r) /\ Running(r)'
  BY <1>1, <1>7 DEF SettingsInv, CleanRuns, Running, Alive
<1>9. AsKept(inUse[r]) /\ "marker" \notin tried[r] /\ pc[r] # "off" /\ pc[r] \notin Exiting
  BY <1>1, <1>8 DEF CleanRun, Alive, Exiting
<1>10. AsKept(inUse[r])'
  BY <1>7, <1>8, <1>9, <1>6
     DEF ReadRegistry, WriteTemporary, NotSaved, Replace, ReplaceFails, FinishSave, Edit,
         BeginSave, SettingsTyped, AsKept
<1>11. pc[r] = "window" =>
         saving'[r] # "notSaved" /\ (saving'[r] = "saved" => AsKept(config)')
  <2>1. CASE ReadRegistry(r) \/ FinishSave(r) \/ BeginSave(r)
    BY <2>1, SnapTypes DEF ReadRegistry, FinishSave, BeginSave, Stage
  <2>2. CASE Edit(r)
    BY <2>2 DEF Edit, At
  <2>3. CASE WriteTemporary(r)
    BY <2>3, <1>6, SnapTypes DEF WriteTemporary, NotSaved, OfSettings, Stage
  <2>4. CASE Replace(r)
    BY <2>4, <1>9, SnapTypes DEF Replace, OfSettings, Stage, AsKept
  <2>5. CASE ReplaceFails(r)
    BY <2>5, <1>6 DEF ReplaceFails, NotSaved, OfSettings
  <2> QED BY <2>1, <2>2, <2>3, <2>4, <2>5
<1>12. CleanRun(r)'
  <2>1. pc'[r] = pc[r] /\ tried' = tried /\ pc[r] \notin {"done", "failed"}
    BY <1>1
  <2> QED BY <2>1, <1>9, <1>10, <1>11 DEF CleanRun
<1> QED BY <1>1, <1>2, <1>3, <1>8, <1>12, CleanStep DEF SettingsTyped

LEMMA FinishKeepsSettings ==
  ASSUME IInv, SnapInv, SettingsInv, NEW r \in Runs,
         FinishSnapshot(r) \/ CompleteSession(r)
  PROVE  SettingsInv'
<1>1. PICK to : /\ pc' = [pc EXCEPT ![r] = to]
                /\ \/ /\ pc[r] = "collect" /\ to \in {"saved", "unavailable"}
                      /\ UNCHANGED <<inUse, tried>>
                   \/ /\ pc[r] = "window" /\ to = "closing" /\ leaving[r]
                      /\ saving[r] \in {"saved", "notSaved"}
                      /\ inUse' = [inUse EXCEPT ![r] = Default]
                      /\ tried' = [tried EXCEPT ![r] = @ \cup {"settings", "session"}]
                /\ saving' = [saving EXCEPT ![r] = "idle"]
                /\ UNCHANGED <<config, markers, leaving, kept>>
  <2>1. CASE FinishSnapshot(r)
    BY <2>1 DEF FinishSnapshot, CollectSnapshot, Move, Stage
  <2>2. CASE CompleteSession(r)
    BY <2>2 DEF CompleteSession, CloseWindow, Move, Stage, Forget
  <2> QED BY <2>1, <2>2
<1>2. SettingsTyped'
  BY <1>1, ValidatedOnce DEF SettingsInv, SettingsTyped
<1>3. SUFFICES ASSUME kept # Nothing PROVE CleanRuns'
  BY <1>1, <1>2 DEF SettingsInv
<1>4. CleanRuns /\ CleanRun(r) /\ SettingsTyped
  BY <1>3 DEF SettingsInv, CleanRuns
<1>5. pc'[r] = to /\ \A q \in Runs : q # r => pc'[q] = pc[q]
  BY <1>1, SnapTypes
<1>6. Running(r) /\ Running(r)' /\ "marker" \notin tried[r]
  BY <1>1, <1>4, <1>5 DEF Running, Alive, CleanRun
<1>7. \A q \in Runs : q # r =>
        /\ saving'[q] = saving[q] /\ leaving'[q] = leaving[q]
        /\ tried'[q] = tried[q] /\ inUse'[q] = inUse[q]
  BY <1>1, <1>4, SnapTypes DEF SettingsTyped
<1>8. "marker" \notin tried'[r]
  BY <1>1, <1>4, <1>6 DEF SettingsTyped
<1>9. CleanRun(r)'
  <2>1. CASE pc[r] = "collect"
    BY <2>1, <1>1, <1>4, <1>5, <1>8 DEF CleanRun, Alive, Exiting, AsKept
  <2>2. CASE pc[r] = "window"
    <3>1. to = "closing" /\ leaving'[r] /\ AtHome'
      BY <2>2, <1>1, <1>4 DEF CleanRun, AtHome, AsKept
    <3> QED BY <3>1, <1>5, <1>8 DEF CleanRun, Exiting
  <2> QED BY <1>1, <2>1, <2>2
<1> QED BY <1>1, <1>4, <1>5, <1>6, <1>7, <1>9, CleanStep DEF SettingsTyped

(* The run is over, and what it has left is the user's. *)
LEMMA RemoveMarkerKeepsSettings ==
  ASSUME IInv, SnapInv, SettingsInv, NEW r \in Runs, RemoveMarker(r)
  PROVE  SettingsInv'
<1>1. /\ leaving[r] /\ pc[r] \in {"done", "failed"} /\ "marker" \notin tried[r]
      /\ \/ markers' = markers \ {r} /\ kept' = kept
         \/ markers' = markers /\ kept' = Nothing
      /\ tried' = [tried EXCEPT ![r] = @ \cup {"marker"}]
      /\ UNCHANGED <<pc, config, inUse, saving, leaving>>
  BY DEF RemoveMarker, vars
<1>2. SettingsTyped'
  BY <1>1 DEF SettingsInv, SettingsTyped
<1>3. SUFFICES ASSUME kept' # Nothing PROVE CleanRuns'
  BY <1>2 DEF SettingsInv
<1>4. markers' = markers \ {r} /\ kept' = kept
  BY <1>1, <1>3
<1>5. CleanRuns /\ CleanRun(r) /\ SettingsTyped
  BY <1>3, <1>4 DEF SettingsInv, CleanRuns
<1>6. Running(r) /\ AtHome
  BY <1>1, <1>5 DEF Running, CleanRun
<1>7. "marker" \in tried'[r] /\ \A q \in Runs : q # r => tried'[q] = tried[q]
  BY <1>1, <1>5 DEF SettingsTyped
<1>8. ~Running(r)'
  BY <1>1, <1>7 DEF Running, Alive
<1>9. \A q \in Runs : q # r => (Running(q)' <=> Running(q)) /\ ~Running(q)
  BY <1>1, <1>5, <1>6, <1>7, RunningSame DEF CleanRuns
<1>10. markers' = {}
  BY <1>4, <1>5, <1>9 DEF CleanRuns, SettingsTyped
<1>11. CleanRun(r)'
  BY <1>1, <1>4, <1>5, <1>8 DEF CleanRun, Alive, Exiting
<1>12. ASSUME NEW q \in Runs, q # r PROVE CleanRun(q)'
  BY <1>1, <1>4, <1>5, <1>7, <1>9, <1>12 DEF CleanRuns, CleanRun, Alive, AtHome, AsKept
<1>13. AtHome'
  BY <1>1, <1>4, <1>6 DEF AtHome, AsKept
<1> QED BY <1>8, <1>9, <1>10, <1>11, <1>12, <1>13 DEF CleanRuns

LEMMA StepKeepsSettings ==
  ASSUME IInv, SnapInv, SettingsInv, NEW r \in Runs, RunStep(r)
  PROVE  SettingsInv'
<1>1. CASE StartUp(r)
  BY <1>1, LaunchKeepsSettings
<1>2. CASE StartError(r) \/ TransactionError(r) \/ Die(r)
  BY <1>2, ErrorKeepsSettings
<1>3. CASE Transaction(r)
  BY <1>3, TransactionKeepsSettings
<1>4. CASE FileSteps(r)
  BY <1>4, SaveKeepsSettings, FinishKeepsSettings, RemoveMarkerKeepsSettings DEF FileSteps
<1>5. CASE Edit(r) \/ BeginSave(r)
  BY <1>5, SaveKeepsSettings
<1> QED BY <1>1, <1>2, <1>3, <1>4, <1>5 DEF RunStep

LEMMA SettingsInit == GuiInit => SettingsInv
<1> SUFFICES ASSUME GuiInit PROVE SettingsInv
  OBVIOUS
<1>1. /\ \A r \in Runs : pc[r] = "off" /\ ~leaving[r] /\ tried[r] = {}
      /\ markers = {} /\ config \in Settings \cup {Absent, Damaged}
      /\ inUse = [r \in Runs |-> Default] /\ leaving = [r \in Runs |-> FALSE]
      /\ tried = [r \in Runs |-> {}]
  BY DEF GuiInit, Init
<1>2. kept \in Settings \cup {Nothing} /\ (kept # Nothing => AtHome)
  <2>1. Default \in Settings /\ Absent \notin Settings /\ Damaged \notin Settings
    BY ValidatedOnce
  <2>2. CASE config = Absent
    BY <2>1, <2>2 DEF GuiInit, AtHome
  <2>3. CASE config = Damaged
    BY <2>1, <2>3, ShellRecoveryAssumption DEF GuiInit
  <2>4. CASE config \in Settings
    BY <2>1, <2>4 DEF GuiInit, AtHome, AsKept
  <2> QED BY <1>1, <2>2, <2>3, <2>4
<1>3. SettingsTyped
  BY <1>1, <1>2, ValidatedOnce DEF SettingsTyped
<1>4. \A r \in Runs : ~Running(r) /\ CleanRun(r)
  BY <1>1 DEF Running, Alive, CleanRun, Exiting
<1> QED BY <1>1, <1>2, <1>3, <1>4 DEF SettingsInv, CleanRuns

(* What the user has chosen survives runs that end as they should, for      *)
(* every number of runs and every sequence of edits, saves and exits, but   *)
(* for a dimension below the minimum, which the next start resets.          *)
THEOREM SettingsSurvive == RunSpec => []SettingsSurviveCleanRuns
<1>1. IInv /\ SnapInv /\ [RunNext]_runVars => SnapInv'
  BY SnapNext
<1>2. IInv /\ SnapInv /\ SettingsInv /\ [RunNext]_runVars => SettingsInv'
  <2> SUFFICES ASSUME IInv, SnapInv, SettingsInv, [RunNext]_runVars PROVE SettingsInv'
    OBVIOUS
  <2>1. CASE UNCHANGED runVars
    BY <2>1 DEF runVars, SettingsInv, SettingsTyped, CleanRuns, CleanRun, Running, Alive, AtHome,
                  AsKept
  <2>2. CASE RunNext
    BY <2>2, StepKeepsSettings DEF RunNext
  <2> QED BY <2>1, <2>2
<1>3. SettingsInv => SettingsSurviveCleanRuns
  <2> SUFFICES ASSUME SettingsInv, kept # Nothing
               PROVE  /\ \A r \in Runs : pc[r] = "window" =>
                                            inUse[r] \in {kept, Validated(kept)}
                      /\ (\A r \in Runs : ~Running(r)) =>
                           \/ config \in {kept, Validated(kept)}
                           \/ config = Absent /\ kept = Default
    BY DEF SettingsSurviveCleanRuns
  <2> QED BY DEF SettingsInv, CleanRuns, CleanRun, Alive, Exiting, AtHome, AsKept
<1> QED BY <1>1, <1>2, <1>3, SnapInitHolds, SettingsInit, InvHolds, PTL DEF RunSpec
=============================================================================
