-------------------------- MODULE RateLimiterProofs --------------------------
(***************************************************************************)
(* The sliding window of RateLimiter for any number of callers, any window *)
(* and any clock.  The queue of a caller is always a suffix of everything  *)
(* it was granted since it was last evicted, and what the queue has lost   *)
(* of that has left the window.  The order lists the table, so that each   *)
(* eviction frees a place, and every verdict is the one of a limiter that  *)
(* forgets nothing.  With a place in the table for every caller, nobody is *)
(* ever evicted.                                                           *)
(***************************************************************************)
EXTENDS RateLimiter, FiniteSetTheorems, WellFoundedInduction, TLAPS

(* The queue the table holds for a caller, empty when it is not in it. *)
Queue(s) == IF s \in DOMAIN requests THEN requests[s] ELSE <<>>

IsSuffix(queue, all) ==
  /\ Len(queue) <= Len(all)
  /\ \A i \in 1..Len(queue) : queue[i] = all[Len(all) - Len(queue) + i]

Chronological(all) ==
  /\ \A i \in 1..Len(all) : all[i] <= now
  /\ \A i, j \in 1..Len(all) : i <= j => all[i] <= all[j]

(* Whatever is no longer in the queue is out of the window. *)
OnlyExpiredLost(queue, all) ==
  \A i \in 1..(Len(all) - Len(queue)) : Expired(all[i])

(* The queue is the newest part of the history, which is in order. *)
HistoryInv ==
  /\ TableTypeOK
  /\ \A s \in Subjects : /\ IsSuffix(Queue(s), granted[s])
                         /\ Chronological(granted[s])

(* What is added to it for the promise of the window. *)
WindowInv ==
  /\ HistoryInv
  /\ \A s \in Subjects : OnlyExpiredLost(Queue(s), granted[s])
  /\ WindowBound

-----------------------------------------------------------------------------
(* A non-empty set of numbers has a least element. *)
LEMMA LeastNat ==
  ASSUME NEW T, T \subseteq Nat, T # {}
  PROVE  \E x \in T : \A y \in T : x <= y
<1>1. PICK x \in T : \A y \in T : ~(<<y, x>> \in OpToRel(<, Nat))
  BY NatLessThanWellFounded, WFMin
<1>2. \A y \in T : ~(y < x)
  BY <1>1 DEF OpToRel
<1>3. \A y \in T : x <= y
  BY <1>2
<1> QED
  BY <1>3

(* The front of a queue that clear_expired drops is well defined. *)
LEMMA FirstLiveExists ==
  ASSUME NEW queue \in Seq(Nat), now \in Nat
  PROVE  /\ FirstLive(queue) \in 1..(Len(queue) + 1)
         /\ \A j \in 1..(FirstLive(queue) - 1) : Expired(queue[j])
         /\ FirstLive(queue) <= Len(queue) => ~Expired(queue[FirstLive(queue)])
<1> DEFINE T == {i \in 1..(Len(queue) + 1) :
                   i <= Len(queue) => ~Expired(queue[i])}
<1>1. Len(queue) \in Nat
  OBVIOUS
<1>2. T \subseteq Nat /\ Len(queue) + 1 \in T
  BY <1>1
<1>3. PICK x \in T : \A y \in T : x <= y
  <2> HIDE DEF T
  <2> QED BY <1>2, LeastNat
<1>4. \A j \in 1..(x - 1) : Expired(queue[j])
  BY <1>1, <1>3
<1>5. \E i \in 1..(Len(queue) + 1) :
        /\ \A j \in 1..(i - 1) : Expired(queue[j])
        /\ i <= Len(queue) => ~Expired(queue[i])
  BY <1>3, <1>4
<1> QED
  BY <1>5 DEF FirstLive

(* What is left of a queue is a suffix of it that starts in the window, and *)
(* everything before that has left the window.                              *)
LEMMA DropExpiredSuffix ==
  ASSUME NEW queue \in Seq(Nat), now \in Nat
  PROVE  /\ DropExpired(queue) \in Seq(Nat)
         /\ IsSuffix(DropExpired(queue), queue)
         /\ OnlyExpiredLost(DropExpired(queue), queue)
         /\ Len(DropExpired(queue)) > 0 => ~Expired(DropExpired(queue)[1])
<1> DEFINE f == FirstLive(queue)
<1>1. /\ f \in 1..(Len(queue) + 1)
      /\ \A j \in 1..(f - 1) : Expired(queue[j])
      /\ f <= Len(queue) => ~Expired(queue[f])
  BY FirstLiveExists
<1> HIDE DEF f
<1>2. Len(queue) \in Nat /\ f \in Nat
  BY <1>1
<1>3. DropExpired(queue) = SubSeq(queue, f, Len(queue))
  BY DEF DropExpired, f
<1>4. /\ DropExpired(queue) \in Seq(Nat)
      /\ Len(DropExpired(queue)) = Len(queue) - f + 1
      /\ \A i \in 1..(Len(queue) - f + 1) : DropExpired(queue)[i] = queue[f + i - 1]
  BY <1>1, <1>2, <1>3
<1>5. IsSuffix(DropExpired(queue), queue)
  <2>1. \A i \in 1..Len(DropExpired(queue)) :
          Len(queue) - Len(DropExpired(queue)) + i = f + i - 1
    BY <1>2, <1>4
  <2>2. Len(DropExpired(queue)) <= Len(queue)
    BY <1>1, <1>2, <1>4
  <2> QED
    BY <1>2, <1>4, <2>1, <2>2 DEF IsSuffix
<1>6. OnlyExpiredLost(DropExpired(queue), queue)
  BY <1>1, <1>2, <1>4 DEF OnlyExpiredLost
<1>7. ASSUME Len(DropExpired(queue)) > 0
      PROVE  ~Expired(DropExpired(queue)[1])
  BY <1>1, <1>2, <1>4, <1>7
<1> QED
  BY <1>4, <1>5, <1>6, <1>7

-----------------------------------------------------------------------------
(* The queue allow_at works on, of a caller in the table or not. *)
LEMMA QueueOfSuffix ==
  ASSUME TableTypeOK, NEW s \in Subjects
  PROVE  /\ Queue(s) \in Seq(Nat)
         /\ QueueOf(s) \in Seq(Nat)
         /\ IsSuffix(QueueOf(s), Queue(s))
         /\ OnlyExpiredLost(QueueOf(s), Queue(s))
         /\ Len(QueueOf(s)) > 0 => ~Expired(QueueOf(s)[1])
<1>1. now \in Nat /\ <<>> \in Seq(Nat) /\ Queue(s) \in Seq(Nat)
  BY DEF TableTypeOK, Queue
<1>2. CASE s \in DOMAIN ClearedRequests
  <2>1. s \in DOMAIN requests /\ QueueOf(s) = DropExpired(Queue(s))
    BY <1>2 DEF QueueOf, ClearedRequests, Queue
  <2> QED
    BY <1>1, <2>1, DropExpiredSuffix
<1>3. CASE s \in DOMAIN requests \ DOMAIN ClearedRequests
  <2>1. DropExpired(Queue(s)) = <<>> /\ QueueOf(s) = <<>>
    BY <1>3 DEF QueueOf, ClearedRequests, Queue
  <2> QED
    BY <1>1, <2>1, DropExpiredSuffix
<1>4. CASE s \notin DOMAIN requests
  <2>1. Queue(s) = <<>> /\ QueueOf(s) = <<>>
    BY <1>4 DEF QueueOf, ClearedRequests, Queue
  <2> QED
    BY <1>1, <2>1 DEF IsSuffix, OnlyExpiredLost
<1> QED
  BY <1>2, <1>3, <1>4

(* Suffixes compose, and so do the losses that led to them. *)
LEMMA SuffixTransitive ==
  ASSUME NEW a \in Seq(Nat), NEW b \in Seq(Nat), NEW c \in Seq(Nat),
         IsSuffix(a, b), IsSuffix(b, c)
  PROVE  /\ IsSuffix(a, c)
         /\ OnlyExpiredLost(a, b) /\ OnlyExpiredLost(b, c)
              => OnlyExpiredLost(a, c)
<1>1. Len(a) \in Nat /\ Len(b) \in Nat /\ Len(c) \in Nat
  OBVIOUS
<1>2. /\ Len(a) <= Len(b)
      /\ Len(b) <= Len(c)
      /\ \A i \in 1..Len(a) : a[i] = b[Len(b) - Len(a) + i]
      /\ \A i \in 1..Len(b) : b[i] = c[Len(c) - Len(b) + i]
  BY DEF IsSuffix
<1>3. \A i \in 1..Len(a) : a[i] = c[Len(c) - Len(a) + i]
  <2> TAKE i \in 1..Len(a)
  <2>1. Len(b) - Len(a) + i \in 1..Len(b)
    BY <1>1, <1>2
  <2>2. Len(c) - Len(b) + (Len(b) - Len(a) + i) = Len(c) - Len(a) + i
    BY <1>1
  <2> QED
    BY <1>2, <2>1, <2>2
<1>4. IsSuffix(a, c)
  BY <1>1, <1>2, <1>3 DEF IsSuffix
<1>5. ASSUME OnlyExpiredLost(a, b), OnlyExpiredLost(b, c)
      PROVE  OnlyExpiredLost(a, c)
  <2> SUFFICES ASSUME NEW i \in 1..(Len(c) - Len(a))
               PROVE  Expired(c[i])
    BY DEF OnlyExpiredLost
  <2>1. CASE i <= Len(c) - Len(b)
    BY <1>1, <1>2, <1>5, <2>1 DEF OnlyExpiredLost
  <2>2. CASE i > Len(c) - Len(b)
    <3> DEFINE j == i - (Len(c) - Len(b))
    <3>1. j \in 1..Len(b) /\ j \in 1..(Len(b) - Len(a))
      BY <1>1, <1>2, <2>2
    <3>2. Len(c) - Len(b) + j = i
      BY <1>1
    <3>3. Expired(b[j])
      BY <1>5, <3>1 DEF OnlyExpiredLost
    <3> QED
      BY <1>2, <3>1, <3>2, <3>3
  <2> QED
    BY <1>1, <2>1, <2>2
<1> QED
  BY <1>4, <1>5

-----------------------------------------------------------------------------
(* What a request leaves in the queue of every caller. *)
LEMMA AllowQueues ==
  ASSUME TableTypeOK, NEW s \in Subjects, Allow(s), NEW x \in Subjects
  PROVE  Queue(x)' = IF x = s
                       THEN IF Admits(s) THEN Append(QueueOf(s), now)
                                         ELSE QueueOf(s)
                       ELSE IF x \in Evicted(s) THEN <<>> ELSE QueueOf(x)
BY DEF Allow, Queue, QueueOf

(* The types of the table and the history are preserved. *)
LEMMA TableTypeStep ==
  TableTypeOK /\ [Next]_vars => TableTypeOK'
<1> SUFFICES ASSUME TableTypeOK, [Next]_vars
             PROVE  TableTypeOK'
  OBVIOUS
<1>1. CASE Tick
  BY <1>1 DEF Tick, TableTypeOK
<1>2. ASSUME NEW s \in Subjects, Allow(s)
      PROVE  TableTypeOK'
  <2> DEFINE queue == IF Admits(s) THEN Append(QueueOf(s), now) ELSE QueueOf(s)
             keep == (DOMAIN ClearedRequests \ Evicted(s)) \cup {s}
  <2>1. now \in Nat /\ queue \in Seq(Nat)
    BY QueueOfSuffix DEF TableTypeOK
  <2>2. \A x \in DOMAIN ClearedRequests :
          x \in Subjects /\ ClearedRequests[x] \in Seq(Nat)
    <3> TAKE x \in DOMAIN ClearedRequests
    <3>1. x \in Subjects
      BY DEF ClearedRequests, TableTypeOK
    <3>2. ClearedRequests[x] = QueueOf(x)
      BY DEF QueueOf
    <3> QED
      BY <3>1, <3>2, QueueOfSuffix
  <2>3. requests' = [x \in keep |-> IF x = s THEN queue ELSE ClearedRequests[x]]
    BY <1>2 DEF Allow
  <2>4. /\ DOMAIN requests' = keep
        /\ keep \subseteq Subjects
        /\ requests' \in [keep -> Seq(Nat)]
    <3> HIDE DEF queue
    <3> QED
      BY <2>1, <2>2, <2>3
  <2>5. now' \in Nat
    BY <1>2, <2>1 DEF Allow
  <2>6. granted' \in [Subjects -> Seq(Nat)]
    <3>1. granted' = [x \in Subjects |->
                        IF x = s THEN IF Admits(s) THEN Append(granted[x], now)
                                                   ELSE granted[x]
                        ELSE IF x \in Evicted(s) THEN <<>> ELSE granted[x]]
      BY <1>2 DEF Allow
    <3>2. \A x \in Subjects : /\ granted[x] \in Seq(Nat)
                             /\ Append(granted[x], now) \in Seq(Nat)
      BY <2>1 DEF TableTypeOK
    <3>3. <<>> \in Seq(Nat)
      OBVIOUS
    <3> QED
      BY <3>1, <3>2, <3>3
  <2> QED
    BY <2>4, <2>5, <2>6 DEF TableTypeOK
<1>3. CASE UNCHANGED vars
  BY <1>3 DEF vars, TableTypeOK
<1> QED
  BY <1>1, <1>2, <1>3 DEF Next

(* A grant extends a queue and the history it is a suffix of alike. *)
LEMMA GrantKeepsSuffix ==
  ASSUME NEW q \in Seq(Nat), NEW g \in Seq(Nat), NEW t \in Nat,
         IsSuffix(q, g)
  PROVE  IsSuffix(Append(q, t), Append(g, t))
<1> DEFINE aq == Append(q, t)
           ag == Append(g, t)
<1>1. /\ Len(q) \in Nat /\ Len(g) \in Nat
      /\ Len(aq) = Len(q) + 1 /\ Len(ag) = Len(g) + 1
      /\ Len(q) <= Len(g)
      /\ \A i \in 1..Len(q) : q[i] = g[Len(g) - Len(q) + i]
  BY DEF IsSuffix
<1>2. ASSUME NEW i \in 1..Len(aq)
      PROVE  aq[i] = ag[Len(ag) - Len(aq) + i]
  <2>1. CASE i = Len(q) + 1
    <3>1. Len(ag) - Len(aq) + i = Len(g) + 1
      BY <1>1, <2>1
    <3>2. aq[Len(q) + 1] = t /\ ag[Len(g) + 1] = t
      OBVIOUS
    <3> QED
      BY <3>1, <3>2, <2>1
  <2>2. CASE i \in 1..Len(q)
    <3>1. Len(ag) - Len(aq) + i = Len(g) - Len(q) + i
      BY <1>1
    <3>2. Len(g) - Len(q) + i \in 1..Len(g)
      BY <1>1, <2>2
    <3>3. aq[i] = q[i]
      BY <2>2
    <3>4. ag[Len(g) - Len(q) + i] = g[Len(g) - Len(q) + i]
      BY <3>2
    <3> QED
      BY <1>1, <2>2, <3>1, <3>3, <3>4
  <2>3. i = Len(q) + 1 \/ i \in 1..Len(q)
    BY <1>1
  <2> QED
    BY <2>1, <2>2, <2>3
<1>3. IsSuffix(aq, ag)
  <2> HIDE DEF aq, ag
  <2> QED
    BY <1>1, <1>2 DEF IsSuffix
<1> QED
  BY <1>3

LEMMA GrantKeepsOrder ==
  ASSUME NEW g \in Seq(Nat), now \in Nat, Chronological(g)
  PROVE  Chronological(Append(g, now))
<1>1. /\ Len(g) \in Nat
      /\ Len(Append(g, now)) = Len(g) + 1
      /\ \A i \in 1..Len(g) : Append(g, now)[i] = g[i] /\ g[i] \in Nat
      /\ Append(g, now)[Len(g) + 1] = now
  OBVIOUS
<1> QED
  BY <1>1 DEF Chronological

(* Every queue stays a suffix of the chronological history of its caller,   *)
(* also when the caller is evicted and starts again with an empty one.      *)
LEMMA HistoryStep ==
  HistoryInv /\ [Next]_vars => HistoryInv'
<1> SUFFICES ASSUME HistoryInv, [Next]_vars
             PROVE  HistoryInv'
  OBVIOUS
<1>1. TableTypeOK /\ TableTypeOK'
  BY TableTypeStep DEF HistoryInv
<1> SUFFICES ASSUME NEW x \in Subjects
             PROVE  IsSuffix(Queue(x), granted[x])' /\ Chronological(granted[x])'
  BY <1>1 DEF HistoryInv
<1>2. /\ IsSuffix(Queue(x), granted[x])
      /\ Chronological(granted[x])
      /\ now \in Nat /\ granted[x] \in Seq(Nat)
  BY <1>1 DEF HistoryInv, TableTypeOK
<1>3. CASE Tick
  <2>1. now' = now + 1 /\ Queue(x)' = Queue(x) /\ granted'[x] = granted[x]
    BY <1>3 DEF Tick, Queue
  <2>2. \A i \in 1..Len(granted[x]) : granted[x][i] \in Nat
    BY <1>2
  <2>3. Chronological(granted[x])'
    BY <1>2, <2>1, <2>2 DEF Chronological
  <2> QED
    BY <1>2, <2>1, <2>3 DEF IsSuffix
<1>4. ASSUME NEW s \in Subjects, Allow(s)
      PROVE  IsSuffix(Queue(x), granted[x])' /\ Chronological(granted[x])'
  <2>1. /\ Queue(x) \in Seq(Nat) /\ QueueOf(x) \in Seq(Nat)
        /\ IsSuffix(QueueOf(x), granted[x])
    BY <1>1, <1>2, QueueOfSuffix, SuffixTransitive
  <2>2. now' = now
    BY <1>4 DEF Allow
  <2>3. CASE x = s /\ Admits(s)
    <3>1. granted'[x] = Append(granted[x], now)
      BY <1>1, <1>4, <2>3 DEF Allow, TableTypeOK
    <3>2. Queue(x)' = Append(QueueOf(x), now)
      BY <1>1, <1>4, <2>3, AllowQueues
    <3>3. IsSuffix(Append(QueueOf(x), now), Append(granted[x], now))
      BY <1>2, <2>1, GrantKeepsSuffix
    <3>4. Chronological(Append(granted[x], now))
      BY <1>2, GrantKeepsOrder
    <3> QED
      BY <2>2, <3>1, <3>2, <3>3, <3>4 DEF IsSuffix, Chronological
  <2>4. CASE x # s /\ x \in Evicted(s)
    <3>1. granted'[x] = <<>> /\ Queue(x)' = <<>>
      BY <1>1, <1>4, <2>4, AllowQueues DEF Allow, TableTypeOK
    <3> QED
      BY <3>1 DEF IsSuffix, Chronological
  <2>5. CASE (x = s /\ ~Admits(s)) \/ (x # s /\ x \notin Evicted(s))
    <3>1. granted'[x] = granted[x] /\ Queue(x)' = QueueOf(x)
      BY <1>1, <1>4, <2>5, AllowQueues DEF Allow, TableTypeOK
    <3> QED
      BY <1>2, <2>1, <2>2, <3>1 DEF IsSuffix, Chronological
  <2> QED
    BY <2>3, <2>4, <2>5
<1>5. CASE UNCHANGED vars
  BY <1>2, <1>5 DEF vars, Queue, IsSuffix, Chronological
<1> QED
  BY <1>3, <1>4, <1>5 DEF Next

LEMMA HistoryInit == Init => HistoryInv
BY DEF Init, HistoryInv, TableTypeOK, RateLimiterAssumption, Queue, IsSuffix,
       Chronological

-----------------------------------------------------------------------------
(* The history and the table are what they are typed to be, in any run. *)
THEOREM TypesHold == Spec => []TableTypeOK
<1>1. Init => TableTypeOK
  BY DEF Init, TableTypeOK
<1>2. TableTypeOK /\ [Next]_vars => TableTypeOK'
  BY TableTypeStep
<1> QED
  BY <1>1, <1>2, PTL DEF Spec

THEOREM HistoryHolds == Spec => []HistoryInv
BY HistoryInit, HistoryStep, PTL DEF Spec

(* A denied caller really was granted MaxRequests requests in the window    *)
(* that ends now: the MaxRequests newest grants are in the queue, and the   *)
(* oldest of the queue is not expired.  Evictions cannot break this.        *)
LEMMA DenialJustified == HistoryInv => NoSpuriousDenial
<1> SUFFICES ASSUME HistoryInv, NEW s \in Subjects, ~Admits(s)
             PROVE  Cardinality(Recent(s)) >= MaxRequests
  BY DEF NoSpuriousDenial
<1> DEFINE q == QueueOf(s)
           g == granted[s]
           inWindow == {i \in 1..Len(g) : now - g[i] < Window}
           newest == (Len(g) - Len(q) + 1)..Len(g)
<1>1. /\ now \in Nat /\ g \in Seq(Nat) /\ q \in Seq(Nat)
      /\ Window \in Nat /\ MaxRequests \in Nat
      /\ IsSuffix(q, g)
      /\ Chronological(g)
      /\ Len(q) > 0 => ~Expired(q[1])
  BY QueueOfSuffix, SuffixTransitive, RateLimiterAssumption
     DEF HistoryInv, TableTypeOK
<1>2. /\ Len(q) >= MaxRequests /\ Len(q) \in Nat /\ Len(g) \in Nat
      /\ MaxRequests \in Nat
  BY <1>1 DEF Admits
<1> HIDE DEF q, g
<1>3. newest \subseteq inWindow
  <2> SUFFICES ASSUME NEW i \in newest
               PROVE  i \in 1..Len(g) /\ now - g[i] < Window
    OBVIOUS
  <2>1. Len(q) <= Len(g)
    BY <1>1 DEF IsSuffix
  <2>2. /\ i \in 1..Len(g)
        /\ Len(g) - Len(q) + 1 \in 1..Len(g)
        /\ Len(g) - Len(q) + 1 <= i
        /\ 1 \in 1..Len(q)
    BY <1>2, <2>1
  <2>3. q[1] = g[Len(g) - Len(q) + 1]
    BY <1>1, <2>2 DEF IsSuffix
  <2>4. g[Len(g) - Len(q) + 1] <= g[i]
    BY <1>1, <2>2 DEF Chronological
  <2>5. g[i] \in Nat /\ q[1] \in Nat
    BY <1>1, <2>2
  <2>6. ~(now - q[1] >= Window)
    BY <1>1, <1>2, <2>2 DEF Expired
  <2>7. now - g[i] < Window
    <3>1. now \in Int /\ Window \in Int /\ g[i] \in Int /\ q[1] \in Int
      BY <1>1, <2>5
    <3>2. q[1] <= g[i]
      BY <2>3, <2>4
    <3> QED
      BY <2>6, <3>1, <3>2
  <2> QED
    BY <2>2, <2>7
<1>4. /\ IsFiniteSet(1..Len(g))
      /\ IsFiniteSet(newest)
      /\ Cardinality(newest) = Len(q)
  <2>1. Len(q) <= Len(g)
    BY <1>1 DEF IsSuffix
  <2>2. Len(g) \in Int /\ 1 \in Int /\ Len(g) - Len(q) + 1 \in Int
    BY <1>2
  <2>3. IsFiniteSet(1..Len(g)) /\ IsFiniteSet(newest)
    BY <2>2, FS_Interval
  <2>4. Cardinality(newest) = IF Len(g) - Len(q) + 1 > Len(g) THEN 0
                              ELSE Len(g) - (Len(g) - Len(q) + 1) + 1
    BY <2>2, FS_Interval
  <2>5. Cardinality(newest) = Len(q)
    BY <1>2, <2>1, <2>4
  <2> QED
    BY <2>3, <2>5
<1>5. IsFiniteSet(inWindow)
  BY <1>4, FS_Subset
<1>6. Cardinality(newest) <= Cardinality(inWindow)
  BY <1>3, <1>5, FS_Subset
<1>7. Cardinality(inWindow) \in Nat
  BY <1>5, FS_CardinalityType
<1>8. Cardinality(inWindow) >= MaxRequests
  <2> HIDE DEF inWindow, newest
  <2> QED
    BY <1>2, <1>4, <1>6, <1>7
<1> QED
  BY <1>8 DEF g, Recent

(* NoSpuriousDenial, for any callers, window, limits and clock. *)
THEOREM NoSpuriousDenialHolds == Spec => []NoSpuriousDenial
BY HistoryHolds, DenialJustified, PTL

(* With a place in the table for every caller nobody is evicted. *)
LEMMA NobodyEvicted ==
  ASSUME IsFiniteSet(Subjects), Cardinality(Subjects) <= MaxSubjects,
         TableTypeOK, NEW s \in Subjects
  PROVE  Evicted(s) = {}
<1>1. MaxSubjects \in Nat
  BY RateLimiterAssumption
<1>2. CASE s \in DOMAIN ClearedRequests
  BY <1>2 DEF Evicted, Evictions
<1>3. CASE s \notin DOMAIN ClearedRequests
  <2>1. DOMAIN ClearedRequests \subseteq Subjects \ {s}
    BY <1>3 DEF ClearedRequests, TableTypeOK
  <2>2. /\ IsFiniteSet(Subjects \ {s})
        /\ Cardinality(Subjects \ {s}) = Cardinality(Subjects) - 1
    BY FS_RemoveElement
  <2>3. /\ Cardinality(DOMAIN ClearedRequests) <= Cardinality(Subjects \ {s})
        /\ Cardinality(DOMAIN ClearedRequests) \in Nat
        /\ Cardinality(Subjects) \in Nat
    BY <2>1, <2>2, FS_Subset, FS_CardinalityType
  <2>4. Cardinality(DOMAIN ClearedRequests) - MaxSubjects + 1 <= 0
    BY <1>1, <2>2, <2>3
  <2>5. Evictions(s) = 0
    BY <2>4 DEF Evictions
  <2> QED
    BY <2>5 DEF Evicted
<1> QED
  BY <1>2, <1>3

(* The invariant behind the promise of the limiter, one action at a time. *)
LEMMA WindowStep ==
  WindowInv /\ [Next]_vars => WindowInv'
<1> SUFFICES ASSUME WindowInv, [Next]_vars
             PROVE  WindowInv'
  OBVIOUS
<1>1. HistoryInv /\ HistoryInv' /\ TableTypeOK /\ TableTypeOK'
  BY HistoryStep DEF WindowInv, HistoryInv
<1> SUFFICES ASSUME NEW x \in Subjects
             PROVE  /\ OnlyExpiredLost(Queue(x), granted[x])'
                    /\ \A i \in 1..Len(granted'[x]) :
                         i + MaxRequests <= Len(granted'[x]) =>
                           granted'[x][i + MaxRequests] - granted'[x][i] >= Window
  BY <1>1 DEF WindowInv, WindowBound
<1>2. /\ OnlyExpiredLost(Queue(x), granted[x])
      /\ \A i \in 1..Len(granted[x]) :
           i + MaxRequests <= Len(granted[x]) =>
             granted[x][i + MaxRequests] - granted[x][i] >= Window
      /\ now \in Nat /\ granted[x] \in Seq(Nat)
      /\ MaxRequests \in Nat /\ Window \in Nat
      /\ IsSuffix(Queue(x), granted[x])
  BY <1>1, RateLimiterAssumption
     DEF WindowInv, WindowBound, HistoryInv, TableTypeOK
<1>3. CASE Tick
  <2>1. now' = now + 1 /\ Queue(x)' = Queue(x) /\ granted' = granted
    BY <1>3 DEF Tick, Queue
  <2>2. /\ \A i \in 1..Len(granted[x]) : granted[x][i] \in Nat
        /\ Len(Queue(x)) \in Nat /\ Len(granted[x]) \in Nat
    BY <1>1, <1>2, QueueOfSuffix
  <2>3. OnlyExpiredLost(Queue(x), granted[x])'
    BY <1>2, <2>1, <2>2 DEF OnlyExpiredLost, Expired
  <2> QED
    BY <1>2, <2>1, <2>3
<1>4. ASSUME NEW s \in Subjects, Allow(s)
      PROVE  /\ OnlyExpiredLost(Queue(x), granted[x])'
             /\ \A i \in 1..Len(granted'[x]) :
                  i + MaxRequests <= Len(granted'[x]) =>
                    granted'[x][i + MaxRequests] - granted'[x][i] >= Window
  <2> DEFINE q == QueueOf(x)
             g == granted[x]
  <2>1. now' = now
    BY <1>4 DEF Allow
  <2>2. /\ q \in Seq(Nat) /\ Len(q) \in Nat /\ Len(g) \in Nat
        /\ IsSuffix(q, g)
        /\ OnlyExpiredLost(q, g)
        /\ g \in Seq(Nat)
    BY <1>1, <1>2, QueueOfSuffix, SuffixTransitive
  <2>3. CASE x = s /\ Admits(s)
    <3>1. granted'[x] = Append(g, now) /\ Queue(x)' = Append(q, now)
      BY <1>1, <1>4, <2>3, AllowQueues DEF Allow, TableTypeOK
    <3>2. Len(q) < MaxRequests
      BY <2>3 DEF Admits
    <3> HIDE DEF q, g
    <3>3. /\ Len(Append(g, now)) = Len(g) + 1
          /\ Len(Append(q, now)) = Len(q) + 1
          /\ \A i \in 1..Len(g) : Append(g, now)[i] = g[i] /\ g[i] \in Nat
          /\ Append(g, now)[Len(g) + 1] = now
      BY <2>2, <1>2
    <3>4. OnlyExpiredLost(Queue(x), granted[x])'
      BY <2>1, <2>2, <3>1, <3>3 DEF OnlyExpiredLost, Expired
    <3>5. ASSUME NEW i \in 1..(Len(g) + 1), i + MaxRequests <= Len(g) + 1
          PROVE  Append(g, now)[i + MaxRequests] - Append(g, now)[i] >= Window
      <4>1. i \in 1..Len(g)
        BY <1>2, <2>2, <3>2, <3>5
      <4>2. CASE i + MaxRequests <= Len(g)
        <5>1. i + MaxRequests \in 1..Len(g)
          BY <1>2, <2>2, <4>1, <4>2
        <5> QED
          BY <1>2, <3>3, <4>1, <4>2, <5>1 DEF g
      <4>3. CASE i + MaxRequests = Len(g) + 1
        <5>1. i \in 1..(Len(g) - Len(q))
          BY <1>2, <2>2, <3>2, <4>1, <4>3
        <5>2. Expired(g[i])
          BY <2>2, <5>1 DEF OnlyExpiredLost
        <5> QED
          BY <3>3, <4>1, <4>3, <5>2 DEF Expired
      <4>4. i + MaxRequests <= Len(g) \/ i + MaxRequests = Len(g) + 1
        BY <1>2, <2>2, <3>5
      <4> QED
        BY <4>2, <4>3, <4>4
    <3> QED
      BY <3>1, <3>3, <3>4, <3>5
  <2>4. CASE x # s /\ x \in Evicted(s)
    <3>1. granted'[x] = <<>> /\ Queue(x)' = <<>>
      BY <1>1, <1>4, <2>4, AllowQueues DEF Allow, TableTypeOK
    <3> QED
      BY <3>1 DEF OnlyExpiredLost
  <2>5. CASE (x = s /\ ~Admits(s)) \/ (x # s /\ x \notin Evicted(s))
    <3>1. granted'[x] = granted[x] /\ Queue(x)' = q
      BY <1>1, <1>4, <2>5, AllowQueues DEF Allow, TableTypeOK
    <3> QED
      BY <1>2, <2>1, <2>2, <3>1 DEF OnlyExpiredLost, Expired
  <2> QED
    BY <2>3, <2>4, <2>5
<1>5. CASE UNCHANGED vars
  BY <1>2, <1>5 DEF vars, Queue, OnlyExpiredLost, Expired
<1> QED
  BY <1>3, <1>4, <1>5 DEF Next

(* WindowBound, for any callers, window, limits and clock: no caller is     *)
(* granted more than MaxRequests terminations in one window, unless others  *)
(* drove it out of the table meanwhile.                                     *)
THEOREM WindowBoundHolds == Spec => []WindowBound
<1>1. Init => WindowInv
  BY HistoryInit
     DEF Init, WindowInv, WindowBound, Queue, OnlyExpiredLost, HistoryInv
<1>2. WindowInv /\ [Next]_vars => WindowInv'
  BY WindowStep
<1>3. WindowInv => WindowBound
  BY DEF WindowInv
<1> QED
  BY <1>1, <1>2, <1>3, PTL DEF Spec

(* What one more step adds to the history of a caller: nothing, or the      *)
(* instant of a grant.                                                      *)
HistoriesOnlyGrow ==
  \A x \in Subjects : \/ granted'[x] = granted[x]
                     \/ granted'[x] = Append(granted[x], now)

LEMMA HistoriesStep ==
  ASSUME IsFiniteSet(Subjects), Cardinality(Subjects) <= MaxSubjects,
         TableTypeOK, [Next]_vars
  PROVE  HistoriesOnlyGrow
<1> SUFFICES ASSUME NEW x \in Subjects
             PROVE  \/ granted'[x] = granted[x]
                    \/ granted'[x] = Append(granted[x], now)
  BY DEF HistoriesOnlyGrow
<1>1. ASSUME NEW s \in Subjects, Allow(s)
      PROVE  \/ granted'[x] = granted[x]
             \/ granted'[x] = Append(granted[x], now)
  BY <1>1, NobodyEvicted DEF Allow
<1>2. CASE Tick
  BY <1>2 DEF Tick
<1>3. CASE UNCHANGED vars
  BY <1>3 DEF vars
<1> QED
  BY <1>1, <1>2, <1>3 DEF Next

(* As long as the table has a place for every caller no history is ever     *)
(* reset, so WindowBound then speaks of all grants there ever were.         *)
THEOREM HistoriesAreComplete ==
  ASSUME IsFiniteSet(Subjects), Cardinality(Subjects) <= MaxSubjects
  PROVE  Spec => [][HistoriesOnlyGrow]_vars
<1>1. TableTypeOK /\ [Next]_vars => [HistoriesOnlyGrow]_vars
  BY HistoriesStep
<1> QED
  BY <1>1, TypesHold, PTL DEF Spec

-----------------------------------------------------------------------------
(* An ascending enumeration of a set of numbers. *)
IsAscending(f, S) ==
  /\ f \in [1..Cardinality(S) -> S]
  /\ \A i, j \in 1..Cardinality(S) : i < j => f[i] < f[j]

(* A finite set of numbers has an ascending enumeration: the least one      *)
(* before those of the rest.                                                *)
LEMMA AscendingExists ==
  ASSUME NEW S, S \subseteq Nat, IsFiniteSet(S)
  PROVE  \E f : IsAscending(f, S)
<1> DEFINE Bad == {n \in Nat : \E X \in SUBSET Nat :
                     IsFiniteSet(X) /\ Cardinality(X) = n /\ ~(\E f : IsAscending(f, X))}
<1>1. ASSUME Bad # {} PROVE FALSE
  <2>1. PICK n \in Bad : \A m \in Bad : n <= m
    BY <1>1, LeastNat
  <2>2. PICK X \in SUBSET Nat :
          IsFiniteSet(X) /\ Cardinality(X) = n /\ ~(\E f : IsAscending(f, X))
    BY <2>1
  <2>3. X # {}
    <3>1. ASSUME X = {} PROVE IsAscending([i \in 1..0 |-> i], X)
      BY <3>1, FS_EmptySet DEF IsAscending
    <3> QED BY <2>2, <3>1
  <2>4. PICK x \in X : \A y \in X : x <= y
    BY <2>3, LeastNat
  <2>5. /\ IsFiniteSet(X \ {x})
        /\ Cardinality(X \ {x}) = n - 1
        /\ n \in Nat /\ n # 0
    BY <2>1, <2>2, <2>3, <2>4, FS_RemoveElement, FS_EmptySet
  <2>6. PICK g : IsAscending(g, X \ {x})
    <3>1. n - 1 \notin Bad
      BY <2>1, <2>5
    <3> QED BY <2>5, <3>1
  <2> DEFINE f == [i \in 1..n |-> IF i = 1 THEN x ELSE g[i - 1]]
  <2> HIDE DEF Bad
  <2>7. \A i \in 1..n : i # 1 => i - 1 \in 1..(n - 1) /\ g[i - 1] \in X \ {x}
    <3>1. g \in [1..(n - 1) -> X \ {x}]
      BY <2>5, <2>6 DEF IsAscending
    <3>2. \A i \in 1..n : i # 1 => i - 1 \in 1..(n - 1)
      BY <2>5
    <3> QED BY <3>1, <3>2
  <2>8. f \in [1..n -> X]
    BY <2>4, <2>7
  <2>9. ASSUME NEW i \in 1..n, NEW j \in 1..n, i < j PROVE f[i] < f[j]
    <3>1. j # 1 /\ f[j] = g[j - 1] /\ g[j - 1] \in X \ {x} /\ j - 1 \in 1..(n - 1)
      BY <2>5, <2>7, <2>9
    <3>2. CASE i = 1
      <4>1. f[i] = x
        BY <3>2
      <4>2. x \in Nat /\ g[j - 1] \in Nat /\ x <= g[j - 1] /\ x # g[j - 1]
        BY <2>2, <2>4, <3>1
      <4> QED BY <3>1, <4>1, <4>2
    <3>3. CASE i # 1
      <4>1. f[i] = g[i - 1] /\ i - 1 \in 1..(n - 1) /\ i - 1 < j - 1
        BY <2>5, <2>7, <2>9, <3>3
      <4> QED BY <2>5, <2>6, <3>1, <4>1 DEF IsAscending
    <3> QED BY <3>2, <3>3
  <2>10. IsAscending(f, X)
    BY <2>2, <2>8, <2>9 DEF IsAscending
  <2> QED BY <2>2, <2>10
<1>2. Cardinality(S) \in Nat
  BY FS_CardinalityType
<1> QED BY <1>1, <1>2

(* What Ascending returns: each number once, the lower ones first.          *)
LEMMA AscendingProperties ==
  ASSUME NEW S, S \subseteq Nat, IsFiniteSet(S)
  PROVE  /\ Cardinality(S) \in Nat
         /\ Ascending(S) \in [1..Cardinality(S) -> S]
         /\ \A i, j \in 1..Cardinality(S) : i < j => Ascending(S)[i] < Ascending(S)[j]
         /\ \A i, j \in 1..Cardinality(S) : Ascending(S)[i] = Ascending(S)[j] => i = j
         /\ \A x \in S : \E i \in 1..Cardinality(S) : Ascending(S)[i] = x
<1> DEFINE n == Cardinality(S)
           a == Ascending(S)
<1>1. n \in Nat
  BY FS_CardinalityType
<1>2. IsAscending(a, S)
  BY AscendingExists DEF Ascending, IsAscending
<1>3. \A i, j \in 1..n : a[i] = a[j] => i = j
  <2> SUFFICES ASSUME NEW i \in 1..n, NEW j \in 1..n, i # j PROVE a[i] # a[j]
    OBVIOUS
  <2>1. a[i] \in Nat /\ a[j] \in Nat
    BY <1>2 DEF IsAscending
  <2>2. i < j \/ j < i
    BY <1>1
  <2>3. a[i] < a[j] \/ a[j] < a[i]
    BY <1>2, <2>2 DEF IsAscending
  <2> QED BY <2>1, <2>3
<1>4. a \in Injection(1..n, S)
  BY <1>2, <1>3 DEF IsAscending, Injection, IsInjective
<1>5. IsFiniteSet(1..n) /\ Cardinality(1..n) = n
  BY <1>1, FS_Interval
<1>6. a \in Surjection(1..n, S)
  BY <1>4, <1>5, FS_Injection
<1> QED BY <1>1, <1>2, <1>3, <1>6 DEF IsAscending, Surjection

(* A sequence without repetitions is as long as there are elements in it.   *)
LEMMA LengthIsCardinality ==
  ASSUME NEW X, NEW s \in Seq(X),
         \A i, j \in 1..Len(s) : s[i] = s[j] => i = j
  PROVE  LET R == {s[i] : i \in 1..Len(s)}
         IN  IsFiniteSet(R) /\ Cardinality(R) = Len(s)
<1> DEFINE R == {s[i] : i \in 1..Len(s)}
<1>1. Len(s) \in Nat /\ DOMAIN s = 1..Len(s)
  OBVIOUS
<1>2. s \in [1..Len(s) -> R]
  BY <1>1
<1>3. s \in Injection(1..Len(s), R) /\ s \in Surjection(1..Len(s), R)
  BY <1>1, <1>2 DEF Injection, Surjection, IsInjective
<1>4. ExistsBijection(1..Len(s), R)
  BY <1>3 DEF ExistsBijection, Bijection
<1>5. IsFiniteSet(1..Len(s)) /\ Cardinality(1..Len(s)) = Len(s)
  BY <1>1, FS_Interval
<1> QED BY <1>4, <1>5, FS_Bijection

(* The order names the subjects of the table, each of them once.            *)
Enumerates(order, S) ==
  /\ order \in Seq(Subjects)
  /\ \A i, j \in 1..Len(order) : order[i] = order[j] => i = j
  /\ {order[i] : i \in 1..Len(order)} = S

OrderInv ==
  /\ Enumerates(subjects, DOMAIN requests)
  /\ Len(subjects) <= MaxSubjects

(* clear_expired drops from the order whom it has dropped from the table.   *)
LEMMA ClearedOrder ==
  ASSUME OrderInv
  PROVE  /\ Enumerates(ClearedSubjects, DOMAIN ClearedRequests)
         /\ Len(ClearedSubjects) <= MaxSubjects
<1> DEFINE I == {i \in DOMAIN subjects : subjects[i] \in DOMAIN ClearedRequests}
           n == Cardinality(I)
           a == Ascending(I)
<1>1. /\ subjects \in Seq(Subjects) /\ Len(subjects) \in Nat
      /\ DOMAIN subjects = 1..Len(subjects)
      /\ \A i \in 1..Len(subjects) : subjects[i] \in Subjects
      /\ MaxSubjects \in Nat
  BY RateLimiterAssumption DEF OrderInv, Enumerates
<1>2. I \subseteq 1..Len(subjects) /\ I \subseteq Nat
  BY <1>1
<1>3. IsFiniteSet(I) /\ n <= Len(subjects)
  <2>1. IsFiniteSet(1..Len(subjects)) /\ Cardinality(1..Len(subjects)) = Len(subjects)
    <3>1. Len(subjects) \in Nat
      BY <1>1
    <3> QED BY <3>1, FS_Interval
  <2> HIDE DEF I
  <2> QED BY <1>2, <2>1, FS_Subset
<1>4. /\ n \in Nat
      /\ a \in [1..n -> I]
      /\ \A i, j \in 1..n : a[i] = a[j] => i = j
      /\ \A x \in I : \E i \in 1..n : a[i] = x
  BY <1>2, <1>3, AscendingProperties
<1>5. ClearedSubjects = [i \in 1..n |-> subjects[a[i]]]
  BY DEF ClearedSubjects, KeepAt
<1> HIDE DEF a, n
<1>6. \A i \in 1..n : a[i] \in 1..Len(subjects) /\ subjects[a[i]] \in DOMAIN ClearedRequests
  BY <1>1, <1>4
<1> HIDE DEF I
<1>7. ClearedSubjects \in Seq(Subjects) /\ Len(ClearedSubjects) = n
  BY <1>1, <1>4, <1>5, <1>6
<1>8. \A i, j \in 1..n : ClearedSubjects[i] = ClearedSubjects[j] => i = j
  BY <1>4, <1>5, <1>6 DEF OrderInv, Enumerates
<1>9. \A x \in DOMAIN ClearedRequests : \E i \in 1..n : ClearedSubjects[i] = x
  <2> SUFFICES ASSUME NEW x \in DOMAIN ClearedRequests
               PROVE  \E i \in 1..n : ClearedSubjects[i] = x
    OBVIOUS
  <2>1. x \in DOMAIN requests
    BY DEF ClearedRequests
  <2>2. PICK k \in 1..Len(subjects) : subjects[k] = x
    BY <2>1 DEF OrderInv, Enumerates
  <2>3. k \in I
    BY <1>1, <2>2 DEF I
  <2> QED BY <1>4, <1>5, <2>2, <2>3
<1>10. {ClearedSubjects[i] : i \in 1..n} = DOMAIN ClearedRequests
  BY <1>5, <1>6, <1>9
<1> QED
  BY <1>1, <1>3, <1>4, <1>7, <1>8, <1>10 DEF Enumerates, OrderInv

(* The table as it is found has at most one subject too many, so one        *)
(* eviction is the most there is, and the order loses whom the table loses. *)
LEMMA OrderStep ==
  TableTypeOK /\ OrderInv /\ [Next]_vars => OrderInv'
<1> SUFFICES ASSUME TableTypeOK, OrderInv, [Next]_vars PROVE OrderInv'
  OBVIOUS
<1>1. CASE Tick \/ UNCHANGED vars
  <2>1. subjects' = subjects /\ requests' = requests
    BY <1>1 DEF Tick, vars
  <2>2. Enumerates(subjects', DOMAIN requests')
    BY <2>1 DEF OrderInv
  <2> QED BY <2>1, <2>2 DEF OrderInv, Enumerates
<1>2. ASSUME NEW s \in Subjects, Allow(s) PROVE OrderInv'
  <2> DEFINE C == ClearedSubjects
             D == DOMAIN ClearedRequests
             n == Len(C)
  <2>1. Enumerates(C, D) /\ n <= MaxSubjects /\ n \in Nat /\ MaxSubjects \in Nat \ {0}
    BY ClearedOrder, RateLimiterAssumption DEF Enumerates
  <2>2. Cardinality(D) = n
    BY <2>1, LengthIsCardinality DEF Enumerates
  <2>3. DOMAIN requests' = (D \ Evicted(s)) \cup {s}
    BY <1>2 DEF Allow
  <2>4. CASE s \in D
    <3>1. Evicted(s) = {} /\ subjects' = C
      BY <1>2, <2>4 DEF Allow, Evicted, Evictions
    <3> QED BY <2>1, <2>3, <2>4, <3>1 DEF OrderInv, Enumerates
  <2>5. CASE s \notin D
    <3> DEFINE e == Evictions(s)
               left == SubSeq(C, e + 1, n)
    <3>1. subjects' = Append(left, s)
      BY <1>2, <2>5 DEF Allow
    <3>2. e = IF n = MaxSubjects THEN 1 ELSE 0
      BY <2>1, <2>2, <2>5 DEF Evictions
    <3>3. Evicted(s) = {C[i] : i \in 1..e}
      BY DEF Evicted
    <3> HIDE DEF C, D, e
    <3>4. /\ C \in Seq(Subjects)
          /\ \A i, j \in 1..n : C[i] = C[j] => i = j
          /\ D = {C[i] : i \in 1..n}
      BY <2>1 DEF Enumerates
    <3>5. /\ e \in 0..1 /\ e <= n /\ n - e + 1 <= MaxSubjects /\ n - e \in Nat
          /\ \A i \in 1..(n - e) : i + e \in 1..n
      BY <2>1, <3>2
    <3>6. /\ left \in Seq(Subjects) /\ Len(left) = n - e
          /\ \A i \in 1..(n - e) : left[i] = C[i + e]
      BY <3>4, <3>5
    <3>7. /\ subjects' \in Seq(Subjects)
          /\ Len(subjects') = n - e + 1
          /\ \A i \in 1..(n - e) : subjects'[i] = C[i + e] /\ subjects'[i] \in D
          /\ subjects'[n - e + 1] = s
      BY <3>1, <3>4, <3>5, <3>6
    <3>8. \A i, j \in 1..Len(subjects') : subjects'[i] = subjects'[j] => i = j
      <4> SUFFICES ASSUME NEW i \in 1..(n - e + 1), NEW j \in 1..(n - e + 1),
                          subjects'[i] = subjects'[j]
                   PROVE  i = j
        BY <3>7
      <4>1. CASE i = n - e + 1 \/ j = n - e + 1
        BY <2>5, <3>5, <3>7, <4>1
      <4>2. CASE i # n - e + 1 /\ j # n - e + 1
        <5>1. i \in 1..(n - e) /\ j \in 1..(n - e)
          BY <3>5, <4>2
        <5>2. C[i + e] = C[j + e] /\ i + e \in 1..n /\ j + e \in 1..n
          BY <3>5, <3>7, <5>1
        <5>3. i + e = j + e
          BY <3>4, <5>2
        <5> QED BY <3>5, <5>3
      <4> QED BY <4>1, <4>2
    <3>9. {subjects'[i] : i \in 1..Len(subjects')} = (D \ Evicted(s)) \cup {s}
      <4>1. ASSUME NEW i \in 1..(n - e + 1)
            PROVE  subjects'[i] \in (D \ Evicted(s)) \cup {s}
        <5>1. CASE i = n - e + 1
          BY <3>7, <5>1
        <5>2. CASE i # n - e + 1
          <6>1. i \in 1..(n - e) /\ i + e \in 1..n /\ i + e \notin 1..e
            BY <3>5, <5>2
          <6>2. 1..e \subseteq 1..n
            BY <2>1, <3>5
          <6>3. subjects'[i] = C[i + e] /\ C[i + e] \in D /\ C[i + e] \notin Evicted(s)
            BY <3>3, <3>4, <3>7, <6>1, <6>2
          <6> QED BY <6>3
        <5> QED BY <5>1, <5>2
      <4>2. ASSUME NEW x \in D, x \notin Evicted(s)
            PROVE  \E i \in 1..(n - e) : subjects'[i] = x
        <5>1. PICK k \in 1..n : C[k] = x
          BY <3>4
        <5>2. k \notin 1..e
          BY <3>3, <4>2, <5>1
        <5>3. k - e \in 1..(n - e) /\ (k - e) + e = k
          BY <2>1, <3>5, <5>2
        <5> QED BY <3>7, <5>1, <5>3
      <4>3. n - e + 1 \in 1..(n - e + 1) /\ 1..(n - e) \subseteq 1..(n - e + 1)
        BY <3>5
      <4> QED BY <3>7, <4>1, <4>2, <4>3
    <3> QED BY <2>3, <3>5, <3>7, <3>8, <3>9 DEF OrderInv, Enumerates
  <2> QED BY <2>4, <2>5
<1> QED BY <1>1, <1>2 DEF Next

(* The two structures of the limiter agree after any requests, expiries and *)
(* evictions: the order lists exactly the subjects of the table, each once, *)
(* and there are never more than MaxSubjects.                               *)
THEOREM OrderHolds == Spec => []OrderEnumeratesTable
<1>1. Init => OrderInv
  BY RateLimiterAssumption DEF Init, OrderInv, Enumerates
<1>2. TableTypeOK /\ OrderInv /\ [Next]_vars => OrderInv'
  BY OrderStep
<1>3. OrderInv => OrderEnumeratesTable
  BY LengthIsCardinality DEF OrderInv, Enumerates, OrderEnumeratesTable
<1> QED
  BY <1>1, <1>2, <1>3, TypesHold, PTL DEF Spec

-----------------------------------------------------------------------------
(* The table against the history. *)

(* The grants of a caller in the window are in its queue, and if there is a *)
(* queue, its front is one of them.                                         *)
LEMMA RecentAreQueued ==
  ASSUME WindowInv, NEW s \in Subjects
  PROVE  /\ IsFiniteSet(Recent(s)) /\ Cardinality(Recent(s)) \in Nat
         /\ Cardinality(Recent(s)) <= Len(QueueOf(s))
         /\ Recent(s) # {} <=> QueueOf(s) # <<>>
<1> DEFINE q == QueueOf(s)
           g == granted[s]
           newest == (Len(g) - Len(q) + 1)..Len(g)
<1>1. TableTypeOK /\ HistoryInv /\ Window \in Nat
  BY RateLimiterAssumption DEF WindowInv, HistoryInv
<1>2. /\ now \in Nat /\ g \in Seq(Nat) /\ q \in Seq(Nat)
      /\ IsSuffix(q, g) /\ OnlyExpiredLost(q, g)
      /\ Len(q) > 0 => ~Expired(q[1])
  BY <1>1, QueueOfSuffix, SuffixTransitive
     DEF WindowInv, HistoryInv, TableTypeOK
<1> HIDE DEF q, g
<1>3. /\ Len(q) \in Nat /\ Len(g) \in Nat /\ Len(q) <= Len(g)
      /\ \A i \in 1..Len(g) : g[i] \in Nat
      /\ q # <<>> <=> Len(q) > 0
  BY <1>2 DEF IsSuffix
<1>4. Recent(s) = {i \in 1..Len(g) : now - g[i] < Window}
  BY DEF Recent, g
<1>5. Recent(s) \subseteq newest
  <2> SUFFICES ASSUME NEW i \in 1..Len(g), now - g[i] < Window PROVE i \in newest
    BY <1>4
  <2>1. ~Expired(g[i])
    BY <1>1, <1>2, <1>3 DEF Expired
  <2>2. i \notin 1..(Len(g) - Len(q))
    BY <1>2, <2>1 DEF OnlyExpiredLost
  <2> QED BY <1>3, <2>2
<1>6. IsFiniteSet(newest) /\ Cardinality(newest) = Len(q)
  <2>1. Len(g) - Len(q) + 1 \in Int /\ Len(g) \in Int
    BY <1>3
  <2>2. IsFiniteSet(newest)
        /\ Cardinality(newest) = IF Len(g) - Len(q) + 1 > Len(g) THEN 0
                                 ELSE Len(g) - (Len(g) - Len(q) + 1) + 1
    BY <2>1, FS_Interval
  <2> QED BY <1>3, <2>2
<1>7. IsFiniteSet(Recent(s)) /\ Cardinality(Recent(s)) <= Len(q)
  <2> HIDE DEF newest
  <2> QED BY <1>5, <1>6, FS_Subset
<1>8. ASSUME Len(q) > 0 PROVE Len(g) - Len(q) + 1 \in Recent(s)
  <2>1. Len(g) - Len(q) + 1 \in 1..Len(g) /\ 1 \in 1..Len(q)
    BY <1>3, <1>8
  <2>2. g[Len(g) - Len(q) + 1] = q[1]
    BY <1>2, <2>1 DEF IsSuffix
  <2>3. now - g[Len(g) - Len(q) + 1] < Window
    BY <1>1, <1>2, <1>3, <1>8, <2>1, <2>2 DEF Expired
  <2> QED BY <1>4, <2>1, <2>3
<1>9. ASSUME Len(q) = 0 PROVE Recent(s) = {}
  BY <1>3, <1>5, <1>9
<1>10. Cardinality(Recent(s)) \in Nat
  BY <1>7, FS_CardinalityType
<1> QED BY <1>3, <1>7, <1>8, <1>9, <1>10 DEF q

(* A full table is one of callers with grants in the window. *)
LEMMA TableIsRecent ==
  ASSUME WindowInv, OrderInv, NEW s \in Subjects, s \notin DOMAIN ClearedRequests
  PROVE  DOMAIN ClearedRequests = {y \in Subjects \ {s} : Recent(y) # {}}
<1>1. TableTypeOK
  BY DEF WindowInv, HistoryInv
<1>2. DOMAIN ClearedRequests \subseteq Subjects
  BY <1>1 DEF ClearedRequests, TableTypeOK
<1>3. \A y \in Subjects : QueueOf(y) # <<>> <=> y \in DOMAIN ClearedRequests
  BY DEF QueueOf, ClearedRequests
<1> QED BY <1>2, <1>3, RecentAreQueued

LEMMA VerdictStep ==
  ASSUME WindowInv, OrderInv, NEW s \in Subjects, Allow(s)
  PROVE  /\ granted'[s] = IF Cardinality(Recent(s)) < MaxRequests
                            THEN Append(granted[s], now) ELSE granted[s]
         /\ (\E x \in Subjects \ {s} : granted'[x] # granted[x]) =>
              Cardinality({y \in Subjects \ {s} : Recent(y) # {}}) >= MaxSubjects
<1>1. TableTypeOK /\ HistoryInv /\ MaxRequests \in Nat /\ MaxSubjects \in Nat \ {0}
  BY RateLimiterAssumption DEF WindowInv, HistoryInv
<1>2. Admits(s) <=> Cardinality(Recent(s)) < MaxRequests
  <2>1. /\ Cardinality(Recent(s)) \in Nat /\ Len(QueueOf(s)) \in Nat
        /\ Cardinality(Recent(s)) <= Len(QueueOf(s))
    BY <1>1, RecentAreQueued, QueueOfSuffix
  <2>2. ~Admits(s) => Cardinality(Recent(s)) >= MaxRequests
    BY <1>1, DenialJustified DEF NoSpuriousDenial
  <2> QED BY <1>1, <2>1, <2>2 DEF Admits
<1>3. granted'[s] = IF Admits(s) THEN Append(granted[s], now) ELSE granted[s]
  BY DEF Allow
<1>4. ASSUME NEW x \in Subjects \ {s}, granted'[x] # granted[x]
      PROVE  Cardinality({y \in Subjects \ {s} : Recent(y) # {}}) >= MaxSubjects
  <2>1. x \in Evicted(s)
    BY <1>4 DEF Allow
  <2>2. Evictions(s) # 0
    BY <2>1 DEF Evicted
  <2>3. s \notin DOMAIN ClearedRequests
        /\ ~(Cardinality(DOMAIN ClearedRequests) - MaxSubjects + 1 <= 0)
    BY <2>2 DEF Evictions
  <2>4. Cardinality(DOMAIN ClearedRequests) \in Nat
    BY ClearedOrder, LengthIsCardinality, FS_CardinalityType DEF Enumerates
  <2>5. Cardinality(DOMAIN ClearedRequests) >= MaxSubjects
    BY <1>1, <2>3, <2>4
  <2> QED BY <2>3, <2>5, TableIsRecent
<1> QED BY <1>2, <1>3, <1>4

(* The limiter gives the verdict of one that keeps every grant for ever,    *)
(* for any callers, window, limits and clock, and forgets a caller only     *)
(* where a full table of others has grants in the window.                   *)
THEOREM VerdictsHold == Spec => VerdictsAreExact
<1>1. Spec => []WindowInv /\ []OrderInv
  <2>1. Init => WindowInv /\ OrderInv
    BY HistoryInit, RateLimiterAssumption
       DEF Init, WindowInv, WindowBound, Queue, OnlyExpiredLost, HistoryInv, OrderInv,
           Enumerates
  <2>2. WindowInv /\ OrderInv /\ [Next]_vars => (WindowInv /\ OrderInv)'
    BY WindowStep, OrderStep DEF WindowInv, HistoryInv
  <2> QED BY <2>1, <2>2, PTL DEF Spec
<1>2. WindowInv /\ OrderInv =>
        \A s \in Subjects : Allow(s) =>
          /\ granted'[s] = IF Cardinality(Recent(s)) < MaxRequests
                             THEN Append(granted[s], now) ELSE granted[s]
          /\ (\E x \in Subjects \ {s} : granted'[x] # granted[x]) =>
               Cardinality({y \in Subjects \ {s} : Recent(y) # {}}) >= MaxSubjects
  BY VerdictStep
<1> QED BY <1>1, <1>2, PTL DEF VerdictsAreExact
=============================================================================
