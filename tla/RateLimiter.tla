----------------------------- MODULE RateLimiter -----------------------------
(***************************************************************************)
(* The sliding-window limiter of rustnt-core's authorization.rs            *)
(* (RequestRateLimiter): the service consults it once for every process    *)
(* termination whose caller is authorized, with the caller's SID as the    *)
(* subject.  The limiter remembers, for at most MaxSubjects subjects, the  *)
(* instants of the requests it granted within the window; the order in     *)
(* which subjects entered the table decides which one is forgotten when it *)
(* is full.                                                                *)
(*                                                                         *)
(* `granted' is a history variable: every instant at which a subject was   *)
(* granted a request since it was last evicted.  What leaves the table     *)
(* because it expired stays in the history; only an eviction resets it.    *)
(***************************************************************************)
EXTENDS Integers, Sequences, FiniteSets, AscendingOrder

CONSTANTS
  Subjects,      \* caller SIDs
  MaxRequests,   \* max_requests: grants per window, 4 in the service
  Window,        \* window: length of the window, 10 s in the service
  MaxSubjects,   \* MAX_SUBJECTS: subjects remembered, 256 in the service
  MaxTime        \* bound of the clock (Instant::now is unbounded)

ASSUME RateLimiterAssumption ==
  /\ MaxRequests \in Nat
  /\ Window \in Nat
  /\ MaxSubjects \in Nat \ {0}
  /\ MaxTime \in Nat

VARIABLES
  now,       \* the monotonic clock
  requests,  \* HashMap<subject, VecDeque<Instant>>, a function on its keys
  subjects,  \* VecDeque<subject>, the subjects in the order they came
  granted    \* history: the instants each subject was granted at

vars == <<now, requests, subjects, granted>>

-----------------------------------------------------------------------------
(* Variants: the window ends too early, or too late. *)
ExpiredEarly(started) == now - started >= Window - 1
ExpiredLate(started) == now - started > Window

(* `now.saturating_duration_since(started) >= window'.  The clock never     *)
(* runs behind an instant it produced, so nothing saturates.                *)
Expired(started) == now - started >= Window

(* The queue loses its front as long as that is expired: what stays starts  *)
(* at the first instant that is not, wherever later ones stand.             *)
FirstLive(queue) ==
  CHOOSE i \in 1..(Len(queue) + 1) :
    /\ \A j \in 1..(i - 1) : Expired(queue[j])
    /\ i <= Len(queue) => ~Expired(queue[i])

DropExpired(queue) == SubSeq(queue, FirstLive(queue), Len(queue))

(* clear_expired: every queue loses its expired front, subjects whose queue *)
(* becomes empty leave the table, and the order keeps the subjects left.    *)
ClearedRequests ==
  [s \in {x \in DOMAIN requests : DropExpired(requests[x]) # <<>>}
     |-> DropExpired(requests[s])]

ClearedSubjects ==
  KeepAt(subjects, {i \in DOMAIN subjects : subjects[i] \in DOMAIN ClearedRequests})

(* A subject that is not in the table needs a place in it: the oldest       *)
(* subjects are evicted while the table is full.  The order enumerates the  *)
(* table without duplicates (OrderEnumeratesTable), so each turn of the     *)
(* loop frees one place.                                                    *)
Evictions(s) ==
  LET excess == Cardinality(DOMAIN ClearedRequests) - MaxSubjects + 1
  IN  IF s \in DOMAIN ClearedRequests \/ excess <= 0 THEN 0
      ELSE IF excess < Len(ClearedSubjects) THEN excess
      ELSE Len(ClearedSubjects)

(* Variant: the evicted subject leaves the order but not the table. *)
EvictedFromOrderOnly(s) == {}

Evicted(s) == {ClearedSubjects[i] : i \in 1..Evictions(s)}

(* The subject's queue as allow_at finds it after clearing and evicting.    *)
QueueOf(s) ==
  IF s \in DOMAIN ClearedRequests THEN ClearedRequests[s] ELSE <<>>

(* The verdict of allow_at: false exactly when the window is full.          *)
Admits(s) == Len(QueueOf(s)) < MaxRequests

-----------------------------------------------------------------------------
Init ==
  /\ now = 0
  /\ requests = [s \in {} |-> <<>>]
  /\ subjects = <<>>
  /\ granted = [s \in Subjects |-> <<>>]

(* allow_at(s, now).  A denied request is not counted, but its subject has  *)
(* entered the table all the same.                                          *)
Allow(s) ==
  LET keep  == (DOMAIN ClearedRequests \ Evicted(s)) \cup {s}
      queue == IF Admits(s) THEN Append(QueueOf(s), now) ELSE QueueOf(s)
      order == SubSeq(ClearedSubjects, Evictions(s) + 1, Len(ClearedSubjects))
  IN  /\ requests' = [x \in keep |-> IF x = s THEN queue ELSE ClearedRequests[x]]
      /\ subjects' = IF s \in DOMAIN ClearedRequests
                       THEN ClearedSubjects ELSE Append(order, s)
      /\ granted' = [x \in Subjects |->
                       IF x = s
                         THEN IF Admits(s) THEN Append(granted[x], now)
                                           ELSE granted[x]
                         ELSE IF x \in Evicted(s) THEN <<>> ELSE granted[x]]
      /\ UNCHANGED now

(* Time passes between two requests. *)
Tick ==
  /\ now < MaxTime
  /\ now' = now + 1
  /\ UNCHANGED <<requests, subjects, granted>>

Next == Tick \/ \E s \in Subjects : Allow(s)

Spec == Init /\ [][Next]_vars

-----------------------------------------------------------------------------
TableTypeOK ==
  /\ now \in Nat
  /\ DOMAIN requests \subseteq Subjects
  /\ requests \in [DOMAIN requests -> Seq(Nat)]
  /\ granted \in [Subjects -> Seq(Nat)]

(* The types of the clock, the table, the order and the history; a queue    *)
(* never holds more than the window allows.                                 *)
TypeOK ==
  /\ TableTypeOK
  /\ subjects \in Seq(Subjects)
  /\ \A s \in DOMAIN requests : Len(requests[s]) <= MaxRequests

(* What the limiter is for: of any MaxRequests + 1 grants to one subject    *)
(* the last comes at least a window after the first, so no window, wherever *)
(* it starts, holds more than MaxRequests of them.  It speaks of all grants *)
(* since the subject was last evicted, not of the ones the limiter still    *)
(* remembers: only eviction, never expiry or a denial, costs the promise.   *)
WindowBound ==
  \A s \in Subjects : \A i \in 1..Len(granted[s]) :
    i + MaxRequests <= Len(granted[s])
      => granted[s][i + MaxRequests] - granted[s][i] >= Window

(* The grants to a caller that lie in the window which ends now.            *)
Recent(s) ==
  {i \in 1..Len(granted[s]) : now - granted[s][i] < Window}

(* The limiter is never stricter than promised: a caller it would deny now  *)
(* really was granted MaxRequests requests inside the current window, and   *)
(* since it was last evicted.                                               *)
NoSpuriousDenial ==
  \A s \in Subjects : ~Admits(s) => Cardinality(Recent(s)) >= MaxRequests

(* The verdict of allow_at is the one a limiter without a table would give, *)
(* which keeps every grant and counts those of the window: granted if and   *)
(* only if there are fewer than MaxRequests.  The table shows in one way    *)
(* alone: another caller's grants are forgotten, and only where MaxSubjects *)
(* callers besides the one that asks have a grant in the window.            *)
VerdictsAreExact ==
  [][\A s \in Subjects : Allow(s) =>
       /\ granted'[s] = IF Cardinality(Recent(s)) < MaxRequests
                          THEN Append(granted[s], now) ELSE granted[s]
       /\ (\E x \in Subjects \ {s} : granted'[x] # granted[x]) =>
            Cardinality({y \in Subjects \ {s} : Recent(y) # {}}) >= MaxSubjects
    ]_vars

(* The two structures of the limiter agree and stay bounded: the order      *)
(* lists every subject of the table exactly once, whatever was cleared,     *)
(* evicted or denied, and the table never outgrows MaxSubjects.             *)
OrderEnumeratesTable ==
  /\ Len(subjects) = Cardinality(DOMAIN requests)
  /\ {subjects[i] : i \in 1..Len(subjects)} = DOMAIN requests
  /\ Len(subjects) <= MaxSubjects
=============================================================================
