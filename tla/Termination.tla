----------------------------- MODULE Termination -----------------------------
(***************************************************************************)
(* Controlled process management: the CLI's inspect-then-terminate run     *)
(* (rustnt-cli main.rs), the service's dispatch of a decoded request with  *)
(* its authorization, rate limit and audit (rustnt-core service.rs,        *)
(* authorization.rs) and the work on the target process                    *)
(* (process_control.rs), each Windows call a step of its own, between the  *)
(* steps of an operating system that ends processes and reuses PIDs.       *)
(*                                                                         *)
(* The service has one pipe instance and one thread: a request is sent     *)
(* only while no other is served.  The transport itself is PipeServer's    *)
(* subject; here a client may lose its connection at any moment, and the   *)
(* service then finishes the request for nobody.                           *)
(***************************************************************************)
EXTENDS Integers, Sequences, FiniteSets

CONSTANTS
  CliRuns,        \* runs of `rustnt process terminate', one PID each
  RawClients,     \* programs that send one request of their own choice
  Pids,           \* process identifiers
  Protected,      \* PIDs 0 and 4 and the service's own
  Sids,           \* user SIDs
  SystemSid,      \* the SIDs of is_system_sid
  Token,          \* [client -> [sid, elevated, administrator]]
  AuditCapacity,  \* events the sink keeps, 256 in the service
  MaxRequestId,   \* the request id space, u64::MAX in the service
  MaxBirths,      \* bound: processes ever created
  MaxRequests, Window, MaxSubjects, MaxTime,   \* of the rate limiter
  NoProcess, Idle, None

Clients == CliRuns \cup RawClients

Processes == [created : Nat, owner : Sids \cup {SystemSid},
              status : {"running", "dying", "exited"}]

Commands == {"readonly", "inspect", "terminate"}

(* What the service knows of the request it works on.                       *)
Exchanges ==
  [client : Clients, command : Commands, pid : Pids, created : Nat,
   wellFormed : BOOLEAN,
   step : {"received", "dispatched", "open", "list", "read", "decide", "kill", "wait"},
   id : Nat, pinned : BOOLEAN, listed : Nat, seen : Nat]

Answers == {"lost", "ok", "inspection", "refused", "error", "terminated",
            "terminate_pending"}

ASSUME TerminationAssumption ==
  /\ Protected \subseteq Pids
  /\ SystemSid \notin Sids
  /\ CliRuns \cap RawClients = {}
  /\ Token \in [Clients -> [sid : Sids, elevated : BOOLEAN,
                            administrator : BOOLEAN]]
  /\ AuditCapacity \in Nat
  /\ MaxRequestId \in Nat \ {0}
  /\ MaxBirths \in Nat
  /\ NoProcess \notin Processes \cup [created : Nat, owner : Sids \cup {SystemSid}]
  /\ Idle \notin Exchanges
  /\ None \notin Answers
  /\ None \notin [pid : Pids, created : Nat]

VARIABLES
  procs,          \* the process object behind each PID
  births,         \* processes created so far: the next creation time
  client,         \* where each client is, and what it holds
  serving,        \* the request the service works on, or Idle
  nextRequestId,  \* PipeRuntime.next_request_id
  audit,          \* MemoryAuditSink.events, oldest first
  now, requests, subjects, granted,   \* PipeRuntime.limiter
  kills           \* history: TerminateProcess calls that succeeded

osVars == <<procs, births>>
limiterVars == <<now, requests, subjects, granted>>
vars == <<procs, births, client, serving, nextRequestId, audit, limiterVars,
          kills>>

Limiter == INSTANCE RateLimiter WITH Subjects <- Sids

ASSUME LimiterAssumption ==
  /\ {MaxRequests, Window, MaxSubjects, MaxTime} \subseteq Nat
  /\ MaxSubjects # 0

-----------------------------------------------------------------------------
(* The operating system.  A process object outlives its process while a     *)
(* handle is open, and its PID is not given to another one before that.     *)

Running(p) == procs[p] # NoProcess /\ procs[p].status # "exited"

(* Variant: no handle is kept, the target is looked up by PID each time. *)
NeverPinned(p) == FALSE

Pinned(p) == serving # Idle /\ serving.pinned /\ serving.pid = p

CreateProcess(p, owner) ==
  /\ procs[p] = NoProcess
  /\ births < MaxBirths
  /\ births' = births + 1
  /\ procs' = [procs EXCEPT ![p] = [created |-> births + 1, owner |-> owner,
                                    status |-> "running"]]
  /\ UNCHANGED <<client, serving, nextRequestId, audit, limiterVars, kills>>

ExitProcess(p) ==
  /\ p \notin Protected
  /\ Running(p)
  /\ procs' = [procs EXCEPT ![p] = IF Pinned(p)
                                     THEN [@ EXCEPT !.status = "exited"]
                                     ELSE NoProcess]
  /\ UNCHANGED <<births, client, serving, nextRequestId, audit, limiterVars,
                 kills>>

-----------------------------------------------------------------------------
(* The clients. *)

(* A request on the wire: what the service decodes.                         *)
Request(c, command, p, time, wellFormed) ==
  [client |-> c, command |-> command, pid |-> p, created |-> time,
   wellFormed |-> wellFormed, step |-> "received", id |-> 0,
   pinned |-> FALSE, listed |-> 0, seen |-> 0]

Send(request) == serving = Idle /\ serving' = request

(* run_process_terminate, first exchange. *)
SendInspect(c, p) ==
  /\ client[c].pc = "start"
  /\ Send(Request(c, "inspect", p, 0, TRUE))
  /\ client' = [client EXCEPT ![c] = [@ EXCEPT !.pc = "inspecting", !.pid = p]]
  /\ UNCHANGED <<osVars, nextRequestId, audit, limiterVars, kills>>

(* Second exchange: the creation time of the inspection names the process.  *)
SendTerminate(c) ==
  /\ client[c].pc = "inspected"
  /\ Send(Request(c, "terminate", client[c].pid, client[c].created, TRUE))
  /\ client' = [client EXCEPT ![c].pc = "terminating"]
  /\ UNCHANGED <<osVars, nextRequestId, audit, limiterVars, kills>>

(* Any other program may send any request the frame decoder lets through.   *)
SendRaw(c, command, p, time, wellFormed) ==
  /\ client[c].pc = "start"
  /\ Send(Request(c, command, p, time, wellFormed))
  /\ client' = [client EXCEPT
                  ![c] = [@ EXCEPT !.pc = IF command = "terminate"
                                            THEN "terminating" ELSE "waiting",
                                   !.pid = p, !.created = time]]
  /\ UNCHANGED <<osVars, nextRequestId, audit, limiterVars, kills>>

(* The client is killed, or finds no pipe, or gives the exchange up.        *)
LoseClient(c) ==
  /\ client[c].pc # "done"
  /\ client' = [client EXCEPT ![c] = [@ EXCEPT !.pc = "done", !.answer = "lost"]]
  /\ UNCHANGED <<osVars, serving, nextRequestId, audit, limiterVars, kills>>

-----------------------------------------------------------------------------
(* The end of every request that has an id: close the target's handle,      *)
(* record one event, answer whoever still waits.                            *)

Capability(command) ==
  CASE command = "readonly"  -> "read_only"
    [] command = "inspect"   -> "process_inspect"
    [] command = "terminate" -> "process_terminate"

(* MemoryAuditSink::record: the newest AuditCapacity events stay. *)
Record(outcome, reason, target) ==
  LET all == Append(audit, [request |-> serving.id,
                            capability |-> Capability(serving.command),
                            outcome |-> outcome, reason |-> reason,
                            target |-> target])
      excess == Len(all) - AuditCapacity
  IN  audit' = IF excess > 0 THEN SubSeq(all, excess + 1, Len(all)) ELSE all

CloseHandle ==
  procs' = IF serving.pinned /\ ~Running(serving.pid)
             THEN [procs EXCEPT ![serving.pid] = NoProcess] ELSE procs

(* What run_process_terminate does with a response: a good inspection leads *)
(* to the second exchange, everything else ends the run with the answer.    *)
Answer(answer) ==
  LET c == serving.client
      next == IF client[c].pc = "inspecting" /\ answer = "inspection"
                THEN [client[c] EXCEPT !.pc = "inspected", !.created = serving.seen]
                ELSE [client[c] EXCEPT !.pc = "done", !.answer = answer]
  IN  client' = IF client[c].pc = "done" THEN client
                ELSE [client EXCEPT ![c] = next]

Finish(outcome, reason, target, answer) ==
  /\ Record(outcome, reason, target)
  /\ CloseHandle
  /\ Answer(answer)
  /\ serving' = Idle
  /\ UNCHANGED <<births, nextRequestId, kills>>

(* A rejection by status, recorded with the reason of that status. *)
Reject(reason) == Finish("rejected", reason, serving.pid, "refused")

(* ProcessControlError::Windows, and other unclassified failures. *)
Fail == Finish("failed", "windows_failure", serving.pid, "error")

GoTo(step) ==
  /\ serving' = [serving EXCEPT !.step = step]
  /\ UNCHANGED <<osVars, client, nextRequestId, audit, kills>>

At(step) == serving # Idle /\ serving.step = step

-----------------------------------------------------------------------------
(* dispatch_request. *)

(* The id space is used up: the request is answered without an event. *)
ExhaustIds ==
  /\ At("received")
  /\ nextRequestId = MaxRequestId
  /\ Answer("error")
  /\ serving' = Idle
  /\ UNCHANGED <<osVars, nextRequestId, audit, limiterVars, kills>>

(* Variant: the last id is given out again and again. *)
DispatchSaturated ==
  /\ At("received")
  /\ nextRequestId' = IF nextRequestId < MaxRequestId THEN nextRequestId + 1
                      ELSE nextRequestId
  /\ serving' = [serving EXCEPT !.id = nextRequestId, !.step = "dispatched"]
  /\ UNCHANGED <<osVars, client, audit, limiterVars, kills>>

(* The request gets its id; its payload is decoded by what its command is.  *)
Dispatch ==
  /\ At("received")
  /\ nextRequestId < MaxRequestId
  /\ nextRequestId' = nextRequestId + 1
  /\ serving' = [serving EXCEPT !.id = nextRequestId, !.step = "dispatched"]
  /\ UNCHANGED <<osVars, client, audit, limiterVars, kills>>

RefuseMalformed ==
  /\ At("dispatched")
  /\ ~serving.wellFormed
  /\ Finish("failed", "malformed_payload", None, "error")
  /\ UNCHANGED limiterVars

(* Ping, identity and capabilities; only identity asks Windows and may fail. *)
AnswerReadOnly ==
  /\ At("dispatched")
  /\ serving.wellFormed
  /\ serving.command = "readonly"
  /\ \/ Finish("succeeded", None, None, "ok")
     \/ Finish("failed", "windows_failure", None, "error")
  /\ UNCHANGED limiterVars

(* Variant: the service reads its own token, not the impersonated one. *)
ServiceToken(c) == [Token[c] EXCEPT !.elevated = TRUE, !.administrator = TRUE]

(* A termination first asks the pipe who its client is (the connection is   *)
(* impersonated, so it is the client's token that is read), and authorizes  *)
(* it.                                                                      *)
Caller(c) == Token[c]

Authorization(caller) ==
  IF ~caller.elevated THEN "caller_not_elevated"
  ELSE IF ~caller.administrator THEN "caller_not_admin"
  ELSE "authorized"

AtGate ==
  /\ At("dispatched")
  /\ serving.wellFormed
  /\ serving.command = "terminate"

RejectUnauthorized ==
  /\ AtGate
  /\ LET verdict == Authorization(Caller(serving.client))
     IN  \/ Fail                          \* query_pipe_client_security
         \/ verdict # "authorized" /\ Reject(verdict)
  /\ UNCHANGED limiterVars

(* Then it needs a place in the caller's window.  A request over the limit  *)
(* is recorded without the PID it named: nobody has checked that yet.       *)
RejectOverLimit ==
  /\ AtGate
  /\ Authorization(Caller(serving.client)) = "authorized"
  /\ ~Limiter!Admits(Caller(serving.client).sid)
  /\ Limiter!Allow(Caller(serving.client).sid)
  /\ Finish("rejected", "rate_limited", None, "error")

(* Variant: a termination does not ask the limiter. *)
PassGateUnlimited ==
  /\ AtGate
  /\ Authorization(Caller(serving.client)) = "authorized"
  /\ GoTo("open")
  /\ UNCHANGED limiterVars

PassGate ==
  /\ AtGate
  /\ Authorization(Caller(serving.client)) = "authorized"
  /\ Limiter!Admits(Caller(serving.client).sid)
  /\ Limiter!Allow(Caller(serving.client).sid)
  /\ GoTo("open")

PassInspect ==
  /\ At("dispatched")
  /\ serving.wellFormed
  /\ serving.command = "inspect"
  /\ GoTo("open")
  /\ UNCHANGED limiterVars

-----------------------------------------------------------------------------
(* terminate_process and inspect_process: what they do to the target.       *)

(* Checks before the target is opened; a termination checks its caller once *)
(* more.  OpenProcess finds no process, or may be denied it.                *)
Opening(request, caller) ==
  IF request.command = "terminate" /\ Authorization(caller) # "authorized"
    THEN Authorization(caller)
  ELSE IF request.pid \in Protected THEN "target_protected"
  ELSE IF procs[request.pid] = NoProcess THEN "target_not_found"
  ELSE "open"

RejectTarget ==
  /\ At("open")
  /\ LET verdict == Opening(serving, Caller(serving.client))
     IN  Reject(IF verdict = "open" THEN "access_denied" ELSE verdict)
  /\ UNCHANGED limiterVars

(* An open handle pins the PID. *)
OpenTarget ==
  /\ At("open")
  /\ Opening(serving, Caller(serving.client)) = "open"
  /\ serving' = [serving EXCEPT !.pinned = TRUE,
                                !.step = IF serving.command = "inspect"
                                           THEN "list" ELSE "read"]
  /\ UNCHANGED <<osVars, client, nextRequestId, audit, limiterVars, kills>>

(* The creation time of whatever process the PID stands for now. *)
Created(p) == IF procs[p] = NoProcess THEN 0 ELSE procs[p].created

(* process_entry: name and threads come from a snapshot of the whole        *)
(* system, looked up by PID.  It does not list processes that have exited.  *)
ListTarget ==
  /\ At("list")
  /\ \/ /\ Running(serving.pid)
        /\ serving' = [serving EXCEPT !.listed = Created(serving.pid),
                                      !.step = "read"]
        /\ UNCHANGED <<osVars, client, nextRequestId, audit, kills>>
     \/ ~Running(serving.pid) /\ Reject("target_not_found")
     \/ Fail                              \* CreateToolhelp32Snapshot
  /\ UNCHANGED limiterVars

(* process_creation_time and process_owner_sid, through the handle.         *)
ReadTarget ==
  /\ At("read")
  /\ \/ /\ serving' = [serving EXCEPT !.seen = Created(serving.pid),
                                      !.step = "decide"]
        /\ UNCHANGED <<osVars, client, nextRequestId, audit, kills>>
     \/ Fail
     \/ Finish("failed", "malformed_payload", serving.pid, "error")
  /\ UNCHANGED limiterVars

(* The metadata fits into a response, or is refused as a field or too long. *)
FinishInspect ==
  /\ At("decide")
  /\ serving.command = "inspect"
  /\ \/ Finish("succeeded", None, serving.pid, "inspection")
     \/ Finish("failed", "malformed_payload", serving.pid, "error")
  /\ UNCHANGED limiterVars

(* Variant: the creation time is not compared. *)
PolicyByPid(request, caller) ==
  LET owner == procs[request.pid].owner
  IN  IF Authorization(caller) # "authorized" THEN Authorization(caller)
      ELSE IF request.pid \in Protected THEN "target_protected"
      ELSE IF owner = SystemSid THEN "target_protected"
      ELSE IF owner # caller.sid THEN "target_not_owned"
      ELSE "allowed"

(* evaluate_termination_policy.  The owner belongs to the pinned object. *)
Policy(request, caller) ==
  LET owner == procs[request.pid].owner
  IN  IF Authorization(caller) # "authorized" THEN Authorization(caller)
      ELSE IF request.pid \in Protected THEN "target_protected"
      ELSE IF request.seen # request.created THEN "pid_reused"
      ELSE IF owner = SystemSid THEN "target_protected"
      ELSE IF owner # caller.sid THEN "target_not_owned"
      ELSE "allowed"

DecidePolicy ==
  /\ At("decide")
  /\ serving.command = "terminate"
  /\ LET verdict == Policy(serving, Caller(serving.client))
     IN  IF verdict = "allowed" THEN GoTo("kill") ELSE Reject(verdict)
  /\ UNCHANGED limiterVars

(* TerminateProcess starts the end of a process; it fails on one that has   *)
(* exited, and may fail on any.                                             *)
Kill ==
  /\ At("kill")
  /\ \/ /\ Running(serving.pid)
        /\ procs' = [procs EXCEPT ![serving.pid].status = "dying"]
        /\ kills' = kills \cup {[request |-> serving.id, client |-> serving.client,
                                 created |-> procs[serving.pid].created]}
        /\ serving' = [serving EXCEPT !.step = "wait"]
        /\ UNCHANGED <<births, client, nextRequestId, audit>>
     \/ Reject("access_denied")
  /\ UNCHANGED limiterVars

(* Variants: a wait that ran out is taken for a refusal, or for the end of   *)
(* the process, or it never runs out.                                       *)
WaitRefusesPending ==
  /\ At("wait")
  /\ \/ ~Running(serving.pid) /\ Finish("succeeded", None, serving.pid, "terminated")
     \/ Running(serving.pid) /\ Reject("access_denied")
     \/ Fail
  /\ UNCHANGED limiterVars

WaitTakesPendingForEnded ==
  /\ At("wait")
  /\ Finish("succeeded", None, serving.pid, "terminated") \/ Fail
  /\ UNCHANGED limiterVars

WaitForEver ==
  /\ At("wait")
  /\ ~Running(serving.pid)
  /\ Finish("succeeded", None, serving.pid, "terminated")
  /\ UNCHANGED limiterVars

(* WaitForSingleObject, 2 s at most: the process is gone, or takes longer,  *)
(* or the wait itself fails.                                                *)
WaitTarget ==
  /\ At("wait")
  /\ \/ /\ ~Running(serving.pid)
        /\ Finish("succeeded", None, serving.pid, "terminated")
     \/ /\ Running(serving.pid)
        /\ Finish("succeeded", None, serving.pid, "terminate_pending")
     \/ Fail
  /\ UNCHANGED limiterVars

-----------------------------------------------------------------------------
Init ==
  /\ procs = [p \in Pids |-> IF p \in Protected
                               THEN [created |-> 0, owner |-> SystemSid,
                                     status |-> "running"]
                               ELSE NoProcess]
  /\ births = 0
  /\ client = [c \in Clients |-> [pc |-> "start", pid |-> None, created |-> 0,
                                  answer |-> None]]
  /\ serving = Idle
  /\ nextRequestId = 1
  /\ audit = <<>>
  /\ kills = {}
  /\ Limiter!Init

Service ==
  \/ Dispatch \/ ExhaustIds
  \/ RefuseMalformed \/ AnswerReadOnly \/ PassInspect
  \/ RejectUnauthorized \/ RejectOverLimit \/ PassGate
  \/ RejectTarget \/ OpenTarget \/ ListTarget \/ ReadTarget \/ FinishInspect
  \/ DecidePolicy \/ Kill \/ WaitTarget

ClockTick ==
  /\ Limiter!Tick
  /\ UNCHANGED <<osVars, client, serving, nextRequestId, audit, kills>>

Environment ==
  \/ ClockTick
  \/ \E p \in Pids : \/ \E owner \in Sids \cup {SystemSid} : CreateProcess(p, owner)
                     \/ ExitProcess(p)
  \/ \E c \in CliRuns : SendTerminate(c) \/ \E p \in Pids : SendInspect(c, p)
  \/ \E c \in RawClients, command \in Commands :
       \E p \in Pids, time \in 0..births, wellFormed \in BOOLEAN :
         SendRaw(c, command, p, time, wellFormed)
  \/ \E c \in Clients : LoseClient(c)

Next == Service \/ Environment

(* The service thread runs on whatever the clients and the system do: every *)
(* call it makes returns, the wait for the target after 2 s at the latest.  *)
Spec == Init /\ [][Next]_vars /\ WF_vars(Service)

-----------------------------------------------------------------------------
Reasons ==
  {None, "malformed_payload", "windows_failure", "rate_limited", "target_not_found",
   "access_denied", "caller_not_elevated", "caller_not_admin", "target_protected",
   "pid_reused", "target_not_owned"}

Events ==
  [request : Nat, capability : {"read_only", "process_inspect", "process_terminate"},
   outcome : {"succeeded", "rejected", "failed"}, reason : Reasons,
   target : Pids \cup {None}]

(* The types; those of the limiter are RateLimiter's.                       *)
TypeOK ==
  /\ procs \in [Pids -> Processes \cup {NoProcess}]
  /\ births \in 0..MaxBirths
  /\ client \in [Clients ->
       [pc : {"start", "inspecting", "inspected", "terminating", "waiting", "done"},
        pid : Pids \cup {None}, created : Nat, answer : Answers \cup {None}]]
  /\ serving \in Exchanges \cup {Idle}
  /\ nextRequestId \in 1..MaxRequestId
  /\ audit \in Seq(Events)
  /\ Len(audit) <= AuditCapacity
  /\ kills \subseteq [request : Nat, client : Clients, created : Nat]

(* The promise of the termination path (README, architecture.md): whatever  *)
(* exits, is created and reuses a PID between the inspection, the request   *)
(* and the calls on the target, a process is ended only as the answer to a  *)
(* request that named its PID and creation time, whose sender is elevated,  *)
(* an Administrator and its owner, and never one of the system or a         *)
(* protected PID.                                                           *)
Guard == INSTANCE GuardedKill WITH
  NoRequest <- None,
  Times <- 0..MaxBirths,
  procs <- [p \in Pids |->
              IF Running(p) THEN [created |-> procs[p].created,
                                  owner |-> procs[p].owner]
              ELSE NoProcess],
  asked <- [c \in Clients |->
              IF client[c].created = 0 THEN None
              ELSE [pid |-> client[c].pid, created |-> client[c].created]],
  ended <- {<<k.client, k.created>> : k \in kills}

OnlyTheNamedProcessEnds == Guard!Spec

(* The image name and thread count of an inspection come from a system-wide *)
(* snapshot by PID, the creation time from the handle: both always describe *)
(* the same process, because the handle was opened before the snapshot.     *)
InspectionIsOfOneProcess ==
  At("decide") /\ serving.command = "inspect" => serving.listed = serving.seen

(* Every request that got an id leaves exactly one event, in the order of   *)
(* the ids, on every path through the service, and the sink holds the       *)
(* newest of them without a gap.                                            *)
Finished == nextRequestId - 1 - (IF serving # Idle /\ serving.id # 0 THEN 1 ELSE 0)

AuditHasEveryRequestOnce ==
  /\ Len(audit) = IF Finished < AuditCapacity THEN Finished ELSE AuditCapacity
  /\ \A i \in DOMAIN audit : audit[i].request = Finished - Len(audit) + i

(* The audit tells what happened: a termination recorded as a success did   *)
(* call TerminateProcess, one recorded as rejected never touched a process. *)
(* (A failed one may have: the wait can fail after the process was ended.)  *)
AuditIsTrue ==
  \A i \in DOMAIN audit :
    audit[i].capability = "process_terminate" =>
      LET killed == \E k \in kills : k.request = audit[i].request
      IN  /\ audit[i].outcome = "succeeded" => killed
          /\ audit[i].outcome = "rejected" => ~killed

(* What a client is told is so: after `terminated' the process it named is  *)
(* gone for good, after `terminate_pending' its end has begun, and after a  *)
(* refusal nothing was ended in its name.                                   *)
AnswersAreTrue ==
  \A c \in Clients :
    LET killed == \E k \in kills : k.client = c
    IN  /\ client[c].answer = "terminated" =>
             /\ killed
             /\ \A p \in Pids : procs[p] = NoProcess
                                \/ procs[p].created # client[c].created
        /\ client[c].answer = "terminate_pending" => killed
        /\ client[c].answer = "refused" => ~killed

(* Every process ended was paid for with a grant of the limiter, and the    *)
(* grants of a caller keep to its window, although the events the service   *)
(* works on between a grant and the kill take time.  The limiter forgets    *)
(* the grants of a caller it evicts, so they only can be counted when it    *)
(* has a place for every caller.                                            *)
KillsKeepTheWindow ==
  /\ Limiter!WindowBound
  /\ IsFiniteSet(Sids) /\ Cardinality(Sids) <= MaxSubjects =>
       \A s \in Sids :
         Cardinality({k \in kills : Token[k.client].sid = s}) <= Len(granted[s])

(* No request holds the only pipe instance for ever, not even one whose     *)
(* target refuses to die or whose client is gone.                           *)
EveryRequestEnds == serving # Idle ~> serving = Idle
=============================================================================
