-------------------------- MODULE TerminationProofs --------------------------
(***************************************************************************)
(* Controlled process management for every set of callers, PIDs, users and *)
(* requests, and every order in which processes exit and PIDs are reused:  *)
(* it implements GuardedKill, its answers are true, its audit is complete  *)
(* and true, and it ends no more processes than the limiter granted.       *)
(***************************************************************************)
EXTENDS Termination, SequenceTheorems, FiniteSetTheorems, TLAPS

(* Processes that nothing may end are there, every other one has a creation *)
(* time of its own.                                                         *)
ProcessesOK ==
  /\ \A p \in Protected : Running(p) /\ procs[p].created = 0
  /\ \A p \in Pids \ Protected : procs[p] # NoProcess => procs[p].created \in 1..births
  /\ \A p, q \in Pids \ Protected :
       procs[p] # NoProcess /\ procs[q] # NoProcess /\ p # q
         => procs[p].created # procs[q].created

(* What a client has been told, and has taken for the process it means.     *)
ClientsOK ==
  \A c \in Clients :
    /\ client[c].created <= births
    /\ client[c].pc \in {"start", "inspecting"} => client[c].created = 0
    /\ client[c].pc # "done" => client[c].answer = None
    /\ client[c].pc \notin {"start", "done"} => client[c].pid \in Pids

(* The request served is the one its sender has made; the sender may be lost*)
(* by now.                                                                  *)
ExchangeOK ==
  serving # Idle =>
    LET c == serving.client
    IN  /\ client[c].pc \notin {"start", "inspected"}
        /\ client[c].answer \in {None, "lost"}
        /\ client[c].pid = serving.pid
        /\ serving.command = "terminate"
             => /\ client[c].pc \notin {"inspecting", "waiting"}
                /\ client[c].created = serving.created
        /\ serving.command # "terminate" => client[c].pc # "terminating"
        /\ serving.id = IF serving.step = "received" THEN 0 ELSE nextRequestId - 1
        /\ serving.step # "received" => nextRequestId > 1

(* The handle keeps the process that was opened, whatever exits meanwhile:  *)
(* what was read of it still holds.                                         *)
TargetOK ==
  serving # Idle =>
    /\ serving.pinned <=> serving.step \in {"list", "read", "decide", "kill", "wait"}
    /\ serving.pinned => procs[serving.pid] # NoProcess /\ serving.pid \notin Protected
    /\ serving.step \in {"open", "list", "read", "decide", "kill", "wait"}
         => serving.command # "readonly"
    /\ serving.step = "list" => serving.command = "inspect"
    /\ serving.step \in {"kill", "wait"}
         => /\ serving.command = "terminate"
            /\ Policy(serving, Caller(serving.client)) = "allowed"
    /\ serving.step \in {"decide", "kill", "wait"} => serving.seen = procs[serving.pid].created
    /\ serving.step \in {"read", "decide"} /\ serving.command = "inspect"
         => serving.listed = procs[serving.pid].created

(* A request ends at most one process, as its last step but one.            *)
KillsOK ==
  /\ \A k \in kills :
       /\ client[k.client].pc \in {"terminating", "done"}
       /\ client[k.client].created = k.created
       /\ k.request \in 1..(nextRequestId - 1)
       /\ serving # Idle /\ (serving.client = k.client \/ serving.id = k.request)
            => serving.step = "wait"
  /\ At("wait") => \E k \in kills : k.client = serving.client /\ k.request = serving.id

Inv == /\ TypeOK
       /\ ProcessesOK
       /\ ClientsOK
       /\ ExchangeOK
       /\ TargetOK
       /\ KillsOK

-----------------------------------------------------------------------------
(* Types. *)

LEMMA ServingTyped ==
  ASSUME Inv, serving # Idle
  PROVE  /\ serving \in Exchanges
         /\ serving.client \in Clients /\ serving.pid \in Pids
         /\ serving.command \in Commands
         /\ serving.id \in Nat /\ serving.seen \in Nat /\ serving.listed \in Nat
         /\ serving.pinned \in BOOLEAN /\ serving.wellFormed \in BOOLEAN
         /\ serving.created \in Nat
BY DEF Inv, TypeOK, Exchanges

-----------------------------------------------------------------------------
(* Processes come and go. *)

LEMMA CreateKeeps ==
  ASSUME Inv, NEW p \in Pids, NEW owner \in Sids \cup {SystemSid}, CreateProcess(p, owner)
  PROVE  Inv'
<1>1. /\ procs[p] = NoProcess /\ births < MaxBirths /\ births' = births + 1
      /\ UNCHANGED <<client, serving, nextRequestId, audit, kills>>
      /\ births \in Nat /\ MaxBirths \in Nat
  BY TerminationAssumption DEF CreateProcess, Inv, TypeOK
<1>2. PICK new \in Processes :
        /\ new.created = births + 1
        /\ new.status = "running"
        /\ procs' = [procs EXCEPT ![p] = new]
  <2> DEFINE new == [created |-> births + 1, owner |-> owner, status |-> "running"]
  <2>1. procs' = [procs EXCEPT ![p] = new]
    BY DEF CreateProcess
  <2>2. new \in Processes /\ new.created = births + 1 /\ new.status = "running"
    BY <1>1 DEF Processes
  <2> HIDE DEF new
  <2> QED BY <2>1, <2>2
<1>3. new # NoProcess
  BY TerminationAssumption
<1>4. /\ procs' \in [Pids -> Processes \cup {NoProcess}]
      /\ procs'[p] = new /\ \A q \in Pids : q # p => procs'[q] = procs[q]
  BY <1>2 DEF Inv, TypeOK
<1>5. TypeOK'
  BY <1>1, <1>4 DEF Inv, TypeOK
<1>6. p \notin Protected
  BY <1>1 DEF Inv, ProcessesOK, Running
<1>7. ProcessesOK'
  <2>1. \A q \in Protected : q \in Pids /\ q # p
    BY <1>6, TerminationAssumption
  <2>2. \A q \in Protected : Running(q)' /\ procs'[q].created = 0
    BY <1>4, <2>1 DEF Inv, ProcessesOK, Running
  <2>3. \A q \in Pids \ Protected :
          procs'[q] # NoProcess => procs'[q].created \in 1..births'
    BY <1>1, <1>2, <1>4 DEF Inv, ProcessesOK
  <2>4. \A q, q2 \in Pids \ Protected :
          procs'[q] # NoProcess /\ procs'[q2] # NoProcess /\ q # q2
            => procs'[q].created # procs'[q2].created
    BY <1>1, <1>2, <1>4 DEF Inv, ProcessesOK
  <2> QED BY <2>2, <2>3, <2>4 DEF ProcessesOK
<1>8. ClientsOK'
  <2>1. \A c \in Clients : client[c].created \in Nat
    BY DEF Inv, TypeOK
  <2> QED BY <1>1, <2>1 DEF Inv, ClientsOK
<1>9. ExchangeOK' /\ KillsOK'
  BY <1>1 DEF Inv, ExchangeOK, KillsOK, At
<1>10. TargetOK'
  <2> SUFFICES ASSUME serving # Idle PROVE TargetOK'
    BY <1>1 DEF TargetOK
  <2>1. serving.pinned => serving.pid # p
    BY <1>1 DEF Inv, TargetOK
  <2>2. serving.pinned => procs'[serving.pid] = procs[serving.pid]
    BY <1>4, <2>1, ServingTyped
  <2> QED BY <1>1, <2>2 DEF Inv, TargetOK, Policy, Caller
<1> QED BY <1>5, <1>7, <1>8, <1>9, <1>10 DEF Inv

(* A process changes, or leaves its PID, without anything of it that counts.*)
SameProcess(p) ==
  \/ procs'[p] = procs[p]
  \/ /\ p \notin Protected
     /\ procs[p] # NoProcess
     /\ procs'[p] \in Processes
     /\ procs'[p].created = procs[p].created
     /\ procs'[p].owner = procs[p].owner
  \/ p \notin Protected /\ procs'[p] = NoProcess

LEMMA ProcessesKept ==
  ASSUME Inv, UNCHANGED births, procs' \in [Pids -> Processes \cup {NoProcess}],
         \A p \in Pids : SameProcess(p)
  PROVE  ProcessesOK'
<1>1. \A p \in Protected : Running(p)' /\ procs'[p].created = 0
  BY TerminationAssumption DEF SameProcess, Inv, ProcessesOK, Running
<1>2. \A p \in Pids : procs'[p] # NoProcess =>
        procs[p] # NoProcess /\ procs'[p].created = procs[p].created
  BY DEF SameProcess
<1> QED BY <1>1, <1>2 DEF Inv, ProcessesOK

LEMMA ExitKeeps ==
  ASSUME Inv, NEW p \in Pids, ExitProcess(p)
  PROVE  Inv'
<1>1. /\ p \notin Protected /\ Running(p)
      /\ UNCHANGED <<births, client, serving, nextRequestId, audit, kills>>
  BY DEF ExitProcess
<1>2. PICK new : /\ procs' = [procs EXCEPT ![p] = new]
                 /\ IF Pinned(p)
                      THEN /\ new \in Processes
                           /\ new.created = procs[p].created /\ new.owner = procs[p].owner
                      ELSE new = NoProcess
  <2>1. procs[p] \in Processes
    BY <1>1 DEF Running, Inv, TypeOK
  <2>2. [procs[p] EXCEPT !.status = "exited"] \in Processes
    BY <2>1 DEF Processes
  <2>3. procs' = [procs EXCEPT ![p] = IF Pinned(p)
                                       THEN [procs[p] EXCEPT !.status = "exited"]
                                       ELSE NoProcess]
    BY DEF ExitProcess
  <2> QED BY <2>1, <2>2, <2>3 DEF Processes
<1>3. /\ procs' \in [Pids -> Processes \cup {NoProcess}]
      /\ procs'[p] = new /\ \A q \in Pids : q # p => procs'[q] = procs[q]
  BY <1>2 DEF Inv, TypeOK
<1>4. TypeOK'
  BY <1>1, <1>3 DEF Inv, TypeOK
<1>5. ProcessesOK'
  <2>1. \A q \in Pids : SameProcess(q)
    BY <1>1, <1>2, <1>3 DEF SameProcess, Running
  <2> QED BY <1>1, <1>3, <2>1, ProcessesKept
<1>6. ClientsOK' /\ ExchangeOK' /\ KillsOK'
  BY <1>1 DEF Inv, ClientsOK, ExchangeOK, KillsOK, At
<1>7. TargetOK'
  <2> SUFFICES ASSUME serving # Idle PROVE TargetOK'
    BY <1>1 DEF TargetOK
  <2>1. serving.pinned => /\ procs'[serving.pid] # NoProcess
                          /\ procs'[serving.pid].created = procs[serving.pid].created
                          /\ procs'[serving.pid].owner = procs[serving.pid].owner
    <3>1. CASE serving.pid = p
      BY <1>2, <1>3, <3>1, TerminationAssumption DEF Pinned
    <3>2. CASE serving.pid # p
      BY <1>3, <3>2, ServingTyped DEF Inv, TargetOK
    <3> QED BY <3>1, <3>2
  <2> QED BY <1>1, <2>1 DEF Inv, TargetOK, Policy, Caller
<1> QED BY <1>4, <1>5, <1>6, <1>7 DEF Inv

-----------------------------------------------------------------------------
(* The clients. *)

(* What is known of a client. *)
ClientRecord == [pc : {"start", "inspecting", "inspected", "terminating", "waiting", "done"},
            pid : Pids \cup {None}, created : Nat, answer : Answers \cup {None}]

LEMMA ClientTyped ==
  ASSUME Inv, NEW c \in Clients
  PROVE  client[c] \in ClientRecord /\ client \in [Clients -> ClientRecord]
BY DEF Inv, TypeOK, ClientRecord

(* The service is asked while it is idle: a new exchange of a client that   *)
(* has ended nothing yet.                                                   *)
LEMMA SendKeeps ==
  ASSUME Inv, serving = Idle, NEW c \in Clients, NEW new \in ClientRecord,
         serving' \in Exchanges, serving'.client = c,
         serving'.step = "received", serving'.id = 0, serving'.pinned = FALSE,
         client' = [client EXCEPT ![c] = new],
         client[c].pc \in {"start", "inspected"},
         new.pc \in {"inspecting", "terminating", "waiting"},
         new.created <= births, new.answer = None,
         new.pc = "inspecting" => new.created = 0,
         new.pid = serving'.pid,
         serving'.command = "terminate" => new.pc = "terminating",
         serving'.command # "terminate" => new.pc # "terminating",
         serving'.command = "terminate" => new.created = serving'.created,
         UNCHANGED <<osVars, nextRequestId, audit, kills>>
  PROVE  Inv'
<1>1. /\ client' \in [Clients -> ClientRecord]
      /\ client'[c] = new /\ \A d \in Clients : d # c => client'[d] = client[d]
  BY ClientTyped
<1>2. UNCHANGED <<procs, births, nextRequestId, audit, kills>> /\ serving' # Idle
  BY TerminationAssumption DEF osVars
<1>3. TypeOK'
  BY <1>1, <1>2 DEF Inv, TypeOK, ClientRecord
<1>4. ProcessesOK'
  BY <1>2 DEF Inv, ProcessesOK, Running
<1>5. ClientsOK'
  <2>1. serving'.pid \in Pids
    BY DEF Exchanges
  <2> QED BY <1>1, <1>2, <2>1 DEF Inv, ClientsOK
<1>6. ExchangeOK'
  BY <1>1, <1>2 DEF ExchangeOK
<1>7. TargetOK'
  BY <1>2 DEF TargetOK
<1>8. KillsOK'
  <2>1. \A k \in kills : k.client # c /\ k.client \in Clients /\ k.request # 0
    BY DEF Inv, KillsOK, TypeOK
  <2>2. ~At("wait")'
    BY DEF At
  <2> QED BY <1>1, <1>2, <2>1, <2>2 DEF Inv, KillsOK
<1> QED BY <1>3, <1>4, <1>5, <1>6, <1>7, <1>8 DEF Inv

LEMMA SendInspectKeeps ==
  ASSUME Inv, NEW c \in CliRuns, NEW p \in Pids, SendInspect(c, p)
  PROVE  Inv'
<1> DEFINE new == [client[c] EXCEPT !.pc = "inspecting", !.pid = p]
<1>1. c \in Clients /\ client[c] \in ClientRecord /\ client[c].pc = "start"
  BY ClientTyped DEF SendInspect, Clients
<1>2. /\ new \in ClientRecord /\ new.pc = "inspecting" /\ new.pid = p
      /\ new.created = client[c].created /\ new.answer = client[c].answer
  BY <1>1 DEF ClientRecord
<1>3. client' = [client EXCEPT ![c] = new]
  BY DEF SendInspect
<1>4. client[c].created = 0 /\ client[c].answer = None /\ births \in Nat
  BY <1>1 DEF Inv, ClientsOK, TypeOK
<1>5. /\ serving = Idle /\ serving' = Request(c, "inspect", p, 0, TRUE)
      /\ UNCHANGED <<osVars, nextRequestId, audit, kills>>
  BY DEF SendInspect, Send
<1>6. /\ serving' \in Exchanges /\ serving'.client = c /\ serving'.step = "received"
      /\ serving'.id = 0 /\ serving'.pinned = FALSE /\ serving'.pid = p
      /\ serving'.command = "inspect"
  BY <1>1, <1>5 DEF Request, Exchanges, Commands
<1> HIDE DEF new
<1>7. /\ new.created <= births /\ new.answer = None /\ new.created = 0
      /\ serving'.command # "terminate" /\ new.pc # "terminating"
      /\ client[c].pc \in {"start", "inspected"}
  BY <1>1, <1>2, <1>4, <1>6
<1> QED BY <1>1, <1>2, <1>3, <1>5, <1>6, <1>7, SendKeeps

LEMMA SendTerminateKeeps ==
  ASSUME Inv, NEW c \in CliRuns, SendTerminate(c)
  PROVE  Inv'
<1> DEFINE new == [client[c] EXCEPT !.pc = "terminating"]
<1>1. c \in Clients /\ client[c] \in ClientRecord /\ client[c].pc = "inspected"
  BY ClientTyped DEF SendTerminate, Clients
<1>2. /\ new \in ClientRecord /\ new.pc = "terminating" /\ new.pid = client[c].pid
      /\ new.created = client[c].created /\ new.answer = client[c].answer
  BY <1>1 DEF ClientRecord
<1>3. client' = [client EXCEPT ![c] = new]
  BY DEF SendTerminate
<1>4. /\ client[c].created <= births /\ client[c].answer = None
      /\ client[c].created \in Nat /\ client[c].pid \in Pids
  BY <1>1 DEF Inv, ClientsOK, ClientRecord
<1>5. /\ serving = Idle
      /\ serving' = Request(c, "terminate", client[c].pid, client[c].created, TRUE)
      /\ UNCHANGED <<osVars, nextRequestId, audit, kills>>
  BY DEF SendTerminate, Send
<1>6. /\ serving' \in Exchanges /\ serving'.client = c /\ serving'.step = "received"
      /\ serving'.id = 0 /\ serving'.pinned = FALSE /\ serving'.pid = client[c].pid
      /\ serving'.command = "terminate" /\ serving'.created = client[c].created
  BY <1>1, <1>4, <1>5 DEF Request, Exchanges, Commands
<1> HIDE DEF new
<1> QED BY <1>1, <1>2, <1>3, <1>4, <1>5, <1>6, SendKeeps

LEMMA SendRawKeeps ==
  ASSUME Inv, NEW c \in RawClients, NEW command \in Commands, NEW p \in Pids,
         NEW time \in 0..births, NEW wellFormed \in BOOLEAN,
         SendRaw(c, command, p, time, wellFormed)
  PROVE  Inv'
<1> DEFINE pc1 == IF command = "terminate" THEN "terminating" ELSE "waiting"
           new == [client[c] EXCEPT !.pc = pc1, !.pid = p, !.created = time]
<1>0. births \in Nat /\ time \in Nat /\ time <= births
  BY DEF Inv, TypeOK
<1>1. c \in Clients /\ client[c] \in ClientRecord /\ client[c].pc = "start"
  BY ClientTyped DEF SendRaw, Clients
<1>2. /\ new \in ClientRecord /\ new.pc = pc1 /\ new.pid = p
      /\ new.created = time /\ new.answer = client[c].answer
  BY <1>0, <1>1 DEF ClientRecord
<1>3. client' = [client EXCEPT ![c] = new]
  BY DEF SendRaw
<1>4. client[c].answer = None
  BY <1>1 DEF Inv, ClientsOK
<1>5. /\ serving = Idle /\ serving' = Request(c, command, p, time, wellFormed)
      /\ UNCHANGED <<osVars, nextRequestId, audit, kills>>
  BY DEF SendRaw, Send
<1>6. /\ serving' \in Exchanges /\ serving'.client = c /\ serving'.step = "received"
      /\ serving'.id = 0 /\ serving'.pinned = FALSE /\ serving'.pid = p
      /\ serving'.command = command /\ serving'.created = time
  BY <1>0, <1>1, <1>5 DEF Request, Exchanges, Commands
<1> HIDE DEF new
<1> QED BY <1>0, <1>1, <1>2, <1>3, <1>4, <1>5, <1>6, SendKeeps

LEMMA LoseClientKeeps ==
  ASSUME Inv, NEW c \in Clients, LoseClient(c)
  PROVE  Inv'
<1> DEFINE new == [client[c] EXCEPT !.pc = "done", !.answer = "lost"]
<1>1. client[c] \in ClientRecord /\ client \in [Clients -> ClientRecord]
  BY ClientTyped
<1>2. /\ new \in ClientRecord /\ new.pc = "done" /\ new.pid = client[c].pid
      /\ new.created = client[c].created /\ new.answer = "lost"
  BY <1>1 DEF ClientRecord, Answers
<1>3. client' = [client EXCEPT ![c] = new]
  BY DEF LoseClient
<1> HIDE DEF new
<1>4. /\ client' \in [Clients -> ClientRecord]
      /\ client'[c] = new /\ \A d \in Clients : d # c => client'[d] = client[d]
  BY <1>1, <1>2, <1>3
<1>5. UNCHANGED <<procs, births, serving, nextRequestId, audit, kills>>
  BY DEF LoseClient, osVars
<1>6. TypeOK'
  BY <1>4, <1>5 DEF Inv, TypeOK, ClientRecord
<1>7. ProcessesOK' /\ TargetOK'
  BY <1>5 DEF Inv, ProcessesOK, Running, TargetOK, Policy, Caller
<1>8. ClientsOK'
  BY <1>2, <1>4, <1>5 DEF Inv, ClientsOK
<1>9. ExchangeOK'
  <2> SUFFICES ASSUME serving # Idle PROVE ExchangeOK'
    BY <1>5 DEF ExchangeOK
  <2> QED BY <1>2, <1>4, <1>5, ServingTyped DEF Inv, ExchangeOK
<1>10. KillsOK'
  <2>1. \A k \in kills : k.client \in Clients
    BY DEF Inv, TypeOK
  <2> QED BY <1>2, <1>4, <1>5, <2>1 DEF Inv, KillsOK, At
<1> QED BY <1>6, <1>7, <1>8, <1>9, <1>10 DEF Inv

-----------------------------------------------------------------------------
(* The service goes on with a request, and has changed nothing yet. *)

Advances ==
  /\ serving # Idle /\ serving' \in Exchanges
  /\ serving'.client = serving.client /\ serving'.command = serving.command
  /\ serving'.pid = serving.pid /\ serving'.created = serving.created
  /\ serving.step # "wait" /\ serving'.step \notin {"received", "wait"}
  /\ \/ /\ serving.step = "received" /\ nextRequestId < MaxRequestId
        /\ serving'.id = nextRequestId /\ nextRequestId' = nextRequestId + 1
     \/ /\ serving.step # "received"
        /\ serving'.id = serving.id /\ UNCHANGED nextRequestId
  /\ UNCHANGED <<procs, births, client, audit, kills>>

LEMMA AdvanceKeeps ==
  ASSUME Inv, Advances, TargetOK'
  PROVE  Inv'
<1>1. /\ serving # Idle /\ serving' # Idle /\ serving' \in Exchanges
      /\ UNCHANGED <<procs, births, client, audit, kills>>
  BY TerminationAssumption DEF Advances
<1>2. /\ nextRequestId \in 1..MaxRequestId /\ nextRequestId' \in 1..MaxRequestId
      /\ MaxRequestId \in Nat
      /\ serving'.id = nextRequestId' - 1 /\ nextRequestId' > 1
      /\ nextRequestId <= nextRequestId'
  <2>1. nextRequestId \in 1..MaxRequestId /\ MaxRequestId \in Nat
    BY TerminationAssumption DEF Inv, TypeOK
  <2>2. CASE serving.step = "received"
    BY <2>1, <2>2 DEF Advances
  <2>3. CASE serving.step # "received"
    BY <1>1, <2>1, <2>3 DEF Advances, Inv, ExchangeOK
  <2> QED BY <2>1, <2>2, <2>3
<1>3. TypeOK'
  BY <1>1, <1>2 DEF Inv, TypeOK
<1>4. ProcessesOK' /\ ClientsOK'
  BY <1>1 DEF Inv, ProcessesOK, Running, ClientsOK
<1>5. ExchangeOK'
  BY <1>1, <1>2 DEF Advances, Inv, ExchangeOK
<1>6. KillsOK'
  <2>1. ~At("wait")'
    BY DEF At, Advances
  <2>2. ASSUME NEW k \in kills
        PROVE  /\ client[k.client].pc \in {"terminating", "done"}
               /\ client[k.client].created = k.created
               /\ k.request \in 1..(nextRequestId' - 1)
               /\ serving'.client # k.client /\ serving'.id # k.request
    <3>1. /\ client[k.client].pc \in {"terminating", "done"}
          /\ client[k.client].created = k.created
          /\ k.request \in 1..(nextRequestId - 1)
          /\ serving.client # k.client /\ serving.id # k.request
      BY <1>1 DEF Inv, KillsOK, Advances
    <3>2. k.request # nextRequestId
      BY <1>2, <3>1
    <3>3. serving'.client # k.client /\ serving'.id # k.request
      BY <3>1, <3>2 DEF Advances
    <3>4. k.request \in 1..(nextRequestId' - 1)
      BY <1>2, <3>1
    <3> QED BY <3>1, <3>3, <3>4
  <2> QED BY <1>1, <2>1, <2>2 DEF KillsOK
<1> QED BY <1>3, <1>4, <1>5, <1>6 DEF Inv

LEMMA GoToIs ==
  ASSUME Inv, serving # Idle, NEW step \in {"open", "kill"}, GoTo(step),
         serving.step \notin {"received", "wait"}
  PROVE  /\ Advances
         /\ serving' = [serving EXCEPT !.step = step]
         /\ serving'.step = step /\ serving'.pinned = serving.pinned
         /\ serving'.seen = serving.seen /\ serving'.listed = serving.listed
<1>1. serving' = [serving EXCEPT !.step = step] /\ serving \in Exchanges
  BY ServingTyped DEF GoTo
<1>2. serving' \in Exchanges
  BY <1>1 DEF Exchanges
<1> QED BY <1>1, <1>2 DEF GoTo, Advances, osVars, Exchanges

LEMMA DispatchKeeps ==
  ASSUME Inv, Dispatch
  PROVE  Advances /\ Inv'
<1>1. /\ serving # Idle /\ serving.step = "received" /\ serving \in Exchanges
      /\ nextRequestId \in Nat
  BY ServingTyped, TerminationAssumption DEF Dispatch, At, Inv, TypeOK
<1>2. serving' = [serving EXCEPT !.id = nextRequestId, !.step = "dispatched"]
  BY DEF Dispatch
<1>3. /\ serving' \in Exchanges /\ serving'.step = "dispatched"
      /\ serving'.pinned = serving.pinned
  BY <1>1, <1>2 DEF Exchanges
<1>4. Advances
  BY <1>1, <1>2, <1>3 DEF Advances, Dispatch, osVars, Exchanges
<1>5. TargetOK'
  BY <1>1, <1>3, <1>4 DEF Advances, Inv, TargetOK
<1> QED BY <1>4, <1>5, AdvanceKeeps

LEMMA PassKeeps ==
  ASSUME Inv, PassGate \/ PassInspect
  PROVE  Advances /\ Inv'
<1>1. /\ serving # Idle /\ serving.step = "dispatched" /\ serving.command # "readonly"
      /\ GoTo("open")
  BY DEF PassGate, PassInspect, AtGate, At
<1>2. Advances /\ serving'.step = "open" /\ serving'.pinned = serving.pinned
  BY <1>1, GoToIs
<1>3. TargetOK'
  BY <1>1, <1>2 DEF Advances, Inv, TargetOK
<1> QED BY <1>2, <1>3, AdvanceKeeps

LEMMA OpenKeeps ==
  ASSUME Inv, OpenTarget
  PROVE  Advances /\ Inv'
<1> DEFINE step == IF serving.command = "inspect" THEN "list" ELSE "read"
<1>1. /\ serving # Idle /\ serving.step = "open" /\ serving \in Exchanges
      /\ serving' = [serving EXCEPT !.pinned = TRUE, !.step = step]
  BY ServingTyped DEF OpenTarget, At
<1>2. /\ serving' \in Exchanges /\ serving'.step = step /\ serving'.pinned = TRUE
      /\ serving'.command = serving.command
  BY <1>1 DEF Exchanges
<1>3. Advances
  BY <1>1, <1>2 DEF Advances, OpenTarget, osVars, Exchanges
<1>4. /\ procs[serving.pid] # NoProcess /\ serving.pid \notin Protected
      /\ serving.command # "readonly"
  <2>1. Opening(serving, Caller(serving.client)) = "open"
    BY DEF OpenTarget
  <2>2. serving.pid \notin Protected
    BY <2>1 DEF Opening, Authorization
  <2>3. procs[serving.pid] # NoProcess
    BY <2>1, <2>2 DEF Opening, Authorization
  <2> QED BY <1>1, <2>2, <2>3 DEF Inv, TargetOK
<1>5. TargetOK'
  <2>1. CASE serving.command = "inspect"
    BY <1>1, <1>2, <1>3, <1>4, <2>1 DEF Advances, TargetOK
  <2>2. CASE serving.command # "inspect"
    BY <1>1, <1>2, <1>3, <1>4, <2>2 DEF Advances, TargetOK
  <2> QED BY <2>1, <2>2
<1> QED BY <1>3, <1>5, AdvanceKeeps

LEMMA ListKeeps ==
  ASSUME Inv, At("list"), Running(serving.pid),
         serving' = [serving EXCEPT !.listed = Created(serving.pid), !.step = "read"],
         UNCHANGED <<osVars, client, nextRequestId, audit, kills>>
  PROVE  Advances /\ Inv'
<1>1. serving # Idle /\ serving.step = "list" /\ serving \in Exchanges
  BY ServingTyped DEF At
<1>2. procs[serving.pid] # NoProcess /\ procs[serving.pid] \in Processes
  BY <1>1, ServingTyped DEF Inv, TargetOK, TypeOK
<1>3. Created(serving.pid) = procs[serving.pid].created /\ Created(serving.pid) \in Nat
  BY <1>2 DEF Created, Processes
<1>4. /\ serving' \in Exchanges /\ serving'.step = "read"
      /\ serving'.pinned = serving.pinned
      /\ serving'.listed = procs[serving.pid].created
  BY <1>1, <1>3 DEF Exchanges
<1>5. Advances
  BY <1>1, <1>4 DEF Advances, osVars, Exchanges
<1>6. TargetOK'
  BY <1>1, <1>4, <1>5 DEF Advances, Inv, TargetOK
<1> QED BY <1>5, <1>6, AdvanceKeeps

LEMMA ReadKeeps ==
  ASSUME Inv, At("read"),
         serving' = [serving EXCEPT !.seen = Created(serving.pid), !.step = "decide"],
         UNCHANGED <<osVars, client, nextRequestId, audit, kills>>
  PROVE  Advances /\ Inv'
<1>1. serving # Idle /\ serving.step = "read" /\ serving \in Exchanges
  BY ServingTyped DEF At
<1>2. procs[serving.pid] # NoProcess /\ procs[serving.pid] \in Processes
  BY <1>1, ServingTyped DEF Inv, TargetOK, TypeOK
<1>3. Created(serving.pid) = procs[serving.pid].created /\ Created(serving.pid) \in Nat
  BY <1>2 DEF Created, Processes
<1>4. /\ serving' \in Exchanges /\ serving'.step = "decide"
      /\ serving'.pinned = serving.pinned /\ serving'.listed = serving.listed
      /\ serving'.seen = procs[serving.pid].created
  BY <1>1, <1>3 DEF Exchanges
<1>5. Advances
  BY <1>1, <1>4 DEF Advances, osVars, Exchanges
<1>6. TargetOK'
  BY <1>1, <1>4, <1>5 DEF Advances, Inv, TargetOK
<1> QED BY <1>5, <1>6, AdvanceKeeps

LEMMA DecideKeeps ==
  ASSUME Inv, At("decide"), serving.command = "terminate",
         Policy(serving, Caller(serving.client)) = "allowed", GoTo("kill")
  PROVE  Advances /\ Inv'
<1>1. serving # Idle /\ serving.step = "decide"
  BY DEF At
<1>2. /\ Advances /\ serving'.step = "kill" /\ serving'.pinned = serving.pinned
      /\ serving'.seen = serving.seen /\ serving'.listed = serving.listed
  BY <1>1, GoToIs
<1>3. Policy(serving, Caller(serving.client))' = "allowed"
  BY <1>2 DEF Advances, Policy, Caller
<1>4. TargetOK'
  BY <1>1, <1>2, <1>3 DEF Advances, Inv, TargetOK
<1> QED BY <1>2, <1>4, AdvanceKeeps

-----------------------------------------------------------------------------
(* A process is ended. *)

Ends ==
  /\ serving # Idle /\ serving.step = "kill" /\ Running(serving.pid)
  /\ procs' = [procs EXCEPT ![serving.pid].status = "dying"]
  /\ kills' = kills \cup {[request |-> serving.id, client |-> serving.client,
                           created |-> procs[serving.pid].created]}
  /\ serving' = [serving EXCEPT !.step = "wait"]
  /\ UNCHANGED <<births, client, nextRequestId, audit>>

(* What the policy has made sure of. *)
LEMMA PolicyAllows ==
  ASSUME Inv, serving # Idle, serving.step = "kill"
  PROVE  LET c == serving.client
             p == serving.pid
         IN  /\ serving.command = "terminate"
             /\ Token[c].elevated /\ Token[c].administrator
             /\ p \notin Protected
             /\ procs[p].owner = Token[c].sid /\ procs[p].owner # SystemSid
             /\ procs[p].created = client[c].created /\ client[c].pid = p
<1>1. /\ serving.command = "terminate"
      /\ Policy(serving, Caller(serving.client)) = "allowed"
      /\ serving.seen = procs[serving.pid].created
      /\ client[serving.client].pid = serving.pid
      /\ client[serving.client].created = serving.created
      /\ serving.pinned /\ serving.pid \notin Protected
  BY DEF Inv, TargetOK, ExchangeOK
<1>2. /\ Token[serving.client].elevated /\ Token[serving.client].administrator
  BY <1>1 DEF Policy, Authorization, Caller
<1>3. /\ serving.seen = serving.created
      /\ procs[serving.pid].owner # SystemSid
      /\ procs[serving.pid].owner = Token[serving.client].sid
  BY <1>1, <1>2 DEF Policy, Authorization, Caller
<1> QED BY <1>1, <1>2, <1>3

LEMMA EndsKeeps ==
  ASSUME Inv, Ends
  PROVE  Inv'
<1> DEFINE old == procs[serving.pid]
           new == [old EXCEPT !.status = "dying"]
           kill == [request |-> serving.id, client |-> serving.client, created |-> old.created]
<1>1. /\ serving \in Exchanges /\ serving.pid \in Pids /\ serving.client \in Clients
      /\ serving.id \in Nat /\ old \in Processes /\ old # NoProcess
      /\ serving.pid \notin Protected /\ serving.pinned
  BY ServingTyped DEF Ends, Running, Inv, TypeOK, TargetOK
<1>2. /\ new \in Processes /\ new.created = old.created /\ new.owner = old.owner
      /\ new # NoProcess
  BY <1>1, TerminationAssumption DEF Processes
<1>3. procs' = [procs EXCEPT ![serving.pid] = new]
  BY DEF Ends
<1>4. /\ procs' \in [Pids -> Processes \cup {NoProcess}]
      /\ procs'[serving.pid] = new
      /\ \A p \in Pids : p # serving.pid => procs'[p] = procs[p]
  BY <1>1, <1>2, <1>3 DEF Inv, TypeOK
<1>5. /\ serving' \in Exchanges /\ serving'.step = "wait" /\ serving'.pid = serving.pid
      /\ serving'.client = serving.client /\ serving'.id = serving.id
      /\ serving'.command = serving.command /\ serving'.pinned = serving.pinned
      /\ serving'.created = serving.created /\ serving'.seen = serving.seen
  BY <1>1 DEF Ends, Exchanges
<1>6. /\ kill \in [request : Nat, client : Clients, created : Nat]
      /\ kill.request = serving.id /\ kill.client = serving.client
      /\ kill.created = old.created /\ kills' = kills \cup {kill}
  BY <1>1 DEF Ends, Processes
<1>7. serving # Idle /\ serving' # Idle /\ UNCHANGED <<births, client, nextRequestId, audit>>
  BY <1>5, TerminationAssumption DEF Ends
<1> HIDE DEF new, kill
<1>8. TypeOK'
  BY <1>4, <1>5, <1>6, <1>7 DEF Inv, TypeOK
<1>9. ProcessesOK'
  <2>1. \A p \in Pids : SameProcess(p)
    BY <1>1, <1>2, <1>4 DEF SameProcess
  <2> QED BY <1>4, <1>7, <2>1, ProcessesKept
<1>10. ClientsOK'
  BY <1>7 DEF Inv, ClientsOK
<1>11. serving.step = "kill"
  BY DEF Ends
<1>12. ExchangeOK'
  BY <1>5, <1>7, <1>11 DEF Inv, ExchangeOK
<1>13. Policy(serving, Caller(serving.client))' = "allowed"
  <2>1. Policy(serving, Caller(serving.client)) = "allowed"
    BY <1>7, <1>11 DEF Inv, TargetOK
  <2> QED BY <2>1, <1>2, <1>4, <1>5 DEF Policy, Caller
<1>14. TargetOK'
  BY <1>1, <1>2, <1>4, <1>5, <1>7, <1>11, <1>13 DEF Inv, TargetOK
<1>15. KillsOK'
  <2>1. /\ client[serving.client].pc \in {"terminating", "done"}
        /\ client[serving.client].created = old.created
        /\ serving.id \in 1..(nextRequestId - 1)
    <3>1. serving.command = "terminate" /\ client[serving.client].created = old.created
      BY <1>7, <1>11, PolicyAllows
    <3>2. client[serving.client].pc \notin {"start", "inspected", "inspecting"}
      BY <1>7, <3>1 DEF Inv, ExchangeOK
    <3>3. client[serving.client].pc # "waiting"
      BY <1>7, <3>1 DEF Inv, ExchangeOK
    <3>4. client[serving.client].pc \in {"terminating", "done"}
      BY <1>1, <3>2, <3>3, ClientTyped DEF ClientRecord
    <3>5. serving.id = nextRequestId - 1 /\ nextRequestId > 1 /\ nextRequestId \in Nat
      BY <1>7, <1>11, TerminationAssumption DEF Inv, ExchangeOK, TypeOK
    <3> QED BY <3>1, <3>4, <3>5
  <2>2. At("wait")'
    BY <1>5, <1>7 DEF At
  <2> QED BY <1>5, <1>6, <1>7, <2>1, <2>2 DEF Inv, KillsOK
<1> QED BY <1>8, <1>9, <1>10, <1>12, <1>14, <1>15 DEF Inv

-----------------------------------------------------------------------------
(* A request ends. *)

LEMMA AnswerIs ==
  ASSUME Inv, serving # Idle, NEW answer \in Answers, Answer(answer)
  PROVE  LET c == serving.client
         IN  /\ client' \in [Clients -> ClientRecord]
             /\ \A d \in Clients : d # c => client'[d] = client[d]
             /\ client'[c].pid = client[c].pid
             /\ \/ client[c].pc = "done" /\ client' = client
                \/ /\ client[c].pc = "inspecting" /\ answer = "inspection"
                   /\ client'[c].pc = "inspected" /\ client'[c].created = serving.seen
                   /\ client'[c].answer = client[c].answer
                \/ /\ client[c].pc # "done"
                   /\ client'[c].pc = "done" /\ client'[c].answer = answer
                   /\ client'[c].created = client[c].created
<1> DEFINE c == serving.client
           good == [client[c] EXCEPT !.pc = "inspected", !.created = serving.seen]
           last == [client[c] EXCEPT !.pc = "done", !.answer = answer]
<1>1. c \in Clients /\ client \in [Clients -> ClientRecord] /\ client[c] \in ClientRecord
      /\ serving.seen \in Nat
  BY ServingTyped, ClientTyped
<1>2. /\ good \in ClientRecord /\ good.pc = "inspected" /\ good.created = serving.seen
      /\ good.answer = client[c].answer /\ good.pid = client[c].pid
  BY <1>1 DEF ClientRecord
<1>3. /\ last \in ClientRecord /\ last.pc = "done" /\ last.answer = answer
      /\ last.created = client[c].created /\ last.pid = client[c].pid
  BY <1>1 DEF ClientRecord
<1>4. \/ client[c].pc = "done" /\ client' = client
      \/ /\ client[c].pc = "inspecting" /\ answer = "inspection"
         /\ client' = [client EXCEPT ![c] = good]
      \/ client[c].pc # "done" /\ client' = [client EXCEPT ![c] = last]
  BY DEF Answer
<1> HIDE DEF c, good, last
<1>5. CASE client[c].pc = "done" /\ client' = client
  BY <1>1, <1>5 DEF c
<1>6. CASE /\ client[c].pc = "inspecting" /\ answer = "inspection"
           /\ client' = [client EXCEPT ![c] = good]
  <2>1. /\ client' \in [Clients -> ClientRecord] /\ client'[c] = good
        /\ \A d \in Clients : d # c => client'[d] = client[d]
    BY <1>1, <1>2, <1>6
  <2> QED BY <1>1, <1>2, <1>6, <2>1 DEF c
<1>7. CASE client[c].pc # "done" /\ client' = [client EXCEPT ![c] = last]
  <2>1. /\ client' \in [Clients -> ClientRecord] /\ client'[c] = last
        /\ \A d \in Clients : d # c => client'[d] = client[d]
    BY <1>1, <1>3, <1>7
  <2> QED BY <1>1, <1>3, <1>7, <2>1 DEF c
<1> QED BY <1>4, <1>5, <1>6, <1>7

LEMMA CloseHandleIs ==
  ASSUME Inv, serving # Idle, CloseHandle
  PROVE  /\ procs' \in [Pids -> Processes \cup {NoProcess}]
         /\ \A p \in Pids :
              IF p = serving.pid /\ serving.pinned /\ ~Running(p)
                THEN procs'[p] = NoProcess ELSE procs'[p] = procs[p]
         /\ \A p \in Pids : SameProcess(p)
<1>1. serving.pid \in Pids /\ procs \in [Pids -> Processes \cup {NoProcess}]
  BY ServingTyped DEF Inv, TypeOK
<1>2. serving.pinned => serving.pid \notin Protected
  BY DEF Inv, TargetOK
<1>3. CASE serving.pinned /\ ~Running(serving.pid)
  <2>1. procs' = [procs EXCEPT ![serving.pid] = NoProcess]
    BY <1>3 DEF CloseHandle
  <2> QED BY <1>1, <1>2, <1>3, <2>1 DEF SameProcess
<1>4. CASE ~(serving.pinned /\ ~Running(serving.pid))
  <2>1. procs' = procs
    BY <1>4 DEF CloseHandle
  <2> QED BY <1>1, <1>4, <2>1 DEF SameProcess
<1> QED BY <1>3, <1>4

LEMMA IdleKeeps ==
  ASSUME Inv, serving # Idle, serving' = Idle, NEW answer \in Answers, Answer(answer),
         answer = "inspection" => serving.step = "decide",
         procs' \in [Pids -> Processes \cup {NoProcess}], \A p \in Pids : SameProcess(p),
         audit' \in Seq(Events), Len(audit') <= AuditCapacity,
         UNCHANGED <<births, nextRequestId, kills>>
  PROVE  Inv'
<1> DEFINE c == serving.client
<1>1. /\ c \in Clients
      /\ client' \in [Clients -> ClientRecord]
      /\ \A d \in Clients : d # c => client'[d] = client[d]
      /\ client'[c].pid = client[c].pid
      /\ \/ client[c].pc = "done" /\ client' = client
         \/ /\ client[c].pc = "inspecting" /\ answer = "inspection"
            /\ client'[c].pc = "inspected" /\ client'[c].created = serving.seen
            /\ client'[c].answer = client[c].answer
         \/ /\ client[c].pc # "done"
            /\ client'[c].pc = "done" /\ client'[c].answer = answer
            /\ client'[c].created = client[c].created
  BY AnswerIs, ServingTyped
<1> HIDE DEF c
<1>2. TypeOK'
  BY <1>1 DEF Inv, TypeOK, ClientRecord
<1>3. ProcessesOK'
  BY ProcessesKept
<1>4. answer = "inspection" => serving.seen <= births
  <2> SUFFICES ASSUME answer = "inspection" PROVE serving.seen <= births
    OBVIOUS
  <2>1. /\ serving.pid \in Pids \ Protected /\ procs[serving.pid] # NoProcess
        /\ serving.seen = procs[serving.pid].created
    BY ServingTyped DEF Inv, TargetOK
  <2>2. procs[serving.pid].created \in 1..births /\ births \in Nat
    BY <2>1 DEF Inv, ProcessesOK, TypeOK
  <2> QED BY <2>1, <2>2
<1>5. ClientsOK'
  <2>1. /\ client[c].created <= births
        /\ client[c].pc # "done" => client[c].answer = None
        /\ client[c].pc \notin {"start", "done"} => client[c].pid \in Pids
        /\ client[c].pc # "start"
        /\ client'[c].pc \in {"inspected", "done"}
    BY <1>1 DEF Inv, ClientsOK, ExchangeOK, c
  <2>2. /\ client'[c].created <= births
        /\ client'[c].pc # "done" => client'[c].answer = None
        /\ client'[c].pc \notin {"start", "done"} => client'[c].pid \in Pids
        /\ client'[c].pc \notin {"start", "inspecting"}
    BY <1>1, <1>4, <2>1
  <2> QED BY <1>1, <2>2 DEF Inv, ClientsOK
<1>6. ExchangeOK' /\ TargetOK'
  BY DEF ExchangeOK, TargetOK
<1>7. KillsOK'
  <2>1. ~At("wait")'
    BY DEF At
  <2>2. ASSUME NEW k \in kills
        PROVE  /\ client'[k.client].pc \in {"terminating", "done"}
               /\ client'[k.client].created = k.created
    <3>1. /\ client[k.client].pc \in {"terminating", "done"}
          /\ client[k.client].created = k.created /\ k.client \in Clients
      BY DEF Inv, KillsOK, TypeOK
    <3> QED BY <1>1, <3>1
  <2> QED BY <2>1, <2>2 DEF Inv, KillsOK
<1> QED BY <1>2, <1>3, <1>5, <1>6, <1>7 DEF Inv

-----------------------------------------------------------------------------
(* What the audit holds. *)

(* Adding one event to a full or a growing sink. *)
Trimmed(all, room) ==
  IF Len(all) - room > 0 THEN SubSeq(all, Len(all) - room + 1, Len(all)) ELSE all

AddsTo(b, a, e, room) ==
  /\ Len(b) = IF Len(a) < room THEN Len(a) + 1 ELSE room
  /\ \A i \in 1..Len(b) : b[i] = IF i = Len(b) THEN e ELSE a[Len(a) + 1 - Len(b) + i]

LEMMA TrimmedAppend ==
  ASSUME NEW S, NEW a \in Seq(S), NEW e \in S, NEW room \in Nat, Len(a) <= room
  PROVE  /\ Trimmed(Append(a, e), room) \in Seq(S)
         /\ AddsTo(Trimmed(Append(a, e), room), a, e, room)
<1> DEFINE ae == Append(a, e)
<1>0. PICK b : b = Trimmed(ae, room)
  OBVIOUS
<1>1. /\ Len(a) \in Nat /\ ae \in Seq(S) /\ Len(ae) = Len(a) + 1
      /\ \A i \in 1..Len(a) : ae[i] = a[i]
      /\ ae[Len(a) + 1] = e
  BY AppendProperties, LenProperties
<1>2. b = IF Len(ae) - room > 0 THEN SubSeq(ae, Len(ae) - room + 1, Len(ae)) ELSE ae
  BY <1>0 DEF Trimmed
<1> HIDE DEF ae
<1>3. ASSUME Len(a) < room
      PROVE  b \in Seq(S) /\ AddsTo(b, a, e, room)
  <2>1. b = ae
    BY <1>1, <1>2, <1>3
  <2>2. Len(b) = Len(a) + 1 /\ b \in Seq(S)
    BY <1>1, <2>1
  <2>3. \A i \in 1..Len(b) : b[i] = IF i = Len(b) THEN e ELSE a[Len(a) + 1 - Len(b) + i]
    <3> SUFFICES ASSUME NEW i \in 1..(Len(a) + 1)
                 PROVE  b[i] = IF i = Len(b) THEN e ELSE a[Len(a) + 1 - Len(b) + i]
      BY <2>2
    <3>1. CASE i = Len(a) + 1
      BY <1>1, <2>1, <2>2, <3>1
    <3>2. CASE i # Len(a) + 1
      <4>1. i \in 1..Len(a) /\ Len(a) + 1 - (Len(a) + 1) + i = i /\ i # Len(b)
        BY <1>1, <2>2, <3>2
      <4>2. b[i] = a[i]
        BY <1>1, <2>1, <4>1
      <4> QED BY <2>2, <4>1, <4>2
    <3> QED BY <3>1, <3>2
  <2> QED BY <1>3, <2>2, <2>3 DEF AddsTo
<1>4. ASSUME Len(a) = room
      PROVE  b \in Seq(S) /\ AddsTo(b, a, e, room)
  <2>1. b = SubSeq(ae, 2, Len(ae))
    <3>1. Len(ae) - room > 0 /\ Len(ae) - room + 1 = 2
      BY <1>1, <1>4
    <3> QED BY <1>2, <3>1
  <2>2. ae # <<>> /\ b = Tail(ae)
    <3>1. ae # <<>>
      BY <1>1, EmptySeq
    <3> QED BY <2>1, <3>1, <1>1, TailIsSubSeq
  <2>3. /\ b \in Seq(S) /\ Len(b) = Len(a)
        /\ \A i \in 1..Len(b) : b[i] = ae[i + 1]
    <3>1. /\ Tail(ae) \in Seq(S) /\ Len(Tail(ae)) = Len(ae) - 1
          /\ \A i \in 1..Len(Tail(ae)) : Tail(ae)[i] = ae[i + 1]
      BY <2>2, <1>1, HeadTailProperties
    <3>2. Len(ae) - 1 = Len(a)
      BY <1>1
    <3> QED BY <2>2, <3>1, <3>2
  <2>4. \A i \in 1..Len(b) : b[i] = IF i = Len(b) THEN e ELSE a[Len(a) + 1 - Len(b) + i]
    <3> SUFFICES ASSUME NEW i \in 1..Len(a)
                 PROVE  b[i] = IF i = Len(b) THEN e ELSE a[Len(a) + 1 - Len(b) + i]
      BY <2>3
    <3>1. b[i] = ae[i + 1] /\ Len(b) = Len(a)
      BY <2>3
    <3>2. CASE i = Len(a)
      BY <1>1, <3>1, <3>2
    <3>3. CASE i # Len(a)
      <4>1. i + 1 \in 1..Len(a) /\ Len(a) + 1 - Len(a) + i = i + 1
        BY <1>1, <3>3
      <4>2. b[i] = a[i + 1]
        BY <1>1, <3>1, <4>1
      <4>3. i # Len(b) /\ Len(a) + 1 - Len(b) + i = i + 1
        BY <3>1, <3>3, <4>1
      <4> QED BY <4>2, <4>3, Zenon
    <3> QED BY <3>2, <3>3
  <2>5. Len(b) = IF Len(a) < room THEN Len(a) + 1 ELSE room
    <3>1. Len(b) = room /\ ~(Len(a) < room)
      BY <1>1, <1>4, <2>3
    <3> QED BY <3>1
  <2> QED BY <2>3, <2>4, <2>5 DEF AddsTo
<1>5. Len(a) < room \/ Len(a) = room
  BY <1>1
<1> QED BY <1>0, <1>3, <1>4, <1>5 DEF ae

(* The event of the request served. *)
EventOfServed(outcome, reason, target) ==
  [request |-> serving.id, capability |-> Capability(serving.command),
   outcome |-> outcome, reason |-> reason, target |-> target]

LEMMA RecordIs ==
  ASSUME Inv, serving # Idle,
         NEW outcome \in {"succeeded", "rejected", "failed"}, NEW reason \in Reasons,
         NEW target \in Pids \cup {None}, Record(outcome, reason, target)
  PROVE  /\ audit' \in Seq(Events) /\ Len(audit') <= AuditCapacity
         /\ AddsTo(audit', audit, EventOfServed(outcome, reason, target), AuditCapacity)
<1>1. EventOfServed(outcome, reason, target) \in Events
  <2>1. serving.id \in Nat /\ serving.command \in Commands
    BY ServingTyped
  <2>2. Capability(serving.command) \in {"read_only", "process_inspect", "process_terminate"}
    BY <2>1 DEF Capability, Commands
  <2> QED BY <2>1, <2>2 DEF EventOfServed, Events
<1>2. PICK e \in Events : e = EventOfServed(outcome, reason, target)
  BY <1>1
<1>3. /\ audit \in Seq(Events) /\ Len(audit) <= AuditCapacity /\ AuditCapacity \in Nat
      /\ Len(audit) \in Nat
  BY TerminationAssumption, LenProperties DEF Inv, TypeOK
<1>4. audit' = Trimmed(Append(audit, e), AuditCapacity)
  BY <1>2 DEF Record, EventOfServed, Trimmed
<1>5. audit' \in Seq(Events) /\ AddsTo(audit', audit, e, AuditCapacity)
  BY <1>2, <1>3, <1>4, TrimmedAppend
<1>6. Len(audit') <= AuditCapacity
  BY <1>3, <1>5 DEF AddsTo
<1> QED BY <1>2, <1>5, <1>6

(* The last step of a request, and what it may claim.                       *)
Concludes ==
  \E outcome \in {"succeeded", "rejected", "failed"}, reason \in Reasons,
     target \in Pids \cup {None}, answer \in Answers :
    /\ serving # Idle /\ serving.step # "received"
    /\ Finish(outcome, reason, target, answer)
    /\ outcome = "succeeded" /\ serving.command = "terminate" => serving.step = "wait"
    /\ outcome = "rejected" => serving.step # "wait"
    /\ answer = "inspection" => serving.step = "decide" /\ serving.command = "inspect"
    /\ answer = "terminated" => serving.step = "wait" /\ ~Running(serving.pid)
    /\ answer = "terminate_pending" => serving.step = "wait"
    /\ answer = "refused" => serving.step # "wait"

LEMMA ConcludesKeeps ==
  ASSUME Inv, Concludes
  PROVE  Inv'
<1>1. PICK outcome \in {"succeeded", "rejected", "failed"}, reason \in Reasons,
           target \in Pids \cup {None}, answer \in Answers :
        /\ serving # Idle /\ serving.step # "received"
        /\ Finish(outcome, reason, target, answer)
        /\ answer = "inspection" => serving.step = "decide"
  BY DEF Concludes
<1>2. /\ Record(outcome, reason, target) /\ CloseHandle /\ Answer(answer)
      /\ serving' = Idle /\ UNCHANGED <<births, nextRequestId, kills>>
  BY <1>1 DEF Finish
<1>3. audit' \in Seq(Events) /\ Len(audit') <= AuditCapacity
  BY <1>1, <1>2, RecordIs
<1>4. /\ procs' \in [Pids -> Processes \cup {NoProcess}]
      /\ \A p \in Pids : SameProcess(p)
  BY <1>1, <1>2, CloseHandleIs
<1> QED BY <1>1, <1>2, <1>3, <1>4, IdleKeeps

(* Every way out of a request is one of them. *)
LEMMA RejectConcludes ==
  ASSUME Inv, serving # Idle, serving.step \notin {"received", "wait"},
         NEW reason \in Reasons, Reject(reason)
  PROVE  Concludes
<1>1. serving.pid \in Pids
  BY ServingTyped
<1>2. Finish("rejected", reason, serving.pid, "refused")
  BY DEF Reject
<1> QED BY <1>1, <1>2 DEF Concludes, Answers

LEMMA FailConcludes ==
  ASSUME Inv, serving # Idle, serving.step # "received", Fail
  PROVE  Concludes
<1>1. serving.pid \in Pids /\ "windows_failure" \in Reasons
  BY ServingTyped DEF Reasons
<1>2. Finish("failed", "windows_failure", serving.pid, "error")
  BY DEF Fail
<1> QED BY <1>1, <1>2 DEF Concludes, Answers

(* An end that is neither a success nor a refusal. *)
LEMMA ErrorConcludes ==
  ASSUME Inv, serving # Idle, serving.step # "received",
         NEW outcome \in {"failed", "rejected"}, NEW reason \in Reasons,
         NEW target \in Pids \cup {None}, Finish(outcome, reason, target, "error"),
         outcome = "rejected" => serving.step # "wait"
  PROVE  Concludes
<1>1. "error" \in Answers
  BY DEF Answers
<1> QED BY <1>1 DEF Concludes

(* An end that reports a success. *)
LEMMA SuccessConcludes ==
  ASSUME Inv, serving # Idle, serving.step # "received",
         NEW target \in Pids \cup {None}, NEW answer \in Answers,
         Finish("succeeded", None, target, answer),
         \/ answer = "ok" /\ serving.command = "readonly"
         \/ answer = "inspection" /\ serving.step = "decide" /\ serving.command = "inspect"
         \/ answer = "terminated" /\ serving.step = "wait" /\ ~Running(serving.pid)
         \/ answer = "terminate_pending" /\ serving.step = "wait"
  PROVE  Concludes
<1>1. None \in Reasons
  BY DEF Reasons
<1> QED BY <1>1 DEF Concludes

(* Every step of the service is of one of these kinds. *)
LEMMA ServiceSteps ==
  ASSUME Inv, Service
  PROVE  (Advances /\ Inv') \/ Ends \/ Concludes \/ ExhaustIds
<1>0. /\ serving # Idle
      /\ serving.pid \in Pids /\ serving.pid \in Pids \cup {None} /\ None \in Pids \cup {None}
      /\ {"ok", "inspection", "terminated", "terminate_pending"} \subseteq Answers
      /\ {None, "malformed_payload", "windows_failure", "rate_limited", "access_denied",
          "target_not_found"} \subseteq Reasons
  <2>1. serving # Idle
    BY DEF Service, At, Dispatch, ExhaustIds, RefuseMalformed, AnswerReadOnly, PassInspect,
           RejectUnauthorized, RejectOverLimit, PassGate, AtGate, RejectTarget, OpenTarget,
           ListTarget, ReadTarget, FinishInspect, DecidePolicy, Kill, WaitTarget
  <2> QED BY <2>1, ServingTyped DEF Answers, Reasons
<1>1. CASE Dispatch \/ PassGate \/ PassInspect \/ OpenTarget
  BY <1>1, DispatchKeeps, PassKeeps, OpenKeeps
<1>2. CASE ExhaustIds
  BY <1>2
<1>3. CASE RefuseMalformed
  <2>1. serving.step # "received" /\ Finish("failed", "malformed_payload", None, "error")
    BY <1>3 DEF RefuseMalformed, At
  <2> QED BY <1>0, <2>1, ErrorConcludes
<1>4. CASE AnswerReadOnly
  <2>1. serving.step # "received" /\ serving.command = "readonly"
    BY <1>4 DEF AnswerReadOnly, At
  <2>2. CASE Finish("succeeded", None, None, "ok")
    BY <1>0, <2>1, <2>2, SuccessConcludes
  <2>3. CASE Finish("failed", "windows_failure", None, "error")
    BY <1>0, <2>1, <2>3, ErrorConcludes
  <2> QED BY <1>4, <2>2, <2>3 DEF AnswerReadOnly
<1>5. CASE RejectUnauthorized
  <2>1. serving.step \notin {"received", "wait"}
    BY <1>5 DEF RejectUnauthorized, AtGate, At
  <2>2. CASE Fail
    BY <1>0, <2>1, <2>2, FailConcludes
  <2>3. CASE ~Fail
    <3> DEFINE verdict == Authorization(Caller(serving.client))
    <3>1. verdict # "authorized" /\ Reject(verdict)
      BY <1>5, <2>3 DEF RejectUnauthorized
    <3>2. verdict \in Reasons
      BY <3>1 DEF Authorization, Reasons
    <3> QED BY <1>0, <2>1, <3>1, <3>2, RejectConcludes
  <2> QED BY <2>2, <2>3
<1>6. CASE RejectOverLimit
  <2>1. /\ serving.step = "dispatched"
        /\ Finish("rejected", "rate_limited", None, "error")
    BY <1>6 DEF RejectOverLimit, AtGate, At
  <2> QED BY <1>0, <2>1, ErrorConcludes
<1>7. CASE RejectTarget
  <2> DEFINE verdict == Opening(serving, Caller(serving.client))
             reason == IF verdict = "open" THEN "access_denied" ELSE verdict
  <2>1. serving.step \notin {"received", "wait"} /\ Reject(reason)
    BY <1>7 DEF RejectTarget, At
  <2>2. verdict \in {"caller_not_elevated", "caller_not_admin", "target_protected",
                     "target_not_found", "open"}
    BY DEF Opening, Authorization
  <2>3. reason \in Reasons
    BY <2>2 DEF Reasons
  <2> QED BY <1>0, <2>1, <2>3, RejectConcludes
<1>8. CASE ListTarget
  <2>1. At("list") /\ serving.step \notin {"received", "wait"}
    BY <1>8 DEF ListTarget, At
  <2>2. CASE /\ Running(serving.pid)
             /\ serving' = [serving EXCEPT !.listed = Created(serving.pid), !.step = "read"]
             /\ UNCHANGED <<osVars, client, nextRequestId, audit, kills>>
    BY <2>1, <2>2, ListKeeps
  <2>3. CASE Reject("target_not_found")
    BY <1>0, <2>1, <2>3, RejectConcludes
  <2>4. CASE Fail
    BY <1>0, <2>1, <2>4, FailConcludes
  <2> QED BY <1>8, <2>2, <2>3, <2>4 DEF ListTarget
<1>9. CASE ReadTarget
  <2>1. At("read") /\ serving.step # "received"
    BY <1>9 DEF ReadTarget, At
  <2>2. CASE /\ serving' = [serving EXCEPT !.seen = Created(serving.pid), !.step = "decide"]
             /\ UNCHANGED <<osVars, client, nextRequestId, audit, kills>>
    BY <2>1, <2>2, ReadKeeps
  <2>3. CASE Fail
    BY <1>0, <2>1, <2>3, FailConcludes
  <2>4. CASE Finish("failed", "malformed_payload", serving.pid, "error")
    BY <1>0, <2>1, <2>4, ErrorConcludes
  <2> QED BY <1>9, <2>2, <2>3, <2>4 DEF ReadTarget
<1>10. CASE FinishInspect
  <2>1. serving.step = "decide" /\ serving.command = "inspect"
    BY <1>10 DEF FinishInspect, At
  <2>2. CASE Finish("succeeded", None, serving.pid, "inspection")
    BY <1>0, <2>1, <2>2, SuccessConcludes
  <2>3. CASE Finish("failed", "malformed_payload", serving.pid, "error")
    BY <1>0, <2>1, <2>3, ErrorConcludes
  <2> QED BY <1>10, <2>2, <2>3 DEF FinishInspect
<1>11. CASE DecidePolicy
  <2> DEFINE verdict == Policy(serving, Caller(serving.client))
  <2>1. At("decide") /\ serving.step \notin {"received", "wait"} /\ serving.command = "terminate"
    BY <1>11 DEF DecidePolicy, At
  <2>2. CASE verdict = "allowed"
    <3>1. GoTo("kill")
      BY <1>11, <2>2 DEF DecidePolicy
    <3> QED BY <2>1, <2>2, <3>1, DecideKeeps
  <2>3. CASE verdict # "allowed"
    <3>1. Reject(verdict)
      BY <1>11, <2>3 DEF DecidePolicy
    <3>2. verdict \in Reasons
      BY <2>3 DEF Policy, Authorization, Reasons
    <3> QED BY <1>0, <2>1, <3>1, <3>2, RejectConcludes
  <2> QED BY <2>2, <2>3
<1>12. CASE Kill
  <2>1. serving.step = "kill"
    BY <1>12 DEF Kill, At
  <2>2. CASE Reject("access_denied")
    BY <1>0, <2>1, <2>2, RejectConcludes
  <2>3. CASE ~Reject("access_denied")
    BY <1>0, <1>12, <2>1, <2>3 DEF Kill, Ends
  <2> QED BY <2>2, <2>3
<1>13. CASE WaitTarget
  <2>1. serving.step = "wait"
    BY <1>13 DEF WaitTarget, At
  <2>2. CASE ~Running(serving.pid) /\ Finish("succeeded", None, serving.pid, "terminated")
    BY <1>0, <2>1, <2>2, SuccessConcludes
  <2>3. CASE Finish("succeeded", None, serving.pid, "terminate_pending")
    BY <1>0, <2>1, <2>3, SuccessConcludes
  <2>4. CASE Fail
    BY <1>0, <2>1, <2>4, FailConcludes
  <2> QED BY <1>13, <2>2, <2>3, <2>4 DEF WaitTarget
<1> QED BY <1>1, <1>2, <1>3, <1>4, <1>5, <1>6, <1>7, <1>8, <1>9, <1>10, <1>11, <1>12, <1>13
        DEF Service

LEMMA ExhaustKeeps ==
  ASSUME Inv, ExhaustIds
  PROVE  Inv'
<1>1. /\ serving # Idle /\ serving' = Idle /\ Answer("error") /\ "error" \in Answers
      /\ UNCHANGED <<procs, births, nextRequestId, audit, kills>>
  BY DEF ExhaustIds, At, osVars, Answers
<1>2. \A p \in Pids : SameProcess(p)
  BY <1>1 DEF SameProcess
<1>3. /\ procs' \in [Pids -> Processes \cup {NoProcess}]
      /\ audit' \in Seq(Events) /\ Len(audit') <= AuditCapacity
  BY <1>1 DEF Inv, TypeOK
<1>4. "error" # "inspection"
  OBVIOUS
<1> QED BY <1>1, <1>2, <1>3, <1>4, IdleKeeps

(* Nothing that counts has changed. *)
LEMMA StutterKeeps ==
  ASSUME Inv, UNCHANGED <<procs, births, client, serving, nextRequestId, audit, kills>>
  PROVE  Inv'
BY DEF Inv, TypeOK, ProcessesOK, Running, ClientsOK, ExchangeOK, TargetOK, Policy, Caller,
       KillsOK, At

LEMMA NextKeeps ==
  ASSUME Inv, [Next]_vars
  PROVE  Inv'
<1>1. CASE Service
  BY <1>1, ServiceSteps, EndsKeeps, ConcludesKeeps, ExhaustKeeps
<1>2. CASE Environment
  <2>1. CASE ClockTick
    BY <2>1, StutterKeeps DEF ClockTick, osVars
  <2>2. CASE \E p \in Pids : \/ \E owner \in Sids \cup {SystemSid} : CreateProcess(p, owner)
                             \/ ExitProcess(p)
    BY <2>2, CreateKeeps, ExitKeeps
  <2>3. CASE \E c \in CliRuns : SendTerminate(c) \/ \E p \in Pids : SendInspect(c, p)
    BY <2>3, SendTerminateKeeps, SendInspectKeeps
  <2>4. CASE \E c \in RawClients, command \in Commands :
               \E p \in Pids, time \in 0..births, wellFormed \in BOOLEAN :
                 SendRaw(c, command, p, time, wellFormed)
    BY <2>4, SendRawKeeps
  <2>5. CASE \E c \in Clients : LoseClient(c)
    BY <2>5, LoseClientKeeps
  <2> QED BY <1>2, <2>1, <2>2, <2>3, <2>4, <2>5 DEF Environment
<1>3. CASE UNCHANGED vars
  BY <1>3, StutterKeeps DEF vars
<1> QED BY <1>1, <1>2, <1>3 DEF Next

LEMMA InitHolds ==
  ASSUME Init
  PROVE  Inv
<1>1. /\ births = 0 /\ nextRequestId = 1 /\ audit = <<>> /\ kills = {} /\ serving = Idle
      /\ procs = [p \in Pids |-> IF p \in Protected
                                   THEN [created |-> 0, owner |-> SystemSid,
                                         status |-> "running"]
                                   ELSE NoProcess]
      /\ client = [c \in Clients |-> [pc |-> "start", pid |-> None, created |-> 0,
                                      answer |-> None]]
  BY DEF Init
<1>2. /\ MaxBirths \in Nat /\ MaxRequestId \in Nat \ {0} /\ AuditCapacity \in Nat
      /\ Protected \subseteq Pids /\ NoProcess \notin Processes
  BY TerminationAssumption
<1>3. [created |-> 0, owner |-> SystemSid, status |-> "running"] \in Processes
  BY DEF Processes
<1>4. /\ \A p \in Protected : procs[p] \in Processes /\ procs[p].created = 0
                              /\ procs[p].status = "running"
      /\ \A p \in Pids \ Protected : procs[p] = NoProcess
      /\ procs \in [Pids -> Processes \cup {NoProcess}]
  BY <1>1, <1>2, <1>3
<1>5. audit \in Seq(Events) /\ Len(audit) = 0
  BY <1>1
<1>6. TypeOK
  BY <1>1, <1>2, <1>4, <1>5 DEF TypeOK
<1>7. ProcessesOK
  BY <1>1, <1>2, <1>4 DEF ProcessesOK, Running
<1>8. ClientsOK /\ ExchangeOK /\ TargetOK /\ KillsOK
  BY <1>1 DEF ClientsOK, ExchangeOK, TargetOK, KillsOK, At
<1> QED BY <1>6, <1>7, <1>8 DEF Inv

LEMMA InvHolds == Spec => []Inv
<1>1. Init => Inv
  BY InitHolds
<1>2. Inv /\ [Next]_vars => Inv'
  BY NextKeeps
<1> QED BY <1>1, <1>2, PTL DEF Spec

(* The types hold. *)
THEOREM TypesHold == Spec => []TypeOK
<1>1. Inv => TypeOK
  BY DEF Inv
<1> QED BY <1>1, InvHolds, PTL

(* Name, threads and creation time of an inspection are of one process.     *)
THEOREM InspectionsAreOfOneProcess == Spec => []InspectionIsOfOneProcess
<1>1. Inv => InspectionIsOfOneProcess
  BY DEF Inv, TargetOK, InspectionIsOfOneProcess, At
<1> QED BY <1>1, InvHolds, PTL

-----------------------------------------------------------------------------
(* The promise of the termination path. *)

ShownProcs ==
  [p \in Pids |-> IF Running(p) THEN [created |-> procs[p].created, owner |-> procs[p].owner]
                  ELSE NoProcess]
ShownAsked ==
  [c \in Clients |-> IF client[c].created = 0 THEN None
                     ELSE [pid |-> client[c].pid, created |-> client[c].created]]
ShownEnded == {<<k.client, k.created>> : k \in kills}

LEMMA GuardInit == Init => Guard!Init
<1> SUFFICES ASSUME Init PROVE Guard!Init
  OBVIOUS
<1>0. /\ Protected \subseteq Pids
      /\ [created |-> 0, owner |-> SystemSid, status |-> "running"] # NoProcess
  <2>1. [created |-> 0, owner |-> SystemSid, status |-> "running"] \in Processes
    BY DEF Processes
  <2> QED BY <2>1, TerminationAssumption
<1>1. ShownProcs = [p \in Pids |-> IF p \in Protected
                                     THEN [created |-> 0, owner |-> SystemSid]
                                     ELSE NoProcess]
  BY <1>0 DEF ShownProcs, Init, Running
<1>2. ShownAsked = [c \in Clients |-> None]
  BY DEF ShownAsked, Init
<1>3. ShownEnded = {}
  BY DEF ShownEnded, Init
<1> QED BY <1>1, <1>2, <1>3 DEF Guard!Init, ShownProcs, ShownAsked, ShownEnded

(* What is not touched is shown as before. *)
LEMMA ShownStays ==
  /\ (\A p \in Pids : /\ Running(p)' = Running(p)
                      /\ Running(p) => /\ procs'[p].created = procs[p].created
                                       /\ procs'[p].owner = procs[p].owner)
       => ShownProcs' = ShownProcs
  /\ (\A c \in Clients : /\ client'[c].created = client[c].created
                         /\ client[c].created # 0 => client'[c].pid = client[c].pid)
       => ShownAsked' = ShownAsked
  /\ kills' = kills => ShownEnded' = ShownEnded
<1>1. ASSUME \A p \in Pids : /\ Running(p)' = Running(p)
                             /\ Running(p) => /\ procs'[p].created = procs[p].created
                                              /\ procs'[p].owner = procs[p].owner
      PROVE  ShownProcs' = ShownProcs
  BY <1>1 DEF ShownProcs
<1>2. ASSUME \A c \in Clients : /\ client'[c].created = client[c].created
                                /\ client[c].created # 0 => client'[c].pid = client[c].pid
      PROVE  ShownAsked' = ShownAsked
  BY <1>2 DEF ShownAsked
<1>3. kills' = kills => ShownEnded' = ShownEnded
  BY DEF ShownEnded
<1> QED BY <1>1, <1>2, <1>3

LEMMA NothingShown ==
  ASSUME ShownProcs' = ShownProcs, ShownAsked' = ShownAsked, ShownEnded' = ShownEnded
  PROVE  [Guard!Next]_(Guard!vars)
BY DEF Guard!vars, ShownProcs, ShownAsked, ShownEnded

(* A client that had named nothing names a process. *)
LEMMA AskShown ==
  ASSUME Inv, NEW c \in Clients, NEW p \in Pids, NEW time \in 1..births,
         client[c].created = 0,
         client' \in [Clients -> ClientRecord], client'[c].pid = p, client'[c].created = time,
         \A d \in Clients : d # c => client'[d] = client[d],
         ShownProcs' = ShownProcs, ShownEnded' = ShownEnded
  PROVE  [Guard!Next]_(Guard!vars)
<1>1. time \in 0..MaxBirths /\ time # 0
  BY TerminationAssumption DEF Inv, TypeOK
<1>2. ShownAsked[c] = None
  BY DEF ShownAsked
<1>3. ShownAsked' = [ShownAsked EXCEPT ![c] = [pid |-> p, created |-> time]]
  BY <1>1 DEF ShownAsked
<1>4. Guard!Ask(c, p, time)
  BY <1>2, <1>3 DEF Guard!Ask, ShownProcs, ShownAsked, ShownEnded
<1> QED BY <1>1, <1>4 DEF Guard!Next

(* Only the answer to a good inspection makes its client name a process. *)
LEMMA AnswerShown ==
  ASSUME Inv, serving # Idle, NEW answer \in Answers, Answer(answer),
         answer = "inspection" => serving.step = "decide",
         ShownProcs' = ShownProcs, ShownEnded' = ShownEnded
  PROVE  [Guard!Next]_(Guard!vars)
<1> DEFINE c == serving.client
<1>1. /\ c \in Clients
      /\ client' \in [Clients -> ClientRecord]
      /\ \A d \in Clients : d # c => client'[d] = client[d]
      /\ client'[c].pid = client[c].pid
      /\ \/ client[c].pc = "done" /\ client' = client
         \/ /\ client[c].pc = "inspecting" /\ answer = "inspection"
            /\ client'[c].pc = "inspected" /\ client'[c].created = serving.seen
            /\ client'[c].answer = client[c].answer
         \/ /\ client[c].pc # "done"
            /\ client'[c].pc = "done" /\ client'[c].answer = answer
            /\ client'[c].created = client[c].created
  BY AnswerIs, ServingTyped
<1>2. client[c].pid = serving.pid /\ serving.pid \in Pids
  BY ServingTyped DEF Inv, ExchangeOK
<1> HIDE DEF c
<1>3. CASE client'[c].created = client[c].created
  <2>1. \A d \in Clients : /\ client'[d].created = client[d].created
                           /\ client'[d].pid = client[d].pid
    BY <1>1, <1>3
  <2> QED BY <2>1, ShownStays, NothingShown
<1>4. CASE client'[c].created # client[c].created
  <2>1. client[c].pc = "inspecting" /\ answer = "inspection" /\ client'[c].created = serving.seen
    BY <1>1, <1>4
  <2>2. client[c].created = 0
    BY <1>1, <2>1 DEF Inv, ClientsOK
  <2>3. serving.seen \in 1..births
    <3>1. /\ serving.pid \in Pids \ Protected /\ procs[serving.pid] # NoProcess
          /\ serving.seen = procs[serving.pid].created
      BY <2>1, ServingTyped DEF Inv, TargetOK
    <3> QED BY <3>1 DEF Inv, ProcessesOK
  <2> QED BY <1>1, <1>2, <2>1, <2>2, <2>3, AskShown
<1> QED BY <1>3, <1>4

(* A process is ended as the request asks. *)
LEMMA EndShown ==
  ASSUME Inv, Ends
  PROVE  [Guard!Next]_(Guard!vars)
<1>0. PICK c \in Clients, p \in Pids : c = serving.client /\ p = serving.pid
  BY ServingTyped DEF Ends
<1>1. /\ serving # Idle /\ serving.step = "kill" /\ Running(p)
      /\ procs' = [procs EXCEPT ![p].status = "dying"]
      /\ kills' = kills \cup {[request |-> serving.id, client |-> c,
                               created |-> procs[p].created]}
      /\ client' = client
  BY <1>0 DEF Ends
<1>2. /\ c \in Clients /\ p \in Pids
      /\ procs[p] \in Processes /\ procs \in [Pids -> Processes \cup {NoProcess}]
  BY <1>1, ServingTyped DEF Inv, TypeOK, Running
<1>3. /\ Token[c].elevated /\ Token[c].administrator
      /\ p \notin Protected
      /\ procs[p].owner = Token[c].sid /\ procs[p].owner # SystemSid
      /\ procs[p].created = client[c].created /\ client[c].pid = p
  BY <1>0, <1>1, PolicyAllows
<1>4. procs[p].created # 0 /\ procs[p].created \in Nat
  <2>1. procs[p] # NoProcess /\ births \in Nat
    BY <1>1 DEF Running, Inv, TypeOK
  <2>2. procs[p].created \in 1..births
    BY <1>2, <1>3, <2>1 DEF Inv, ProcessesOK
  <2> QED BY <2>1, <2>2
<1>5. ShownProcs' = ShownProcs /\ ShownAsked' = ShownAsked
  <2>1. procs' = [procs EXCEPT ![p] = [procs[p] EXCEPT !.status = "dying"]]
    BY <1>1
  <2>2. /\ [procs[p] EXCEPT !.status = "dying"] \in Processes
        /\ [procs[p] EXCEPT !.status = "dying"].status = "dying"
        /\ [procs[p] EXCEPT !.status = "dying"].created = procs[p].created
        /\ [procs[p] EXCEPT !.status = "dying"].owner = procs[p].owner
    BY <1>2 DEF Processes
  <2>3. \A q \in Pids : /\ Running(q)' = Running(q)
                        /\ Running(q) => /\ procs'[q].created = procs[q].created
                                         /\ procs'[q].owner = procs[q].owner
    BY <1>1, <1>2, <2>1, <2>2, TerminationAssumption DEF Running
  <2> QED BY <1>1, <2>3, ShownStays
<1>6. ShownAsked[c] = [pid |-> p, created |-> procs[p].created]
  BY <1>2, <1>3, <1>4 DEF ShownAsked
<1>7. ShownAsked[c] # None
  BY <1>2, <1>4, <1>6, TerminationAssumption
<1>8. /\ ShownProcs[p] = [created |-> procs[p].created, owner |-> procs[p].owner]
      /\ ShownProcs[p] # NoProcess
  <2>1. ShownProcs[p] = [created |-> procs[p].created, owner |-> procs[p].owner]
    BY <1>1, <1>2 DEF ShownProcs
  <2>2. [created |-> procs[p].created, owner |-> procs[p].owner]
          \in [created : Nat, owner : Sids \cup {SystemSid}]
    BY <1>2 DEF Processes
  <2> QED BY <2>1, <2>2, TerminationAssumption
<1>9. <<c, procs[p].created>> \notin ShownEnded
  <2>1. \A k \in kills : k.client # c
    BY <1>0, <1>1 DEF Inv, KillsOK
  <2> QED BY <2>1 DEF ShownEnded
<1>10. ShownEnded' = ShownEnded \cup {<<c, procs[p].created>>}
  <2> DEFINE k == [request |-> serving.id, client |-> c, created |-> procs[p].created]
  <2>1. kills' = kills \cup {k} /\ <<k.client, k.created>> = <<c, procs[p].created>>
    BY <1>1
  <2> HIDE DEF k
  <2>2. ShownEnded' = ShownEnded \cup {<<k.client, k.created>>}
    BY <2>1 DEF ShownEnded
  <2> QED BY <2>1, <2>2
<1>11. Guard!Named(c)
  <2>1. /\ ShownAsked[c] # None
        /\ ShownProcs[ShownAsked[c].pid] # NoProcess
        /\ ShownProcs[ShownAsked[c].pid].created = ShownAsked[c].created
    BY <1>6, <1>7, <1>8
  <2> QED BY <2>1 DEF Guard!Named, ShownProcs, ShownAsked
<1>12. Guard!MayEnd(c)
  <2>1. /\ ShownAsked[c].pid \notin Protected
        /\ ShownProcs[ShownAsked[c].pid].owner = Token[c].sid
        /\ ShownProcs[ShownAsked[c].pid].owner # SystemSid
    BY <1>3, <1>6, <1>8
  <2> QED BY <1>3, <2>1 DEF Guard!MayEnd, ShownProcs, ShownAsked
<1>13. Guard!End(c)
  <2>1. ShownAsked[c].created = procs[p].created
    BY <1>6
  <2>2. /\ <<c, ShownAsked[c].created>> \notin ShownEnded
        /\ ShownEnded' = ShownEnded \cup {<<c, ShownAsked[c].created>>}
    BY <1>9, <1>10, <2>1
  <2> QED BY <1>5, <1>11, <1>12, <2>2, Zenon
          DEF Guard!End, ShownProcs, ShownAsked, ShownEnded
<1>14. Guard!Next
  BY <1>2, <1>13, Zenon DEF Guard!Next
<1> QED BY <1>14

LEMMA ServiceShown ==
  ASSUME Inv, Service
  PROVE  [Guard!Next]_(Guard!vars)
<1>1. CASE Advances
  <2>1. procs' = procs /\ client' = client /\ kills' = kills
    BY <1>1 DEF Advances
  <2> QED BY <2>1, NothingShown DEF ShownProcs, ShownAsked, ShownEnded, Running
<1>2. CASE Ends
  BY <1>2, EndShown
<1>3. CASE Concludes
  <2>1. PICK outcome \in {"succeeded", "rejected", "failed"}, reason \in Reasons,
             target \in Pids \cup {None}, answer \in Answers :
          /\ serving # Idle
          /\ Finish(outcome, reason, target, answer)
          /\ answer = "inspection" => serving.step = "decide"
    BY <1>3 DEF Concludes
  <2>2. CloseHandle /\ Answer(answer) /\ kills' = kills
    BY <2>1 DEF Finish
  <2>3. \A p \in Pids : /\ Running(p)' = Running(p)
                        /\ Running(p) => /\ procs'[p].created = procs[p].created
                                         /\ procs'[p].owner = procs[p].owner
    BY <2>1, <2>2, CloseHandleIs DEF Running
  <2>4. ShownProcs' = ShownProcs /\ ShownEnded' = ShownEnded
    BY <2>2, <2>3, ShownStays
  <2> QED BY <2>1, <2>2, <2>4, AnswerShown
<1>4. CASE ExhaustIds
  <2>1. /\ serving # Idle /\ Answer("error") /\ "error" \in Answers /\ "error" # "inspection"
        /\ procs' = procs /\ kills' = kills
    BY <1>4 DEF ExhaustIds, At, osVars, Answers
  <2>2. ShownProcs' = ShownProcs /\ ShownEnded' = ShownEnded
    BY <2>1 DEF ShownProcs, ShownEnded, Running
  <2> QED BY <2>1, <2>2, AnswerShown
<1> QED BY <1>1, <1>2, <1>3, <1>4, ServiceSteps

LEMMA CreateShown ==
  ASSUME Inv, NEW p \in Pids, NEW owner \in Sids \cup {SystemSid}, CreateProcess(p, owner)
  PROVE  [Guard!Next]_(Guard!vars)
<1>1. /\ procs[p] = NoProcess /\ births < MaxBirths /\ client' = client /\ kills' = kills
      /\ births \in 0..MaxBirths /\ MaxBirths \in Nat
  BY TerminationAssumption DEF CreateProcess, Inv, TypeOK
<1>2. /\ [created |-> births + 1, owner |-> owner, status |-> "running"] # NoProcess
      /\ births + 1 \in 0..MaxBirths
  <2>1. [created |-> births + 1, owner |-> owner, status |-> "running"] \in Processes
    BY <1>1 DEF Processes
  <2> QED BY <1>1, <2>1, TerminationAssumption
<1>3. /\ procs'[p] = [created |-> births + 1, owner |-> owner, status |-> "running"]
      /\ \A q \in Pids : q # p => procs'[q] = procs[q]
  BY DEF CreateProcess, Inv, TypeOK
<1>4. /\ ShownProcs[p] = NoProcess
      /\ ShownProcs' = [ShownProcs EXCEPT ![p] = [created |-> births + 1, owner |-> owner]]
  <2>1. ShownProcs[p] = NoProcess
    BY <1>1 DEF ShownProcs, Running
  <2>2. Running(p)' /\ \A q \in Pids : q # p => Running(q)' = Running(q)
    BY <1>2, <1>3 DEF Running
  <2>3. /\ procs'[p].created = births + 1 /\ procs'[p].owner = owner
    BY <1>3
  <2>4. ShownProcs' = [ShownProcs EXCEPT ![p] = [created |-> births + 1, owner |-> owner]]
    BY <1>3, <2>2, <2>3 DEF ShownProcs
  <2> QED BY <2>1, <2>4
<1>5. ShownAsked' = ShownAsked /\ ShownEnded' = ShownEnded
  BY <1>1 DEF ShownAsked, ShownEnded
<1>6. PICK time \in 0..MaxBirths : time = births + 1
  BY <1>2
<1>7. Guard!Create(p, owner, time)
  BY <1>4, <1>5, <1>6, Zenon DEF Guard!Create, ShownProcs, ShownAsked, ShownEnded
<1>8. Guard!Next
  BY <1>7, Zenon DEF Guard!Next
<1> QED BY <1>8

LEMMA ExitShown ==
  ASSUME Inv, NEW p \in Pids, ExitProcess(p)
  PROVE  [Guard!Next]_(Guard!vars)
<1>1. /\ p \notin Protected /\ Running(p) /\ client' = client /\ kills' = kills
      /\ ~Running(p)'
      /\ \A q \in Pids : q # p => procs'[q] = procs[q]
  BY DEF ExitProcess, Inv, TypeOK, Running, Processes
<1>2. /\ ShownProcs[p] # NoProcess
      /\ ShownProcs' = [ShownProcs EXCEPT ![p] = NoProcess]
  <2>1. [created |-> procs[p].created, owner |-> procs[p].owner]
          \in [created : Nat, owner : Sids \cup {SystemSid}]
    BY <1>1 DEF Running, Inv, TypeOK, Processes
  <2>2. ShownProcs[p] # NoProcess
    BY <1>1, <2>1, TerminationAssumption DEF ShownProcs
  <2>3. \A q \in Pids : q # p => Running(q)' = Running(q)
    BY <1>1 DEF Running
  <2>4. ShownProcs' = [ShownProcs EXCEPT ![p] = NoProcess]
    BY <1>1, <2>3 DEF ShownProcs
  <2> QED BY <2>2, <2>4
<1>3. ShownAsked' = ShownAsked /\ ShownEnded' = ShownEnded
  BY <1>1 DEF ShownAsked, ShownEnded
<1>4. Guard!Exit(p)
  BY <1>1, <1>2, <1>3, Zenon DEF Guard!Exit, ShownProcs, ShownAsked, ShownEnded
<1>5. Guard!Next
  BY <1>4, Zenon DEF Guard!Next
<1> QED BY <1>5

LEMMA RawShown ==
  ASSUME Inv, NEW c \in RawClients, NEW command \in Commands, NEW p \in Pids,
         NEW time \in 0..births, NEW wellFormed \in BOOLEAN,
         SendRaw(c, command, p, time, wellFormed)
  PROVE  [Guard!Next]_(Guard!vars)
<1> DEFINE pc1 == IF command = "terminate" THEN "terminating" ELSE "waiting"
           new == [client[c] EXCEPT !.pc = pc1, !.pid = p, !.created = time]
<1>1. /\ c \in Clients /\ client[c] \in ClientRecord /\ client[c].pc = "start"
      /\ client \in [Clients -> ClientRecord] /\ client[c].created = 0
      /\ procs' = procs /\ kills' = kills /\ births \in Nat
  BY ClientTyped DEF SendRaw, Clients, osVars, Inv, ClientsOK, TypeOK
<1>2. new \in ClientRecord /\ new.pid = p /\ new.created = time
  <2>1. time \in Nat
    BY <1>1
  <2> QED BY <1>1, <2>1 DEF ClientRecord
<1>3. client' = [client EXCEPT ![c] = new]
  BY DEF SendRaw
<1> HIDE DEF new
<1>4. /\ client' \in [Clients -> ClientRecord] /\ client'[c] = new
      /\ \A d \in Clients : d # c => client'[d] = client[d]
  BY <1>1, <1>2, <1>3
<1>5. ShownProcs' = ShownProcs /\ ShownEnded' = ShownEnded
  BY <1>1 DEF ShownProcs, ShownEnded, Running
<1>6. CASE time = 0
  <2>1. \A d \in Clients : /\ client'[d].created = client[d].created
                           /\ client[d].created # 0 => client'[d].pid = client[d].pid
    BY <1>1, <1>2, <1>4, <1>6
  <2> QED BY <1>5, <2>1, ShownStays, NothingShown
<1>7. CASE time # 0
  <2>1. time \in 1..births
    BY <1>1, <1>7
  <2> QED BY <1>1, <1>2, <1>4, <1>5, <2>1, AskShown
<1> QED BY <1>6, <1>7

(* The other steps of a client keep what it has named. *)
LEMMA ClientShown ==
  ASSUME Inv, NEW c \in Clients,
         \/ SendTerminate(c)
         \/ LoseClient(c)
         \/ \E p \in Pids : SendInspect(c, p)
  PROVE  [Guard!Next]_(Guard!vars)
<1>1. client[c] \in ClientRecord /\ client \in [Clients -> ClientRecord]
  BY ClientTyped
<1>2. procs' = procs /\ kills' = kills
  BY DEF SendTerminate, LoseClient, SendInspect, osVars
<1>3. PICK new : /\ client' = [client EXCEPT ![c] = new]
                 /\ new.created = client[c].created
                 /\ client[c].created # 0 => new.pid = client[c].pid
  <2>1. CASE SendTerminate(c)
    <3> DEFINE new == [client[c] EXCEPT !.pc = "terminating"]
    <3>1. new.created = client[c].created /\ new.pid = client[c].pid
      BY <1>1 DEF ClientRecord
    <3>2. client' = [client EXCEPT ![c] = new]
      BY <2>1 DEF SendTerminate
    <3> HIDE DEF new
    <3> QED BY <3>1, <3>2
  <2>2. CASE LoseClient(c)
    <3> DEFINE new == [client[c] EXCEPT !.pc = "done", !.answer = "lost"]
    <3>1. new.created = client[c].created /\ new.pid = client[c].pid
      BY <1>1 DEF ClientRecord
    <3>2. client' = [client EXCEPT ![c] = new]
      BY <2>2 DEF LoseClient
    <3> HIDE DEF new
    <3> QED BY <3>1, <3>2
  <2>3. CASE \E p \in Pids : SendInspect(c, p)
    <3>1. PICK p \in Pids : SendInspect(c, p)
      BY <2>3
    <3> DEFINE new == [client[c] EXCEPT !.pc = "inspecting", !.pid = p]
    <3>2. client[c].created = 0
      BY <3>1 DEF SendInspect, Inv, ClientsOK
    <3>3. new.created = client[c].created
      BY <1>1 DEF ClientRecord
    <3>4. client' = [client EXCEPT ![c] = new]
      BY <3>1 DEF SendInspect
    <3> HIDE DEF new
    <3> QED BY <3>2, <3>3, <3>4
  <2> QED BY <2>1, <2>2, <2>3
<1>4. \A d \in Clients : /\ client'[d].created = client[d].created
                         /\ client[d].created # 0 => client'[d].pid = client[d].pid
  BY <1>1, <1>3
<1>5. ShownProcs' = ShownProcs
  BY <1>2 DEF ShownProcs, Running
<1> QED BY <1>2, <1>4, <1>5, ShownStays, NothingShown

LEMMA GuardStep == Inv /\ [Next]_vars => [Guard!Next]_(Guard!vars)
<1> SUFFICES ASSUME Inv, [Next]_vars PROVE [Guard!Next]_(Guard!vars)
  OBVIOUS
<1>1. CASE Service
  BY <1>1, ServiceShown
<1>2. CASE Environment
  <2>1. CASE ClockTick
    <3>1. procs' = procs /\ client' = client /\ kills' = kills
      BY <2>1 DEF ClockTick, osVars
    <3> QED BY <3>1, NothingShown DEF ShownProcs, ShownAsked, ShownEnded, Running
  <2>2. CASE \E p \in Pids : \/ \E owner \in Sids \cup {SystemSid} : CreateProcess(p, owner)
                             \/ ExitProcess(p)
    BY <2>2, CreateShown, ExitShown
  <2>3. CASE \E c \in CliRuns : SendTerminate(c) \/ \E p \in Pids : SendInspect(c, p)
    BY <2>3, ClientShown DEF Clients
  <2>4. CASE \E c \in RawClients, command \in Commands :
               \E p \in Pids, time \in 0..births, wellFormed \in BOOLEAN :
                 SendRaw(c, command, p, time, wellFormed)
    BY <2>4, RawShown
  <2>5. CASE \E c \in Clients : LoseClient(c)
    BY <2>5, ClientShown
  <2> QED BY <1>2, <2>1, <2>2, <2>3, <2>4, <2>5 DEF Environment
<1>3. CASE UNCHANGED vars
  <2>1. procs' = procs /\ client' = client /\ kills' = kills
    BY <1>3 DEF vars
  <2> QED BY <2>1, NothingShown DEF ShownProcs, ShownAsked, ShownEnded, Running
<1> QED BY <1>1, <1>2, <1>3 DEF Next

(* The detailed service implements GuardedKill: whatever exits, is created  *)
(* and reuses a PID meanwhile, only the named process of an entitled caller *)
(* is ended, once per request.                                              *)
THEOREM TerminationIsGuarded == Spec => OnlyTheNamedProcessEnds
<1>1. Spec => Init
  BY PTL DEF Spec
<1> QED BY <1>1, GuardInit, InvHolds, GuardStep, PTL
        DEF Spec, OnlyTheNamedProcessEnds, Guard!Spec

-----------------------------------------------------------------------------
(* What the clients are told. *)

(* No client gets or loses an answer that says something of a process. *)
LEMMA AnswersStay ==
  ASSUME Inv, AnswersAreTrue, UNCHANGED kills,
         \A c \in Clients :
           \/ client'[c].answer \notin {"terminated", "terminate_pending", "refused"}
           \/ client'[c].answer = client[c].answer /\ client'[c].created = client[c].created,
         \A p \in Pids : \/ procs'[p] = NoProcess
                         \/ procs[p] # NoProcess /\ procs'[p].created = procs[p].created
  PROVE  AnswersAreTrue'
<1> SUFFICES ASSUME NEW c \in Clients,
                    client'[c].answer \in {"terminated", "terminate_pending", "refused"}
             PROVE  LET killed == \E k \in kills' : k.client = c
                    IN  /\ client'[c].answer = "terminated" =>
                             /\ killed
                             /\ \A p \in Pids : procs'[p] = NoProcess
                                                \/ procs'[p].created # client'[c].created
                        /\ client'[c].answer = "terminate_pending" => killed
                        /\ client'[c].answer = "refused" => ~killed
  BY Zenon DEF AnswersAreTrue
<1>1. client'[c].answer = client[c].answer /\ client'[c].created = client[c].created
  OBVIOUS
<1> QED BY <1>1 DEF AnswersAreTrue

LEMMA ConcludesAnswers ==
  ASSUME Inv, AnswersAreTrue, Concludes
  PROVE  AnswersAreTrue'
<1>1. PICK outcome \in {"succeeded", "rejected", "failed"}, reason \in Reasons,
           target \in Pids \cup {None}, answer \in Answers :
        /\ serving # Idle
        /\ Finish(outcome, reason, target, answer)
        /\ answer = "inspection" => serving.step = "decide"
        /\ answer = "terminated" => serving.step = "wait" /\ ~Running(serving.pid)
        /\ answer = "terminate_pending" => serving.step = "wait"
        /\ answer = "refused" => serving.step # "wait"
  BY DEF Concludes
<1>2. CloseHandle /\ Answer(answer) /\ kills' = kills
  BY <1>1 DEF Finish
<1>3. PICK c \in Clients : c = serving.client
  BY <1>1, ServingTyped
<1>4. /\ \A d \in Clients : d # c => client'[d] = client[d]
      /\ \/ client[c].pc = "done" /\ client' = client
         \/ /\ client[c].pc = "inspecting" /\ answer = "inspection"
            /\ client'[c].answer = client[c].answer
         \/ /\ client[c].pc # "done"
            /\ client'[c].answer = answer
            /\ client'[c].created = client[c].created
  BY <1>1, <1>2, <1>3, AnswerIs
<1>5. \A p \in Pids : /\ procs'[p] = NoProcess \/ procs'[p] = procs[p]
                      /\ p = serving.pid /\ serving.pinned /\ ~Running(p)
                           => procs'[p] = NoProcess
  BY <1>1, <1>2, CloseHandleIs
<1>6. \A p \in Pids : \/ procs'[p] = NoProcess
                      \/ procs[p] # NoProcess /\ procs'[p].created = procs[p].created
  BY <1>5
<1>7. CASE client' = client \/ answer \notin {"terminated", "terminate_pending", "refused"}
  <2>1. client[c].pc = "inspecting" => client[c].answer = None
    BY DEF Inv, ClientsOK
  <2>2. \A d \in Clients :
          \/ client'[d].answer \notin {"terminated", "terminate_pending", "refused"}
          \/ client'[d].answer = client[d].answer /\ client'[d].created = client[d].created
    BY <1>4, <1>7, <2>1, TerminationAssumption DEF Answers
  <2> QED BY <1>2, <1>6, <2>2, AnswersStay
<1>8. CASE /\ client[c].pc # "done" /\ client'[c].answer = answer
           /\ client'[c].created = client[c].created
           /\ answer \in {"terminated", "terminate_pending", "refused"}
  <2>1. ASSUME NEW d \in Clients, d # c
        PROVE  LET killed == \E k \in kills' : k.client = d
               IN  /\ client'[d].answer = "terminated" =>
                        /\ killed
                        /\ \A p \in Pids : procs'[p] = NoProcess
                                           \/ procs'[p].created # client'[d].created
                   /\ client'[d].answer = "terminate_pending" => killed
                   /\ client'[d].answer = "refused" => ~killed
    BY <1>2, <1>4, <1>5, <2>1 DEF AnswersAreTrue
  <2>2. answer \in {"terminated", "terminate_pending"} => \E k \in kills' : k.client = c
    BY <1>1, <1>2, <1>3 DEF Inv, KillsOK, At
  <2>3. answer = "refused" => ~ \E k \in kills' : k.client = c
    BY <1>1, <1>2, <1>3 DEF Inv, KillsOK
  <2>4. ASSUME answer = "terminated", NEW p \in Pids, procs'[p] # NoProcess
        PROVE  procs'[p].created # client'[c].created
    <3>1. serving.step = "wait" /\ ~Running(serving.pid) /\ serving.pid \in Pids
      BY <1>1, <2>4, ServingTyped
    <3>2. /\ serving.command = "terminate" /\ serving.pinned
          /\ serving.seen = procs[serving.pid].created
          /\ Policy(serving, Caller(serving.client)) = "allowed"
          /\ procs[serving.pid] # NoProcess /\ serving.pid \notin Protected
      BY <1>1, <3>1 DEF Inv, TargetOK
    <3>3. serving.seen = serving.created
      BY <3>2 DEF Policy, Authorization, Caller
    <3>4. client[c].created = serving.created
      BY <1>1, <1>3, <3>2 DEF Inv, ExchangeOK
    <3>5. client'[c].created = procs[serving.pid].created
      BY <1>8, <3>2, <3>3, <3>4
    <3>6. p # serving.pid /\ procs'[p] = procs[p] /\ procs[p] # NoProcess
      BY <1>5, <2>4, <3>1, <3>2
    <3>7. CASE p \in Protected
      <4>1. procs[p].created = 0 /\ procs[serving.pid].created \in 1..births
        BY <3>1, <3>2, <3>7 DEF Inv, ProcessesOK
      <4> QED BY <3>5, <3>6, <4>1
    <3>8. CASE p \notin Protected
      <4>1. procs[p].created # procs[serving.pid].created
        BY <3>1, <3>2, <3>6, <3>8 DEF Inv, ProcessesOK
      <4> QED BY <3>5, <3>6, <4>1
    <3> QED BY <3>7, <3>8
  <2>5. LET killed == \E k \in kills' : k.client = c
        IN  /\ client'[c].answer = "terminated" =>
                 /\ killed
                 /\ \A p \in Pids : procs'[p] = NoProcess
                                    \/ procs'[p].created # client'[c].created
            /\ client'[c].answer = "terminate_pending" => killed
            /\ client'[c].answer = "refused" => ~killed
    BY <1>8, <2>2, <2>3, <2>4
  <2> QED BY <2>1, <2>5, Zenon DEF AnswersAreTrue
<1> QED BY <1>4, <1>7, <1>8

LEMMA EndsAnswers ==
  ASSUME Inv, AnswersAreTrue, Ends
  PROVE  AnswersAreTrue'
<1>1. /\ serving # Idle /\ client' = client
      /\ procs' = [procs EXCEPT ![serving.pid].status = "dying"]
      /\ Running(serving.pid)
  BY DEF Ends
<1>2. PICK k : kills' = kills \cup {k} /\ k.client = serving.client
  <2> DEFINE k == [request |-> serving.id, client |-> serving.client,
                   created |-> procs[serving.pid].created]
  <2>1. kills' = kills \cup {k} /\ k.client = serving.client
    BY DEF Ends
  <2> HIDE DEF k
  <2> QED BY <2>1
<1>3. client[serving.client].answer \in {None, "lost"} /\ serving.client \in Clients
  BY <1>1, ServingTyped DEF Inv, ExchangeOK
<1>4. \A p \in Pids : procs'[p] # NoProcess => procs[p] # NoProcess
                                               /\ procs'[p].created = procs[p].created
  BY <1>1, ServingTyped DEF Inv, TypeOK, Running, Processes
<1> SUFFICES ASSUME NEW c \in Clients
             PROVE  LET killed == \E j \in kills' : j.client = c
                    IN  /\ client'[c].answer = "terminated" =>
                             /\ killed
                             /\ \A p \in Pids : procs'[p] = NoProcess
                                                \/ procs'[p].created # client'[c].created
                        /\ client'[c].answer = "terminate_pending" => killed
                        /\ client'[c].answer = "refused" => ~killed
  BY Zenon DEF AnswersAreTrue
<1>5. CASE c = serving.client
  BY <1>1, <1>3, <1>5, TerminationAssumption DEF Answers
<1>6. CASE c # serving.client
  BY <1>1, <1>2, <1>4, <1>6 DEF AnswersAreTrue
<1> QED BY <1>5, <1>6

LEMMA CreateAnswers ==
  ASSUME Inv, AnswersAreTrue, NEW p \in Pids, NEW owner \in Sids \cup {SystemSid},
         CreateProcess(p, owner)
  PROVE  AnswersAreTrue'
<1>1. /\ client' = client /\ kills' = kills /\ births \in Nat
      /\ procs'[p].created = births + 1
      /\ \A q \in Pids : q # p => procs'[q] = procs[q]
  BY DEF CreateProcess, Inv, TypeOK
<1>2. \A c \in Clients : client[c].created <= births /\ client[c].created \in Nat
  BY DEF Inv, ClientsOK, TypeOK
<1>3. \A c \in Clients : procs'[p].created # client[c].created
  BY <1>1, <1>2
<1> SUFFICES ASSUME NEW c \in Clients
             PROVE  LET killed == \E j \in kills' : j.client = c
                    IN  /\ client'[c].answer = "terminated" =>
                             /\ killed
                             /\ \A q \in Pids : procs'[q] = NoProcess
                                                \/ procs'[q].created # client'[c].created
                        /\ client'[c].answer = "terminate_pending" => killed
                        /\ client'[c].answer = "refused" => ~killed
  BY Zenon DEF AnswersAreTrue
<1> QED BY <1>1, <1>3 DEF AnswersAreTrue

(* A client that sends or is lost holds no answer about a process. *)
LEMMA ClientAnswers ==
  ASSUME Inv, AnswersAreTrue, NEW c \in Clients,
         \/ SendTerminate(c)
         \/ LoseClient(c)
         \/ \E p \in Pids : SendInspect(c, p)
         \/ \E command \in Commands, p \in Pids, time \in 0..births, wellFormed \in BOOLEAN :
              SendRaw(c, command, p, time, wellFormed)
  PROVE  AnswersAreTrue'
<1>1. procs' = procs /\ kills' = kills
  BY DEF SendTerminate, LoseClient, SendInspect, SendRaw, osVars
<1>2. client[c] \in ClientRecord /\ client \in [Clients -> ClientRecord] /\ client[c].pc # "done"
  BY ClientTyped DEF SendTerminate, LoseClient, SendInspect, SendRaw
<1>3. client[c].answer = None
  BY <1>2 DEF Inv, ClientsOK
<1>4. PICK new : client' = [client EXCEPT ![c] = new] /\ new.answer \in {None, "lost"}
  <2>1. CASE SendTerminate(c)
    <3> DEFINE new == [client[c] EXCEPT !.pc = "terminating"]
    <3>1. new.answer = None
      BY <1>2, <1>3 DEF ClientRecord
    <3>2. client' = [client EXCEPT ![c] = new]
      BY <2>1 DEF SendTerminate
    <3> HIDE DEF new
    <3> QED BY <3>1, <3>2
  <2>2. CASE LoseClient(c)
    <3> DEFINE new == [client[c] EXCEPT !.pc = "done", !.answer = "lost"]
    <3>1. new.answer = "lost"
      BY <1>2 DEF ClientRecord
    <3>2. client' = [client EXCEPT ![c] = new]
      BY <2>2 DEF LoseClient
    <3> HIDE DEF new
    <3> QED BY <3>1, <3>2
  <2>3. CASE \E p \in Pids : SendInspect(c, p)
    <3>1. PICK p \in Pids : SendInspect(c, p)
      BY <2>3
    <3> DEFINE new == [client[c] EXCEPT !.pc = "inspecting", !.pid = p]
    <3>2. new.answer = None
      BY <1>2, <1>3 DEF ClientRecord
    <3>3. client' = [client EXCEPT ![c] = new]
      BY <3>1 DEF SendInspect
    <3> HIDE DEF new
    <3> QED BY <3>2, <3>3
  <2>4. CASE \E command \in Commands, p \in Pids, time \in 0..births, wellFormed \in BOOLEAN :
               SendRaw(c, command, p, time, wellFormed)
    <3>1. PICK command \in Commands, p \in Pids, time \in 0..births, wellFormed \in BOOLEAN :
                 SendRaw(c, command, p, time, wellFormed)
      BY <2>4
    <3> DEFINE pc1 == IF command = "terminate" THEN "terminating" ELSE "waiting"
               new == [client[c] EXCEPT !.pc = pc1, !.pid = p, !.created = time]
    <3>2. new.answer = None
      BY <1>2, <1>3 DEF ClientRecord
    <3>3. client' = [client EXCEPT ![c] = new]
      BY <3>1 DEF SendRaw
    <3> HIDE DEF new
    <3> QED BY <3>2, <3>3
  <2> QED BY <2>1, <2>2, <2>3, <2>4
<1>5. \A d \in Clients :
        \/ client'[d].answer \notin {"terminated", "terminate_pending", "refused"}
        \/ client'[d].answer = client[d].answer /\ client'[d].created = client[d].created
  BY <1>2, <1>4, TerminationAssumption DEF Answers
<1> QED BY <1>1, <1>5, AnswersStay

LEMMA AnswersStep == Inv /\ AnswersAreTrue /\ [Next]_vars => AnswersAreTrue'
<1> SUFFICES ASSUME Inv, AnswersAreTrue, [Next]_vars PROVE AnswersAreTrue'
  OBVIOUS
<1>0. ASSUME procs' = procs, client' = client, kills' = kills PROVE AnswersAreTrue'
  BY <1>0 DEF AnswersAreTrue
<1>1. CASE Service
  <2>1. CASE Advances
    BY <1>0, <2>1 DEF Advances
  <2>2. CASE Ends \/ Concludes
    BY <2>2, EndsAnswers, ConcludesAnswers
  <2>3. CASE ExhaustIds
    <3>1. /\ serving # Idle /\ Answer("error") /\ "error" \in Answers
          /\ procs' = procs /\ kills' = kills
      BY <2>3 DEF ExhaustIds, At, osVars, Answers
    <3>2. \A d \in Clients :
            \/ client'[d].answer \notin {"terminated", "terminate_pending", "refused"}
            \/ client'[d].answer = client[d].answer /\ client'[d].created = client[d].created
      BY <3>1, AnswerIs
    <3> QED BY <3>1, <3>2, AnswersStay
  <2> QED BY <1>1, <2>1, <2>2, <2>3, ServiceSteps
<1>2. CASE Environment
  <2>1. CASE ClockTick
    BY <1>0, <2>1 DEF ClockTick, osVars
  <2>2. CASE \E p \in Pids : \E owner \in Sids \cup {SystemSid} : CreateProcess(p, owner)
    BY <2>2, CreateAnswers
  <2>3. CASE \E p \in Pids : ExitProcess(p)
    <3>1. PICK p \in Pids : ExitProcess(p)
      BY <2>3
    <3>2. /\ client' = client /\ kills' = kills /\ procs[p] \in Processes
          /\ procs[p] # NoProcess
      BY <3>1 DEF ExitProcess, Running, Inv, TypeOK
    <3>3. \A q \in Pids : \/ procs'[q] = NoProcess
                          \/ procs[q] # NoProcess /\ procs'[q].created = procs[q].created
      BY <3>1, <3>2 DEF ExitProcess, Inv, TypeOK, Processes
    <3> QED BY <3>2, <3>3, AnswersStay
  <2>4. CASE \E c \in CliRuns : SendTerminate(c) \/ \E p \in Pids : SendInspect(c, p)
    BY <2>4, ClientAnswers DEF Clients
  <2>5. CASE \E c \in RawClients, command \in Commands :
               \E p \in Pids, time \in 0..births, wellFormed \in BOOLEAN :
                 SendRaw(c, command, p, time, wellFormed)
    BY <2>5, ClientAnswers DEF Clients
  <2>6. CASE \E c \in Clients : LoseClient(c)
    BY <2>6, ClientAnswers
  <2> QED BY <1>2, <2>1, <2>2, <2>3, <2>4, <2>5, <2>6 DEF Environment
<1>3. CASE UNCHANGED vars
  BY <1>0, <1>3 DEF vars
<1> QED BY <1>1, <1>2, <1>3 DEF Next

(* No client is told of an end that was not, or is denied one that was.     *)
THEOREM AnswersHold == Spec => []AnswersAreTrue
<1>1. Init => AnswersAreTrue
  BY TerminationAssumption DEF Init, AnswersAreTrue, Answers
<1> QED BY <1>1, InitHolds, InvHolds, AnswersStep, PTL DEF Spec

-----------------------------------------------------------------------------
(* The audit. *)

AuditInv == AuditHasEveryRequestOnce /\ AuditIsTrue

(* Neither the sink nor the number of finished requests changes. *)
LEMMA AuditStays ==
  ASSUME AuditInv, audit' = audit, Finished' = Finished,
         \A i \in DOMAIN audit :
           (\E k \in kills' : k.request = audit[i].request)
             <=> \E k \in kills : k.request = audit[i].request
  PROVE  AuditInv'
BY DEF AuditInv, AuditHasEveryRequestOnce, AuditIsTrue

(* How many requests have an event, seen from the request served. *)
LEMMA FinishedIs ==
  ASSUME Inv
  PROVE  /\ Finished \in Nat
         /\ serving = Idle \/ serving.step = "received" => Finished = nextRequestId - 1
         /\ serving # Idle /\ serving.step # "received"
              => serving.id = Finished + 1 /\ nextRequestId = Finished + 2
<1>1. nextRequestId \in Nat /\ nextRequestId >= 1
  BY TerminationAssumption DEF Inv, TypeOK
<1>2. CASE serving = Idle
  BY <1>1, <1>2 DEF Finished
<1>3. CASE serving # Idle /\ serving.step = "received"
  <2>1. serving.id = 0
    BY <1>3 DEF Inv, ExchangeOK
  <2> QED BY <1>1, <1>3, <2>1 DEF Finished
<1>4. CASE serving # Idle /\ serving.step # "received"
  <2>1. serving.id = nextRequestId - 1 /\ nextRequestId > 1
    BY <1>4 DEF Inv, ExchangeOK
  <2> QED BY <1>1, <1>4, <2>1 DEF Finished
<1> QED BY <1>2, <1>3, <1>4

LEMMA AdvancesAudit ==
  ASSUME Inv, AuditInv, Advances
  PROVE  AuditInv'
<1>1. /\ serving # Idle /\ serving' # Idle /\ audit' = audit /\ kills' = kills
      /\ nextRequestId \in Nat /\ nextRequestId >= 1
  BY TerminationAssumption DEF Advances, Inv, TypeOK
<1>2. Finished' = Finished
  <2>1. CASE serving.step = "received"
    <3>1. serving'.id = nextRequestId /\ nextRequestId' = nextRequestId + 1
      BY <2>1 DEF Advances
    <3>2. Finished' = nextRequestId - 1
      BY <1>1, <3>1 DEF Finished
    <3> QED BY <2>1, <3>2, FinishedIs
  <2>2. CASE serving.step # "received"
    <3>1. serving'.id = serving.id /\ nextRequestId' = nextRequestId
      BY <2>2 DEF Advances
    <3> QED BY <1>1, <3>1 DEF Finished
  <2> QED BY <2>1, <2>2
<1> QED BY <1>1, <1>2, AuditStays

LEMMA EndsAudit ==
  ASSUME Inv, AuditInv, Ends
  PROVE  AuditInv'
<1>1. /\ serving # Idle /\ serving' # Idle /\ audit' = audit
      /\ serving.step = "kill" /\ serving'.id = serving.id /\ nextRequestId' = nextRequestId
  <2>1. serving \in Exchanges /\ serving' = [serving EXCEPT !.step = "wait"]
    BY ServingTyped DEF Ends
  <2>2. serving'.id = serving.id /\ serving' \in Exchanges
    BY <2>1 DEF Exchanges
  <2> QED BY <2>2, TerminationAssumption DEF Ends
<1>2. Finished' = Finished
  BY <1>1 DEF Finished
<1>3. PICK k : kills' = kills \cup {k} /\ k.request = serving.id
  <2> DEFINE k == [request |-> serving.id, client |-> serving.client,
                   created |-> procs[serving.pid].created]
  <2>1. kills' = kills \cup {k} /\ k.request = serving.id
    BY DEF Ends
  <2> HIDE DEF k
  <2> QED BY <2>1
<1>4. \A i \in DOMAIN audit : audit[i].request # serving.id
  <2>1. audit \in Seq(Events) /\ Len(audit) \in Nat /\ DOMAIN audit = 1..Len(audit)
    BY LenProperties DEF Inv, TypeOK
  <2>2. serving.id = Finished + 1 /\ Finished \in Nat
    BY <1>1, FinishedIs
  <2>3. SUFFICES ASSUME NEW i \in 1..Len(audit)
                 PROVE  audit[i].request # serving.id
    BY <2>1
  <2>4. audit[i].request = Finished - Len(audit) + i
    BY <2>1 DEF AuditInv, AuditHasEveryRequestOnce
  <2> QED BY <2>1, <2>2, <2>4
<1> QED BY <1>1, <1>2, <1>3, <1>4, AuditStays

LEMMA ConcludesAudit ==
  ASSUME Inv, AuditInv, Concludes
  PROVE  AuditInv'
<1>1. PICK outcome \in {"succeeded", "rejected", "failed"}, reason \in Reasons,
           target \in Pids \cup {None}, answer \in Answers :
        /\ serving # Idle /\ serving.step # "received"
        /\ Finish(outcome, reason, target, answer)
        /\ outcome = "succeeded" /\ serving.command = "terminate" => serving.step = "wait"
        /\ outcome = "rejected" => serving.step # "wait"
  BY DEF Concludes
<1>2. /\ Record(outcome, reason, target) /\ serving' = Idle
      /\ nextRequestId' = nextRequestId /\ kills' = kills
  BY <1>1 DEF Finish
<1>3. PICK e : e = EventOfServed(outcome, reason, target)
  OBVIOUS
<1>4. /\ e.request = serving.id /\ e.capability = Capability(serving.command)
      /\ e.outcome = outcome
  BY <1>3 DEF EventOfServed
<1>5. /\ audit' \in Seq(Events)
      /\ Len(audit') = IF Len(audit) < AuditCapacity THEN Len(audit) + 1 ELSE AuditCapacity
      /\ \A i \in 1..Len(audit') :
           audit'[i] = IF i = Len(audit') THEN e
                       ELSE audit[Len(audit) + 1 - Len(audit') + i]
  BY <1>1, <1>2, <1>3, RecordIs DEF AddsTo
<1>6. /\ Len(audit) \in Nat /\ Len(audit') \in Nat
      /\ DOMAIN audit = 1..Len(audit) /\ DOMAIN audit' = 1..Len(audit')
      /\ Len(audit) <= AuditCapacity /\ AuditCapacity \in Nat
  BY <1>5, LenProperties, TerminationAssumption DEF Inv, TypeOK
<1>7. serving.id = Finished + 1 /\ Finished \in Nat /\ Finished' = Finished + 1
  <2>1. serving.id = Finished + 1 /\ nextRequestId = Finished + 2 /\ Finished \in Nat
    BY <1>1, FinishedIs
  <2>2. Finished' = nextRequestId - 1
    BY <1>2, <2>1 DEF Finished
  <2> QED BY <2>1, <2>2
<1>8. Len(audit) = IF Finished < AuditCapacity THEN Finished ELSE AuditCapacity
  BY DEF AuditInv, AuditHasEveryRequestOnce
<1>9. Len(audit') = IF Finished' < AuditCapacity THEN Finished' ELSE AuditCapacity
  BY <1>5, <1>6, <1>7, <1>8
(* Every event is the new one, or was there before. *)
<1>10. ASSUME NEW i \in 1..Len(audit')
       PROVE  \/ i = Len(audit') /\ audit'[i] = e
              \/ \E j \in 1..Len(audit) :
                   j = Len(audit) + 1 - Len(audit') + i /\ audit'[i] = audit[j]
  <2>1. CASE i = Len(audit')
    BY <1>5, <2>1
  <2>2. CASE i # Len(audit')
    <3>1. Len(audit) + 1 - Len(audit') + i \in 1..Len(audit)
      BY <1>5, <1>6, <2>2
    <3>2. audit'[i] = audit[Len(audit) + 1 - Len(audit') + i]
      BY <1>5, <2>2
    <3> QED BY <3>1, <3>2
  <2> QED BY <2>1, <2>2
<1>11. AuditHasEveryRequestOnce'
  <2>1. ASSUME NEW i \in 1..Len(audit')
        PROVE  audit'[i].request = Finished' - Len(audit') + i
    <3>1. CASE i = Len(audit') /\ audit'[i] = e
      BY <1>4, <1>6, <1>7, <3>1
    <3>2. ASSUME NEW j \in 1..Len(audit), j = Len(audit) + 1 - Len(audit') + i,
                 audit'[i] = audit[j]
          PROVE  audit'[i].request = Finished' - Len(audit') + i
      <4>1. audit[j].request = Finished - Len(audit) + j
        BY <1>6 DEF AuditInv, AuditHasEveryRequestOnce
      <4> QED BY <1>6, <1>7, <3>2, <4>1
    <3> QED BY <1>10, <3>1, <3>2
  <2> QED BY <1>6, <1>9, <2>1 DEF AuditHasEveryRequestOnce
<1>12. AuditIsTrue'
  <2>1. ASSUME NEW i \in 1..Len(audit'), audit'[i].capability = "process_terminate"
        PROVE  LET killed == \E k \in kills : k.request = audit'[i].request
               IN  /\ audit'[i].outcome = "succeeded" => killed
                   /\ audit'[i].outcome = "rejected" => ~killed
    <3>1. CASE i = Len(audit') /\ audit'[i] = e
      <4>1. serving.command = "terminate"
        <5>1. serving.command \in Commands /\ Capability(serving.command) = "process_terminate"
          BY <1>1, <1>4, <2>1, <3>1, ServingTyped
        <5> QED BY <5>1 DEF Capability, Commands
      <4>2. outcome = "succeeded" => \E k \in kills : k.request = serving.id
        BY <1>1, <4>1 DEF Inv, KillsOK, At
      <4>3. outcome = "rejected" => ~ \E k \in kills : k.request = serving.id
        BY <1>1 DEF Inv, KillsOK
      <4> QED BY <1>4, <3>1, <4>2, <4>3
    <3>2. ASSUME NEW j \in 1..Len(audit), audit'[i] = audit[j]
          PROVE  LET killed == \E k \in kills : k.request = audit'[i].request
                 IN  /\ audit'[i].outcome = "succeeded" => killed
                     /\ audit'[i].outcome = "rejected" => ~killed
      BY <1>6, <2>1, <3>2 DEF AuditInv, AuditIsTrue
    <3> QED BY <1>10, <3>1, <3>2
  <2> QED BY <1>2, <1>6, <2>1 DEF AuditIsTrue
<1> QED BY <1>11, <1>12 DEF AuditInv

LEMMA AuditStep == Inv /\ AuditInv /\ [Next]_vars => AuditInv'
<1> SUFFICES ASSUME Inv, AuditInv, [Next]_vars PROVE AuditInv'
  OBVIOUS
<1>0. ASSUME audit' = audit, kills' = kills, nextRequestId' = nextRequestId,
             \/ serving' = serving
             \/ serving = Idle /\ serving'.id = 0
             \/ serving # Idle /\ serving.step = "received" /\ serving' = Idle
      PROVE  AuditInv'
  <2>1. Finished' = Finished
    <3>1. CASE serving' = serving
      BY <1>0, <3>1 DEF Finished
    <3>2. CASE serving = Idle /\ serving'.id = 0
      BY <1>0, <3>2 DEF Finished
    <3>3. CASE serving # Idle /\ serving.step = "received" /\ serving' = Idle
      <4>1. serving.id = 0
        BY <3>3 DEF Inv, ExchangeOK
      <4> QED BY <1>0, <3>3, <4>1 DEF Finished
    <3> QED BY <1>0, <3>1, <3>2, <3>3
  <2> QED BY <1>0, <2>1, AuditStays
<1>1. CASE Service
  <2>1. CASE ExhaustIds
    BY <1>0, <2>1 DEF ExhaustIds, At
  <2> QED BY <1>1, <2>1, ServiceSteps, AdvancesAudit, EndsAudit, ConcludesAudit
<1>2. CASE Environment
  <2>1. CASE ClockTick
    BY <1>0, <2>1 DEF ClockTick
  <2>2. CASE \E p \in Pids : \/ \E owner \in Sids \cup {SystemSid} : CreateProcess(p, owner)
                             \/ ExitProcess(p)
    BY <1>0, <2>2 DEF CreateProcess, ExitProcess
  <2>3. CASE \E c \in CliRuns : SendTerminate(c) \/ \E p \in Pids : SendInspect(c, p)
    <3>1. PICK c \in CliRuns : SendTerminate(c) \/ \E p \in Pids : SendInspect(c, p)
      BY <2>3
    <3>2. CASE SendTerminate(c)
      BY <1>0, <3>2 DEF SendTerminate, Send, Request
    <3>3. CASE \E p \in Pids : SendInspect(c, p)
      BY <1>0, <3>3 DEF SendInspect, Send, Request
    <3> QED BY <3>1, <3>2, <3>3
  <2>4. CASE \E c \in RawClients, command \in Commands :
               \E p \in Pids, time \in 0..births, wellFormed \in BOOLEAN :
                 SendRaw(c, command, p, time, wellFormed)
    <3>1. PICK c \in RawClients, command \in Commands, p \in Pids, time \in 0..births,
               wellFormed \in BOOLEAN : SendRaw(c, command, p, time, wellFormed)
      BY <2>4
    <3> QED BY <1>0, <3>1 DEF SendRaw, Send, Request
  <2>5. CASE \E c \in Clients : LoseClient(c)
    BY <1>0, <2>5 DEF LoseClient
  <2> QED BY <1>2, <2>1, <2>2, <2>3, <2>4, <2>5 DEF Environment
<1>3. CASE UNCHANGED vars
  BY <1>0, <1>3 DEF vars
<1> QED BY <1>1, <1>2, <1>3 DEF Next

LEMMA AuditInit == Init => AuditInv
<1> SUFFICES ASSUME Init PROVE AuditInv
  OBVIOUS
<1>1. audit = <<>> /\ serving = Idle /\ nextRequestId = 1 /\ AuditCapacity \in Nat
  BY TerminationAssumption DEF Init
<1>2. Finished = 0 /\ Len(audit) = 0 /\ DOMAIN audit = {}
  BY <1>1 DEF Finished
<1> QED BY <1>1, <1>2 DEF AuditInv, AuditHasEveryRequestOnce, AuditIsTrue

LEMMA AuditInvHolds == Spec => []AuditInv
BY AuditInit, InvHolds, AuditStep, PTL DEF Spec

(* No request with an id goes without its event, none has two, and the sink *)
(* has no gap.                                                              *)
THEOREM AuditIsComplete == Spec => []AuditHasEveryRequestOnce
<1>1. AuditInv => AuditHasEveryRequestOnce
  BY DEF AuditInv
<1> QED BY <1>1, AuditInvHolds, PTL

(* A recorded success did end a process, a recorded refusal did not.        *)
THEOREM AuditHolds == Spec => []AuditIsTrue
<1>1. AuditInv => AuditIsTrue
  BY DEF AuditInv
<1> QED BY <1>1, AuditInvHolds, PTL

-----------------------------------------------------------------------------
(* The limiter inside of the service. *)
LimiterProofs == INSTANCE RateLimiterProofs WITH Subjects <- Sids

LEMMA LimiterConstants == LimiterProofs!RateLimiterAssumption
BY LimiterAssumption DEF LimiterProofs!RateLimiterAssumption

(* The request served is in the hands of the limiter only at its gate.      *)
LEMMA CallerTyped ==
  ASSUME Inv, serving # Idle
  PROVE  Caller(serving.client).sid \in Sids
<1>1. serving.client \in Clients
  BY DEF Inv, TypeOK, Exchanges
<1> QED BY <1>1, TerminationAssumption DEF Caller

LEMMA ServiceLimiter ==
  ASSUME Service
  PROVE  \/ UNCHANGED limiterVars
         \/ RejectOverLimit \/ PassGate
BY DEF Service, Dispatch, ExhaustIds, RefuseMalformed, AnswerReadOnly, PassInspect,
       RejectUnauthorized, RejectTarget, OpenTarget, ListTarget, ReadTarget, FinishInspect,
       DecidePolicy, Kill, WaitTarget

LEMMA EnvironmentLimiter ==
  ASSUME Environment
  PROVE  UNCHANGED limiterVars \/ ClockTick
BY DEF Environment, CreateProcess, ExitProcess, SendInspect, SendTerminate, SendRaw, LoseClient

LEMMA AllowIsAllow ==
  ASSUME NEW s \in Sids, Limiter!Allow(s)
  PROVE  LimiterProofs!Allow(s)
BY DEF Limiter!Allow, LimiterProofs!Allow, Limiter!Evicted, LimiterProofs!Evicted,
       Limiter!Evictions, LimiterProofs!Evictions, Limiter!ClearedRequests,
       LimiterProofs!ClearedRequests, Limiter!ClearedSubjects, LimiterProofs!ClearedSubjects,
       Limiter!Admits, LimiterProofs!Admits, Limiter!QueueOf, LimiterProofs!QueueOf,
       Limiter!DropExpired, LimiterProofs!DropExpired, Limiter!FirstLive,
       LimiterProofs!FirstLive, Limiter!Expired, LimiterProofs!Expired,
       Limiter!KeepAt, LimiterProofs!KeepAt, Limiter!Ascending, LimiterProofs!Ascending,
       Limiter!Cardinality, LimiterProofs!Cardinality

(* Whatever the service does between two calls of the limiter: for the      *)
(* limiter nothing happens.                                                 *)
LEMMA LimiterStep ==
  ASSUME Inv, [Next]_vars
  PROVE  [LimiterProofs!Next]_(LimiterProofs!vars)
<1>1. CASE UNCHANGED limiterVars
  BY <1>1 DEF limiterVars, LimiterProofs!vars
<1>2. CASE RejectOverLimit \/ PassGate
  <2>1. serving # Idle /\ Limiter!Allow(Caller(serving.client).sid)
    BY <1>2 DEF RejectOverLimit, PassGate, AtGate, At
  <2> QED BY <2>1, CallerTyped, AllowIsAllow DEF LimiterProofs!Next
<1>3. CASE ClockTick
  BY <1>3 DEF ClockTick, Limiter!Tick, LimiterProofs!Tick, LimiterProofs!Next
<1> QED BY <1>1, <1>2, <1>3, ServiceLimiter, EnvironmentLimiter DEF Next, vars, limiterVars

LEMMA LimiterRuns == Spec => LimiterProofs!Spec
<1>1. Init => LimiterProofs!Init
  BY DEF Init, Limiter!Init, LimiterProofs!Init
<1>2. Inv /\ [Next]_vars => [LimiterProofs!Next]_(LimiterProofs!vars)
  BY LimiterStep
<1> QED BY <1>1, <1>2, InvHolds, PTL DEF Spec, LimiterProofs!Spec

LEMMA WindowHolds == Spec => []Limiter!WindowBound
<1>1. LimiterProofs!WindowBound => Limiter!WindowBound
  BY DEF Limiter!WindowBound, LimiterProofs!WindowBound
<1> QED BY <1>1, LimiterRuns, LimiterProofs!WindowBoundHolds, LimiterConstants, PTL

(* A place for every caller: nobody is ever evicted. *)
Fits == IsFiniteSet(Sids) /\ Cardinality(Sids) <= MaxSubjects

(* A request of a caller that has been granted and has not ended anything.  *)
Granted(request, s) ==
  /\ request # Idle
  /\ request.command = "terminate"
  /\ request.step \in {"open", "read", "decide", "kill"}
  /\ Token[request.client].sid = s

KilledFor(s) == {k \in kills : Token[k.client].sid = s}

(* Every process ended has a grant of its own, and so has the request that  *)
(* may end the next one.                                                    *)
PaidFor(s) ==
  Cardinality(KilledFor(s)) + (IF Granted(serving, s) THEN 1 ELSE 0) <= Len(granted[s])

PaidInv ==
  /\ IsFiniteSet(kills)
  /\ \A s \in Sids : PaidFor(s)

(* Only the gate grants.                                                    *)
LEMMA RequestsAreNotGranted ==
  ASSUME Inv, Environment, NEW s
  PROVE  kills' = kills /\ (Granted(serving', s) => Granted(serving, s))
<1>1. CASE ClockTick
  BY <1>1 DEF ClockTick
<1>2. CASE \E p \in Pids : \/ \E owner \in Sids \cup {SystemSid} : CreateProcess(p, owner)
                           \/ ExitProcess(p)
  BY <1>2 DEF CreateProcess, ExitProcess
<1>3. CASE \E c \in CliRuns : SendTerminate(c) \/ \E p \in Pids : SendInspect(c, p)
  <2>1. PICK c \in CliRuns : SendTerminate(c) \/ \E p \in Pids : SendInspect(c, p)
    BY <1>3
  <2>2. CASE SendTerminate(c)
    BY <2>2 DEF SendTerminate, Send, Request, Granted
  <2>3. CASE \E p \in Pids : SendInspect(c, p)
    BY <2>3 DEF SendInspect, Send, Request, Granted
  <2> QED BY <2>1, <2>2, <2>3
<1>4. CASE \E c \in RawClients, command \in Commands :
             \E p \in Pids, time \in 0..births, wellFormed \in BOOLEAN :
               SendRaw(c, command, p, time, wellFormed)
  BY <1>4 DEF SendRaw, Send, Request, Granted
<1>5. CASE \E c \in Clients : LoseClient(c)
  BY <1>5 DEF LoseClient
<1> QED BY <1>1, <1>2, <1>3, <1>4, <1>5 DEF Environment

LEMMA OnlyTheGateGrants ==
  ASSUME Inv, Service, ~PassGate, NEW s
  PROVE  Granted(serving', s) => Granted(serving, s)
<1>1. serving # Idle => serving \in Exchanges
  BY DEF Inv, TypeOK
<1>2. CASE Dispatch
  BY <1>1, <1>2 DEF Dispatch, At, Granted, Exchanges
<1>3. CASE PassInspect
  BY <1>1, <1>3 DEF PassInspect, GoTo, At, Granted, Exchanges
<1>4. CASE OpenTarget
  BY <1>1, <1>4 DEF OpenTarget, At, Granted, Exchanges
<1>5. CASE ListTarget
  <2>1. serving # Idle /\ serving.command = "inspect"
    BY <1>5 DEF ListTarget, At, Inv, TargetOK
  <2> QED BY <1>1, <1>5, <2>1
      DEF ListTarget, Granted, Exchanges, Reject, Fail, Finish
<1>6. CASE ReadTarget
  BY <1>1, <1>6 DEF ReadTarget, At, Granted, Exchanges, Fail, Finish
<1>7. CASE DecidePolicy
  BY <1>1, <1>7 DEF DecidePolicy, At, GoTo, Granted, Exchanges, Reject, Finish
<1>8. CASE Kill
  BY <1>1, <1>8 DEF Kill, At, Granted, Exchanges, Reject, Finish
<1>9. CASE \/ ExhaustIds \/ RefuseMalformed \/ AnswerReadOnly \/ RejectUnauthorized
           \/ RejectOverLimit \/ RejectTarget \/ FinishInspect \/ WaitTarget
  <2>1. serving' = Idle
    BY <1>9 DEF ExhaustIds, RefuseMalformed, AnswerReadOnly, RejectUnauthorized,
                RejectOverLimit, RejectTarget, FinishInspect, WaitTarget, Reject, Fail, Finish
  <2> QED BY <2>1 DEF Granted
<1> QED BY <1>2, <1>3, <1>4, <1>5, <1>6, <1>7, <1>8, <1>9 DEF Service

(* The histories of the callers never shrink; the gate adds to the one of   *)
(* the caller it lets pass.                                                 *)
LEMMA GrantsGrow ==
  ASSUME Inv, [Next]_vars, Fits, LimiterProofs!TableTypeOK, NEW s \in Sids
  PROVE  /\ Len(granted[s]) \in Nat
         /\ Len(granted'[s]) \in {Len(granted[s]), Len(granted[s]) + 1}
         /\ PassGate /\ s = Caller(serving.client).sid
              => Len(granted'[s]) = Len(granted[s]) + 1
<1>1. granted \in [Sids -> Seq(Nat)] /\ now \in Nat
  BY DEF LimiterProofs!TableTypeOK
<1>2. LimiterProofs!HistoriesOnlyGrow
  <2>1. LimiterProofs!IsFiniteSet(Sids) /\ LimiterProofs!Cardinality(Sids) <= MaxSubjects
    BY DEF Fits, LimiterProofs!IsFiniteSet, IsFiniteSet, LimiterProofs!Cardinality, Cardinality
  <2> QED BY <2>1, LimiterStep, LimiterConstants, LimiterProofs!HistoriesStep
<1>3. granted'[s] = granted[s] \/ granted'[s] = Append(granted[s], now)
  BY <1>2 DEF LimiterProofs!HistoriesOnlyGrow
<1>4. ASSUME PassGate, s = Caller(serving.client).sid
      PROVE  granted'[s] = Append(granted[s], now)
  <2>1. Limiter!Admits(s) /\ Limiter!Allow(s)
    BY <1>4 DEF PassGate
  <2> QED BY <2>1 DEF Limiter!Allow
<1>5. /\ granted[s] \in Seq(Nat) /\ Len(granted[s]) \in Nat
      /\ Len(Append(granted[s], now)) = Len(granted[s]) + 1
  BY <1>1
<1> QED BY <1>3, <1>4, <1>5

LEMMA PaidStep ==
  ASSUME Fits, LimiterProofs!TableTypeOK, Inv, PaidInv, [Next]_vars
  PROVE  PaidInv'
<1>1. \A s \in Sids : IsFiniteSet(KilledFor(s)) /\ Cardinality(KilledFor(s)) \in Nat
  BY FS_Subset, FS_CardinalityType DEF PaidInv, KilledFor
<1>2. ASSUME kills' = kills, ~PassGate,
             \A s \in Sids : Granted(serving', s) => Granted(serving, s)
      PROVE  PaidInv'
  <2> SUFFICES ASSUME NEW s \in Sids PROVE PaidFor(s)'
    BY <1>2 DEF PaidInv
  <2>1. PaidFor(s) /\ KilledFor(s)' = KilledFor(s)
    BY <1>2 DEF PaidInv, KilledFor
  <2> QED BY <1>1, <1>2, <2>1, GrantsGrow DEF PaidFor
<1>3. CASE PassGate
  <2>1. /\ kills' = kills /\ serving # Idle /\ serving.step = "dispatched"
        /\ serving \in Exchanges /\ serving' = [serving EXCEPT !.step = "open"]
    BY <1>3 DEF PassGate, AtGate, At, GoTo, Inv, TypeOK
  <2>2. serving'.client = serving.client
    BY <2>1 DEF Exchanges
  <2> SUFFICES ASSUME NEW s \in Sids PROVE PaidFor(s)'
    BY <2>1 DEF PaidInv
  <2>3. PaidFor(s) /\ KilledFor(s)' = KilledFor(s) /\ ~Granted(serving, s)
    BY <2>1 DEF PaidInv, KilledFor, Granted
  <2>4. Granted(serving', s) => s = Caller(serving.client).sid
    BY <2>2 DEF Granted, Caller
  <2> QED BY <1>1, <1>3, <2>3, <2>4, GrantsGrow DEF PaidFor
<1>4. CASE Ends
  <2> DEFINE k == [request |-> serving.id, client |-> serving.client,
                   created |-> procs[serving.pid].created]
  <2>1. kills' = kills \cup {k} /\ k.client = serving.client
    BY <1>4 DEF Ends
  <2>2. /\ serving # Idle /\ serving.step = "kill" /\ serving.command = "terminate"
        /\ serving'.step = "wait"
    BY <1>4 DEF Ends, Inv, TypeOK, TargetOK, Exchanges
  <2> HIDE DEF k
  <2>3. IsFiniteSet(kills')
    BY <2>1, FS_AddElement DEF PaidInv
  <2> SUFFICES ASSUME NEW s \in Sids PROVE PaidFor(s)'
    BY <2>3 DEF PaidInv
  <2>4. PaidFor(s) /\ ~Granted(serving', s)
    BY <2>2 DEF PaidInv, Granted
  <2>5. CASE Token[serving.client].sid = s
    <3>1. Granted(serving, s)
      BY <2>2, <2>5 DEF Granted
    <3>2. KilledFor(s)' = KilledFor(s) \cup {k}
      BY <2>1, <2>5 DEF KilledFor
    <3>3. Cardinality(KilledFor(s)') <= Cardinality(KilledFor(s)) + 1
          /\ Cardinality(KilledFor(s)') \in Nat
      <4>1. IsFiniteSet(KilledFor(s)) /\ Cardinality(KilledFor(s)) \in Nat
        BY <1>1
      <4>2. /\ IsFiniteSet(KilledFor(s) \cup {k})
            /\ \/ Cardinality(KilledFor(s) \cup {k}) = Cardinality(KilledFor(s))
               \/ Cardinality(KilledFor(s) \cup {k}) = Cardinality(KilledFor(s)) + 1
        BY <4>1, FS_AddElement, Zenon
      <4> QED BY <3>2, <4>1, <4>2
    <3> QED BY <1>1, <2>4, <3>1, <3>3, GrantsGrow DEF PaidFor
  <2>6. CASE Token[serving.client].sid # s
    <3>1. KilledFor(s)' = KilledFor(s)
      BY <2>1, <2>6 DEF KilledFor
    <3> QED BY <1>1, <2>4, <3>1, GrantsGrow DEF PaidFor
  <2> QED BY <2>5, <2>6
<1>5. CASE Service /\ ~PassGate /\ ~Ends
  <2>1. kills' = kills
    <3>1. Advances \/ Concludes \/ ExhaustIds
      BY <1>5, ServiceSteps
    <3> QED BY <3>1 DEF Advances, Concludes, Finish, ExhaustIds
  <2> QED BY <1>2, <1>5, <2>1, OnlyTheGateGrants
<1>6. CASE Environment /\ ~PassGate
  BY <1>2, <1>6, RequestsAreNotGranted
<1>7. CASE UNCHANGED vars /\ ~PassGate
  BY <1>2, <1>7 DEF vars
<1> QED BY <1>3, <1>4, <1>5, <1>6, <1>7 DEF Next

(* The limiter inside of the service keeps its promise although other steps *)
(* of the service, the clients and the system lie between its own; and no   *)
(* process is ended without a grant that no other one was ended with.       *)
THEOREM KillsArePaidFor == Spec => []KillsKeepTheWindow
<1>1. Init => PaidInv
  <2> SUFFICES ASSUME Init PROVE PaidInv
    OBVIOUS
  <2>1. kills = {} /\ serving = Idle /\ granted = [s \in Sids |-> <<>>]
    BY DEF Init, Limiter!Init
  <2>2. \A s \in Sids : KilledFor(s) = {} /\ ~Granted(serving, s) /\ Len(granted[s]) = 0
    BY <2>1 DEF KilledFor, Granted
  <2>3. \A s \in Sids : Cardinality(KilledFor(s)) = 0
    BY <2>2, FS_EmptySet
  <2>4. \A s \in Sids : PaidFor(s)
    BY <2>2, <2>3 DEF PaidFor
  <2> QED BY <2>1, <2>4, FS_EmptySet DEF PaidInv
<1>2. CASE Fits
  <2>1. LimiterProofs!TableTypeOK /\ Inv /\ PaidInv /\ [Next]_vars => PaidInv'
    BY <1>2, PaidStep
  <2>2. PaidInv /\ LimiterProofs!TableTypeOK /\ Limiter!WindowBound => KillsKeepTheWindow
    <3> SUFFICES ASSUME PaidInv, LimiterProofs!TableTypeOK, NEW s \in Sids
                 PROVE  Cardinality(KilledFor(s)) <= Len(granted[s])
      BY DEF KillsKeepTheWindow, KilledFor
    <3>1. Cardinality(KilledFor(s)) \in Nat
      BY FS_Subset, FS_CardinalityType DEF PaidInv, KilledFor
    <3>2. Len(granted[s]) \in Nat
      BY DEF LimiterProofs!TableTypeOK
    <3> QED BY <3>1, <3>2 DEF PaidInv, PaidFor
  <2> QED BY <1>1, <2>1, <2>2, InvHolds, WindowHolds, LimiterRuns, LimiterProofs!TypesHold,
             LimiterConstants, PTL DEF Spec
<1>3. CASE ~Fits
  <2>1. Limiter!WindowBound => KillsKeepTheWindow
    BY <1>3 DEF KillsKeepTheWindow, Fits
  <2> QED BY <2>1, WindowHolds, PTL
<1> QED BY <1>2, <1>3
=============================================================================
