------------------------------ MODULE ServiceHost ------------------------------
(***************************************************************************)
(* The life of the Windows service (rustnt-core service.rs): the thread of *)
(* service_main, the control callback that the dispatcher thread of the    *)
(* same process runs, the gate between the two, and the commands of the    *)
(* CLI that install, start, stop and uninstall the service, all through    *)
(* the service control manager (SCM).                                      *)
(*                                                                         *)
(* What run_pipe_server does between its call and its return is the        *)
(* subject of PipeServer; its property StopAlwaysWorks is what this module *)
(* relies on: the call returns once the stop event is set.                 *)
(***************************************************************************)
EXTENDS Integers, FiniteSets

CONSTANTS
  Commands,    \* runs of `rustnt service ...', one operation each
  MaxStarts,   \* bound: service processes ever started
  System, None

ASSUME ServiceHostAssumption ==
  /\ MaxStarts \in Nat
  /\ {System, None} \cap Commands = {}
  /\ System # None
  /\ None \notin {"ok", "error"}

VARIABLES
  scm,       \* what the SCM knows: [state, installed, marked (for deletion)]
  main,      \* where the thread of service_main is, or "none"
  context,   \* the boxed ServiceRuntime with its CallbackGate
  handler,   \* the control callback: [pc, from (who sent it), reply]
  command,   \* each CLI command: [pc, op, result]
  starts,    \* service processes started so far
  accepted,  \* history: the callback answered NO_ERROR in this process
  downOnce   \* the system has begun to shut down

vars == <<scm, main, context, handler, command, starts, accepted, downOnce>>

-----------------------------------------------------------------------------
(* The context. *)

NewContext ==
  [alive |-> TRUE, accepting |-> TRUE, active |-> 0, running |-> FALSE,
   event |-> "none", signaled |-> FALSE]

NoContext == [NewContext EXCEPT !.alive = FALSE, !.accepting = FALSE]

IdleHandler == [pc |-> "idle", from |-> None, reply |-> None]

-----------------------------------------------------------------------------
(* service_main and run_service_main. *)

Step(from, to) == main = from /\ main' = to

ServiceUnchanged == UNCHANGED <<handler, command, starts, accepted, downOnce>>

(* SetServiceStatus may fail; the SCM then keeps the state it knew. *)
Report(state) ==
  /\ scm' = [scm EXCEPT !.state = state]
  /\ UNCHANGED context

ReportFails == UNCHANGED <<scm, context>>

(* RegisterServiceCtrlHandlerExW; without a handle nothing more happens.    *)
Register ==
  /\ Step("register", "reportStartPending") \/ Step("register", "free")
  /\ UNCHANGED <<scm, context>>
  /\ ServiceUnchanged

ReportStartPending ==
  /\ \/ Step("reportStartPending", "createEvent") /\ Report("start_pending")
     \/ Step("reportStartPending", "free") /\ ReportFails
  /\ ServiceUnchanged

(* Variant: `running' is not stored when the event is installed. *)
CreateEventUnpublished ==
  /\ \/ /\ Step("createEvent", "reportRunning")
        /\ context' = [context EXCEPT !.event = "open"]
     \/ Step("createEvent", "reportStopped") /\ UNCHANGED context
  /\ UNCHANGED scm
  /\ ServiceUnchanged

(* The event is installed, and the context published, before the SCM hears  *)
(* of a running service and may send controls to it.                        *)
CreateEvent ==
  /\ \/ /\ Step("createEvent", "reportRunning")
        /\ context' = [context EXCEPT !.event = "open", !.running = TRUE]
     \/ Step("createEvent", "reportStopped") /\ UNCHANGED context
  /\ UNCHANGED scm
  /\ ServiceUnchanged

ReportRunning ==
  /\ \/ Step("reportRunning", "serve") /\ Report("running")
     \/ /\ Step("reportRunning", "close")
        /\ context' = [context EXCEPT !.running = FALSE]
        /\ UNCHANGED scm
  /\ ServiceUnchanged

(* run_pipe_server returns after the stop event was set, ...                *)
FinishServing ==
  /\ context.signaled
  /\ Step("serve", "reportStopPending")
  /\ context' = [context EXCEPT !.running = FALSE]
  /\ UNCHANGED scm
  /\ ServiceUnchanged

(* ... or any time, with an error.                                          *)
FailServing ==
  /\ Step("serve", "reportStopPending")
  /\ context' = [context EXCEPT !.running = FALSE]
  /\ UNCHANGED scm
  /\ ServiceUnchanged

ReportStopPending ==
  /\ Step("reportStopPending", "close")
  /\ Report("stop_pending") \/ ReportFails
  /\ ServiceUnchanged

(* CallbackGate::shutdown: no new callback, wait for the ones inside, drop  *)
(* the event.                                                               *)
CloseGate ==
  /\ Step("close", "drain")
  /\ context' = [context EXCEPT !.accepting = FALSE]
  /\ UNCHANGED scm
  /\ ServiceUnchanged

(* Variant: the shutdown does not wait for the callbacks. *)
DrainNobody ==
  /\ Step("drain", "release")
  /\ UNCHANGED <<scm, context>>
  /\ ServiceUnchanged

Drain ==
  /\ context.active = 0
  /\ Step("drain", "release")
  /\ UNCHANGED <<scm, context>>
  /\ ServiceUnchanged

ReleaseEvent ==
  /\ Step("release", "reportStopped")
  /\ context' = [context EXCEPT !.event = "closed"]
  /\ UNCHANGED scm
  /\ ServiceUnchanged

ReportStopped ==
  /\ Step("reportStopped", "free")
  /\ Report("stopped") \/ ReportFails
  /\ ServiceUnchanged

(* service_main returns and drops the box. *)
FreeContext ==
  /\ Step("free", "gone")
  /\ context' = [context EXCEPT !.alive = FALSE]
  /\ UNCHANGED scm
  /\ ServiceUnchanged

Main ==
  \/ Register \/ ReportStartPending \/ CreateEvent \/ ReportRunning
  \/ FinishServing \/ ReportStopPending \/ CloseGate \/ Drain \/ ReleaseEvent
  \/ ReportStopped \/ FreeContext

(* The end of the process, by its return or by force: the SCM notices, and  *)
(* a control on its way is answered with an error.                          *)
ProcessIsOver ==
  /\ main' = "none"
  /\ context' = NoContext
  /\ handler' = IdleHandler
  /\ scm' = [scm EXCEPT !.state = "stopped"]
  /\ command' = [c \in Commands |->
                   IF command[c].pc = "called"
                     THEN [command[c] EXCEPT !.pc = "done", !.result = "error"]
                     ELSE command[c]]
  /\ UNCHANGED <<starts, accepted, downOnce>>

(* StartServiceCtrlDispatcherW, whose thread runs the handler, returns, and *)
(* run_service with it, once the service has been reported stopped: it does *)
(* not wait for the thread of service_main.  Where that report failed, or   *)
(* was never made because the registration or START_PENDING failed, the     *)
(* process lingers and the SCM keeps the state it knew.                     *)
ProcessReturns ==
  /\ main # "none"
  /\ scm.state = "stopped"
  /\ handler.pc \in {"idle", "sent"}
  /\ ProcessIsOver

ProcessIsKilled == main # "none" /\ ProcessIsOver

-----------------------------------------------------------------------------
(* service_control_handler, on the dispatcher thread. *)

HandlerGoto(pc) == handler' = [handler EXCEPT !.pc = pc]

HandlerUnchanged == UNCHANGED <<scm, main, command, starts, accepted, downOnce>>

(* The dispatcher calls the handler for a control that was sent as long as  *)
(* the service has not been reported stopped, whether service_main is still *)
(* there or has returned and freed the context.                             *)
Deliver ==
  /\ handler.pc = "sent"
  /\ scm.state # "stopped"
  /\ HandlerGoto("enter")
  /\ UNCHANGED context
  /\ HandlerUnchanged

(* CallbackGate::try_enter; a gate that no longer accepts is no error.      *)
EnterGate ==
  /\ handler.pc = "enter"
  /\ context.alive
  /\ \/ /\ context.accepting
        /\ context' = [context EXCEPT !.active = @ + 1]
        /\ HandlerGoto("check")
     \/ /\ ~context.accepting
        /\ handler' = [handler EXCEPT !.pc = "return", !.reply = "ok"]
        /\ UNCHANGED context
  /\ HandlerUnchanged

(* The callback reaches the gate when the box is freed: what it reads there *)
(* decides its answer, or ends the process.                                 *)
EnterFreed ==
  /\ handler.pc = "enter"
  /\ ~context.alive
  /\ \/ /\ \E reply \in {"ok", "error"} :
             handler' = [handler EXCEPT !.pc = "return", !.reply = reply]
        /\ UNCHANGED context
        /\ HandlerUnchanged
     \/ ProcessIsOver

(* A service that does not run (any more) has nothing to be stopped.        *)
CheckRunning ==
  /\ handler.pc = "check"
  /\ \/ context.running /\ HandlerGoto("lookup")
     \/ ~context.running /\ handler' = [handler EXCEPT !.pc = "leave", !.reply = "ok"]
  /\ UNCHANGED context
  /\ HandlerUnchanged

LookUpEvent ==
  /\ handler.pc = "lookup"
  /\ \/ context.event = "open" /\ HandlerGoto("signal")
     \/ /\ context.event # "open"
        /\ handler' = [handler EXCEPT !.pc = "leave", !.reply = "error"]
  /\ UNCHANGED context
  /\ HandlerUnchanged

Signal ==
  /\ handler.pc = "signal"
  /\ \/ /\ context' = [context EXCEPT !.signaled = TRUE]
        /\ handler' = [handler EXCEPT !.pc = "leave", !.reply = "ok"]
     \/ /\ handler' = [handler EXCEPT !.pc = "leave", !.reply = "error"]
        /\ UNCHANGED context
  /\ HandlerUnchanged

(* Variant: the guard is forgotten and never dropped. *)
ForgetGuard ==
  /\ handler.pc = "leave"
  /\ HandlerGoto("return")
  /\ UNCHANGED context
  /\ HandlerUnchanged

(* CallbackGuard::drop *)
LeaveGate ==
  /\ handler.pc = "leave"
  /\ context' = [context EXCEPT !.active = @ - 1]
  /\ HandlerGoto("return")
  /\ HandlerUnchanged

(* ControlService returns to the one who called it: a stop command begins   *)
(* to poll, or ends with the error.                                         *)
Return(reply) ==
  /\ handler' = IdleHandler
  /\ accepted' = IF reply = "ok" THEN TRUE ELSE accepted
  /\ command' = IF handler.from \notin Commands THEN command
                ELSE IF reply = "ok"
                  THEN [command EXCEPT ![handler.from].pc = "poll"]
                ELSE [command EXCEPT ![handler.from] =
                        [@ EXCEPT !.pc = "done", !.result = "error"]]
  /\ UNCHANGED <<scm, main, context, starts, downOnce>>

ReturnFromHandler == handler.pc = "return" /\ Return(handler.reply)

(* Too late for the process. *)
ControlFails ==
  /\ handler.pc = "sent"
  /\ scm.state = "stopped"
  /\ Return("error")

Handler ==
  \/ Deliver \/ EnterGate \/ EnterFreed \/ CheckRunning \/ LookUpEvent \/ Signal
  \/ LeaveGate \/ ReturnFromHandler \/ ControlFails

-----------------------------------------------------------------------------
(* The commands of the CLI. *)

Finish(c, result) ==
  command' = [command EXCEPT ![c] = [@ EXCEPT !.pc = "done", !.result = result]]

(* install_service: a registration that is there must be the same one.      *)
Install(c) ==
  /\ command[c].pc = "begin"
  /\ command[c].op = "install"
  /\ \/ ~scm.installed /\ Finish(c, "ok") /\ scm' = [scm EXCEPT !.installed = TRUE]
     \/ scm.installed /\ ~scm.marked /\ Finish(c, "ok") /\ UNCHANGED scm
     \/ scm.installed /\ Finish(c, "error") /\ UNCHANGED scm
  /\ UNCHANGED <<main, context, handler, starts, accepted, downOnce>>

(* The query that start, stop and uninstall begin with. *)
Query(c) ==
  /\ command[c].pc = "begin"
  /\ command[c].op # "install"
  /\ LET op == command[c].op
     IN  IF ~scm.installed THEN Finish(c, "error")
         ELSE IF op = "start" /\ scm.state = "running" THEN Finish(c, "ok")
         ELSE IF op = "stop" /\ scm.state = "stopped" THEN Finish(c, "ok")
         ELSE IF op = "uninstall" /\ scm.state # "stopped" THEN Finish(c, "error")
         ELSE command' = [command EXCEPT ![c].pc = "call"]
  /\ UNCHANGED <<scm, main, context, handler, starts, accepted, downOnce>>

Calling(c, op) == command[c].pc = "call" /\ command[c].op = op

(* StartServiceW.  The SCM starts a process once the last one has ended.    *)
CallStart(c) ==
  /\ Calling(c, "start")
  /\ \/ /\ scm.state = "stopped" /\ main = "none" /\ ~scm.marked
        /\ starts < MaxStarts
        /\ starts' = starts + 1
        /\ main' = "register"
        /\ context' = NewContext
        /\ accepted' = FALSE
        /\ scm' = [scm EXCEPT !.state = "start_pending"]
        /\ command' = [command EXCEPT ![c].pc = "poll"]
        /\ UNCHANGED <<handler, downOnce>>
     \/ /\ \/ scm.state # "stopped"       \* ERROR_SERVICE_ALREADY_RUNNING
              /\ command' = [command EXCEPT ![c].pc = "poll"]
           \/ Finish(c, "error")
        /\ UNCHANGED <<scm, main, context, handler, starts, accepted, downOnce>>

(* ControlService: the SCM sends one control at a time, and only to a       *)
(* service that accepts it.  ERROR_SERVICE_NOT_ACTIVE counts as stopped.    *)
CallStop(c) ==
  /\ Calling(c, "stop")
  /\ \/ /\ scm.state = "running"
        /\ handler.pc = "idle"
        /\ handler' = [pc |-> "sent", from |-> c, reply |-> None]
        /\ command' = [command EXCEPT ![c].pc = "called"]
     \/ /\ scm.state \in {"start_pending", "stop_pending"}
        /\ Finish(c, "error")
        /\ UNCHANGED handler
     \/ /\ scm.state = "stopped"
        /\ command' = [command EXCEPT ![c].pc = "poll"]
        /\ UNCHANGED handler
  /\ UNCHANGED <<scm, main, context, starts, accepted, downOnce>>

CallDelete(c) ==
  /\ Calling(c, "uninstall")
  /\ \/ ~scm.marked /\ Finish(c, "ok") /\ scm' = [scm EXCEPT !.marked = TRUE]
     \/ scm.marked /\ Finish(c, "error") /\ UNCHANGED scm
  /\ UNCHANGED <<main, context, handler, starts, accepted, downOnce>>

(* Variant: wait_for_state without its deadline. *)
PollForEver(c) ==
  /\ command[c].pc = "poll"
  /\ scm.state = IF command[c].op = "start" THEN "running" ELSE "stopped"
  /\ Finish(c, "ok")
  /\ UNCHANGED <<scm, main, context, handler, starts, accepted, downOnce>>

(* wait_for_state, 5 s at most. *)
Poll(c) ==
  /\ command[c].pc = "poll"
  /\ LET expected == IF command[c].op = "start" THEN "running" ELSE "stopped"
     IN  Finish(c, IF scm.state = expected THEN "ok" ELSE "error")
  /\ UNCHANGED <<scm, main, context, handler, starts, accepted, downOnce>>

Command(c) ==
  \/ Install(c) \/ Query(c) \/ CallStart(c) \/ CallStop(c) \/ CallDelete(c)
  \/ Poll(c)

(* The user enters a command. *)
Enter(c, op) ==
  /\ command[c].pc = "idle"
  /\ command' = [command EXCEPT ![c] = [@ EXCEPT !.pc = "begin", !.op = op]]
  /\ UNCHANGED <<scm, main, context, handler, starts, accepted, downOnce>>

-----------------------------------------------------------------------------
(* The SCM by itself: the shutdown of the system, and the removal of a      *)
(* service marked for deletion when it has stopped and nobody has it open.  *)

Shutdown ==
  /\ scm.state = "running"
  /\ handler.pc = "idle"
  /\ ~downOnce
  /\ downOnce' = TRUE
  /\ handler' = [pc |-> "sent", from |-> System, reply |-> None]
  /\ UNCHANGED <<scm, main, context, command, starts, accepted>>

Remove ==
  /\ scm.marked
  /\ scm.state = "stopped"
  /\ \A c \in Commands : command[c].pc \in {"idle", "begin", "done"}
  /\ scm' = [scm EXCEPT !.installed = FALSE, !.marked = FALSE]
  /\ UNCHANGED <<main, context, handler, command, starts, accepted, downOnce>>

Init ==
  /\ scm = [state |-> "stopped", installed |-> TRUE, marked |-> FALSE]
  /\ main = "none"
  /\ context = NoContext
  /\ handler = IdleHandler
  /\ command = [c \in Commands |-> [pc |-> "idle", op |-> None, result |-> None]]
  /\ starts = 0
  /\ accepted = FALSE
  /\ downOnce = FALSE

Environment ==
  \/ FailServing \/ ProcessIsKilled \/ Shutdown \/ Remove
  \/ \E c \in Commands, op \in {"install", "start", "stop", "uninstall"} : Enter(c, op)

Next ==
  Main \/ ProcessReturns \/ Handler \/ (\E c \in Commands : Command(c)) \/ Environment

(* The threads of the process and the commands run; the pipe server returns *)
(* after the stop event is set (PipeServer!StopAlwaysWorks).                *)
Fairness ==
  /\ WF_vars(Main \/ ProcessReturns)
  /\ WF_vars(Handler)
  /\ \A c \in Commands : WF_vars(Command(c))

Spec == Init /\ [][Next]_vars /\ Fairness

-----------------------------------------------------------------------------
(* Inside the gate: between try_enter and the drop of the guard. *)
InGate == handler.pc \in {"check", "lookup", "signal", "leave"}

Scms ==
  [state : {"stopped", "start_pending", "running", "stop_pending"},
   installed : BOOLEAN, marked : BOOLEAN]

Contexts ==
  [alive : BOOLEAN, accepting : BOOLEAN, active : Nat, running : BOOLEAN,
   event : {"none", "open", "closed"}, signaled : BOOLEAN]

Handlers ==
  [pc : {"idle", "sent", "enter", "check", "lookup", "signal", "leave", "return"},
   from : Commands \cup {System, None}, reply : {None, "ok", "error"}]

TypeOK ==
  /\ scm \in Scms
  /\ main \in {"none", "register", "reportStartPending", "createEvent",
               "reportRunning", "serve", "reportStopPending", "close", "drain",
               "release", "reportStopped", "free", "gone"}
  /\ context \in Contexts
  /\ context.active = IF InGate THEN 1 ELSE 0
  /\ handler \in Handlers
  /\ starts \in 0..MaxStarts

(* From the gate on, the callback works on a live context, and the event it *)
(* signals is open: the shutdown of the service waits for it.               *)
CallbackKeepsContext ==
  /\ InGate => context.alive
  /\ handler.pc = "signal" => context.event = "open"

(* A stop that was answered with NO_ERROR is not lost between the start of  *)
(* the service and its serving: if it still serves, the event is set.       *)
NoStopIsLost == accepted /\ main = "serve" => context.signaled

(* What the thread of service_main is about: before, while and after it      *)
(* runs the pipe server.                                                    *)
Phase ==
  IF main = "none" THEN "down"
  ELSE IF main \in {"register", "reportStartPending", "createEvent", "reportRunning"}
    THEN "starting"
  ELSE IF main = "serve" THEN "serving"
  ELSE "ending"

Life == INSTANCE ServiceLife WITH
  phase <- Phase,
  known <- scm.state,
  told <- context.signaled

(* The service is one the manager can rely on, whatever the commands, the   *)
(* control callback and the failing calls of its thread do in between: its  *)
(* states follow each other as they should, and only a stop that will have  *)
(* its effect is accepted.                                                  *)
LifeIsOrderly == Life!Spec

(* The shutdown of the service ends: it does not wait for a callback that   *)
(* waits for it.  The manager then knows the service as stopped, or         *)
(* service_main has returned and this one report of it has failed.          *)
ShutdownEnds ==
  context.signaled ~> (scm.state = "stopped" \/ main = "gone")

(* Every command of the CLI returns, whatever the service does meanwhile.   *)
EveryCommandReturns ==
  \A c \in Commands : (command[c].pc = "begin") ~> (command[c].pc = "done")

-----------------------------------------------------------------------------
(* What a comment says, and the code does not ensure.                       *)

(* The comment of service_control_handler: "The SCM invokes this callback   *)
(* only while the boxed ServiceRuntime remains alive."                      *)
ContextOutlivesCallback == handler.pc = "enter" => context.alive
=============================================================================
