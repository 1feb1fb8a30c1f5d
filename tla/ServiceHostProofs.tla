-------------------------- MODULE ServiceHostProofs --------------------------
(***************************************************************************)
(* What ServiceHost promises, for any number of commands and of starts:    *)
(* the control callback does not work on freed memory or on a closed event *)
(* once it is inside the gate, a stop it accepted is not lost, and the     *)
(* service is the one of ServiceLife for its manager.                      *)
(***************************************************************************)
EXTENDS ServiceHost, TLAPS

(* From the report of a running service on, controls may come.              *)
Serving == {"serve", "reportStopPending", "close", "drain"}

GateClosed == {"drain", "release", "reportStopped", "free", "gone"}

AfterRunning == Serving \cup GateClosed

(* Where service_main is decides what the context is.                       *)
ContextInv ==
  /\ context.alive <=> main \notin {"none", "gone"}
  /\ main \in {"register", "reportStartPending", "createEvent"} =>
       context.event = "none" /\ context.accepting
  /\ main \in {"reportRunning", "release"} \cup Serving => context.event = "open"
  /\ main \in {"reportRunning", "serve"} => context.running /\ context.accepting
  /\ context.event # "none" /\ main \in GateClosed => ~context.accepting

(* Only a service that was reported running is sent controls.               *)
ControlInv ==
  scm.state = "running" \/ handler.pc # "idle" =>
    main \in AfterRunning /\ context.event # "none"

(* The thread does not leave the drain while a callback is inside the gate. *)
GateInv == InGate => main \in Serving

(* Whoever answers NO_ERROR has set the event, or the service is ending.    *)
AnswerInv ==
  /\ handler.reply # None => handler.pc \in {"leave", "return"}
  /\ accepted \/ handler.reply = "ok" =>
       /\ main \notin {"register", "reportStartPending", "createEvent",
                       "reportRunning"}
       /\ main = "serve" => context.signaled

(* What a step keeps besides the types.                                     *)
KeptInv == ContextInv /\ ControlInv /\ GateInv /\ AnswerInv

HostInv == TypeOK /\ KeptInv

-----------------------------------------------------------------------------
(* A service that was never started.                                       *)
LEMMA HostInit == Init => HostInv
<1> SUFFICES ASSUME Init PROVE HostInv
  OBVIOUS
<1> USE ServiceHostAssumption DEF Init, IdleHandler, NoContext, NewContext
<1>1. TypeOK
  <2>1. scm \in Scms /\ handler \in Handlers /\ ~InGate
    BY DEF Scms, Handlers, InGate
  <2>2. context \in Contexts /\ context.active = 0
    BY DEF Contexts
  <2>3. starts \in 0..MaxStarts
    OBVIOUS
  <2> QED
    BY <2>1, <2>2, <2>3 DEF TypeOK
<1>2. ContextInv
  BY DEF ContextInv, Serving, GateClosed
<1>3. ControlInv
  BY DEF ControlInv
<1>4. GateInv
  BY DEF GateInv, InGate
<1>5. AnswerInv
  BY DEF AnswerInv
<1> QED
  BY <1>1, <1>2, <1>3, <1>4, <1>5 DEF HostInv, KeptInv

(* The type of the state, step by step: first the thread of service_main. *)
LEMMA MainTypes == TypeOK /\ (Main \/ FailServing) => TypeOK'
<1> SUFFICES ASSUME TypeOK, Main \/ FailServing PROVE TypeOK'
  OBVIOUS
<1> USE DEF TypeOK, Main, Register, ReportStartPending, CreateEvent, ReportRunning,
            FinishServing, FailServing, ReportStopPending, CloseGate, Drain,
            ReleaseEvent, ReportStopped, FreeContext, Step, Report, ReportFails,
            ServiceUnchanged
<1>1. scm' \in Scms
  BY DEF Scms
<1>2. context' \in Contexts /\ context'.active = context.active
  BY DEF Contexts
<1>3. InGate' = InGate /\ handler' \in Handlers /\ starts' \in 0..MaxStarts
  BY DEF InGate
<1>4. main' \in {"none", "register", "reportStartPending", "createEvent",
               "reportRunning", "serve", "reportStopPending", "close", "drain",
               "release", "reportStopped", "free", "gone"}
  OBVIOUS
<1> HIDE DEF Main, Step
<1> QED
  BY <1>1, <1>2, <1>3, <1>4

(* The end of the process, wherever its threads are. *)
LEMMA OverTypes == TypeOK /\ ProcessIsOver => TypeOK'
<1> SUFFICES ASSUME TypeOK, ProcessIsOver PROVE TypeOK'
  OBVIOUS
<1> USE DEF ProcessIsOver, TypeOK
<1>1. scm' \in Scms
  BY DEF Scms
<1>2. context' \in Contexts /\ context'.active = 0
  BY DEF Contexts, NoContext, NewContext
<1>3. handler' \in Handlers /\ ~InGate'
  BY DEF Handlers, InGate, IdleHandler
<1> QED
  BY <1>1, <1>2, <1>3

(* A callback is counted in the gate exactly while it is inside. *)
LEMMA HandlerTypes == TypeOK /\ Handler => TypeOK'
<1> SUFFICES ASSUME TypeOK, Handler, ~ProcessIsOver PROVE TypeOK'
  BY OverTypes
<1>1. UNCHANGED <<scm, main, starts>>
  BY DEF Handler, Deliver, EnterGate, EnterFreed, CheckRunning, LookUpEvent,
         Signal, LeaveGate, ReturnFromHandler, ControlFails, Return,
         HandlerUnchanged
<1> USE DEF TypeOK, HandlerGoto, InGate
<1>2. handler \in Handlers /\ context \in Contexts
  OBVIOUS
<1>3. CASE Deliver \/ EnterFreed
  BY <1>1, <1>3 DEF Deliver, EnterFreed, Handlers
<1>4. CASE EnterGate
  <2>1. context' \in Contexts
    BY <1>4 DEF EnterGate, Contexts
  <2>2. handler' \in Handlers
    BY <1>4 DEF EnterGate, Handlers
  <2>3. context.active = 0
    BY <1>4 DEF EnterGate
  <2>4. \/ context'.active = 1 /\ handler'.pc = "check"
        \/ context'.active = 0 /\ handler'.pc = "return"
    <3>1. CASE context' = [context EXCEPT !.active = @ + 1]
               /\ handler' = [handler EXCEPT !.pc = "check"]
      BY <3>1, <2>3 DEF Contexts, Handlers
    <3>2. CASE UNCHANGED context
               /\ handler' = [handler EXCEPT !.pc = "return", !.reply = "ok"]
      BY <3>2, <2>3 DEF Handlers
    <3> QED
      BY <1>4, <3>1, <3>2 DEF EnterGate
  <2>5. (context.active = IF InGate THEN 1 ELSE 0)'
    BY <2>4
  <2> QED
    BY <1>1, <2>1, <2>2, <2>5
<1>5. CASE CheckRunning \/ LookUpEvent
  BY <1>1, <1>5 DEF CheckRunning, LookUpEvent, Handlers
<1>6. CASE Signal
  <2>1. context' \in Contexts /\ UNCHANGED context.active
    BY <1>6 DEF Signal, Contexts
  <2>2. handler' \in Handlers /\ InGate /\ InGate'
    BY <1>6 DEF Signal, Handlers
  <2> QED
    BY <1>1, <2>1, <2>2
<1>7. CASE LeaveGate
  <2>1. context.active = 1
    BY <1>7 DEF LeaveGate
  <2>2. context' \in Contexts /\ context'.active = 0
    BY <1>7, <2>1 DEF LeaveGate, Contexts
  <2>3. handler' \in Handlers /\ handler'.pc = "return"
    BY <1>7 DEF LeaveGate, Handlers
  <2> QED
    BY <1>1, <2>2, <2>3
<1>8. CASE ReturnFromHandler \/ ControlFails
  <2>1. UNCHANGED context /\ handler' = IdleHandler /\ ~InGate
    BY <1>8 DEF ReturnFromHandler, ControlFails, Return
  <2> QED
    BY <1>1, <2>1 DEF IdleHandler, Handlers
<1> QED
  BY <1>3, <1>4, <1>5, <1>6, <1>7, <1>8 DEF Handler

(* A new process begins with nobody inside its gate. *)
LEMMA CommandTypes ==
  ASSUME NEW c \in Commands, HostInv, Command(c)
  PROVE  TypeOK'
<1> USE ServiceHostAssumption DEF TypeOK, HostInv, Finish, Calling
<1>1. CASE Install(c) \/ Query(c) \/ CallDelete(c) \/ Poll(c)
  BY <1>1 DEF Install, Query, CallDelete, Poll, Scms, InGate
<1>2. CASE CallStop(c)
  <2>1. handler' \in Handlers /\ InGate' = InGate
    BY <1>2 DEF CallStop, Handlers, InGate
  <2> QED
    BY <1>2, <2>1 DEF CallStop
<1>3. CASE CallStart(c) /\ UNCHANGED <<scm, main, context, handler, starts>>
  BY <1>3 DEF InGate
<1>4. CASE CallStart(c) /\ ~UNCHANGED <<scm, main, context, handler, starts>>
  <2>1. /\ scm' = [scm EXCEPT !.state = "start_pending"]
        /\ main' = "register" /\ context' = NewContext /\ UNCHANGED handler
        /\ main = "none" /\ starts < MaxStarts /\ starts' = starts + 1
    BY <1>4 DEF CallStart
  <2>2. scm' \in Scms
    BY <2>1 DEF Scms
  <2>3. context' \in Contexts /\ context'.active = 0
    BY <2>1 DEF NewContext, Contexts
  <2>4. ~InGate'
    BY <2>1 DEF InGate, KeptInv, GateInv, Serving
  <2>5. starts' \in 0..MaxStarts
    BY <2>1
  <2> QED
    BY <2>1, <2>2, <2>3, <2>4, <2>5
<1> QED
  BY <1>1, <1>2, <1>3, <1>4 DEF Command

-----------------------------------------------------------------------------
(* What relates the two threads, step by step: the thread of service_main. *)
LEMMA MainKept == HostInv /\ (Main \/ FailServing) => KeptInv'
<1> SUFFICES ASSUME HostInv, Main \/ FailServing PROVE KeptInv'
  OBVIOUS
<1> USE DEF HostInv, KeptInv, TypeOK, ContextInv, ControlInv, GateInv,
            AnswerInv, InGate, Serving, GateClosed, AfterRunning, Step,
            Report, ReportFails, ServiceUnchanged, Scms, Contexts
<1>1. CASE Register
  BY <1>1 DEF Register
<1>2. CASE ReportStartPending
  BY <1>2 DEF ReportStartPending
<1>3. CASE CreateEvent
  BY <1>3 DEF CreateEvent
<1>4. CASE ReportRunning
  BY <1>4 DEF ReportRunning
<1>5. CASE FinishServing \/ FailServing
  BY <1>5 DEF FinishServing, FailServing
<1>6. CASE ReportStopPending
  BY <1>6 DEF ReportStopPending
<1>7. CASE CloseGate
  BY <1>7 DEF CloseGate
<1>8. CASE Drain
  BY <1>8 DEF Drain
<1>9. CASE ReleaseEvent
  BY <1>9 DEF ReleaseEvent
<1>10. CASE ReportStopped
  BY <1>10 DEF ReportStopped
<1>11. CASE FreeContext
  BY <1>11 DEF FreeContext
<1> QED
  BY <1>1, <1>2, <1>3, <1>4, <1>5, <1>6, <1>7, <1>8, <1>9, <1>10, <1>11 DEF Main

(* The end of the process. *)
LEMMA OverKept == HostInv /\ ProcessIsOver => KeptInv'
<1> SUFFICES ASSUME HostInv, ProcessIsOver
             PROVE  KeptInv'
  OBVIOUS
<1>1. main' = "none" /\ ~context'.alive
  BY DEF ProcessIsOver, NoContext, NewContext
<1>2. handler'.pc = "idle" /\ handler'.reply = None /\ scm'.state # "running"
  BY DEF ProcessIsOver, IdleHandler, HostInv, TypeOK, Scms
<1> QED
  BY <1>1, <1>2, ServiceHostAssumption
     DEF KeptInv, ContextInv, ControlInv, GateInv, AnswerInv, InGate, Serving,
         GateClosed, AfterRunning

(* The steps of the control callback. *)
LEMMA HandlerKept == HostInv /\ Handler => KeptInv'
<1> SUFFICES ASSUME HostInv, Handler, ~ProcessIsOver PROVE KeptInv'
  BY OverKept
<1> USE DEF HostInv, KeptInv, TypeOK, ContextInv, ControlInv, GateInv,
            AnswerInv, InGate, Serving, GateClosed, AfterRunning, HandlerGoto,
            HandlerUnchanged, Contexts, Handlers
<1>1. CASE Deliver
  BY <1>1 DEF Deliver
<1>2. CASE EnterGate
  BY <1>2 DEF EnterGate
<1>3. CASE EnterFreed
  BY <1>3 DEF EnterFreed
<1>4. CASE CheckRunning
  BY <1>4 DEF CheckRunning
<1>5. CASE LookUpEvent
  BY <1>5 DEF LookUpEvent
<1>6. CASE Signal
  BY <1>6 DEF Signal
<1>7. CASE LeaveGate
  BY <1>7 DEF LeaveGate
<1>8. CASE ReturnFromHandler
  BY <1>8, ServiceHostAssumption DEF ReturnFromHandler, Return, IdleHandler
<1>9. CASE ControlFails
  BY <1>9, ServiceHostAssumption DEF ControlFails, Return, IdleHandler
<1> QED
  BY <1>1, <1>2, <1>3, <1>4, <1>5, <1>6, <1>7, <1>8, <1>9 DEF Handler

(* The steps of a command: a start finds no thread, a stop a running one. *)
LEMMA CommandKept ==
  ASSUME NEW c \in Commands, HostInv, Command(c)
  PROVE  KeptInv'
<1> USE DEF HostInv, KeptInv, TypeOK, ContextInv, ControlInv, GateInv,
            AnswerInv, InGate, Serving, GateClosed, AfterRunning, Finish, Calling
<1>1. CASE Install(c) \/ Query(c) \/ CallDelete(c) \/ Poll(c)
  BY <1>1 DEF Install, Query, CallDelete, Poll, Scms
<1>2. CASE CallStop(c)
  BY <1>2, ServiceHostAssumption DEF CallStop, Handlers
<1>3. CASE CallStart(c)
  BY <1>3, ServiceHostAssumption DEF CallStart, NewContext, Scms
<1> QED
  BY <1>1, <1>2, <1>3 DEF Command

-----------------------------------------------------------------------------
(* Every step of the two threads, of a command and of the SCM keeps it.     *)
LEMMA HostStep == HostInv /\ [Next]_vars => HostInv'
<1> SUFFICES ASSUME HostInv, [Next]_vars PROVE HostInv'
  OBVIOUS
<1>1. CASE Main \/ FailServing
  BY <1>1, MainTypes, MainKept DEF HostInv
<1>2. CASE ProcessReturns \/ ProcessIsKilled
  BY <1>2, OverTypes, OverKept DEF ProcessReturns, ProcessIsKilled, HostInv
<1>3. CASE Handler
  BY <1>3, HandlerTypes, HandlerKept DEF HostInv
<1>4. CASE \E c \in Commands : Command(c)
  BY <1>4, CommandTypes, CommandKept DEF HostInv
<1>5. CASE Shutdown
  <2>1. TypeOK'
    <3>1. handler' \in Handlers /\ ~InGate /\ ~InGate'
      BY <1>5, ServiceHostAssumption DEF Shutdown, Handlers, InGate
    <3> QED
      BY <1>5, <3>1 DEF Shutdown, HostInv, TypeOK
  <2>2. KeptInv'
    BY <1>5, ServiceHostAssumption
       DEF Shutdown, HostInv, KeptInv, ContextInv, ControlInv, GateInv, AnswerInv,
           InGate
  <2> QED
    BY <2>1, <2>2 DEF HostInv
<1>6. CASE Remove
  <2>1. scm' \in Scms /\ scm'.state = scm.state
    BY <1>6 DEF Remove, HostInv, TypeOK, Scms
  <2>2. UNCHANGED <<main, context, handler, starts, accepted>>
    BY <1>6 DEF Remove
  <2> QED
    BY <2>1, <2>2 DEF HostInv, TypeOK, KeptInv, ContextInv, ControlInv, GateInv,
                      AnswerInv, InGate
<1>7. CASE UNCHANGED <<scm, main, context, handler, starts, accepted>>
  BY <1>7 DEF HostInv, TypeOK, KeptInv, ContextInv, ControlInv, GateInv, AnswerInv,
              InGate
<1> QED
  BY <1>1, <1>2, <1>3, <1>4, <1>5, <1>6, <1>7 DEF Next, Environment, Enter, vars

-----------------------------------------------------------------------------
(* What the position of service_main, the gate and the callback say of each  *)
(* other holds in every state.                                              *)
THEOREM HostInvHolds == Spec => []HostInv
BY HostInit, HostStep, PTL DEF Spec

(* The state has its types, and the gate counts the callback exactly while   *)
(* it is inside.                                                            *)
THEOREM TypesHold == Spec => []TypeOK
<1>1. HostInv => TypeOK
  BY DEF HostInv
<1> QED
  BY <1>1, HostInvHolds, PTL

(* From the gate on the callback works on a live context, and the event it  *)
(* signals is open, wherever the other thread is.                           *)
THEOREM CallbackKeepsContextHolds == Spec => []CallbackKeepsContext
<1>1. HostInv => CallbackKeepsContext
  BY DEF HostInv, KeptInv, ContextInv, GateInv, InGate, Serving,
         CallbackKeepsContext
<1> QED
  BY <1>1, HostInvHolds, PTL

(* A stop that was answered with NO_ERROR is set when the service serves.   *)
THEOREM NoStopIsLostHolds == Spec => []NoStopIsLost
<1>1. HostInv => NoStopIsLost
  BY DEF HostInv, KeptInv, AnswerInv, NoStopIsLost
<1> QED
  BY <1>1, HostInvHolds, PTL

-----------------------------------------------------------------------------
(* The service is what its manager takes it for: the places of service_main *)
(* are steps of ServiceLife.                                                *)

Beginning == {"register", "reportStartPending", "createEvent", "reportRunning"}

Closing == {"close", "drain", "release", "reportStopped"}

(* What the SCM calls the service, at each place of service_main: only the  *)
(* reports change it, and each may have failed.                             *)
KnownInv ==
  /\ main = "none" => scm.state = "stopped" /\ ~context.signaled
  /\ main \in Beginning => scm.state = "start_pending"
  /\ main \in {"serve", "reportStopPending"} => scm.state = "running"
  /\ main \in Closing => scm.state # "stopped"

LifeInv == HostInv /\ KnownInv

(* No process: nothing is known to run. *)
LEMMA LifeInit == Init => LifeInv /\ Life!Init
<1>1. Init => KnownInv
  BY DEF Init, KnownInv, Beginning, Closing, NoContext, NewContext
<1>2. Init => Life!Init
  BY DEF Init, Life!Init, Phase, NoContext, NewContext
<1> QED
  BY <1>1, <1>2, HostInit DEF LifeInv

(* A step of the thread of service_main begins to serve, ends, or reports:  *)
(* or the SCM sees nothing of it.                                           *)
LEMMA MainLife ==
  LifeInv /\ (Main \/ FailServing) => KnownInv' /\ [Life!Next]_(Life!vars)
<1> SUFFICES ASSUME LifeInv, Main \/ FailServing
             PROVE  KnownInv' /\ [Life!Next]_(Life!vars)
  OBVIOUS
<1>1. scm \in Scms /\ context \in Contexts
  BY DEF LifeInv, HostInv, TypeOK
<1> USE <1>1 DEF LifeInv, KnownInv, Beginning, Closing, Step, Report,
                 ReportFails, ServiceUnchanged, Scms, Contexts, Phase,
                 Life!Next, Life!vars, Life!Serve, Life!End, Life!Report
<1>2. CASE Register
  BY <1>2 DEF Register
<1>3. CASE ReportStartPending
  BY <1>3 DEF ReportStartPending
<1>4. CASE CreateEvent
  BY <1>4 DEF CreateEvent
<1>5. CASE ReportRunning
  BY <1>5 DEF ReportRunning
<1>6. CASE FinishServing \/ FailServing
  BY <1>6 DEF FinishServing, FailServing
<1>7. CASE ReportStopPending
  BY <1>7 DEF ReportStopPending
<1>8. CASE CloseGate \/ Drain \/ ReleaseEvent \/ FreeContext
  BY <1>8 DEF CloseGate, Drain, ReleaseEvent, FreeContext
<1>9. CASE ReportStopped
  BY <1>9 DEF ReportStopped
<1> QED
  BY <1>2, <1>3, <1>4, <1>5, <1>6, <1>7, <1>8, <1>9 DEF Main

(* The end of the process is the end of the service, wherever it was. *)
LEMMA OverLife ==
  LifeInv /\ main # "none" /\ ProcessIsOver => KnownInv' /\ Life!Die
<1> SUFFICES ASSUME LifeInv, main # "none", ProcessIsOver
             PROVE  KnownInv' /\ Life!Die
  OBVIOUS
<1>1. /\ main' = "none" /\ scm'.state = "stopped" /\ ~context'.signaled
      /\ context'.signaled = FALSE /\ UNCHANGED accepted
  BY DEF ProcessIsOver, NoContext, NewContext, LifeInv, HostInv, TypeOK, Scms
<1>2. KnownInv'
  BY <1>1 DEF LifeInv, KnownInv, Beginning, Closing
<1>3. Phase # "down" /\ Phase' = "down"
  BY <1>1 DEF Phase
<1> QED
  BY <1>1, <1>2, <1>3 DEF Life!Die

(* The callback sets the stop of a service that serves or ends, and accepts *)
(* a stop only there.                                                       *)
LEMMA HandlerLife == LifeInv /\ Handler => KnownInv' /\ [Life!Next]_(Life!vars)
<1> SUFFICES ASSUME LifeInv, Handler PROVE KnownInv' /\ [Life!Next]_(Life!vars)
  OBVIOUS
<1>1. handler.pc # "idle" => main \in AfterRunning
  BY DEF LifeInv, HostInv, KeptInv, ControlInv
<1>2. main \in AfterRunning => Phase \in {"serving", "ending"} /\ main # "none"
  BY DEF AfterRunning, Serving, GateClosed, Phase
<1>3. CASE ProcessIsOver
  <2>1. handler.pc # "idle"
    BY <1>3, OverLife DEF Handler, Deliver, EnterGate, EnterFreed, CheckRunning,
       LookUpEvent, Signal, LeaveGate, ReturnFromHandler, ControlFails
  <2> QED
    BY <1>1, <1>2, <1>3, <2>1, OverLife DEF Life!Next
<1>4. CASE Signal
  <2>1. /\ UNCHANGED <<scm, main, accepted>>
        /\ handler.pc = "signal"
    BY <1>4 DEF Signal, HandlerUnchanged
  <2>2. context'.signaled = TRUE \/ UNCHANGED context
    BY <1>4 DEF Signal, LifeInv, HostInv, TypeOK, Contexts
  <2>3. UNCHANGED Phase
    BY <2>1 DEF Phase
  <2>4. KnownInv'
    BY <1>1, <1>2, <2>1 DEF LifeInv, KnownInv, Beginning, Closing
  <2> QED
    BY <1>1, <1>2, <2>1, <2>2, <2>3, <2>4 DEF Life!Next, Life!Tell, Life!vars
<1>5. CASE ReturnFromHandler \/ ControlFails
  <2>1. UNCHANGED <<scm, main, context>> /\ handler.pc # "idle"
    BY <1>5 DEF ReturnFromHandler, ControlFails, Return
  <2>2. UNCHANGED Phase /\ KnownInv'
    BY <2>1 DEF Phase, LifeInv, KnownInv
  <2>3. CASE ReturnFromHandler /\ handler.reply = "ok"
    <3>1. accepted' = TRUE
      BY <2>3 DEF ReturnFromHandler, Return
    <3>2. main = "serve" => context.signaled
      BY <2>3 DEF LifeInv, HostInv, KeptInv, AnswerInv
    <3>3. Phase = "serving" => main = "serve"
      BY DEF Phase
    <3>4. Life!Accept
      BY <1>1, <1>2, <2>1, <2>2, <3>1, <3>2, <3>3 DEF Life!Accept
    <3> QED
      BY <2>2, <3>4 DEF Life!Next
  <2>4. CASE ControlFails \/ handler.reply # "ok"
    <3>1. accepted' = accepted
      BY <1>5, <2>4 DEF ReturnFromHandler, ControlFails, Return
    <3> QED
      BY <2>1, <2>2, <3>1 DEF Life!vars
  <2> QED
    BY <1>5, <2>3, <2>4
<1>6. CASE Deliver \/ EnterGate \/ (EnterFreed /\ ~ProcessIsOver) \/ CheckRunning
           \/ LookUpEvent \/ LeaveGate
  <2>1. UNCHANGED <<scm, main, accepted>>
    BY <1>6 DEF Deliver, EnterGate, EnterFreed, CheckRunning, LookUpEvent,
                LeaveGate, HandlerUnchanged
  <2>2. UNCHANGED context.signaled
    BY <1>6 DEF Deliver, EnterGate, EnterFreed, CheckRunning, LookUpEvent,
                LeaveGate, LifeInv, HostInv, TypeOK, Contexts
  <2>3. UNCHANGED Phase /\ KnownInv'
    BY <2>1, <2>2 DEF Phase, LifeInv, KnownInv
  <2> QED
    BY <2>1, <2>2, <2>3 DEF Life!vars
<1> QED
  BY <1>3, <1>4, <1>5, <1>6 DEF Handler

(* A start is the one step of a command the service itself sees. *)
LEMMA CommandLife ==
  ASSUME NEW c \in Commands, LifeInv, Command(c)
  PROVE  KnownInv' /\ [Life!Next]_(Life!vars)
<1>1. scm \in Scms
  BY DEF LifeInv, HostInv, TypeOK
<1>2. CASE /\ scm.state = "stopped" /\ main = "none"
           /\ main' = "register" /\ context' = NewContext /\ accepted' = FALSE
           /\ scm' = [scm EXCEPT !.state = "start_pending"]
  <2>1. scm'.state = "start_pending" /\ context'.signaled = FALSE
    BY <1>1, <1>2 DEF Scms, NewContext
  <2>2. KnownInv'
    BY <1>2, <2>1 DEF KnownInv, Beginning, Closing
  <2>3. Phase = "down" /\ Phase' = "starting"
    BY <1>2 DEF Phase
  <2> QED
    BY <1>2, <2>1, <2>2, <2>3 DEF Life!Next, Life!Start
<1>3. CASE UNCHANGED <<scm.state, main, context, accepted>>
  <2>1. UNCHANGED Phase /\ KnownInv'
    BY <1>3 DEF Phase, LifeInv, KnownInv
  <2> QED
    BY <1>3, <2>1 DEF Life!vars
<1> QED
  BY <1>1, <1>2, <1>3
     DEF Command, Install, Query, CallStart, CallStop, CallDelete, Poll, Scms

(* Every step is one of the service's life, or none of the manager's. *)
LEMMA LifeStep ==
  LifeInv /\ [Next]_vars => LifeInv' /\ [Life!Next]_(Life!vars)
<1> SUFFICES ASSUME LifeInv, [Next]_vars
             PROVE  LifeInv' /\ [Life!Next]_(Life!vars)
  OBVIOUS
<1>1. HostInv'
  BY HostStep DEF LifeInv
<1>2. CASE Main \/ FailServing
  BY <1>1, <1>2, MainLife DEF LifeInv
<1>3. CASE ProcessReturns \/ ProcessIsKilled
  BY <1>1, <1>3, OverLife DEF ProcessReturns, ProcessIsKilled, LifeInv, Life!Next
<1>4. CASE Handler
  BY <1>1, <1>4, HandlerLife DEF LifeInv
<1>5. CASE \E c \in Commands : Command(c)
  BY <1>1, <1>5, CommandLife DEF LifeInv
<1>6. CASE UNCHANGED <<scm.state, main, context, accepted>>
  <2>1. UNCHANGED Phase /\ KnownInv'
    BY <1>6 DEF Phase, LifeInv, KnownInv
  <2> QED
    BY <1>1, <1>6, <2>1 DEF LifeInv, Life!vars
<1>7. CASE Shutdown \/ Remove \/ UNCHANGED vars
           \/ \E c \in Commands, op \in {"install", "start", "stop", "uninstall"} :
                Enter(c, op)
  <2>1. UNCHANGED <<scm.state, main, context, accepted>>
    BY <1>7 DEF Shutdown, Remove, Enter, vars, LifeInv, HostInv, TypeOK, Scms
  <2> QED
    BY <1>6, <2>1
<1> QED
  BY <1>2, <1>3, <1>4, <1>5, <1>7 DEF Next, Environment

(* service_main, the control callback and the commands, with every failing  *)
(* call and kill, implement the service of ServiceLife: it is running for   *)
(* its manager only while it can be stopped, its states come in order, and  *)
(* a stop it accepted is one it ends by.                                    *)
THEOREM LifeHolds == Spec => LifeIsOrderly
BY LifeInit, LifeStep, PTL DEF Spec, LifeIsOrderly, Life!Spec
=============================================================================
