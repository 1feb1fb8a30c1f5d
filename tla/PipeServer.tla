------------------------------ MODULE PipeServer ------------------------------
(***************************************************************************)
(* The local transport of the service (rustnt-core service.rs): the loop   *)
(* run_pipe_server with its one pipe instance and its overlapped reads and *)
(* writes, the client side of ServiceClient::request, and other programs   *)
(* that speak to the pipe as they like.                                    *)
(*                                                                         *)
(* Each server call on the pipe may complete at once or stay pending; a    *)
(* pending one is ended by its completion, by the stop event, or, where    *)
(* the code gives one, by a timeout.  A completion that is there when the  *)
(* server looks is taken first; one that comes between the decision to     *)
(* give up and the cancellation of the call decides what giving up means.  *)
(* What a request makes the service do is the subject of Termination; here *)
(* it is handled in one step.                                              *)
(***************************************************************************)
EXTENDS Integers, Sequences, FiniteSets

CONSTANTS
  CliClients,      \* exchanges of ServiceClient::request, one each
  RawClients,      \* connections of other programs, one each
  LargeResponses,  \* may a response outgrow the pipe's buffer
  MaxQueued,       \* bound: messages a raw client leaves unread
  None

Clients == CliClients \cup RawClients

(* What a client may write.  `request' decodes, `malformed' does not; those *)
(* two are longer than an acknowledgement, `oversized' is longer than the   *)
(* request buffer, `short' is no longer than an acknowledgement.            *)
Messages == {"request", "malformed", "oversized", "short", "ack"}

(* A response, by whom and what it answers; the instance of the pipe with   *)
(* what is unread in it, the rest of a message that was too long included.  *)
Responses == [to : Clients, of : Messages]

Instances ==
  [client : Clients \cup {None}, closed : BOOLEAN,
   toServer : Seq(Messages \cup {"rest"}), toClient : Responses \cup {None}]

(* How a call of a client fails, and why the server ends a connection.      *)
Errors == {"no service", "busy", "lost", "unacknowledged", "killed"}
Endings == {"closed", "acknowledged", "abandoned", "timeout", "ended"}

ASSUME PipeServerAssumption ==
  /\ CliClients \cap RawClients = {}
  /\ LargeResponses \in BOOLEAN
  /\ MaxQueued \in Nat \ {0}
  /\ None \notin Clients \cup Messages \cup Responses \cup Instances
  /\ None \notin Errors \cup Endings

VARIABLES
  server,   \* [pc, message, why]: where the loop is, what it read last, and
            \* why it cancels the pending call, if it does
  cause,    \* what made the server fail, or None
  stop,     \* the stop event is set
  pipe,     \* the pipe instance, or None
  client,   \* [pc, response, error] of each client
  handled,  \* history: how often a request of a client was dispatched
  dropped   \* history: why the server ended the connection of a client

vars == <<server, cause, stop, pipe, client, handled, dropped>>

TooLong(message, reading) ==
  message = "oversized"
    \/ (reading = "acknowledgement" /\ message \in {"request", "malformed"})

-----------------------------------------------------------------------------
(* The pipe instance. *)

NewInstance ==
  [client |-> None, closed |-> FALSE, toServer |-> <<>>, toClient |-> None]

Free == pipe # None /\ pipe.client = None

Connected(c) == pipe # None /\ pipe.client = c

(* Something a pending or new read of the server completes with. *)
Readable == pipe.toServer # <<>> \/ pipe.closed

-----------------------------------------------------------------------------
(* The server's steps. *)

Goto(pc) == server' = [server EXCEPT !.pc = pc]

(* OwnedPipe::drop disconnects the client; what it has not read is lost.    *)
Disconnect(reason, pc) ==
  /\ pipe' = None
  /\ server' = [pc |-> pc, message |-> None, why |-> None]
  /\ dropped' = IF pipe # None /\ pipe.client # None
                  THEN [dropped EXCEPT ![pipe.client] = reason] ELSE dropped
  /\ UNCHANGED <<stop, client, handled>>

NextConnection(reason) == Disconnect(reason, "create") /\ UNCHANGED cause

(* An error the loop returns to the service host.                           *)
FailWith(why) == Disconnect("ended", "failed") /\ cause' = why

CreateInstance ==
  /\ server.pc = "create"
  /\ pipe' = NewInstance
  /\ Goto("connect")
  /\ UNCHANGED <<cause, stop, client, handled, dropped>>

(* ConnectNamedPipe: a client that is there already is as good as one that  *)
(* comes, one that has left again is an error (ERROR_NO_DATA).              *)
BeginConnect ==
  /\ server.pc = "connect"
  /\ \/ /\ Free
        /\ Goto("connecting")
        /\ UNCHANGED <<cause, stop, pipe, client, handled, dropped>>
     \/ /\ ~Free
        /\ ~pipe.closed
        /\ Goto("read")
        /\ UNCHANGED <<cause, stop, pipe, client, handled, dropped>>
     \/ ~Free /\ pipe.closed /\ FailWith("connect")

FinishConnect ==
  /\ server.pc = "connecting"
  /\ server.why = None
  /\ ~Free
  /\ Goto("read")
  /\ UNCHANGED <<cause, stop, pipe, client, handled, dropped>>

(* A read takes one message, or its first part.                             *)
Take(rest, pc) ==
  /\ pipe' = [pipe EXCEPT !.toServer = rest \o Tail(@)]
  /\ server' = [pc |-> pc, message |-> Head(pipe.toServer), why |-> None]
  /\ UNCHANGED <<cause, stop, client, handled, dropped>>

Disconnected == pipe.toServer = <<>> /\ pipe.closed

Arrived == pipe.toServer # <<>>

(* ReadFile on the request.  A message too long for the buffer is refused   *)
(* with an error response, but only its first part was read.                *)
BeginRead ==
  /\ server.pc = "read"
  /\ \/ Arrived /\ ~TooLong(Head(pipe.toServer), "request") /\ Take(<<>>, "handle")
     \/ Arrived /\ TooLong(Head(pipe.toServer), "request") /\ Take(<<"rest">>, "handle")
     \/ Disconnected /\ NextConnection("closed")
     \/ /\ ~Readable
        /\ Goto("reading")
        /\ UNCHANGED <<cause, stop, pipe, client, handled, dropped>>

(* The same read when it was pending: a message too long for the buffer is  *)
(* now an error of the completion.                                          *)
FinishRead ==
  /\ server.pc = "reading"
  /\ server.why = None
  /\ \/ Arrived /\ ~TooLong(Head(pipe.toServer), "request") /\ Take(<<>>, "handle")
     \/ Arrived /\ TooLong(Head(pipe.toServer), "request") /\ FailWith("read")
     \/ Disconnected /\ NextConnection("closed")

(* decode_request, and dispatch_request for what decodes. *)
Handle ==
  /\ server.pc = "handle"
  /\ handled' = IF server.message = "request"
                  THEN [handled EXCEPT ![pipe.client] = @ + 1] ELSE handled
  /\ Goto("write")
  /\ UNCHANGED <<cause, stop, pipe, client, dropped>>

(* WriteFile.  A response the buffer has no room for stays pending until it *)
(* is read.                                                                 *)
BeginWrite ==
  /\ server.pc = "write"
  /\ \/ pipe.closed /\ NextConnection("closed")
     \/ /\ ~pipe.closed
        /\ pipe' = [pipe EXCEPT !.toClient = [to |-> pipe.client, of |-> server.message]]
        /\ Goto("acknowledge") \/ (LargeResponses /\ Goto("writing"))
        /\ UNCHANGED <<cause, stop, client, handled, dropped>>

FinishWrite ==
  /\ server.pc = "writing"
  /\ server.why = None
  /\ \/ /\ pipe.toClient = None
        /\ Goto("acknowledge")
        /\ UNCHANGED <<cause, stop, pipe, client, handled, dropped>>
     \/ pipe.toClient # None /\ pipe.closed /\ NextConnection("closed")

(* Variants: the server does not wait for the acknowledgement, or reads the *)
(* next request of the same client after it.                                *)
AcknowledgeNothing == server.pc = "acknowledge" /\ NextConnection("acknowledged")

AcknowledgeAndReadOn ==
  /\ server.pc = "acknowledge"
  /\ \/ Arrived /\ Head(pipe.toServer) = "ack" /\ Take(<<>>, "read")
     \/ Arrived /\ Head(pipe.toServer) # "ack" /\ NextConnection("abandoned")
     \/ Disconnected /\ NextConnection("closed")
     \/ /\ ~Readable
        /\ Goto("acknowledging")
        /\ UNCHANGED <<cause, stop, pipe, client, handled, dropped>>

(* ReadFile on the acknowledgement: whatever it is, the connection is over. *)
BeginAcknowledge ==
  /\ server.pc = "acknowledge"
  /\ \/ Arrived /\ Head(pipe.toServer) = "ack" /\ NextConnection("acknowledged")
     \/ Arrived /\ Head(pipe.toServer) # "ack" /\ NextConnection("abandoned")
     \/ Disconnected /\ NextConnection("closed")
     \/ /\ ~Readable
        /\ Goto("acknowledging")
        /\ UNCHANGED <<cause, stop, pipe, client, handled, dropped>>

FinishAcknowledge ==
  /\ server.pc = "acknowledging"
  /\ server.why = None
  /\ \/ Arrived /\ Head(pipe.toServer) = "ack" /\ NextConnection("acknowledged")
     \/ Arrived /\ Head(pipe.toServer) = "short" /\ NextConnection("abandoned")
     \/ /\ Arrived
        /\ TooLong(Head(pipe.toServer), "acknowledgement")
        /\ FailWith("acknowledgement")
     \/ Disconnected /\ NextConnection("closed")

(* The call the server waits for is pending.                                *)
Pending ==
  \/ server.pc = "connecting" /\ Free
  \/ server.pc \in {"reading", "acknowledging"} /\ ~Readable
  \/ server.pc = "writing" /\ pipe.toClient # None /\ ~pipe.closed

CancelBecause(why) ==
  /\ server' = [server EXCEPT !.why = why]
  /\ UNCHANGED <<cause, stop, pipe, client, handled, dropped>>

(* Variants: a wait for a request ignores the stop event; the wait for the  *)
(* acknowledgement has no timeout.                                          *)
GiveUpButReads ==
  /\ server.why = None
  /\ Pending
  /\ \/ stop /\ server.pc # "reading" /\ CancelBecause("stop")
     \/ server.pc = "acknowledging" /\ CancelBecause("timeout")

GiveUpOnStopOnly == server.why = None /\ Pending /\ stop /\ CancelBecause("stop")

(* The wait ends by the stop event or, for an acknowledgement, after 5 s.   *)
GiveUp ==
  /\ server.why = None
  /\ Pending
  /\ \/ stop /\ CancelBecause("stop")
     \/ server.pc = "acknowledging" /\ CancelBecause("timeout")

Abandon ==
  \/ server.why = "stop" /\ Disconnect("ended", "stopped") /\ UNCHANGED cause
  \/ server.why = "timeout" /\ NextConnection("timeout")

(* CancelIoEx and the result of the call.  It may have completed after all: *)
(* with success, which nobody looks at, with the end of the connection,     *)
(* which is handled like any other, or with the error of a long message.    *)
Cancel ==
  /\ server.why # None
  /\ LET reading == server.pc \in {"reading", "acknowledging"}
         of == IF server.pc = "reading" THEN "request" ELSE "acknowledgement"
         over == IF server.pc = "writing" THEN pipe.toClient # None /\ pipe.closed
                 ELSE reading /\ Disconnected
         long == reading /\ Arrived /\ TooLong(Head(pipe.toServer), of)
     IN  \/ over /\ NextConnection("closed")
         \/ long /\ FailWith(IF of = "request" THEN "read" ELSE of)
         \/ ~over /\ ~long /\ Abandon

(* Any other error of a Windows call, at any of them. *)
Failing ==
  /\ server.pc \notin {"handle", "stopped", "failed"}
  /\ FailWith("windows")

Server ==
  \/ CreateInstance \/ BeginConnect \/ FinishConnect
  \/ BeginRead \/ FinishRead \/ Handle
  \/ BeginWrite \/ FinishWrite
  \/ BeginAcknowledge \/ FinishAcknowledge
  \/ GiveUp \/ Cancel

-----------------------------------------------------------------------------
(* ServiceClient::request. *)

Proceed(c, pc) == client' = [client EXCEPT ![c].pc = pc]

Return(c, error) == client' = [client EXCEPT ![c] = [@ EXCEPT !.pc = "done", !.error = error]]

serverVars == <<server, cause, stop, handled, dropped>>

(* WaitNamedPipeW fails at once when no instance exists, ...                *)
CallWait(c) ==
  /\ client[c].pc = "call"
  /\ IF pipe = None THEN Return(c, "no service") ELSE Proceed(c, "wait")
  /\ UNCHANGED <<serverVars, pipe>>

(* Variant: the wait has no deadline. *)
FinishWaitForEver(c) ==
  /\ client[c].pc = "wait"
  /\ Free
  /\ Proceed(c, "open")
  /\ UNCHANGED <<serverVars, pipe>>

(* ... and otherwise waits for a free one, 5 s at most over all rounds.     *)
FinishWait(c) ==
  /\ client[c].pc = "wait"
  /\ (Free /\ Proceed(c, "open")) \/ Return(c, "busy")
  /\ UNCHANGED <<serverVars, pipe>>

(* CreateFileW; somebody else may have been faster: one more round.         *)
OpenPipe(c) ==
  /\ client[c].pc = "open"
  /\ \/ pipe = None /\ Return(c, "no service") /\ UNCHANGED pipe
     \/ pipe # None /\ ~Free /\ Proceed(c, "call") /\ UNCHANGED pipe
     \/ Free /\ Proceed(c, "send") /\ pipe' = [pipe EXCEPT !.client = c]
  /\ UNCHANGED serverVars

(* Variant: a lost connection is one more reason for another round. *)
LoseConnectionAndRetry(c) ==
  /\ client[c].pc \in {"send", "flush", "receive"}
  /\ ~Connected(c)
  /\ Proceed(c, "call")
  /\ UNCHANGED <<serverVars, pipe>>

(* Every later call fails when the server has ended the connection.         *)
LoseConnection(c) ==
  /\ client[c].pc \in {"send", "flush", "receive"}
  /\ ~Connected(c)
  /\ Return(c, "lost")
  /\ UNCHANGED <<serverVars, pipe>>

SendRequest(c) ==
  /\ client[c].pc = "send"
  /\ Connected(c)
  /\ pipe' = [pipe EXCEPT !.toServer = Append(@, "request")]
  /\ Proceed(c, "flush")
  /\ UNCHANGED serverVars

(* FlushFileBuffers waits until the server has read the request.            *)
FlushRequest(c) ==
  /\ client[c].pc = "flush"
  /\ Connected(c)
  /\ pipe.toServer = <<>>
  /\ Proceed(c, "receive")
  /\ UNCHANGED <<serverVars, pipe>>

ReceiveResponse(c) ==
  /\ client[c].pc = "receive"
  /\ Connected(c)
  /\ pipe.toClient # None
  /\ client' = [client EXCEPT ![c] = [@ EXCEPT !.pc = "acknowledge",
                                               !.response = pipe.toClient]]
  /\ pipe' = [pipe EXCEPT !.toClient = None]
  /\ UNCHANGED serverVars

(* Write the acknowledgement and close the pipe.  When that fails, the      *)
(* response is thrown away.                                                 *)
SendAcknowledgement(c) ==
  /\ client[c].pc = "acknowledge"
  /\ \/ /\ Connected(c)
        /\ pipe' = [pipe EXCEPT !.toServer = Append(@, "ack"), !.closed = TRUE]
        /\ Proceed(c, "done")
     \/ ~Connected(c) /\ Return(c, "unacknowledged") /\ UNCHANGED pipe
  /\ UNCHANGED serverVars

CliStep(c) ==
  \/ CallWait(c) \/ FinishWait(c) \/ OpenPipe(c) \/ LoseConnection(c)
  \/ SendRequest(c) \/ FlushRequest(c) \/ ReceiveResponse(c)
  \/ SendAcknowledgement(c)

(* The process of a client is killed: its end of the pipe is closed.        *)
KillClient(c) ==
  /\ client[c].pc # "done"
  /\ Return(c, "killed")
  /\ pipe' = IF Connected(c) THEN [pipe EXCEPT !.closed = TRUE] ELSE pipe
  /\ UNCHANGED serverVars

-----------------------------------------------------------------------------
(* Other programs. *)

RawConnect(c) ==
  /\ client[c].pc = "call"
  /\ Free
  /\ pipe' = [pipe EXCEPT !.client = c]
  /\ Proceed(c, "raw")
  /\ UNCHANGED serverVars

RawWrite(c, message) ==
  /\ client[c].pc = "raw"
  /\ Connected(c)
  /\ Len(pipe.toServer) < MaxQueued
  /\ pipe' = [pipe EXCEPT !.toServer = Append(@, message)]
  /\ UNCHANGED <<serverVars, client>>

RawReceive(c) ==
  /\ client[c].pc = "raw"
  /\ Connected(c)
  /\ pipe.toClient # None
  /\ pipe' = [pipe EXCEPT !.toClient = None]
  /\ client' = [client EXCEPT ![c].response = pipe.toClient]
  /\ UNCHANGED serverVars

RequestStop ==
  /\ ~stop
  /\ stop' = TRUE
  /\ UNCHANGED <<server, cause, pipe, client, handled, dropped>>

-----------------------------------------------------------------------------
Init ==
  /\ server = [pc |-> "create", message |-> None, why |-> None]
  /\ cause = None
  /\ stop = FALSE
  /\ pipe = None
  /\ client = [c \in Clients |-> [pc |-> "call", response |-> None,
                                  error |-> None]]
  /\ handled = [c \in Clients |-> 0]
  /\ dropped = [c \in Clients |-> None]

Environment ==
  \/ RequestStop
  \/ \E c \in Clients : KillClient(c)
  \/ \E c \in RawClients :
       \/ RawConnect(c) \/ RawReceive(c)
       \/ \E message \in Messages : RawWrite(c, message)

Next == Server \/ Failing \/ (\E c \in CliClients : CliStep(c)) \/ Environment

(* The service thread and the CLI's run; other programs do as they like,    *)
(* nobody has to set the stop event, and no call has to fail.               *)
Spec ==
  /\ Init /\ [][Next]_vars
  /\ WF_vars(Server)
  /\ \A c \in CliClients : WF_vars(CliStep(c))

-----------------------------------------------------------------------------
Ended == server.pc \in {"stopped", "failed"}

TypeOK ==
  /\ server \in [pc : {"create", "connect", "connecting", "read", "reading",
                       "handle", "write", "writing", "acknowledge",
                       "acknowledging", "stopped", "failed"},
                 message : Messages \cup {None}, why : {None, "stop", "timeout"}]
  /\ cause \in {None, "connect", "read", "acknowledgement", "windows"}
  /\ pipe \in Instances \cup {None}
  /\ client \in [Clients ->
       [pc : {"call", "wait", "open", "send", "flush", "receive", "acknowledge",
              "raw", "done"},
        response : Responses \cup {None}, error : Errors \cup {None}]]
  /\ handled \in [Clients -> Nat]
  /\ dropped \in [Clients -> Endings \cup {None}]
  /\ pipe = None <=> server.pc \in {"create", "stopped", "failed"}

(* One connection carries one exchange: no request is dispatched twice,     *)
(* whatever is retried, timed out or lost, and a response is one to the     *)
(* request of that client, dispatched exactly once.                         *)
OneExchangePerConnection ==
  \A c \in Clients :
    /\ handled[c] <= 1
    /\ client[c].response # None =>
         /\ client[c].response.to = c
         /\ client[c].response.of = "request" => handled[c] = 1

(* A CLI exchange that reached the service is given up by the server only   *)
(* after 5 s without an acknowledgement, or when it ends itself: the        *)
(* acknowledgement keeps the server from discarding a response the client   *)
(* has not read yet, and an exchange counts as complete only when it was    *)
(* read.                                                                    *)
NoResponseIsDiscarded ==
  \A c \in CliClients :
    /\ client[c].error \in {"lost", "unacknowledged"} =>
         dropped[c] \in {"timeout", "ended"}
    /\ dropped[c] = "acknowledged" => client[c].response # None

(* What the CLI knows of its exchange from how ServiceClient::request ends:  *)
(* without a pipe to open nothing can have been dispatched, afterwards only *)
(* a response it has read and acknowledged is certain.                      *)
Told(c) ==
  IF client[c].pc # "done" THEN "pending"
  ELSE IF client[c].error = None THEN "answered"
  ELSE IF client[c].error \in {"no service", "busy"} THEN "refused"
  ELSE "lost"

Call == INSTANCE RemoteCall WITH
  Calls <- CliClients,
  executed <- [c \in CliClients |-> handled[c]],
  outcome <- [c \in CliClients |-> Told(c)]

(* The exchange implements a remote call executed at most once: it succeeds *)
(* only if the request was dispatched, and a run that is told that the      *)
(* service is absent or busy was not served and will not be, whatever is    *)
(* retried, cancelled, killed or completed late.                            *)
CallsHappenAtMostOnce == Call!Spec

(* Whatever the clients do or leave undone, the stop event ends the loop.   *)
StopAlwaysWorks == stop ~> Ended

(* A call of ServiceClient::request returns, also while another program     *)
(* occupies the pipe without a word.                                        *)
EveryCallReturns == \A c \in CliClients : (client[c].pc = "call") ~> (client[c].pc = "done")

(* A client that sent its request keeps the pipe only if it leaves a        *)
(* response unread for ever that is too large for the pipe's buffer; in     *)
(* every other case, acknowledged or not, the server comes back to its      *)
(* accept loop or ends.                                                     *)
NobodyKeepsThePipe ==
  (server.pc = "handle") ~>
    (server.pc = "create" \/ Ended \/ [](server.pc = "writing"))

-----------------------------------------------------------------------------
(* What a document says, and the code does not do.                          *)

(* Task 03 plan: "A malformed client request must not terminate the         *)
(* service."                                                                *)
MalformedIsNotFatal == cause \notin {"read", "acknowledgement"}
=============================================================================
