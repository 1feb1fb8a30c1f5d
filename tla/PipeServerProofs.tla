--------------------------- MODULE PipeServerProofs ---------------------------
(***************************************************************************)
(* The local transport for every number of clients: one exchange for each  *)
(* connection, no response of a CLI exchange discarded, and the exchange   *)
(* as a whole an implementation of RemoteCall.                             *)
(***************************************************************************)
EXTENDS PipeServer, SequenceTheorems, TLAPS

(* The server has not read anything of its client yet.                      *)
Before == {"connect", "connecting", "read", "reading"}

(* Where the server stands and what lies in the pipe.                       *)
InstanceOK ==
  /\ server.pc \in Before \cup {"create"} => server.message = None
  /\ server.pc \in {"handle", "write", "writing", "acknowledge", "acknowledging"}
       => server.message \in Messages
  /\ server.pc \in Before => pipe.toServer \in Seq(Messages)
  /\ Free => /\ pipe.toServer = <<>> /\ pipe.toClient = None /\ ~pipe.closed
             /\ server.pc \in {"connect", "connecting"}
  /\ pipe # None /\ pipe.toClient # None =>
       /\ server.pc \in {"writing", "acknowledge", "acknowledging"}
       /\ pipe.toClient = [to |-> pipe.client, of |-> server.message]

(* A client that has not been connected has had no effect; a connected one  *)
(* has had its request dispatched exactly when the server is past that.     *)
Dispatched(c) ==
  /\ handled[c] <= 1
  /\ client[c].pc \in {"call", "wait", "open"} =>
       /\ ~Connected(c) /\ handled[c] = 0
       /\ client[c].response = None /\ dropped[c] = None
  /\ Connected(c) =>
       handled[c] = IF /\ server.pc \in {"write", "writing", "acknowledge", "acknowledging"}
                       /\ server.message = "request"
                      THEN 1 ELSE 0
  /\ client[c].response # None =>
       /\ client[c].response.to = c
       /\ client[c].response.of = "request" => handled[c] = 1

DispatchOK == \A c \in Clients : Dispatched(c)

(* How far the exchange of a CLI run and its connection have got.           *)
ExchangeOK(c) ==
  /\ client[c].pc # "raw"
  /\ client[c].error # None => client[c].pc = "done"
  /\ dropped[c] # None => ~Connected(c)
  /\ Connected(c) =>
       /\ client[c].error \in {None, "killed"}
       /\ client[c].pc = "done" <=> pipe.closed
       /\ \/ pipe.toServer = <<>>
          \/ pipe.toServer = <<"request">> /\ server.pc \in Before
          \/ /\ pipe.toServer = <<"ack">> /\ server.pc \notin Before
             /\ client[c].response # None
       /\ client[c].pc = "send" => pipe.toServer = <<>> /\ server.pc \in Before
       /\ client[c].pc = "flush" => pipe.toServer # <<>> \/ server.pc \notin Before
       /\ client[c].pc = "receive" => server.pc \notin Before
       /\ client[c].pc = "acknowledge" =>
            server.pc \notin Before /\ client[c].response # None
       /\ client[c].pc # "done" => pipe.toServer # <<"ack">>
       /\ client[c].pc \in {"receive", "acknowledge"} => pipe.toServer = <<>>
  /\ client[c].pc \in {"send", "flush", "receive", "acknowledge"} /\ ~Connected(c) =>
       dropped[c] \in {"timeout", "ended"}
  /\ client[c].error \in {"lost", "unacknowledged"} => dropped[c] \in {"timeout", "ended"}
  /\ dropped[c] = "acknowledged" => client[c].response # None

Inv == /\ TypeOK
       /\ InstanceOK
       /\ DispatchOK
       /\ \A c \in CliClients : ExchangeOK(c)
-----------------------------------------------------------------------------
(* Types of the parts. *)

Places == {"create", "connect", "connecting", "read", "reading", "handle", "write",
           "writing", "acknowledge", "acknowledging", "stopped", "failed"}

ServerRecord == [pc : Places, message : Messages \cup {None}, why : {None, "stop", "timeout"}]

ClientRecord ==
  [pc : {"call", "wait", "open", "send", "flush", "receive", "acknowledge", "raw", "done"},
   response : Responses \cup {None}, error : Errors \cup {None}]

LEMMA Typed ==
  ASSUME Inv
  PROVE  /\ server \in ServerRecord
         /\ client \in [Clients -> ClientRecord]
         /\ handled \in [Clients -> Nat] /\ dropped \in [Clients -> Endings \cup {None}]
         /\ pipe # None => /\ pipe \in Instances
                           /\ pipe.client \in Clients \cup {None}
                           /\ pipe.toServer \in Seq(Messages \cup {"rest"})
                           /\ pipe.toClient \in Responses \cup {None}
                           /\ server.pc \in Places \ {"create", "stopped", "failed"}
BY DEF Inv, TypeOK, ServerRecord, Places, ClientRecord, Instances

(* The client the pipe belongs to. *)
LEMMA Owner ==
  ASSUME Inv, pipe # None, ~Free
  PROVE  /\ pipe.client \in Clients /\ Connected(pipe.client)
         /\ \A c \in Clients : Connected(c) <=> c = pipe.client
BY Typed DEF Free, Connected

LEMMA FreeNotConnected ==
  ASSUME Free \/ pipe = None, NEW c \in Clients
  PROVE  ~Connected(c)
BY PipeServerAssumption DEF Free, Connected

-----------------------------------------------------------------------------
(* The server moves on in the same phase of the connection. *)

After == {"write", "writing", "acknowledge", "acknowledging"}

Moves ==
  /\ pipe # None
  /\ server' \in ServerRecord /\ server'.message = server.message
  /\ \/ server'.pc = server.pc
     \/ /\ server.pc \in Before /\ server'.pc \in Before
        /\ Free => server'.pc \in {"connect", "connecting"}
     \/ /\ server.pc \in {"writing", "acknowledge", "acknowledging"}
        /\ server'.pc \in {"writing", "acknowledge", "acknowledging"}
  /\ UNCHANGED <<cause, pipe, client, handled, dropped>>

LEMMA MovesKeeps ==
  ASSUME Inv, Moves
  PROVE  Inv'
<1>1. /\ UNCHANGED <<cause, pipe, client, handled, dropped>> /\ pipe # None
      /\ server.pc \in Places \ {"create", "stopped", "failed"}
      /\ server'.pc \in Places \ {"create", "stopped", "failed"}
      /\ server'.pc \in Before <=> server.pc \in Before
      /\ server'.pc \in After <=> server.pc \in After
      /\ server'.pc = "handle" <=> server.pc = "handle"
      /\ server' \in ServerRecord /\ server'.message = server.message
  BY Typed DEF Moves, Before, After, Places
<1>2. TypeOK'
  BY <1>1 DEF Inv, TypeOK, ServerRecord, Places
<1>3. InstanceOK'
  <2>1. server'.pc \in {"writing", "acknowledge", "acknowledging"}
          <=> server.pc \in {"writing", "acknowledge", "acknowledging"}
    BY DEF Moves, Before
  <2>2. Free => server'.pc \in {"connect", "connecting"}
    BY DEF Moves, Inv, InstanceOK
  <2> QED BY <1>1, <2>1, <2>2 DEF Inv, InstanceOK, Free, After, Before
<1>4. DispatchOK'
  BY <1>1 DEF Inv, DispatchOK, Dispatched, Connected, After
<1>5. \A c \in CliClients : ExchangeOK(c)'
  BY <1>1 DEF Inv, ExchangeOK, Connected
<1> QED BY <1>2, <1>3, <1>4, <1>5 DEF Inv

LEMMA GotoMoves ==
  ASSUME Inv, pipe # None, NEW pc \in Places, Goto(pc),
         UNCHANGED <<cause, stop, pipe, client, handled, dropped>>,
         \/ /\ server.pc \in Before /\ pc \in Before
            /\ Free => pc \in {"connect", "connecting"}
         \/ /\ server.pc \in {"writing", "acknowledge", "acknowledging"}
            /\ pc \in {"writing", "acknowledge", "acknowledging"}
  PROVE  Moves
<1>1. server' = [server EXCEPT !.pc = pc] /\ server \in ServerRecord
  BY Typed DEF Goto
<1>2. server' \in ServerRecord /\ server'.message = server.message /\ server'.pc = pc
  BY <1>1 DEF ServerRecord
<1> QED BY <1>2 DEF Moves

LEMMA CancelBecauseMoves ==
  ASSUME Inv, pipe # None, NEW why \in {"stop", "timeout"}, CancelBecause(why)
  PROVE  Moves
<1>1. server' = [server EXCEPT !.why = why] /\ server \in ServerRecord
  BY Typed DEF CancelBecause
<1>2. server' \in ServerRecord /\ server'.message = server.message /\ server'.pc = server.pc
  BY <1>1 DEF ServerRecord
<1> QED BY <1>2 DEF Moves, CancelBecause

-----------------------------------------------------------------------------
(* The server ends a connection. *)

(* Who is left, and why. *)
MayEnd(reason) ==
  \A c \in CliClients :
    Connected(c) => /\ reason \in {"timeout", "ended"} \/ client[c].pc = "done"
                    /\ reason = "acknowledged" => client[c].response # None

LEMMA DisconnectKeeps ==
  ASSUME Inv, NEW reason \in Endings, NEW pc \in {"create", "stopped", "failed"},
         Disconnect(reason, pc), MayEnd(reason),
         cause' \in {None, "connect", "read", "acknowledgement", "windows"}
  PROVE  Inv'
<1>1. /\ pipe' = None /\ server' = [pc |-> pc, message |-> None, why |-> None]
      /\ UNCHANGED <<client, handled>>
  BY DEF Disconnect
<1>2. /\ server' \in ServerRecord /\ server'.pc = pc /\ server'.message = None
      /\ \A c \in Clients : ~Connected(c)'
  BY <1>1, PipeServerAssumption DEF ServerRecord, Places, Connected
<1>3. /\ dropped' \in [Clients -> Endings \cup {None}]
      /\ \A c \in Clients : dropped'[c] = IF Connected(c) THEN reason ELSE dropped[c]
  BY Typed, PipeServerAssumption DEF Disconnect, Connected
<1>4. TypeOK'
  BY <1>1, <1>2, <1>3 DEF Inv, TypeOK, ServerRecord, Places
<1>5. InstanceOK'
  BY <1>1, <1>2 DEF InstanceOK, Before, Free
<1>6. DispatchOK'
  BY <1>1, <1>2, <1>3 DEF Inv, DispatchOK, Dispatched
<1>7. ASSUME NEW c \in CliClients PROVE ExchangeOK(c)'
  <2>1. c \in Clients /\ ExchangeOK(c) /\ client[c] \in ClientRecord /\ reason # None
    BY Typed, PipeServerAssumption DEF Clients, Inv
  <2>2. CASE Connected(c)
    BY <1>1, <1>2, <1>3, <2>1, <2>2, PipeServerAssumption
       DEF ExchangeOK, MayEnd, Endings, Errors
  <2>3. CASE ~Connected(c)
    BY <1>1, <1>2, <1>3, <2>1, <2>3 DEF ExchangeOK
  <2> QED BY <2>2, <2>3
<1> QED BY <1>4, <1>5, <1>6, <1>7 DEF Inv

LEMMA FailKeeps ==
  ASSUME Inv, NEW why \in {"connect", "read", "acknowledgement", "windows"}, FailWith(why)
  PROVE  Inv'
BY DisconnectKeeps DEF FailWith, MayEnd, Endings

LEMMA NextConnectionKeeps ==
  ASSUME Inv, NEW reason \in Endings, NextConnection(reason), MayEnd(reason)
  PROVE  Inv'
BY DisconnectKeeps DEF NextConnection, Inv, TypeOK

(* A closed connection is one whose client is done. *)
LEMMA ClosedMayEnd ==
  ASSUME Inv, pipe # None, pipe.closed
  PROVE  MayEnd("closed")
BY DEF Inv, ExchangeOK, MayEnd

-----------------------------------------------------------------------------
(* The other steps of the server. *)

LEMMA CreateKeeps ==
  ASSUME Inv, CreateInstance
  PROVE  Inv'
<1>1. /\ server.pc = "create" /\ pipe = None /\ server.message = None
      /\ pipe' = NewInstance /\ server' = [server EXCEPT !.pc = "connect"]
      /\ UNCHANGED <<cause, client, handled, dropped>>
  BY DEF CreateInstance, Goto, Inv, TypeOK, InstanceOK
<1>2. /\ server' \in ServerRecord /\ server'.pc = "connect" /\ server'.message = None
  BY <1>1, Typed DEF ServerRecord, Places
<1>3. /\ pipe'.client = None /\ ~pipe'.closed /\ pipe'.toServer = <<>> /\ pipe'.toClient = None
      /\ pipe' \in Instances
  BY <1>1 DEF NewInstance, Instances
<1>4. pipe' # None
  BY <1>3, PipeServerAssumption
<1>5. \A c \in Clients : ~Connected(c) /\ ~Connected(c)'
  BY <1>1, <1>3, PipeServerAssumption DEF Connected
<1>6. TypeOK'
  BY <1>1, <1>2, <1>3, <1>4 DEF Inv, TypeOK, ServerRecord, Places
<1>7. InstanceOK'
  BY <1>2, <1>3, <1>4 DEF InstanceOK, Before, Free
<1>8. DispatchOK'
  BY <1>1, <1>5 DEF Inv, DispatchOK, Dispatched
<1>9. \A c \in CliClients : ExchangeOK(c)'
  BY <1>1, <1>5 DEF Inv, ExchangeOK, Clients
<1> QED BY <1>6, <1>7, <1>8, <1>9 DEF Inv

(* What a CLI run can have written, once the server reads it. *)
LEMMA RequestIsRead ==
  ASSUME Inv, pipe # None, server.pc \in {"read", "reading"}, Arrived
  PROVE  /\ pipe.toServer \in Seq(Messages) /\ Head(pipe.toServer) \in Messages
         /\ Tail(pipe.toServer) \in Seq(Messages)
         /\ pipe.client \in CliClients =>
              pipe.toServer = <<"request">> /\ Tail(pipe.toServer) = <<>>
<1>1. pipe.toServer \in Seq(Messages)
  BY DEF Inv, InstanceOK, Before
<1>2. pipe.toServer # <<>>
  BY DEF Arrived
<1>3. pipe.client \in CliClients => pipe.toServer = <<"request">>
  BY <1>2 DEF Inv, ExchangeOK, Connected, Before
<1>4. Tail(<<"request">>) = <<>>
  OBVIOUS
<1>5. Head(pipe.toServer) \in Messages /\ Tail(pipe.toServer) \in Seq(Messages)
  BY <1>1, <1>2, HeadTailProperties
<1> QED BY <1>1, <1>3, <1>4, <1>5

LEMMA TakeKeeps ==
  ASSUME Inv, pipe # None, server.pc \in {"read", "reading"}, Arrived,
         NEW rest \in {<<>>, <<"rest">>}, Take(rest, "handle"),
         rest = <<"rest">> => TooLong(Head(pipe.toServer), "request")
  PROVE  Inv'
<1>1. /\ pipe' = [pipe EXCEPT !.toServer = rest \o Tail(pipe.toServer)]
      /\ server' = [pc |-> "handle", message |-> Head(pipe.toServer), why |-> None]
      /\ UNCHANGED <<cause, client, handled, dropped>>
  BY DEF Take
<1>2. /\ Head(pipe.toServer) \in Messages /\ Tail(pipe.toServer) \in Seq(Messages)
      /\ pipe.client \in CliClients =>
           pipe.toServer = <<"request">> /\ Tail(pipe.toServer) = <<>>
  BY RequestIsRead
<1>3. /\ rest \o Tail(pipe.toServer) \in Seq(Messages \cup {"rest"})
      /\ pipe.client \in CliClients => rest \o Tail(pipe.toServer) = <<>>
  <2>1. rest \in Seq(Messages \cup {"rest"}) /\ Tail(pipe.toServer) \in Seq(Messages \cup {"rest"})
    <3>1. <<"rest">> \in Seq(Messages \cup {"rest"}) /\ <<>> \in Seq(Messages \cup {"rest"})
      OBVIOUS
    <3>2. Tail(pipe.toServer) \in Seq(Messages \cup {"rest"})
      BY <1>2, SeqMonotonic
    <3> QED BY <3>1, <3>2
  <2>2. rest \o Tail(pipe.toServer) \in Seq(Messages \cup {"rest"})
    BY <2>1, ConcatProperties
  <2>3. pipe.client \in CliClients => rest = <<>>
    <3>1. Head(<<"request">>) = "request" /\ ~TooLong("request", "request")
      BY DEF TooLong
    <3> QED BY <1>2, <3>1
  <2>4. <<>> \o <<>> = <<>>
    OBVIOUS
  <2> QED BY <1>2, <2>2, <2>3, <2>4
<1>4. /\ pipe' \in Instances /\ pipe'.client = pipe.client /\ pipe'.closed = pipe.closed
      /\ pipe'.toClient = pipe.toClient
      /\ pipe'.toServer = rest \o Tail(pipe.toServer)
  BY <1>1, <1>3, Typed DEF Instances
<1>5. pipe' # None
  BY <1>4, PipeServerAssumption
<1>6. /\ server' \in ServerRecord /\ server'.pc = "handle" /\ server'.message \in Messages
  BY <1>1, <1>2 DEF ServerRecord, Places
<1>7. pipe.toClient = None /\ ~Free
  BY PipeServerAssumption DEF Inv, InstanceOK
<1>8. \A c \in Clients : Connected(c)' <=> Connected(c)
  BY <1>4, <1>5 DEF Connected
<1>9. TypeOK'
  BY <1>1, <1>4, <1>5, <1>6 DEF Inv, TypeOK, ServerRecord, Places
<1>10. InstanceOK'
  BY <1>4, <1>5, <1>6, <1>7 DEF InstanceOK, Before, Free
<1>11. DispatchOK'
  <2>1. \A c \in Clients : Connected(c) => handled[c] = 0
    BY DEF Inv, DispatchOK, Dispatched
  <2> QED BY <1>1, <1>6, <1>8, <2>1 DEF Inv, DispatchOK, Dispatched
<1>12. ASSUME NEW c \in CliClients PROVE ExchangeOK(c)'
  <2>1. ExchangeOK(c) /\ c \in Clients
    BY DEF Inv, Clients
  <2>2. CASE Connected(c)
    <3>1. pipe'.toServer = <<>> /\ client[c].pc \notin {"receive", "acknowledge", "send"}
      <4>1. pipe.client = c /\ pipe.toServer = <<"request">> /\ pipe.toServer # <<>>
        BY <1>2, <2>2 DEF Connected, Arrived
      <4> QED BY <1>3, <1>4, <2>1, <2>2, <4>1 DEF ExchangeOK
    <3>2. <<>> # <<"ack">>
      OBVIOUS
    <3> QED BY <1>1, <1>4, <1>6, <1>8, <2>1, <2>2, <3>1, <3>2 DEF ExchangeOK, Before
  <2>3. CASE ~Connected(c)
    BY <1>1, <1>8, <2>1, <2>3 DEF ExchangeOK
  <2> QED BY <2>2, <2>3
<1> QED BY <1>9, <1>10, <1>11, <1>12 DEF Inv

LEMMA HandleKeeps ==
  ASSUME Inv, Handle
  PROVE  Inv'
<1>1. /\ server.pc = "handle" /\ server' = [server EXCEPT !.pc = "write"]
      /\ UNCHANGED <<cause, pipe, client, dropped>>
      /\ pipe # None /\ ~Free /\ server.message \in Messages /\ pipe.toClient = None
  BY DEF Handle, Goto, Inv, TypeOK, InstanceOK
<1>2. /\ server' \in ServerRecord /\ server'.pc = "write" /\ server'.message = server.message
  BY <1>1, Typed DEF ServerRecord, Places
<1>3. PICK c \in Clients : /\ pipe.client = c /\ Connected(c)
                           /\ \A d \in Clients : Connected(d) <=> d = c
  BY <1>1, Owner
<1>4. handled[c] = 0 /\ handled \in [Clients -> Nat]
  BY <1>1, <1>3, Typed DEF Inv, DispatchOK, Dispatched
<1>5. /\ handled' \in [Clients -> Nat]
      /\ \A d \in Clients : d # c => handled'[d] = handled[d]
      /\ handled'[c] = IF server.message = "request" THEN 1 ELSE 0
  <2>1. CASE server.message = "request"
    <3>1. handled' = [handled EXCEPT ![c] = 1]
      BY <1>3, <1>4, <2>1 DEF Handle
    <3> QED BY <1>4, <2>1, <3>1
  <2>2. CASE server.message # "request"
    <3>1. handled' = handled
      BY <2>2 DEF Handle
    <3> QED BY <1>4, <2>2, <3>1
  <2> QED BY <2>1, <2>2
<1>6. TypeOK'
  BY <1>1, <1>2, <1>5 DEF Inv, TypeOK, ServerRecord, Places
<1>7. InstanceOK'
  BY <1>1, <1>2 DEF InstanceOK, Before, Free
<1>8. DispatchOK'
  <2>1. ASSUME NEW d \in Clients
        PROVE  /\ handled'[d] <= 1
               /\ client[d].pc \in {"call", "wait", "open"} =>
                    /\ ~Connected(d) /\ handled'[d] = 0
                    /\ client[d].response = None /\ dropped[d] = None
               /\ Connected(d) => handled'[d] = IF server.message = "request" THEN 1 ELSE 0
               /\ client[d].response # None =>
                    /\ client[d].response.to = d
                    /\ client[d].response.of = "request" => handled'[d] = 1
    <3>1. CASE d = c
      BY <1>3, <1>4, <1>5, <3>1 DEF Inv, DispatchOK, Dispatched
    <3>2. CASE d # c
      BY <1>3, <1>5, <3>2 DEF Inv, DispatchOK, Dispatched
    <3> QED BY <3>1, <3>2
  <2>2. \A d \in Clients : Connected(d)' <=> Connected(d)
    BY <1>1 DEF Connected
  <2> QED BY <1>1, <1>2, <2>1, <2>2 DEF DispatchOK, Dispatched
<1>9. \A d \in CliClients : ExchangeOK(d)'
  BY <1>1, <1>2 DEF Inv, ExchangeOK, Connected, Before
<1> QED BY <1>6, <1>7, <1>8, <1>9 DEF Inv

(* A response is written. *)
LEMMA WriteKeeps ==
  ASSUME Inv, server.pc = "write", NEW pc \in {"acknowledge", "writing"}, Goto(pc),
         pipe' = [pipe EXCEPT !.toClient = [to |-> pipe.client, of |-> server.message]],
         UNCHANGED <<cause, stop, client, handled, dropped>>
  PROVE  Inv'
<1>1. pipe # None /\ ~Free /\ server.message \in Messages
  BY DEF Inv, TypeOK, InstanceOK
<1>2. /\ server' \in ServerRecord /\ server'.pc = pc /\ server'.message = server.message
  BY Typed DEF Goto, ServerRecord, Places
<1>3. pipe.client \in Clients
  BY <1>1, Owner
<1>4. PICK response \in Responses : response = [to |-> pipe.client, of |-> server.message]
  BY <1>1, <1>3 DEF Responses
<1>5. /\ pipe' \in Instances /\ pipe'.client = pipe.client /\ pipe'.closed = pipe.closed
      /\ pipe'.toServer = pipe.toServer /\ pipe'.toClient = response
  BY <1>1, <1>4, Typed DEF Instances
<1>6. pipe' # None
  BY <1>5, PipeServerAssumption
<1>7. \A c \in Clients : Connected(c)' <=> Connected(c)
  BY <1>1, <1>5, <1>6 DEF Connected
<1>8. TypeOK'
  BY <1>1, <1>2, <1>5, <1>6 DEF Inv, TypeOK, ServerRecord, Places
<1>9. InstanceOK'
  BY <1>1, <1>2, <1>4, <1>5, <1>6 DEF InstanceOK, Before, Free
<1>10. DispatchOK'
  BY <1>2, <1>7 DEF Inv, DispatchOK, Dispatched
<1>11. \A c \in CliClients : ExchangeOK(c)'
  BY <1>2, <1>5, <1>7 DEF Inv, ExchangeOK, Before, Clients
<1> QED BY <1>8, <1>9, <1>10, <1>11 DEF Inv

(* An acknowledgement is read only where the client left one, and anything  *)
(* else only from another program.                                          *)
LEMMA AcknowledgedMayEnd ==
  ASSUME Inv, server.pc \in {"acknowledge", "acknowledging"}, Arrived
  PROVE  /\ Head(pipe.toServer) = "ack" => MayEnd("acknowledged")
         /\ Head(pipe.toServer) # "ack" => MayEnd("abandoned")
<1>1. ASSUME NEW c \in CliClients, Connected(c)
      PROVE  /\ client[c].pc = "done" /\ client[c].response # None
             /\ Head(pipe.toServer) = "ack"
  <2>1. pipe.toServer = <<"ack">> /\ client[c].response # None
    BY <1>1 DEF Inv, ExchangeOK, Arrived, Before
  <2>2. client[c].pc = "done"
    BY <1>1, <2>1 DEF Inv, ExchangeOK
  <2>3. Head(<<"ack">>) = "ack"
    OBVIOUS
  <2> QED BY <2>1, <2>2, <2>3
<1> QED BY <1>1 DEF MayEnd

LEMMA ServerKeeps ==
  ASSUME Inv, Server
  PROVE  Inv'
<1>1. server.pc \notin {"create", "stopped", "failed"} => pipe # None
  BY DEF Inv, TypeOK
<1>2. CASE CreateInstance
  BY <1>2, CreateKeeps
<1>3. CASE BeginConnect
  <2>1. server.pc = "connect" /\ pipe # None
    BY <1>1, <1>3 DEF BeginConnect
  <2>2. CASE Free /\ Goto("connecting") /\ UNCHANGED <<cause, stop, pipe, client, handled, dropped>>
    BY <2>1, <2>2, GotoMoves, MovesKeeps DEF Places, Before
  <2>3. CASE ~Free /\ Goto("read") /\ UNCHANGED <<cause, stop, pipe, client, handled, dropped>>
    BY <2>1, <2>3, GotoMoves, MovesKeeps DEF Places, Before
  <2> QED BY <1>3, <2>2, <2>3, FailKeeps DEF BeginConnect
<1>4. CASE FinishConnect
  BY <1>1, <1>4, GotoMoves, MovesKeeps DEF FinishConnect, Places, Before
<1>5. CASE BeginRead
  <2>1. server.pc = "read" /\ pipe # None
    BY <1>1, <1>5 DEF BeginRead
  <2>2. CASE Arrived /\ ~TooLong(Head(pipe.toServer), "request") /\ Take(<<>>, "handle")
    BY <2>1, <2>2, TakeKeeps
  <2>3. CASE Arrived /\ TooLong(Head(pipe.toServer), "request") /\ Take(<<"rest">>, "handle")
    BY <2>1, <2>3, TakeKeeps
  <2>4. CASE Disconnected /\ NextConnection("closed")
    BY <2>1, <2>4, ClosedMayEnd, NextConnectionKeeps DEF Disconnected, Endings
  <2>5. CASE Goto("reading") /\ UNCHANGED <<cause, stop, pipe, client, handled, dropped>>
    <3>1. ~Free
      BY <2>1 DEF Inv, InstanceOK
    <3> QED BY <2>1, <2>5, <3>1, GotoMoves, MovesKeeps DEF Places, Before
  <2> QED BY <1>5, <2>2, <2>3, <2>4, <2>5 DEF BeginRead
<1>6. CASE FinishRead
  <2>1. server.pc = "reading" /\ pipe # None
    BY <1>1, <1>6 DEF FinishRead
  <2>2. CASE Arrived /\ ~TooLong(Head(pipe.toServer), "request") /\ Take(<<>>, "handle")
    BY <2>1, <2>2, TakeKeeps
  <2>3. CASE FailWith("read")
    BY <2>3, FailKeeps
  <2>4. CASE Disconnected /\ NextConnection("closed")
    BY <2>1, <2>4, ClosedMayEnd, NextConnectionKeeps DEF Disconnected, Endings
  <2> QED BY <1>6, <2>2, <2>3, <2>4 DEF FinishRead
<1>7. CASE Handle
  BY <1>7, HandleKeeps
<1>8. CASE BeginWrite
  <2>1. server.pc = "write" /\ pipe # None
    BY <1>1, <1>8 DEF BeginWrite
  <2>2. CASE pipe.closed /\ NextConnection("closed")
    BY <2>1, <2>2, ClosedMayEnd, NextConnectionKeeps DEF Endings
  <2>3. CASE ~(pipe.closed /\ NextConnection("closed"))
    <3>1. PICK pc \in {"acknowledge", "writing"} : Goto(pc)
      BY <1>8, <2>3 DEF BeginWrite
    <3> QED BY <1>8, <2>1, <2>3, <3>1, WriteKeeps DEF BeginWrite
  <2> QED BY <2>2, <2>3
<1>9. CASE FinishWrite
  <2>1. server.pc = "writing" /\ pipe # None
    BY <1>1, <1>9 DEF FinishWrite
  <2>2. CASE Goto("acknowledge") /\ UNCHANGED <<cause, stop, pipe, client, handled, dropped>>
    BY <2>1, <2>2, GotoMoves, MovesKeeps DEF Places
  <2>3. CASE pipe.closed /\ NextConnection("closed")
    BY <2>1, <2>3, ClosedMayEnd, NextConnectionKeeps DEF Endings
  <2> QED BY <1>9, <2>2, <2>3 DEF FinishWrite
<1>10. CASE BeginAcknowledge
  <2>1. server.pc = "acknowledge" /\ pipe # None
    BY <1>1, <1>10 DEF BeginAcknowledge
  <2>2. CASE Arrived /\ Head(pipe.toServer) = "ack" /\ NextConnection("acknowledged")
    BY <2>1, <2>2, AcknowledgedMayEnd, NextConnectionKeeps DEF Endings
  <2>3. CASE Arrived /\ Head(pipe.toServer) # "ack" /\ NextConnection("abandoned")
    BY <2>1, <2>3, AcknowledgedMayEnd, NextConnectionKeeps DEF Endings
  <2>4. CASE Disconnected /\ NextConnection("closed")
    BY <2>1, <2>4, ClosedMayEnd, NextConnectionKeeps DEF Disconnected, Endings
  <2>5. CASE Goto("acknowledging") /\ UNCHANGED <<cause, stop, pipe, client, handled, dropped>>
    BY <2>1, <2>5, GotoMoves, MovesKeeps DEF Places
  <2> QED BY <1>10, <2>2, <2>3, <2>4, <2>5 DEF BeginAcknowledge
<1>11. CASE FinishAcknowledge
  <2>1. server.pc = "acknowledging" /\ pipe # None
    BY <1>1, <1>11 DEF FinishAcknowledge
  <2>2. CASE Arrived /\ Head(pipe.toServer) = "ack" /\ NextConnection("acknowledged")
    BY <2>1, <2>2, AcknowledgedMayEnd, NextConnectionKeeps DEF Endings
  <2>3. CASE Arrived /\ Head(pipe.toServer) = "short" /\ NextConnection("abandoned")
    BY <2>1, <2>3, AcknowledgedMayEnd, NextConnectionKeeps DEF Endings
  <2>4. CASE Disconnected /\ NextConnection("closed")
    BY <2>1, <2>4, ClosedMayEnd, NextConnectionKeeps DEF Disconnected, Endings
  <2>5. CASE FailWith("acknowledgement")
    BY <2>5, FailKeeps
  <2> QED BY <1>11, <2>2, <2>3, <2>4, <2>5 DEF FinishAcknowledge
<1>12. CASE GiveUp
  <2>1. PICK why \in {"stop", "timeout"} : CancelBecause(why)
    BY <1>12 DEF GiveUp
  <2>2. pipe # None
    BY <1>1, <1>12 DEF GiveUp, Pending
  <2> QED BY <2>1, <2>2, CancelBecauseMoves, MovesKeeps
<1>13. CASE Cancel
  <2>1. CASE /\ server.pc \in {"reading", "acknowledging", "writing"} /\ pipe.closed
             /\ NextConnection("closed")
    BY <1>1, <2>1, ClosedMayEnd, NextConnectionKeeps DEF Endings
  <2>2. CASE FailWith("read") \/ FailWith("acknowledgement")
    BY <2>2, FailKeeps
  <2>3. CASE Disconnect("ended", "stopped") /\ UNCHANGED cause
    BY <2>3, DisconnectKeeps DEF MayEnd, Endings, Inv, TypeOK
  <2>4. CASE NextConnection("timeout")
    BY <2>4, NextConnectionKeeps DEF MayEnd, Endings
  <2> QED BY <1>13, <2>1, <2>2, <2>3, <2>4 DEF Cancel, Abandon, Disconnected
<1> QED BY <1>2, <1>3, <1>4, <1>5, <1>6, <1>7, <1>8, <1>9, <1>10, <1>11, <1>12, <1>13
        DEF Server

-----------------------------------------------------------------------------
(* The steps of the clients. *)

(* A step of one client leaves the others as they are. *)
LEMMA OneClientKeeps ==
  ASSUME Inv, NEW c \in Clients, UNCHANGED serverVars,
         \A d \in Clients \ {c} : client'[d] = client[d],
         pipe' = pipe \/ \A d \in Clients \ {c} : ~Connected(d) /\ ~Connected(d)',
         TypeOK', InstanceOK', Dispatched(c)', c \in CliClients => ExchangeOK(c)'
  PROVE  Inv'
<1>1. UNCHANGED <<server, handled, dropped>>
  BY DEF serverVars
<1>2. ASSUME NEW d \in Clients, d # c PROVE Dispatched(d)'
  <2>1. client'[d] = client[d] /\ Connected(d)' <=> Connected(d)
    BY <1>2 DEF Connected
  <2> QED BY <1>1, <2>1 DEF Inv, DispatchOK, Dispatched
<1>3. ASSUME NEW d \in CliClients, d # c PROVE ExchangeOK(d)'
  <2>1. client'[d] = client[d] /\ d \in Clients
    BY <1>3 DEF Clients
  <2>2. CASE pipe' = pipe
    BY <1>1, <2>1, <2>2 DEF Inv, ExchangeOK, Connected
  <2>3. CASE ~Connected(d) /\ ~Connected(d)'
    BY <1>1, <2>1, <2>3 DEF Inv, ExchangeOK
  <2> QED BY <1>3, <2>1, <2>2, <2>3
<1> QED BY <1>2, <1>3 DEF Inv, DispatchOK

(* It has not touched the pipe. *)
LEMMA AsideKeeps ==
  ASSUME Inv, NEW c \in Clients, UNCHANGED <<serverVars, pipe>>,
         NEW r \in ClientRecord, client' = [client EXCEPT ![c] = r],
         r.response = client[c].response,
         r.pc \in {"call", "wait", "open"} => client[c].pc \in {"call", "wait", "open"},
         c \in CliClients => ExchangeOK(c)'
  PROVE  Inv'
<1>1. client' \in [Clients -> ClientRecord] /\ client'[c] = r
      /\ \A d \in Clients \ {c} : client'[d] = client[d]
  BY Typed
<1>2. UNCHANGED <<server, cause, handled, dropped, pipe>>
  BY DEF serverVars
<1>3. TypeOK'
  BY <1>1, <1>2 DEF Inv, TypeOK, ClientRecord
<1>4. InstanceOK'
  BY <1>2 DEF Inv, InstanceOK, Free
<1>5. Dispatched(c)'
  BY <1>1, <1>2 DEF Inv, DispatchOK, Dispatched, Connected
<1> QED BY <1>1, <1>3, <1>4, <1>5, OneClientKeeps

(* It has, as the client connected to it. *)
LEMMA AtPipeKeeps ==
  ASSUME Inv, NEW c \in Clients, Connected(c) \/ Free, UNCHANGED serverVars,
         NEW r \in ClientRecord, client' = [client EXCEPT ![c] = r],
         pipe' \in Instances, pipe'.client = c,
         InstanceOK', Dispatched(c)', c \in CliClients => ExchangeOK(c)'
  PROVE  Inv'
<1>1. client' \in [Clients -> ClientRecord] /\ client'[c] = r
      /\ \A d \in Clients \ {c} : client'[d] = client[d]
  BY Typed
<1>2. UNCHANGED <<server, cause, handled, dropped>>
  BY DEF serverVars
<1>3. pipe # None /\ pipe' # None
  BY PipeServerAssumption DEF Connected, Free
<1>4. \A d \in Clients \ {c} : ~Connected(d) /\ ~Connected(d)'
  BY PipeServerAssumption DEF Connected, Free
<1>5. TypeOK'
  BY <1>1, <1>2, <1>3 DEF Inv, TypeOK, ClientRecord
<1> QED BY <1>1, <1>4, <1>5, OneClientKeeps

(* The pipe of a free instance, given to a client. *)
LEMMA ConnectKeeps ==
  ASSUME Inv, NEW c \in Clients, Free, UNCHANGED serverVars,
         client[c].pc \in {"call", "open"},
         pipe' = [pipe EXCEPT !.client = c],
         NEW pc \in {"send", "raw"}, Proceed(c, pc),
         c \in CliClients => pc = "send"
  PROVE  Inv'
<1> DEFINE r == [client[c] EXCEPT !.pc = pc]
<1>1. r \in ClientRecord /\ client' = [client EXCEPT ![c] = r]
      /\ r.pc = pc /\ r.response = client[c].response /\ r.error = client[c].error
  BY Typed DEF Proceed, ClientRecord
<1>2. client'[c] = r
  BY <1>1, Typed
<1> HIDE DEF r
<1>3. /\ pipe # None /\ pipe \in Instances
      /\ pipe.toServer = <<>> /\ pipe.toClient = None /\ ~pipe.closed
      /\ server.pc \in {"connect", "connecting"}
  BY Typed DEF Inv, InstanceOK, Free
<1>4. /\ pipe' \in Instances /\ pipe'.client = c /\ ~pipe'.closed
      /\ pipe'.toServer = <<>> /\ pipe'.toClient = None
  BY <1>3 DEF Instances
<1>5. UNCHANGED <<server, handled, dropped>>
  BY DEF serverVars
<1>6. pipe' # None /\ c # None
  BY <1>4, PipeServerAssumption
<1>7. InstanceOK'
  BY <1>3, <1>4, <1>5, <1>6 DEF Inv, InstanceOK, Free, Before
<1>8. handled[c] = 0 /\ client[c].response = None /\ dropped[c] = None
  BY DEF Inv, DispatchOK, Dispatched
<1>9. Dispatched(c)'
  BY <1>1, <1>2, <1>3, <1>5, <1>8 DEF Dispatched
<1>10. ASSUME c \in CliClients PROVE ExchangeOK(c)'
  <2>1. pc = "send" /\ client[c].error = None
    BY <1>10 DEF Inv, ExchangeOK
  <2>2. <<>> # <<"ack">>
    OBVIOUS
  <2>3. Connected(c)'
    BY <1>4, <1>6 DEF Connected
  <2> QED BY <1>1, <1>2, <1>3, <1>4, <1>5, <1>8, <2>1, <2>2, <2>3, PipeServerAssumption
          DEF ExchangeOK, Before, Errors, Endings
<1> QED BY <1>1, <1>4, <1>7, <1>9, <1>10, AtPipeKeeps

(* What a client writes goes behind what it wrote before; it may close its  *)
(* end at once.                                                             *)
LEMMA AppendKeeps ==
  ASSUME Inv, NEW c \in Clients, Connected(c), UNCHANGED serverVars,
         NEW message \in Messages, NEW closed \in BOOLEAN,
         pipe' = [pipe EXCEPT !.toServer = Append(@, message), !.closed = closed],
         NEW r \in ClientRecord, client' = [client EXCEPT ![c] = r],
         r.response = client[c].response, r.pc \notin {"call", "wait", "open"},
         c \in CliClients => ExchangeOK(c)'
  PROVE  Inv'
<1>1. client'[c] = r
  BY Typed
<1>2. /\ pipe # None /\ pipe \in Instances /\ pipe.client = c /\ ~Free
      /\ pipe.toServer \in Seq(Messages \cup {"rest"})
  BY Typed, PipeServerAssumption DEF Connected, Free
<1>3. Append(pipe.toServer, message) \in Seq(Messages \cup {"rest"})
  BY <1>2, AppendProperties
<1>4. /\ pipe' \in Instances /\ pipe'.client = c /\ pipe'.toClient = pipe.toClient
      /\ pipe'.toServer = Append(pipe.toServer, message)
  BY <1>2, <1>3 DEF Instances
<1>5. pipe' # None /\ c # None /\ UNCHANGED <<server, handled, dropped>>
  BY <1>4, PipeServerAssumption DEF serverVars
<1>6. server.pc \in Before => pipe'.toServer \in Seq(Messages)
  BY <1>4, AppendProperties DEF Inv, InstanceOK
<1>7. InstanceOK'
  BY <1>2, <1>4, <1>5, <1>6 DEF Inv, InstanceOK, Free
<1>8. Dispatched(c)'
  BY <1>1, <1>5 DEF Inv, DispatchOK, Dispatched
<1> QED BY <1>4, <1>7, <1>8, AtPipeKeeps

LEMMA SendKeeps ==
  ASSUME Inv, NEW c \in CliClients, SendRequest(c)
  PROVE  Inv'
<1> DEFINE r == [client[c] EXCEPT !.pc = "flush"]
<1>1. c \in Clients /\ Connected(c) /\ client[c].pc = "send"
  BY DEF SendRequest, Clients
<1>2. r \in ClientRecord /\ client' = [client EXCEPT ![c] = r] /\ client'[c] = r
      /\ r.pc = "flush" /\ r.response = client[c].response /\ r.error = client[c].error
  BY <1>1, Typed DEF SendRequest, Proceed, ClientRecord
<1> HIDE DEF r
<1>3. /\ pipe # None /\ pipe \in Instances /\ pipe.client = c /\ c # None
      /\ pipe.toServer = <<>> /\ server.pc \in Before /\ ~pipe.closed
      /\ client[c].error = None
  BY <1>1, Typed, PipeServerAssumption DEF Inv, ExchangeOK, Connected
<1>4. pipe' = [pipe EXCEPT !.toServer = Append(@, "request"), !.closed = FALSE]
  BY <1>3 DEF SendRequest, Instances
<1>5. /\ pipe'.toServer = <<"request">> /\ pipe'.client = c /\ ~pipe'.closed
      /\ pipe' \in Instances
  <2>1. Append(<<>>, "request") = <<"request">> /\ <<"request">> \in Seq(Messages \cup {"rest"})
    BY DEF Messages
  <2> QED BY <1>3, <1>4, <2>1 DEF Instances
<1>6. Connected(c)' /\ UNCHANGED <<server, handled, dropped>>
  BY <1>5, PipeServerAssumption DEF Connected, SendRequest, serverVars
<1>7. <<"request">> # <<>> /\ <<"request">> # <<"ack">>
  OBVIOUS
<1>8. ExchangeOK(c)'
  <2>1. dropped[c] = None
    BY <1>1, PipeServerAssumption DEF Inv, ExchangeOK
  <2> QED BY <1>2, <1>3, <1>5, <1>6, <1>7, <2>1, PipeServerAssumption
          DEF ExchangeOK, Errors, Endings
<1> QED BY <1>1, <1>2, <1>4, <1>8, AppendKeeps DEF SendRequest, Messages

LEMMA AcknowledgeKeeps ==
  ASSUME Inv, NEW c \in CliClients, SendAcknowledgement(c), Connected(c)
  PROVE  Inv'
<1> DEFINE r == [client[c] EXCEPT !.pc = "done"]
<1>1. c \in Clients /\ client[c].pc = "acknowledge"
  BY DEF SendAcknowledgement, Clients
<1>2. r \in ClientRecord /\ client' = [client EXCEPT ![c] = r] /\ client'[c] = r
      /\ r.pc = "done" /\ r.response = client[c].response /\ r.error = client[c].error
  BY <1>1, Typed DEF SendAcknowledgement, Proceed, ClientRecord
<1> HIDE DEF r
<1>3. /\ pipe # None /\ pipe \in Instances /\ pipe.client = c /\ c # None
      /\ pipe.toServer = <<>> /\ server.pc \notin Before
      /\ client[c].error = None /\ client[c].response # None
  BY <1>1, Typed, PipeServerAssumption DEF Inv, ExchangeOK, Connected
<1>4. pipe' = [pipe EXCEPT !.toServer = Append(@, "ack"), !.closed = TRUE]
  BY DEF SendAcknowledgement
<1>5. /\ pipe'.toServer = <<"ack">> /\ pipe'.client = c /\ pipe'.closed
      /\ pipe' \in Instances
  <2>1. Append(<<>>, "ack") = <<"ack">> /\ <<"ack">> \in Seq(Messages \cup {"rest"})
    BY DEF Messages
  <2> QED BY <1>3, <1>4, <2>1 DEF Instances
<1>6. Connected(c)' /\ UNCHANGED <<server, handled, dropped>>
  BY <1>5, PipeServerAssumption DEF Connected, SendAcknowledgement, serverVars
<1>7. ExchangeOK(c)'
  <2>1. dropped[c] = None
    BY PipeServerAssumption DEF Inv, ExchangeOK
  <2> QED BY <1>2, <1>3, <1>5, <1>6, <2>1, PipeServerAssumption
          DEF ExchangeOK, Errors, Endings
<1> QED BY <1>1, <1>2, <1>4, <1>7, AppendKeeps DEF SendAcknowledgement, Messages

(* The response a client takes is one to its request. *)
LEMMA TakeResponseKeeps ==
  ASSUME Inv, NEW c \in Clients, Connected(c), UNCHANGED serverVars,
         pipe.toClient # None, pipe' = [pipe EXCEPT !.toClient = None],
         NEW r \in ClientRecord, client' = [client EXCEPT ![c] = r],
         r.response = pipe.toClient, r.error = client[c].error,
         \/ client[c].pc = "receive" /\ r.pc = "acknowledge"
         \/ client[c].pc = "raw" /\ r.pc = "raw"
  PROVE  Inv'
<1>1. client'[c] = r
  BY Typed
<1>2. /\ pipe # None /\ pipe \in Instances /\ pipe.client = c /\ ~Free
      /\ server.pc \in {"writing", "acknowledge", "acknowledging"}
      /\ pipe.toClient = [to |-> pipe.client, of |-> server.message]
  BY Typed, PipeServerAssumption DEF Connected, Free, Inv, InstanceOK
<1>3. /\ pipe' \in Instances /\ pipe'.client = c /\ pipe'.toClient = None
      /\ pipe'.toServer = pipe.toServer /\ pipe'.closed = pipe.closed
  BY <1>2 DEF Instances
<1>4. pipe' # None /\ c # None /\ UNCHANGED <<server, handled, dropped>>
  BY <1>3, PipeServerAssumption DEF serverVars
<1>5. InstanceOK'
  BY <1>2, <1>3, <1>4 DEF Inv, InstanceOK, Free, Before
<1>6. r.response.to = c /\ r.response.of = server.message
  BY <1>2
<1>7. Dispatched(c)'
  BY <1>1, <1>2, <1>3, <1>4, <1>6 DEF Inv, DispatchOK, Dispatched, Connected
<1>8. ASSUME c \in CliClients PROVE ExchangeOK(c)'
  <2>1. ExchangeOK(c) /\ client[c].pc = "receive" /\ r.pc = "acknowledge"
    BY <1>8 DEF Inv, ExchangeOK
  <2>2. Connected(c)'
    BY <1>3, <1>4 DEF Connected
  <2> QED BY <1>1, <1>2, <1>3, <1>4, <2>1, <2>2, PipeServerAssumption DEF ExchangeOK, Before
<1> QED BY <1>3, <1>5, <1>7, <1>8, AtPipeKeeps

(* A client that is killed at the pipe leaves a closed end behind. *)
LEMMA KilledAtPipeKeeps ==
  ASSUME Inv, NEW c \in Clients, KillClient(c), Connected(c)
  PROVE  Inv'
<1> DEFINE r == [client[c] EXCEPT !.pc = "done", !.error = "killed"]
<1>1. r \in ClientRecord /\ client' = [client EXCEPT ![c] = r] /\ client'[c] = r
      /\ r.pc = "done" /\ r.response = client[c].response /\ r.error = "killed"
  BY Typed DEF KillClient, Return, ClientRecord, Errors
<1> HIDE DEF r
<1>2. /\ pipe # None /\ pipe \in Instances /\ pipe.client = c /\ ~Free
      /\ pipe' = [pipe EXCEPT !.closed = TRUE] /\ UNCHANGED serverVars
  BY Typed, PipeServerAssumption DEF Connected, Free, KillClient
<1>3. /\ pipe' \in Instances /\ pipe'.client = c /\ pipe'.closed
      /\ pipe'.toServer = pipe.toServer /\ pipe'.toClient = pipe.toClient
  BY <1>2 DEF Instances
<1>4. pipe' # None /\ c # None /\ UNCHANGED <<server, handled, dropped>>
  BY <1>2, <1>3, PipeServerAssumption DEF serverVars
<1>5. InstanceOK'
  BY <1>2, <1>3, <1>4 DEF Inv, InstanceOK, Free
<1>6. Dispatched(c)'
  BY <1>1, <1>2, <1>3, <1>4 DEF Inv, DispatchOK, Dispatched, Connected
<1>7. ASSUME c \in CliClients PROVE ExchangeOK(c)'
  <2>1. ExchangeOK(c) /\ Connected(c)'
    BY <1>3, <1>4, <1>7 DEF Inv, Connected
  <2> QED BY <1>1, <1>2, <1>3, <1>4, <2>1 DEF ExchangeOK, Before
<1> QED BY <1>1, <1>2, <1>3, <1>5, <1>6, <1>7, AtPipeKeeps

(* A call that ends without the pipe, and why. *)
LEMMA ReturnKeeps ==
  ASSUME Inv, NEW c \in Clients, NEW error \in Errors, Return(c, error),
         UNCHANGED <<serverVars, pipe>>, ~Connected(c),
         c \in CliClients /\ error \in {"lost", "unacknowledged"} =>
           dropped[c] \in {"timeout", "ended"}
  PROVE  Inv'
<1> DEFINE r == [client[c] EXCEPT !.pc = "done", !.error = error]
<1>1. r \in ClientRecord /\ client' = [client EXCEPT ![c] = r] /\ client'[c] = r
      /\ r.pc = "done" /\ r.response = client[c].response /\ r.error = error
  BY Typed DEF Return, ClientRecord
<1> HIDE DEF r
<1>2. ~Connected(c)' /\ dropped' = dropped
  BY DEF Connected, serverVars
<1>3. ASSUME c \in CliClients PROVE ExchangeOK(c)'
  BY <1>1, <1>2, <1>3 DEF Inv, ExchangeOK
<1> QED BY <1>1, <1>3, AsideKeeps

(* A CLI run that has no pipe yet goes on to another round or another call. *)
LEMMA RoundKeeps ==
  ASSUME Inv, NEW c \in CliClients, UNCHANGED <<serverVars, pipe>>,
         client[c].pc \in {"call", "wait", "open"},
         NEW pc \in {"call", "wait", "open"}, Proceed(c, pc)
  PROVE  Inv'
<1> DEFINE r == [client[c] EXCEPT !.pc = pc]
<1>1. c \in Clients
  BY DEF Clients
<1>2. r \in ClientRecord /\ client' = [client EXCEPT ![c] = r] /\ client'[c] = r
      /\ r.pc = pc /\ r.response = client[c].response /\ r.error = client[c].error
  BY <1>1, Typed DEF Proceed, ClientRecord
<1> HIDE DEF r
<1>3. /\ ~Connected(c) /\ ~Connected(c)' /\ dropped[c] = None
      /\ UNCHANGED <<server, handled, dropped>>
  BY <1>1 DEF Inv, DispatchOK, Dispatched, Connected, serverVars
<1>4. client[c].error = None
  BY DEF Inv, ExchangeOK
<1>5. ExchangeOK(c)'
  BY <1>2, <1>3, <1>4, PipeServerAssumption DEF ExchangeOK, Endings, Errors
<1> QED BY <1>1, <1>2, <1>5, AsideKeeps

LEMMA FlushKeeps ==
  ASSUME Inv, NEW c \in CliClients, FlushRequest(c)
  PROVE  Inv'
<1> DEFINE r == [client[c] EXCEPT !.pc = "receive"]
<1>1. c \in Clients /\ client[c].pc = "flush" /\ Connected(c) /\ pipe.toServer = <<>>
      /\ UNCHANGED <<serverVars, pipe>>
  BY DEF Clients, FlushRequest
<1>2. r \in ClientRecord /\ client' = [client EXCEPT ![c] = r] /\ client'[c] = r
      /\ r.pc = "receive" /\ r.response = client[c].response /\ r.error = client[c].error
  BY <1>1, Typed DEF FlushRequest, Proceed, ClientRecord
<1> HIDE DEF r
<1>3. server.pc \notin Before /\ client[c].error = None
  BY <1>1 DEF Inv, ExchangeOK
<1>4. Connected(c)' /\ UNCHANGED <<server, handled, dropped>>
  BY <1>1 DEF Connected, serverVars
<1>5. ExchangeOK(c)'
  BY <1>1, <1>2, <1>3, <1>4, PipeServerAssumption DEF Inv, ExchangeOK
<1> QED BY <1>1, <1>2, <1>5, AsideKeeps

LEMMA CliKeeps ==
  ASSUME Inv, NEW c \in CliClients, CliStep(c)
  PROVE  Inv'
<1>1. c \in Clients
  BY DEF Clients
<1>2. client[c].pc \in {"call", "wait", "open"} => ~Connected(c)
  BY <1>1 DEF Inv, DispatchOK, Dispatched
<1>3. client[c].pc \in {"send", "flush", "receive", "acknowledge"} /\ ~Connected(c)
        => dropped[c] \in {"timeout", "ended"}
  BY DEF Inv, ExchangeOK
<1>4. CASE CallWait(c)
  BY <1>1, <1>2, <1>4, ReturnKeeps, RoundKeeps DEF CallWait, Errors
<1>5. CASE FinishWait(c)
  BY <1>1, <1>2, <1>5, ReturnKeeps, RoundKeeps DEF FinishWait, Errors
<1>6. CASE OpenPipe(c)
  <2>1. CASE Return(c, "no service") /\ UNCHANGED pipe
    BY <1>1, <1>2, <1>6, <2>1, ReturnKeeps DEF OpenPipe, Errors
  <2>2. CASE Proceed(c, "call") /\ UNCHANGED pipe
    BY <1>6, <2>2, RoundKeeps DEF OpenPipe
  <2>3. CASE Free /\ Proceed(c, "send") /\ pipe' = [pipe EXCEPT !.client = c]
    BY <1>1, <1>6, <2>3, ConnectKeeps DEF OpenPipe
  <2> QED BY <1>6, <2>1, <2>2, <2>3 DEF OpenPipe
<1>7. CASE LoseConnection(c)
  BY <1>1, <1>3, <1>7, ReturnKeeps DEF LoseConnection, Errors
<1>8. CASE SendRequest(c)
  BY <1>8, SendKeeps
<1>9. CASE FlushRequest(c)
  BY <1>9, FlushKeeps
<1>10. CASE ReceiveResponse(c)
  <2> DEFINE r == [client[c] EXCEPT !.pc = "acknowledge", !.response = pipe.toClient]
  <2>1. /\ client[c].pc = "receive" /\ Connected(c) /\ pipe.toClient # None
        /\ pipe' = [pipe EXCEPT !.toClient = None] /\ UNCHANGED serverVars
        /\ client' = [client EXCEPT ![c] = r]
    BY <1>10 DEF ReceiveResponse
  <2>2. pipe.toClient \in Responses \cup {None} /\ client[c] \in ClientRecord
    BY <1>1, <2>1, Typed, PipeServerAssumption DEF Connected
  <2>3. r \in ClientRecord /\ r.pc = "acknowledge" /\ r.response = pipe.toClient
        /\ r.error = client[c].error
    BY <2>2 DEF ClientRecord
  <2> QED BY <1>1, <2>1, <2>3, TakeResponseKeeps
<1>11. CASE SendAcknowledgement(c)
  BY <1>1, <1>3, <1>11, AcknowledgeKeeps, ReturnKeeps DEF SendAcknowledgement, Errors
<1> QED BY <1>4, <1>5, <1>6, <1>7, <1>8, <1>9, <1>10, <1>11 DEF CliStep

LEMMA EnvironmentKeeps ==
  ASSUME Inv, Environment
  PROVE  Inv'
<1>1. CASE RequestStop
  BY <1>1 DEF RequestStop, Inv, TypeOK, InstanceOK, Free, DispatchOK, Dispatched,
              ExchangeOK, Connected
<1>2. ASSUME NEW c \in Clients, KillClient(c) PROVE Inv'
  BY <1>2, KilledAtPipeKeeps, ReturnKeeps DEF KillClient, Errors
<1>3. ASSUME NEW c \in RawClients PROVE c \in Clients /\ c \notin CliClients
  BY <1>3, PipeServerAssumption DEF Clients
<1>4. ASSUME NEW c \in RawClients, RawConnect(c) PROVE Inv'
  BY <1>3, <1>4, ConnectKeeps DEF RawConnect
<1>5. ASSUME NEW c \in RawClients, RawReceive(c) PROVE Inv'
  <2> DEFINE r == [client[c] EXCEPT !.response = pipe.toClient]
  <2>1. /\ client[c].pc = "raw" /\ Connected(c) /\ pipe.toClient # None
        /\ pipe' = [pipe EXCEPT !.toClient = None] /\ UNCHANGED serverVars
        /\ client' = [client EXCEPT ![c] = r]
    BY <1>5 DEF RawReceive
  <2>2. pipe.toClient \in Responses \cup {None} /\ client[c] \in ClientRecord
    BY <1>3, <1>5, <2>1, Typed, PipeServerAssumption DEF Connected
  <2>3. r \in ClientRecord /\ r.pc = "raw" /\ r.response = pipe.toClient
        /\ r.error = client[c].error
    BY <2>1, <2>2 DEF ClientRecord
  <2> QED BY <1>3, <1>5, <2>1, <2>3, TakeResponseKeeps
<1>6. ASSUME NEW c \in RawClients, NEW message \in Messages, RawWrite(c, message) PROVE Inv'
  <2>1. /\ c \in Clients /\ c \notin CliClients /\ client[c].pc = "raw" /\ Connected(c)
        /\ pipe' = [pipe EXCEPT !.toServer = Append(@, message)] /\ UNCHANGED <<serverVars, client>>
    BY <1>3, <1>6 DEF RawWrite
  <2>2. pipe \in Instances /\ pipe.closed \in BOOLEAN /\ client \in [Clients -> ClientRecord]
    BY <2>1, Typed, PipeServerAssumption DEF Connected, Instances
  <2>3. pipe' = [pipe EXCEPT !.toServer = Append(@, message), !.closed = pipe.closed]
    BY <2>1, <2>2 DEF Instances
  <2>4. client' = [client EXCEPT ![c] = client[c]] /\ client[c] \in ClientRecord
    BY <2>1, <2>2
  <2> QED BY <1>6, <2>1, <2>2, <2>3, <2>4, AppendKeeps
<1> QED BY <1>1, <1>2, <1>4, <1>5, <1>6 DEF Environment

LEMMA InitHolds == Init => Inv
<1> SUFFICES ASSUME Init PROVE Inv
  OBVIOUS
<1>1. TypeOK
  BY DEF Init, TypeOK
<1>2. InstanceOK
  BY DEF Init, InstanceOK, Free, Before
<1>3. DispatchOK
  BY DEF Init, DispatchOK, Dispatched, Connected
<1>4. \A c \in CliClients : ExchangeOK(c)
  BY PipeServerAssumption DEF Init, ExchangeOK, Connected, Clients, Endings, Errors
<1> QED BY <1>1, <1>2, <1>3, <1>4 DEF Inv

LEMMA StepHolds == Inv /\ [Next]_vars => Inv'
<1> SUFFICES ASSUME Inv, [Next]_vars PROVE Inv'
  OBVIOUS
<1>1. CASE UNCHANGED vars
  BY <1>1 DEF vars, Inv, TypeOK, InstanceOK, Free, DispatchOK, Dispatched, ExchangeOK, Connected
<1> QED BY <1>1, ServerKeeps, FailKeeps, CliKeeps, EnvironmentKeeps DEF Next, Failing

THEOREM InvHolds == Spec => []Inv
BY InitHolds, StepHolds, PTL DEF Spec

(* The state keeps its type, as everything the code keeps about the pipe.   *)
THEOREM TypesHold == Spec => []TypeOK
BY InvHolds, PTL DEF Inv

(* One exchange for each connection: run_pipe_server dispatches at most one *)
(* request of a client, however its calls are cancelled, fail or are        *)
(* completed late, and a response answers the request of its reader.        *)
THEOREM ConnectionsCarryOneExchange == Spec => []OneExchangePerConnection
<1>1. Inv => OneExchangePerConnection
  BY DEF Inv, DispatchOK, Dispatched, OneExchangePerConnection
<1> QED BY <1>1, InvHolds, PTL

(* The acknowledgement: the server discards the response of a CLI exchange  *)
(* only after its timeout or when it ends, and takes no exchange for        *)
(* complete before the client has the response.                             *)
THEOREM ResponsesAreKept == Spec => []NoResponseIsDiscarded
<1>1. Inv => NoResponseIsDiscarded
  BY DEF Inv, ExchangeOK, NoResponseIsDiscarded
<1> QED BY <1>1, InvHolds, PTL
-----------------------------------------------------------------------------
(* The exchange as a remote call. *)

(* Where the request of a CLI run has got, besides what ExchangeOK says: a  *)
(* server that has read from the run has read its request, and the run has  *)
(* read the response to it.  A run without a pipe was never served.         *)
CallOK(c) ==
  /\ Connected(c) /\ server.pc \notin Before => server.message = "request"
  /\ client[c].response # None => client[c].response.of = "request"
  /\ client[c].pc = "done" /\ client[c].error = None => client[c].response # None
  /\ client[c].error \in {"no service", "busy"} => ~Connected(c) /\ handled[c] = 0

CallInv == Inv /\ \A c \in CliClients : CallOK(c)

(* The server alone: it keeps a client or loses it, and what it reads of a  *)
(* CLI run is the request.                                                  *)
ServerOf(c) ==
  /\ Connected(c)' => Connected(c)
  /\ Connected(c)' /\ server'.pc \notin Before => server'.message = "request"

LEMMA DisconnectedCall ==
  ASSUME pipe' = None, NEW c \in CliClients
  PROVE  ServerOf(c)
BY DEF ServerOf, Connected

LEMMA MovedCall ==
  ASSUME UNCHANGED pipe, server'.message = server.message,
         server'.pc \notin Before => server.pc \notin Before,
         NEW c \in CliClients, CallOK(c)
  PROVE  ServerOf(c)
BY DEF ServerOf, Connected, CallOK

LEMMA TakenCall ==
  ASSUME Inv, pipe # None, server.pc \in {"read", "reading"}, Arrived,
         NEW rest, Take(rest, "handle"), NEW c \in CliClients
  PROVE  ServerOf(c)
<1>1. pipe \in Instances
  BY Typed
<1>2. /\ pipe' = [pipe EXCEPT !.toServer = rest \o Tail(pipe.toServer)]
      /\ server'.message = Head(pipe.toServer)
  BY DEF Take
<1>3. Connected(c)' => Connected(c)
  BY <1>1, <1>2, PipeServerAssumption DEF Connected, Instances
<1>4. Connected(c) => Head(pipe.toServer) = "request"
  BY RequestIsRead DEF Connected
<1> QED BY <1>2, <1>3, <1>4 DEF ServerOf

LEMMA ServerCall ==
  ASSUME CallInv, Server \/ Failing, NEW c \in CliClients
  PROVE  ServerOf(c)
<1> USE DEF Before
<1>1. /\ Inv /\ CallOK(c) /\ server \in ServerRecord
      /\ server.pc \notin {"create", "stopped", "failed"} => pipe # None
  BY Typed DEF CallInv, Inv, TypeOK
<1>2. c \in Clients /\ c # None
  BY PipeServerAssumption DEF Clients
<1>3. \A pc : Goto(pc) => server'.pc = pc /\ server'.message = server.message
  BY <1>1 DEF Goto, ServerRecord
<1>4. CASE CreateInstance
  BY <1>2, <1>4 DEF CreateInstance, NewInstance, ServerOf, Connected
<1>5. CASE BeginConnect \/ FinishConnect
  BY <1>1, <1>3, <1>5, MovedCall, DisconnectedCall
     DEF BeginConnect, FinishConnect, FailWith, Disconnect
<1>6. CASE BeginRead
  BY <1>1, <1>3, <1>6, TakenCall, MovedCall, DisconnectedCall
     DEF BeginRead, NextConnection, Disconnect
<1>7. CASE FinishRead
  BY <1>1, <1>7, TakenCall, DisconnectedCall
     DEF FinishRead, NextConnection, FailWith, Disconnect
<1>8. CASE Handle \/ FinishWrite
  BY <1>1, <1>3, <1>8, MovedCall, DisconnectedCall
     DEF Handle, FinishWrite, NextConnection, Disconnect
<1>9. CASE BeginWrite
  <2>1. CASE pipe.closed /\ NextConnection("closed")
    BY <2>1, DisconnectedCall DEF NextConnection, Disconnect
  <2>2. CASE /\ pipe' = [pipe EXCEPT !.toClient = [to |-> pipe.client, of |-> server.message]]
             /\ Goto("acknowledge") \/ Goto("writing")
    <3>1. pipe \in Instances /\ server.pc = "write"
      BY <1>1, <1>9, Typed DEF BeginWrite
    <3>2. pipe'.client = pipe.client /\ pipe # None
      BY <1>1, <2>2, <3>1 DEF Instances
    <3>3. server'.message = server.message
      BY <1>3, <2>2
    <3> QED BY <1>1, <3>1, <3>2, <3>3 DEF ServerOf, Connected, CallOK
  <2> QED BY <1>9, <2>1, <2>2 DEF BeginWrite
<1>10. CASE BeginAcknowledge \/ FinishAcknowledge
  BY <1>1, <1>3, <1>10, MovedCall, DisconnectedCall
     DEF BeginAcknowledge, FinishAcknowledge, NextConnection, FailWith, Disconnect
<1>11. CASE GiveUp
  BY <1>1, <1>11, MovedCall DEF GiveUp, CancelBecause, ServerRecord
<1>12. CASE Cancel \/ Failing
  BY <1>12, DisconnectedCall
     DEF Cancel, Abandon, Failing, NextConnection, FailWith, Disconnect
<1> QED BY <1>4, <1>5, <1>6, <1>7, <1>8, <1>9, <1>10, <1>11, <1>12 DEF Server

(* A dispatch is of the connected client, and its first. *)
LEMMA HandledOnce ==
  ASSUME Inv, Server \/ Failing
  PROVE  \/ handled' = handled
         \/ /\ server.pc = "handle" /\ ~Free /\ pipe # None /\ UNCHANGED <<pipe, client>>
            /\ handled[pipe.client] = 0
            /\ handled' = [handled EXCEPT ![pipe.client] = 1]
<1>1. CASE Handle
  <2>1. server.pc = "handle" /\ pipe # None
    BY <1>1 DEF Handle, Inv, TypeOK
  <2>2. ~Free
    BY <2>1 DEF Inv, InstanceOK
  <2>3. handled[pipe.client] = 0
    BY <2>1, <2>2, Owner DEF Inv, DispatchOK, Dispatched
  <2> QED BY <1>1, <2>1, <2>2, <2>3 DEF Handle
<1>2. CASE ~Handle
  BY <1>2 DEF Server, Failing, CreateInstance, BeginConnect, FinishConnect, BeginRead,
     FinishRead, BeginWrite, FinishWrite, BeginAcknowledge, FinishAcknowledge, GiveUp,
     Cancel, Abandon, CancelBecause, Take, NextConnection, FailWith, Disconnect
<1> QED BY <1>1, <1>2

LEMMA ServerKeepsCall ==
  ASSUME CallInv, Server \/ Failing
  PROVE  \A c \in CliClients : CallOK(c)'
<1> SUFFICES ASSUME NEW c \in CliClients PROVE CallOK(c)'
  OBVIOUS
<1>1. Inv /\ CallOK(c) /\ ServerOf(c) /\ c \in Clients
  BY ServerCall DEF CallInv, Clients
<1>2. client' = client
  BY DEF Server, Failing, CreateInstance, BeginConnect, FinishConnect, BeginRead, Handle,
     FinishRead, BeginWrite, FinishWrite, BeginAcknowledge, FinishAcknowledge, GiveUp,
     Cancel, Abandon, CancelBecause, Take, NextConnection, FailWith, Disconnect
<1>3. handled'[c] = handled[c] \/ Connected(c)
  BY <1>1, HandledOnce, Typed DEF Connected
<1> QED BY <1>1, <1>2, <1>3 DEF CallOK, ServerOf

-----------------------------------------------------------------------------
(* A step of a client.  What it may end with. *)
Ends(c, error) ==
  /\ client[c].pc # "done"
  /\ Return(c, error)
  /\ \/ error \in {"lost", "unacknowledged", "killed"}
     \/ error \in {"no service", "busy"} /\ client[c].pc \in {"call", "wait", "open"}

(* The steps of a client, by what they mean for its exchange.               *)
ClientMoves(c) ==
  /\ client[c].pc # "done"
  /\ client' = [client EXCEPT ![c] = client'[c]]
  /\ client'[c] \in ClientRecord
  /\ \/ /\ client'[c].pc # "done"
        /\ client'[c].error = client[c].error
        /\ \/ client'[c].response = client[c].response
           \/ /\ Connected(c) /\ pipe.toClient # None
              /\ client'[c].response = pipe.toClient
     \/ \E error \in Errors : Ends(c, error)
     \/ /\ client[c].pc = "acknowledge" /\ Connected(c)
        /\ client'[c] = [client[c] EXCEPT !.pc = "done"]

ClientStep(c) ==
  /\ UNCHANGED <<server, handled>>
  /\ c \in Clients
  /\ ClientMoves(c)
  /\ \/ UNCHANGED pipe
     \/ /\ pipe # None /\ pipe' # None
        /\ \/ pipe'.client = pipe.client
           \/ Free /\ pipe'.client = c /\ client'[c].pc # "done"

LEMMA CliIsClientStep ==
  ASSUME Inv, NEW c \in CliClients, CliStep(c)
  PROVE  ClientStep(c)
<1>1. /\ c \in Clients /\ client \in [Clients -> ClientRecord] /\ client[c] \in ClientRecord
      /\ pipe # None => pipe \in Instances
  BY Typed DEF Clients
<1>2. ASSUME NEW r \in ClientRecord, client' = [client EXCEPT ![c] = r]
      PROVE  client'[c] = r /\ client' = [client EXCEPT ![c] = client'[c]]
  BY <1>1, <1>2
<1>3. ASSUME NEW pc \in {"call", "wait", "open", "send", "flush", "receive", "acknowledge", "done"},
             Proceed(c, pc)
      PROVE  /\ client' = [client EXCEPT ![c] = client'[c]] /\ client'[c] \in ClientRecord
             /\ client'[c] = [client[c] EXCEPT !.pc = pc]
             /\ client'[c].pc = pc /\ client'[c].error = client[c].error
             /\ client'[c].response = client[c].response
  <2>1. [client[c] EXCEPT !.pc = pc] \in ClientRecord
    BY <1>1 DEF ClientRecord
  <2> QED BY <1>1, <1>2, <1>3, <2>1 DEF Proceed, ClientRecord
<1>4. ASSUME NEW error \in Errors, Return(c, error)
      PROVE  client' = [client EXCEPT ![c] = client'[c]] /\ client'[c] \in ClientRecord
  <2>1. [client[c] EXCEPT !.pc = "done", !.error = error] \in ClientRecord
    BY <1>1 DEF ClientRecord
  <2> QED BY <1>1, <1>2, <1>4, <2>1 DEF Return
<1> USE DEF ClientStep, ClientMoves, Ends, serverVars
<1>5. CASE CallWait(c)
  BY <1>1, <1>3, <1>4, <1>5 DEF CallWait, Errors
<1>6. CASE FinishWait(c)
  BY <1>1, <1>3, <1>4, <1>6 DEF FinishWait, Errors
<1>7. CASE OpenPipe(c)
  <2>1. CASE pipe = None /\ Return(c, "no service") /\ UNCHANGED pipe
    BY <1>1, <1>4, <1>7, <2>1 DEF OpenPipe, Errors
  <2>2. CASE Proceed(c, "call") /\ UNCHANGED pipe
    BY <1>1, <1>3, <1>7, <2>2 DEF OpenPipe
  <2>3. CASE Free /\ Proceed(c, "send") /\ pipe' = [pipe EXCEPT !.client = c]
    <3>1. pipe # None /\ pipe \in Instances
      BY <1>1, <2>3 DEF Free
    <3>2. pipe'.client = c /\ pipe' \in Instances /\ pipe' # None
      BY <1>1, <2>3, <3>1, PipeServerAssumption DEF Instances
    <3> QED BY <1>1, <1>3, <1>7, <2>3, <3>1, <3>2 DEF OpenPipe
  <2> QED BY <1>7, <2>1, <2>2, <2>3 DEF OpenPipe
<1>8. CASE LoseConnection(c)
  BY <1>1, <1>4, <1>8 DEF LoseConnection, Errors
<1>9. CASE SendRequest(c) \/ FlushRequest(c)
  <2>1. pipe # None /\ pipe \in Instances
    BY <1>1, <1>9 DEF SendRequest, FlushRequest, Connected
  <2>2. [pipe EXCEPT !.toServer = Append(@, "request")].client = pipe.client
    BY <2>1 DEF Instances
  <2>3. [pipe EXCEPT !.toServer = Append(@, "request")] \in Instances
    BY <2>1 DEF Instances, Messages
  <2>4. UNCHANGED pipe \/ (pipe' # None /\ pipe'.client = pipe.client)
    BY <1>9, <2>2, <2>3, PipeServerAssumption DEF SendRequest, FlushRequest
  <2> QED BY <1>1, <1>3, <1>9, <2>1, <2>4 DEF SendRequest, FlushRequest
<1>10. CASE ReceiveResponse(c)
  <2> DEFINE r == [client[c] EXCEPT !.pc = "acknowledge", !.response = pipe.toClient]
  <2>1. pipe # None /\ pipe \in Instances /\ pipe.toClient \in Responses \cup {None}
    BY <1>1, <1>10, Typed DEF ReceiveResponse, Connected
  <2>2. r \in ClientRecord /\ r.pc = "acknowledge" /\ r.response = pipe.toClient
        /\ r.error = client[c].error
    BY <1>1, <2>1 DEF ClientRecord
  <2>3. client' = [client EXCEPT ![c] = r]
    BY <1>10 DEF ReceiveResponse
  <2>4. client' = [client EXCEPT ![c] = client'[c]] /\ client'[c] = r
    BY <1>2, <2>2, <2>3
  <2>5. pipe' # None /\ pipe'.client = pipe.client
    <3>1. [pipe EXCEPT !.toClient = None] \in Instances
          /\ [pipe EXCEPT !.toClient = None].client = pipe.client
      BY <2>1 DEF Instances
    <3> QED BY <1>10, <3>1, PipeServerAssumption DEF ReceiveResponse
  <2> HIDE DEF r
  <2> QED BY <1>1, <1>10, <2>1, <2>2, <2>4, <2>5 DEF ReceiveResponse
<1>11. CASE SendAcknowledgement(c)
  <2>1. CASE Connected(c) /\ Proceed(c, "done")
             /\ pipe' = [pipe EXCEPT !.toServer = Append(@, "ack"), !.closed = TRUE]
    <3>1. pipe # None /\ pipe \in Instances
      BY <1>1, <2>1 DEF Connected
    <3>2. /\ [pipe EXCEPT !.toServer = Append(@, "ack"), !.closed = TRUE] \in Instances
          /\ [pipe EXCEPT !.toServer = Append(@, "ack"), !.closed = TRUE].client = pipe.client
      <4>1. Append(pipe.toServer, "ack") \in Seq(Messages \cup {"rest"})
        BY <3>1 DEF Instances, Messages
      <4> QED BY <3>1, <4>1 DEF Instances
    <3> QED BY <1>1, <1>3, <1>11, <2>1, <3>1, <3>2, PipeServerAssumption DEF SendAcknowledgement
  <2>2. CASE ~Connected(c) /\ Return(c, "unacknowledged") /\ UNCHANGED pipe
    BY <1>1, <1>4, <1>11, <2>2 DEF SendAcknowledgement, Errors
  <2> QED BY <1>11, <2>1, <2>2 DEF SendAcknowledgement
<1> QED BY <1>5, <1>6, <1>7, <1>8, <1>9, <1>10, <1>11 DEF CliStep

(* Other programs leave the clients of the CLI alone, ...                   *)
Aside ==
  /\ UNCHANGED <<server, handled>>
  /\ \A c \in CliClients : /\ client'[c] = client[c]
                           /\ Connected(c)' => Connected(c)

(* ... and a run of the CLI may be killed.                                  *)
LEMMA EnvironmentCall ==
  ASSUME Inv, Environment
  PROVE  Aside \/ \E c \in CliClients : ClientStep(c)
<1>1. client \in [Clients -> ClientRecord] /\ (pipe # None => pipe \in Instances)
  BY Typed
<1>0. /\ \A c \in RawClients : c \in Clients /\ c \notin CliClients /\ c # None
      /\ \A c \in CliClients : c \in Clients /\ c # None
  BY PipeServerAssumption DEF Clients
<1> USE DEF Aside, Connected, serverVars
<1>2. CASE RequestStop
  BY <1>2 DEF RequestStop
<1>3. ASSUME NEW c \in Clients, KillClient(c)
      PROVE  Aside \/ (ClientStep(c) /\ c \in CliClients)
  <2> DEFINE r == [client[c] EXCEPT !.pc = "done", !.error = "killed"]
  <2>0. client[c] \in ClientRecord
    BY <1>1
  <2>1. r \in ClientRecord /\ client' = [client EXCEPT ![c] = r]
    BY <1>3, <2>0 DEF KillClient, Return, ClientRecord, Errors
  <2>2. client' = [client EXCEPT ![c] = client'[c]] /\ client'[c] = r
    BY <1>1, <2>1
  <2>3. \/ UNCHANGED pipe
        \/ /\ pipe # None /\ pipe' # None /\ pipe'.client = pipe.client
    <3>1. pipe # None => /\ [pipe EXCEPT !.closed = TRUE] \in Instances
                         /\ [pipe EXCEPT !.closed = TRUE].client = pipe.client
      BY <1>1 DEF Instances
    <3> QED BY <1>3, <3>1, PipeServerAssumption DEF KillClient
  <2>4. CASE c \in CliClients
    <3>1. ClientMoves(c)
      BY <1>3, <2>1, <2>2 DEF ClientMoves, Ends, KillClient, Errors
    <3> QED BY <1>3, <2>3, <2>4, <3>1 DEF ClientStep, KillClient
  <2>5. CASE c \notin CliClients
    <3>1. \A d \in CliClients : client'[d] = client[d]
      BY <1>0, <1>1, <2>1, <2>5
    <3>2. \A d \in CliClients : Connected(d)' => Connected(d)
      BY <2>3
    <3> QED BY <1>3, <3>1, <3>2 DEF KillClient
  <2> QED BY <2>4, <2>5
<1>4. ASSUME NEW c \in RawClients,
             RawConnect(c) \/ RawReceive(c) \/ \E message \in Messages : RawWrite(c, message)
      PROVE  Aside
  <2>1. \A d \in CliClients : client'[d] = client[d]
    BY <1>0, <1>1, <1>4 DEF RawConnect, RawReceive, RawWrite, Proceed
  <2>2. pipe # None /\ pipe \in Instances
    BY <1>1, <1>4 DEF RawConnect, RawReceive, RawWrite, Free
  <2>3. pipe'.client = c \/ pipe'.client = pipe.client
    BY <1>4, <2>2 DEF RawConnect, RawReceive, RawWrite, Instances
  <2> QED BY <1>0, <1>4, <2>1, <2>2, <2>3 DEF RawConnect, RawReceive, RawWrite
<1> QED BY <1>2, <1>3, <1>4 DEF Environment

LEMMA ClientKeepsCall ==
  ASSUME CallInv, NEW d \in CliClients, ClientStep(d)
  PROVE  \A c \in CliClients : CallOK(c)'
<1> SUFFICES ASSUME NEW c \in CliClients PROVE CallOK(c)'
  OBVIOUS
<1>1. /\ Inv /\ CallOK(c) /\ CallOK(d) /\ ExchangeOK(d) /\ c \in Clients /\ d \in Clients
      /\ client \in [Clients -> ClientRecord] /\ client[d] \in ClientRecord
  BY Typed DEF CallInv, Clients, Inv
<1>2. /\ UNCHANGED <<server, handled>> /\ ClientMoves(d)
      /\ Free => server.pc \in Before
      /\ None \notin Errors
  BY <1>1, PipeServerAssumption DEF ClientStep, Inv, InstanceOK, Before
<1>3. Connected(c)' => Connected(c) \/ (Free /\ c = d /\ client'[d].pc # "done")
  BY DEF ClientStep, Connected
<1>4. Connected(c)' /\ server'.pc \notin Before => server'.message = "request"
  BY <1>1, <1>2, <1>3 DEF CallOK
<1>5. CASE c # d
  <2>1. client'[c] = client[c] /\ (Connected(c)' => Connected(c))
    BY <1>1, <1>2, <1>3, <1>5 DEF ClientMoves
  <2> QED BY <1>1, <1>2, <1>4, <2>1 DEF CallOK
<1>6. CASE c = d
  <2>1. CASE /\ client'[d].pc # "done" /\ client'[d].error = client[d].error
             /\ client'[d].response = client[d].response
    <3>1. client[d].error = None
      BY <1>1, <1>2 DEF ExchangeOK, ClientMoves
    <3> QED BY <1>1, <1>2, <1>4, <1>6, <2>1, <3>1 DEF CallOK, Errors
  <2>2. CASE /\ client'[d].pc # "done" /\ client'[d].error = client[d].error
             /\ Connected(d) /\ pipe.toClient # None /\ client'[d].response = pipe.toClient
    <3>1. client[d].error = None
      BY <1>1, <1>2 DEF ExchangeOK, ClientMoves
    <3>2. pipe.toClient.of = server.message /\ server.pc \notin Before
      BY <1>1, <2>2 DEF Inv, InstanceOK, Connected, Before
    <3> QED BY <1>1, <1>2, <1>4, <1>6, <2>2, <3>1, <3>2 DEF CallOK, Errors
  <2>3. CASE \E error \in Errors : Ends(d, error)
    <3>1. PICK error \in Errors : Ends(d, error)
      BY <2>3
    <3>2. /\ client'[d].pc = "done" /\ client'[d].error = error /\ error # None
          /\ client'[d].response = client[d].response
      <4>1. client' = [client EXCEPT ![d] = [client[d] EXCEPT !.pc = "done", !.error = error]]
        BY <3>1 DEF Ends, Return
      <4>2. client'[d] = [client[d] EXCEPT !.pc = "done", !.error = error]
        BY <1>1, <4>1
      <4> QED BY <1>1, <1>2, <4>2 DEF ClientRecord
    <3>3. error \in {"no service", "busy"} => ~Connected(d) /\ handled[d] = 0
      BY <1>1, <3>1 DEF Ends, Inv, DispatchOK, Dispatched
    <3>4. error \in {"no service", "busy"} => ~Connected(d)'
      BY <1>3, <1>6, <3>2, <3>3
    <3> QED BY <1>1, <1>2, <1>4, <1>6, <3>2, <3>3, <3>4 DEF CallOK
  <2>4. CASE /\ client[d].pc = "acknowledge" /\ Connected(d)
             /\ client'[d] = [client[d] EXCEPT !.pc = "done"]
    <3>1. client[d].response # None /\ client[d].error = None
      BY <1>1, <2>4 DEF ExchangeOK
    <3>2. /\ client'[d].error = None /\ client'[d].response = client[d].response
      BY <1>1, <2>4, <3>1 DEF ClientRecord
    <3> QED BY <1>1, <1>2, <1>4, <1>6, <3>1, <3>2 DEF CallOK, Errors
  <2> QED BY <1>2, <2>1, <2>2, <2>3, <2>4 DEF ClientMoves
<1> QED BY <1>5, <1>6

LEMMA CallInvInit == Init => CallInv
<1> SUFFICES ASSUME Init, NEW c \in CliClients PROVE CallOK(c)
  BY InitHolds DEF CallInv
<1> QED BY PipeServerAssumption DEF Init, CallOK, Connected, Clients, Errors

LEMMA CallInvStep == CallInv /\ [Next]_vars => CallInv'
<1> SUFFICES ASSUME CallInv, [Next]_vars PROVE \A c \in CliClients : CallOK(c)'
  BY StepHolds DEF CallInv
<1>1. CASE UNCHANGED vars
  BY <1>1 DEF vars, CallInv, CallOK, Connected
<1>2. CASE Aside
  <2> SUFFICES ASSUME NEW c \in CliClients PROVE CallOK(c)'
    OBVIOUS
  <2>1. CallOK(c) /\ client'[c] = client[c] /\ (Connected(c)' => Connected(c))
        /\ UNCHANGED <<server, handled>>
    BY <1>2 DEF Aside, CallInv
  <2> QED BY <2>1 DEF CallOK
<1>3. ASSUME NEW d \in CliClients, ClientStep(d) PROVE \A c \in CliClients : CallOK(c)'
  BY <1>3, ClientKeepsCall
<1> QED
  BY <1>1, <1>2, <1>3, ServerKeepsCall, CliIsClientStep, EnvironmentCall
     DEF Next, CallInv

-----------------------------------------------------------------------------
(* What a step shows of the remote calls.                                   *)

Shown == [c \in CliClients |-> handled[c]]

ShownTold == [c \in CliClients |-> Told(c)]

LEMMA ShownInit == Init => Call!Init
<1> SUFFICES ASSUME Init PROVE Call!Init
  OBVIOUS
<1>1. \A c \in CliClients : c \in Clients
  BY DEF Clients
<1> QED BY <1>1 DEF Init, Call!Init, Told

(* The server, when it dispatches the request of a run of the CLI. *)
LEMMA ServerShown ==
  ASSUME CallInv, Server \/ Failing
  PROVE  [Call!Next]_(Call!vars)
<1>1. client' = client
  BY DEF Server, Failing, CreateInstance, BeginConnect, FinishConnect, BeginRead, Handle,
     FinishRead, BeginWrite, FinishWrite, BeginAcknowledge, FinishAcknowledge, GiveUp,
     Cancel, Abandon, CancelBecause, Take, NextConnection, FailWith, Disconnect
<1>2. Inv /\ handled \in [Clients -> Nat] /\ \A c \in CliClients : c \in Clients
  BY Typed DEF CallInv, Clients
<1>3. UNCHANGED ShownTold
  BY <1>1 DEF ShownTold, Told
<1>4. CASE handled' = handled
  BY <1>3, <1>4 DEF Call!vars, ShownTold
<1>5. CASE /\ server.pc = "handle" /\ ~Free /\ pipe # None /\ UNCHANGED <<pipe, client>>
           /\ handled[pipe.client] = 0
           /\ handled' = [handled EXCEPT ![pipe.client] = 1]
  <2>1. PICK c \in Clients : c = pipe.client /\ Connected(c)
    BY <1>2, <1>5, Owner
  <2>2. CASE c \notin CliClients
    <3>1. UNCHANGED Shown
      BY <1>2, <1>5, <2>1, <2>2 DEF Shown
    <3> QED BY <1>3, <3>1 DEF Call!vars, Shown, ShownTold
  <2>3. CASE c \in CliClients
    <3>1. CallOK(c) /\ ExchangeOK(c) /\ client[c].error \in Errors \cup {None}
      BY <1>2, <2>1, <2>3, Typed DEF CallInv, Inv, ClientRecord
    <3>2. server.message = "request"
      BY <1>5, <2>1, <3>1 DEF CallOK, Before
    <3>3. client[c].response = None
      <4>1. Dispatched(c) /\ handled[c] = 0
        BY <1>2, <1>5, <2>1 DEF Inv, DispatchOK
      <4>2. client[c].response # None => client[c].response.of = "request"
        BY <3>1 DEF CallOK
      <4>3. client[c].response # None /\ client[c].response.of = "request" => handled[c] = 1
        BY <4>1 DEF Dispatched
      <4> QED BY <4>1, <4>2, <4>3
    <3>4. Told(c) \in {"pending", "lost"}
      BY <2>1, <3>1, <3>3, PipeServerAssumption DEF Told, CallOK, ExchangeOK
    <3>5. Shown[c] = 0 /\ Shown' = [Shown EXCEPT ![c] = 1]
      BY <1>2, <1>5, <2>1, <2>3 DEF Shown
    <3>6. ShownTold[c] \in {"pending", "lost"}
      BY <2>3, <3>4 DEF ShownTold
    <3>7. Call!Execute(c)
      BY <1>3, <3>5, <3>6 DEF Call!Execute, Shown, ShownTold
    <3> QED BY <2>3, <3>7 DEF Call!Next
  <2> QED BY <2>2, <2>3
<1> QED BY <1>2, <1>4, <1>5, HandledOnce

(* A run of the CLI, when its call returns. *)
LEMMA ClientShown ==
  ASSUME CallInv, NEW c \in CliClients, ClientStep(c)
  PROVE  [Call!Next]_(Call!vars)
<1>1. /\ Inv /\ CallOK(c) /\ ExchangeOK(c) /\ c \in Clients /\ None \notin Errors
      /\ client \in [Clients -> ClientRecord] /\ client[c] \in ClientRecord
      /\ client'[c] \in ClientRecord
      /\ \A d \in CliClients : d \in Clients
  BY Typed, PipeServerAssumption DEF CallInv, Clients, Inv, ClientStep, ClientMoves
<1>2. UNCHANGED Shown /\ ClientMoves(c)
  BY DEF Shown, ClientStep
<1>3. /\ \A d \in CliClients : d # c => client'[d] = client[d]
      /\ client[c].pc # "done"
  BY <1>1, <1>2 DEF ClientMoves
<1>4. Told(c) = "pending" /\ ShownTold[c] = "pending"
  BY <1>3 DEF Told, ShownTold
<1>5. ShownTold' = [ShownTold EXCEPT ![c] = Told(c)']
  BY <1>3 DEF ShownTold, Told
<1>6. ASSUME NEW what, Told(c)' = what PROVE Call!Tell(c, what)
  BY <1>2, <1>4, <1>5, <1>6 DEF Call!Tell, Shown, ShownTold
<1>7. CASE client'[c].pc # "done"
  <2>1. Told(c)' = "pending"
    BY <1>7 DEF Told
  <2>2. UNCHANGED ShownTold
    BY <1>4, <1>5, <2>1 DEF ShownTold
  <2> QED BY <1>2, <2>2 DEF Call!vars, Shown, ShownTold
<1>8. CASE \E error \in Errors : Ends(c, error)
  <2>1. PICK error \in Errors : Ends(c, error)
    BY <1>8
  <2>2. client' = [client EXCEPT ![c] = [client[c] EXCEPT !.pc = "done", !.error = error]]
    BY <2>1 DEF Ends, Return
  <2>3. client'[c] = [client[c] EXCEPT !.pc = "done", !.error = error]
    BY <1>1, <2>2
  <2>4. client'[c].pc = "done" /\ client'[c].error = error /\ error # None
    BY <1>1, <2>3 DEF ClientRecord
  <2>5. CASE error \in {"no service", "busy"}
    <3>1. Told(c)' = "refused"
      BY <2>4, <2>5 DEF Told
    <3>2. handled[c] = 0
      BY <1>1, <2>1, <2>5 DEF Ends, Inv, DispatchOK, Dispatched
    <3>3. Call!Refuse(c)
      BY <1>6, <3>1, <3>2 DEF Call!Refuse
    <3> QED BY <3>3 DEF Call!Next
  <2>6. CASE error \notin {"no service", "busy"}
    <3>1. Told(c)' = "lost"
      BY <2>4, <2>6 DEF Told
    <3>2. Call!Lose(c)
      BY <1>6, <3>1 DEF Call!Lose
    <3> QED BY <3>2 DEF Call!Next
  <2> QED BY <2>5, <2>6
<1>9. CASE /\ client[c].pc = "acknowledge" /\ Connected(c)
           /\ client'[c] = [client[c] EXCEPT !.pc = "done"]
  <2>1. client[c].response # None /\ client[c].error = None
    BY <1>1, <1>9 DEF ExchangeOK
  <2>2. handled[c] = 1
    BY <1>1, <2>1 DEF CallOK, Inv, DispatchOK, Dispatched
  <2>3. client'[c].pc = "done" /\ client'[c].error = None
    BY <1>1, <1>9, <2>1 DEF ClientRecord
  <2>4. Told(c)' = "answered"
    BY <2>3 DEF Told
  <2>5. Call!Answer(c)
    BY <1>6, <2>2, <2>4 DEF Call!Answer
  <2> QED BY <2>5 DEF Call!Next
<1> QED BY <1>2, <1>7, <1>8, <1>9 DEF ClientMoves

LEMMA CallStep == CallInv /\ [Next]_vars => [Call!Next]_(Call!vars)
<1> SUFFICES ASSUME CallInv, [Next]_vars PROVE [Call!Next]_(Call!vars)
  OBVIOUS
<1>1. CASE UNCHANGED vars \/ Aside
  <2>1. UNCHANGED handled /\ \A c \in CliClients : client'[c] = client[c]
    BY <1>1 DEF vars, Aside
  <2>2. UNCHANGED Shown /\ \A c \in CliClients : Told(c)' = Told(c)
    BY <2>1 DEF Shown, Told
  <2>3. UNCHANGED <<Shown, ShownTold>>
    BY <2>2 DEF ShownTold
  <2> QED BY <2>3 DEF Call!vars, Shown, ShownTold
<1> QED
  BY <1>1, ServerShown, ClientShown, CliIsClientStep, EnvironmentCall DEF Next, CallInv

(* A run of the CLI makes a remote call that is executed at most once, with *)
(* any number of other clients that write, read and leave as they like:     *)
(* success tells of a dispatched request, and a refusal of one that never   *)
(* is.                                                                      *)
THEOREM RequestsAreServedAtMostOnce == Spec => CallsHappenAtMostOnce
<1>1. Spec => Init
  BY PTL DEF Spec
<1>2. Spec => []CallInv
  BY CallInvInit, CallInvStep, PTL DEF Spec
<1> QED BY <1>1, <1>2, ShownInit, CallStep, PTL
        DEF Spec, CallsHappenAtMostOnce, Call!Spec
=============================================================================
