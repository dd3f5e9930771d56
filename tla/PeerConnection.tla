--------------------------- MODULE PeerConnection ---------------------------
(***************************************************************************)
(* Connections between two nodes that run the same code.  One node dials,  *)
(* the other listens, and each keeps an end of every connection: the two   *)
(* loops of the gRPC connection, the router, and the goroutine of the       *)
(* protocol manager that shakes hands, registers the flows, waits for the   *)
(* other node to be ready and runs the flows until one of them fails.       *)
(*                                                                         *)
(* A step is what a goroutine does between two points where it waits or     *)
(* where another goroutine could see what it has done.  Messages are the    *)
(* commands they announce: Wire is about their contents.  What an end puts  *)
(* into its outgoing route is on its way at once: the sequence of messages  *)
(* that are on their way to an end stands for the outgoing route of the     *)
(* other end, its sendLoop, which passes them on in order, and the network. *)
(* The outgoing route never fills up (it holds 131,272 messages).           *)
(*                                                                         *)
(* Of the flows only those that every connection runs on its own account    *)
(* are here; the ones that relay blocks (BlockRelay, BlockSync) take part   *)
(* as HandleRelayInvs, which receives the announcements that are broadcast  *)
(* to all peers.                                                            *)
(***************************************************************************)
EXTENDS Integers, Sequences, Functions, Routing

CONSTANTS
  Dialler, Listener,
  Settings,             \* what a behaviour is bounded by, see setting
  RouteCapacity,        \* DefaultMaxMessages
  NoConnection

VARIABLES
  setting,         \* chosen at the start: the flows that are run, how often the dialler
                   \* connects, announcements a node has for a connection, disturbances,
                   \* the nodes that banned the other one before, and by verdict what a
                   \* node's checks make of the other one's version
  stream,          \* per connection, the gRPC stream: "none", "open" or "ended"
  wire,            \* per end, the messages on their way to it
  end,             \* per end, see NewEnd
  p2pConnections,  \* per node, NetAdapter.p2pConnections
  peers,           \* per node, the connection under the ID of the other node in FlowContext.peers
  banned,          \* the nodes that banned the other one's address
  disturbances     \* how often the network or another part of a node broke a connection

connectionVars == <<setting, stream, wire, end, p2pConnections, peers, banned, disturbances>>

Node == {Dialler, Listener}
Connection == 1..setting.connections
End == Connection \X Node

ASSUME ConnectionAssumption ==
  /\ Dialler # Listener /\ NoConnection \notin Nat
  /\ RouteCapacity \in Nat \ {0}
  /\ \A s \in Settings :
       /\ s.connections \in Nat /\ s.broadcasts \in Nat /\ s.disturbances \in Nat
       /\ s.flows \subseteq DOMAIN FlowRoutes /\ s.banned \subseteq {Dialler, Listener}
       /\ s.verdict \in [{Dialler, Listener} -> {"none", "protocol", "ban"}]
       \* Flows that talk to each other are registered together.
       /\ ("SendPings" \in s.flows) = ("ReceivePings" \in s.flows)
       /\ ("ReceiveAddresses" \in s.flows) = ("SendAddresses" \in s.flows)
       /\ "SendVirtualSelectedParentInv" \in s.flows => "HandleRelayInvs" \in s.flows

Other(e) == <<e[1], IF e[2] = Dialler THEN Listener ELSE Dialler>>

OneTimeFlows == {"ReceiveAddresses", "SendVirtualSelectedParentInv"}
Handshake == UNION {HandshakeRoutes[f] : f \in DOMAIN HandshakeRoutes}
FlowCommands == UNION {FlowRoutes[f] : f \in setting.flows}

\* The errors a goroutine can end with: ErrRouteClosed, and a ProtocolError that
\* asks for a ban or does not (ErrTimeout and ErrRouteCapacityReached are of those).
NoError == "none"
ErrRouteClosed == "route closed"
ProtocolError == "protocol"
BanningError == "ban"

-----------------------------------------------------------------------------
(* Routes and routers.                                                      *)

\* The messages that wait in the routes of an end: nothing, one message more, one less.
NothingWaits == [m \in {} |-> 0]
Put(q, m) ==
  IF m \in DOMAIN q THEN [q EXCEPT ![m] = @ + 1]
  ELSE [k \in DOMAIN q \cup {m} |-> IF k = m THEN 1 ELSE q[k]]
Take(q, m) ==
  IF q[m] > 1 THEN [q EXCEPT ![m] = @ - 1] ELSE Restrict(q, DOMAIN q \ {m})

\* An end when its connection was made: newConnection and NewRouter, the routes of
\* registerHandshakeRoutes, and the goroutines Start and routerInitializer spawn.
NewEnd ==
  [loops |-> "running",           \* connectionLoops: "running" while isConnected, "closing" in Disconnect
   receiving |-> TRUE,            \* receiveLoop runs; it waits in Recv with the stream locked
   routes |-> Handshake,          \* the commands with an incoming route
   incoming |-> NothingWaits,     \* how many messages wait in each route that holds any
   closed |-> FALSE,              \* the router was closed
   shut |-> {},                   \* the commands whose route was closed with it
   main |-> "start",              \* the goroutine of routerInitializer
   receiveVersion |-> "none", sendVersion |-> "none",
   failure |-> NoError,           \* the error of HandleHandshake's errChan
   stopping |-> FALSE,            \* isStopping
   error |-> NoError,             \* the error in the errChan of the router
   running |-> {},                \* the flows that run
   waiting |-> {},                \* those of them that wait for the answer to a request
   announced |-> 0,               \* broadcasts so far
   refused |-> "none"]            \* the message that had no route, unless another error was first

NoEnd == [NewEnd EXCEPT !.loops = "done", !.receiving = FALSE, !.routes = {}, !.closed = TRUE,
                        !.main = "done"]

\* The incoming routes of a router.
AddIncomingRoute(r, messageTypes) == [r EXCEPT !.routes = @ \cup messageTypes]
RemoveRoute(r, messageTypes) == [r EXCEPT !.routes = @ \ messageTypes]

\* Route.Enqueue on the outgoing route of an end: nothing is sent when it is closed.
\* What nobody is going to receive is left out.
EnqueueError(r) == IF r.closed THEN ErrRouteClosed ELSE NoError
Enqueue(e, m) ==
  LET o == Other(e)
  IN wire' = IF end[e].closed \/ stream[e[1]] = "ended" \/ (end[o] # NoEnd /\ ~end[o].receiving)
             THEN wire ELSE [wire EXCEPT ![o] = Append(@, m)]

\* Dequeue, and DequeueWithTimeout before the timeout: a closed route still
\* gives the messages it holds.
HasMessage(r, m) == m \in DOMAIN r.incoming
Dequeue(r, m) == [r EXCEPT !.incoming = Take(@, m)]
IsShut(r, m) == m \in r.shut /\ ~HasMessage(r, m)

\* What a goroutine of an end that waits for message m with a timeout may fail with.
\* A node answers within the two minutes of DefaultTimeout, so that time runs out
\* only when nothing can come any more.
WaitErrors(e, m) ==
  IF HasMessage(end[e], m) THEN {}
  ELSE IF m \in end[e].shut THEN {ErrRouteClosed}
  ELSE IF wire[e] = <<>> /\ (stream[e[1]] = "ended" \/ end[Other(e)].closed) THEN {ProtocolError}
  ELSE {}

\* The same when the message is to be answered: on a closed route that fails.
AnswerErrors(e, m) ==
  IF end[e].closed /\ HasMessage(end[e], m) THEN {ErrRouteClosed} ELSE WaitErrors(e, m)

\* NetConnection.Disconnect and Router.Close: only the routes that are there are closed.
Disconnect(r) == IF r.closed THEN r ELSE [r EXCEPT !.closed = TRUE, !.shut = r.routes]

\* An end is left when all its goroutines are over: nobody sees its routes any more.
GoneEnd == [NoEnd EXCEPT !.main = "gone"]
Left(r) ==
  IF /\ r.main = "done" /\ r.loops = "done" /\ ~r.receiving
     /\ r.receiveVersion # "waiting" /\ r.sendVersion # "waiting"
  THEN [GoneEnd EXCEPT !.announced = r.announced, !.refused = r.refused] ELSE r

-----------------------------------------------------------------------------
(* Errors.                                                                  *)

\* Mutant of HandleError: a closed route is no error.
HandleErrorUnlessClosed(r, err) ==
  IF r.stopping \/ err = ErrRouteClosed THEN r ELSE [r EXCEPT !.stopping = TRUE, !.error = err]

\* FlowContext.HandleError and the invalid message handler: the first error is
\* passed on to the goroutine of the router.
HandleError(r, err) ==
  IF r.stopping THEN r ELSE [r EXCEPT !.stopping = TRUE, !.error = err]

\* handleError of the handshake.
HandshakeError(r, err) == IF r.failure = NoError THEN [r EXCEPT !.failure = err] ELSE r

\* Manager.handleError: what becomes of the end.  Banning is enabled.
AfterError(r, err) ==
  IF err \in {BanningError, ProtocolError} THEN Disconnect(r) ELSE r

\* The ban, and the reject message that tells the other node of it.
Ban(e, err) ==
  IF err = BanningError
  THEN banned' = banned \cup {e[2]} /\ Enqueue(e, "Reject")
  ELSE UNCHANGED <<banned, wire>>

-----------------------------------------------------------------------------
(* The life of a connection.                                                *)

\* p2pServer.Connect and onP2PConnectedHandler: the dialler's end starts as soon as
\* the stream is there.
Connect(c) ==
  /\ stream[c] = "none"
  /\ stream' = [stream EXCEPT ![c] = "open"]
  /\ end' = [end EXCEPT ![<<c, Dialler>>] = NewEnd]
  /\ p2pConnections' = [p2pConnections EXCEPT ![Dialler] = @ \cup {c}]
  /\ UNCHANGED <<setting, wire, peers, banned, disturbances>>

\* MessageStream and handleInboundConnection on the side of the listener.
handleInboundConnection(c) ==
  /\ stream[c] # "none"
  /\ end[<<c, Listener>>] = NoEnd
  /\ end' = [end EXCEPT ![<<c, Listener>>] = NewEnd]
  /\ p2pConnections' = [p2pConnections EXCEPT ![Listener] = @ \cup {c}]
  /\ UNCHANGED <<setting, stream, wire, peers, banned, disturbances>>

\* After stopChan is closed handleInboundConnection returns, which ends the stream.
inboundHandlerReturns(c) ==
  /\ stream[c] = "open"
  /\ end[<<c, Listener>>].loops # "running" /\ end[<<c, Listener>>] # NoEnd
  /\ stream' = [stream EXCEPT ![c] = "ended"]
  /\ UNCHANGED <<setting, wire, end, p2pConnections, peers, banned, disturbances>>

\* The network breaks the stream.
NetworkError(c) ==
  /\ stream[c] = "open"
  /\ stream' = [stream EXCEPT ![c] = "ended"]
  /\ disturbances < setting.disturbances /\ disturbances' = disturbances + 1
  /\ UNCHANGED <<setting, wire, end, p2pConnections, peers, banned>>

\* A loop has ended, and gRPCConnection.Disconnect begins.  The listener goes through it at
\* once: the router is closed, the connection forgotten.  On the dialler's side closeSend
\* first waits for receive to let go of the stream lock.
Leave(e, r) ==
  IF r.loops # "running"
  THEN end' = [end EXCEPT ![e] = Left(r)] /\ UNCHANGED p2pConnections
  ELSE IF e[2] = Dialler
       THEN end' = [end EXCEPT ![e] = [r EXCEPT !.loops = "closing"]] /\ UNCHANGED p2pConnections
       ELSE /\ end' = [end EXCEPT ![e] = Left([Disconnect(r) EXCEPT !.loops = "done"])]
            /\ p2pConnections' = [p2pConnections EXCEPT ![e[2]] = @ \ {e[1]}]

\* sendLoop ends when the outgoing route is closed and empty.  (It also ends when Send
\* fails, but then the stream has ended, and receiveLoop ends as well.)
sendLoop(e) ==
  /\ end[e].loops = "running" /\ end[e].closed
  /\ Leave(e, end[e])
  /\ UNCHANGED <<setting, stream, wire, peers, banned, disturbances>>

\* EnqueueIncomingMessage, and the invalid message handler, once it is set, when the
\* message has no route.  What fails ends receiveLoop.
EnqueueIncomingMessage(r, m) ==
  LET invalid == [r EXCEPT !.receiving = FALSE, !.refused = IF r.stopping THEN @ ELSE m]
  IN IF m \notin r.routes
     THEN IF r.main = "start" THEN invalid ELSE HandleError(invalid, BanningError)
     ELSE IF m \in r.shut \/ (HasMessage(r, m) /\ r.incoming[m] = RouteCapacity)
     THEN [r EXCEPT !.receiving = FALSE]
     ELSE [r EXCEPT !.incoming = Put(@, m), !.receiving = (r.loops = "running")]

\* receiveLoop with a message.
receiveLoop(e) ==
  LET r == end[e]
  IN /\ r.receiving /\ wire[e] # <<>>
     /\ \E s \in {EnqueueIncomingMessage(r, Head(wire[e]))} :
          /\ IF s.receiving THEN end' = [end EXCEPT ![e] = s] /\ UNCHANGED p2pConnections
             ELSE Leave(e, s)
          /\ wire' = [wire EXCEPT ![e] = IF s.receiving THEN Tail(@) ELSE <<>>]
     /\ UNCHANGED <<setting, stream, peers, banned, disturbances>>

\* Recv fails on a stream that has ended, and what was on its way is lost.
receiveLoopEnds(e) ==
  /\ end[e].receiving /\ stream[e[1]] = "ended"
  /\ Leave(e, [end[e] EXCEPT !.receiving = FALSE])
  /\ wire' = [wire EXCEPT ![e] = <<>>]
  /\ UNCHANGED <<setting, stream, peers, banned, disturbances>>

\* The rest of the dialler's Disconnect, once nothing is received any more.
closeSend(e) ==
  LET r == end[e]
  IN /\ r.loops = "closing" /\ ~r.receiving
     /\ stream' = [stream EXCEPT ![e[1]] = "ended"]
     /\ end' = [end EXCEPT ![e] = Left([Disconnect(r) EXCEPT !.loops = "done"])]
     /\ p2pConnections' = [p2pConnections EXCEPT ![e[2]] = @ \ {e[1]}]
     /\ UNCHANGED <<setting, wire, peers, banned, disturbances>>

\* Another part of the node, the connection manager or an RPC call, disconnects.
Drop(e) ==
  /\ e[1] \in p2pConnections[e[2]] /\ ~end[e].closed
  /\ end' = [end EXCEPT ![e] = Disconnect(@)]
  /\ disturbances < setting.disturbances /\ disturbances' = disturbances + 1
  /\ UNCHANGED <<setting, stream, wire, p2pConnections, peers, banned>>

-----------------------------------------------------------------------------
(* The goroutine of routerInitializer.                                      *)

Only(e, r) ==
  end' = [end EXCEPT ![e] = Left(r)] /\ UNCHANGED <<setting, stream, p2pConnections, disturbances>>
Sends(e, m, r) == Only(e, r) /\ Enqueue(e, m)
Silently(e, r) == Only(e, r) /\ UNCHANGED wire

\* The ban is looked up; HandleHandshake spawns its two goroutines, one of which sends
\* the version.  (The protocol manager is not closed: the shutdown is left out.)
routerInitializer(e) ==
  LET r == end[e]
  IN /\ r.main = "start"
     /\ \/ /\ e[2] \in banned
           /\ Silently(e, [Disconnect(r) EXCEPT !.main = "done"])
        \/ /\ e[2] \notin banned /\ ~r.closed
           /\ Sends(e, "Version", [r EXCEPT !.main = "handshake", !.receiveVersion = "waiting",
                                           !.sendVersion = "waiting"])
        \/ /\ e[2] \notin banned /\ r.closed
           /\ Silently(e, [HandshakeError(r, ErrRouteClosed) EXCEPT
                             !.main = "handshake", !.receiveVersion = "waiting",
                             !.sendVersion = "failed"])
     /\ UNCHANGED <<peers, banned>>

\* receiveVersionFlow: a version is checked, for its ID, network, protocol version and
\* subnetwork, and answered with a verack.
ReceiveVersion(e) ==
  LET r == end[e]
      verdict == setting.verdict[e[2]]
  IN /\ r.receiveVersion = "waiting"
     /\ \/ /\ HasMessage(r, "Version") /\ verdict = NoError /\ ~r.closed
           /\ Sends(e, "VerAck", [Dequeue(r, "Version") EXCEPT !.receiveVersion = "done"])
        \/ /\ HasMessage(r, "Version") /\ verdict # NoError
           /\ Silently(e, [HandshakeError(Dequeue(r, "Version"), verdict) EXCEPT
                             !.receiveVersion = "failed"])
        \/ /\ ~HasMessage(r, "Version") \/ verdict = NoError
           /\ \E err \in AnswerErrors(e, "Version") :
                Silently(e, [HandshakeError(r, err) EXCEPT !.receiveVersion = "failed"])
     /\ UNCHANGED <<peers, banned>>

\* sendVersionFlow after the version was sent: the verack is awaited.
SendVersion(e) ==
  LET r == end[e]
  IN /\ r.sendVersion = "waiting"
     /\ \/ /\ HasMessage(r, "VerAck")
           /\ Silently(e, [Dequeue(r, "VerAck") EXCEPT !.sendVersion = "done"])
        \/ \E err \in WaitErrors(e, "VerAck") :
             Silently(e, [HandshakeError(r, err) EXCEPT !.sendVersion = "failed"])
     /\ UNCHANGED <<peers, banned>>

\* Mutant of AddToPeers: a peer with the same ID is replaced.
AddToPeersAnyway(e) ==
  LET r == end[e]
  IN /\ r.main = "handshake" /\ r.receiveVersion = "done" /\ r.sendVersion = "done"
     /\ Silently(e, [r EXCEPT !.main = "register"])
     /\ peers' = [peers EXCEPT ![e[2]] = e[1]]
     /\ UNCHANGED banned

\* HandleHandshake when both goroutines are done: AddToPeers.
AddToPeers(e) ==
  LET r == end[e]
  IN /\ r.main = "handshake" /\ r.receiveVersion = "done" /\ r.sendVersion = "done"
     /\ IF peers[e[2]] # NoConnection
        THEN /\ Silently(e, [AfterError(r, ProtocolError) EXCEPT !.main = "done"])
             /\ UNCHANGED peers
        ELSE /\ Silently(e, [r EXCEPT !.main = "register"])
             /\ peers' = [peers EXCEPT ![e[2]] = e[1]]
     /\ UNCHANGED banned

\* HandleHandshake when one failed.  An invalid message, if there was one, is the
\* error that counts when the handshake only saw its routes closed.
HandshakeFails(e) ==
  LET r == end[e]
      err == IF r.error # NoError /\ r.failure = ErrRouteClosed THEN r.error ELSE r.failure
  IN /\ r.main = "handshake" /\ r.failure # NoError
     /\ Only(e, [AfterError(r, err) EXCEPT !.main = "done"])
     /\ Ban(e, err)
     /\ UNCHANGED peers

\* Leaving routerInitializer after AddToPeers: the deferred RemoveFromPeers.
RemoveFromPeers(e) == peers' = [peers EXCEPT ![e[2]] = NoConnection]

\* Mutant of Register: the node says it is ready, and registers its flows after that.
RegisterLate(e) ==
  /\ \/ /\ end[e].main = "register"
        /\ Sends(e, "Ready", [end[e] EXCEPT !.main = "wait ready"])
     \/ /\ end[e].main = "wait ready"
        /\ Silently(e, AddIncomingRoute(end[e], FlowCommands))
  /\ UNCHANGED <<peers, banned>>

\* v5.Register, and the first half of HandleReady.
Register(e) ==
  LET r == AddIncomingRoute(end[e], FlowCommands)
  IN /\ end[e].main = "register"
     /\ IF r.closed
        THEN Silently(e, [AfterError(r, ErrRouteClosed) EXCEPT !.main = "done"]) /\ RemoveFromPeers(e)
        ELSE Sends(e, "Ready", [r EXCEPT !.main = "wait ready"]) /\ UNCHANGED peers
     /\ UNCHANGED banned

\* HandleReady, second half, removeHandshakeRoutes, and runFlows, which spawns the flows.
runFlows(e) ==
  LET r == end[e]
  IN /\ r.main = "wait ready" /\ HasMessage(r, "Ready")
     /\ Silently(e, [RemoveRoute(Dequeue(r, "Ready"), Handshake) EXCEPT
                       !.running = setting.flows, !.main = "flows"])
     /\ UNCHANGED <<peers, banned>>

ReadyFails(e) ==
  LET r == end[e]
  IN /\ r.main = "wait ready"
     /\ \E err \in WaitErrors(e, "Ready") : Silently(e, [AfterError(r, err) EXCEPT !.main = "done"])
     /\ RemoveFromPeers(e)
     /\ UNCHANGED banned

\* runFlows returns the first error, and handleError deals with it.
FlowsFail(e) ==
  LET r == end[e]
  IN /\ r.main = "flows" /\ r.error # NoError
     /\ Only(e, [AfterError(r, r.error) EXCEPT !.main = "wait flows"])
     /\ Ban(e, r.error)
     /\ UNCHANGED peers

FlowsEnd(e) ==
  /\ end[e].main = "wait flows" /\ end[e].running = {}
  /\ Silently(e, [end[e] EXCEPT !.main = "done"])
  /\ RemoveFromPeers(e)
  /\ UNCHANGED banned

-----------------------------------------------------------------------------
(* The flows.                                                               *)

\* A flow returns: a one-time flow unregisters its routes, an error is handled.
Return(r, f, err) ==
  LET left == [RemoveRoute(r, IF f \in OneTimeFlows THEN FlowRoutes[f] ELSE {}) EXCEPT
                 !.running = @ \ {f}, !.waiting = @ \ {f}]
  IN IF err = NoError THEN left ELSE HandleError(left, err)

\* Flows that answer every message of a kind with another.
Answers == [SendAddresses |-> <<"RequestAddresses", "Addresses">>,
            ReceivePings |-> <<"Ping", "Pong">>]

Answer(e, f) ==
  LET r == end[e]
  IN /\ f \in r.running /\ HasMessage(r, Answers[f][1])
     /\ IF r.closed THEN Silently(e, Return(Dequeue(r, Answers[f][1]), f, ErrRouteClosed))
        ELSE Sends(e, Answers[f][2], Dequeue(r, Answers[f][1]))
     /\ UNCHANGED <<peers, banned>>

\* Flows that send a request and wait for its answer: ReceiveAddresses once, SendPings
\* whenever its ticker ticks; until then it notices nothing, but for the node's shutdown,
\* which is left out.  The other node runs the same code: a pong has the nonce of its ping,
\* and SendAddresses keeps to MaxAddressesPerMsg, which is below GetAddressesMax, so that
\* no answer is one to ban for.
Requests == [ReceiveAddresses |-> <<"RequestAddresses", "Addresses">>,
             SendPings |-> <<"Ping", "Pong">>]

SendRequest(e, f) ==
  LET r == end[e]
  IN /\ f \in r.running \ r.waiting
     /\ IF r.closed THEN Silently(e, Return(r, f, ErrRouteClosed))
        ELSE Sends(e, Requests[f][1], [r EXCEPT !.waiting = @ \cup {f}])
     /\ UNCHANGED <<peers, banned>>

ReceiveAnswer(e, f) ==
  LET r == end[e]
      m == Requests[f][2]
  IN /\ f \in r.waiting
     /\ \/ /\ HasMessage(r, m)
           /\ Silently(e, IF f \in OneTimeFlows THEN Return(Dequeue(r, m), f, NoError)
                          ELSE [Dequeue(r, m) EXCEPT !.waiting = @ \ {f}])
        \/ \E err \in WaitErrors(e, m) : Silently(e, Return(r, f, err))
     /\ UNCHANGED <<peers, banned>>

\* SendVirtualSelectedParentInv, which says nothing while the genesis is the selected parent.
Announce(e) ==
  LET f == "SendVirtualSelectedParentInv"
      r == end[e]
  IN /\ f \in r.running
     /\ \/ Silently(e, Return(r, f, NoError))
        \/ Sends(e, "InvRelayBlock", Return(r, f, EnqueueError(r)))
     /\ UNCHANGED <<peers, banned>>

\* HandleRelayInvs receives an announcement.
ReceiveInv(e) ==
  /\ "HandleRelayInvs" \in end[e].running /\ HasMessage(end[e], "InvRelayBlock")
  /\ Silently(e, Dequeue(end[e], "InvRelayBlock"))
  /\ UNCHANGED <<peers, banned>>

\* HandleRejects.
ReceiveReject(e) ==
  /\ "HandleRejects" \in end[e].running /\ HasMessage(end[e], "Reject")
  /\ Silently(e, Return(Dequeue(end[e], "Reject"), "HandleRejects", ProtocolError))
  /\ UNCHANGED <<peers, banned>>

\* The flows that wait for a message without a timeout see their route closed.
\* They end one by one; as they do nothing else, one step stands for all of them.
FlowsSeeClosedRoute(e) ==
  LET r == end[e]
      waits == {f \in r.running \ DOMAIN Requests :
                  FlowRoutes[f] # {} /\ \A m \in FlowRoutes[f] : IsShut(r, m)}
  IN /\ waits # {}
     /\ Silently(e, HandleError([r EXCEPT !.running = @ \ waits], ErrRouteClosed))
     /\ UNCHANGED <<peers, banned>>

\* P2PBroadcast, for a connection: an error of a closed route is passed over.
P2PBroadcast(e) ==
  /\ end[e].announced < setting.broadcasts
  /\ Sends(e, "InvRelayBlock", [end[e] EXCEPT !.announced = @ + 1])

\* FlowContext.Broadcast of a new block to all peers.
Broadcast(n) ==
  /\ peers[n] # NoConnection
  /\ P2PBroadcast(<<peers[n], n>>)
  /\ UNCHANGED <<peers, banned>>

-----------------------------------------------------------------------------
InitConnections ==
  /\ setting \in Settings
  /\ stream = [c \in Connection |-> "none"]
  /\ wire = [e \in End |-> <<>>]
  /\ end = [e \in End |-> NoEnd]
  /\ p2pConnections = [n \in Node |-> {}]
  /\ peers = [n \in Node |-> NoConnection]
  /\ banned = setting.banned
  /\ disturbances = 0

\* The steps of the gRPC connection of an end.
LoopStep(e) ==
  \/ sendLoop(e) \/ receiveLoop(e) \/ receiveLoopEnds(e)
  \/ closeSend(e)

\* The steps of the protocol manager for an end.
MainStep(e) ==
  \/ routerInitializer(e) \/ ReceiveVersion(e) \/ SendVersion(e) \/ AddToPeers(e)
  \/ HandshakeFails(e) \/ Register(e) \/ runFlows(e) \/ ReadyFails(e)
  \/ FlowsFail(e) \/ FlowsEnd(e)

FlowStep(e) ==
  \/ \E f \in DOMAIN Answers : Answer(e, f)
  \/ \E f \in DOMAIN Requests : SendRequest(e, f) \/ ReceiveAnswer(e, f)
  \/ Announce(e) \/ ReceiveInv(e) \/ ReceiveReject(e) \/ FlowsSeeClosedRoute(e)

EndStep(e) == LoopStep(e) \/ MainStep(e) \/ FlowStep(e)

NextConnections ==
  \/ \E c \in Connection :
       \/ (\A d \in 1..(c - 1) : stream[d] # "none") /\ Connect(c)
       \/ handleInboundConnection(c) \/ inboundHandlerReturns(c) \/ NetworkError(c)
  \/ \E e \in End : EndStep(e) \/ Drop(e)
  \/ \E n \in Node : Broadcast(n)

-----------------------------------------------------------------------------
(* Properties.                                                              *)

\* Nodes that run the same code do not ban each other for the messages of their flows: a
\* node sends the first of them after it was told that the other has its routes (the
\* ready messages of HandleReady).  A message that meets no route is an announcement that
\* was broadcast to the peer between AddToPeers and the end of its handshake, or the
\* reject that follows a ban.
NoFlowMessageIsEarly ==
  \A e \in End :
    /\ end[e].refused \in {"none", "InvRelayBlock", "Reject"}
    /\ end[e].refused = "InvRelayBlock" => end[Other(e)].announced > 0
    /\ end[e].refused = "Reject" => Other(e)[2] \in banned

\* The peers of a node are the connections whose goroutine is between AddToPeers and its
\* end, whatever order two connections to the same node fail in: the one that came
\* second neither takes the place of the first nor removes it.
PeersExact ==
  \A e \in End :
    (peers[e[2]] = e[1]) = (end[e].main \in {"register", "wait ready", "flows", "wait flows"})

\* A connection that was closed at one end, or broken, is taken down at both: as long as
\* an end has a goroutine left, one of the two can go on.  Without pings an end that is
\* closed by the node that dialled can wait for ever for the stream to be let go.
NoEndIsStuck ==
  "SendPings" \in setting.flows =>
    \A c \in Connection :
      LET ends == {<<c, n>> : n \in Node}
      IN (stream[c] = "ended" \/ \E e \in ends : end[e] # NoEnd /\ end[e].closed)
         /\ (\E e \in ends : end[e].main # "gone")
           => ENABLED (handleInboundConnection(c) \/ inboundHandlerReturns(c)
                       \/ \E e \in ends : EndStep(e))
=============================================================================
