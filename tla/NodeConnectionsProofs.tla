------------------------ MODULE NodeConnectionsProofs ------------------------
(***************************************************************************)
(* What holds of the connections of a node for every number of connections  *)
(* and broadcasts, every set of flows, all addresses and all bounds.         *)
(***************************************************************************)
EXTENDS NodeConnections, TLAPS

-----------------------------------------------------------------------------
(* The connection manager.  A connection the node made itself belongs to a  *)
(* request, to the outgoing connections, or to a request that was put back. *)
(* An iteration takes its snapshot before it looks at the requests, so that *)
(* the connections of the snapshot that are still unclassified before each  *)
(* of its steps are those the earlier ones had no claim on.                  *)

Request == [isPermanent : BOOLEAN, due : BOOLEAN]
Owned == DOMAIN activeRequested \cup activeOutgoing \cup putBack

ManagerTypes ==
  /\ events \in Nat
  /\ activeRequested \in [DOMAIN activeRequested -> Request]
  /\ pendingRequested \in [DOMAIN pendingRequested -> Request]
  /\ DOMAIN activeRequested \cap DOMAIN pendingRequested = {}

Ownership ==
  /\ \A c \in connected : c.outbound => c.address \in Owned
  /\ loop = "requested" =>
       /\ \A c \in connSet : c.outbound => c.address \in Owned
       /\ \A c \in connected : c.outbound => c.address \in addressesOf(connSet)
  /\ loop = "outgoing" =>
       /\ \A c \in connSet : c.outbound => c.address \in activeOutgoing \cup putBack
       /\ \A c \in connected : c.outbound =>
            c.address \in DOMAIN activeRequested \cup putBack
                          \cup (activeOutgoing \cap addressesOf(connSet))
  /\ loop = "incoming" => \A c \in connSet : c.outbound => c.address \in putBack

ManagerIInv == ManagerTypes /\ Ownership

\* When the node starts its requests are the configured peers, and it has no connection.
LEMMA InitManagerIInv == InitManager => ManagerIInv
<1> SUFFICES ASSUME InitManager PROVE ManagerIInv
  OBVIOUS
<1>1. NewRequest(TRUE) \in Request
  BY DEF NewRequest, Request
<1>2. ManagerTypes
  <2>1. activeRequested \in [{} -> Request] /\ DOMAIN activeRequested = {}
    BY DEF InitManager
  <2>2. pendingRequested \in [AddPeers -> Request] /\ DOMAIN pendingRequested = AddPeers
    BY <1>1, Zenon DEF InitManager
  <2>3. events \in Nat
    BY DEF InitManager
  <2> QED
    BY <2>1, <2>2, <2>3 DEF ManagerTypes
<1>3. Ownership
  BY DEF InitManager, Ownership
<1> QED
  BY <1>2, <1>3 DEF ManagerIInv

\* A connection has the address that was dialled for it.
LEMMA MadeAddress == \A a : Made(a, TRUE).address = a
BY DEF Made

\* checkRequestedConnections takes every connection of a request that is alive or due out
\* of the snapshot, closes none, and keeps the permanent requests, active or pending.
LEMMA RequestedStep ==
  ASSUME ManagerIInv, checkRequestedConnections
  PROVE  /\ ManagerIInv'
         /\ open \subseteq open'
         /\ \A a : isPermanent(a) => isPermanent(a)'
<1> DEFINE present == addressesOf(connSet)
           alive == DOMAIN activeRequested \cap present
           again == {a \in DOMAIN activeRequested \ alive : activeRequested[a].isPermanent}
           pending == [a \in DOMAIN pendingRequested \cup again |->
                         IF a \in again THEN NewRequest(TRUE) ELSE pendingRequested[a]]
           due == {a \in DOMAIN pending : pending[a].due}
           found == due \cap (present \ alive)
           Becomes(failed, dialled) ==
             /\ activeRequested' = [a \in alive \cup dialled |->
                                      IF a \in dialled THEN pending[a] ELSE activeRequested[a]]
             /\ pendingRequested' =
                  [a \in {b \in DOMAIN pending \ dialled : b \in failed => pending[b].isPermanent} |->
                     IF a \notin failed THEN pending[a] ELSE [pending[a] EXCEPT !.due = FALSE]]
             /\ connected' = connected \cup {Made(a, TRUE) : a \in dialled}
<1>1. PICK visitedAgain \in SUBSET found :
      \E dialled \in SUBSET ((due \ found) \cup visitedAgain) :
        Becomes(((due \ found) \cup visitedAgain) \ dialled, dialled)
  BY Zenon DEF checkRequestedConnections
<1>2. PICK dialled \in SUBSET ((due \ found) \cup visitedAgain) :
        Becomes(((due \ found) \cup visitedAgain) \ dialled, dialled)
  BY <1>1, Zenon
<1>3. NewRequest(TRUE) \in Request
  BY DEF NewRequest, Request
<1>4. \A a \in DOMAIN pending : pending[a] \in Request
  BY <1>3, Zenon DEF ManagerIInv, ManagerTypes
<1>5. \A r \in Request : [r EXCEPT !.due = FALSE] \in Request
  BY Zenon DEF Request
<1>6. dialled \subseteq DOMAIN pending
  BY Zenon
<1>7. alive \cap DOMAIN pending = {}
  BY DEF ManagerIInv, ManagerTypes
<1>8. activeRequested' \in [DOMAIN activeRequested' -> Request]
  BY <1>2, <1>4, <1>6, Zenon DEF ManagerIInv, ManagerTypes
<1>9. pendingRequested' \in [DOMAIN pendingRequested' -> Request]
  <2> HIDE DEF pending, alive, found, due
  <2> QED BY <1>2, <1>4, <1>5
<1>10. DOMAIN activeRequested' \cap DOMAIN pendingRequested' = {}
  <2> HIDE DEF pending, alive, found, due
  <2> QED BY <1>2, <1>6, <1>7
<1>11. events' \in Nat
  BY Zenon DEF checkRequestedConnections, ManagerIInv, ManagerTypes
<1>12. ManagerTypes'
  BY <1>8, <1>9, <1>10, <1>11 DEF ManagerTypes
<1>13. /\ loop = "requested" /\ loop' = "outgoing"
       /\ connSet' = without(connSet, alive \cup due)
       /\ putBack' = putBack \cup found
       /\ activeOutgoing' = activeOutgoing
  BY ZenonT(30) DEF checkRequestedConnections
<1>14. DOMAIN activeRequested' = alive \cup dialled
  BY <1>2
<1>15. \A c \in connected' : c \in connected \/ c.address \in dialled
  BY <1>2, MadeAddress, Zenon
<1>16. dialled \subseteq due
  BY Zenon
<1>17. open \subseteq open'
  <2>1. connected \subseteq connected'
    BY <1>2, Zenon
  <2>2. closing' = closing
    BY Zenon DEF checkRequestedConnections
  <2> QED
    BY <2>1, <2>2, Zenon DEF open
<1>18. present = {c.address : c \in connSet} /\ alive = DOMAIN activeRequested \cap present
  BY DEF addressesOf
<1>19. /\ \A c \in connSet : c.outbound => c.address \in Owned
       /\ \A c \in connected : c.outbound => c.address \in Owned /\ c.address \in present
  BY <1>13 DEF ManagerIInv, Ownership
<1>20. found = due \cap (present \ alive)
  OBVIOUS
<1>21. Ownership'
  <2> HIDE DEF present, alive, again, pending, due, found
  <2>1. \A c \in connSet' : c \in connSet /\ c.address \notin alive \cup due
    BY <1>13 DEF without
  <2>2. \A c \in connSet' : c.outbound => c.address \in (activeOutgoing \cup putBack)'
    BY <1>13, <1>18, <1>19, <2>1 DEF Owned
  <2>3. ASSUME NEW c \in connected', c.outbound
        PROVE  c.address \in (DOMAIN activeRequested \cup putBack
                              \cup (activeOutgoing \cap addressesOf(connSet)))'
    <3>1. CASE c.address \in alive \cup dialled
      BY <3>1, <1>14
    <3>2. CASE c.address \notin alive \cup dialled
      <4>1. c \in connected
        BY <3>2, <1>15
      <4>2. c.address \in activeOutgoing \cup putBack /\ c.address \in present \ alive
        BY <4>1, <3>2, <2>3, <1>18, <1>19 DEF Owned
      <4>3. CASE c.address \in due
        BY <4>2, <4>3, <1>13, <1>20
      <4>4. CASE c.address \notin due
        <5>1. PICK d \in connSet : d.address = c.address
          BY <4>2, <1>18
        <5>2. d \in connSet'
          BY <5>1, <4>2, <4>4, <1>13 DEF without
        <5>3. c.address \in addressesOf(connSet')
          BY <5>1, <5>2 DEF addressesOf
        <5> QED
          BY <5>3, <4>2, <1>13, Zenon DEF addressesOf
      <4> QED
        BY <4>3, <4>4
    <3> QED
      BY <3>1, <3>2
  <2> QED
    BY <2>2, <2>3, <1>13, Zenon DEF Ownership, Owned
<1>22. ASSUME NEW a, isPermanent(a) PROVE isPermanent(a)'
  <2>1. CASE a \in alive
    <3>1. a \notin dialled
      BY <2>1, <1>6, <1>7, Zenon
    <3>2. a \in DOMAIN activeRequested' /\ activeRequested'[a] = activeRequested[a]
      BY <2>1, <3>1, <1>2
    <3> QED
      BY <2>1, <3>2, <1>22, <1>18 DEF isPermanent
  <2>2. CASE a \notin alive
    <3>1. a \in DOMAIN pending /\ pending[a].isPermanent
      <4>1. CASE a \in DOMAIN activeRequested
        <5>1. a \in again
          BY <4>1, <2>2, <1>22 DEF isPermanent
        <5> QED
          BY <5>1 DEF NewRequest
      <4>2. CASE a \notin DOMAIN activeRequested
        BY <4>2, <1>22 DEF isPermanent
      <4> QED
        BY <4>1, <4>2, Zenon
    <3> HIDE DEF present, alive, again, pending, due, found
    <3>2. CASE a \in dialled
      <4>1. a \in DOMAIN activeRequested' /\ activeRequested'[a] = pending[a]
        BY <3>2, <1>2
      <4> QED
        BY <4>1, <3>1 DEF isPermanent
    <3>3. CASE a \notin dialled
      <4>1. a \notin DOMAIN activeRequested'
        BY <3>3, <2>2, <1>14
      <4>2. a \in DOMAIN pendingRequested'
        BY <3>1, <3>3, <1>2
      <4>3. pending[a] \in Request
        BY <3>1, <1>4
      <4>4. pendingRequested'[a].isPermanent
        BY <4>2, <4>3, <3>1, <1>2 DEF Request
      <4> QED
        BY <4>1, <4>2, <4>4 DEF isPermanent
    <3> QED
      BY <3>2, <3>3
  <2> QED
    BY <2>1, <2>2
<1> QED
  BY <1>12, <1>17, <1>21, <1>22 DEF ManagerIInv

\* checkOutgoingConnections remembers what it dials, and takes the outgoing connections
\* that are alive out of the snapshot.
LEMMA OutgoingStep ==
  ASSUME ManagerIInv, checkOutgoingConnections
  PROVE  ManagerIInv' /\ open \subseteq open' /\ UNCHANGED requestVars
<1> DEFINE alive == activeOutgoing \cap addressesOf(connSet)
<1>1. PICK dialled :
        /\ activeOutgoing' = alive \cup dialled
        /\ connected' = connected \cup {Made(a, TRUE) : a \in dialled}
  BY Zenon DEF checkOutgoingConnections
<1>2. /\ loop = "outgoing" /\ loop' = "incoming"
      /\ connSet' = without(connSet, alive)
      /\ UNCHANGED <<closing, requestVars, events>>
  BY DEF checkOutgoingConnections
<1>3. ManagerTypes'
  BY <1>2 DEF ManagerIInv, ManagerTypes, requestVars
<1>4. connected \subseteq connected' /\ \A c \in connected' : c \in connected \/ c.address \in dialled
  BY <1>1, MadeAddress, Zenon
<1>5. \A c \in connected' : c.outbound => c.address \in Owned'
  BY <1>1, <1>2, <1>4, Zenon DEF ManagerIInv, Ownership, Owned, requestVars
<1>6. \A c \in connSet' : c.outbound => c.address \in putBack'
  BY <1>2 DEF ManagerIInv, Ownership, without, addressesOf, requestVars
<1>7. open \subseteq open'
  BY <1>2, <1>4, Zenon DEF open
<1> QED
  BY <1>2, <1>3, <1>5, <1>6, <1>7, Zenon DEF ManagerIInv, Ownership

\* The snapshot holds a connection of every address.
LEMMA StartStep ==
  ASSUME ManagerIInv, StartIteration
  PROVE  ManagerIInv' /\ open' = open /\ UNCHANGED requestVars
<1>1. UNCHANGED <<connected, closing, requestVars, activeOutgoing, events>>
  BY DEF StartIteration
<1>2. ManagerTypes' /\ Owned' = Owned
  BY <1>1 DEF ManagerIInv, ManagerTypes, Owned, requestVars
<1>3. CASE loop' = "ended"
  BY <1>1, <1>2, <1>3 DEF ManagerIInv, Ownership, open
<1>4. CASE loop' = "requested"
  <2>1. PICK one \in [addressesOf(connected) -> connected] :
          /\ \A a \in DOMAIN one : one[a].address = a
          /\ connSet' = {one[a] : a \in DOMAIN one}
    BY <1>4 DEF StartIteration
  <2>2. connSet' \subseteq connected
    BY <2>1
  <2>3. ASSUME NEW c \in connected PROVE c.address \in addressesOf(connSet')
    <3>1. c.address \in DOMAIN one
      BY <2>1 DEF addressesOf
    <3>2. one[c.address] \in connSet' /\ one[c.address].address = c.address
      BY <2>1, <3>1
    <3> QED
      BY <3>2 DEF addressesOf
  <2>4. \A c \in connected' : c.outbound => c.address \in addressesOf(connSet)'
    BY <1>1, <2>3 DEF addressesOf
  <2> QED
    BY <1>1, <1>2, <1>4, <2>2, <2>4 DEF ManagerIInv, Ownership, open
<1> QED
  BY <1>1, <1>3, <1>4 DEF StartIteration, open

\* checkIncomingConnections closes only connections that no earlier step claimed.
LEMMA IncomingStep ==
  ASSUME ManagerIInv, checkIncomingConnections
  PROVE  /\ ManagerIInv' /\ UNCHANGED requestVars
         /\ \A c \in open \ open' : c.outbound => c.address \in putBack
<1>1. /\ loop = "incoming" /\ loop' = "wait"
      /\ UNCHANGED <<connected, requestVars, activeOutgoing, events>>
  BY DEF checkIncomingConnections
<1>2. PICK dropped \in SUBSET connSet : closing' = closing \cup (dropped \cap connected)
  BY DEF checkIncomingConnections
<1>3. ManagerTypes' /\ Owned' = Owned
  BY <1>1 DEF ManagerIInv, ManagerTypes, Owned, requestVars
<1>4. Ownership'
  BY <1>1, <1>3 DEF ManagerIInv, Ownership
<1>5. open \ open' \subseteq connSet
  BY <1>1, <1>2 DEF open
<1> QED
  BY <1>1, <1>3, <1>4, <1>5 DEF ManagerIInv, Ownership

\* Steps that leave the loop where it is, the snapshot, and what the loop keeps track of
\* alone, and add no connection that the node made.
LEMMA OutsideStep ==
  ASSUME ManagerIInv, ManagerTypes',
         UNCHANGED <<activeRequested, putBack, activeOutgoing, connSet>>,
         loop' \in {loop, "top"},
         \A c \in connected' : c.outbound => c \in connected
  PROVE  ManagerIInv'
<1>1. Owned' = Owned /\ addressesOf(connSet)' = addressesOf(connSet)
  BY DEF Owned, addressesOf
<1> QED
  BY <1>1 DEF ManagerIInv, Ownership

\* The node starts again: what it kept track of is gone, and so are its connections.
LEMMA RestartStep == ASSUME ManagerIInv, Restart PROVE ManagerIInv'
<1>1. NewRequest(TRUE) \in Request
  BY DEF NewRequest, Request
<1>2. activeRequested' \in [{} -> Request] /\ DOMAIN activeRequested' = {}
  BY DEF Restart
<1>3. pendingRequested' \in [AddPeers -> Request] /\ DOMAIN pendingRequested' = AddPeers
  BY <1>1, Zenon DEF Restart
<1>4. events' \in Nat
  BY DEF Restart, Event, ManagerIInv, ManagerTypes
<1>5. ManagerTypes'
  BY <1>2, <1>3, <1>4 DEF ManagerTypes
<1>6. Ownership'
  BY DEF Restart, Ownership
<1> QED
  BY <1>5, <1>6 DEF ManagerIInv

\* A step of an iteration or of the time, which no event from outside and no Stop is.
LoopStays ==
  (events' = events /\ stop' = stop) =>
    /\ \A c \in open \ open' : c.outbound => c.address \in putBack
    /\ \A a \in Address : isPermanent(a) => isPermanent(a)'

\* Every step of the connection manager keeps the bookkeeping of its loop, and no
\* iteration closes a connection or forgets a permanent request that is not its to drop.
LEMMA NextManagerIInv ==
  ASSUME ManagerIInv, NextManager PROVE ManagerIInv' /\ LoopStays
<1> USE DEF ManagerIInv, ManagerTypes
<1>1. CASE StartIteration
  <2>1. ManagerIInv' /\ open' = open /\ UNCHANGED requestVars
    BY <1>1, StartStep
  <2> QED
    BY <2>1 DEF LoopStays, isPermanent, requestVars
<1>2. CASE checkRequestedConnections
  <2>1. ManagerIInv' /\ open \subseteq open' /\ \A a : isPermanent(a) => isPermanent(a)'
    BY <1>2, RequestedStep
  <2> QED
    BY <2>1 DEF LoopStays
<1>3. CASE checkOutgoingConnections
  <2>1. ManagerIInv' /\ open \subseteq open' /\ UNCHANGED requestVars
    BY <1>3, OutgoingStep
  <2> QED
    BY <2>1 DEF LoopStays, isPermanent, requestVars
<1>4. CASE checkIncomingConnections
  <2>1. /\ ManagerIInv' /\ UNCHANGED requestVars
        /\ \A c \in open \ open' : c.outbound => c.address \in putBack
    BY <1>4, IncomingStep
  <2> QED
    BY <2>1 DEF LoopStays, isPermanent, requestVars
<1>5. CASE waitTillNextIteration
  <2>1. UNCHANGED <<connected, closing, requestVars, activeOutgoing, connSet, events>> /\ loop' = "top"
    BY <1>5 DEF waitTillNextIteration
  <2>2. ManagerIInv'
    BY <2>1, OutsideStep DEF requestVars
  <2> QED
    BY <2>1, <2>2 DEF LoopStays, isPermanent, requestVars, open
<1>6. ASSUME NEW a \in Address, NEW permanent \in BOOLEAN, AddConnectionRequest(a, permanent)
      PROVE  ManagerIInv' /\ events' # events
  <2>1. NewRequest(permanent) \in Request
    BY DEF NewRequest, Request
  <2>2. UNCHANGED <<activeRequested, putBack, activeOutgoing, connSet, loop, connected>>
    BY <1>6 DEF AddConnectionRequest
  <2>3. events' \in Nat /\ events' # events
    BY <1>6 DEF AddConnectionRequest, Event
  <2>4. /\ pendingRequested' \in [DOMAIN pendingRequested' -> Request]
        /\ DOMAIN activeRequested' \cap DOMAIN pendingRequested' = {}
    <3>1. CASE a \in DOMAIN activeRequested
      BY <3>1, <1>6 DEF AddConnectionRequest
    <3>2. CASE a \notin DOMAIN activeRequested
      <4>1. pendingRequested' = with(pendingRequested, a, NewRequest(permanent))
        BY <3>2, <1>6 DEF AddConnectionRequest
      <4>2. /\ pendingRequested' \in [DOMAIN pendingRequested \cup {a} -> Request]
            /\ DOMAIN pendingRequested' = DOMAIN pendingRequested \cup {a}
        BY <4>1, <2>1 DEF with
      <4> QED
        BY <4>2, <3>2, <2>2
    <3> QED
      BY <3>1, <3>2
  <2>5. ManagerTypes'
    BY <2>2, <2>3, <2>4
  <2> QED
    BY <2>2, <2>3, <2>5, OutsideStep
<1>7. ASSUME NEW a \in Address, RetryTime(a)
      PROVE  ManagerIInv' /\ LoopStays
  <2>1. UNCHANGED <<activeRequested, putBack, activeOutgoing, connSet, loop, connected, closing, events>>
    BY <1>7 DEF RetryTime
  <2>2. /\ a \in DOMAIN pendingRequested
        /\ pendingRequested' = [pendingRequested EXCEPT ![a].due = TRUE]
    BY <1>7 DEF RetryTime
  <2>3. /\ pendingRequested' \in [DOMAIN pendingRequested -> Request]
        /\ DOMAIN pendingRequested' = DOMAIN pendingRequested
        /\ \A b \in DOMAIN pendingRequested :
             pendingRequested'[b].isPermanent = pendingRequested[b].isPermanent
    BY <2>2, Zenon DEF Request
  <2>4. ManagerTypes'
    BY <2>1, <2>3
  <2>5. ManagerIInv'
    BY <2>1, <2>4, OutsideStep
  <2>6. \A b : isPermanent(b) => isPermanent(b)'
    BY <2>1, <2>3 DEF isPermanent
  <2> QED
    BY <2>1, <2>5, <2>6 DEF LoopStays, open
<1>8. ASSUME NEW a \in Address \cup Inbound, Accept(a)
      PROVE  ManagerIInv' /\ events' # events
  <2>1. UNCHANGED <<requestVars, activeOutgoing, connSet, loop>>
    BY <1>8 DEF Accept
  <2>2. events' \in Nat /\ events' # events
    BY <1>8 DEF Accept, Event
  <2>3. \A c \in connected' : c.outbound => c \in connected
    <3>1. ~Made(a, FALSE).outbound
      BY DEF Made
    <3>2. connected' = connected \cup {Made(a, FALSE)}
      BY <1>8, Zenon DEF Accept
    <3> QED
      BY <3>1, <3>2, Zenon
  <2>4. ManagerTypes'
    BY <2>1, <2>2 DEF requestVars
  <2> QED
    BY <2>1, <2>2, <2>3, <2>4, OutsideStep DEF requestVars
<1>9. ASSUME NEW c \in connected, Lose(c) \/ BanPeer(c)
      PROVE  ManagerIInv' /\ events' # events
  <2>1. UNCHANGED <<requestVars, activeOutgoing, connSet, loop>> /\ connected' \subseteq connected
    BY <1>9 DEF Lose, BanPeer
  <2>2. events' \in Nat /\ events' # events
    BY <1>9 DEF Lose, BanPeer, Event
  <2>3. ManagerTypes'
    BY <2>1, <2>2 DEF requestVars
  <2> QED
    BY <2>1, <2>2, <2>3, OutsideStep DEF requestVars
<1>10. ASSUME NEW ip, BanByIP(ip)
       PROVE  ManagerIInv' /\ events' # events
  <2>1. UNCHANGED <<requestVars, activeOutgoing, connSet, loop>> /\ connected' \subseteq connected
    BY <1>10 DEF BanByIP
  <2>2. events' \in Nat /\ events' # events
    BY <1>10 DEF BanByIP, Event
  <2>3. ManagerTypes'
    BY <2>1, <2>2 DEF requestVars
  <2> QED
    BY <2>1, <2>2, <2>3, OutsideStep DEF requestVars
<1>11. CASE AddressEvent
  <2>1. UNCHANGED <<connected, requestVars, activeOutgoing, connSet, loop>>
    BY <1>11 DEF AddressEvent
  <2>2. events' \in Nat /\ events' # events
    BY <1>11 DEF AddressEvent, Event
  <2>3. ManagerTypes'
    BY <2>1, <2>2 DEF requestVars
  <2>4. ManagerIInv'
    BY <2>1, <2>3, OutsideStep DEF requestVars
  <2> QED
    BY <2>2, <2>4 DEF LoopStays
<1>12. CASE Stop
  <2>1. /\ UNCHANGED <<connected, requestVars, activeOutgoing, connSet, loop, events>>
        /\ stop' # stop
    BY <1>12 DEF Stop
  <2>2. ManagerTypes'
    BY <2>1 DEF requestVars
  <2>3. ManagerIInv'
    BY <2>1, <2>2, OutsideStep DEF requestVars
  <2> QED
    BY <2>1, <2>3 DEF LoopStays
<1>13. CASE Restart
  <2>1. events' # events
    BY <1>13 DEF Restart, Event
  <2> QED
    BY <1>13, <2>1, RestartStep DEF LoopStays
<1>14. ASSUME NEW c \in connected, onDisconnectedHandler(c)
       PROVE  ManagerIInv' /\ LoopStays
  <2>1. /\ UNCHANGED <<requestVars, activeOutgoing, connSet, loop, events>>
        /\ c \in closing /\ connected' = connected \ {c} /\ closing' = closing \ {c}
    BY <1>14 DEF onDisconnectedHandler
  <2>2. ManagerTypes'
    BY <2>1 DEF requestVars
  <2>3. ManagerIInv'
    BY <2>1, <2>2, OutsideStep DEF requestVars
  <2>4. open' = open
    BY <2>1 DEF open
  <2> QED
    BY <2>1, <2>3, <2>4 DEF LoopStays, isPermanent, requestVars
<1> QED
  BY <1>1, <1>2, <1>3, <1>4, <1>5, <1>6, <1>7, <1>8, <1>9, <1>10, <1>11, <1>12, <1>13, <1>14
  DEF NextManager, LoopStays

\* The bookkeeping of the loop holds whatever else happens to the connections of the node.
LEMMA ManagerIInvHolds == Spec => []ManagerIInv
<1>1. Init => ManagerIInv
  BY InitManagerIInv DEF Init
<1>2. ManagerIInv /\ [Next]_vars => ManagerIInv'
  <2> SUFFICES ASSUME ManagerIInv, [Next]_vars PROVE ManagerIInv'
    OBVIOUS
  <2>1. CASE NextManager
    BY <2>1, NextManagerIInv
  <2>2. CASE UNCHANGED managerVars
    BY <2>2 DEF managerVars, ManagerIInv, ManagerTypes, Ownership, Owned, addressesOf
  <2> QED
    BY <2>1, <2>2 DEF Next, vars
<1> QED
  BY <1>1, <1>2, PTL DEF Spec

\* An iteration of the connection manager's loop disconnects only connections other nodes
\* made, or whose request was put back, and keeps trying every permanent request, however
\* many connections come and go and requests are made between its steps.
THEOREM LoopKeepsConnections == Spec => LoopKeepsItsConnections
<1>1. ManagerIInv /\ [Next]_vars => [LoopStays]_managerVars
  BY NextManagerIInv DEF Next, vars
<1> QED
  BY <1>1, ManagerIInvHolds, PTL DEF Spec, LoopKeepsItsConnections, LoopStays

-----------------------------------------------------------------------------
(* Sequences of messages.                                                   *)

In(m, w) == \E i \in 1..Len(w) : w[i] = m
Once(m, w) == \A i, j \in 1..Len(w) : w[i] = m /\ w[j] = m => i = j
ReadyIsLast(w) == \A i, j \in 1..Len(w) : i < j /\ w[i] = "Ready" => w[j] \notin Handshake

\* The routes of the handshake are those of its three messages.
LEMMA HandshakeMessages == Handshake = {"Version", "VerAck", "Ready"}
<1>1. DOMAIN HandshakeRoutes = {"ReceiveVersion", "SendVersion", "ReceiveReady"}
  BY DEF HandshakeRoutes
<1>2. Handshake = HandshakeRoutes["ReceiveVersion"] \cup HandshakeRoutes["SendVersion"]
                  \cup HandshakeRoutes["ReceiveReady"]
  BY <1>1 DEF Handshake
<1> QED
  BY <1>2 DEF HandshakeRoutes

\* A message that is put behind the others.
LEMMA AppendMessage ==
  ASSUME NEW S, NEW w \in Seq(S), NEW x \in S
  PROVE  /\ Append(w, x) \in Seq(S)
         /\ \A m : In(m, Append(w, x)) <=> In(m, w) \/ m = x
         /\ \A m : Once(m, w) /\ (In(m, w) => m # x) => Once(m, Append(w, x))
         /\ ReadyIsLast(w) /\ (In("Ready", w) => x \notin Handshake) => ReadyIsLast(Append(w, x))
<1> DEFINE v == Append(w, x)
<1>1. /\ v \in Seq(S) /\ Len(v) = Len(w) + 1 /\ Len(w) \in Nat
      /\ v[Len(w) + 1] = x /\ \A i \in 1..Len(w) : v[i] = w[i]
  OBVIOUS
<1> HIDE DEF v
<1>2. \A i \in 1..Len(v) : i \in 1..Len(w) \/ i = Len(w) + 1
  BY <1>1
<1>3. 1..Len(w) \subseteq 1..Len(v) /\ Len(w) + 1 \in 1..Len(v)
  BY <1>1
<1>4. ASSUME NEW m PROVE In(m, v) <=> In(m, w) \/ m = x
  BY <1>1, <1>2, <1>3 DEF In
<1>5. ASSUME NEW m, Once(m, w), In(m, w) => m # x PROVE Once(m, v)
  <2> SUFFICES ASSUME NEW i \in 1..Len(v), NEW j \in 1..Len(v), v[i] = m, v[j] = m PROVE i = j
    BY DEF Once
  <2>1. CASE m = x
    BY <2>1, <1>1, <1>2, <1>5 DEF In
  <2>2. CASE m # x
    BY <2>2, <1>1, <1>2, <1>5 DEF Once
  <2> QED
    BY <2>1, <2>2
<1>6. ASSUME ReadyIsLast(w), In("Ready", w) => x \notin Handshake PROVE ReadyIsLast(v)
  <2> SUFFICES ASSUME NEW i \in 1..Len(v), NEW j \in 1..Len(v), i < j, v[i] = "Ready"
               PROVE  v[j] \notin Handshake
    BY DEF ReadyIsLast
  <2>1. i \in 1..Len(w) /\ w[i] = "Ready"
    BY <1>1, <1>2
  <2> QED
    BY <2>1, <1>1, <1>2, <1>6 DEF ReadyIsLast, In
<1> QED
  BY <1>1, <1>4, <1>5, <1>6 DEF v

\* The first message is taken away.
LEMMA TakeMessage ==
  ASSUME NEW S, NEW w \in Seq(S), w # <<>>
  PROVE  /\ Tail(w) \in Seq(S) /\ Head(w) \in S
         /\ In(Head(w), w)
         /\ \A m : In(m, Tail(w)) => In(m, w)
         /\ \A m : Once(m, w) => Once(m, Tail(w))
         /\ Once(Head(w), w) => ~In(Head(w), Tail(w))
         /\ ReadyIsLast(w) => ReadyIsLast(Tail(w))
         /\ ReadyIsLast(w) /\ Head(w) = "Ready" => \A m \in Handshake : ~In(m, Tail(w))
<1> DEFINE v == Tail(w)
<1>1. /\ v \in Seq(S) /\ Len(w) \in Nat /\ Len(w) > 0 /\ Len(v) = Len(w) - 1
      /\ \A i \in 1..Len(v) : v[i] = w[i + 1]
  OBVIOUS
<1>2. Head(w) = w[1] /\ 1 \in 1..Len(w) /\ w[1] \in S
  BY <1>1
<1> HIDE DEF v
<1>3. \A i \in 1..Len(v) : i + 1 \in 1..Len(w) /\ i \in Nat /\ i + 1 # 1 /\ 1 < i + 1
  BY <1>1
<1>4. \A i, j \in 1..Len(v) : (i + 1 = j + 1 => i = j) /\ (i < j => i + 1 < j + 1)
  BY <1>1
<1>5. \A m : In(m, v) => In(m, w)
  BY <1>1, <1>3 DEF In
<1>6. \A m : Once(m, w) => Once(m, v)
  BY <1>1, <1>3, <1>4 DEF Once
<1>7. Once(Head(w), w) => ~In(Head(w), v)
  BY <1>1, <1>2, <1>3 DEF Once, In
<1>8. ReadyIsLast(w) => ReadyIsLast(v)
  BY <1>1, <1>3, <1>4 DEF ReadyIsLast
<1>9. ReadyIsLast(w) /\ Head(w) = "Ready" => \A m \in Handshake : ~In(m, v)
  BY <1>1, <1>2, <1>3 DEF ReadyIsLast, In
<1> QED
  BY <1>1, <1>2, <1>5, <1>6, <1>7, <1>8, <1>9, Zenon DEF v, In

\* One direction of a connection changes, the other ones stay.
LEMMA OneWire ==
  ASSUME NEW S, NEW q \in [End -> S], NEW e \in End, NEW w \in S, NEW p, p = [q EXCEPT ![e] = w]
  PROVE  p \in [End -> S] /\ p[e] = w /\ \A d \in End : d # e => p[d] = q[d]
OBVIOUS

\* Nothing is in an empty sequence.
LEMMA NoMessages ==
  /\ \A S : <<>> \in Seq(S)
  /\ ReadyIsLast(<<>>) /\ \A m : ~In(m, <<>>) /\ Once(m, <<>>)
BY DEF In, Once, ReadyIsLast

-----------------------------------------------------------------------------
(* The messages that wait in the routes of an end.                          *)

\* What waits in the routes: a message, and how many of it.
Waits(m, B) == m \in DOMAIN B
Counts(B) == B \in [DOMAIN B -> {n \in Nat : n > 0}]
\* C has no more than B; it is B with a copy of m less; with one more.
Less(C, B) == \A k : Waits(k, C) => Waits(k, B) /\ C[k] <= B[k]
Taken(C, B, m) == Less(C, B) /\ (Waits(m, C) => B[m] > 1)
Added(C, B, m) ==
  /\ \A k : Waits(k, C) <=> Waits(k, B) \/ k = m
  /\ \A k : Waits(k, B) /\ k # m => C[k] = B[k]
  /\ ~Waits(m, B) => C[m] = 1

\* Dequeue takes one copy of a message away.
LEMMA TakeOne ==
  ASSUME NEW B, Counts(B), NEW m, Waits(m, B)
  PROVE  Counts(Take(B, m)) /\ Taken(Take(B, m), B, m)
<1> DEFINE C == Take(B, m)
<1>1. \A e \in DOMAIN B : B[e] \in Nat /\ B[e] > 0
  BY DEF Counts
<1>2. CASE B[m] > 1
  <2>1. C = [B EXCEPT ![m] = @ - 1]
    BY <1>2 DEF Take
  <2> HIDE DEF C
  <2>2. DOMAIN C = DOMAIN B /\ \A e \in DOMAIN B : C[e] = IF e = m THEN B[e] - 1 ELSE B[e]
    BY <2>1 DEF Counts
  <2>3. C = [e \in DOMAIN C |-> C[e]]
    BY <2>1, Zenon DEF Counts
  <2>4. Counts(C)
    BY <1>1, <1>2, <2>2, <2>3 DEF Counts
  <2>5. Taken(C, B, m)
    BY <1>1, <1>2, <2>2 DEF Taken, Less, Waits
  <2> QED
    BY <2>4, <2>5 DEF C
<1>3. CASE ~(B[m] > 1)
  <2>1. C = [e \in DOMAIN B \ {m} |-> B[e]]
    BY <1>3 DEF Take, Restrict
  <2> HIDE DEF C
  <2>2. DOMAIN C = DOMAIN B \ {m} /\ \A e \in DOMAIN C : C[e] = B[e]
    BY <2>1
  <2>3. Counts(C)
    BY <1>1, <2>1, <2>2 DEF Counts
  <2>4. Taken(C, B, m)
    BY <1>1, <2>2 DEF Taken, Less, Waits
  <2> QED
    BY <2>3, <2>4 DEF C
<1> QED
  BY <1>2, <1>3

\* EnqueueIncomingMessage adds a copy.
LEMMA PutOne ==
  ASSUME NEW B, Counts(B), NEW m
  PROVE  Counts(Put(B, m)) /\ Added(Put(B, m), B, m)
<1> DEFINE C == Put(B, m)
<1>1. \A e \in DOMAIN B : B[e] \in Nat /\ B[e] > 0
  BY DEF Counts
<1>2. CASE Waits(m, B)
  <2>1. C = [B EXCEPT ![m] = @ + 1]
    BY <1>2 DEF Put, Waits
  <2> HIDE DEF C
  <2>2. DOMAIN C = DOMAIN B /\ \A e \in DOMAIN B : C[e] = IF e = m THEN B[e] + 1 ELSE B[e]
    BY <2>1 DEF Counts
  <2>3. C = [e \in DOMAIN C |-> C[e]]
    BY <2>1, Zenon DEF Counts
  <2>4. Counts(C)
    BY <1>1, <2>2, <2>3 DEF Counts
  <2>5. Added(C, B, m)
    BY <1>2, <2>2 DEF Added, Waits
  <2> QED
    BY <2>4, <2>5 DEF C
<1>3. CASE ~Waits(m, B)
  <2>1. C = [k \in DOMAIN B \cup {m} |-> IF k = m THEN 1 ELSE B[k]]
    BY <1>3 DEF Put, Waits
  <2> HIDE DEF C
  <2>2. DOMAIN C = DOMAIN B \cup {m} /\ \A e \in DOMAIN C : C[e] = IF e = m THEN 1 ELSE B[e]
    BY <2>1
  <2>3. Counts(C)
    BY <1>1, <2>1, <2>2 DEF Counts
  <2>4. Added(C, B, m)
    BY <1>3, <2>2 DEF Added, Waits
  <2> QED
    BY <2>3, <2>4 DEF C
<1> QED
  BY <1>2, <1>3

\* Nothing has more than itself.
LEMMA LessOrSame == ASSUME NEW B, Counts(B) PROVE Less(B, B)
<1>1. \A k \in DOMAIN B : B[k] \in Nat
  BY DEF Counts
<1> QED
  BY <1>1 DEF Less, Waits

\* No message waits in a new end.
LEMMA NoneWaits == Counts(NothingWaits) /\ \A m : ~Waits(m, NothingWaits)
BY DEF Counts, Waits, NothingWaits

-----------------------------------------------------------------------------
(* Ends.                                                                    *)

Fields == {"loops", "receiving", "routes", "incoming", "closed", "shut", "main", "receiveVersion",
           "sendVersion", "failure", "stopping", "error", "running", "waiting", "announced",
           "refused"}
\* End y is r but for the fields in F.
Keeps(r, y, F) == DOMAIN y = Fields /\ \A f \in Fields \ F : y[f] = r[f]

EndType(r) ==
  /\ DOMAIN r = Fields
  /\ r.receiving \in BOOLEAN /\ r.closed \in BOOLEAN /\ r.stopping \in BOOLEAN
  /\ Counts(r.incoming) /\ r.announced \in Nat

\* The fields of an end that was just made, of one that was not made yet, and of one that
\* was left.
LEMMA FreshEnds ==
  /\ EndType(NewEnd) /\ EndType(NoEnd) /\ EndType(GoneEnd)
  /\ /\ NewEnd.loops = "running" /\ NewEnd.receiving /\ NewEnd.routes = Handshake
     /\ NewEnd.incoming = NothingWaits /\ NewEnd.closed = FALSE /\ NewEnd.main = "start"
     /\ NewEnd.receiveVersion = "none" /\ NewEnd.running = {} /\ NewEnd.waiting = {}
     /\ NewEnd.announced = 0 /\ NewEnd.refused = "none" /\ NewEnd.stopping = FALSE
  /\ /\ NoEnd.loops = "done" /\ NoEnd.receiving = FALSE /\ NoEnd.incoming = NothingWaits
     /\ NoEnd.closed = TRUE /\ NoEnd.main = "done" /\ NoEnd.receiveVersion = "none"
     /\ NoEnd.sendVersion = "none" /\ NoEnd.running = {} /\ NoEnd.waiting = {}
     /\ NoEnd.announced = 0 /\ NoEnd.refused = "none" /\ NoEnd.stopping = FALSE
  /\ /\ GoneEnd.loops = "done" /\ GoneEnd.receiving = FALSE /\ GoneEnd.incoming = NothingWaits
     /\ GoneEnd.closed = TRUE /\ GoneEnd.main = "gone" /\ GoneEnd.receiveVersion = "none"
     /\ GoneEnd.running = {} /\ GoneEnd.waiting = {} /\ GoneEnd.stopping = FALSE
<1>1. DOMAIN NewEnd = Fields
  BY DEF NewEnd, Fields
<1>2. DOMAIN NoEnd = Fields
  BY <1>1 DEF NoEnd
<1>3. DOMAIN GoneEnd = Fields
  BY <1>2 DEF GoneEnd
<1>4. /\ NewEnd.loops = "running" /\ NewEnd.receiving = TRUE /\ NewEnd.routes = Handshake
      /\ NewEnd.incoming = NothingWaits /\ NewEnd.closed = FALSE /\ NewEnd.main = "start"
      /\ NewEnd.receiveVersion = "none" /\ NewEnd.running = {} /\ NewEnd.waiting = {}
      /\ NewEnd.announced = 0 /\ NewEnd.refused = "none" /\ NewEnd.stopping = FALSE
      /\ NewEnd.sendVersion = "none"
  BY DEF NewEnd
<1>5. /\ NoEnd.loops = "done" /\ NoEnd.receiving = FALSE /\ NoEnd.incoming = NothingWaits
      /\ NoEnd.closed = TRUE /\ NoEnd.main = "done" /\ NoEnd.receiveVersion = "none"
      /\ NoEnd.sendVersion = "none" /\ NoEnd.running = {} /\ NoEnd.waiting = {}
      /\ NoEnd.announced = 0 /\ NoEnd.refused = "none" /\ NoEnd.stopping = FALSE
  BY <1>1, <1>4 DEF NoEnd, Fields
<1>6. /\ GoneEnd.loops = "done" /\ GoneEnd.receiving = FALSE /\ GoneEnd.incoming = NothingWaits
      /\ GoneEnd.closed = TRUE /\ GoneEnd.main = "gone" /\ GoneEnd.receiveVersion = "none"
      /\ GoneEnd.running = {} /\ GoneEnd.waiting = {} /\ GoneEnd.stopping = FALSE
      /\ GoneEnd.announced = 0
  BY <1>2, <1>5 DEF GoneEnd, Fields
<1>7. EndType(NewEnd)
  <2>1. Counts(NewEnd.incoming) /\ NewEnd.receiving \in BOOLEAN /\ NewEnd.closed \in BOOLEAN
        /\ NewEnd.stopping \in BOOLEAN
    BY <1>4, NoneWaits, Zenon
  <2>2. NewEnd.announced \in Nat
    BY <1>4
  <2> QED
    BY <1>1, <2>1, <2>2, Zenon DEF EndType
<1>8. EndType(NoEnd)
  <2>1. Counts(NoEnd.incoming) /\ NoEnd.receiving \in BOOLEAN /\ NoEnd.closed \in BOOLEAN
        /\ NoEnd.stopping \in BOOLEAN
    BY <1>5, NoneWaits, Zenon
  <2>2. NoEnd.announced \in Nat
    BY <1>5
  <2> QED
    BY <1>2, <2>1, <2>2, Zenon DEF EndType
<1>9. EndType(GoneEnd)
  <2>1. Counts(GoneEnd.incoming) /\ GoneEnd.receiving \in BOOLEAN /\ GoneEnd.closed \in BOOLEAN
        /\ GoneEnd.stopping \in BOOLEAN
    BY <1>6, NoneWaits, Zenon
  <2>2. GoneEnd.announced \in Nat
    BY <1>6
  <2> QED
    BY <1>3, <2>1, <2>2, Zenon DEF EndType
<1> QED
  BY <1>4, <1>5, <1>6, <1>7, <1>8, <1>9

\* An end is left once all its goroutines are over; its counters stay.  What becomes of an
\* end is never an end that was not made yet.
LEMMA LeftEnd ==
  ASSUME NEW r, EndType(r)
  PROVE  /\ EndType(Left(r)) /\ Left(r) # NoEnd
         /\ Left(r).announced = r.announced /\ Left(r).refused = r.refused
         /\ \/ Left(r) = r
            \/ /\ r.main = "done" /\ r.receiving = FALSE
               /\ Left(r).main = "gone" /\ Left(r).receiving = FALSE /\ Left(r).incoming = NothingWaits
               /\ Left(r).closed = TRUE /\ Left(r).receiveVersion = "none"
               /\ Left(r).running = {} /\ Left(r).waiting = {}
<1> DEFINE over == /\ r.main = "done" /\ r.loops = "done" /\ ~r.receiving
                   /\ r.receiveVersion # "waiting" /\ r.sendVersion # "waiting"
           x == [GoneEnd EXCEPT !.announced = r.announced, !.refused = r.refused]
<1>1. Left(r) = IF over THEN x ELSE r
  BY DEF Left
<1>2. CASE over
  <2>1. Left(r) = x
    BY <1>1, <1>2
  <2>2. DOMAIN x = Fields /\ x.announced = r.announced /\ x.refused = r.refused
    BY FreshEnds DEF EndType, Fields
  <2>3. /\ x.main = "gone" /\ x.receiving = FALSE /\ x.incoming = NothingWaits
        /\ x.closed = TRUE /\ x.receiveVersion = "none" /\ x.stopping = FALSE
        /\ x.running = {} /\ x.waiting = {}
    BY FreshEnds DEF EndType, Fields
  <2> HIDE DEF x
  <2>4. EndType(x)
    BY <2>2, <2>3, NoneWaits, Zenon DEF EndType
  <2>5. x # NoEnd
    BY <2>3, FreshEnds
  <2>6. r.receiving = FALSE
    BY <1>2 DEF EndType
  <2> QED
    BY <1>2, <2>1, <2>2, <2>3, <2>4, <2>5, <2>6
<1>3. CASE ~over
  <2>1. Left(r) = r
    BY <1>1, <1>3
  <2>2. r # NoEnd
    BY <1>3, FreshEnds
  <2> QED
    BY <2>1, <2>2
<1> QED
  BY <1>2, <1>3, Zenon

-----------------------------------------------------------------------------
(* The routes of the flows.                                                 *)

\* What register.go registers for the flows that take part in every connection.
LEMMA RoutesOfFlows ==
  /\ FlowRoutes["SendAddresses"] = {"RequestAddresses"}
  /\ FlowRoutes["ReceiveAddresses"] = {"Addresses"}
  /\ FlowRoutes["ReceivePings"] = {"Ping"} /\ FlowRoutes["SendPings"] = {"Pong"}
  /\ "InvRelayBlock" \in FlowRoutes["HandleRelayInvs"]
  /\ FlowRoutes["SendVirtualSelectedParentInv"] = {}
BY Zenon DEF FlowRoutes, AddressFlows, BlockRelayFlows, PingFlows, TransactionRelayFlows, RejectsFlows, Both

\* No flow has a route for a message of the handshake.
LEMMA RoutesApart ==
  ASSUME NEW f \in DOMAIN FlowRoutes PROVE FlowRoutes[f] \cap Handshake = {}
<1>1. ASSUME NEW g, NEW h, NEW k \in DOMAIN Both(g, h)
      PROVE  /\ k \in DOMAIN g \/ k \in DOMAIN h
             /\ Both(g, h)[k] = IF k \in DOMAIN g THEN g[k] ELSE h[k]
  BY DEF Both
<1>2. \A k \in DOMAIN AddressFlows : AddressFlows[k] \cap Handshake = {}
  BY HandshakeMessages DEF AddressFlows
<1>3. \A k \in DOMAIN BlockRelayFlows : BlockRelayFlows[k] \cap Handshake = {}
  BY HandshakeMessages DEF BlockRelayFlows
<1>4. \A k \in DOMAIN PingFlows : PingFlows[k] \cap Handshake = {}
  BY HandshakeMessages DEF PingFlows
<1>5. \A k \in DOMAIN TransactionRelayFlows : TransactionRelayFlows[k] \cap Handshake = {}
  BY HandshakeMessages DEF TransactionRelayFlows
<1>6. \A k \in DOMAIN RejectsFlows : RejectsFlows[k] \cap Handshake = {}
  BY HandshakeMessages DEF RejectsFlows
<1> QED
  BY <1>1, <1>2, <1>3, <1>4, <1>5, <1>6 DEF FlowRoutes

Commands(fl) == UNION {FlowRoutes[f] : f \in fl}
FlowSets == {k.flows : k \in Settings}

\* The commands of the flows a node runs.
LEMMA CommandsOfFlows ==
  ASSUME NEW fl \in FlowSets
  PROVE  /\ Commands(fl) \cap Handshake = {}
         /\ \A f \in fl : FlowRoutes[f] \subseteq Commands(fl)
         /\ "ReceiveAddresses" \in fl \/ "SendAddresses" \in fl =>
              {"Addresses", "RequestAddresses"} \subseteq Commands(fl)
         /\ "SendPings" \in fl \/ "ReceivePings" \in fl => {"Ping", "Pong"} \subseteq Commands(fl)
         /\ "SendVirtualSelectedParentInv" \in fl => "InvRelayBlock" \in Commands(fl)
<1>1. /\ fl \subseteq DOMAIN FlowRoutes
      /\ ("SendPings" \in fl) = ("ReceivePings" \in fl)
      /\ ("ReceiveAddresses" \in fl) = ("SendAddresses" \in fl)
      /\ "SendVirtualSelectedParentInv" \in fl => "HandleRelayInvs" \in fl
  BY ConnectionAssumption DEF FlowSets
<1>2. \A f \in fl : FlowRoutes[f] \subseteq Commands(fl)
  BY DEF Commands
<1>3. Commands(fl) \cap Handshake = {}
  BY <1>1, RoutesApart DEF Commands
<1> QED
  BY <1>1, <1>2, <1>3, RoutesOfFlows

-----------------------------------------------------------------------------
(* What two ends know of each other.  In the definitions below r is an end, *)
(* s the other one of its connection, w what is on its way to r, v what is  *)
(* on its way to s, n the node of s, fl the flows that are run, and bans    *)
(* the nodes that banned the other one.                                     *)

Registered == {"register", "wait ready", "flows", "wait flows"}
Asked == {"Ping", "Pong", "RequestAddresses", "Addresses"}
InFlows(r) == r.main \in {"flows", "wait flows"}

\* The end sent its ready message, or never will: nothing of the handshake follows.
PastReady(r) ==
  r.main \in {"wait ready", "flows", "wait flows", "done", "gone"} /\ r.receiveVersion # "waiting"

\* The end waits for addresses, or failed after it asked for them.
Asking(r) ==
  \/ "ReceiveAddresses" \in r.waiting
  \/ r.stopping /\ r.main \in {"flows", "wait flows", "done"} /\ "ReceiveAddresses" \notin r.running

\* The messages only a flow of s sends.
OfFlows(s) == Asked \cup {m \in {"InvRelayBlock"} : s.announced = 0}

\* What the goroutines of one end agree on.
Local(r, fl) ==
  /\ r.loops = "done" => r.closed
  /\ r.running # {} => InFlows(r)
  /\ r.waiting \subseteq r.running /\ r.running \subseteq fl
  /\ r.waiting \subseteq {"ReceiveAddresses", "SendPings"}
  /\ r.main = "wait ready" => Commands(fl) \subseteq r.routes
  /\ "ReceiveAddresses" \in r.running => "Addresses" \in r.routes
  /\ r.main \in Registered => r.receiveVersion = "done"
  /\ r.main = "gone" => ~r.receiving

\* Before the other end is made nothing comes from it.
Silent(r, s, w, v) ==
  s = NoEnd =>
    /\ w = <<>> /\ (\A m : ~Waits(m, r.incoming))
    /\ r.running = {} /\ r.receiveVersion # "done" /\ r.main \notin Registered
    /\ r.refused = "none" /\ (r.receiving => Handshake \subseteq r.routes)
    /\ \A m : In(m, v) => m \in {"Version", "Reject"}

\* The ready message is the last of the handshake, and the routes of the handshake are
\* there until it was received.
Ordered(r, s, w) ==
  /\ ReadyIsLast(w)
  /\ In("Ready", w) => PastReady(s)
  /\ r.receiving /\ (Waits("Ready", r.incoming) \/ ~(Handshake \subseteq r.routes)) =>
       PastReady(s) /\ \A m \in Handshake : ~In(m, w)

\* An end that said it was ready has the routes of its flows, and s sends nothing from its
\* flows before it was told.
Told(r, s, w, v, fl) ==
  /\ \/ In("Ready", v) \/ Waits("Ready", s.incoming) \/ InFlows(s)
     \/ \E m \in OfFlows(s) : In(m, w)
  /\ r.receiving
  => Commands(fl) \ {"Addresses"} \subseteq r.routes

\* There is at most one request for addresses of r, or the answer to it.
OneRequest(r, s, w, v) ==
  /\ \/ In("RequestAddresses", v) \/ Waits("RequestAddresses", s.incoming)
     \/ In("Addresses", w) \/ Waits("Addresses", r.incoming)
     => r.main = "gone" \/ Asking(r)
  /\ In("RequestAddresses", v) =>
       /\ ~Waits("RequestAddresses", s.incoming) /\ ~In("Addresses", w)
       /\ ~Waits("Addresses", r.incoming)
  /\ Waits("RequestAddresses", s.incoming) =>
       /\ s.incoming["RequestAddresses"] = 1
       /\ ~In("Addresses", w) /\ ~Waits("Addresses", r.incoming)
  /\ In("Addresses", w) => ~Waits("Addresses", r.incoming)
  /\ Waits("Addresses", r.incoming) => r.incoming["Addresses"] = 1
  /\ Once("Addresses", w) /\ Once("RequestAddresses", v)

\* What may be on its way to r.
Kinds(s, w, n, fl, bans) ==
  /\ \A m : In(m, w) => m \in Handshake \cup {"Reject", "InvRelayBlock"} \cup (Asked \cap Commands(fl))
  /\ In("Reject", w) => n \in bans
  /\ In("InvRelayBlock", w) => "InvRelayBlock" \in Commands(fl) \/ s.announced > 0

Refusals(r, s, n, bans) ==
  /\ r.refused \in {"none", "InvRelayBlock", "Reject"}
  /\ r.refused = "InvRelayBlock" => s.announced > 0
  /\ r.refused = "Reject" => n \in bans

Pair(r, s, w, v, n, fl, bans) ==
  /\ Ordered(r, s, w) /\ Told(r, s, w, v, fl) /\ OneRequest(r, s, w, v)
  /\ Kinds(s, w, n, fl, bans) /\ Refusals(r, s, n, bans)

\* What a step of an end that receives no message may make of it.
Goes(r, x, fl) ==
  /\ EndType(x) /\ Local(x, fl)
  /\ x.refused = r.refused /\ x.announced >= r.announced
  /\ x.receiving => r.receiving
  /\ Less(x.incoming, r.incoming)
  /\ x.running # {} => r.running # {} \/ Waits("Ready", r.incoming)
  /\ x.receiveVersion = "done" => r.receiveVersion = "done" \/ Waits("Version", r.incoming)
  /\ x.main \in Registered => r.main \in Registered \/ r.receiveVersion = "done"
  /\ PastReady(r) => PastReady(x)
  /\ InFlows(x) => InFlows(r) \/ Waits("Ready", r.incoming)
  /\ x.receiving => r.routes \ (Handshake \cup {"Addresses"}) \subseteq x.routes
  /\ x.receiving /\ Handshake \subseteq r.routes =>
       Handshake \subseteq x.routes \/ Waits("Ready", r.incoming)
  /\ x.main # "gone" => r.main # "gone"
  /\ x.main # "gone" /\ Asking(r) =>
       \/ Asking(x)
       \/ /\ Waits("Addresses", r.incoming)
          /\ Waits("Addresses", x.incoming) => r.incoming["Addresses"] > 1

\* When the end may send message m in such a step.
MaySend(r, x, m, fl) ==
  /\ m \in Handshake => ~PastReady(r)
  /\ m = "Ready" => PastReady(x) /\ (x.receiving => Commands(fl) \subseteq x.routes)
  /\ m \in OfFlows(x) => InFlows(r)
  /\ m = "RequestAddresses" =>
       ~Asking(r) /\ r.main # "gone" /\ (x.main # "gone" => "ReceiveAddresses" \in x.waiting)
  /\ m = "Addresses" =>
       /\ Waits("RequestAddresses", r.incoming)
       /\ Waits("RequestAddresses", x.incoming) => r.incoming["RequestAddresses"] > 1
  /\ m \notin {"Version", "Reject"} => Waits("Version", r.incoming) \/ r.main \in Registered
  /\ m \in Handshake \cup {"Reject", "InvRelayBlock"} \cup (Asked \cap Commands(fl))
  /\ m = "InvRelayBlock" => "InvRelayBlock" \in Commands(fl) \/ x.announced > 0

\* Leaving an end is a step like the others.
LEMMA LeftGoes ==
  ASSUME NEW r, NEW x, NEW fl, Goes(r, x, fl) PROVE Goes(r, Left(x), fl)
<1>1. EndType(x)
  BY DEF Goes
<1>2. CASE Left(x) = x
  BY <1>2
<1>3. CASE /\ x.main = "done" /\ x.receiving = FALSE
           /\ Left(x).main = "gone" /\ Left(x).receiving = FALSE /\ Left(x).incoming = NothingWaits
           /\ Left(x).closed = TRUE /\ Left(x).receiveVersion = "none"
           /\ Left(x).running = {} /\ Left(x).waiting = {}
  <2> DEFINE y == Left(x)
  <2>1. EndType(y) /\ y.announced = x.announced /\ y.refused = x.refused
    BY <1>1, LeftEnd, Zenon
  <2>2. \A k : ~Waits(k, y.incoming)
    BY <1>3, NoneWaits, Zenon
  <2> HIDE DEF y
  <2>3. /\ y.main = "gone" /\ y.receiving = FALSE /\ y.closed = TRUE
        /\ y.receiveVersion = "none" /\ y.running = {} /\ y.waiting = {}
    BY <1>3 DEF y
  <2>4. Local(y, fl)
    BY <2>3 DEF Local, Registered
  <2>5. PastReady(y)
    BY <2>3 DEF PastReady
  <2>6. Goes(r, y, fl)
    BY <2>1, <2>2, <2>3, <2>4, <2>5, Zenon DEF Goes, Less, Registered, InFlows
  <2> QED
    BY <2>6 DEF y
<1> QED
  BY <1>1, <1>2, <1>3, LeftEnd, ZenonT(30)

\* What an end may send it may send when it is left in the same step.
LEMMA LeftSends ==
  ASSUME NEW r, NEW x, NEW m, NEW fl, EndType(x), MaySend(r, x, m, fl)
  PROVE  MaySend(r, Left(x), m, fl)
<1>1. CASE Left(x) = x
  BY <1>1
<1>2. CASE /\ Left(x).main = "gone" /\ Left(x).receiving = FALSE /\ Left(x).incoming = NothingWaits
           /\ Left(x).receiveVersion = "none"
  <2> DEFINE y == Left(x)
  <2>1. y.announced = x.announced
    BY LeftEnd, Zenon
  <2>2. \A k : ~Waits(k, y.incoming)
    BY <1>2, NoneWaits, Zenon
  <2> HIDE DEF y
  <2>3. y.main = "gone" /\ y.receiving = FALSE /\ y.receiveVersion = "none"
    BY <1>2 DEF y
  <2>4. PastReady(y)
    BY <2>3 DEF PastReady
  <2>5. OfFlows(y) = OfFlows(x)
    BY <2>1 DEF OfFlows
  <2>6. MaySend(r, y, m, fl)
    BY <2>1, <2>2, <2>3, <2>4, <2>5 DEF MaySend
  <2> QED
    BY <2>6 DEF y
<1> QED
  BY <1>1, <1>2, LeftEnd, Zenon

\* The end that sends takes a step: what the other one relies on stays true.
LEMMA SenderGoes ==
  ASSUME NEW q, NEW r, NEW x, NEW w, NEW v, NEW n, NEW fl, NEW bans, NEW more,
         Pair(q, r, w, v, n, fl, bans), Goes(r, x, fl), EndType(r), bans \subseteq more
  PROVE  Pair(q, x, w, v, n, fl, more)
<1> USE DEF Pair
<1>1. Ordered(q, x, w)
  BY Zenon DEF Ordered, Goes, Less
<1>2. x.announced \in Nat /\ r.announced \in Nat /\ x.announced >= r.announced
  BY ZenonT(30) DEF Goes, EndType
<1>3. Told(q, x, w, v, fl)
  BY <1>2 DEF Told, OfFlows, Goes, Less
<1>4. OneRequest(q, x, w, v)
  <2>1. Waits("RequestAddresses", x.incoming) => Waits("RequestAddresses", r.incoming)
    BY ZenonT(30) DEF Goes, Less
  <2>2. Waits("RequestAddresses", x.incoming) => x.incoming["RequestAddresses"] = 1
    <3> SUFFICES ASSUME Waits("RequestAddresses", x.incoming) PROVE x.incoming["RequestAddresses"] = 1
      OBVIOUS
    <3>1. x.incoming["RequestAddresses"] <= 1
      BY <2>1, Zenon DEF Goes, Less, OneRequest
    <3>2. x.incoming["RequestAddresses"] \in Nat /\ x.incoming["RequestAddresses"] > 0
      BY Zenon DEF Goes, EndType, Counts, Waits
    <3> QED
      BY <3>1, <3>2
  <2> QED
    BY <2>1, <2>2, Zenon DEF OneRequest
<1>5. Kinds(x, w, n, fl, more)
  BY <1>2 DEF Kinds
<1>6. Refusals(q, x, n, more)
  BY <1>2 DEF Refusals
<1> QED
  BY <1>1, <1>3, <1>4, <1>5, <1>6

\* The same when it sends a message.
LEMMA SenderSends ==
  ASSUME NEW q, NEW r, NEW x, NEW S, NEW w \in Seq(S), NEW v, NEW n, NEW m \in S, NEW fl, NEW bans, NEW more,
         Pair(q, r, w, v, n, fl, bans), Goes(r, x, fl), MaySend(r, x, m, fl), EndType(r),
         bans \subseteq more, m = "Reject" => n \in more
  PROVE  Pair(q, x, Append(w, m), v, n, fl, more)
<1> DEFINE u == Append(w, m)
<1> USE DEF Pair
<1>1. /\ \A k : In(k, u) <=> In(k, w) \/ k = m
      /\ \A k : Once(k, w) /\ (In(k, w) => k # m) => Once(k, u)
      /\ ReadyIsLast(w) /\ (In("Ready", w) => m \notin Handshake) => ReadyIsLast(u)
  BY AppendMessage
<1> HIDE DEF u
<1>2. Pair(q, x, w, v, n, fl, more)
  BY SenderGoes, Zenon
<1>3. Ordered(q, x, u)
  BY <1>1, <1>2, Zenon DEF Ordered, MaySend, Goes
<1>4. Told(q, x, u, v, fl)
  <2>1. InFlows(r) => Told(q, x, u, v, fl)
    BY Zenon DEF Told
  <2>2. CASE m \in OfFlows(x)
    BY <2>1, <2>2, Zenon DEF MaySend
  <2>3. CASE m \notin OfFlows(x)
    BY <2>3, <1>1, <1>2, Zenon DEF Told
  <2> QED
    BY <2>2, <2>3
<1>5. OneRequest(q, x, u, v)
  <2>1. CASE m = "Addresses"
    <3>1. Waits("RequestAddresses", r.incoming)
      BY <2>1, Zenon DEF MaySend
    <3>2. /\ r.incoming["RequestAddresses"] = 1 /\ ~In("Addresses", w)
          /\ ~Waits("Addresses", q.incoming) /\ ~In("RequestAddresses", v)
          /\ q.main = "gone" \/ Asking(q)
      BY <3>1, ZenonT(30) DEF OneRequest
    <3>3. ~Waits("RequestAddresses", x.incoming)
      BY <2>1, <3>2 DEF MaySend
    <3>4. Once("Addresses", u)
      BY <1>1, <1>2, <3>2, Zenon DEF OneRequest
    <3> QED
      BY <1>1, <1>2, <3>2, <3>3, <3>4, Zenon DEF OneRequest
  <2>2. CASE m # "Addresses"
    <3>1. Once("Addresses", u)
      BY <1>1, <1>2, <2>2, Zenon DEF OneRequest
    <3>2. In("Addresses", u) <=> In("Addresses", w)
      BY <1>1, <2>2
    <3> QED
      BY <1>2, <3>1, <3>2, Zenon DEF OneRequest
  <2> QED
    BY <2>1, <2>2
<1>6. Kinds(x, u, n, fl, more)
  <2>1. m \in Handshake \cup {"Reject", "InvRelayBlock"} \cup (Asked \cap Commands(fl))
    BY Zenon DEF MaySend
  <2>2. m = "InvRelayBlock" => "InvRelayBlock" \in Commands(fl) \/ x.announced > 0
    BY Zenon DEF MaySend
  <2> QED
    BY <1>1, <1>2, <2>1, <2>2 DEF Kinds
<1> QED
  BY <1>2, <1>3, <1>4, <1>5, <1>6 DEF u

\* An end takes a step: what is on its way to it still fits.
LEMMA ReceiverGoes ==
  ASSUME NEW r, NEW x, NEW s, NEW w, NEW v, NEW n, NEW fl \in FlowSets, NEW bans, NEW more,
         Pair(r, s, w, v, n, fl, bans), Goes(r, x, fl), EndType(r), bans \subseteq more
  PROVE  Pair(x, s, w, v, n, fl, more)
<1> USE DEF Pair
<1>1. Ordered(x, s, w)
  BY Zenon DEF Ordered, Goes, Less
<1>2. Told(x, s, w, v, fl)
  <2>1. Commands(fl) \cap Handshake = {}
    BY CommandsOfFlows, Zenon
  <2> QED
    BY <2>1, Zenon DEF Told, Goes
<1>3. OneRequest(x, s, w, v)
  <2>1. Waits("Addresses", x.incoming) => Waits("Addresses", r.incoming)
    BY ZenonT(30) DEF Goes, Less
  <2>2. Waits("Addresses", x.incoming) => x.incoming["Addresses"] = 1
    <3> SUFFICES ASSUME Waits("Addresses", x.incoming) PROVE x.incoming["Addresses"] = 1
      OBVIOUS
    <3>1. x.incoming["Addresses"] <= 1
      BY <2>1, Zenon DEF Goes, Less, OneRequest
    <3>2. x.incoming["Addresses"] \in Nat /\ x.incoming["Addresses"] > 0
      BY Zenon DEF Goes, EndType, Counts, Waits
    <3> QED
      BY <3>1, <3>2
  <2>3. ASSUME \/ In("RequestAddresses", v) \/ Waits("RequestAddresses", s.incoming)
               \/ In("Addresses", w) \/ Waits("Addresses", x.incoming)
        PROVE  x.main = "gone" \/ Asking(x)
    <3> SUFFICES ASSUME x.main # "gone" PROVE Asking(x)
      OBVIOUS
    <3>1. Asking(r)
      BY <2>1, <2>3, Zenon DEF OneRequest, Goes
    <3>2. CASE /\ Waits("Addresses", r.incoming)
               /\ Waits("Addresses", x.incoming) => r.incoming["Addresses"] > 1
      <4>1. r.incoming["Addresses"] = 1
        BY <3>2, Zenon DEF OneRequest
      <4>2. ~Waits("Addresses", x.incoming)
        BY <3>2, <4>1
      <4> QED
        BY <2>3, <3>2, <4>2, Zenon DEF OneRequest
    <3> QED
      BY <3>1, <3>2, Zenon DEF Goes
  <2> QED
    BY <2>1, <2>2, <2>3, Zenon DEF OneRequest
<1>4. Kinds(s, w, n, fl, more)
  BY DEF Kinds
<1>5. Refusals(x, s, n, more)
  BY Zenon DEF Refusals, Goes
<1> QED
  BY <1>1, <1>2, <1>3, <1>4, <1>5

\* The same when it sends a message.
LEMMA ReceiverSends ==
  ASSUME NEW r, NEW x, NEW s, NEW w, NEW S, NEW v \in Seq(S), NEW m \in S, NEW n,
         NEW fl \in FlowSets, NEW bans, NEW more,
         Pair(r, s, w, v, n, fl, bans), Goes(r, x, fl), MaySend(r, x, m, fl), EndType(r),
         bans \subseteq more
  PROVE  Pair(x, s, w, Append(v, m), n, fl, more)
<1> DEFINE u == Append(v, m)
<1> USE DEF Pair
<1>1. /\ \A k : In(k, u) <=> In(k, v) \/ k = m
      /\ \A k : Once(k, v) /\ (In(k, v) => k # m) => Once(k, u)
  BY AppendMessage
<1> HIDE DEF u
<1>2. Pair(x, s, w, v, n, fl, more)
  BY ReceiverGoes
<1>3. Told(x, s, w, u, fl)
  BY <1>1, <1>2, Zenon DEF Told, MaySend
<1>4. OneRequest(x, s, w, u)
  <2>1. CASE m = "RequestAddresses"
    <3>1. ~Asking(r) /\ r.main # "gone" /\ (x.main # "gone" => "ReceiveAddresses" \in x.waiting)
      BY <2>1, Zenon DEF MaySend
    <3>2. /\ ~In("RequestAddresses", v) /\ ~Waits("RequestAddresses", s.incoming)
          /\ ~In("Addresses", w) /\ ~Waits("Addresses", r.incoming)
      BY <3>1, Zenon DEF OneRequest
    <3>3. ~Waits("Addresses", x.incoming)
      BY <3>2, Zenon DEF Goes, Less
    <3>4. x.main = "gone" \/ Asking(x)
      BY <3>1, Zenon DEF Asking
    <3> QED
      BY <1>1, <1>2, <3>2, <3>3, <3>4, Zenon DEF OneRequest
  <2>2. CASE m # "RequestAddresses"
    BY <1>1, <1>2, <2>2, Zenon DEF OneRequest
  <2> QED
    BY <2>1, <2>2
<1> QED
  BY <1>2, <1>3, <1>4 DEF u

\* What is on its way to an end is lost.
LEMMA MessagesLost ==
  ASSUME NEW r, NEW s, NEW w, NEW v, NEW n, NEW fl, NEW bans, Pair(r, s, w, v, n, fl, bans)
  PROVE  Pair(r, s, <<>>, v, n, fl, bans) /\ Pair(r, s, w, <<>>, n, fl, bans)
<1> USE DEF Pair
<1>1. Ordered(r, s, <<>>) /\ Ordered(r, s, w)
  BY NoMessages, ZenonT(30) DEF Ordered
<1>2. Told(r, s, <<>>, v, fl) /\ Told(r, s, w, <<>>, fl)
  BY NoMessages, Zenon DEF Told
<1>3. OneRequest(r, s, <<>>, v) /\ OneRequest(r, s, w, <<>>)
  BY NoMessages, Zenon DEF OneRequest
<1>4. Kinds(s, <<>>, n, fl, bans)
  BY NoMessages DEF Kinds
<1> QED
  BY <1>1, <1>2, <1>3, <1>4

-----------------------------------------------------------------------------
(* Steps of an end that receive nothing.                                    *)

\* The announcements are counted.
LEMMA AnnouncedStays == ASSUME NEW r, EndType(r) PROVE r.announced >= r.announced
<1>1. r.announced \in Nat
  BY DEF EndType
<1> QED
  BY <1>1

\* The loops of the connection and the goroutines that do not touch what the other end
\* relies on.
LEMMA CalmGoes ==
  ASSUME NEW r, EndType(r), NEW fl, Local(r, fl), NEW y,
         Keeps(r, y, {"loops", "receiving", "closed", "shut", "sendVersion", "failure",
                      "incoming", "announced"}),
         y.receiving \in BOOLEAN, y.receiving => r.receiving, y.closed \in BOOLEAN,
         y.loops = "done" => y.closed, Counts(y.incoming), Less(y.incoming, r.incoming),
         y.announced \in Nat, y.announced >= r.announced
  PROVE  Goes(r, y, fl)
<1>1. EndType(y)
  BY DEF EndType, Keeps, Fields
<1>2. /\ y.main = r.main /\ y.routes = r.routes /\ y.running = r.running
      /\ y.waiting = r.waiting /\ y.receiveVersion = r.receiveVersion
      /\ y.stopping = r.stopping /\ y.refused = r.refused
  BY DEF Keeps, Fields
<1>3. Local(y, fl)
  BY <1>2, Zenon DEF Local, InFlows, Registered
<1> QED
  BY <1>1, <1>2, <1>3, Zenon DEF Goes, PastReady, Asking, InFlows, Registered

\* The goroutine of routerInitializer ends.
LEMMA MainEndsGoes ==
  ASSUME NEW r, EndType(r), NEW fl, Local(r, fl), NEW y,
         Keeps(r, y, {"closed", "shut", "main", "routes"}),
         y.main = "done", r.routes \subseteq y.routes, y.closed \in BOOLEAN, r.closed => y.closed,
         r.running = {}, r.main \notin {"gone", "done"}
  PROVE  Goes(r, y, fl)
<1>1. EndType(y)
  BY Zenon DEF EndType, Keeps, Fields
<1>2. /\ y.receiving = r.receiving /\ y.running = r.running /\ y.loops = r.loops
      /\ y.waiting = r.waiting /\ y.receiveVersion = r.receiveVersion
      /\ y.stopping = r.stopping /\ y.refused = r.refused /\ y.incoming = r.incoming
      /\ y.announced = r.announced
  BY Zenon DEF Keeps, Fields
<1>3. Local(y, fl)
  BY <1>2, Zenon DEF Local, InFlows, Registered
<1>4. Less(y.incoming, r.incoming)
  BY <1>2, LessOrSame DEF EndType
<1>5. y.announced >= r.announced
  BY <1>2, AnnouncedStays
<1> QED
  BY <1>1, <1>2, <1>3, <1>4, <1>5, Zenon DEF Goes, PastReady, Asking, InFlows, Registered, Local

\* A flow takes a step, or returns.
LEMMA FlowGoes ==
  ASSUME NEW r, EndType(r), NEW fl, Local(r, fl), NEW y,
         Keeps(r, y, {"incoming", "routes", "running", "waiting", "stopping", "error"}),
         Counts(y.incoming), Less(y.incoming, r.incoming),
         r.running # {}, y.running \subseteq r.running,
         y.waiting \subseteq y.running, y.waiting \subseteq {"ReceiveAddresses", "SendPings"},
         r.routes \ {"Addresses"} \subseteq y.routes,
         "ReceiveAddresses" \in y.running => "Addresses" \in y.routes,
         y.stopping \in BOOLEAN, r.stopping => y.stopping,
         "ReceiveAddresses" \in r.waiting /\ "ReceiveAddresses" \notin y.waiting =>
           \/ y.stopping /\ "ReceiveAddresses" \notin y.running
           \/ /\ Waits("Addresses", r.incoming)
              /\ Waits("Addresses", y.incoming) => r.incoming["Addresses"] > 1
  PROVE  Goes(r, y, fl)
<1>1. EndType(y)
  BY Zenon DEF EndType, Keeps, Fields
<1>2. /\ y.receiving = r.receiving /\ y.main = r.main /\ y.loops = r.loops
      /\ y.closed = r.closed /\ y.receiveVersion = r.receiveVersion
      /\ y.refused = r.refused /\ y.announced = r.announced
  BY DEF Keeps, Fields
<1>3. InFlows(r)
  BY Zenon DEF Local
<1>4. Local(y, fl)
  BY <1>2, <1>3, Zenon DEF Local, InFlows
<1>5. y.announced >= r.announced
  BY <1>2, AnnouncedStays, Zenon
<1>6. Handshake \subseteq r.routes => Handshake \subseteq y.routes
  BY HandshakeMessages, Zenon
<1>7. Asking(r) => \/ Asking(y)
                   \/ /\ Waits("Addresses", r.incoming)
                      /\ Waits("Addresses", y.incoming) => r.incoming["Addresses"] > 1
  BY <1>2, <1>3, Zenon DEF Asking, InFlows
<1> QED
  BY <1>1, <1>2, <1>3, <1>4, <1>5, <1>6, <1>7, Zenon DEF Goes, PastReady, InFlows

\* The handshake begins.
LEMMA StartGoes ==
  ASSUME NEW r, EndType(r), NEW fl, Local(r, fl), NEW y,
         Keeps(r, y, {"main", "receiveVersion", "sendVersion", "failure"}),
         r.main = "start", y.main = "handshake", y.receiveVersion = "waiting"
  PROVE  Goes(r, y, fl) /\ MaySend(r, y, "Version", fl)
<1>1. EndType(y)
  BY DEF EndType, Keeps, Fields
<1>2. /\ y.receiving = r.receiving /\ y.running = r.running /\ y.loops = r.loops
      /\ y.waiting = r.waiting /\ y.closed = r.closed /\ y.routes = r.routes
      /\ y.stopping = r.stopping /\ y.refused = r.refused /\ y.incoming = r.incoming
      /\ y.announced = r.announced
  BY DEF Keeps, Fields
<1>3. Local(y, fl)
  BY <1>2 DEF Local, InFlows, Registered
<1>4. Less(y.incoming, r.incoming)
  BY <1>2, LessOrSame DEF EndType
<1>5. y.announced >= r.announced
  BY <1>2, AnnouncedStays
<1>6. Goes(r, y, fl)
  BY <1>1, <1>2, <1>3, <1>4, <1>5, ZenonT(30) DEF Goes, PastReady, Asking, InFlows, Registered, Local
<1>7. MaySend(r, y, "Version", fl)
  BY HandshakeMessages DEF MaySend, PastReady, OfFlows, Asked
<1> QED
  BY <1>6, <1>7

\* The version of the other node was received, and is answered, or does not come.
LEMMA VersionGoes ==
  ASSUME NEW r, EndType(r), NEW fl, Local(r, fl), NEW y,
         Keeps(r, y, {"receiveVersion", "failure", "incoming"}),
         Counts(y.incoming), Less(y.incoming, r.incoming), r.receiveVersion = "waiting",
         \/ y.receiveVersion = "done" /\ Waits("Version", r.incoming)
         \/ y.receiveVersion = "failed"
  PROVE  /\ Goes(r, y, fl)
         /\ y.receiveVersion = "done" => MaySend(r, y, "VerAck", fl)
<1>1. EndType(y)
  BY DEF EndType, Keeps, Fields
<1>2. /\ y.receiving = r.receiving /\ y.running = r.running /\ y.loops = r.loops
      /\ y.waiting = r.waiting /\ y.closed = r.closed /\ y.routes = r.routes
      /\ y.stopping = r.stopping /\ y.refused = r.refused /\ y.main = r.main
      /\ y.announced = r.announced
  BY DEF Keeps, Fields
<1>3. Local(y, fl)
  BY <1>2, Zenon DEF Local, InFlows, Registered
<1>4. y.announced >= r.announced
  BY <1>2, AnnouncedStays
<1>5. Goes(r, y, fl)
  BY <1>1, <1>2, <1>3, <1>4, ZenonT(30) DEF Goes, PastReady, Asking, InFlows
<1>6. y.receiveVersion = "done" => MaySend(r, y, "VerAck", fl)
  BY HandshakeMessages DEF MaySend, PastReady, OfFlows, Asked
<1> QED
  BY <1>5, <1>6

\* AddToPeers, when the peer is new.
LEMMA AddGoes ==
  ASSUME NEW r, EndType(r), NEW fl, Local(r, fl), NEW y, Keeps(r, y, {"main"}),
         r.main = "handshake", r.receiveVersion = "done", y.main = "register"
  PROVE  Goes(r, y, fl)
<1>1. EndType(y)
  BY DEF EndType, Keeps, Fields
<1>2. /\ y.receiving = r.receiving /\ y.running = r.running /\ y.loops = r.loops
      /\ y.waiting = r.waiting /\ y.closed = r.closed /\ y.routes = r.routes
      /\ y.stopping = r.stopping /\ y.refused = r.refused /\ y.incoming = r.incoming
      /\ y.announced = r.announced /\ y.receiveVersion = r.receiveVersion
  BY DEF Keeps, Fields
<1>3. Local(y, fl)
  BY <1>2, Zenon DEF Local, InFlows, Registered
<1>4. Less(y.incoming, r.incoming)
  BY <1>2, LessOrSame DEF EndType
<1>5. y.announced >= r.announced
  BY <1>2, AnnouncedStays
<1> QED
  BY <1>1, <1>2, <1>3, <1>4, <1>5, Zenon DEF Goes, PastReady, Asking, InFlows, Registered, Local

\* The routes of the flows are registered before the node says that it is ready.
LEMMA RegisterGoes ==
  ASSUME NEW r, EndType(r), NEW fl, Local(r, fl), NEW y, Keeps(r, y, {"main", "routes"}),
         r.main = "register", y.main = "wait ready", y.routes = r.routes \cup Commands(fl)
  PROVE  Goes(r, y, fl) /\ MaySend(r, y, "Ready", fl)
<1>1. EndType(y)
  BY Zenon DEF EndType, Keeps, Fields
<1>2. /\ y.receiving = r.receiving /\ y.running = r.running /\ y.loops = r.loops
      /\ y.waiting = r.waiting /\ y.closed = r.closed
      /\ y.stopping = r.stopping /\ y.refused = r.refused /\ y.incoming = r.incoming
      /\ y.announced = r.announced /\ y.receiveVersion = r.receiveVersion
  BY Zenon DEF Keeps, Fields
<1>3. Local(y, fl)
  BY <1>2, Zenon DEF Local, InFlows, Registered
<1>4. Less(y.incoming, r.incoming)
  BY <1>2, LessOrSame, Zenon DEF EndType
<1>5. y.announced >= r.announced
  BY <1>2, AnnouncedStays, Zenon
<1>6. Goes(r, y, fl)
  BY <1>1, <1>2, <1>3, <1>4, <1>5, Zenon DEF Goes, PastReady, Asking, InFlows, Registered, Local
<1>7. MaySend(r, y, "Ready", fl)
  BY <1>2, HandshakeMessages, Zenon DEF MaySend, PastReady, OfFlows, Asked, Registered, Local
<1> QED
  BY <1>6, <1>7, Zenon

\* The other node is ready: the routes of the handshake go, and the flows begin.
LEMMA RunGoes ==
  ASSUME NEW r, EndType(r), NEW fl \in FlowSets, Local(r, fl), NEW y,
         Keeps(r, y, {"main", "routes", "incoming", "running"}),
         Counts(y.incoming), Less(y.incoming, r.incoming), Waits("Ready", r.incoming),
         r.main = "wait ready", y.main = "flows", y.routes = r.routes \ Handshake, y.running = fl
  PROVE  Goes(r, y, fl)
<1>1. EndType(y)
  BY Zenon DEF EndType, Keeps, Fields
<1>2. /\ y.receiving = r.receiving /\ y.loops = r.loops
      /\ y.waiting = r.waiting /\ y.closed = r.closed
      /\ y.stopping = r.stopping /\ y.refused = r.refused
      /\ y.announced = r.announced /\ y.receiveVersion = r.receiveVersion
  BY Zenon DEF Keeps, Fields
<1>3. r.running = {} /\ r.waiting = {} /\ Commands(fl) \subseteq r.routes
  BY Zenon DEF Local, InFlows
<1>4. "ReceiveAddresses" \in fl => "Addresses" \in y.routes
  BY <1>3, CommandsOfFlows, Zenon
<1>5. Local(y, fl)
  BY <1>2, <1>3, <1>4, Zenon DEF Local, InFlows, Registered
<1>6. y.announced >= r.announced
  BY <1>2, AnnouncedStays, Zenon
<1> QED
  BY <1>1, <1>2, <1>3, <1>5, <1>6, Zenon DEF Goes, PastReady, Asking, InFlows, Registered, Local

\* An error ends the flows.
LEMMA FailGoes ==
  ASSUME NEW r, EndType(r), NEW fl, Local(r, fl), NEW y, Keeps(r, y, {"closed", "shut", "main"}),
         r.main = "flows", y.main = "wait flows", y.closed \in BOOLEAN, r.closed => y.closed
  PROVE  Goes(r, y, fl)
<1>1. EndType(y)
  BY Zenon DEF EndType, Keeps, Fields
<1>2. /\ y.receiving = r.receiving /\ y.running = r.running /\ y.loops = r.loops
      /\ y.waiting = r.waiting /\ y.receiveVersion = r.receiveVersion /\ y.routes = r.routes
      /\ y.stopping = r.stopping /\ y.refused = r.refused /\ y.incoming = r.incoming
      /\ y.announced = r.announced
  BY Zenon DEF Keeps, Fields
<1>3. Local(y, fl)
  BY <1>2, Zenon DEF Local, InFlows, Registered
<1>4. Less(y.incoming, r.incoming)
  BY <1>2, LessOrSame, Zenon DEF EndType
<1>5. y.announced >= r.announced
  BY <1>2, AnnouncedStays, Zenon
<1> QED
  BY <1>1, <1>2, <1>3, <1>4, <1>5, Zenon DEF Goes, PastReady, Asking, InFlows, Registered

-----------------------------------------------------------------------------
(* Receiving a message.                                                     *)

\* End y is r after message m came: it waits in its route, or nothing more is received;
\* only a message without a route is refused, and only the first error of an end counts.
Receives(r, y, m) ==
  /\ EndType(y)
  /\ y.main = r.main /\ y.routes = r.routes /\ y.running = r.running
  /\ y.waiting = r.waiting /\ y.receiveVersion = r.receiveVersion
  /\ y.announced = r.announced /\ y.closed = r.closed /\ y.loops = r.loops
  /\ r.stopping => y.stopping
  /\ y.refused = r.refused \/ (y.refused = m /\ m \notin r.routes /\ ~r.stopping)
  /\ \/ y.incoming = r.incoming /\ y.receiving = FALSE
     \/ Added(y.incoming, r.incoming, m) /\ m \in r.routes

\* This is what EnqueueIncomingMessage makes of an end.
LEMMA EnqueuedEnd ==
  ASSUME NEW r, EndType(r), NEW m PROVE Receives(r, EnqueueIncomingMessage(r, m), m)
<1> DEFINE invalid == [r EXCEPT !.receiving = FALSE, !.refused = IF r.stopping THEN @ ELSE m]
           failed == HandleError(invalid, BanningError)
           full == [r EXCEPT !.receiving = FALSE]
           put == [r EXCEPT !.incoming = Put(@, m), !.receiving = (r.loops = "running")]
           y == EnqueueIncomingMessage(r, m)
<1>1. \/ m \notin r.routes /\ y \in {invalid, failed}
      \/ m \in r.routes /\ y \in {full, put}
  BY DEF EnqueueIncomingMessage
<1>2. /\ DOMAIN invalid = Fields
      /\ invalid.receiving = FALSE /\ invalid.refused = (IF r.stopping THEN r.refused ELSE m)
      /\ invalid.main = r.main /\ invalid.routes = r.routes /\ invalid.running = r.running
      /\ invalid.waiting = r.waiting /\ invalid.receiveVersion = r.receiveVersion
      /\ invalid.announced = r.announced /\ invalid.closed = r.closed /\ invalid.loops = r.loops
      /\ invalid.incoming = r.incoming /\ invalid.stopping = r.stopping
  BY DEF EndType, Fields
<1>3. /\ DOMAIN full = Fields
      /\ full.receiving = FALSE /\ full.refused = r.refused
      /\ full.main = r.main /\ full.routes = r.routes /\ full.running = r.running
      /\ full.waiting = r.waiting /\ full.receiveVersion = r.receiveVersion
      /\ full.announced = r.announced /\ full.closed = r.closed /\ full.loops = r.loops
      /\ full.incoming = r.incoming /\ full.stopping = r.stopping
  BY DEF EndType, Fields
<1>4. /\ DOMAIN put = Fields
      /\ put.receiving = (r.loops = "running") /\ put.refused = r.refused
      /\ put.main = r.main /\ put.routes = r.routes /\ put.running = r.running
      /\ put.waiting = r.waiting /\ put.receiveVersion = r.receiveVersion
      /\ put.announced = r.announced /\ put.closed = r.closed /\ put.loops = r.loops
      /\ put.incoming = Put(r.incoming, m) /\ put.stopping = r.stopping
  BY DEF EndType, Fields
<1> DEFINE marked == [invalid EXCEPT !.stopping = TRUE, !.error = BanningError]
<1>5. failed \in {invalid, marked}
  BY DEF HandleError
<1> HIDE DEF invalid, failed, full, put, y
<1>6. /\ DOMAIN marked = Fields
      /\ marked.receiving = FALSE /\ marked.refused = invalid.refused
      /\ marked.main = r.main /\ marked.routes = r.routes /\ marked.running = r.running
      /\ marked.waiting = r.waiting /\ marked.receiveVersion = r.receiveVersion
      /\ marked.announced = r.announced /\ marked.closed = r.closed /\ marked.loops = r.loops
      /\ marked.incoming = r.incoming /\ marked.stopping = TRUE
  BY <1>2 DEF Fields
<1> HIDE DEF marked
<1>7. Counts(put.incoming) /\ Added(put.incoming, r.incoming, m)
  <2>1. Counts(r.incoming)
    BY DEF EndType
  <2> QED
    BY <1>4, <2>1, PutOne, Zenon
<1>8. ASSUME m \notin r.routes PROVE Receives(r, invalid, m)
  BY <1>2, <1>8, Zenon DEF EndType, Receives
<1>9. ASSUME m \notin r.routes PROVE Receives(r, marked, m)
  BY <1>2, <1>6, <1>9, Zenon DEF EndType, Receives
<1>10. Receives(r, full, m)
  BY <1>3, Zenon DEF EndType, Receives
<1>11. ASSUME m \in r.routes PROVE Receives(r, put, m)
  <2>1. put.receiving \in BOOLEAN
    BY <1>4
  <2> QED
    BY <1>4, <1>7, <1>11, <2>1, Zenon DEF EndType, Receives
<1>12. Receives(r, y, m)
  BY <1>1, <1>5, <1>8, <1>9, <1>10, <1>11
<1> QED
  BY <1>12 DEF y

\* A message of a peer that runs the same code is refused only when it was broadcast before
\* the peer was told that the routes are there, or when it follows a ban.
LEMMA ReceiverReceives ==
  ASSUME NEW r, NEW s, NEW S, NEW w \in Seq(S), w # <<>>, NEW v, NEW n, NEW fl \in FlowSets,
         NEW bans, Pair(r, s, w, v, n, fl, bans), EndType(r), EndType(s), Local(r, fl),
         r.receiving, NEW y, y = EnqueueIncomingMessage(r, Head(w))
  PROVE  EndType(y) /\ Local(y, fl) /\ Pair(y, s, Tail(w), v, n, fl, bans)
<1> DEFINE m == Head(w)
           u == Tail(w)
<1> USE DEF Pair
<1>2. /\ In(m, w)
      /\ \A k : In(k, u) => In(k, w)
      /\ \A k : Once(k, w) => Once(k, u)
      /\ Once(m, w) => ~In(m, u)
      /\ ReadyIsLast(w) => ReadyIsLast(u)
      /\ ReadyIsLast(w) /\ m = "Ready" => \A k \in Handshake : ~In(k, u)
  BY TakeMessage
<1>1. Receives(r, y, m)
  BY EnqueuedEnd
<1> HIDE DEF m, u
<1> USE DEF Receives
<1>3. Local(y, fl)
  BY <1>1, Zenon DEF Local, InFlows
<1>4. /\ \A k : Waits(k, y.incoming) => Waits(k, r.incoming) \/ k = m
      /\ \A k : Waits(k, r.incoming) /\ k # m => y.incoming[k] = r.incoming[k]
      /\ Waits(m, y.incoming) /\ ~Waits(m, r.incoming) => y.incoming[m] = 1
  <2>1. CASE y.incoming = r.incoming
    BY <2>1, Zenon
  <2>2. CASE Added(y.incoming, r.incoming, m)
    BY <2>2, Zenon DEF Added
  <2> QED
    BY <1>1, <2>1, <2>2, Zenon
<1>5. Ordered(y, s, u)
  <2>1. ReadyIsLast(u)
    BY <1>2, Zenon DEF Ordered
  <2>2. In("Ready", u) => PastReady(s)
    BY <1>2, Zenon DEF Ordered
  <2>3. ASSUME Waits("Ready", y.incoming) \/ ~(Handshake \subseteq y.routes)
        PROVE  PastReady(s) /\ \A k \in Handshake : ~In(k, u)
    <3>1. CASE Waits("Ready", r.incoming) \/ ~(Handshake \subseteq r.routes)
      BY <3>1, <1>2, Zenon DEF Ordered
    <3>2. CASE m = "Ready"
      BY <3>2, <1>2, Zenon DEF Ordered
    <3> QED
      BY <2>3, <3>1, <3>2, <1>1, <1>4, Zenon
  <2> QED
    BY <2>1, <2>2, <2>3, Zenon DEF Ordered
<1>6. Told(y, s, u, v, fl)
  BY <1>1, <1>2, Zenon DEF Told
<1>7. OneRequest(y, s, u, v)
  <2>1. r.main # "gone" /\ Asking(r) => Asking(y)
    BY <1>1, Zenon DEF Asking
  <2>2. Waits("Addresses", y.incoming) => Waits("Addresses", r.incoming) \/ m = "Addresses"
    BY <1>4, Zenon
  <2>3. CASE m = "Addresses"
    <3>1. In("Addresses", w) /\ ~Waits("Addresses", r.incoming) /\ ~In("Addresses", u)
      BY <2>3, <1>2, Zenon DEF OneRequest
    <3>2. Waits("Addresses", y.incoming) => y.incoming["Addresses"] = 1
      BY <2>3, <3>1, <1>4, Zenon
    <3>3. r.main = "gone" \/ Asking(y)
      BY <3>1, <2>1, Zenon DEF OneRequest
    <3>4. ~In("RequestAddresses", v) /\ ~Waits("RequestAddresses", s.incoming)
      BY <3>1, Zenon DEF OneRequest
    <3> QED
      BY <1>1, <1>2, <3>1, <3>2, <3>3, <3>4, Zenon DEF OneRequest
  <2>4. CASE m # "Addresses"
    <3>1. Waits("Addresses", y.incoming) =>
            Waits("Addresses", r.incoming) /\ y.incoming["Addresses"] = r.incoming["Addresses"]
      BY <2>2, <2>4, <1>4, Zenon
    <3> QED
      BY <1>1, <1>2, <2>1, <3>1, Zenon DEF OneRequest
  <2> QED
    BY <2>3, <2>4
<1>8. Kinds(s, u, n, fl, bans)
  BY <1>2 DEF Kinds
<1>9. Refusals(y, s, n, bans)
  <2>1. CASE y.refused = r.refused
    BY <2>1 DEF Refusals
  <2>2. CASE y.refused = m /\ m \notin r.routes /\ ~r.stopping
    <3>1. m \notin Handshake
      BY <2>2, <1>2, Zenon DEF Ordered
    <3>2. m # "Addresses"
      <4> SUFFICES ASSUME m = "Addresses" PROVE FALSE
        OBVIOUS
      <4>1. r.main = "gone" \/ "ReceiveAddresses" \in r.waiting
        BY <1>2, <2>2, Zenon DEF OneRequest, Asking
      <4>2. r.main # "gone"
        BY Zenon DEF Local
      <4> QED
        BY <4>1, <4>2, <2>2, Zenon DEF Local
    <3>3. m \in OfFlows(s) /\ m \in Commands(fl) => FALSE
      BY <1>2, <2>2, <3>2, Zenon DEF Told
    <3>4. CASE m = "InvRelayBlock"
      <4>1. s.announced > 0
        BY <3>3, <3>4, <1>2 DEF OfFlows, Kinds, EndType
      <4> QED
        BY <2>2, <3>4, <4>1, ZenonT(30) DEF Refusals
    <3>5. CASE m = "Reject"
      BY <2>2, <3>5, <1>2, Zenon DEF Refusals, Kinds
    <3>6. m \in {"Reject", "InvRelayBlock"} \cup (Asked \cap Commands(fl))
      BY <3>1, <1>2 DEF Kinds
    <3> QED
      BY <3>3, <3>4, <3>5, <3>6 DEF OfFlows
  <2> QED
    BY <1>1, <2>1, <2>2, Zenon
<1> QED
  BY <1>1, <1>3, <1>5, <1>6, <1>7, <1>8, <1>9, Zenon DEF u

\* The other end may go on relying on an end that receives a message.
LEMMA SenderReceives ==
  ASSUME NEW q, NEW r, NEW v, NEW S, NEW w \in Seq(S), w # <<>>, NEW n, NEW fl, NEW bans,
         Pair(q, r, v, w, n, fl, bans), EndType(r),
         NEW y, y = EnqueueIncomingMessage(r, Head(w))
  PROVE  Pair(q, y, v, Tail(w), n, fl, bans)
<1> DEFINE m == Head(w)
           u == Tail(w)
<1> USE DEF Pair
<1>1. Receives(r, y, m)
  BY EnqueuedEnd
<1>2. /\ In(m, w)
      /\ \A k : In(k, u) => In(k, w)
      /\ \A k : Once(k, w) => Once(k, u)
      /\ Once(m, w) => ~In(m, u)
  BY TakeMessage
<1> HIDE DEF m, u
<1>3. /\ \A k : Waits(k, y.incoming) => Waits(k, r.incoming) \/ k = m
      /\ \A k : Waits(k, r.incoming) /\ k # m => y.incoming[k] = r.incoming[k]
      /\ Waits(m, y.incoming) /\ ~Waits(m, r.incoming) => y.incoming[m] = 1
  <2>1. CASE y.incoming = r.incoming
    BY <2>1, Zenon
  <2>2. CASE Added(y.incoming, r.incoming, m)
    BY <2>2, Zenon DEF Added
  <2> QED
    BY <1>1, <2>1, <2>2, Zenon DEF Receives
<1>4. y.main = r.main /\ y.receiveVersion = r.receiveVersion /\ y.announced = r.announced
  BY <1>1, Zenon DEF Receives
<1>5. Ordered(q, y, v)
  BY <1>4, Zenon DEF Ordered, PastReady
<1>6. Told(q, y, v, u, fl)
  <2>1. OfFlows(y) = OfFlows(r) /\ (InFlows(y) <=> InFlows(r))
    BY <1>4, Zenon DEF OfFlows, InFlows
  <2>2. Waits("Ready", y.incoming) => Waits("Ready", r.incoming) \/ In("Ready", w)
    BY <1>2, <1>3, Zenon
  <2> QED
    BY <1>2, <2>1, <2>2, Zenon DEF Told
<1>7. OneRequest(q, y, v, u)
  <2>1. CASE m = "RequestAddresses"
    <3>1. /\ In("RequestAddresses", w) /\ ~Waits("RequestAddresses", r.incoming)
          /\ ~In("RequestAddresses", u) /\ ~In("Addresses", v) /\ ~Waits("Addresses", q.incoming)
          /\ q.main = "gone" \/ Asking(q)
      BY <2>1, <1>2, Zenon DEF OneRequest
    <3>2. Waits("RequestAddresses", y.incoming) => y.incoming["RequestAddresses"] = 1
      BY <2>1, <3>1, <1>3, Zenon
    <3> QED
      BY <1>2, <3>1, <3>2, Zenon DEF OneRequest
  <2>2. CASE m # "RequestAddresses"
    <3>1. Waits("RequestAddresses", y.incoming) =>
            /\ Waits("RequestAddresses", r.incoming)
            /\ y.incoming["RequestAddresses"] = r.incoming["RequestAddresses"]
      BY <2>2, <1>3, Zenon
    <3> QED
      BY <1>2, <3>1, Zenon DEF OneRequest
  <2> QED
    BY <2>1, <2>2
<1>8. Kinds(y, v, n, fl, bans) /\ Refusals(q, y, n, bans)
  BY <1>4, Zenon DEF Kinds, Refusals
<1> QED
  BY <1>5, <1>6, <1>7, <1>8 DEF u

-----------------------------------------------------------------------------
(* All connections.                                                         *)

Message == Handshake \cup {"Reject", "InvRelayBlock"} \cup Asked

ConnectionTypes ==
  /\ setting \in Settings
  /\ DOMAIN stream = Connection /\ DOMAIN end = End /\ DOMAIN peers = Node
  /\ wire \in [End -> Seq(Message)]
  /\ \A e \in End : EndType(end[e]) /\ Local(end[e], setting.flows)

\* Ends that were made, and what each two of a connection know of each other.
Connections ==
  /\ ConnectionTypes
  /\ \A e \in End : stream[e[1]] = "none" => end[e] = NoEnd
  /\ \A e \in End :
       /\ Silent(end[e], end[Other(e)], wire[e], wire[Other(e)])
       /\ Pair(end[e], end[Other(e)], wire[e], wire[Other(e)], Other(e)[2], setting.flows, banned)

\* The peers of a node are connections of it.
PeerList ==
  /\ \A n \in Node : peers[n] \in Connection \cup {NoConnection}
  /\ PeersExact

ConnectionIInv == Connections /\ PeerList

\* A connection has two ends.
LEMMA TwoEnds ==
  ASSUME NEW e \in End
  PROVE  /\ Other(e) \in End /\ Other(Other(e)) = e /\ Other(e) # e /\ Other(e)[1] = e[1]
         /\ e = <<e[1], e[2]>> /\ e[1] \in Connection /\ e[2] \in Node
         /\ \A d \in End : Other(d) = e => d = Other(e)
<1>1. PICK c \in Connection, n \in Node : e = <<c, n>>
  BY DEF End
<1>2. Dialler # Listener
  BY ConnectionAssumption
<1>3. e[1] = c /\ e[2] = n
  BY <1>1
<1>4. Other(e) = <<c, IF n = Dialler THEN Listener ELSE Dialler>>
  BY <1>3 DEF Other
<1>5. (IF n = Dialler THEN Listener ELSE Dialler) \in Node
  BY DEF Node
<1>6. Other(e) \in End
  BY <1>4, <1>5 DEF End
<1>7. Other(Other(e)) = e
  BY <1>1, <1>2, <1>4 DEF Other, Node
<1>8. ASSUME NEW d \in End, Other(d) = e PROVE d = Other(e)
  <2>1. PICK k \in Connection, l \in Node : d = <<k, l>>
    BY DEF End
  <2>2. Other(d) = <<k, IF l = Dialler THEN Listener ELSE Dialler>>
    BY <2>1 DEF Other
  <2> QED
    BY <2>1, <2>2, <1>1, <1>2, <1>4, <1>8 DEF Node
<1> QED
  BY <1>1, <1>2, <1>3, <1>4, <1>6, <1>7, <1>8

\* A ban is never lifted.
LEMMA BansGrow ==
  ASSUME NEW r, NEW s, NEW w, NEW v, NEW n, NEW fl, NEW bans, NEW more,
         Pair(r, s, w, v, n, fl, bans), bans \subseteq more
  PROVE  Pair(r, s, w, v, n, fl, more)
BY DEF Pair, Kinds, Refusals

\* The number of connections is that of the setting.
LEMMA SameEnds == ASSUME setting' = setting PROVE Connection' = Connection /\ End' = End
BY DEF Connection, End

\* What the steps below do to the streams.
StreamsGo(e) ==
  /\ DOMAIN stream' = Connection /\ stream'[e[1]] # "none"
  /\ \A c \in Connection : stream'[c] = "none" => stream[c] = "none"

\* A step of one end only concerns the two ends of its connection.
LEMMA OneConnection ==
  ASSUME Connections, NEW e \in End, NEW x, x # NoEnd, end' = [end EXCEPT ![e] = x],
         EndType(x), Local(x, setting.flows), setting' = setting, banned \subseteq banned',
         StreamsGo(e), DOMAIN peers' = Node, wire' \in [End -> Seq(Message)],
         \A d \in End : d # e /\ d # Other(e) => wire'[d] = wire[d],
         Silent(x, end[Other(e)], wire'[e], wire'[Other(e)]),
         Pair(x, end[Other(e)], wire'[e], wire'[Other(e)], Other(e)[2], setting.flows, banned'),
         Pair(end[Other(e)], x, wire'[Other(e)], wire'[e], e[2], setting.flows, banned')
  PROVE  Connections'
<1> DEFINE o == Other(e)
<1>1. /\ o \in End /\ Other(o) = e /\ o # e /\ e[1] \in Connection
      /\ \A d \in End : Other(d) = e => d = o
  BY TwoEnds
<1>2. /\ DOMAIN end = End /\ setting \in Settings
      /\ \A d \in End : EndType(end[d]) /\ Local(end[d], setting.flows)
  BY Zenon DEF Connections, ConnectionTypes
<1>3. DOMAIN end' = End /\ end'[e] = x /\ \A d \in End : d # e => end'[d] = end[d]
  BY <1>2, Zenon
<1>4. \A d \in End : EndType(end'[d]) /\ Local(end'[d], setting'.flows)
  BY <1>2, <1>3, Zenon
<1>5. ConnectionTypes'
  BY <1>2, <1>3, <1>4, SameEnds, Zenon DEF ConnectionTypes, StreamsGo
<1>6. \A d \in End : stream'[d[1]] = "none" => end'[d] = NoEnd
  <2> TAKE d \in End
  <2> HAVE stream'[d[1]] = "none"
  <2>1. d # e /\ stream[d[1]] = "none"
    BY TwoEnds DEF StreamsGo
  <2> QED
    BY <1>3, <2>1, Zenon DEF Connections
<1>7. ASSUME NEW d \in End
      PROVE  /\ Silent(end'[d], end'[Other(d)], wire'[d], wire'[Other(d)])
             /\ Pair(end'[d], end'[Other(d)], wire'[d], wire'[Other(d)], Other(d)[2],
                     setting'.flows, banned')
  <2>1. CASE d = e
    <3>1. end'[d] = x /\ end'[Other(d)] = end[o]
      BY <1>1, <1>3, <2>1, Zenon
    <3> QED
      BY <2>1, <3>1, Zenon
  <2>2. CASE d = o
    <3>1. end'[d] = end[o] /\ end'[Other(d)] = x /\ Other(d) = e
      BY <1>1, <1>3, <2>2, Zenon
    <3>2. Silent(end[o], x, wire'[o], wire'[e])
      BY Zenon DEF Silent
    <3> QED
      BY <2>2, <3>1, <3>2, Zenon
  <2>3. CASE d # e /\ d # o
    <3>1. Other(d) \in End /\ Other(d) # e /\ Other(d) # o
      BY <1>1, <2>3, TwoEnds, Zenon
    <3>2. /\ end'[d] = end[d] /\ end'[Other(d)] = end[Other(d)]
          /\ wire'[d] = wire[d] /\ wire'[Other(d)] = wire[Other(d)]
      BY <1>3, <2>3, <3>1, Zenon
    <3>3. /\ Silent(end[d], end[Other(d)], wire[d], wire[Other(d)])
          /\ Pair(end[d], end[Other(d)], wire[d], wire[Other(d)], Other(d)[2], setting.flows, banned)
      BY Zenon DEF Connections
    <3>4. Pair(end[d], end[Other(d)], wire[d], wire[Other(d)], Other(d)[2], setting.flows, banned')
      BY <3>3, BansGrow, Zenon
    <3> QED
      BY <3>2, <3>3, <3>4, Zenon
  <2> QED
    BY <2>1, <2>2, <2>3, Zenon
<1> QED
  BY <1>5, <1>6, <1>7, SameEnds, Zenon DEF Connections

\* The end before and after a step that receives nothing, when the other one is not made yet.
LEMMA SilentGoes ==
  ASSUME NEW r, NEW x, NEW s, NEW w, NEW v, NEW fl, Silent(r, s, w, v), Goes(r, x, fl)
  PROVE  Silent(x, s, w, v)
BY DEF Silent, Goes, Less

\* An end that has said nothing to the other yet may send the message its step allows.
LEMMA SilentSends ==
  ASSUME NEW r, NEW x, NEW s, NEW w, NEW S, NEW v \in Seq(S), NEW fl, NEW m \in S, Silent(r, s, w, v),
         Goes(r, x, fl), MaySend(r, x, m, fl)
  PROVE  Silent(x, s, w, Append(v, m))
<1>1. \A k : In(k, Append(v, m)) <=> In(k, v) \/ k = m
  BY AppendMessage
<1>2. Silent(x, s, w, v)
  BY SilentGoes
<1>3. s = NoEnd => m \in {"Version", "Reject"}
  BY DEF Silent, MaySend
<1> QED
  BY <1>1, <1>2, <1>3 DEF Silent

\* A step that sends nothing, and one that sends message m, which may get lost.
LEMMA EndGoes ==
  ASSUME Connections, NEW e \in End, NEW x, x # NoEnd, end' = [end EXCEPT ![e] = x],
         Goes(end[e], x, setting.flows), setting' = setting, banned \subseteq banned',
         StreamsGo(e), DOMAIN peers' = Node, wire' = wire
  PROVE  Connections'
<1> DEFINE o == Other(e)
           fl == setting.flows
<1>1. o \in End /\ Other(o) = e /\ o # e
  BY TwoEnds, Zenon
<1>2. wire' \in [End -> Seq(Message)] /\ EndType(end[e]) /\ EndType(end[o]) /\ fl \in FlowSets
  BY <1>1 DEF Connections, ConnectionTypes, FlowSets
<1>3. EndType(x) /\ Local(x, fl)
  BY Zenon DEF Goes
<1>4. /\ Silent(end[e], end[o], wire[e], wire[o])
      /\ Pair(end[e], end[o], wire[e], wire[o], o[2], fl, banned)
      /\ Pair(end[o], end[e], wire[o], wire[e], e[2], fl, banned)
  BY <1>1, ZenonT(30) DEF Connections
<1>5. Silent(x, end[o], wire'[e], wire'[o])
  BY <1>4, SilentGoes
<1>6. Pair(x, end[o], wire'[e], wire'[o], o[2], fl, banned')
  BY <1>2, <1>4, ReceiverGoes
<1>7. Pair(end[o], x, wire'[o], wire'[e], e[2], fl, banned')
  BY <1>2, <1>4, SenderGoes, Zenon
<1> QED
  BY <1>2, <1>3, <1>5, <1>6, <1>7, OneConnection, Zenon

\* A step of one end that enqueues one message keeps all connections as they should be.
LEMMA EndSends ==
  ASSUME Connections, NEW e \in End, NEW x, x # NoEnd, end' = [end EXCEPT ![e] = x],
         NEW m \in Message, MaySend(end[e], x, m, setting.flows), m = "Reject" => e[2] \in banned',
         Goes(end[e], x, setting.flows), setting' = setting, banned \subseteq banned',
         StreamsGo(e), DOMAIN peers' = Node, Enqueue(e, m)
  PROVE  Connections'
<1> DEFINE o == Other(e)
           fl == setting.flows
<1>1. CASE wire' = wire
  BY <1>1, EndGoes, Zenon
<1>2. CASE wire' = [wire EXCEPT ![o] = Append(@, m)]
  <2>1. o \in End /\ Other(o) = e /\ o # e
    BY TwoEnds, Zenon
  <2>2. wire \in [End -> Seq(Message)] /\ EndType(end[e]) /\ EndType(end[o]) /\ fl \in FlowSets
    BY <2>1, Zenon DEF Connections, ConnectionTypes, FlowSets
  <2>3. EndType(x) /\ Local(x, fl)
    BY Zenon DEF Goes
  <2>4. /\ Silent(end[e], end[o], wire[e], wire[o])
        /\ Pair(end[e], end[o], wire[e], wire[o], o[2], fl, banned)
        /\ Pair(end[o], end[e], wire[o], wire[e], e[2], fl, banned)
    BY <2>1, Zenon DEF Connections
  <2>5. /\ wire' \in [End -> Seq(Message)]
        /\ wire'[o] = Append(wire[o], m) /\ wire'[e] = wire[e]
        /\ \A d \in End : d # e /\ d # o => wire'[d] = wire[d]
    BY <1>2, <2>1, <2>2
  <2>6. Silent(x, end[o], wire[e], Append(wire[o], m))
    BY <2>1, <2>2, <2>4, SilentSends
  <2>7. Pair(x, end[o], wire[e], Append(wire[o], m), o[2], fl, banned')
    BY <2>1, <2>2, <2>4, ReceiverSends
  <2>8. Pair(end[o], x, Append(wire[o], m), wire[e], e[2], fl, banned')
    BY <2>1, <2>2, <2>4, SenderSends
  <2> QED
    BY <2>2, <2>3, <2>5, <2>6, <2>7, <2>8, OneConnection, Zenon
<1> QED
  BY <1>1, <1>2 DEF Enqueue

-----------------------------------------------------------------------------
(* The operators the steps are made of.                                     *)

\* Disconnect closes the routes of an end.
LEMMA Disconnected ==
  ASSUME NEW r, EndType(r)
  PROVE  Keeps(r, Disconnect(r), {"closed", "shut"}) /\ Disconnect(r).closed = TRUE
BY Zenon DEF Disconnect, EndType, Fields, Keeps

\* An error may close them.
LEMMA AfterErrors ==
  ASSUME NEW r, EndType(r), NEW err
  PROVE  /\ Keeps(r, AfterError(r, err), {"closed", "shut"})
         /\ AfterError(r, err).closed \in BOOLEAN
         /\ r.closed => AfterError(r, err).closed
<1>1. CASE AfterError(r, err) = r
  BY <1>1 DEF EndType, Keeps
<1>2. CASE AfterError(r, err) = Disconnect(r)
  BY <1>2, Disconnected, Zenon
<1> QED
  BY <1>1, <1>2 DEF AfterError

\* An error of the handshake, and one of a flow.
LEMMA HandshakeErrors ==
  ASSUME NEW r, EndType(r), NEW err PROVE Keeps(r, HandshakeError(r, err), {"failure"})
BY DEF HandshakeError, EndType, Fields, Keeps

\* HandleError stops the flows and records the error, and touches nothing else.
LEMMA FlowErrors ==
  ASSUME NEW r, DOMAIN r = Fields, r.stopping \in BOOLEAN, NEW err
  PROVE  /\ Keeps(r, HandleError(r, err), {"stopping", "error"})
         /\ HandleError(r, err).stopping = TRUE
BY Zenon DEF HandleError, Fields, Keeps

\* A message is taken out of its route.
LEMMA Dequeued ==
  ASSUME NEW r, EndType(r), NEW m, HasMessage(r, m)
  PROVE  /\ Keeps(r, Dequeue(r, m), {"incoming"}) /\ EndType(Dequeue(r, m))
         /\ Counts(Dequeue(r, m).incoming)
         /\ Taken(Dequeue(r, m).incoming, r.incoming, m)
<1> DEFINE y == Dequeue(r, m)
<1>1. /\ Keeps(r, y, {"incoming"})
      /\ y.incoming = Take(r.incoming, m)
  BY DEF Dequeue, Keeps, EndType, Fields
<1>2. Counts(r.incoming) /\ Waits(m, r.incoming)
  BY DEF EndType, HasMessage, Waits
<1>3. Counts(y.incoming) /\ Taken(y.incoming, r.incoming, m)
  BY <1>1, <1>2, TakeOne, Zenon
<1> HIDE DEF y
<1>4. EndType(y)
  <2>1. DOMAIN y = Fields /\ y.receiving = r.receiving /\ y.closed = r.closed
        /\ y.stopping = r.stopping /\ y.announced = r.announced
    BY <1>1 DEF Keeps, Fields
  <2> QED
    BY <1>3, <2>1, Zenon DEF EndType
<1> QED
  BY <1>1, <1>3, <1>4 DEF y

\* The routes that go with a flow that returns.
RoutesOf(f) == IF f \in OneTimeFlows THEN FlowRoutes[f] ELSE {}

\* The flow f of end r returns, which makes it y.
Returns(r, f, err, y) == y = Return(r, f, err)

HasReturned(r, f, err, y) ==
  /\ Keeps(r, y, {"routes", "running", "waiting", "stopping", "error"})
  /\ y.running = r.running \ {f} /\ y.waiting = r.waiting \ {f}
  /\ y.routes = r.routes \ RoutesOf(f)
  /\ y.stopping \in BOOLEAN
  /\ r.stopping => y.stopping
  /\ err # NoError => y.stopping

\* A flow returns.
LEMMA Returned ==
  ASSUME NEW r, EndType(r), NEW f, NEW err, NEW y, Returns(r, f, err, y)
  PROVE  HasReturned(r, f, err, y)
<1> DEFINE left == [RemoveRoute(r, RoutesOf(f)) EXCEPT !.running = @ \ {f}, !.waiting = @ \ {f}]
<1>1. y = IF err = NoError THEN left ELSE HandleError(left, err)
  BY DEF Return, Returns, RoutesOf
<1>2. /\ Keeps(r, left, {"routes", "running", "waiting"})
      /\ left.running = r.running \ {f} /\ left.waiting = r.waiting \ {f}
      /\ left.routes = r.routes \ RoutesOf(f)
  BY Zenon DEF EndType, Keeps, Fields, RemoveRoute
<1> HIDE DEF left
<1>3. left.stopping = r.stopping /\ left.stopping \in BOOLEAN /\ DOMAIN left = Fields
  BY <1>2, Zenon DEF Keeps, Fields, EndType
<1>4. CASE err = NoError
  <2>1. y = left
    BY <1>1, <1>4
  <2>2. Keeps(r, y, {"routes", "running", "waiting", "stopping", "error"})
    BY <1>2, <2>1 DEF Keeps, Fields
  <2> QED
    BY <1>2, <1>3, <1>4, <2>1, <2>2 DEF HasReturned
<1>5. CASE err # NoError
  <2>1. y = HandleError(left, err)
    BY <1>1, <1>5
  <2>2. Keeps(left, y, {"stopping", "error"}) /\ y.stopping = TRUE
    BY <1>3, <2>1, FlowErrors, Zenon
  <2>3. Keeps(r, y, {"routes", "running", "waiting", "stopping", "error"})
    BY <1>2, <2>2 DEF Keeps, Fields
  <2>4. y.running = left.running /\ y.waiting = left.waiting /\ y.routes = left.routes
    BY <2>2 DEF Keeps, Fields
  <2> QED
    BY <1>2, <2>2, <2>3, <2>4, Zenon DEF HasReturned
<1> QED
  BY <1>4, <1>5, Zenon

-----------------------------------------------------------------------------
(* The peers.                                                               *)

\* An end that is left is in no list of peers.
LEMMA LeftRegistered ==
  ASSUME NEW r, EndType(r) PROVE Left(r).main \in Registered <=> r.main \in Registered
BY LeftEnd, Zenon DEF Registered

\* A step by which an end neither becomes a peer nor ceases to be one.
LEMMA PeersStay ==
  ASSUME ConnectionIInv, NEW e \in End, NEW x, end' = [end EXCEPT ![e] = x],
         x.main \in Registered <=> end[e].main \in Registered,
         setting' = setting, peers' = peers
  PROVE  PeerList'
<1>1. DOMAIN end = End
  BY Zenon DEF ConnectionIInv, Connections, ConnectionTypes
<1>2. ASSUME NEW d \in End
      PROVE  (peers'[d[2]] = d[1]) = (end'[d].main \in Registered)
  <2>1. (peers[d[2]] = d[1]) = (end[d].main \in Registered)
    BY Zenon DEF ConnectionIInv, PeerList, PeersExact, Registered
  <2>2. end'[d].main \in Registered <=> end[d].main \in Registered
    BY <1>1
  <2> QED
    BY <2>1, <2>2
<1> QED
  BY <1>2, SameEnds, ZenonT(30) DEF ConnectionIInv, PeerList, PeersExact, Registered

\* AddToPeers: the connection becomes the peer.
LEMMA PeerAdded ==
  ASSUME ConnectionIInv, NEW e \in End, NEW x, end' = [end EXCEPT ![e] = x],
         x.main \in Registered, peers[e[2]] = NoConnection,
         setting' = setting, peers' = [peers EXCEPT ![e[2]] = e[1]]
  PROVE  PeerList'
<1>1. DOMAIN end = End /\ DOMAIN peers = Node /\ setting \in Settings
  BY DEF ConnectionIInv, Connections, ConnectionTypes
<1>2. e = <<e[1], e[2]>> /\ e[2] \in Node
  BY TwoEnds
<1>3. ASSUME NEW d \in End
      PROVE  (peers'[d[2]] = d[1]) = (end'[d].main \in Registered)
  <2>1. d = <<d[1], d[2]>> /\ d[2] \in Node /\ d[1] \in Connection
    BY TwoEnds
  <2>2. (peers[d[2]] = d[1]) = (end[d].main \in Registered)
    BY Zenon DEF ConnectionIInv, PeerList, PeersExact, Registered
  <2>3. CASE d = e
    BY <1>1, <1>2, <2>3
  <2>4. CASE d # e /\ d[2] # e[2]
    BY <1>1, <1>2, <2>1, <2>2, <2>4
  <2>5. CASE d # e /\ d[2] = e[2]
    <3>1. d[1] # e[1] /\ peers'[d[2]] = e[1] /\ end'[d] = end[d]
      BY <1>1, <1>2, <2>1, <2>5
    <3>2. d[1] \in Nat
      BY <2>1, <1>1, ConnectionAssumption DEF Connection
    <3>3. peers[d[2]] # d[1]
      BY <2>5, <3>2, ConnectionAssumption
    <3> QED
      BY <2>2, <3>1, <3>3
  <2> QED
    BY <2>3, <2>4, <2>5
<1>4. \A n \in Node : peers'[n] \in Connection \cup {NoConnection}
  BY <1>1, TwoEnds DEF ConnectionIInv, PeerList
<1> QED
  BY <1>3, <1>4, SameEnds, ZenonT(30) DEF PeerList, PeersExact, Registered

\* RemoveFromPeers: it was the peer, and is none any more.
LEMMA PeerRemoved ==
  ASSUME ConnectionIInv, NEW e \in End, NEW x, end' = [end EXCEPT ![e] = x],
         end[e].main \in Registered, x.main \notin Registered,
         setting' = setting, RemoveFromPeers(e)
  PROVE  PeerList'
<1>1. DOMAIN end = End /\ DOMAIN peers = Node /\ setting \in Settings
  BY DEF ConnectionIInv, Connections, ConnectionTypes
<1>2. e = <<e[1], e[2]>> /\ e[2] \in Node
  BY TwoEnds
<1>3. peers' = [peers EXCEPT ![e[2]] = NoConnection]
  BY DEF RemoveFromPeers
<1>4. peers[e[2]] = e[1]
  BY Zenon DEF ConnectionIInv, PeerList, PeersExact, Registered
<1>5. ASSUME NEW d \in End
      PROVE  (peers'[d[2]] = d[1]) = (end'[d].main \in Registered)
  <2>1. d = <<d[1], d[2]>> /\ d[2] \in Node /\ d[1] \in Connection
    BY TwoEnds
  <2>2. (peers[d[2]] = d[1]) = (end[d].main \in Registered)
    BY Zenon DEF ConnectionIInv, PeerList, PeersExact, Registered
  <2>3. d[1] \in Nat
    BY <2>1, <1>1, ConnectionAssumption DEF Connection
  <2>4. d[1] # NoConnection
    BY <2>3, ConnectionAssumption
  <2>5. CASE d = e
    BY <1>1, <1>2, <1>3, <2>4, <2>5
  <2>6. CASE d # e /\ d[2] # e[2]
    BY <1>1, <1>2, <1>3, <2>1, <2>2, <2>6
  <2>7. CASE d # e /\ d[2] = e[2]
    <3>1. d[1] # e[1] /\ peers'[d[2]] = NoConnection /\ end'[d] = end[d]
      BY <1>1, <1>2, <1>3, <2>1, <2>7
    <3> QED
      BY <1>4, <2>2, <2>4, <2>7, <3>1
  <2> QED
    BY <2>5, <2>6, <2>7
<1>6. \A n \in Node : peers'[n] \in Connection \cup {NoConnection}
  BY <1>1, <1>3 DEF ConnectionIInv, PeerList
<1> QED
  BY <1>5, <1>6, SameEnds, ZenonT(30) DEF PeerList, PeersExact, Registered

-----------------------------------------------------------------------------
(* Steps of an end, as the actions take them.                               *)

\* The stream of an end that was made is there.
LEMMA StreamThere ==
  ASSUME Connections, NEW e \in End, end[e] # NoEnd,
         stream' = stream \/ stream' = [stream EXCEPT ![e[1]] = "ended"]
  PROVE  StreamsGo(e)
<1>1. DOMAIN stream = Connection /\ e[1] \in Connection /\ stream[e[1]] # "none"
  BY TwoEnds DEF Connections, ConnectionTypes
<1> QED
  BY <1>1 DEF StreamsGo

\* A step that sends nothing.
LEMMA SilentStep ==
  ASSUME ConnectionIInv, NEW e \in End, end[e] # NoEnd, NEW y, Goes(end[e], y, setting.flows),
         Silently(e, y), banned' = banned, DOMAIN peers' = Node
  PROVE  Connections'
<1>1. /\ end' = [end EXCEPT ![e] = Left(y)] /\ setting' = setting /\ wire' = wire
      /\ stream' = stream
  BY DEF Silently, Only
<1>2. EndType(y)
  BY Zenon DEF Goes
<1>3. Goes(end[e], Left(y), setting.flows) /\ Left(y) # NoEnd
  BY <1>2, LeftGoes, LeftEnd, Zenon
<1> QED
  BY <1>1, <1>3, EndGoes, StreamThere, Zenon DEF ConnectionIInv

\* A step of one end that sends nothing and neither enters nor leaves the flows.
LEMMA SilentStepStays ==
  ASSUME ConnectionIInv, NEW e \in End, end[e] # NoEnd, NEW y, Goes(end[e], y, setting.flows),
         Silently(e, y), UNCHANGED <<peers, banned>>,
         y.main \in Registered <=> end[e].main \in Registered
  PROVE  ConnectionIInv'
<1>1. end' = [end EXCEPT ![e] = Left(y)] /\ setting' = setting
  BY DEF Silently, Only
<1>2. EndType(y)
  BY Zenon DEF Goes
<1>3. Left(y).main \in Registered <=> end[e].main \in Registered
  BY <1>2, LeftRegistered, Zenon
<1>4. DOMAIN peers' = Node
  BY DEF ConnectionIInv, Connections, ConnectionTypes
<1> QED
  BY <1>1, <1>3, <1>4, SilentStep, PeersStay, Zenon DEF ConnectionIInv

\* A step that sends message m.
LEMMA SendingStep ==
  ASSUME ConnectionIInv, NEW e \in End, end[e] # NoEnd, NEW y, Goes(end[e], y, setting.flows),
         NEW m \in Message, MaySend(end[e], y, m, setting.flows), Only(e, y), Enqueue(e, m),
         banned \subseteq banned', m = "Reject" => e[2] \in banned', peers' = peers,
         y.main \in Registered <=> end[e].main \in Registered
  PROVE  ConnectionIInv'
<1>1. /\ end' = [end EXCEPT ![e] = Left(y)] /\ setting' = setting /\ stream' = stream
  BY DEF Only
<1>2. EndType(y)
  BY Zenon DEF Goes
<1>3. /\ Goes(end[e], Left(y), setting.flows) /\ Left(y) # NoEnd
      /\ MaySend(end[e], Left(y), m, setting.flows)
  BY <1>2, LeftGoes, LeftSends, LeftEnd, ZenonT(30)
<1>4. Left(y).main \in Registered <=> end[e].main \in Registered
  BY <1>2, LeftRegistered, Zenon
<1>5. DOMAIN peers' = Node
  BY Zenon DEF ConnectionIInv, Connections, ConnectionTypes
<1>6. Connections'
  BY <1>1, <1>3, <1>5, EndSends, StreamThere, Zenon DEF ConnectionIInv
<1> QED
  BY <1>1, <1>4, <1>6, PeersStay, ZenonT(30) DEF ConnectionIInv

\* What is known of an end and of its flows.
LEMMA EndFacts ==
  ASSUME ConnectionIInv, NEW e \in End
  PROVE  /\ EndType(end[e]) /\ Local(end[e], setting.flows) /\ setting.flows \in FlowSets
         /\ DOMAIN peers = Node /\ e[2] \in Node
BY TwoEnds DEF ConnectionIInv, Connections, ConnectionTypes, FlowSets

-----------------------------------------------------------------------------
(* The goroutine of routerInitializer.                                      *)

\* The goroutine starts: it leaves a banned peer, or starts the handshake with its version.
LEMMA routerInitializerStep ==
  ASSUME ConnectionIInv, NEW e \in End, routerInitializer(e) PROVE ConnectionIInv'
<1> DEFINE r == end[e]
           fl == setting.flows
<1>1. /\ EndType(r) /\ Local(r, fl) /\ r.main = "start" /\ UNCHANGED <<peers, banned>>
  BY EndFacts, Zenon DEF routerInitializer
<1>2. r # NoEnd /\ r.running = {} /\ r.main \notin Registered
  BY <1>1, FreshEnds DEF Local, InFlows, Registered
<1>3. ASSUME NEW y, y = [Disconnect(r) EXCEPT !.main = "done"], Silently(e, y)
      PROVE  ConnectionIInv'
  <2>1. /\ Keeps(r, y, {"closed", "shut", "main", "routes"}) /\ y.main = "done"
        /\ y.closed = TRUE /\ r.routes \subseteq y.routes
    BY <1>1, <1>3, Disconnected, ZenonT(30) DEF Keeps, Fields
  <2>2. Goes(r, y, fl)
    BY <1>1, <1>2, <2>1, MainEndsGoes, Zenon
  <2> QED
    BY <1>1, <1>2, <1>3, <2>1, <2>2, SilentStepStays, Zenon DEF Registered
<1>4. ASSUME NEW y, y = [r EXCEPT !.main = "handshake", !.receiveVersion = "waiting",
                                  !.sendVersion = "waiting"],
             Sends(e, "Version", y)
      PROVE  ConnectionIInv'
  <2>1. /\ Keeps(r, y, {"main", "receiveVersion", "sendVersion", "failure"})
        /\ y.main = "handshake" /\ y.receiveVersion = "waiting"
    BY <1>1, <1>4, ZenonT(30) DEF Keeps, Fields, EndType
  <2>2. Goes(r, y, fl) /\ MaySend(r, y, "Version", fl)
    BY <1>1, <2>1, StartGoes
  <2>3. "Version" \in Message
    BY HandshakeMessages DEF Message
  <2> QED
    BY <1>1, <1>2, <1>4, <2>1, <2>2, <2>3, SendingStep, Zenon DEF Registered, Sends
<1>5. ASSUME NEW y, y = [HandshakeError(r, ErrRouteClosed) EXCEPT
                           !.main = "handshake", !.receiveVersion = "waiting",
                           !.sendVersion = "failed"],
             Silently(e, y)
      PROVE  ConnectionIInv'
  <2>1. /\ Keeps(r, y, {"main", "receiveVersion", "sendVersion", "failure"})
        /\ y.main = "handshake" /\ y.receiveVersion = "waiting"
    <3> DEFINE h == HandshakeError(r, ErrRouteClosed)
    <3>1. Keeps(r, h, {"failure"})
      BY <1>1, HandshakeErrors, Zenon
    <3>2. y = [h EXCEPT !.main = "handshake", !.receiveVersion = "waiting",
                        !.sendVersion = "failed"]
      BY <1>5, Zenon
    <3> HIDE DEF h, r
    <3> QED
      BY <3>1, <3>2, Zenon DEF Keeps, Fields
  <2>2. Goes(r, y, fl)
    BY <1>1, <2>1, StartGoes
  <2> QED
    BY <1>1, <1>2, <1>5, <2>1, <2>2, SilentStepStays, Zenon DEF Registered
<1> QED
  BY <1>3, <1>4, <1>5 DEF routerInitializer

\* receiveVersion takes the peer's version and answers or refuses it.
LEMMA ReceiveVersionStep ==
  ASSUME ConnectionIInv, NEW e \in End, ReceiveVersion(e) PROVE ConnectionIInv'
<1> DEFINE r == end[e]
           fl == setting.flows
<1>1. /\ EndType(r) /\ Local(r, fl) /\ r.receiveVersion = "waiting" /\ UNCHANGED <<peers, banned>>
  BY EndFacts, Zenon DEF ReceiveVersion
<1>2. r # NoEnd
  BY <1>1, FreshEnds
<1>3. ASSUME HasMessage(r, "Version"),
             NEW y, y = [Dequeue(r, "Version") EXCEPT !.receiveVersion = "done"],
             Sends(e, "VerAck", y)
      PROVE  ConnectionIInv'
  <2>1. /\ Keeps(r, Dequeue(r, "Version"), {"incoming"})
        /\ Counts(Dequeue(r, "Version").incoming)
        /\ Taken(Dequeue(r, "Version").incoming, r.incoming, "Version")
    BY <1>1, <1>3, Dequeued
  <2>2. /\ Keeps(r, y, {"receiveVersion", "failure", "incoming"}) /\ y.receiveVersion = "done"
        /\ y.incoming = Dequeue(r, "Version").incoming
    BY <1>3, <2>1 DEF Keeps, Fields
  <2>3. Counts(y.incoming) /\ Less(y.incoming, r.incoming) /\ Waits("Version", r.incoming)
    BY <1>3, <2>1, <2>2 DEF Taken, HasMessage, Waits
  <2>4. Goes(r, y, fl) /\ MaySend(r, y, "VerAck", fl)
    BY <1>1, <2>2, <2>3, VersionGoes, Zenon
  <2>5. "VerAck" \in Message /\ y.main = r.main
    BY <2>2, HandshakeMessages DEF Message, Keeps, Fields
  <2> QED
    BY <1>1, <1>2, <1>3, <2>4, <2>5, SendingStep, Zenon DEF Sends
<1>4. ASSUME NEW err, NEW y, y = [HandshakeError(r, err) EXCEPT !.receiveVersion = "failed"],
             Silently(e, y)
      PROVE  ConnectionIInv'
  <2>1. Keeps(r, y, {"receiveVersion", "failure", "incoming"}) /\ y.receiveVersion = "failed"
        /\ y.incoming = r.incoming /\ y.main = r.main
    BY <1>1, <1>4, HandshakeErrors DEF Keeps, Fields
  <2>2. Counts(y.incoming) /\ Less(y.incoming, r.incoming)
    BY <1>1, <2>1, LessOrSame, Zenon DEF EndType
  <2>3. Goes(r, y, fl)
    BY <1>1, <2>1, <2>2, VersionGoes, Zenon
  <2> QED
    BY <1>1, <1>2, <1>4, <2>1, <2>3, SilentStepStays, Zenon
<1>5. ASSUME HasMessage(r, "Version"), NEW err,
             NEW y, y = [HandshakeError(Dequeue(r, "Version"), err) EXCEPT !.receiveVersion = "failed"],
             Silently(e, y)
      PROVE  ConnectionIInv'
  <2> DEFINE d == Dequeue(r, "Version")
  <2>1. Keeps(r, d, {"incoming"}) /\ Counts(d.incoming) /\ Taken(d.incoming, r.incoming, "Version")
    BY <1>1, <1>5, Dequeued
  <2>2. /\ Keeps(r, y, {"receiveVersion", "failure", "incoming"}) /\ y.receiveVersion = "failed"
        /\ y.incoming = d.incoming /\ y.main = r.main
    <3>1. y = [(IF d.failure = NoError THEN [d EXCEPT !.failure = err] ELSE d)
                 EXCEPT !.receiveVersion = "failed"]
      BY <1>5, Zenon DEF HandshakeError
    <3> HIDE DEF d
    <3> QED
      BY <2>1, <3>1 DEF Keeps, Fields
  <2>3. Counts(y.incoming) /\ Less(y.incoming, r.incoming)
    BY <2>1, <2>2 DEF Taken
  <2>4. Goes(r, y, fl)
    BY <1>1, <2>2, <2>3, VersionGoes, Zenon
  <2> QED
    BY <1>1, <1>2, <1>5, <2>2, <2>4, SilentStepStays, Zenon
<1> QED
  BY <1>3, <1>4, <1>5, Zenon DEF ReceiveVersion

\* sendVersion waits for the verack.
LEMMA SendVersionStep ==
  ASSUME ConnectionIInv, NEW e \in End, SendVersion(e) PROVE ConnectionIInv'
<1> DEFINE r == end[e]
           fl == setting.flows
           F == {"loops", "receiving", "closed", "shut", "sendVersion", "failure", "incoming",
                 "announced"}
<1>1. /\ EndType(r) /\ Local(r, fl) /\ r.sendVersion = "waiting" /\ UNCHANGED <<peers, banned>>
  BY EndFacts DEF SendVersion
<1>2. r # NoEnd
  BY <1>1, FreshEnds, ZenonT(30)
<1>3. ASSUME NEW y, Keeps(r, y, {"sendVersion", "failure", "incoming"}), Counts(y.incoming),
             Less(y.incoming, r.incoming), Silently(e, y)
      PROVE  ConnectionIInv'
  <2>1. /\ Keeps(r, y, F) /\ y.receiving = r.receiving /\ y.closed = r.closed
        /\ y.loops = r.loops /\ y.announced = r.announced /\ y.main = r.main
    BY <1>3 DEF Keeps, Fields
  <2>2. Goes(r, y, fl)
    <3>1. y.announced \in Nat /\ y.announced >= r.announced
      BY <1>1, <2>1, AnnouncedStays, ZenonT(30) DEF EndType
    <3>2. y.receiving \in BOOLEAN /\ y.closed \in BOOLEAN /\ (y.loops = "done" => y.closed)
      BY <1>1, <2>1, Zenon DEF EndType, Local
    <3> QED
      BY <1>1, <1>3, <2>1, <3>1, <3>2, CalmGoes, Zenon
  <2> QED
    BY <1>1, <1>2, <1>3, <2>1, <2>2, SilentStepStays, Zenon
<1>4. ASSUME HasMessage(r, "VerAck"),
             NEW y, y = [Dequeue(r, "VerAck") EXCEPT !.sendVersion = "done"], Silently(e, y)
      PROVE  ConnectionIInv'
  <2>1. /\ Keeps(r, Dequeue(r, "VerAck"), {"incoming"})
        /\ Counts(Dequeue(r, "VerAck").incoming)
        /\ Taken(Dequeue(r, "VerAck").incoming, r.incoming, "VerAck")
    BY <1>1, <1>4, Dequeued
  <2>2. /\ Keeps(r, y, {"sendVersion", "failure", "incoming"})
        /\ y.incoming = Dequeue(r, "VerAck").incoming
    BY <1>4, <2>1, SMTT(30) DEF Keeps, Fields
  <2>3. Counts(y.incoming) /\ Less(y.incoming, r.incoming)
    BY <2>1, <2>2, Zenon DEF Taken
  <2> QED
    BY <1>3, <1>4, <2>2, <2>3, ZenonT(30)
<1>5. ASSUME NEW err, NEW y, y = [HandshakeError(r, err) EXCEPT !.sendVersion = "failed"],
             Silently(e, y)
      PROVE  ConnectionIInv'
  <2>1. Keeps(r, y, {"sendVersion", "failure", "incoming"}) /\ y.incoming = r.incoming
    BY <1>1, <1>5, HandshakeErrors, SMTT(30) DEF Keeps, Fields
  <2>2. Counts(y.incoming) /\ Less(y.incoming, r.incoming)
    BY <1>1, <2>1, LessOrSame DEF EndType
  <2> QED
    BY <1>3, <1>5, <2>1, <2>2, Zenon
<1> QED
  BY <1>4, <1>5, Zenon DEF SendVersion

\* HandleHandshake: the peer is added, or the ID is taken and the connection closed.
LEMMA AddToPeersStep ==
  ASSUME ConnectionIInv, NEW e \in End, AddToPeers(e) PROVE ConnectionIInv'
<1> DEFINE r == end[e]
           fl == setting.flows
<1>1. /\ EndType(r) /\ Local(r, fl) /\ r.main = "handshake" /\ r.receiveVersion = "done"
      /\ banned' = banned /\ DOMAIN peers = Node /\ e[2] \in Node
  BY EndFacts, Zenon DEF AddToPeers
<1>2. r # NoEnd /\ r.running = {} /\ r.main \notin Registered
  BY <1>1, FreshEnds DEF Local, InFlows, Registered
<1>3. ASSUME NEW y, y = [AfterError(r, ProtocolError) EXCEPT !.main = "done"], Silently(e, y),
             peers' = peers
      PROVE  ConnectionIInv'
  <2> DEFINE h == AfterError(r, ProtocolError)
  <2>1. /\ Keeps(r, h, {"closed", "shut"}) /\ h.closed \in BOOLEAN /\ (r.closed => h.closed)
    BY <1>1, AfterErrors, Zenon
  <2>2. y = [h EXCEPT !.main = "done"]
    BY <1>3
  <2> HIDE DEF h
  <2>3. /\ Keeps(r, y, {"closed", "shut", "main", "routes"}) /\ y.main = "done"
        /\ y.closed = h.closed /\ y.routes = r.routes
    BY <2>1, <2>2, SMTT(30) DEF Keeps, Fields
  <2>4. Goes(r, y, fl)
    BY <1>1, <1>2, <2>1, <2>3, MainEndsGoes, Zenon
  <2> QED
    BY <1>1, <1>2, <1>3, <2>3, <2>4, SilentStepStays, Zenon DEF Registered
<1>4. ASSUME peers[e[2]] = NoConnection, NEW y, y = [r EXCEPT !.main = "register"], Silently(e, y),
             peers' = [peers EXCEPT ![e[2]] = e[1]]
      PROVE  ConnectionIInv'
  <2>1. Keeps(r, y, {"main"}) /\ y.main = "register"
    BY <1>1, <1>4, SMTT(30) DEF Keeps, Fields, EndType
  <2>2. Goes(r, y, fl)
    BY <1>1, <2>1, AddGoes, Zenon
  <2>3. DOMAIN peers' = Node
    BY <1>1, <1>4
  <2>4. Connections'
    BY <1>1, <1>2, <1>4, <2>2, <2>3, SilentStep
  <2>5. end' = [end EXCEPT ![e] = Left(y)] /\ setting' = setting
    BY <1>4 DEF Silently, Only
  <2>6. Left(y).main \in Registered
    BY <2>1, <2>2, LeftRegistered, Zenon DEF Goes, Registered
  <2>7. PeerList'
    BY <1>4, <2>5, <2>6, PeerAdded, ZenonT(30)
  <2> QED
    BY <2>4, <2>7 DEF ConnectionIInv
<1> QED
  BY <1>3, <1>4 DEF AddToPeers

\* A ban, and the reject message that follows it, or another error.
LEMMA BanStep ==
  ASSUME ConnectionIInv, NEW e \in End, NEW y, Goes(end[e], y, setting.flows), Only(e, y),
         NEW err, Ban(e, err), peers' = peers, end[e] # NoEnd,
         y.main \in Registered <=> end[e].main \in Registered
  PROVE  ConnectionIInv'
<1>1. CASE err = BanningError
  <2>1. banned' = banned \cup {e[2]} /\ Enqueue(e, "Reject")
    BY <1>1, Zenon DEF Ban
  <2>2. MaySend(end[e], y, "Reject", setting.flows) /\ "Reject" \in Message
    BY HandshakeMessages, Zenon DEF MaySend, OfFlows, Asked, Message
  <2> QED
    BY <2>1, <2>2, SendingStep
<1>2. CASE err # BanningError
  BY <1>2, SilentStepStays DEF Ban, Silently
<1> QED
  BY <1>1, <1>2, Zenon

\* A handshake that failed bans or disconnects and never reaches the list of peers.
LEMMA HandshakeFailsStep ==
  ASSUME ConnectionIInv, NEW e \in End, HandshakeFails(e) PROVE ConnectionIInv'
<1> DEFINE r == end[e]
           fl == setting.flows
<1>1. /\ EndType(r) /\ Local(r, fl) /\ r.main = "handshake" /\ peers' = peers
  BY EndFacts DEF HandshakeFails
<1>2. r # NoEnd /\ r.running = {} /\ r.main \notin Registered
  BY <1>1, FreshEnds, Zenon DEF Local, InFlows, Registered
<1>3. PICK err : Only(e, [AfterError(r, err) EXCEPT !.main = "done"]) /\ Ban(e, err)
  BY DEF HandshakeFails
<1> DEFINE h == AfterError(r, err)
           y == [h EXCEPT !.main = "done"]
<1>4. /\ Keeps(r, h, {"closed", "shut"}) /\ h.closed \in BOOLEAN /\ (r.closed => h.closed)
  BY <1>1, AfterErrors, Zenon
<1> HIDE DEF h
<1>5. /\ Keeps(r, y, {"closed", "shut", "main", "routes"}) /\ y.main = "done"
      /\ y.closed = h.closed /\ y.routes = r.routes
  BY <1>4 DEF Keeps, Fields
<1>6. Only(e, y)
  BY <1>3, Zenon DEF h
<1> HIDE DEF y
<1>7. Goes(r, y, fl)
  BY <1>1, <1>2, <1>4, <1>5, MainEndsGoes
<1> QED
  BY <1>1, <1>2, <1>3, <1>5, <1>6, <1>7, BanStep, Zenon DEF Registered

\* The error of a flow bans or disconnects, and the goroutine goes on to remove the peer.
LEMMA FlowsFailStep ==
  ASSUME ConnectionIInv, NEW e \in End, FlowsFail(e) PROVE ConnectionIInv'
<1> DEFINE r == end[e]
           fl == setting.flows
<1>1. /\ EndType(r) /\ Local(r, fl) /\ r.main = "flows" /\ peers' = peers
  BY EndFacts, ZenonT(30) DEF FlowsFail
<1>2. r # NoEnd
  BY <1>1, FreshEnds
<1>3. PICK err : Only(e, [AfterError(r, err) EXCEPT !.main = "wait flows"]) /\ Ban(e, err)
  BY ZenonT(30) DEF FlowsFail
<1> DEFINE h == AfterError(r, err)
           y == [h EXCEPT !.main = "wait flows"]
<1>4. /\ Keeps(r, h, {"closed", "shut"}) /\ h.closed \in BOOLEAN /\ (r.closed => h.closed)
  BY <1>1, AfterErrors
<1> HIDE DEF h
<1>5. /\ Keeps(r, y, {"closed", "shut", "main"}) /\ y.main = "wait flows" /\ y.closed = h.closed
  BY <1>4, Zenon DEF Keeps, Fields
<1>6. Only(e, y)
  BY <1>3, Zenon DEF h
<1> HIDE DEF y
<1>7. Goes(r, y, fl)
  BY <1>1, <1>4, <1>5, FailGoes, Zenon
<1> QED
  BY <1>1, <1>2, <1>3, <1>5, <1>6, <1>7, BanStep, Zenon DEF Registered

\* The deferred RemoveFromPeers when routerInitializer ends.
LEMMA PeerEnds ==
  ASSUME ConnectionIInv, NEW e \in End, NEW y, Silently(e, y), RemoveFromPeers(e), banned' = banned,
         end[e].main \in Registered, end[e].running = {},
         Keeps(end[e], y, {"closed", "shut", "main", "routes"}), y.main = "done",
         end[e].routes \subseteq y.routes, y.closed \in BOOLEAN, end[e].closed => y.closed
  PROVE  ConnectionIInv'
<1> DEFINE r == end[e]
           fl == setting.flows
<1>1. EndType(r) /\ Local(r, fl) /\ DOMAIN peers = Node
  BY EndFacts, Zenon
<1>2. r # NoEnd /\ r.main \notin {"gone", "done"}
  BY FreshEnds, ZenonT(30) DEF Registered
<1>3. Goes(r, y, fl)
  BY <1>1, <1>2, MainEndsGoes, ZenonT(30)
<1>4. DOMAIN peers' = Node
  BY <1>1, SMTT(30) DEF RemoveFromPeers
<1>5. Connections'
  BY <1>2, <1>3, <1>4, SilentStep, Zenon
<1>6. end' = [end EXCEPT ![e] = Left(y)] /\ setting' = setting
  BY DEF Silently, Only
<1>7. Left(y).main \notin Registered
  BY <1>3, LeftRegistered, Zenon DEF Goes, Registered
<1> QED
  BY <1>5, <1>6, <1>7, PeerRemoved, Zenon DEF ConnectionIInv

\* The flows get their routes and the other side is told, or the connection was closed meanwhile.
LEMMA RegisterStep ==
  ASSUME ConnectionIInv, NEW e \in End, Register(e) PROVE ConnectionIInv'
<1> DEFINE r == end[e]
           fl == setting.flows
           a == AddIncomingRoute(r, FlowCommands)
<1>1. /\ EndType(r) /\ Local(r, fl) /\ r.main = "register" /\ banned' = banned
  BY EndFacts, ZenonT(30) DEF Register
<1>2. r # NoEnd /\ r.running = {} /\ r.main \in Registered
  BY <1>1, FreshEnds DEF Local, InFlows, Registered
<1>3. /\ Keeps(r, a, {"routes"}) /\ a.routes = r.routes \cup Commands(fl)
  BY <1>1 DEF AddIncomingRoute, FlowCommands, Commands, Keeps, Fields, EndType
<1>4. \/ /\ Silently(e, [AfterError(a, ErrRouteClosed) EXCEPT !.main = "done"])
         /\ RemoveFromPeers(e)
      \/ Sends(e, "Ready", [a EXCEPT !.main = "wait ready"]) /\ peers' = peers
  BY Zenon DEF Register
<1> HIDE DEF a
<1>5. ASSUME NEW y, y = [AfterError(a, ErrRouteClosed) EXCEPT !.main = "done"], Silently(e, y),
             RemoveFromPeers(e)
      PROVE  ConnectionIInv'
  <2> DEFINE h == AfterError(a, ErrRouteClosed)
  <2>1. EndType(a) /\ a.closed = r.closed
    BY <1>1, <1>3, ZenonT(30) DEF EndType, Keeps, Fields
  <2>2. /\ Keeps(a, h, {"closed", "shut"}) /\ h.closed \in BOOLEAN /\ (a.closed => h.closed)
    BY <2>1, AfterErrors, Zenon
  <2>3. y = [h EXCEPT !.main = "done"]
    BY <1>5
  <2> HIDE DEF h
  <2>4. /\ Keeps(r, y, {"closed", "shut", "main", "routes"}) /\ y.main = "done"
        /\ y.closed = h.closed /\ y.routes = a.routes
    BY <1>3, <2>2, <2>3 DEF Keeps, Fields
  <2> QED
    BY <1>1, <1>2, <1>3, <1>5, <2>1, <2>2, <2>4, PeerEnds, ZenonT(30)
<1>6. ASSUME NEW y, y = [a EXCEPT !.main = "wait ready"], Sends(e, "Ready", y), peers' = peers
      PROVE  ConnectionIInv'
  <2>1. /\ Keeps(r, y, {"main", "routes"}) /\ y.main = "wait ready"
        /\ y.routes = r.routes \cup Commands(fl)
    BY <1>3, <1>6, Zenon DEF Keeps, Fields
  <2>2. Goes(r, y, fl) /\ MaySend(r, y, "Ready", fl)
    BY <1>1, <2>1, RegisterGoes, Zenon
  <2>3. "Ready" \in Message
    BY HandshakeMessages DEF Message
  <2> QED
    BY <1>1, <1>2, <1>6, <2>1, <2>2, <2>3, SendingStep, Zenon DEF Registered, Sends
<1> QED
  BY <1>4, <1>5, <1>6, Zenon

\* The peer's Ready message starts the flows and ends the routes of the handshake.
LEMMA runFlowsStep ==
  ASSUME ConnectionIInv, NEW e \in End, runFlows(e) PROVE ConnectionIInv'
<1> DEFINE r == end[e]
           fl == setting.flows
           h == Dequeue(r, "Ready")
           y == [RemoveRoute(h, Handshake) EXCEPT !.running = fl, !.main = "flows"]
<1>1. /\ EndType(r) /\ Local(r, fl) /\ fl \in FlowSets /\ r.main = "wait ready"
      /\ HasMessage(r, "Ready") /\ UNCHANGED <<peers, banned>>
  BY EndFacts, Zenon DEF runFlows
<1>2. r # NoEnd
  BY <1>1, FreshEnds, Zenon
<1>3. Silently(e, y)
  BY Zenon DEF runFlows
<1>4. /\ Keeps(r, h, {"incoming"}) /\ Counts(h.incoming) /\ Taken(h.incoming, r.incoming, "Ready")
  BY <1>1, Dequeued, Zenon
<1> HIDE DEF h
<1>5. /\ Keeps(r, y, {"main", "routes", "incoming", "running"}) /\ y.main = "flows"
      /\ y.routes = r.routes \ Handshake /\ y.running = fl /\ y.incoming = h.incoming
  BY <1>4, Zenon DEF RemoveRoute, Keeps, Fields
<1> HIDE DEF y
<1>6. Counts(y.incoming) /\ Less(y.incoming, r.incoming) /\ Waits("Ready", r.incoming)
  BY <1>1, <1>4, <1>5, Zenon DEF Taken, HasMessage, Waits
<1>7. Goes(r, y, fl)
  BY <1>1, <1>5, <1>6, RunGoes, Zenon
<1> QED
  BY <1>1, <1>2, <1>3, <1>5, <1>7, SilentStepStays, Zenon DEF Registered

\* A peer that never gets ready is taken off the list again.
LEMMA ReadyFailsStep ==
  ASSUME ConnectionIInv, NEW e \in End, ReadyFails(e) PROVE ConnectionIInv'
<1> DEFINE r == end[e]
<1>1. /\ EndType(r) /\ Local(r, setting.flows) /\ r.main = "wait ready"
      /\ RemoveFromPeers(e) /\ banned' = banned
  BY EndFacts, Zenon DEF ReadyFails
<1>2. r.running = {} /\ r.main \in Registered
  BY <1>1, Zenon DEF Local, InFlows, Registered
<1>3. PICK err : Silently(e, [AfterError(r, err) EXCEPT !.main = "done"])
  BY Zenon DEF ReadyFails
<1> DEFINE h == AfterError(r, err)
           y == [h EXCEPT !.main = "done"]
<1>4. /\ Keeps(r, h, {"closed", "shut"}) /\ h.closed \in BOOLEAN /\ (r.closed => h.closed)
  BY <1>1, AfterErrors, Zenon
<1>5. Silently(e, y)
  BY <1>3, Zenon
<1> HIDE DEF h
<1>6. /\ Keeps(r, y, {"closed", "shut", "main", "routes"}) /\ y.main = "done"
      /\ y.closed = h.closed /\ y.routes = r.routes
  BY <1>4 DEF Keeps, Fields
<1> HIDE DEF y
<1> QED
  BY <1>1, <1>2, <1>4, <1>5, <1>6, PeerEnds, Zenon

\* When the last flow has returned the peer is taken off the list.
LEMMA FlowsEndStep ==
  ASSUME ConnectionIInv, NEW e \in End, FlowsEnd(e) PROVE ConnectionIInv'
<1> DEFINE r == end[e]
           y == [r EXCEPT !.main = "done"]
<1>1. /\ EndType(r) /\ r.main \in Registered /\ r.running = {}
      /\ RemoveFromPeers(e) /\ banned' = banned /\ Silently(e, y)
  BY EndFacts, Zenon DEF FlowsEnd, Registered
<1>2. /\ Keeps(r, y, {"closed", "shut", "main", "routes"}) /\ y.main = "done"
      /\ y.closed = r.closed /\ y.routes = r.routes
  BY <1>1, Zenon DEF Keeps, Fields, EndType
<1> HIDE DEF y
<1>3. y.closed \in BOOLEAN
  BY <1>1, <1>2 DEF EndType
<1> QED
  BY <1>1, <1>2, <1>3, PeerEnds, Zenon

-----------------------------------------------------------------------------
(* The flows.                                                               *)

FlowFields == {"incoming", "routes", "running", "waiting", "stopping", "error"}

\* The one-time flows and their routes.
LEMMA OneTimeRoutes ==
  /\ RoutesOf("ReceiveAddresses") = {"Addresses"}
  /\ \A f : f # "ReceiveAddresses" => RoutesOf(f) = {}
BY RoutesOfFlows, SMTT(30) DEF OneTimeFlows, RoutesOf

\* The flow that waits for addresses returns with an error or with their message.
MayReturn(r, h, f, err) ==
  \/ err # NoError \/ f # "ReceiveAddresses"
  \/ /\ Waits("Addresses", r.incoming)
     /\ Waits("Addresses", h.incoming) => r.incoming["Addresses"] > 1

\* A step of a flow leaves the state of the connection's main goroutine alone.
LEMMA FlowKeepsMain ==
  ASSUME NEW r, NEW y, Keeps(r, y, FlowFields) PROVE y.main = r.main
BY DEF Keeps, Fields, FlowFields

\* A flow step that leaves the state of a flow as it is, and only takes messages.
LEMMA TakeGoes ==
  ASSUME NEW r, EndType(r), NEW fl, Local(r, fl), r.running # {}, NEW m, HasMessage(r, m)
  PROVE  /\ Goes(r, Dequeue(r, m), fl) /\ Dequeue(r, m).main = r.main
<1> DEFINE y == Dequeue(r, m)
<1>1. /\ Keeps(r, y, {"incoming"}) /\ Counts(y.incoming) /\ Taken(y.incoming, r.incoming, m)
  BY Dequeued, Zenon
<1> HIDE DEF y
<1>2. /\ Keeps(r, y, FlowFields) /\ y.main = r.main /\ y.running = r.running
      /\ y.waiting = r.waiting /\ y.routes = r.routes /\ y.stopping = r.stopping
  BY <1>1 DEF Keeps, Fields, FlowFields
<1>3. Less(y.incoming, r.incoming)
  BY <1>1 DEF Taken
<1>4. /\ y.waiting \subseteq y.running /\ y.waiting \subseteq {"ReceiveAddresses", "SendPings"}
      /\ "ReceiveAddresses" \in y.running => "Addresses" \in y.routes
      /\ y.stopping \in BOOLEAN
  BY <1>2, Zenon DEF Local, EndType
<1>5. Goes(r, y, fl)
  BY <1>1, <1>2, <1>3, <1>4, FlowGoes, ZenonT(30) DEF FlowFields
<1> QED
  BY <1>2, <1>5, Zenon DEF y

\* A flow f returns, after it may have taken a message: not without an error, unless it is
\* ReceiveAddresses that got its answer, or a flow that waits for none.
LEMMA ReturnGoes ==
  ASSUME NEW r, EndType(r), NEW fl, Local(r, fl), NEW f \in r.running, NEW h, EndType(h),
         Keeps(r, h, {"incoming"}), Less(h.incoming, r.incoming), NEW err, MayReturn(r, h, f, err),
         NEW y, Returns(h, f, err, y)
  PROVE  Goes(r, y, fl) /\ Keeps(r, y, FlowFields)
<1> DEFINE gone == RoutesOf(f)
<1>1. /\ Keeps(h, y, {"routes", "running", "waiting", "stopping", "error"})
      /\ y.running = h.running \ {f} /\ y.waiting = h.waiting \ {f}
      /\ y.routes = h.routes \ gone
      /\ y.stopping \in BOOLEAN /\ (h.stopping => y.stopping)
      /\ err # NoError => y.stopping
  <2>1. HasReturned(h, f, err, y)
    BY Returned, Zenon
  <2> QED
    BY <2>1, Zenon DEF HasReturned
<1>2. gone = IF f = "ReceiveAddresses" THEN {"Addresses"} ELSE {}
  BY OneTimeRoutes, Zenon
<1> HIDE DEF gone
<1>3. /\ h.running = r.running /\ h.waiting = r.waiting /\ h.routes = r.routes
      /\ h.stopping = r.stopping
  BY Zenon DEF Keeps, Fields
<1>4. Keeps(r, y, FlowFields) /\ y.incoming = h.incoming
  BY <1>1, Zenon DEF Keeps, Fields, FlowFields
<1>5. /\ y.waiting \subseteq y.running /\ y.waiting \subseteq {"ReceiveAddresses", "SendPings"}
      /\ y.running \subseteq r.running
      /\ "ReceiveAddresses" \in y.running => "Addresses" \in y.routes
      /\ r.routes \ {"Addresses"} \subseteq y.routes
      /\ r.stopping => y.stopping
  BY <1>1, <1>2, <1>3, Zenon DEF Local
<1>6. "ReceiveAddresses" \in r.waiting /\ "ReceiveAddresses" \notin y.waiting =>
        \/ y.stopping /\ "ReceiveAddresses" \notin y.running
        \/ /\ Waits("Addresses", r.incoming)
           /\ Waits("Addresses", y.incoming) => r.incoming["Addresses"] > 1
  BY <1>1, <1>3, <1>4, Zenon DEF MayReturn
<1>7. Counts(y.incoming) /\ r.running # {}
  BY <1>4, Zenon DEF EndType
<1>8. Goes(r, y, fl)
  BY <1>1, <1>4, <1>5, <1>6, <1>7, FlowGoes, Zenon DEF FlowFields
<1> QED
  BY <1>4, <1>8

\* What a flow may send.
LEMMA FlowSends ==
  ASSUME NEW r, NEW y, NEW fl, InFlows(r), NEW m, m \in Asked \cap Commands(fl),
         m = "RequestAddresses" => ~Asking(r) /\ "ReceiveAddresses" \in y.waiting,
         m = "Addresses" => /\ Waits("RequestAddresses", r.incoming)
                            /\ Waits("RequestAddresses", y.incoming) =>
                                 r.incoming["RequestAddresses"] > 1
  PROVE  MaySend(r, y, m, fl) /\ m \in Message
BY HandshakeMessages, Zenon DEF MaySend, InFlows, Asked, Registered, Message

\* The pairs of messages of the flows.
LEMMA AnswersAre ==
  /\ DOMAIN Answers = {"SendAddresses", "ReceivePings"}
  /\ Answers["SendAddresses"][1] = "RequestAddresses" /\ Answers["SendAddresses"][2] = "Addresses"
  /\ Answers["ReceivePings"][1] = "Ping" /\ Answers["ReceivePings"][2] = "Pong"
  /\ DOMAIN Requests = {"ReceiveAddresses", "SendPings"}
  /\ Requests["ReceiveAddresses"][1] = "RequestAddresses"
  /\ Requests["ReceiveAddresses"][2] = "Addresses"
  /\ Requests["SendPings"][1] = "Ping" /\ Requests["SendPings"][2] = "Pong"
BY DEF Answers, Requests

\* What is known when a flow of an end runs.
LEMMA RunningFacts ==
  ASSUME ConnectionIInv, NEW e \in End, NEW f \in end[e].running
  PROVE  /\ end[e] # NoEnd /\ InFlows(end[e]) /\ f \in setting.flows /\ end[e].running # {}
         /\ EndType(end[e]) /\ Local(end[e], setting.flows) /\ setting.flows \in FlowSets
<1>1. EndType(end[e]) /\ Local(end[e], setting.flows) /\ setting.flows \in FlowSets
  BY EndFacts
<1> QED
  BY <1>1, FreshEnds, Zenon DEF Local

\* A flow that returns.
LEMMA ReturnStep ==
  ASSUME ConnectionIInv, NEW e \in End, NEW f \in end[e].running, NEW h, EndType(h),
         Keeps(end[e], h, {"incoming"}), Less(h.incoming, end[e].incoming), NEW err,
         MayReturn(end[e], h, f, err), Silently(e, Return(h, f, err)), UNCHANGED <<peers, banned>>
  PROVE  ConnectionIInv'
<1>1. /\ end[e] # NoEnd /\ EndType(end[e]) /\ Local(end[e], setting.flows)
  BY RunningFacts, Zenon
<1>2. PICK y : Returns(h, f, err, y)
  BY Zenon DEF Returns
<1>3. Goes(end[e], y, setting.flows) /\ Keeps(end[e], y, FlowFields)
  BY <1>1, <1>2, ReturnGoes, Zenon
<1>4. y.main = end[e].main
  BY <1>3, FlowKeepsMain, Zenon
<1> QED
  BY <1>1, <1>2, <1>3, <1>4, SilentStepStays, Zenon DEF Returns

\* An end is itself an end that took no message.
LEMMA TookNothing ==
  ASSUME NEW r, EndType(r) PROVE Keeps(r, r, {"incoming"}) /\ Less(r.incoming, r.incoming)
BY LessOrSame DEF EndType, Keeps

\* A flow answers a request of the peer.
LEMMA AnswerStep ==
  ASSUME ConnectionIInv, NEW e \in End, NEW f \in DOMAIN Answers, Answer(e, f) PROVE ConnectionIInv'
<1> DEFINE r == end[e]
           fl == setting.flows
           m == Answers[f][1]
           k == Answers[f][2]
           h == Dequeue(r, m)
<1>1. /\ f \in r.running /\ HasMessage(r, m) /\ UNCHANGED <<peers, banned>>
      /\ \/ Silently(e, Return(h, f, ErrRouteClosed))
         \/ Sends(e, k, h)
  BY Zenon DEF Answer
<1>2. /\ r # NoEnd /\ InFlows(r) /\ f \in fl /\ r.running # {}
      /\ EndType(r) /\ Local(r, fl) /\ fl \in FlowSets
  BY <1>1, RunningFacts, Zenon
<1>3. /\ Keeps(r, h, {"incoming"}) /\ EndType(h) /\ Taken(h.incoming, r.incoming, m)
      /\ Goes(r, h, fl) /\ h.main = r.main
  BY <1>1, <1>2, Dequeued, TakeGoes, Zenon
<1>4. \/ f = "SendAddresses" /\ m = "RequestAddresses" /\ k = "Addresses"
      \/ f = "ReceivePings" /\ m = "Ping" /\ k = "Pong"
  BY AnswersAre
<1> HIDE DEF h, m, k, r, fl
<1>5. CASE Silently(e, Return(h, f, ErrRouteClosed))
  <2>1. Less(h.incoming, r.incoming) /\ MayReturn(r, h, f, ErrRouteClosed)
    BY <1>3, <1>4, Zenon DEF Taken, MayReturn
  <2> QED
    BY <1>1, <1>3, <1>5, <2>1, ReturnStep, Zenon DEF r
<1>6. CASE Sends(e, k, h)
  <2>1. k \in Asked \cap Commands(fl)
    BY <1>2, <1>4, CommandsOfFlows, Zenon DEF Asked
  <2>2. MaySend(r, h, k, fl) /\ k \in Message
    BY <1>1, <1>2, <1>3, <1>4, <2>1, FlowSends, ZenonT(30) DEF Taken, HasMessage, Waits
  <2> QED
    BY <1>1, <1>2, <1>3, <1>6, <2>2, SendingStep, HandshakeMessages, <1>4, Zenon DEF Sends, r, fl
<1> QED
  BY <1>1, <1>5, <1>6, Zenon

\* A flow asks the peer.
LEMMA SendRequestStep ==
  ASSUME ConnectionIInv, NEW e \in End, NEW f \in DOMAIN Requests, SendRequest(e, f)
  PROVE  ConnectionIInv'
<1> DEFINE r == end[e]
           fl == setting.flows
           k == Requests[f][1]
           y == [r EXCEPT !.waiting = @ \cup {f}]
<1>1. /\ f \in r.running \ r.waiting /\ UNCHANGED <<peers, banned>>
      /\ \/ Silently(e, Return(r, f, ErrRouteClosed))
         \/ Sends(e, k, y)
  BY DEF SendRequest
<1>2. /\ r # NoEnd /\ InFlows(r) /\ f \in fl /\ r.running # {}
      /\ EndType(r) /\ Local(r, fl) /\ fl \in FlowSets
  BY <1>1, RunningFacts, Zenon
<1>3. \/ f = "ReceiveAddresses" /\ k = "RequestAddresses"
      \/ f = "SendPings" /\ k = "Ping"
  BY AnswersAre
<1>4. /\ Keeps(r, y, {"waiting"}) /\ y.waiting = r.waiting \cup {f}
  BY <1>2 DEF EndType, Keeps, Fields
<1> HIDE DEF y, k, r, fl
<1>5. CASE Silently(e, Return(r, f, ErrRouteClosed))
  <2>1. Keeps(r, r, {"incoming"}) /\ Less(r.incoming, r.incoming)
    BY <1>2, TookNothing
  <2>2. MayReturn(r, r, f, ErrRouteClosed)
    BY DEF ErrRouteClosed, NoError, MayReturn
  <2> QED
    BY <1>1, <1>2, <1>5, <2>1, <2>2, ReturnStep, Zenon DEF r
<1>6. CASE Sends(e, k, y)
  <2>1. /\ Keeps(r, y, FlowFields) /\ y.main = r.main /\ y.running = r.running
        /\ y.incoming = r.incoming /\ y.routes = r.routes /\ y.stopping = r.stopping
    BY <1>4 DEF Keeps, Fields, FlowFields
  <2>2. /\ y.waiting \subseteq y.running /\ y.waiting \subseteq {"ReceiveAddresses", "SendPings"}
        /\ "ReceiveAddresses" \in y.running => "Addresses" \in y.routes
        /\ y.stopping \in BOOLEAN /\ Counts(y.incoming)
    BY <1>1, <1>2, <1>3, <1>4, <2>1, ZenonT(30) DEF Local, EndType
  <2>3. Less(y.incoming, r.incoming)
    BY <1>2, <2>1, TookNothing
  <2>4. Goes(r, y, fl)
    BY <1>2, <1>4, <2>1, <2>2, <2>3, FlowGoes, ZenonT(30) DEF FlowFields
  <2>5. k \in Asked \cap Commands(fl)
    BY <1>2, <1>3, CommandsOfFlows DEF Asked
  <2>6. k = "RequestAddresses" => ~Asking(r) /\ "ReceiveAddresses" \in y.waiting
    BY <1>1, <1>3, <1>4, ZenonT(30) DEF Asking
  <2>7. MaySend(r, y, k, fl) /\ k \in Message
    BY <1>2, <1>3, <2>5, <2>6, FlowSends
  <2> QED
    BY <1>1, <1>2, <1>3, <1>6, <2>1, <2>4, <2>7, SendingStep, ZenonT(30) DEF Sends, r, fl
<1> QED
  BY <1>1, <1>5, <1>6, Zenon

\* A flow takes the answer it waits for.
LEMMA ReceiveAnswerStep ==
  ASSUME ConnectionIInv, NEW e \in End, NEW f \in DOMAIN Requests, ReceiveAnswer(e, f)
  PROVE  ConnectionIInv'
<1> DEFINE r == end[e]
           fl == setting.flows
           m == Requests[f][2]
           h == Dequeue(r, m)
           y == [h EXCEPT !.waiting = @ \ {f}]
<1>1. /\ f \in r.waiting /\ UNCHANGED <<peers, banned>>
      /\ \/ /\ HasMessage(r, m)
            /\ \/ f \in OneTimeFlows /\ Silently(e, Return(h, f, NoError))
               \/ f \notin OneTimeFlows /\ Silently(e, y)
         \/ \E err \in WaitErrors(e, m) : Silently(e, Return(r, f, err))
  BY DEF ReceiveAnswer
<1>2. f \in r.running
  BY <1>1, EndFacts, ZenonT(30) DEF Local
<1>3. /\ r # NoEnd /\ InFlows(r) /\ r.running # {} /\ EndType(r) /\ Local(r, fl)
  BY <1>2, RunningFacts, SMTT(30)
<1>4. \/ f = "ReceiveAddresses" /\ m = "Addresses"
      \/ f = "SendPings" /\ m = "Pong"
  BY AnswersAre
<1>5. ASSUME HasMessage(r, m)
      PROVE  /\ Keeps(r, h, {"incoming"}) /\ EndType(h) /\ Taken(h.incoming, r.incoming, m)
  BY <1>3, <1>5, Dequeued, Zenon
<1>6. ASSUME NEW err \in WaitErrors(e, m), Silently(e, Return(r, f, err)) PROVE ConnectionIInv'
  <2>1. MayReturn(r, r, f, err)
    BY Zenon DEF WaitErrors, NoError, ErrRouteClosed, ProtocolError, MayReturn
  <2>2. Keeps(r, r, {"incoming"}) /\ Less(r.incoming, r.incoming)
    BY <1>3, TookNothing, Zenon
  <2> QED
    BY <1>1, <1>2, <1>3, <1>6, <2>1, <2>2, ReturnStep, Zenon
<1> HIDE DEF h, m, r, fl
<1>7. ASSUME HasMessage(r, m), Silently(e, Return(h, f, NoError)) PROVE ConnectionIInv'
  <2>1. Less(h.incoming, r.incoming)
    BY <1>5, <1>7, ZenonT(30) DEF Taken
  <2>2. MayReturn(r, h, f, NoError)
    BY <1>4, <1>5, <1>7 DEF Taken, HasMessage, Waits, MayReturn
  <2> QED
    BY <1>1, <1>2, <1>5, <1>7, <2>1, <2>2, ReturnStep, Zenon DEF r
<1>8. ASSUME HasMessage(r, m), f \notin OneTimeFlows, Silently(e, y) PROVE ConnectionIInv'
  <2>1. /\ Keeps(r, y, FlowFields) /\ y.main = r.main /\ y.running = r.running
        /\ y.incoming = h.incoming /\ y.routes = r.routes /\ y.stopping = r.stopping
        /\ y.waiting = r.waiting \ {f}
    BY <1>5, <1>8 DEF Keeps, Fields, FlowFields
  <2> HIDE DEF y
  <2>2. /\ y.waiting \subseteq y.running /\ y.waiting \subseteq {"ReceiveAddresses", "SendPings"}
        /\ "ReceiveAddresses" \in y.running => "Addresses" \in y.routes
        /\ y.stopping \in BOOLEAN
    BY <1>3, <2>1, Zenon DEF Local, EndType
  <2>3. Counts(y.incoming) /\ Less(y.incoming, r.incoming)
    BY <1>5, <1>8, <2>1, Zenon DEF EndType, Taken
  <2>4. f # "ReceiveAddresses"
    BY <1>8 DEF OneTimeFlows
  <2>5. Goes(r, y, fl)
    BY <1>3, <2>1, <2>2, <2>3, <2>4, FlowGoes, Zenon DEF FlowFields
  <2> QED
    BY <1>1, <1>3, <1>8, <2>1, <2>5, SilentStepStays, Zenon DEF r, fl
<1> QED
  BY <1>1, <1>6, <1>7, <1>8

\* SendVirtualSelectedParentInv announces the virtual selected parent and returns.
LEMMA AnnounceStep ==
  ASSUME ConnectionIInv, NEW e \in End, Announce(e) PROVE ConnectionIInv'
<1> DEFINE r == end[e]
           fl == setting.flows
           f == "SendVirtualSelectedParentInv"
<1>1. /\ f \in r.running /\ UNCHANGED <<peers, banned>>
      /\ \/ Silently(e, Return(r, f, NoError))
         \/ Sends(e, "InvRelayBlock", Return(r, f, EnqueueError(r)))
  BY Zenon DEF Announce
<1>2. /\ r # NoEnd /\ InFlows(r) /\ f \in fl /\ r.running # {}
      /\ EndType(r) /\ Local(r, fl) /\ fl \in FlowSets
  BY <1>1, RunningFacts, SMTT(30)
<1>3. Keeps(r, r, {"incoming"}) /\ Less(r.incoming, r.incoming) /\ f # "ReceiveAddresses"
      /\ \A err : MayReturn(r, r, f, err)
  BY <1>2, TookNothing, Zenon DEF MayReturn
<1>4. CASE Silently(e, Return(r, f, NoError))
  BY <1>1, <1>2, <1>3, <1>4, ReturnStep, Zenon
<1>5. ASSUME NEW y, y = Return(r, f, EnqueueError(r)), Sends(e, "InvRelayBlock", y)
      PROVE  ConnectionIInv'
  <2>1. Goes(r, y, fl) /\ y.main = r.main
    <3>1. Returns(r, f, EnqueueError(r), y)
      BY <1>5 DEF Returns
    <3>2. Goes(r, y, fl) /\ Keeps(r, y, FlowFields)
      BY <1>1, <1>2, <1>3, <3>1, ReturnGoes, Zenon
    <3> QED
      BY <3>2, FlowKeepsMain, Zenon
  <2>2. "InvRelayBlock" \in Commands(fl)
    BY <1>2, CommandsOfFlows, Zenon
  <2>3. MaySend(r, y, "InvRelayBlock", fl) /\ "InvRelayBlock" \in Message
    BY <1>2, <2>2, HandshakeMessages, Zenon DEF MaySend, InFlows, Registered, Message
  <2> QED
    BY <1>1, <1>2, <1>5, <2>1, <2>3, SendingStep, ZenonT(30) DEF Sends
<1> QED
  BY <1>1, <1>4, <1>5, ZenonT(30)

\* HandleRelayInvs takes an announcement.
LEMMA ReceiveInvStep ==
  ASSUME ConnectionIInv, NEW e \in End, ReceiveInv(e) PROVE ConnectionIInv'
<1> DEFINE r == end[e]
           h == Dequeue(r, "InvRelayBlock")
<1>1. /\ "HandleRelayInvs" \in r.running /\ HasMessage(r, "InvRelayBlock") /\ Silently(e, h)
      /\ UNCHANGED <<peers, banned>>
  BY Zenon DEF ReceiveInv
<1>2. /\ r # NoEnd /\ r.running # {} /\ EndType(r) /\ Local(r, setting.flows)
  BY <1>1, RunningFacts, Zenon
<1>3. Goes(r, h, setting.flows) /\ h.main = r.main
  BY <1>1, <1>2, TakeGoes, Zenon
<1> QED
  BY <1>1, <1>2, <1>3, SilentStepStays, Zenon

\* HandleRejects takes the peer's rejection and ends the flows.
LEMMA ReceiveRejectStep ==
  ASSUME ConnectionIInv, NEW e \in End, ReceiveReject(e) PROVE ConnectionIInv'
<1> DEFINE r == end[e]
           h == Dequeue(r, "Reject")
<1>1. /\ "HandleRejects" \in r.running /\ HasMessage(r, "Reject")
      /\ Silently(e, Return(h, "HandleRejects", ProtocolError)) /\ UNCHANGED <<peers, banned>>
  BY Zenon DEF ReceiveReject
<1>2. EndType(r)
  BY EndFacts, Zenon
<1>3. /\ Keeps(r, h, {"incoming"}) /\ EndType(h) /\ Taken(h.incoming, r.incoming, "Reject")
  BY <1>1, <1>2, Dequeued, Zenon
<1>4. Less(h.incoming, r.incoming) /\ MayReturn(r, h, "HandleRejects", ProtocolError)
  BY <1>3, Zenon DEF Taken, MayReturn
<1> HIDE DEF h
<1> QED
  BY <1>1, <1>3, <1>4, ReturnStep, Zenon

\* The flows that wait without a timeout are none of those that wait for an answer.
LEMMA FlowsSeeClosedRouteStep ==
  ASSUME ConnectionIInv, NEW e \in End, FlowsSeeClosedRoute(e) PROVE ConnectionIInv'
<1> DEFINE r == end[e]
           fl == setting.flows
<1>1. PICK waits : /\ waits \subseteq r.running \ DOMAIN Requests /\ waits # {}
                   /\ Silently(e, HandleError([r EXCEPT !.running = @ \ waits], ErrRouteClosed))
  <2> DEFINE waits == {f \in r.running \ DOMAIN Requests :
                         FlowRoutes[f] # {} /\ \A m \in FlowRoutes[f] : IsShut(r, m)}
  <2>1. /\ waits # {}
        /\ Silently(e, HandleError([r EXCEPT !.running = @ \ waits], ErrRouteClosed))
    BY DEF FlowsSeeClosedRoute
  <2>2. waits \subseteq r.running \ DOMAIN Requests
    OBVIOUS
  <2> QED
    BY <2>1, <2>2, Zenon
<1>2. UNCHANGED <<peers, banned>> /\ r.running # {}
  BY <1>1, Zenon DEF FlowsSeeClosedRoute
<1>3. /\ r # NoEnd /\ EndType(r) /\ Local(r, fl)
  BY <1>2, RunningFacts
<1> DEFINE h == [r EXCEPT !.running = @ \ waits]
           y == HandleError(h, ErrRouteClosed)
<1>4. Keeps(r, h, {"running"}) /\ h.running = r.running \ waits
  BY <1>3 DEF Keeps, Fields, EndType
<1>5. Silently(e, y)
  BY <1>1
<1> HIDE DEF h
<1>6. DOMAIN h = Fields /\ h.stopping \in BOOLEAN
  BY <1>3, <1>4 DEF Keeps, Fields, EndType
<1>7. Keeps(h, y, {"stopping", "error"}) /\ y.stopping = TRUE
  BY <1>6, FlowErrors, Zenon
<1> HIDE DEF y, r, fl
<1>8. /\ Keeps(r, y, FlowFields) /\ y.main = r.main /\ y.running = r.running \ waits
      /\ y.incoming = r.incoming /\ y.routes = r.routes /\ y.waiting = r.waiting
  BY <1>4, <1>7 DEF Keeps, Fields, FlowFields
<1>9. /\ y.waiting \subseteq y.running /\ y.waiting \subseteq {"ReceiveAddresses", "SendPings"}
      /\ "ReceiveAddresses" \in y.running => "Addresses" \in y.routes
  BY <1>1, <1>3, <1>8, AnswersAre, ZenonT(30) DEF Local
<1>10. Counts(y.incoming) /\ Less(y.incoming, r.incoming)
  BY <1>3, <1>8, TookNothing DEF EndType
<1>11. Goes(r, y, fl)
  BY <1>2, <1>3, <1>7, <1>8, <1>9, <1>10, FlowGoes, Zenon DEF FlowFields
<1> QED
  BY <1>2, <1>3, <1>5, <1>8, <1>11, SilentStepStays, Zenon DEF r, fl

\* A new block is announced to a peer, whatever it is ready for.
LEMMA BroadcastStep ==
  ASSUME ConnectionIInv, NEW n \in Node, Broadcast(n) PROVE ConnectionIInv'
<1> DEFINE e == <<peers[n], n>>
           r == end[e]
           fl == setting.flows
           y == [r EXCEPT !.announced = @ + 1]
<1>1. peers[n] # NoConnection /\ UNCHANGED <<peers, banned>> /\ Sends(e, "InvRelayBlock", y)
  BY DEF Broadcast, P2PBroadcast
<1>2. e \in End /\ e[1] = peers[n] /\ e[2] = n
  BY <1>1 DEF ConnectionIInv, PeerList, End
<1>3. r.main \in Registered
  BY <1>2, Zenon DEF ConnectionIInv, PeerList, PeersExact, Registered
<1> HIDE DEF e
<1>4. EndType(r) /\ Local(r, fl) /\ r # NoEnd
  BY <1>2, <1>3, EndFacts, FreshEnds, Zenon DEF Registered
<1>5. Keeps(r, y, {"announced"}) /\ y.announced = r.announced + 1
  BY <1>4 DEF Keeps, Fields, EndType
<1> HIDE DEF y
<1>6. /\ Keeps(r, y, {"loops", "receiving", "closed", "shut", "sendVersion", "failure",
                      "incoming", "announced"})
      /\ y.receiving = r.receiving /\ y.closed = r.closed /\ y.incoming = r.incoming
      /\ y.loops = r.loops /\ y.main = r.main
  BY <1>5, Zenon DEF Keeps, Fields
<1>7. y.announced \in Nat /\ y.announced >= r.announced /\ y.announced > 0
  BY <1>4, <1>5, SMTT(30) DEF EndType
<1>8. Counts(y.incoming) /\ Less(y.incoming, r.incoming)
  BY <1>4, <1>6, TookNothing DEF EndType
<1>9. y.receiving \in BOOLEAN /\ y.closed \in BOOLEAN /\ (y.loops = "done" => y.closed)
  BY <1>4, <1>6, Zenon DEF EndType, Local
<1>10. Goes(r, y, fl)
  BY <1>4, <1>6, <1>7, <1>8, <1>9, CalmGoes, ZenonT(30)
<1>11. MaySend(r, y, "InvRelayBlock", fl) /\ "InvRelayBlock" \in Message
  BY <1>3, <1>7, HandshakeMessages DEF MaySend, OfFlows, Asked, Message
<1> QED
  BY <1>1, <1>2, <1>4, <1>6, <1>10, <1>11, SendingStep, Zenon DEF Sends

-----------------------------------------------------------------------------
(* The loops of a connection.                                               *)

\* The loops change, the router is closed, or nothing happens.
LEMMA LoopsGo ==
  ASSUME NEW r, EndType(r), NEW fl, Local(r, fl), NEW y,
         Keeps(r, y, {"loops", "receiving", "closed", "shut"}),
         y.receiving \in BOOLEAN, y.receiving => r.receiving, y.closed \in BOOLEAN,
         y.loops = "done" => y.closed
  PROVE  Goes(r, y, fl) /\ y.main = r.main
<1>1. /\ Keeps(r, y, {"loops", "receiving", "closed", "shut", "sendVersion", "failure",
                      "incoming", "announced"})
      /\ y.incoming = r.incoming /\ y.announced = r.announced /\ y.main = r.main
  BY DEF Keeps, Fields
<1>2. Counts(y.incoming) /\ Less(y.incoming, r.incoming)
  BY <1>1, TookNothing, Zenon DEF EndType
<1>3. y.announced \in Nat /\ y.announced >= r.announced
  BY <1>1, AnnouncedStays DEF EndType
<1> QED
  BY <1>1, <1>2, <1>3, CalmGoes, Zenon

\* The router of an end is closed and its loops are done.
LEMMA ClosedGoes ==
  ASSUME NEW r, EndType(r), NEW fl, Local(r, fl)
  PROVE  /\ Goes(r, [Disconnect(r) EXCEPT !.loops = "done"], fl)
         /\ [Disconnect(r) EXCEPT !.loops = "done"].main = r.main
<1> DEFINE h == Disconnect(r)
           y == [h EXCEPT !.loops = "done"]
<1>1. Keeps(r, h, {"closed", "shut"}) /\ h.closed = TRUE
  BY Disconnected, Zenon
<1> HIDE DEF h
<1>2. /\ Keeps(r, y, {"loops", "receiving", "closed", "shut"}) /\ y.closed = TRUE
      /\ y.receiving = r.receiving
  BY <1>1 DEF Keeps, Fields
<1> HIDE DEF y
<1>3. y.receiving \in BOOLEAN
  BY <1>2 DEF EndType
<1>4. Goes(r, y, fl) /\ y.main = r.main
  BY <1>2, <1>3, LoopsGo, Zenon
<1> QED
  BY <1>4 DEF y, h

\* Leave takes an end, which may just have been changed, to one of its successors.
LEMMA LeaveGoes ==
  ASSUME NEW e, NEW r, EndType(r), NEW fl, Local(r, fl), Leave(e, r)
  PROVE  \E x : /\ end' = [end EXCEPT ![e] = x] /\ x # NoEnd /\ Goes(r, x, fl)
                /\ x.main \in Registered <=> r.main \in Registered
<1>1. CASE end' = [end EXCEPT ![e] = Left(r)]
  <2>1. Keeps(r, r, {"loops", "receiving", "closed", "shut"})
    BY DEF EndType, Keeps
  <2>2. Goes(r, r, fl)
    BY <2>1, LoopsGo, Zenon DEF EndType, Local
  <2>3. Goes(r, Left(r), fl) /\ Left(r) # NoEnd
    BY <2>2, LeftGoes, LeftEnd, ZenonT(30)
  <2>4. Left(r).main \in Registered <=> r.main \in Registered
    BY LeftRegistered
  <2> QED
    BY <1>1, <2>3, <2>4, Zenon
<1>2. CASE end' = [end EXCEPT ![e] = [r EXCEPT !.loops = "closing"]]
  <2> DEFINE x == [r EXCEPT !.loops = "closing"]
  <2>1. /\ Keeps(r, x, {"loops", "receiving", "closed", "shut"}) /\ x.loops = "closing"
        /\ x.receiving = r.receiving /\ x.closed = r.closed
    BY DEF EndType, Keeps, Fields
  <2>2. end' = [end EXCEPT ![e] = x]
    BY <1>2
  <2> HIDE DEF x
  <2>3. x.receiving \in BOOLEAN /\ x.closed \in BOOLEAN
    BY <2>1, Zenon DEF EndType
  <2>4. Goes(r, x, fl) /\ x.main = r.main
    BY <2>1, <2>3, LoopsGo
  <2>5. x # NoEnd
    BY <2>1, FreshEnds, Zenon
  <2> QED
    BY <2>2, <2>4, <2>5, Zenon
<1>3. CASE end' = [end EXCEPT ![e] = Left([Disconnect(r) EXCEPT !.loops = "done"])]
  <2> DEFINE y == [Disconnect(r) EXCEPT !.loops = "done"]
  <2>1. Goes(r, y, fl) /\ y.main = r.main
    BY ClosedGoes
  <2>2. end' = [end EXCEPT ![e] = Left(y)]
    BY <1>3
  <2> HIDE DEF y
  <2>3. EndType(y)
    BY <2>1, Zenon DEF Goes
  <2>4. Goes(r, Left(y), fl) /\ Left(y) # NoEnd
    BY <2>1, <2>3, LeftGoes, LeftEnd, ZenonT(30)
  <2>5. Left(y).main \in Registered <=> r.main \in Registered
    BY <2>1, <2>3, LeftRegistered
  <2> QED
    BY <2>2, <2>4, <2>5, Zenon
<1> QED
  BY <1>1, <1>2, <1>3 DEF Leave

\* A step of the loops that receives nothing.
LEMMA LoopStepStays ==
  ASSUME ConnectionIInv, NEW e \in End, end[e] # NoEnd, NEW x, x # NoEnd,
         end' = [end EXCEPT ![e] = x], Goes(end[e], x, setting.flows),
         x.main \in Registered <=> end[e].main \in Registered,
         stream' = stream \/ stream' = [stream EXCEPT ![e[1]] = "ended"],
         UNCHANGED <<setting, wire, peers, banned>>
  PROVE  ConnectionIInv'
<1>1. StreamsGo(e)
  BY StreamThere DEF ConnectionIInv
<1>2. DOMAIN peers' = Node
  BY EndFacts
<1> QED
  BY <1>1, <1>2, EndGoes, PeersStay, ZenonT(30) DEF ConnectionIInv

\* The send loop notices that the connection is closed.
LEMMA sendLoopStep ==
  ASSUME ConnectionIInv, NEW e \in End, sendLoop(e) PROVE ConnectionIInv'
<1>1. /\ end[e].loops = "running" /\ Leave(e, end[e])
      /\ UNCHANGED <<setting, stream, wire, peers, banned>>
  BY Zenon DEF sendLoop
<1>2. end[e] # NoEnd /\ EndType(end[e]) /\ Local(end[e], setting.flows)
  BY <1>1, EndFacts, FreshEnds, Zenon
<1>3. PICK x : /\ end' = [end EXCEPT ![e] = x] /\ x # NoEnd /\ Goes(end[e], x, setting.flows)
               /\ x.main \in Registered <=> end[e].main \in Registered
  BY <1>1, <1>2, LeaveGoes
<1> QED
  BY <1>1, <1>2, <1>3, LoopStepStays, Zenon

\* The send loop of a closed connection ends the stream.
LEMMA closeSendStep ==
  ASSUME ConnectionIInv, NEW e \in End, closeSend(e) PROVE ConnectionIInv'
<1> DEFINE r == end[e]
           y == [Disconnect(r) EXCEPT !.loops = "done"]
<1>1. /\ r.loops = "closing" /\ end' = [end EXCEPT ![e] = Left(y)]
      /\ stream' = [stream EXCEPT ![e[1]] = "ended"] /\ UNCHANGED <<setting, wire, peers, banned>>
  BY DEF closeSend
<1>2. r # NoEnd /\ EndType(r) /\ Local(r, setting.flows)
  BY <1>1, EndFacts, FreshEnds
<1>3. Goes(r, y, setting.flows) /\ y.main = r.main
  BY <1>2, ClosedGoes
<1> HIDE DEF y
<1>4. EndType(y)
  BY <1>3, Zenon DEF Goes
<1>5. Goes(r, Left(y), setting.flows) /\ Left(y) # NoEnd
  BY <1>3, <1>4, LeftGoes, LeftEnd, ZenonT(30)
<1>6. Left(y).main \in Registered <=> r.main \in Registered
  BY <1>3, <1>4, LeftRegistered
<1> QED
  BY <1>1, <1>2, <1>5, <1>6, LoopStepStays, Zenon

\* A connection may be dropped at any time.
LEMMA DropStep ==
  ASSUME ConnectionIInv, NEW e \in End, Drop(e) PROVE ConnectionIInv'
<1> DEFINE r == end[e]
           x == Disconnect(r)
<1>1. /\ ~r.closed /\ UNCHANGED <<setting, stream, wire, peers, banned>>
  BY DEF Drop
<1>2. end' = [end EXCEPT ![e] = x]
  BY DEF Drop
<1>3. r # NoEnd /\ EndType(r) /\ Local(r, setting.flows) /\ r.loops # "done"
  BY <1>1, EndFacts, FreshEnds, Zenon DEF Local
<1>4. Keeps(r, x, {"closed", "shut"}) /\ x.closed = TRUE
  BY <1>3, Disconnected, Zenon
<1> HIDE DEF x
<1>5. /\ Keeps(r, x, {"loops", "receiving", "closed", "shut"}) /\ x.loops = r.loops
      /\ x.receiving = r.receiving
  BY <1>4, Zenon DEF Keeps, Fields
<1>6. x.receiving \in BOOLEAN
  BY <1>3, <1>5 DEF EndType
<1>7. Goes(r, x, setting.flows) /\ x.main = r.main
  BY <1>3, <1>4, <1>5, <1>6, LoopsGo, Zenon
<1>8. x # NoEnd
  BY <1>3, <1>5, FreshEnds, Zenon
<1> QED
  BY <1>1, <1>2, <1>3, <1>7, <1>8, LoopStepStays, ZenonT(30)

\* receiveLoop fails: what was on its way is lost.
LEMMA receiveLoopEndsStep ==
  ASSUME ConnectionIInv, NEW e \in End, receiveLoopEnds(e) PROVE ConnectionIInv'
<1> DEFINE r == end[e]
           o == Other(e)
           s == end[o]
           w == wire[e]
           v == wire[o]
           fl == setting.flows
           y == [r EXCEPT !.receiving = FALSE]
<1>1. /\ r.receiving /\ Leave(e, y) /\ wire' = [wire EXCEPT ![e] = <<>>]
      /\ UNCHANGED <<setting, stream, peers, banned>>
  BY DEF receiveLoopEnds
<1>2. o \in End /\ Other(o) = e /\ o # e
  BY TwoEnds
<1>3. r # NoEnd /\ EndType(r) /\ Local(r, fl) /\ fl \in FlowSets /\ DOMAIN peers' = Node
  BY <1>1, EndFacts, FreshEnds
<1>4. Keeps(r, y, {"loops", "receiving", "closed", "shut"}) /\ y.receiving = FALSE
      /\ y.loops = r.loops /\ y.closed = r.closed
  BY <1>3 DEF EndType, Keeps, Fields
<1> HIDE DEF y
<1>5. y.closed \in BOOLEAN /\ (y.loops = "done" => y.closed)
  BY <1>3, <1>4, Zenon DEF EndType, Local
<1>6. Goes(r, y, fl) /\ y.main = r.main
  BY <1>3, <1>4, <1>5, LoopsGo, ZenonT(30)
<1>7. EndType(y) /\ Local(y, fl)
  BY <1>6, Zenon DEF Goes
<1>8. PICK x : /\ end' = [end EXCEPT ![e] = x] /\ x # NoEnd /\ Goes(y, x, fl)
               /\ x.main \in Registered <=> y.main \in Registered
  BY <1>1, <1>7, LeaveGoes, Zenon
<1>9. EndType(x) /\ Local(x, fl)
  BY <1>8, Zenon DEF Goes
<1>10. /\ wire \in [End -> Seq(Message)] /\ Silent(r, s, w, v) /\ EndType(s)
       /\ Pair(r, s, w, v, o[2], fl, banned) /\ Pair(s, r, v, w, e[2], fl, banned)
  BY <1>2, Zenon DEF ConnectionIInv, Connections, ConnectionTypes
<1>11. Silent(x, s, <<>>, v)
  <2>1. Silent(x, s, w, v)
    BY <1>6, <1>8, <1>10, SilentGoes, ZenonT(30)
  <2> QED
    BY <2>1, Zenon DEF Silent
<1>12. Pair(x, s, <<>>, v, o[2], fl, banned)
  <2>1. Pair(y, s, w, v, o[2], fl, banned)
    BY <1>3, <1>6, <1>10, ReceiverGoes, Zenon
  <2>2. Pair(x, s, w, v, o[2], fl, banned)
    BY <1>3, <1>7, <1>8, <2>1, ReceiverGoes, ZenonT(30)
  <2> QED
    BY <2>2, MessagesLost
<1>13. Pair(s, x, v, <<>>, e[2], fl, banned)
  <2>1. Pair(s, y, v, w, e[2], fl, banned)
    BY <1>3, <1>6, <1>10, SenderGoes, Zenon
  <2>2. Pair(s, x, v, w, e[2], fl, banned)
    BY <1>7, <1>8, <2>1, SenderGoes, ZenonT(30)
  <2> QED
    BY <2>2, MessagesLost
<1>14. /\ wire' \in [End -> Seq(Message)] /\ wire'[e] = <<>> /\ wire'[o] = v
       /\ \A d \in End : d # e /\ d # o => wire'[d] = wire[d]
  BY <1>1, <1>2, <1>10, OneWire, NoMessages, Zenon
<1>15. StreamsGo(e)
  BY <1>1, <1>3, StreamThere DEF ConnectionIInv
<1>16. Connections'
  BY <1>1, <1>3, <1>8, <1>9, <1>11, <1>12, <1>13, <1>14, <1>15, OneConnection, Zenon DEF ConnectionIInv
<1> QED
  BY <1>1, <1>6, <1>8, <1>16, PeersStay, Zenon DEF ConnectionIInv

\* receiveLoop with a message.
LEMMA receiveLoopStep ==
  ASSUME ConnectionIInv, NEW e \in End, receiveLoop(e) PROVE ConnectionIInv'
<1> DEFINE r == end[e]
           o == Other(e)
           s == end[o]
           w == wire[e]
           v == wire[o]
           fl == setting.flows
           y == EnqueueIncomingMessage(r, Head(w))
<1>1. /\ r.receiving /\ w # <<>> /\ UNCHANGED <<setting, stream, peers, banned>>
      /\ IF y.receiving THEN end' = [end EXCEPT ![e] = y] ELSE Leave(e, y)
      /\ wire' = [wire EXCEPT ![e] = IF y.receiving THEN Tail(w) ELSE <<>>]
  BY DEF receiveLoop
<1>2. o \in End /\ Other(o) = e /\ o # e
  BY TwoEnds
<1>3. r # NoEnd /\ EndType(r) /\ Local(r, fl) /\ fl \in FlowSets /\ DOMAIN peers' = Node
  BY <1>1, EndFacts, FreshEnds, Zenon
<1>4. /\ wire \in [End -> Seq(Message)] /\ Silent(r, s, w, v) /\ EndType(s)
      /\ Pair(r, s, w, v, o[2], fl, banned) /\ Pair(s, r, v, w, e[2], fl, banned)
  BY <1>2, Zenon DEF ConnectionIInv, Connections, ConnectionTypes
<1>5. w \in Seq(Message) /\ s # NoEnd
  BY <1>1, <1>4, ZenonT(30) DEF Silent
<1>6. /\ EndType(y) /\ Local(y, fl) /\ Pair(y, s, Tail(w), v, o[2], fl, banned)
      /\ Tail(w) \in Seq(Message)
  BY <1>1, <1>3, <1>4, <1>5, ReceiverReceives, SMTT(30)
<1>7. Pair(s, y, v, Tail(w), e[2], fl, banned)
  BY <1>1, <1>3, <1>4, <1>5, SenderReceives
<1>8. y.main = r.main
  BY <1>3, EnqueuedEnd, Zenon DEF Receives
<1> HIDE DEF y
<1>9. StreamsGo(e)
  BY <1>1, <1>3, StreamThere DEF ConnectionIInv
<1>10. CASE y.receiving
  <2>1. end' = [end EXCEPT ![e] = y] /\ wire' = [wire EXCEPT ![e] = Tail(w)]
    BY <1>1, <1>10, SMTT(30)
  <2>2. y # NoEnd
    BY <1>10, FreshEnds, SMTT(30)
  <2>3. /\ wire' \in [End -> Seq(Message)] /\ wire'[e] = Tail(w) /\ wire'[o] = v
        /\ \A d \in End : d # e /\ d # o => wire'[d] = wire[d]
    BY <1>2, <1>4, <1>6, <2>1, OneWire, Zenon
  <2>4. Silent(y, s, wire'[e], wire'[o])
    BY <1>5, Zenon DEF Silent
  <2>5. Connections'
    BY <1>1, <1>3, <1>6, <1>7, <1>9, <2>1, <2>2, <2>3, <2>4, OneConnection, Zenon DEF ConnectionIInv
  <2> QED
    BY <1>1, <1>8, <2>1, <2>5, PeersStay, ZenonT(30) DEF ConnectionIInv
<1>11. CASE ~y.receiving
  <2>1. Leave(e, y) /\ wire' = [wire EXCEPT ![e] = <<>>]
    BY <1>1, <1>11
  <2>2. PICK x : /\ end' = [end EXCEPT ![e] = x] /\ x # NoEnd /\ Goes(y, x, fl)
                 /\ x.main \in Registered <=> y.main \in Registered
    BY <1>6, <2>1, LeaveGoes, Zenon
  <2>3. EndType(x) /\ Local(x, fl)
    BY <2>2, Zenon DEF Goes
  <2>4. /\ wire' \in [End -> Seq(Message)] /\ wire'[e] = <<>> /\ wire'[o] = v
        /\ \A d \in End : d # e /\ d # o => wire'[d] = wire[d]
    BY <1>2, <1>4, <2>1, OneWire, NoMessages, Zenon
  <2>5. Silent(x, s, wire'[e], wire'[o])
    BY <1>5, Zenon DEF Silent
  <2>6. Pair(x, s, <<>>, v, o[2], fl, banned)
    <3>1. Pair(x, s, Tail(w), v, o[2], fl, banned)
      BY <1>3, <1>6, <2>2, ReceiverGoes, Zenon
    <3> QED
      BY <3>1, MessagesLost
  <2>7. Pair(s, x, v, <<>>, e[2], fl, banned)
    <3>1. Pair(s, x, v, Tail(w), e[2], fl, banned)
      BY <1>6, <1>7, <2>2, SenderGoes, Zenon
    <3> QED
      BY <3>1, MessagesLost
  <2>8. Connections'
    BY <1>1, <1>3, <1>9, <2>2, <2>3, <2>4, <2>5, <2>6, <2>7, OneConnection, ZenonT(30) DEF ConnectionIInv
  <2> QED
    BY <1>1, <1>8, <2>2, <2>8, PeersStay, Zenon DEF ConnectionIInv
<1> QED
  BY <1>10, <1>11

-----------------------------------------------------------------------------
(* Connections begin and break.                                             *)

\* A new end: nothing was sent to the other one, and what that one sent is still on its way.
LEMMA NewEndStep ==
  ASSUME ConnectionIInv, NEW e \in End, end[e] = NoEnd, end' = [end EXCEPT ![e] = NewEnd],
         StreamsGo(e), UNCHANGED <<setting, wire, peers, banned>>
  PROVE  ConnectionIInv'
<1> DEFINE o == Other(e)
           s == end[o]
           w == wire[e]
           v == wire[o]
           fl == setting.flows
<1>1. o \in End /\ Other(o) = e /\ o # e
  BY TwoEnds
<1>2. /\ wire \in [End -> Seq(Message)] /\ EndType(s) /\ DOMAIN peers' = Node
      /\ Silent(NoEnd, s, w, v) /\ Silent(s, NoEnd, v, w)
      /\ Pair(NoEnd, s, w, v, o[2], fl, banned)
  BY <1>1, Zenon DEF ConnectionIInv, Connections, ConnectionTypes
<1>3. /\ v = <<>> /\ (\A m : ~Waits(m, s.incoming)) /\ s.main \notin Registered
      /\ s.refused = "none" /\ (s.receiving => Handshake \subseteq s.routes)
      /\ \A m : In(m, w) => m \in {"Version", "Reject"}
  BY <1>2, Zenon DEF Silent
<1>4. /\ \A m : ~Waits(m, NewEnd.incoming)
      /\ NewEnd.receiving /\ NewEnd.routes = Handshake /\ NewEnd.main = "start"
      /\ NewEnd.refused = "none" /\ NewEnd.running = {} /\ NewEnd.waiting = {}
      /\ NewEnd.receiveVersion = "none" /\ NewEnd.loops = "running"
  BY FreshEnds, NoneWaits, ZenonT(30)
<1>5. NewEnd # NoEnd /\ EndType(NewEnd) /\ NewEnd.main \notin Registered /\ NoEnd.main \notin Registered
  BY <1>4, FreshEnds DEF Registered
<1>6. Local(NewEnd, fl)
  BY <1>4, Zenon DEF Local, Registered
<1>7. Silent(NewEnd, s, w, v)
  BY <1>2, <1>4, <1>5, ZenonT(30) DEF Silent
<1>8. ~In("Ready", w) /\ ~In("RequestAddresses", w) /\ ~In("Addresses", w)
  BY <1>3
<1>9. Pair(NewEnd, s, w, v, o[2], fl, banned)
  <2>1. ReadyIsLast(w) /\ Kinds(s, w, o[2], fl, banned) /\ Once("Addresses", w)
    BY <1>2, Zenon DEF Pair, Ordered, OneRequest
  <2>2. Ordered(NewEnd, s, w)
    BY <1>4, <1>8, <2>1, Zenon DEF Ordered
  <2>3. ~InFlows(s) /\ \A m \in OfFlows(s) : ~In(m, w)
    BY <1>3, Zenon DEF InFlows, Registered, OfFlows, Asked
  <2>4. Told(NewEnd, s, w, v, fl)
    BY <1>3, <2>3, NoMessages, Zenon DEF Told
  <2>5. OneRequest(NewEnd, s, w, v)
    BY <1>3, <1>4, <1>8, <2>1, NoMessages, ZenonT(30) DEF OneRequest
  <2>6. Refusals(NewEnd, s, o[2], banned)
    BY <1>4 DEF Refusals
  <2> QED
    BY <2>1, <2>2, <2>4, <2>5, <2>6, Zenon DEF Pair
<1>10. Pair(s, NewEnd, v, w, e[2], fl, banned)
  <2>1. Ordered(s, NewEnd, v)
    BY <1>3, NoMessages, ZenonT(30) DEF Ordered
  <2>2. Told(s, NewEnd, v, w, fl)
    BY <1>3, <1>4, <1>8, NoMessages, Zenon DEF Told, InFlows
  <2>3. Once("RequestAddresses", w)
    BY <1>8 DEF Once, In
  <2>4. OneRequest(s, NewEnd, v, w)
    BY <1>3, <1>4, <1>8, <2>3, NoMessages, Zenon DEF OneRequest
  <2>5. Kinds(NewEnd, v, e[2], fl, banned) /\ Refusals(s, NewEnd, e[2], banned)
    BY <1>3, NoMessages, Zenon DEF Kinds, Refusals
  <2> QED
    BY <2>1, <2>2, <2>4, <2>5, Zenon DEF Pair
<1>11. Connections'
  BY <1>2, <1>5, <1>6, <1>7, <1>9, <1>10, OneConnection, ZenonT(30) DEF ConnectionIInv
<1> QED
  BY <1>5, <1>11, PeersStay, Zenon DEF ConnectionIInv

\* A stream ends.
LEMMA StreamEnds ==
  ASSUME ConnectionIInv, NEW c \in Connection, stream[c] # "none",
         stream' = [stream EXCEPT ![c] = "ended"], UNCHANGED <<setting, wire, end, peers, banned>>
  PROVE  ConnectionIInv'
<1>1. DOMAIN stream' = Connection /\ \A d \in Connection : stream'[d] = "none" => stream[d] = "none"
  BY Zenon DEF ConnectionIInv, Connections, ConnectionTypes
<1>2. ConnectionTypes'
  BY <1>1, SameEnds, ZenonT(30) DEF ConnectionIInv, Connections, ConnectionTypes
<1>3. \A e \in End : stream'[e[1]] = "none" => end[e] = NoEnd
  BY <1>1, TwoEnds DEF ConnectionIInv, Connections
<1>4. Connections'
  BY <1>2, <1>3, SameEnds, Zenon DEF ConnectionIInv, Connections
<1>5. PeerList'
  BY SameEnds, ZenonT(30) DEF ConnectionIInv, PeerList, PeersExact
<1> QED
  BY <1>4, <1>5 DEF ConnectionIInv

\* No connection was made yet.
LEMMA InitConnectionIInv == InitConnections => ConnectionIInv
<1> SUFFICES ASSUME InitConnections PROVE ConnectionIInv
  OBVIOUS
<1> DEFINE fl == setting.flows
<1>1. /\ setting \in Settings /\ DOMAIN stream = Connection /\ DOMAIN end = End
      /\ DOMAIN peers = Node /\ wire \in [End -> Seq(Message)]
      /\ \A e \in End : wire[e] = <<>> /\ end[e] = NoEnd
      /\ \A n \in Node : peers[n] = NoConnection
  BY DEF InitConnections
<1>2. /\ EndType(NoEnd) /\ NoEnd.loops = "done" /\ NoEnd.closed = TRUE /\ NoEnd.receiving = FALSE
      /\ (\A m : ~Waits(m, NoEnd.incoming)) /\ NoEnd.main = "done" /\ NoEnd.running = {}
      /\ NoEnd.waiting = {} /\ NoEnd.refused = "none" /\ NoEnd.receiveVersion = "none"
  BY FreshEnds, NoneWaits, ZenonT(30)
<1>3. Local(NoEnd, fl)
  BY <1>2, SMTT(30) DEF Local, Registered
<1>4. Silent(NoEnd, NoEnd, <<>>, <<>>)
  BY <1>2, NoMessages DEF Silent, Registered
<1>5. ASSUME NEW n PROVE Pair(NoEnd, NoEnd, <<>>, <<>>, n, fl, banned)
  <2>1. Ordered(NoEnd, NoEnd, <<>>) /\ Told(NoEnd, NoEnd, <<>>, <<>>, fl)
    BY <1>2, NoMessages, ZenonT(30) DEF Ordered, Told
  <2>2. OneRequest(NoEnd, NoEnd, <<>>, <<>>)
    BY <1>2, NoMessages, Zenon DEF OneRequest
  <2>3. Kinds(NoEnd, <<>>, n, fl, banned) /\ Refusals(NoEnd, NoEnd, n, banned)
    BY <1>2, NoMessages, Zenon DEF Kinds, Refusals
  <2> QED
    BY <2>1, <2>2, <2>3, SMTT(30) DEF Pair
<1>6. ConnectionTypes
  BY <1>1, <1>2, <1>3 DEF ConnectionTypes
<1>7. \A e \in End : Other(e) \in End
  BY TwoEnds, Zenon
<1>8. Connections
  BY <1>1, <1>4, <1>5, <1>6, <1>7, SMTT(30) DEF Connections
<1>9. ASSUME NEW e \in End
      PROVE  (peers[e[2]] = e[1]) = (end[e].main \in Registered)
  <2>1. e[1] \in Connection /\ e[2] \in Node
    BY TwoEnds
  <2>2. e[1] \in Nat
    BY <1>1, <2>1, ConnectionAssumption, SMTT(30) DEF Connection
  <2>3. peers[e[2]] # e[1]
    BY <1>1, <2>1, <2>2, ConnectionAssumption
  <2>4. end[e].main \notin Registered
    <3>1. end[e].main = "done"
      BY <1>1, <1>2
    <3> QED
      BY <3>1 DEF Registered
  <2> QED
    BY <2>3, <2>4
<1>10. PeerList
  BY <1>1, <1>9, Zenon DEF PeerList, PeersExact, Registered
<1> QED
  BY <1>8, <1>10 DEF ConnectionIInv

\* Every step of the nodes keeps what is known of their connections.
LEMMA NextConnectionIInv ==
  ASSUME ConnectionIInv, [Next]_vars PROVE ConnectionIInv'
<1>1. CASE UNCHANGED connectionVars
  <2>1. /\ setting' = setting /\ stream' = stream /\ wire' = wire /\ end' = end
        /\ peers' = peers /\ banned' = banned
    BY <1>1 DEF connectionVars
  <2>2. ConnectionTypes'
    BY <2>1, SameEnds, Zenon DEF ConnectionIInv, Connections, ConnectionTypes
  <2>3. Connections'
    BY <2>1, <2>2, SameEnds, Zenon DEF ConnectionIInv, Connections
  <2>4. PeerList'
    BY <2>1, SameEnds, Zenon DEF ConnectionIInv, PeerList, PeersExact
  <2> QED
    BY <2>3, <2>4 DEF ConnectionIInv
<1>2. CASE NextConnections
  <2>1. ASSUME NEW c \in Connection, Connect(c) PROVE ConnectionIInv'
    <3> DEFINE e == <<c, Dialler>>
    <3>1. /\ stream[c] = "none" /\ stream' = [stream EXCEPT ![c] = "open"]
          /\ end' = [end EXCEPT ![e] = NewEnd] /\ UNCHANGED <<setting, wire, peers, banned>>
      BY <2>1 DEF Connect
    <3>2. e \in End /\ e[1] = c
      BY DEF End, Node
    <3> HIDE DEF e
    <3>3. end[e] = NoEnd /\ DOMAIN stream = Connection
      BY <3>1, <3>2, Zenon DEF ConnectionIInv, Connections, ConnectionTypes
    <3>4. StreamsGo(e)
      BY <3>1, <3>2, <3>3 DEF StreamsGo
    <3> QED
      BY <3>1, <3>2, <3>3, <3>4, NewEndStep, ZenonT(30)
  <2>2. ASSUME NEW c \in Connection, handleInboundConnection(c) PROVE ConnectionIInv'
    <3> DEFINE e == <<c, Listener>>
    <3>1. /\ stream[c] # "none" /\ end[e] = NoEnd
          /\ end' = [end EXCEPT ![e] = NewEnd] /\ UNCHANGED <<setting, stream, wire, peers, banned>>
      BY <2>2 DEF handleInboundConnection
    <3>2. e \in End /\ e[1] = c /\ DOMAIN stream = Connection
      BY Zenon DEF End, Node, ConnectionIInv, Connections, ConnectionTypes
    <3> HIDE DEF e
    <3>3. StreamsGo(e)
      BY <3>1, <3>2 DEF StreamsGo
    <3> QED
      BY <3>1, <3>2, <3>3, NewEndStep, Zenon
  <2>3. ASSUME NEW c \in Connection, inboundHandlerReturns(c) \/ NetworkError(c)
        PROVE  ConnectionIInv'
    BY <2>3, StreamEnds DEF inboundHandlerReturns, NetworkError
  <2>4. ASSUME NEW e \in End, LoopStep(e) \/ Drop(e) PROVE ConnectionIInv'
    BY <2>4, sendLoopStep, receiveLoopStep, receiveLoopEndsStep, closeSendStep, DropStep, SMTT(30) DEF LoopStep
  <2>5. ASSUME NEW e \in End, MainStep(e) PROVE ConnectionIInv'
    BY <2>5, routerInitializerStep, ReceiveVersionStep, SendVersionStep, AddToPeersStep,
       HandshakeFailsStep, RegisterStep, runFlowsStep, ReadyFailsStep, FlowsFailStep, FlowsEndStep, Zenon
       DEF MainStep
  <2>6. ASSUME NEW e \in End, FlowStep(e) PROVE ConnectionIInv'
    BY <2>6, AnswerStep, SendRequestStep, ReceiveAnswerStep, AnnounceStep, ReceiveInvStep,
       ReceiveRejectStep, FlowsSeeClosedRouteStep, ZenonT(30) DEF FlowStep
  <2> QED
    BY <1>2, <2>1, <2>2, <2>3, <2>4, <2>5, <2>6, BroadcastStep, SMTT(30) DEF NextConnections, EndStep
<1> QED
  BY <1>1, <1>2 DEF Next, vars

\* The inductive invariant of the connections, for every behaviour.
LEMMA ConnectionIInvHolds == Spec => []ConnectionIInv
<1>1. Init => ConnectionIInv
  BY InitConnectionIInv DEF Init
<1>2. ConnectionIInv /\ [Next]_vars => ConnectionIInv'
  BY NextConnectionIInv
<1> QED
  BY <1>1, <1>2, PTL DEF Spec

\* FlowContext.peers holds exactly the connections whose routerInitializer is between
\* AddToPeers and its deferred RemoveFromPeers, for any number of connections between the two
\* nodes, and however they are closed and broken.
THEOREM PeersStayExact == Spec => []PeersExact
<1>1. ConnectionIInv => PeersExact
  BY DEF ConnectionIInv, PeerList
<1> QED
  BY <1>1, ConnectionIInvHolds, PTL

\* No message of a flow meets a node that did not register its routes yet (HandleReady), for
\* any number of connections, broadcasts and breaks, any capacity of a route and any set of
\* flows: only announcements that were broadcast, and rejects after a ban, do.
THEOREM FlowMessagesAreNotEarly == Spec => []NoFlowMessageIsEarly
<1>1. ConnectionIInv => NoFlowMessageIsEarly
  <2> SUFFICES ASSUME ConnectionIInv, NEW e \in End
               PROVE  /\ end[e].refused \in {"none", "InvRelayBlock", "Reject"}
                      /\ end[e].refused = "InvRelayBlock" => end[Other(e)].announced > 0
                      /\ end[e].refused = "Reject" => Other(e)[2] \in banned
    BY DEF NoFlowMessageIsEarly
  <2> QED
    BY Zenon DEF ConnectionIInv, Connections, Pair, Refusals
<1> QED
  BY <1>1, ConnectionIInvHolds, PTL

==============================================================================
