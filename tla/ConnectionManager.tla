-------------------------- MODULE ConnectionManager --------------------------
(***************************************************************************)
(* The loop that keeps the connections of a node as they should be: the     *)
(* requested ones, targetOutgoing outgoing ones to addresses the address    *)
(* manager picks, and at most maxIncoming others.  Every iteration works on *)
(* a snapshot of the connections, in three steps between which connections  *)
(* come and go, users ask for connections and peers are banned.             *)
(*                                                                         *)
(* What happens in a connection is the subject of PeerConnection; here one  *)
(* is made, closed, and some time later gone.  How long a failed request waits (nextRetryDuration) *)
(* is left open.                                                            *)
(***************************************************************************)
EXTENDS AddressManager

CONSTANTS
  targetOutgoing, maxIncoming,
  AddPeers,      \* the peers of the configuration
  Inbound,       \* addresses from which other nodes connect
  MaxEvents      \* how often something happens to a node from outside

ASSUME ManagerAssumption ==
  /\ targetOutgoing \in Nat /\ maxIncoming \in Nat /\ MaxEvents \in Nat
  /\ AddPeers \subseteq Address

VARIABLES
  connected,         \* NetAdapter.p2pConnections, see Made
  closing,           \* those of them whose router was closed by Disconnect
  activeRequested,   \* the requests by address, see NewRequest
  pendingRequested,
  activeOutgoing,
  loop,              \* where connectionsLoop is
  connSet,           \* the connections of this iteration that are not classified yet
  signals,           \* how many goroutines of requests wait in run
  putBack,           \* history: the requests that were put back as they were connected
  stop,              \* "no", "stopping" while Stop waits in run, "stopped" when it returned
  events

managerVars ==
  <<addressVars, connected, closing, activeRequested, pendingRequested, activeOutgoing, loop, connSet,
    signals, stop, events, putBack>>
requestVars == <<activeRequested, pendingRequested, putBack>>

\* due: nextAttempt has come.
NewRequest(permanent) == [isPermanent |-> permanent, due |-> TRUE]

with(f, a, r) == [b \in DOMAIN f \cup {a} |-> IF b = a THEN r ELSE f[b]]
without(conns, addresses) == {c \in conns : c.address \notin addresses}
addressesOf(conns) == {c.address : c \in conns}

\* A connection that is made now, with an id no other one of its address has.
Made(a, outbound) ==
  [address |-> a, outbound |-> outbound,
   id |-> CHOOSE i \in 1..(Cardinality(connected \cup connSet) + 1) :
            \A c \in connected \cup connSet : c.address = a => c.id # i]

open == connected \ closing

isPermanent(a) ==
  IF a \in DOMAIN activeRequested THEN activeRequested[a].isPermanent
  ELSE a \in DOMAIN pendingRequested /\ pendingRequested[a].isPermanent

-----------------------------------------------------------------------------
(* connectionsLoop.                                                         *)

\* convertToSet keeps one connection of every address.
StartIteration ==
  /\ loop = "top"
  /\ IF stop # "no" THEN loop' = "ended" /\ UNCHANGED connSet
     ELSE /\ loop' = "requested"
          /\ \E one \in [addressesOf(connected) -> connected] :
               /\ \A a \in DOMAIN one : one[a].address = a
               /\ connSet' = {one[a] : a \in DOMAIN one}
  /\ UNCHANGED <<addressVars, connected, closing, requestVars, activeOutgoing, signals, stop, events>>

\* Requests whose connection is gone are forgotten or retried; pending ones that are due
\* are dialled, which works for the ones in `dialled`.  One that turns out to be
\* connected already is put back into pendingRequested, and as that happens while the map
\* is iterated over, it may be visited again and dialled as well.
checkRequestedConnections ==
  LET present == addressesOf(connSet)
      alive == DOMAIN activeRequested \cap present
      again == {a \in DOMAIN activeRequested \ alive : activeRequested[a].isPermanent}
      pending == [a \in DOMAIN pendingRequested \cup again |->
                    IF a \in again THEN NewRequest(TRUE) ELSE pendingRequested[a]]
      due == {a \in DOMAIN pending : pending[a].due}
      found == due \cap (present \ alive)
  IN /\ loop = "requested" /\ loop' = "outgoing"
     /\ \E visitedAgain \in SUBSET found :
        \E dialled \in SUBSET ((due \ found) \cup visitedAgain) :
          LET failed == ((due \ found) \cup visitedAgain) \ dialled
          IN /\ activeRequested' = [a \in alive \cup dialled |->
                                      IF a \in dialled THEN pending[a] ELSE activeRequested[a]]
             /\ pendingRequested' =
                  [a \in {b \in DOMAIN pending \ dialled : b \in failed => pending[b].isPermanent} |->
                     IF a \notin failed THEN pending[a]
                     ELSE [pending[a] EXCEPT !.due = FALSE]]
             /\ connected' = connected \cup {Made(a, TRUE) : a \in dialled}
     /\ connSet' = without(connSet, alive \cup due)
     /\ putBack' = putBack \cup found
     /\ UNCHANGED <<addressVars, closing, activeOutgoing, signals, stop, events>>

\* Mutant of checkOutgoingConnections: what was dialled is not remembered.
checkOutgoingConnectionsForgets ==
  LET alive == activeOutgoing \cap addressesOf(connSet)
  IN /\ loop = "outgoing" /\ loop' = "incoming"
     /\ connSet' = without(connSet, alive)
     /\ \E dialled \in RandomAddresses(targetOutgoing, addressesOf(connected)) :
          connected' = connected \cup {Made(a, TRUE) : a \in dialled}
     /\ activeOutgoing' = alive
     /\ UNCHANGED <<addressVars, closing, requestVars, signals, stop, events>>

\* Outgoing connections that are gone are forgotten, and addresses dialled in their place.
\* A connection that was requested as well counts as gone.
checkOutgoingConnections ==
  LET alive == activeOutgoing \cap addressesOf(connSet)
  IN /\ loop = "outgoing" /\ loop' = "incoming"
     /\ connSet' = without(connSet, alive)
     /\ \E picked \in IF Cardinality(alive) = targetOutgoing THEN {{}}
                      ELSE RandomAddresses(targetOutgoing - Cardinality(alive), addressesOf(connected)) :
        \E dialled \in SUBSET picked :
          /\ activeOutgoing' = alive \cup dialled
          /\ connected' = connected \cup {Made(a, TRUE) : a \in dialled}
          /\ notBannedAddresses' =
               LET known == DOMAIN notBannedAddresses
                   kept == {a \in known : a \in picked =>
                              a \in DOMAIN Marked(notBannedAddresses, a, a \in dialled)}
               IN [a \in kept |-> IF a \in picked THEN Marked(notBannedAddresses, a, a \in dialled)[a]
                                  ELSE notBannedAddresses[a]]
     /\ UNCHANGED <<bannedAddresses, closing, requestVars, signals, stop, events>>

\* Of what is left as many are disconnected as there are too many; some may be gone by now.
checkIncomingConnections ==
  LET over == Cardinality(connSet) - maxIncoming
  IN /\ loop = "incoming" /\ loop' = "wait"
     /\ \E dropped \in SUBSET connSet :
          /\ Cardinality(dropped) = IF over > 0 THEN over ELSE 0
          /\ closing' = closing \cup (dropped \cap connected)
     /\ connSet' = {}
     /\ UNCHANGED <<addressVars, connected, requestVars, activeOutgoing, signals, stop, events>>

\* The ticker ticks, unless Stop has stopped it, or a goroutine in run is let go.
waitTillNextIteration ==
  /\ loop = "wait" /\ loop' = "top"
  /\ \/ stop = "no" /\ UNCHANGED <<signals, stop>>
     \/ signals > 0 /\ signals' = signals - 1 /\ UNCHANGED stop
     \/ stop = "stopping" /\ stop' = "stopped" /\ UNCHANGED signals
  /\ UNCHANGED <<addressVars, connected, closing, requestVars, activeOutgoing, connSet, events>>

-----------------------------------------------------------------------------
(* What happens meanwhile.                                                  *)

Event == events < MaxEvents /\ events' = events + 1

\* addConnectionRequest; the goroutine then waits in run.
AddConnectionRequest(a, permanent) ==
  /\ Event
  /\ pendingRequested' = IF a \in DOMAIN activeRequested THEN pendingRequested
                         ELSE with(pendingRequested, a, NewRequest(permanent))
  /\ signals' = signals + 1
  /\ UNCHANGED <<addressVars, connected, closing, activeRequested, activeOutgoing, loop, connSet,
                 stop, putBack>>

\* The time of the next attempt comes.
RetryTime(a) ==
  /\ a \in DOMAIN pendingRequested /\ ~pendingRequested[a].due
  /\ pendingRequested' = [pendingRequested EXCEPT ![a].due = TRUE]
  /\ UNCHANGED <<addressVars, connected, closing, activeRequested, activeOutgoing, loop, connSet, signals,
                 stop, events, putBack>>

\* Another node connects; IsBanned is asked when the connection is there.
Accept(a) ==
  /\ Event
  /\ connected' = connected \cup {Made(a, FALSE)}
  /\ closing' = IF a.ip \in DOMAIN bannedAddresses /\ ~bannedAddresses[a.ip] /\ ~isPermanent(a)
                THEN closing \cup {Made(a, FALSE)} ELSE closing
  /\ IF isPermanent(a) THEN UNCHANGED addressVars ELSE unbanIfOldEnough(a.ip)
  /\ UNCHANGED <<requestVars, activeOutgoing, loop, connSet, signals, stop>>

\* The loops of a closed connection have ended.
onDisconnectedHandler(c) ==
  /\ c \in closing
  /\ connected' = connected \ {c} /\ closing' = closing \ {c}
  /\ UNCHANGED <<addressVars, requestVars, activeOutgoing, loop, connSet, signals, stop, events>>

\* A connection ends; also right after it was dialled, when IsBanned says so.
Lose(c) ==
  /\ Event
  /\ c \in open
  /\ connected' = connected \ {c} /\ closing' = closing
  /\ UNCHANGED <<addressVars, requestVars, activeOutgoing, loop, connSet, signals, stop>>

\* A peer misbehaves: ConnectionManager.Ban, and the connection is closed.
BanPeer(c) ==
  /\ Event
  /\ c \in connected
  /\ closing' = closing \cup {c} /\ connected' = connected
  /\ IF isPermanent(c.address) THEN UNCHANGED addressVars ELSE BanIP(c.address.ip)
  /\ UNCHANGED <<requestVars, activeOutgoing, loop, connSet, signals, stop>>

ipHasPermanentConnection(ip) ==
  \E r \in {activeRequested, pendingRequested} : \E a \in DOMAIN r : r[a].isPermanent /\ a.ip = ip

BanByIP(ip) ==
  /\ Event
  /\ ~ipHasPermanentConnection(ip)
  /\ closing' = closing \cup {c \in connected : c.address.ip = ip} /\ connected' = connected
  /\ BanIP(ip)
  /\ UNCHANGED <<requestVars, activeOutgoing, loop, connSet, signals, stop>>

\* A peer or a DNS seed tells of an address; a user unbans an IP; time passes.
AddressEvent ==
  /\ Event
  /\ \/ \E a \in Address : AddAddress(a)
     \/ \E ip \in DOMAIN bannedAddresses : Unban(ip) \/ BanGrowsOld(ip)
  /\ UNCHANGED <<connected, closing, requestVars, activeOutgoing, loop, connSet, signals, stop>>

\* Stop disconnects everybody, stops the ticker and waits in run.
Stop ==
  /\ stop = "no" /\ stop' = "stopping"
  /\ closing' = connected
  /\ UNCHANGED <<addressVars, connected, requestVars, activeOutgoing, loop, connSet, signals, events>>

\* New.  The address manager reads its addresses from the database.
Restart ==
  /\ Event
  /\ connected' = {} /\ closing' = {} /\ activeRequested' = <<>> /\ activeOutgoing' = {}
  /\ pendingRequested' = [a \in AddPeers |-> NewRequest(TRUE)]
  /\ putBack' = {} /\ loop' = "top" /\ connSet' = {} /\ signals' = 0 /\ stop' = "no"
  /\ UNCHANGED addressVars

InitManager ==
  /\ connected = {} /\ closing = {} /\ activeRequested = <<>> /\ activeOutgoing = {}
  /\ pendingRequested = [a \in AddPeers |-> NewRequest(TRUE)]
  /\ loop = "top" /\ connSet = {} /\ signals = 0 /\ stop = "no" /\ events = 0
  /\ putBack = {}
  /\ notBannedAddresses = [a \in Routable |-> 1] /\ bannedAddresses = <<>>

NextManager ==
  \/ StartIteration \/ checkRequestedConnections \/ checkOutgoingConnections
  \/ checkIncomingConnections \/ waitTillNextIteration
  \/ \E a \in Address : \/ \E permanent \in BOOLEAN : AddConnectionRequest(a, permanent)
                       \/ RetryTime(a)
  \/ \E a \in Address \cup Inbound : Accept(a)
  \/ \E c \in connected : onDisconnectedHandler(c) \/ Lose(c) \/ BanPeer(c)
  \/ \E a \in Address : BanByIP(a.ip)
  \/ AddressEvent \/ Stop \/ Restart

\* What an iteration of the loop does to the connections and requests that are there: it
\* disconnects only connections that other nodes made, once it has taken out the requested
\* and the outgoing ones, and it keeps trying every permanent request.  The exception is
\* a connection whose address is requested while it is there: the request is put back
\* into pendingRequested, and once it fails the connection is nobody's any more.
LoopKeepsItsConnections ==
  [][(events' = events /\ stop' = stop) =>
       /\ \A c \in open \ open' : c.outbound => c.address \in putBack
       /\ \A a \in Address : isPermanent(a) => isPermanent(a)']_managerVars

=============================================================================
