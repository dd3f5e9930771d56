--------------------------- MODULE NodeConnections --------------------------
(***************************************************************************)
(* The connections of a node, from two sides: what happens in one of them   *)
(* between two nodes (PeerConnection), and which of them a node keeps       *)
(* (ConnectionManager).  The manager sees a connection only as present or   *)
(* gone, so that each side is left to stand for all the other can do: a     *)
(* behaviour is one of the two, as its setting says.                        *)
(***************************************************************************)
EXTENDS PeerConnection, ConnectionManager

vars == <<connectionVars, managerVars>>

Init == InitConnections /\ InitManager

Next ==
  \/ setting.connections > 0 /\ NextConnections /\ UNCHANGED managerVars
  \/ setting.connections = 0 /\ NextManager /\ UNCHANGED connectionVars

Spec == Init /\ [][Next]_vars

=============================================================================
