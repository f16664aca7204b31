------------------------------- MODULE MCStp -------------------------------
(* Instances of Stp for TLC: three bridges in a ring.  Port 12 of bridge 1 *)
(* is linked to port 21 of bridge 2, and so on; the link of 1 and 3 costs  *)
(* as much as the way over 2.                                              *)
EXTENDS Stp

MCPorts == {12, 13, 21, 23, 31, 32}
MCOwner == [p \in Ports |-> p \div 10]
MCPeer == [p \in Ports |-> (p % 10) * 10 + p \div 10]
MCPathCost == [p \in Ports |-> IF p \in {13, 31} THEN 2 ELSE 1]
============================================================================
