------------------------------ MODULE MCDPSet ------------------------------
(* An instance of DPSet for TLC: connections of one switch, which has an    *)
(* OpenFlow 1.0 and a 1.3 side, against a controller with 1.0, 1.2 and 1.3. *)
EXTENDS DPSet, TLC

CONSTANTS c1, c2, d1

MCVersions == 1..5
MCSupported == {1, 3, 4}
MCInitPorts == (1 :> 0) @@ (2 :> 0)
MCDpidOf == [c \in Conns |-> d1]

\* A 1.0 switch, a 1.3 switch with a bitmap, and two 1.1 switches that fail: one
\* with a bitmap, and one without, whose version is in the gap of the controller.
MCSwitchHello == {[version |-> 1, elements |-> FALSE, bitmap |-> {}],
                  [version |-> 4, elements |-> TRUE, bitmap |-> {1, 4}],
                  [version |-> 2, elements |-> TRUE, bitmap |-> {1, 2}],
                  [version |-> 2, elements |-> FALSE, bitmap |-> {}]}

\* The version negotiation meets its reference for every hello message.
ASSUME MCNegotiation == NegotiationSound
=============================================================================
