---------------------------- MODULE Negotiation ----------------------------
(***************************************************************************)
(* What the life of an OpenFlow connection looks like to the rest of the   *)
(* controller: the negotiation phase only moves forward, death is final,   *)
(* once the socket is shut down the negotiation makes no more progress,    *)
(* and the socket is released only after the connection is dead.           *)
(***************************************************************************)
VARIABLES
    phase,  \* "none", "handshake", "config", "main" or "dead"
    link    \* "open", "shut" or "closed"

vars == <<phase, link>>

Init == phase = "none" /\ link = "open"

Advance(from, to) ==
    /\ phase = from
    /\ link = "open"
    /\ phase' = to
    /\ UNCHANGED link

Die ==
    /\ phase \in {"handshake", "config", "main"}
    /\ phase' = "dead"
    /\ UNCHANGED link

\* The end of the stream, an error or a close() shuts the socket down.
ShutDown ==
    /\ phase # "none"
    /\ link = "open"
    /\ link' = "shut"
    /\ UNCHANGED phase

\* The socket is closed by the last close() of the connection.
Release ==
    /\ phase = "dead"
    /\ link = "shut"
    /\ link' = "closed"
    /\ UNCHANGED phase

Next ==
    \/ Advance("none", "handshake")
    \/ Advance("handshake", "config")
    \/ Advance("config", "main")
    \/ Die
    \/ ShutDown
    \/ Release

Spec == Init /\ [][Next]_vars
=============================================================================
