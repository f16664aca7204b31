------------------------------- MODULE DPSet -------------------------------
(***************************************************************************)
(* The set of connected switches, ryu/controller/dpset.py, together with   *)
(* the parts of ofp_handler.py that feed it.  Every connection has its own *)
(* receive greenlet, which negotiates the version, keeps Datapath.ports    *)
(* and broadcasts events; DPSet is an application with a FIFO event queue  *)
(* that looks at the connection only when it gets to the event.  Several   *)
(* connections can come from one switch: it reconnects before the          *)
(* controller notices that the old connection is gone.                     *)
(*                                                                         *)
(* What blocks on full queues is the subject of Datapath and EventBus;     *)
(* here DPSet's queue always has room and its observers always listen, so  *)
(* the phases of one connection reach DPSet in their order.                *)
(***************************************************************************)
EXTENDS HelloNegotiation, Sequences, Functions

CONSTANTS
    Conns,       \* connections, each used once
    Dpids,       \* datapath ids
    DpidOf,      \* connection -> id of the switch at the other end
    SwitchHello, \* the hello messages switches send
    PortNos, PortAttrs,
    InitPorts,   \* the ports a switch starts with
    MaxChanges   \* bound on the port changes of one behaviour

ASSUME DPSetAssumption ==
    /\ DpidOf \in [Conns -> Dpids]
    /\ SwitchHello \subseteq Hellos
    /\ MaxChanges \in Nat
    /\ \E S \in SUBSET PortNos : InitPorts \in [S -> PortAttrs]

\* Datapath.ports and PortState map port numbers to port descriptions.
Ports == UNION {[S -> PortAttrs] : S \in SUBSET PortNos}
NoPorts == << >>

\* f with y at x, f without x, and f with all of g
With(f, x, y) == [z \in DOMAIN f \cup {x} |-> IF z = x THEN y ELSE f[z]]
Minus(f, x) == Restrict(f, DOMAIN f \ {x})
Updated(f, g) == [z \in DOMAIN f \cup DOMAIN g |-> IF z \in DOMAIN g THEN g[z] ELSE f[z]]

\* What a port status does to a table of ports.
Applied(f, s) == IF s.reason = "delete" THEN Minus(f, s.port) ELSE With(f, s.port, s.attr)

VARIABLES
    swports,   \* Dpids -> the ports the switch really has (external)
    changes,   \* port changes so far
    phase,     \* Datapath.state
    ver,       \* negotiated version, 0 before the hello
    said,      \* the hello the version was negotiated from (history)
    ports,     \* Datapath.ports
    asked,     \* the request the switch has not answered yet (external)
    rest,      \* the ports of the second part of a split reply (external)
    wire,      \* messages from the switch that recv() has not returned yet
    pending,   \* the port status the receive loop has announced, not applied
    missed,    \* a port status was ignored while a split reply came in (history)
    evq,       \* DPSet's event queue
    dps,       \* DPSet.dps: Dpids -> connection, partial
    pstate,    \* DPSet.port_state: Dpids -> ports, partial
    job,       \* the rest of the handler DPSet is in the middle of
    announced, \* Dpids -> EventDP and EventDPReconnected events (history)
    owner      \* Dpids -> the connection all of port_state is from, partial (history)

connVars == <<phase, ver, said, ports, pending, missed>>
wireVars == <<swports, changes, asked, rest, wire>>
setVars == <<dps, pstate, job, announced, owner>>
vars == <<swports, changes, phase, ver, said, ports, asked, rest, wire, pending, missed,
          evq, dps, pstate, job, announced, owner>>

Idle == [do |-> "idle"]

Init ==
    /\ swports = [d \in Dpids |-> InitPorts]
    /\ changes = 0
    /\ phase = [c \in Conns |-> "none"]
    /\ ver = [c \in Conns |-> 0]
    /\ said = [c \in Conns |-> << >>]
    /\ ports = [c \in Conns |-> NoPorts]
    /\ asked = [c \in Conns |-> "nothing"]
    /\ rest = [c \in Conns |-> NoPorts]
    /\ wire = [c \in Conns |-> << >>]
    /\ pending = [c \in Conns |-> << >>]
    /\ missed = [c \in Conns |-> FALSE]
    /\ evq = << >>
    /\ dps = << >>
    /\ pstate = << >>
    /\ job = Idle
    /\ announced = [d \in Dpids |-> << >>]
    /\ owner = << >>

-----------------------------------------------------------------------------
(* The switch (external).                                                  *)

\* Connections of a switch whose messages can still arrive.
Alive(d) == {c \in Conns : DpidOf[c] = d /\ phase[c] \in {"handshake", "config", "main"}}

SwitchSends(c, msg) == wire' = [wire EXCEPT ![c] = Append(@, msg)]

\* A port is added, changed or removed; the switch reports it on every
\* connection it has.
PortChange(d, reason, p, attr) ==
    /\ changes < MaxChanges
    /\ changes' = changes + 1
    /\ (p \in DOMAIN swports[d]) = (reason # "add")
    /\ reason = "modify" => swports[d][p] # attr
    /\ reason = "delete" => swports[d][p] = attr
    /\ LET s == [type |-> "status", reason |-> reason, port |-> p, attr |-> attr]
       IN  /\ swports' = [swports EXCEPT ![d] = Applied(@, s)]
           /\ wire' = [c \in Conns |->
                          IF c \in Alive(d) THEN Append(wire[c], s) ELSE wire[c]]
    /\ UNCHANGED <<connVars, asked, rest, evq, setVars>>

\* The features reply of OpenFlow before 1.3 holds the ports.
AnswerFeatures(c) ==
    /\ asked[c] = "features"
    /\ SwitchSends(c, [type |-> "features", ports |-> swports[DpidOf[c]]])
    /\ asked' = [asked EXCEPT ![c] = "nothing"]
    /\ UNCHANGED <<swports, changes, rest, connVars, evq, setVars>>

\* The port description comes in one reply, or in two with other messages in
\* between: the first one has the MORE flag.
AnswerPortDesc(c, now) ==
    /\ asked[c] = "port_desc"
    /\ now \subseteq DOMAIN swports[DpidOf[c]]
    /\ now = {} => swports[DpidOf[c]] = NoPorts
    /\ LET all  == swports[DpidOf[c]]
           more == now # DOMAIN all
       IN  /\ SwitchSends(c, [type |-> "port_desc", ports |-> Restrict(all, now),
                              more |-> more])
           /\ rest' = [rest EXCEPT ![c] = Restrict(all, DOMAIN all \ now)]
           /\ asked' = [asked EXCEPT ![c] = IF more THEN "rest" ELSE "nothing"]
    /\ UNCHANGED <<swports, changes, connVars, evq, setVars>>

AnswerRest(c) ==
    /\ asked[c] = "rest"
    /\ SwitchSends(c, [type |-> "port_desc", ports |-> rest[c], more |-> FALSE])
    /\ rest' = [rest EXCEPT ![c] = NoPorts]
    /\ asked' = [asked EXCEPT ![c] = "nothing"]
    /\ UNCHANGED <<swports, changes, connVars, evq, setVars>>

-----------------------------------------------------------------------------
(* The receive greenlet of a connection and its OFPHandler.                *)

\* send_event_to_observers, as far as DPSet observes the event.
Notify(event) == evq' = Append(evq, event)

StateEvent(c, p) == [type |-> "state", conn |-> c, phase |-> p]

Connect(c) ==
    /\ phase[c] = "none"
    /\ phase' = [phase EXCEPT ![c] = "handshake"]
    /\ UNCHANGED <<ver, said, ports, pending, missed, wireVars, evq, setVars>>

\* Mutant: the version the switch is going to use is not looked at.
Hello_bug(c, h) ==
    /\ phase[c] = "handshake"
    /\ Usable(h) # {}
    /\ ver' = [ver EXCEPT ![c] = Max(Usable(h))]
    /\ said' = [said EXCEPT ![c] = <<h>>]
    /\ phase' = [phase EXCEPT ![c] = "config"]
    /\ asked' = [asked EXCEPT ![c] = "features"]
    /\ UNCHANGED <<ports, pending, missed, swports, changes, rest, wire, evq, setVars>>

\* hello_handler; after a failure the phase stays handshake.
Hello(c, h) ==
    /\ phase[c] = "handshake"
    /\ Negotiate(h) # Failed
    /\ ver' = [ver EXCEPT ![c] = Negotiate(h)]
    /\ said' = [said EXCEPT ![c] = <<h>>]
    /\ phase' = [phase EXCEPT ![c] = "config"]
    /\ asked' = [asked EXCEPT ![c] = "features"]
    /\ UNCHANGED <<ports, pending, missed, swports, changes, rest, wire, evq, setVars>>

Reading(c, type) ==
    /\ phase[c] \notin {"none", "dead"}
    /\ pending[c] = << >>
    /\ wire[c] # << >>
    /\ Head(wire[c]).type = type

\* switch_features_handler of OFPHandler; that of DPSet only assigns the same
\* dictionary once more.
Features(c) ==
    /\ Reading(c, "features")
    /\ wire' = [wire EXCEPT ![c] = Tail(@)]
    /\ IF ver[c] < 4
       THEN /\ ports' = [ports EXCEPT ![c] = Head(wire[c]).ports]
            /\ phase' = [phase EXCEPT ![c] = "main"]
            /\ Notify(StateEvent(c, "main"))
            /\ UNCHANGED asked
       ELSE /\ ports' = [ports EXCEPT ![c] = NoPorts]
            /\ asked' = [asked EXCEPT ![c] = "port_desc"]
            /\ UNCHANGED <<phase, evq>>
    /\ UNCHANGED <<ver, said, pending, missed, swports, changes, rest, setVars>>

\* multipart_reply_handler
PortDescReply(c) ==
    /\ Reading(c, "port_desc")
    /\ wire' = [wire EXCEPT ![c] = Tail(@)]
    /\ ports' = [ports EXCEPT ![c] = Updated(@, Head(wire[c]).ports)]
    /\ IF Head(wire[c]).more
       THEN UNCHANGED <<phase, evq>>
       ELSE /\ phase' = [phase EXCEPT ![c] = "main"]
            /\ Notify(StateEvent(c, "main"))
    /\ UNCHANGED <<ver, said, pending, missed, swports, changes, asked, rest, setVars>>

\* EventOFPPortStatus goes to DPSet, then port_status_handler runs; both want
\* the main phase.  The broadcast may block, so the two are separate steps.
PortStatus(c) ==
    /\ Reading(c, "status")
    /\ wire' = [wire EXCEPT ![c] = Tail(@)]
    /\ IF phase[c] = "main"
       THEN /\ pending' = [pending EXCEPT ![c] = <<Head(wire[c])>>]
            /\ Notify([type |-> "status", conn |-> c, status |-> Head(wire[c])])
            /\ UNCHANGED missed
       ELSE /\ missed' = [missed EXCEPT ![c] = @ \/ ports[c] # NoPorts]
            /\ UNCHANGED <<pending, evq>>
    /\ UNCHANGED <<phase, ver, said, ports, swports, changes, asked, rest, setVars>>

\* port_status_handler
ApplyStatus(c) ==
    /\ pending[c] # << >>
    /\ ports' = [ports EXCEPT ![c] = IF phase[c] = "main" THEN Applied(@, Head(pending[c]))
                                                          ELSE @]
    /\ pending' = [pending EXCEPT ![c] = << >>]
    /\ UNCHANGED <<phase, ver, said, missed, wireVars, evq, setVars>>

\* What the switch of a dead connection sent or would send is not read.
Gone(c) ==
    /\ wire' = [wire EXCEPT ![c] = << >>]
    /\ asked' = [asked EXCEPT ![c] = "nothing"]
    /\ rest' = [rest EXCEPT ![c] = NoPorts]

\* The connection dies in one of its own greenlets: Datapath.close.
Die(c) ==
    /\ phase[c] \in {"handshake", "config", "main"}
    /\ phase' = [phase EXCEPT ![c] = "dead"]
    /\ Notify(StateEvent(c, "dead"))
    /\ Gone(c)
    /\ UNCHANGED <<ver, said, ports, pending, missed, swports, changes, setVars>>

-----------------------------------------------------------------------------
(* DPSet.                                                                  *)

Handling(type) == job = Idle /\ evq # << >> /\ Head(evq).type = type

Announce(d, events) == announced' = [announced EXCEPT ![d] = @ \o events]

\* Mutant: every registration is announced as a new switch.
RegisterNow_bug(c, reconnected) ==
    LET d == DpidOf[c]
    IN  /\ dps' = With(dps, d, c)
        /\ pstate' = With(pstate, d, ports[c])
        /\ owner' = With(owner, d, c)
        /\ Announce(d, <<"enter">>)

\* The second half of _register, after the old connection was closed.
RegisterNow(c, reconnected) ==
    LET d == DpidOf[c]
    IN  /\ dps' = With(dps, d, c)
        /\ IF d \notin DOMAIN pstate
           THEN pstate' = With(pstate, d, ports[c]) /\ owner' = With(owner, d, c)
           ELSE UNCHANGED <<pstate, owner>>
        /\ Announce(d, (IF d \notin DOMAIN pstate THEN <<"enter">> ELSE << >>)
                        \o (IF reconnected THEN <<"reconnected">> ELSE << >>))

\* _register for the main phase.  An older connection of the same switch is
\* closed first, and its close() may block.
Register ==
    /\ Handling("state")
    /\ Head(evq).phase = "main"
    /\ LET c == Head(evq).conn
           d == DpidOf[c]
       IN  IF d \in DOMAIN dps
           THEN /\ job' = [do |-> "register", conn |-> c]
                /\ IF phase[dps[d]] # "dead"
                   THEN /\ phase' = [phase EXCEPT ![dps[d]] = "dead"]
                        /\ evq' = Append(Tail(evq), StateEvent(dps[d], "dead"))
                        /\ Gone(dps[d])
                   ELSE evq' = Tail(evq) /\ UNCHANGED <<phase, wire, asked, rest>>
                /\ UNCHANGED <<dps, pstate, owner, announced>>
           ELSE /\ RegisterNow(c, FALSE)
                /\ evq' = Tail(evq)
                /\ UNCHANGED <<phase, job, wire, asked, rest>>
    /\ UNCHANGED <<ver, said, ports, pending, missed, swports, changes>>

Reregister ==
    /\ job.do = "register"
    /\ RegisterNow(job.conn, TRUE)
    /\ job' = Idle
    /\ UNCHANGED <<connVars, wireVars, evq>>

\* Mutant: the switch is unregistered whichever of its connections died.
Unregister_bug ==
    /\ Handling("state")
    /\ Head(evq).phase = "dead"
    /\ evq' = Tail(evq)
    /\ LET c == Head(evq).conn
           d == DpidOf[c]
       IN  IF d \in DOMAIN dps
           THEN /\ pstate' = With(pstate, d, NoPorts)
                /\ Announce(d, <<"leave">>)
                /\ job' = [do |-> "unregister", conn |-> c]
           ELSE UNCHANGED <<pstate, announced, job>>
    /\ UNCHANGED <<connVars, wireVars, dps, owner>>

\* _unregister for the dead phase, up to the announcement, which may block.
Unregister ==
    /\ Handling("state")
    /\ Head(evq).phase = "dead"
    /\ evq' = Tail(evq)
    /\ LET c == Head(evq).conn
           d == DpidOf[c]
       IN  IF \E e \in DOMAIN dps : dps[e] = c
           THEN /\ pstate' = With(pstate, d, NoPorts)
                /\ Announce(d, <<"leave">>)
                /\ job' = [do |-> "unregister", conn |-> c]
           ELSE UNCHANGED <<pstate, announced, job>>
    /\ UNCHANGED <<connVars, wireVars, dps, owner>>

\* Mutant: the entry of port_state is kept.
Unregistered_bug ==
    /\ job.do = "unregister"
    /\ dps' = Minus(dps, DpidOf[job.conn])
    /\ job' = Idle
    /\ UNCHANGED <<connVars, wireVars, evq, announced, pstate, owner>>

Unregistered ==
    /\ job.do = "unregister"
    /\ LET d == DpidOf[job.conn]
       IN  dps' = Minus(dps, d) /\ pstate' = Minus(pstate, d) /\ owner' = Minus(owner, d)
    /\ job' = Idle
    /\ UNCHANGED <<connVars, wireVars, evq, announced>>

\* Mutant: a modified port is not written to port_state.
StatusEvent_bug ==
    /\ Handling("status")
    /\ evq' = Tail(evq)
    /\ LET d == DpidOf[Head(evq).conn]
           s == Head(evq).status
       IN  pstate' = IF d \notin DOMAIN pstate \/ s.reason = "modify" THEN pstate
                     ELSE [pstate EXCEPT ![d] = Applied(@, s)]
    /\ UNCHANGED <<connVars, wireVars, dps, job, announced, owner>>

\* port_status_handler of DPSet, which goes by the id of the switch; a KeyError
\* ends the handler, not the loop.
StatusEvent ==
    /\ Handling("status")
    /\ evq' = Tail(evq)
    /\ LET c == Head(evq).conn
           d == DpidOf[c]
       IN  /\ pstate' = IF d \in DOMAIN pstate
                        THEN [pstate EXCEPT ![d] = Applied(@, Head(evq).status)]
                        ELSE pstate
           /\ owner' = IF d \in DOMAIN owner /\ owner[d] # c THEN Minus(owner, d) ELSE owner
    /\ UNCHANGED <<connVars, wireVars, dps, job, announced>>

DPSetStep == Register \/ Reregister \/ Unregister \/ Unregistered \/ StatusEvent

RecvStep(c) == Features(c) \/ PortDescReply(c) \/ PortStatus(c) \/ ApplyStatus(c)

Next ==
    \/ \E d \in Dpids, reason \in {"add", "modify", "delete"}, p \in PortNos, a \in PortAttrs :
           PortChange(d, reason, p, a)
    \/ \E c \in Conns : AnswerFeatures(c) \/ AnswerRest(c)
    \/ \E c \in Conns, now \in SUBSET PortNos : AnswerPortDesc(c, now)
    \/ \E c \in Conns : Connect(c) \/ Die(c)
    \/ \E c \in Conns, h \in SwitchHello : Hello(c, h)
    \/ \E c \in Conns : RecvStep(c)
    \/ DPSetStep

Spec == Init /\ [][Next]_vars

-----------------------------------------------------------------------------
(* What is checked.                                                        *)

\* The tables have the shapes the code gives them, and DPSet keeps ports for
\* exactly the switches it has a connection for.
TypeOK ==
    /\ swports \in [Dpids -> Ports]
    /\ phase \in [Conns -> {"none", "handshake", "config", "main", "dead"}]
    /\ ver \in [Conns -> Supported \cup {0}]
    /\ ports \in [Conns -> Ports]
    /\ \A c \in Conns : Len(pending[c]) <= 1
    /\ DOMAIN dps \subseteq Dpids
    /\ \A d \in DOMAIN dps : dps[d] \in Conns /\ DpidOf[dps[d]] = d
    /\ DOMAIN pstate = DOMAIN dps
    /\ \A d \in DOMAIN pstate : pstate[d] \in Ports

\* A connection gets past the handshake only with the version that its switch,
\* which sees the highest version of the controller and nothing else, uses too.
\* So one with a gap (Gap) never does, whatever the comment in the code says.
VersionAgreed ==
    \A c \in Conns : phase[c] \in {"config", "main"} => AgreedVersion(said[c][1], ver[c])

Quiet == evq = << >> /\ job = Idle

\* When DPSet has caught up, get() returns for a switch the one connection that
\* is in the main phase, and nothing for a switch that is gone: a reconnecting
\* switch takes over, and the late death of its old connection is ignored.
RegistryExact ==
    Quiet => \A c \in Conns :
        phase[c] = "main" <=> DpidOf[c] \in DOMAIN dps /\ dps[DpidOf[c]] = c

\* When everything was read and processed, get_ports() agrees with Datapath.ports
\* and with the switch, although DPSet copies the ports late and replays the
\* status events queued since.  It says nothing of a switch that reconnected
\* (its port_state is kept), of one for which DPSet handled a status event of
\* another connection (an older one that was still open when the switch came
\* back twice), or whose status came between two parts of its port description
\* (nobody handles it in the config phase).
PortsInSync ==
    \A d \in DOMAIN dps :
        LET c == dps[d]
        IN  Quiet /\ phase[c] = "main" /\ wire[c] = << >> /\ pending[c] = << >>
                  /\ d \in DOMAIN owner /\ owner[d] = c /\ ~missed[c]
            => pstate[d] = ports[c] /\ ports[c] = swports[d]

\* Applications see every switch enter before anything else, never enter twice,
\* and reconnect or leave only while it is in.
AnnouncementsAlternate ==
    \A d \in Dpids : \A i \in DOMAIN announced[d] :
        LET inside == i > 1 /\ announced[d][i - 1] # "leave"
        IN  announced[d][i] = "enter" <=> ~inside
=============================================================================
