------------------------------- MODULE Ofctl -------------------------------
(***************************************************************************)
(* The ofctl service, ryu/app/ofctl/service.py: an application that sends  *)
(* an OpenFlow message for another one (api.send_msg), follows it by a     *)
(* barrier request, and answers with what the switch replied before the    *)
(* barrier reply.  The service runs in one event loop; the clients wait    *)
(* for their answer, and the receive loops of the connections feed the     *)
(* service's queue.                                                        *)
(*                                                                         *)
(* The three dictionaries of a _SwitchInfo always have an entry each for a *)
(* request that waits for its barrier; here that is one record.  The info  *)
(* of a connection lives in pending[c] and can be reached as long as       *)
(* switches maps the id of the switch to c.  Nothing blocks on a full      *)
(* queue here; that is the subject of Datapath and EventBus.               *)
(***************************************************************************)
EXTENDS Integers, Sequences, FiniteSets, Functions

CONSTANTS
    Conns,       \* connections (Datapath objects), each used once
    Modern,      \* connections that negotiated OpenFlow 1.3 or later
    IdOf,        \* connection -> id of the switch at the other end
    Clients,     \* greenlets that call api.send_msg
    Classes,     \* message classes used as reply_cls
    Asked,       \* the requests clients make, a subset of Requests
    XidStart,    \* connection -> the random first Datapath.xid
    MaxReplies,  \* bound on the replies to one request
    MaxRequests  \* bound on the requests of one behaviour

None == "none"

\* f with y at x
With(f, x, y) == [z \in DOMAIN f \cup {x} |-> IF z = x THEN y ELSE f[z]]

NoAnswer == [kind |-> None, msgs |-> << >>]
Xids(c) == XidStart[c] .. XidStart[c] + 2 * MaxRequests

\* A barrier request, or another message with the class of its replies.
Requests ==
    {r \in [conn : Conns, kind : {"barrier", "other"}, cls : Classes \cup {None}, multi : BOOLEAN] :
        (r.cls = None => ~r.multi) /\ (r.kind = "barrier" => r.cls = None)}

\* The xids of two connections start at random in 32 bits and do not meet.
ASSUME OfctlAssumption ==
    /\ Modern \subseteq Conns
    /\ XidStart \in [Conns -> Nat]
    /\ MaxReplies \in Nat /\ MaxRequests \in Nat
    /\ \A c, d \in Conns : c # d => Xids(c) \cap Xids(d) = {}
    /\ Asked \subseteq Requests /\ Asked # {}
    /\ Classes \cap {None, "barrier", "error"} = {}

VARIABLES
    phase,      \* Datapath.state
    xid,        \* Datapath.xid
    sent,       \* connection -> requests the switch has not answered yet
    evq,        \* the event queue of the service
    switches,   \* OfctlService._switches: id -> connection, partial
    pending,    \* connection -> the requests in its _SwitchInfo
    observing,  \* OfctlService._observing_events
    observers,  \* message class -> phases the service observes it in; {}: all
    made,       \* number of requests so far
    req,        \* client -> its latest request
    state,      \* client -> whether it is waiting in send_request
    answer,     \* client -> the messages in the reply it got
    replied     \* client -> what the switch replied to its request (history)

connVars == <<phase, xid, sent>>
serviceVars == <<switches, pending, observing, observers>>
clientVars == <<made, req, state, answer, replied>>
vars == <<phase, xid, sent, evq, switches, pending, observing, observers, made, req,
          state, answer, replied>>

\* The handlers with a decorator are observers from the start.
Static == [k \in {"features", "barrier", "error"} |->
              IF k = "features" THEN {"config"} ELSE {"main"}]

Init ==
    /\ phase = [c \in Conns |-> "none"]
    /\ xid = XidStart
    /\ sent = [c \in Conns |-> << >>]
    /\ evq = << >>
    /\ switches = << >>
    /\ pending = [c \in Conns |-> {}]
    /\ observing = [k \in Classes |-> 0]
    /\ observers = Static
    /\ made = 0
    /\ req = [u \in Clients |-> CHOOSE r \in Asked : TRUE]
    /\ state = [u \in Clients |-> "idle"]
    /\ answer = [u \in Clients |-> NoAnswer]
    /\ replied = [u \in Clients |-> << >>]

-----------------------------------------------------------------------------
(* Connections and switches.  A switch handles its messages in order and    *)
(* says everything about a message before it answers the barrier behind it. *)

\* get_observers: who gets an event is decided when it is sent.
Observed(k, p) == k \in DOMAIN observers /\ (observers[k] = {} \/ p \in observers[k])

\* A message of class k arrived on c; u is the client whose request it is about.
Arrive(c, k, x, u) ==
    evq' = IF Observed(k, phase[c])
           THEN Append(evq, [type |-> "msg", conn |-> c, cls |-> k, xid |-> x,
                             phase |-> phase[c], about |-> u])
           ELSE evq

\* The features reply of the handshake.  OFPHandler then enters the main
\* phase, or asks for the ports first (OpenFlow 1.3 and later).
Features(c) ==
    /\ phase[c] = "none"
    /\ evq' = IF Observed("features", "config")
              THEN Append(evq, [type |-> "msg", conn |-> c, cls |-> "features", xid |-> 0,
                                phase |-> "config", about |-> None])
              ELSE evq
    /\ phase' = [phase EXCEPT ![c] = IF c \in Modern THEN "config" ELSE "main"]
    /\ sent' = IF c \in Modern THEN [sent EXCEPT ![c] = <<[type |-> "ports"]>>] ELSE sent
    /\ UNCHANGED <<xid, serviceVars, clientVars>>

Serving(c, type) ==
    phase[c] \in {"config", "main"} /\ sent[c] # << >> /\ Head(sent[c]).type = type

PortDesc(c) ==
    /\ Serving(c, "ports")
    /\ phase' = [phase EXCEPT ![c] = "main"]
    /\ sent' = [sent EXCEPT ![c] = Tail(@)]
    /\ UNCHANGED <<xid, evq, serviceVars, clientVars>>

\* One reply of the class the client expects.
SwitchReplies(c) ==
    /\ Serving(c, "request")
    /\ LET m == Head(sent[c])
       IN  /\ m.cls # None
           /\ Len(replied[m.about]) < MaxReplies
           /\ Arrive(c, m.cls, m.xid, m.about)
           /\ replied' = [replied EXCEPT ![m.about] = Append(@, m.cls)]
    /\ UNCHANGED <<connVars, serviceVars, made, req, state, answer>>

\* The request fails, perhaps after some replies.
SwitchError(c) ==
    /\ Serving(c, "request")
    /\ LET m == Head(sent[c])
       IN  /\ Arrive(c, "error", m.xid, m.about)
           /\ replied' = [replied EXCEPT ![m.about] = Append(@, "error")]
    /\ sent' = [sent EXCEPT ![c] = Tail(@)]
    /\ UNCHANGED <<phase, xid, serviceVars, made, req, state, answer>>

SwitchDone(c) ==
    /\ Serving(c, "request")
    /\ sent' = [sent EXCEPT ![c] = Tail(@)]
    /\ UNCHANGED <<phase, xid, evq, serviceVars, clientVars>>

SwitchBarrier(c) ==
    /\ Serving(c, "barrier")
    /\ Arrive(c, "barrier", Head(sent[c]).xid, Head(sent[c]).about)
    /\ sent' = [sent EXCEPT ![c] = Tail(@)]
    /\ UNCHANGED <<phase, xid, serviceVars, clientVars>>

DeadEvent(c) == [type |-> "dead", conn |-> c]

\* Datapath.close, or the connection breaks.
Die(c) ==
    /\ phase[c] \in {"config", "main"}
    /\ phase' = [phase EXCEPT ![c] = "dead"]
    /\ sent' = [sent EXCEPT ![c] = << >>]
    /\ evq' = Append(evq, DeadEvent(c))
    /\ UNCHANGED <<xid, serviceVars, clientVars>>

-----------------------------------------------------------------------------
(* The clients.                                                            *)

\* api.send_msg with a datapath object the client got from an event or from
\* api.get_datapath, perhaps long ago.  No client asks a switch for its
\* features before the handshake ended: the reply would register it again.
SendMsg(u, r) ==
    /\ state[u] # "waiting"
    /\ phase[r.conn] # "none"
    /\ r.cls = "features" => phase[r.conn] # "config"
    /\ made < MaxRequests
    /\ made' = made + 1
    /\ req' = [req EXCEPT ![u] = r]
    /\ state' = [state EXCEPT ![u] = "waiting"]
    /\ answer' = [answer EXCEPT ![u] = NoAnswer]
    /\ replied' = [replied EXCEPT ![u] = << >>]
    /\ evq' = Append(evq, [type |-> "request", client |-> u])
    /\ UNCHANGED <<connVars, serviceVars>>

\* reply_to_request
Reply(u, rep) ==
    /\ state' = [state EXCEPT ![u] = "answered"]
    /\ answer' = [answer EXCEPT ![u] = rep]

-----------------------------------------------------------------------------
(* The event loop of the service.                                          *)

Handling(type) == evq # << >> /\ Head(evq).type = type
HandlingMsg(ks) == Handling("msg") /\ Head(evq).cls \in ks

\* _switch_features_handler.  When a client waits for features replies, the
\* event goes to _handle_reply next: the info it finds there is the new one,
\* which has no request yet, and it returns.
HandleFeatures ==
    /\ HandlingMsg({"features"})
    /\ Head(evq).phase = "config"
    /\ LET c == Head(evq).conn
           d == IdOf[c]
       IN  /\ switches' = With(switches, d, c)
           /\ IF d \in DOMAIN switches /\ phase[switches[d]] # "dead"
              THEN /\ phase' = [phase EXCEPT ![switches[d]] = "dead"]
                   /\ sent' = [sent EXCEPT ![switches[d]] = << >>]
                   /\ evq' = Append(Tail(evq), DeadEvent(switches[d]))
              ELSE evq' = Tail(evq) /\ UNCHANGED <<phase, sent>>
    /\ UNCHANGED <<xid, pending, observing, observers, clientVars>>

\* Mutant: the id is forgotten whichever of its connections died.
HandleDead_bug ==
    /\ Handling("dead")
    /\ switches' = Restrict(switches, DOMAIN switches \ {IdOf[Head(evq).conn]})
    /\ evq' = Tail(evq)
    /\ UNCHANGED <<connVars, pending, observing, observers, clientVars>>

\* _handle_dead: the requests in the info are forgotten, not answered.
HandleDead ==
    /\ Handling("dead")
    /\ switches' = Restrict(switches, {d \in DOMAIN switches : switches[d] # Head(evq).conn})
    /\ evq' = Tail(evq)
    /\ UNCHANGED <<connVars, pending, observing, observers, clientVars>>

\* Mutant: a class that is observed already is not counted again.
Observe_bug(k) ==
    /\ observing' = [observing EXCEPT ![k] = 1]
    /\ observers' = IF k \notin DOMAIN observers THEN With(observers, k, {}) ELSE observers

\* _observe_msg
Observe(k) ==
    /\ observing' = [observing EXCEPT ![k] = @ + 1]
    /\ observers' = IF observing[k] = 0 /\ k \notin DOMAIN observers
                    THEN With(observers, k, {}) ELSE observers

\* Mutant: the class is no longer observed when one of its requests ends.
Unobserve_bug(k) ==
    /\ observing' = [observing EXCEPT ![k] = @ - 1]
    /\ observers' = Restrict(observers, DOMAIN observers \ {k})

\* _unobserve_msg
Unobserve(k) ==
    /\ observing' = [observing EXCEPT ![k] = @ - 1]
    /\ observers' = IF observing[k] = 1 THEN Restrict(observers, DOMAIN observers \ {k})
                                        ELSE observers

\* _handle_send_msg for an id without info: InvalidDatapath
RefuseSend ==
    /\ Handling("request")
    /\ IdOf[req[Head(evq).client].conn] \notin DOMAIN switches
    /\ Reply(Head(evq).client, [kind |-> "InvalidDatapath", msgs |-> << >>])
    /\ evq' = Tail(evq)
    /\ UNCHANGED <<connVars, serviceVars, made, req, replied>>

\* The assertions of _store_xid.
XidsFree(info, x, b) == \A p \in info : p.xid # x /\ p.barrier # b

\* Mutant: nothing is sent behind the message.
Messages_bug(u, r, x, b) ==
    IF r.kind = "barrier" THEN <<[type |-> "barrier", xid |-> b, about |-> u]>>
    ELSE <<[type |-> "request", xid |-> x, about |-> u, cls |-> r.cls]>>

\* What _handle_send_msg sends: the message and a barrier request behind it.
Messages(u, r, x, b) ==
    (IF r.kind = "barrier" THEN << >>
     ELSE <<[type |-> "request", xid |-> x, about |-> u, cls |-> r.cls]>>)
    \o <<[type |-> "barrier", xid |-> b, about |-> u]>>

\* _handle_send_msg: the info is the one of the switch's latest connection,
\* the xids and the sending are the message's own.  A failing assertion ends
\* the handler, and a message for a dead connection is discarded.
HandleSend ==
    /\ Handling("request")
    /\ evq' = Tail(evq)
    /\ LET u    == Head(evq).client
           r    == req[u]
           x    == xid[r.conn] + 1
           b    == IF r.kind = "barrier" THEN x ELSE x + 1
           info == switches[IdOf[r.conn]]
           stored == XidsFree(pending[info], x, b)
       IN  /\ IdOf[r.conn] \in DOMAIN switches
           /\ IF r.cls # None THEN Observe(r.cls) ELSE UNCHANGED <<observing, observers>>
           /\ xid' = [xid EXCEPT ![r.conn] = b]
           /\ pending' = IF stored
                         THEN [pending EXCEPT ![info] = @ \cup {[xid |-> x, barrier |-> b,
                                   client |-> u, cls |-> r.cls, results |-> << >>]}]
                         ELSE pending
           /\ sent' = IF stored /\ phase[r.conn] # "dead"
                      THEN [sent EXCEPT ![r.conn] = @ \o Messages(u, r, x, b)] ELSE sent
    /\ UNCHANGED <<phase, switches, clientVars>>

\* The entry of the current info of the connection an event came from.
Entry(field, x) ==
    LET d == IdOf[Head(evq).conn]
    IN  IF d \in DOMAIN switches THEN {p \in pending[switches[d]] : p[field] = x} ELSE {}

\* The end of _handle_barrier.  One message is returned alone, several are in
\* a list or in the exception; a barrier request gets the barrier reply.
BarrierAnswer(r, msgs) ==
    [kind |-> IF r.kind = "barrier" THEN "result"
              ELSE IF "error" \in Range(msgs) THEN "OFError"
              ELSE IF ~r.multi /\ Len(msgs) > 1 THEN "UnexpectedMultiReply"
              ELSE "result",
     msgs |-> msgs]

\* _handle_barrier
HandleBarrier ==
    /\ HandlingMsg({"barrier"})
    /\ evq' = Tail(evq)
    /\ LET found == Entry("barrier", Head(evq).xid)
       IN  IF found = {}
           THEN UNCHANGED <<serviceVars, clientVars>>
           ELSE \E p \in found :
                    /\ pending' = [pending EXCEPT ![switches[IdOf[Head(evq).conn]]] = @ \ {p}]
                    /\ IF p.cls # None THEN Unobserve(p.cls)
                                       ELSE UNCHANGED <<observing, observers>>
                    /\ Reply(p.client, BarrierAnswer(req[p.client], p.results))
                    /\ UNCHANGED <<switches, made, req, replied>>
    /\ UNCHANGED connVars

\* _handle_reply, for errors and for the classes a request expects
HandleReply ==
    /\ HandlingMsg(Classes \cup {"error"})
    /\ Head(evq).cls = "features" => Head(evq).phase # "config"
    /\ evq' = Tail(evq)
    /\ LET k == Head(evq).cls
           found == {p \in Entry("xid", Head(evq).xid) :
                         k = "error" \/ (observing[k] > 0 /\ p.cls = k)}
       IN  pending' = [c \in Conns |->
                          {IF p \in found THEN [p EXCEPT !.results = Append(@, k)] ELSE p :
                               p \in pending[c]}]
    /\ UNCHANGED <<connVars, switches, observing, observers, clientVars>>

Service == HandleFeatures \/ HandleDead \/ RefuseSend \/ HandleSend \/ HandleBarrier \/ HandleReply

SwitchStep(c) == PortDesc(c) \/ SwitchError(c) \/ SwitchDone(c) \/ SwitchBarrier(c)

Next ==
    \/ \E c \in Conns : Features(c) \/ SwitchReplies(c) \/ SwitchStep(c) \/ Die(c)
    \/ \E u \in Clients, r \in Asked : SendMsg(u, r)
    \/ Service

\* The event loop runs while its queue holds events, and a switch that stays
\* connected answers: a barrier request always, by the OpenFlow specification.
Spec == Init /\ [][Next]_vars /\ WF_vars(Service) /\ \A c \in Conns : WF_vars(SwitchStep(c))

-----------------------------------------------------------------------------
(* What is checked.                                                        *)

Infos == UNION {pending[c] : c \in Conns}

\* The tables have the shapes the code gives them.
TypeOK ==
    /\ phase \in [Conns -> {"none", "config", "main", "dead"}]
    /\ \A c \in Conns : xid[c] \in Xids(c)
    /\ \A d \in DOMAIN switches : switches[d] \in Conns /\ IdOf[switches[d]] = d
    /\ \A p \in Infos : p.client \in Clients /\ p.cls \in Classes \cup {None}
    /\ observing \in [Classes -> Nat]
    /\ state \in [Clients -> {"idle", "waiting", "answered"}]

\* A client whose request was carried out gets every message the switch sent
\* about it, in order, and no other: neither those of another client nor those
\* of an old connection; it gets them in an exception if one is an error or
\* there are more than it expects.  It relies on the barrier coming last and on the
\* service observing the class until then.
AnswersExact ==
    \A u \in Clients : state[u] = "answered" =>
        \/ answer[u].kind = "InvalidDatapath"
        \/ /\ answer[u].msgs = replied[u]
           /\ answer[u].kind = "result" <=> "error" \notin Range(replied[u])
                                           /\ (Len(replied[u]) <= 1 \/ req[u].multi)

\* A reply class is observed as long as a request waits for it, and its count
\* is that of the requests that wait or were forgotten with their connection.
ObservingExact ==
    \A k \in Classes :
        /\ observing[k] = Cardinality({p \in Infos : p.cls = k})
        /\ observing[k] > 0 => k \in DOMAIN observers

\* When the queue is empty get_datapath knows a connected switch by its one
\* live connection, and no other: the late death of the connection that a
\* reconnecting switch replaced is ignored.
RegistryExact ==
    evq = << >> => \A c \in Conns :
        phase[c] \in {"config", "main"} <=> IdOf[c] \in DOMAIN switches /\ switches[IdOf[c]] = c

Waiting(u) == state[u] = "waiting"

\* api.send_msg returns, unless the connection the message is for dies.
AnsweredOrDead ==
    \A u \in Clients : Waiting(u) ~> (~Waiting(u) \/ phase[req[u].conn] = "dead")

\* api.send_msg returns or raises an exception: it says that it waits for the
\* replies and raises an exception on error, and that InvalidDatapath "can
\* happen when the bridge disconnects".
EveryRequestAnswered ==
    \A u \in Clients : Waiting(u) ~> ~Waiting(u)
=============================================================================
