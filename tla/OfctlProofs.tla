---------------------------- MODULE OfctlProofs ----------------------------
(***************************************************************************)
(* Proofs about the ofctl service, for every set of connections, clients,  *)
(* message classes and requests.                                           *)
(***************************************************************************)
EXTENDS Ofctl, ProofLemmas

(***************************************************************************)
(* Types.                                                                  *)
(***************************************************************************)
Replies == Classes \cup {"error"}

FeaturesEvent(c) == [type |-> "msg", conn |-> c, cls |-> "features", xid |-> 0,
                     phase |-> "config", about |-> None]

RequestEvent(u) == [type |-> "request", client |-> u]

\* What a switch says about a request.
Answer == [type : {"msg"}, conn : Conns, cls : Replies \cup {"barrier"}, xid : Nat,
           phase : {"config", "main"}, about : Clients]

Event == {FeaturesEvent(c) : c \in Conns} \cup Answer
         \cup {DeadEvent(c) : c \in Conns} \cup {RequestEvent(u) : u \in Clients}

PortsMessage == [type |-> "ports"]

Message == {PortsMessage}
           \cup [type : {"request"}, xid : Nat, about : Clients, cls : Classes \cup {None}]
           \cup [type : {"barrier"}, xid : Nat, about : Clients]

InfoEntry == [xid : Nat, barrier : Nat, client : Clients, cls : Classes \cup {None},
              results : Seq(Replies)]

ConnType ==
    /\ phase \in [Conns -> {"none", "config", "main", "dead"}]
    /\ xid \in [Conns -> Nat]
    /\ sent \in [Conns -> Seq(Message)]

ServiceType ==
    /\ evq \in Seq(Event)
    /\ \A d \in DOMAIN switches : switches[d] \in Conns /\ IdOf[switches[d]] = d
    /\ pending \in [Conns -> SUBSET InfoEntry]
    /\ observing \in [Classes -> Int]

ClientType ==
    /\ made \in Nat
    /\ req \in [Clients -> Asked]
    /\ state \in [Clients -> {"idle", "waiting", "answered"}]
    /\ DOMAIN answer = Clients
    /\ replied \in [Clients -> Seq(Replies)]

Types == ConnType /\ ServiceType /\ ClientType

(***************************************************************************)
(* Where the request of a client is: in the queue, then in one info.       *)
(***************************************************************************)
Queued == {u \in Clients : Holds(evq, RequestEvent(u))}

ClientInv ==
    /\ \A u \in Clients : /\ Unique(evq, RequestEvent(u))
                          /\ u \in Queued => state[u] = "waiting"
    /\ \A c \in Conns : \A p \in pending[c] : state[p.client] = "waiting" /\ p.client \notin Queued
    /\ \A b, c \in Conns : \A p \in pending[b], q \in pending[c] :
          p.client = q.client => b = c /\ p = q

\* The xids the service has taken of a connection.
Taken(c) == XidStart[c] + 1 .. xid[c]

\* An entry has xids of its own, of the connection its request was for.
XidsOf(p) == {p.xid, p.barrier}

XidInv ==
    /\ IsFiniteSet(Queued)
    /\ made <= MaxRequests
    /\ \A c \in Conns : /\ XidStart[c] <= xid[c]
                        /\ xid[c] + 2 * Cardinality(Queued) <= XidStart[c] + 2 * made
    /\ \A p \in Infos : XidsOf(p) \subseteq Taken(req[p.client].conn)
    /\ \A p, q \in Infos : p # q => XidsOf(p) \cap XidsOf(q) = {}

(***************************************************************************)
(* The classes that are observed.                                          *)
(***************************************************************************)
WaitingFor(k) == {p \in Infos : p.cls = k}

CountInv ==
    \A k \in Classes : /\ IsFiniteSet(WaitingFor(k))
                       /\ observing[k] = Cardinality(WaitingFor(k))
                       /\ observing[k] > 0 => k \in DOMAIN observers

CoreInv == ClientInv /\ XidInv /\ CountInv

(***************************************************************************)
(* The registry, for requests that do not expect features replies.         *)
(***************************************************************************)
Registered(c) == IdOf[c] \in DOMAIN switches /\ switches[IdOf[c]] = c

\* The service observes features replies in the config phase, errors and
\* barrier replies in the main phase, and the other classes in every phase.
ObserversInv ==
    /\ \A k \in DOMAIN Static : k \in DOMAIN observers /\ observers[k] = Static[k]
    /\ \A k \in DOMAIN observers \cap Classes : observers[k] = {}

RegInv ==
    \A c \in Conns :
        /\ Unique(evq, FeaturesEvent(c))
        /\ Holds(evq, FeaturesEvent(c)) => ~Registered(c) /\ phase[c] # "none"
        /\ Holds(evq, DeadEvent(c)) => phase[c] = "dead"
        /\ Registered(c) => phase[c] # "none"
        /\ phase[c] \in {"config", "main"} => Holds(evq, FeaturesEvent(c)) \/ Registered(c)
        /\ phase[c] = "dead" => /\ Followed(evq, FeaturesEvent(c), DeadEvent(c))
                                /\ Registered(c) => Holds(evq, DeadEvent(c))

(***************************************************************************)
(* What the switch says about a request, on its way to the client.         *)
(***************************************************************************)

\* A message about the request of client u, an answer to it, one that counts.
MessageOn(m, u) == m.type \in {"request", "barrier"} /\ m.about = u

AnswerOn(e, u) == e.type = "msg" /\ e.cls # "features" /\ e.about = u

ReplyOn(e, u) == AnswerOn(e, u) /\ e.cls # "barrier"

\* The message m, or the answer e, goes with the entry p.
Carries(m, p) ==
    /\ m.type = "request" => m.xid = p.xid /\ m.cls = p.cls /\ req[p.client].kind = "other"
    /\ m.type = "barrier" => m.xid = p.barrier

Reports(e, p) ==
    IF e.cls = "barrier" THEN e.xid = p.barrier ELSE e.xid = p.xid /\ e.cls \in {p.cls, "error"}

\* A request is queued behind the features reply of its connection.
RequestLate ==
    \A u \in Clients : /\ Behind(evq, RequestEvent(u), FeaturesEvent(req[u].conn))
                       /\ u \in Queued => phase[req[u].conn] # "none"

\* The ports are asked for first.
PortsFirst ==
    \A c \in Conns : phase[c] = "config" => sent[c] # << >> /\ Head(sent[c]).type = "ports"

\* The messages to a switch belong to entries of the info of its connection,
\* and the barrier request is the last one about its request.
SentOn(c, q) ==
    \A i \in 1 .. Len(q) : \A u \in Clients :
        MessageOn(q[i], u) =>
            /\ req[u].conn = c
            /\ \E p \in pending[c] : p.client = u /\ Carries(q[i], p)
            /\ q[i].type = "barrier" => \A j \in 1 .. Len(q) : j > i => ~MessageOn(q[j], u)

SentInv == \A c \in Conns : SentOn(c, sent[c])

\* Nothing about the request of client u is on its way to a switch.
Silent(u) == \A c \in Conns : \A j \in 1 .. Len(sent[c]) : ~MessageOn(sent[c][j], u)

\* So do the answers in the queue, and the barrier reply is the last one.
AnswersIn(q) ==
    \A i \in 1 .. Len(q) : \A u \in Clients :
        AnswerOn(q[i], u) =>
            /\ q[i].conn = req[u].conn
            /\ \E p \in pending[req[u].conn] : p.client = u /\ Reports(q[i], p)
            /\ q[i].cls = "barrier" =>
                  Silent(u) /\ \A j \in 1 .. Len(q) : j > i => ~AnswerOn(q[j], u)

AnswerInv == AnswersIn(evq)

\* The replies that are not in the results yet are in the queue q at the
\* positions at, in their order.
Placed(at, results, all, q, u) ==
    /\ Len(results) <= Len(all)
    /\ \A i \in 1 .. Len(results) : results[i] = all[i]
    /\ at \in [Len(results) + 1 .. Len(all) -> 1 .. Len(q)]
    /\ \A i \in DOMAIN at : ReplyOn(q[at[i]], u) /\ q[at[i]].cls = all[i]
    /\ \A i, j \in DOMAIN at : i < j => at[i] < at[j]
    /\ \A n \in 1 .. Len(q) : ReplyOn(q[n], u) => \E i \in DOMAIN at : at[i] = n

OnTheWay(results, all, q, u) ==
    \E at \in [Len(results) + 1 .. Len(all) -> 1 .. Len(q)] : Placed(at, results, all, q, u)

ResultsInv ==
    \A c \in Conns : \A p \in pending[c] :
        Registered(c) /\ req[p.client].conn = c =>
            OnTheWay(p.results, replied[p.client], evq, p.client)

\* An info belongs to a connection whose features reply was handled.
InfoInv ==
    \A c \in Conns : pending[c] # {} => ~Holds(evq, FeaturesEvent(c)) /\ phase[c] # "none"

\* Nothing was replied yet to a request in the queue, nor to a barrier request.
FreshInv ==
    /\ \A u \in Queued : replied[u] = << >>
    /\ \A u \in Clients : req[u].kind = "barrier" => replied[u] = << >>

FlowInv == /\ RequestLate /\ PortsFirst /\ SentInv /\ AnswerInv /\ ResultsInv /\ InfoInv
           /\ FreshInv /\ AnswersExact

-----------------------------------------------------------------------------
(***************************************************************************)
(* Requests, events, messages and entries.                                 *)
(***************************************************************************)

\* What a request says.
LEMMA RequestFacts ==
    \A r \in Asked : /\ r.conn \in Conns /\ r.cls \in Classes \cup {None}
                     /\ r.kind \in {"barrier", "other"} /\ r.multi \in BOOLEAN
                     /\ r.kind = "barrier" => r.cls = None
BY OfctlAssumption DEF Requests

\* The events, by their kind.
LEMMA EventFacts ==
    /\ \A c \in Conns : FeaturesEvent(c) \in Event /\ DeadEvent(c) \in Event
    /\ \A u \in Clients : RequestEvent(u) \in Event
    /\ \A a \in Answer : /\ a \in Event /\ a.type = "msg" /\ a.conn \in Conns /\ a.xid \in Nat
                         /\ a.cls \in Replies \cup {"barrier"} /\ a.about \in Clients
    /\ \A e \in Event : /\ e.type = "request" => e.client \in Clients /\ e = RequestEvent(e.client)
                        /\ e.type = "dead" => e.conn \in Conns /\ e = DeadEvent(e.conn)
                        /\ e.type = "msg" => e.conn \in Conns
                        /\ e.type = "msg" => e \in Answer \/ e = FeaturesEvent(e.conn)
<1>1. \A c \in Conns : FeaturesEvent(c) \in Event /\ DeadEvent(c) \in Event
  BY DEF Event
<1>2. \A u \in Clients : RequestEvent(u) \in Event
  BY DEF Event
<1>3. \A a \in Answer : /\ a \in Event /\ a.type = "msg" /\ a.conn \in Conns /\ a.xid \in Nat
                        /\ a.cls \in Replies \cup {"barrier"} /\ a.about \in Clients
  BY DEF Event, Answer
<1>4. \A x : /\ FeaturesEvent(x).type = "msg" /\ FeaturesEvent(x).conn = x
             /\ DeadEvent(x).type = "dead" /\ DeadEvent(x).conn = x
             /\ RequestEvent(x).type = "request" /\ RequestEvent(x).client = x
  BY DEF FeaturesEvent, DeadEvent, RequestEvent
<1>5. QED
  BY <1>1, <1>2, <1>3, <1>4 DEF Event

\* The events the service and the switches make are told apart.
LEMMA EventKinds ==
    /\ \A b, c : /\ FeaturesEvent(b) # DeadEvent(c) /\ FeaturesEvent(b) # RequestEvent(c)
                 /\ DeadEvent(b) # RequestEvent(c)
                 /\ FeaturesEvent(b) = FeaturesEvent(c) => b = c
                 /\ DeadEvent(b) = DeadEvent(c) => b = c
                 /\ RequestEvent(b) = RequestEvent(c) => b = c
    /\ \A a \in Answer : \A c : a # DeadEvent(c) /\ a # RequestEvent(c)
    /\ "features" \notin Classes =>
          \A a \in Answer : \A c : a # FeaturesEvent(c) /\ a.cls # "features"
<1>1. \A x : /\ FeaturesEvent(x).type = "msg" /\ FeaturesEvent(x).conn = x
             /\ FeaturesEvent(x).cls = "features"
             /\ DeadEvent(x).type = "dead" /\ DeadEvent(x).conn = x
             /\ RequestEvent(x).type = "request" /\ RequestEvent(x).client = x
  BY DEF FeaturesEvent, DeadEvent, RequestEvent
<1>2. \A a \in Answer : a.type = "msg" /\ a.cls \in Replies \cup {"barrier"}
  BY DEF Answer
<1>3. "features" \notin Classes => "features" \notin Replies \cup {"barrier"}
  BY DEF Replies
<1>4. \A b, c : /\ FeaturesEvent(b) # DeadEvent(c) /\ FeaturesEvent(b) # RequestEvent(c)
                /\ DeadEvent(b) # RequestEvent(c)
                /\ FeaturesEvent(b) = FeaturesEvent(c) => b = c
                /\ DeadEvent(b) = DeadEvent(c) => b = c
                /\ RequestEvent(b) = RequestEvent(c) => b = c
  BY <1>1
<1>5. \A a \in Answer : \A c : a # DeadEvent(c) /\ a # RequestEvent(c)
  BY <1>1, <1>2
<1>6. QED
  BY <1>1, <1>2, <1>3, <1>4, <1>5

\* The messages to a switch.
LEMMA MessageFacts ==
    /\ PortsMessage \in Message
    /\ \A m \in Message : m.type \in {"request", "barrier"} => m.xid \in Nat /\ m.about \in Clients
    /\ \A m \in Message : m.type = "request" => m.cls \in Classes \cup {None}
    /\ \A u \in Clients, x \in Nat, k \in Classes \cup {None} :
          [type |-> "request", xid |-> x, about |-> u, cls |-> k] \in Message
    /\ \A u \in Clients, x \in Nat : [type |-> "barrier", xid |-> x, about |-> u] \in Message
BY DEF Message, PortsMessage

\* What _handle_send_msg sends is a message, or two.
LEMMA MessagesFacts ==
    ASSUME NEW u \in Clients, NEW r \in Asked, NEW x \in Nat, NEW b \in Nat
    PROVE  LET q == Messages(u, r, x, b)
               m == [type |-> "request", xid |-> x, about |-> u, cls |-> r.cls]
               e == [type |-> "barrier", xid |-> b, about |-> u]
           IN  /\ q \in Seq(Message) /\ m \in Message /\ e \in Message
               /\ r.kind = "barrier" => Len(q) = 1 /\ q[1] = e
               /\ r.kind # "barrier" => Len(q) = 2 /\ q[1] = m /\ q[2] = e
<1> DEFINE q == Messages(u, r, x, b)
           m == [type |-> "request", xid |-> x, about |-> u, cls |-> r.cls]
           e == [type |-> "barrier", xid |-> b, about |-> u]
<1>1. m \in Message /\ e \in Message
  BY RequestFacts, MessageFacts
<1>2. q = (IF r.kind = "barrier" THEN << >> ELSE <<m>>) \o <<e>>
  BY DEF Messages
<1> HIDE DEF q, m, e
<1>3. CASE r.kind = "barrier"
  <2>1. q = <<e>>
    BY <1>1, <1>2, <1>3
  <2>2. QED
    BY <1>1, <1>3, <2>1 DEF q, m, e
<1>4. CASE r.kind # "barrier"
  <2> DEFINE one == <<m>>
             two == <<e>>
  <2>1. one \in Seq(Message) /\ two \in Seq(Message) /\ Len(one) = 1 /\ Len(two) = 1
        /\ one[1] = m /\ two[1] = e
    BY <1>1
  <2>2. q = one \o two
    BY <1>2, <1>4
  <2> HIDE DEF one, two
  <2>3. q \in Seq(Message) /\ Len(q) = 2 /\ q[1] = m /\ q[2] = e
    BY <2>1, <2>2, ConcatProperties
  <2>4. QED
    BY <1>1, <1>4, <2>3 DEF q, m, e
<1>5. QED
  BY <1>3, <1>4

\* The entries of an info.
LEMMA EntryFacts ==
    /\ \A p \in InfoEntry : /\ p.client \in Clients /\ p.cls \in Classes \cup {None}
                            /\ p.xid \in Nat /\ p.barrier \in Nat /\ p.results \in Seq(Replies)
    /\ \A u \in Clients, x, b \in Nat, k \in Classes \cup {None} :
          LET p == [xid |-> x, barrier |-> b, client |-> u, cls |-> k, results |-> << >>]
          IN  p \in InfoEntry
    /\ \A p \in InfoEntry, k \in Replies :
          LET q == [p EXCEPT !.results = Append(@, k)]
          IN  /\ q \in InfoEntry
              /\ q.client = p.client /\ q.cls = p.cls /\ q.xid = p.xid
              /\ q.barrier = p.barrier /\ q.results = Append(p.results, k)
<1>1. \A p \in InfoEntry : /\ p.client \in Clients /\ p.cls \in Classes \cup {None}
                           /\ p.xid \in Nat /\ p.barrier \in Nat /\ p.results \in Seq(Replies)
  BY DEF InfoEntry
<1>2. \A u \in Clients, x, b \in Nat, k \in Classes \cup {None} :
          LET p == [xid |-> x, barrier |-> b, client |-> u, cls |-> k, results |-> << >>]
          IN  p \in InfoEntry
  BY DEF InfoEntry
<1>3. ASSUME NEW p \in InfoEntry, NEW k \in Replies
      PROVE  LET q == [p EXCEPT !.results = Append(@, k)]
             IN  /\ q \in InfoEntry
                 /\ q.client = p.client /\ q.cls = p.cls /\ q.xid = p.xid
                 /\ q.barrier = p.barrier /\ q.results = Append(p.results, k)
  <2> DEFINE s == Append(p.results, k)
  <2>1. s \in Seq(Replies)
    BY <1>1
  <2> HIDE DEF s
  <2>2. LET q == [p EXCEPT !.results = s]
        IN  /\ q \in InfoEntry
            /\ q.client = p.client /\ q.cls = p.cls /\ q.xid = p.xid
            /\ q.barrier = p.barrier /\ q.results = s
    BY <2>1 DEF InfoEntry
  <2>3. QED
    BY <2>2 DEF s
<1>4. QED
  BY <1>1, <1>2, <1>3

-----------------------------------------------------------------------------
(***************************************************************************)
(* The types are kept.                                                     *)
(***************************************************************************)

\* The initial tables have their types.
LEMMA TypesInit == Init => Types
<1> SUFFICES ASSUME Init PROVE Types
  OBVIOUS
<1>1. << >> \in Seq(Message) /\ << >> \in Seq(Event) /\ << >> \in Seq(Replies)
  OBVIOUS
<1>2. ConnType
  BY <1>1, OfctlAssumption DEF Init, ConnType
<1>3. ServiceType
  BY <1>1 DEF Init, ServiceType
<1>4. (CHOOSE r \in Asked : TRUE) \in Asked
  BY OfctlAssumption
<1>5. ClientType
  BY <1>1, <1>4 DEF Init, ClientType
<1>6. QED
  BY <1>2, <1>3, <1>5 DEF Types

\* An answer of a switch arrives, if the service observes it.
LEMMA ArriveFacts ==
    ASSUME Types, NEW c \in Conns, phase[c] \in {"config", "main"},
           NEW k, k \in Replies \/ k = "barrier", NEW x \in Nat, NEW u \in Clients,
           Arrive(c, k, x, u)
    PROVE  \E a \in Answer : /\ evq' = IF Observed(k, phase[c]) THEN Append(evq, a) ELSE evq
                             /\ a.conn = c /\ a.cls = k /\ a.xid = x /\ a.about = u
<1> DEFINE a == [type |-> "msg", conn |-> c, cls |-> k, xid |-> x,
                 phase |-> phase[c], about |-> u]
<1>1. /\ a \in Answer /\ a.conn = c /\ a.cls = k /\ a.xid = x /\ a.about = u
  BY DEF Answer
<1>2. QED
  BY <1>1 DEF Arrive

\* What the switch works on.
LEMMA ServingFacts ==
    ASSUME Types, NEW c \in Conns, NEW type, Serving(c, type)
    PROVE  /\ phase[c] \in {"config", "main"} /\ sent[c] \in Seq(Message) /\ sent[c] # << >>
           /\ Head(sent[c]) \in Message /\ Head(sent[c]).type = type /\ Tail(sent[c]) \in Seq(Message)
<1>1. /\ phase[c] \in {"config", "main"} /\ sent[c] \in Seq(Message) /\ sent[c] # << >>
      /\ Head(sent[c]).type = type
  BY DEF Serving, Types, ConnType
<1>2. QED
  BY <1>1, TakeFacts

\* What the service works on.
LEMMA HandlingFacts ==
    ASSUME Types, NEW type, Handling(type)
    PROVE  /\ evq \in Seq(Event) /\ evq # << >> /\ Head(evq) \in Event /\ Head(evq).type = type
           /\ Tail(evq) \in Seq(Event)
<1>1. evq \in Seq(Event) /\ evq # << >> /\ Head(evq).type = type
  BY DEF Handling, Types, ServiceType
<1>2. QED
  BY <1>1, TakeFacts

\* An event, if any, is put at the end of the queue.
Put(e) == evq' = evq \/ evq' = Append(evq, e)

\* The service's tables when only its queue changed.
LEMMA ServiceSame ==
    ASSUME Types, evq' \in Seq(Event), UNCHANGED serviceVars
    PROVE  ServiceType'
BY DEF Types, ServiceType, serviceVars

\* A queue an event was put in.
LEMMA PutTypes ==
    ASSUME Types, NEW e \in Event, Put(e)
    PROVE  evq' \in Seq(Event)
BY PutFacts DEF Types, ServiceType, Put

\* The features reply keeps the types.
LEMMA TypesFeatures ==
    ASSUME Types, NEW c \in Conns, Features(c)
    PROVE  Types' /\ Put(FeaturesEvent(c))
<1>1. Put(FeaturesEvent(c))
  BY DEF Features, Put, FeaturesEvent
<1>2. ServiceType'
  BY <1>1, PutTypes, ServiceSame, EventFacts DEF Features
<1>3. ClientType'
  BY DEF Types, ClientType, Features, clientVars
<1>4. phase' \in [Conns -> {"none", "config", "main", "dead"}] /\ xid' \in [Conns -> Nat]
  BY DEF Types, ConnType, Features
<1>5. sent' \in [Conns -> Seq(Message)]
  <2> DEFINE one == <<[type |-> "ports"]>>
  <2>1. one \in Seq(Message)
    BY MessageFacts DEF PortsMessage
  <2>2. sent' = (IF c \in Modern THEN [sent EXCEPT ![c] = one] ELSE sent)
    BY DEF Features
  <2> HIDE DEF one
  <2>3. QED
    BY <2>1, <2>2 DEF Types, ConnType
<1>6. QED
  BY <1>1, <1>2, <1>3, <1>4, <1>5 DEF Types, ConnType

\* The event an answer is, if the service observes it.
AnswerEvent(a, c, k, m) ==
    /\ evq' = IF Observed(k, phase[c]) THEN Append(evq, a) ELSE evq
    /\ a.conn = c /\ a.cls = k /\ a.xid = m.xid /\ a.about = m.about

\* A reply of the switch.
LEMMA RepliesFacts ==
    ASSUME Types, NEW c \in Conns, SwitchReplies(c)
    PROVE  LET m == Head(sent[c])
           IN  /\ Types'
               /\ m \in Message /\ m.type = "request" /\ m.about \in Clients /\ m.cls \in Classes
               /\ \E a \in Answer : AnswerEvent(a, c, m.cls, m) /\ Put(a)
               /\ replied' = [replied EXCEPT ![m.about] = Append(@, m.cls)]
               /\ UNCHANGED <<connVars, serviceVars, made, req, state, answer>>
<1> DEFINE m == Head(sent[c])
<1>1. /\ m \in Message /\ m.type = "request" /\ m.about \in Clients /\ m.xid \in Nat
      /\ phase[c] \in {"config", "main"}
  BY ServingFacts, MessageFacts DEF SwitchReplies
<1>2. m.cls \in Classes
  BY <1>1, MessageFacts DEF SwitchReplies
<1>3. Arrive(c, m.cls, m.xid, m.about)
  BY DEF SwitchReplies
<1>4. /\ replied' = [replied EXCEPT ![m.about] = Append(@, m.cls)]
      /\ UNCHANGED <<connVars, serviceVars, made, req, state, answer>>
  BY DEF SwitchReplies
<1> HIDE DEF m
<1>5. m.cls \in Replies
  BY <1>2 DEF Replies
<1>6. PICK a \in Answer : AnswerEvent(a, c, m.cls, m)
  BY <1>1, <1>3, <1>5, ArriveFacts DEF AnswerEvent
<1>7. Put(a) /\ a \in Event
  BY <1>6, EventFacts DEF Put, AnswerEvent
<1>8. ServiceType'
  BY <1>4, <1>7, PutTypes, ServiceSame
<1>9. ConnType'
  BY <1>4 DEF Types, ConnType, connVars
<1>10. ClientType'
  <2>1. replied[m.about] \in Seq(Replies)
    BY <1>1 DEF Types, ClientType
  <2>2. Append(replied[m.about], m.cls) \in Seq(Replies)
    BY <1>5, <2>1
  <2>3. replied' \in [Clients -> Seq(Replies)]
    BY <1>1, <1>4, <2>2 DEF Types, ClientType
  <2>4. QED
    BY <1>4, <2>3 DEF Types, ClientType
<1>11. QED
  BY <1>1, <1>2, <1>4, <1>6, <1>7, <1>8, <1>9, <1>10 DEF Types, m

\* An error of the switch.
LEMMA ErrorFacts ==
    ASSUME Types, NEW c \in Conns, SwitchError(c)
    PROVE  LET m == Head(sent[c])
           IN  /\ Types'
               /\ m \in Message /\ m.type = "request" /\ m.about \in Clients
               /\ \E a \in Answer : AnswerEvent(a, c, "error", m) /\ Put(a)
               /\ replied' = [replied EXCEPT ![m.about] = Append(@, "error")]
               /\ sent' = [sent EXCEPT ![c] = Tail(@)]
               /\ UNCHANGED <<phase, xid, serviceVars, made, req, state, answer>>
<1> DEFINE m == Head(sent[c])
<1>1. /\ m \in Message /\ m.type = "request" /\ m.about \in Clients /\ m.xid \in Nat
      /\ phase[c] \in {"config", "main"} /\ Tail(sent[c]) \in Seq(Message)
  BY ServingFacts, MessageFacts DEF SwitchError
<1>3. Arrive(c, "error", m.xid, m.about)
  BY DEF SwitchError
<1>4. /\ replied' = [replied EXCEPT ![m.about] = Append(@, "error")]
      /\ sent' = [sent EXCEPT ![c] = Tail(@)]
      /\ UNCHANGED <<phase, xid, serviceVars, made, req, state, answer>>
  BY DEF SwitchError
<1> HIDE DEF m
<1>5. "error" \in Replies
  BY DEF Replies
<1>6. PICK a \in Answer : AnswerEvent(a, c, "error", m)
  BY <1>1, <1>3, <1>5, ArriveFacts DEF AnswerEvent
<1>7. Put(a) /\ a \in Event
  BY <1>6, EventFacts DEF Put, AnswerEvent
<1>8. ServiceType'
  BY <1>4, <1>7, PutTypes, ServiceSame
<1>9. ConnType'
  BY <1>1, <1>4 DEF Types, ConnType
<1>10. ClientType'
  <2>1. replied[m.about] \in Seq(Replies)
    BY <1>1 DEF Types, ClientType
  <2>2. Append(replied[m.about], "error") \in Seq(Replies)
    BY <1>5, <2>1
  <2>3. replied' \in [Clients -> Seq(Replies)]
    BY <1>1, <1>4, <2>2 DEF Types, ClientType
  <2>4. QED
    BY <1>4, <2>3 DEF Types, ClientType
<1>11. QED
  BY <1>1, <1>4, <1>6, <1>7, <1>8, <1>9, <1>10 DEF Types, m

\* The port description ends the config phase.
LEMMA PortDescFacts ==
    ASSUME Types, NEW c \in Conns, PortDesc(c)
    PROVE  Types' /\ evq' = evq
<1>1. Tail(sent[c]) \in Seq(Message)
  BY ServingFacts DEF PortDesc
<1>2. ConnType'
  BY <1>1 DEF PortDesc, Types, ConnType
<1>3. ServiceType'
  BY ServiceSame DEF PortDesc, Types, ServiceType
<1>4. ClientType'
  BY DEF PortDesc, Types, ClientType, clientVars
<1>5. QED
  BY <1>2, <1>3, <1>4 DEF PortDesc, Types

\* The switch is done with a request.
LEMMA DoneFacts ==
    ASSUME Types, NEW c \in Conns, SwitchDone(c)
    PROVE  Types' /\ evq' = evq
<1>1. Tail(sent[c]) \in Seq(Message)
  BY ServingFacts DEF SwitchDone
<1>2. ConnType'
  BY <1>1 DEF SwitchDone, Types, ConnType
<1>3. ServiceType'
  BY ServiceSame DEF SwitchDone, Types, ServiceType
<1>4. ClientType'
  BY DEF SwitchDone, Types, ClientType, clientVars
<1>5. QED
  BY <1>2, <1>3, <1>4 DEF SwitchDone, Types

\* The switch answers a barrier request.
LEMMA BarrierFacts ==
    ASSUME Types, NEW c \in Conns, SwitchBarrier(c)
    PROVE  LET m == Head(sent[c])
           IN  /\ Types'
               /\ m \in Message /\ m.type = "barrier" /\ m.about \in Clients
               /\ \E a \in Answer : AnswerEvent(a, c, "barrier", m) /\ Put(a)
               /\ sent' = [sent EXCEPT ![c] = Tail(@)]
               /\ UNCHANGED <<phase, xid, serviceVars, clientVars>>
<1> DEFINE m == Head(sent[c])
<1>1. /\ m \in Message /\ m.type = "barrier" /\ m.about \in Clients /\ m.xid \in Nat
      /\ phase[c] \in {"config", "main"} /\ Tail(sent[c]) \in Seq(Message)
  BY ServingFacts, MessageFacts DEF SwitchBarrier
<1>2. /\ Arrive(c, "barrier", m.xid, m.about)
      /\ sent' = [sent EXCEPT ![c] = Tail(@)]
      /\ UNCHANGED <<phase, xid, serviceVars, clientVars>>
  BY DEF SwitchBarrier
<1> HIDE DEF m
<1>3. PICK a \in Answer : AnswerEvent(a, c, "barrier", m)
  <2>1. \A k : Arrive(c, k, m.xid, m.about) /\ (k \in Replies \/ k = "barrier") =>
           \E a \in Answer : AnswerEvent(a, c, k, m)
    BY <1>1, ArriveFacts DEF AnswerEvent
  <2>2. QED
    BY <1>2, <2>1
<1>4. Put(a) /\ a \in Event
  BY <1>3, EventFacts DEF Put, AnswerEvent
<1>5. ServiceType'
  BY <1>2, <1>4, PutTypes, ServiceSame
<1>6. ConnType'
  BY <1>1, <1>2 DEF Types, ConnType
<1>7. ClientType'
  BY <1>2 DEF Types, ClientType, clientVars
<1>8. QED
  BY <1>1, <1>2, <1>3, <1>4, <1>5, <1>6, <1>7 DEF Types, m

\* A connection dies.
LEMMA DieFacts ==
    ASSUME Types, NEW c \in Conns, Die(c)
    PROVE  Types' /\ Put(DeadEvent(c))
<1>1. Put(DeadEvent(c)) /\ DeadEvent(c) \in Event
  BY EventFacts DEF Die, Put
<1>2. ServiceType'
  BY <1>1, PutTypes, ServiceSame DEF Die
<1>3. << >> \in Seq(Message)
  OBVIOUS
<1>4. ConnType'
  BY <1>3 DEF Die, Types, ConnType
<1>5. ClientType'
  BY DEF Die, Types, ClientType, clientVars
<1>6. QED
  BY <1>1, <1>2, <1>4, <1>5 DEF Types

\* A client sends its request.
LEMMA SendMsgFacts ==
    ASSUME Types, NEW u \in Clients, NEW r \in Asked, SendMsg(u, r)
    PROVE  Types' /\ evq' = Append(evq, RequestEvent(u)) /\ Put(RequestEvent(u))
<1>1. evq' = Append(evq, RequestEvent(u)) /\ RequestEvent(u) \in Event
  BY EventFacts DEF SendMsg, RequestEvent
<1>2. Put(RequestEvent(u))
  BY <1>1 DEF Put
<1>3. ServiceType'
  BY <1>1, <1>2, PutTypes, ServiceSame DEF SendMsg
<1>4. ConnType'
  BY DEF SendMsg, Types, ConnType, connVars
<1>5. << >> \in Seq(Replies)
  OBVIOUS
<1>6. ClientType'
  BY <1>5 DEF SendMsg, Types, ClientType
<1>7. QED
  BY <1>1, <1>2, <1>3, <1>4, <1>6 DEF Types

\* The service takes an event; what it may put behind.
Take == evq # << >> /\ evq' = Tail(evq)

\* The features reply is handled: an older live connection is closed.
LEMMA HandleFeaturesFacts ==
    ASSUME Types, HandleFeatures
    PROVE  LET c == Head(evq).conn
           IN  /\ Types' /\ c \in Conns
               /\ Head(evq) \in Answer \/ Head(evq) = FeaturesEvent(c)
               /\ \A d \in DOMAIN switches : switches[d] \in Conns
<1> DEFINE c == Head(evq).conn
           d == IdOf[c]
<1>1. /\ evq \in Seq(Event) /\ evq # << >> /\ Tail(evq) \in Seq(Event)
      /\ c \in Conns /\ (Head(evq) \in Answer \/ Head(evq) = FeaturesEvent(c))
  BY HandlingFacts, EventFacts DEF HandleFeatures, HandlingMsg
<1>2. /\ switches' = With(switches, d, c)
      /\ IF d \in DOMAIN switches /\ phase[switches[d]] # "dead"
         THEN /\ phase' = [phase EXCEPT ![switches[d]] = "dead"]
              /\ sent' = [sent EXCEPT ![switches[d]] = << >>]
              /\ evq' = Append(Tail(evq), DeadEvent(switches[d]))
         ELSE evq' = Tail(evq) /\ UNCHANGED <<phase, sent>>
      /\ UNCHANGED <<xid, pending, observing, observers, clientVars>>
  BY DEF HandleFeatures
<1>3. \A x \in DOMAIN switches : switches[x] \in Conns /\ IdOf[switches[x]] = x
  BY DEF Types, ServiceType
<1> HIDE DEF c
<1>4. \A x \in DOMAIN switches' : switches'[x] \in Conns /\ IdOf[switches'[x]] = x
  BY <1>1, <1>2, <1>3 DEF With
<1>5. evq' \in Seq(Event)
  <2>1. CASE d \in DOMAIN switches /\ phase[switches[d]] # "dead"
    <3>1. DeadEvent(switches[d]) \in Event
      BY <2>1, <1>3, EventFacts
    <3>2. QED
      BY <2>1, <3>1, <1>1, <1>2, PutFacts
  <2>2. CASE ~(d \in DOMAIN switches /\ phase[switches[d]] # "dead")
    BY <2>2, <1>1, <1>2
  <2>3. QED
    BY <2>1, <2>2
<1>6. << >> \in Seq(Message)
  OBVIOUS
<1>7. ConnType'
  BY <1>2, <1>6 DEF Types, ConnType
<1>8. ServiceType'
  BY <1>2, <1>4, <1>5 DEF Types, ServiceType
<1>9. ClientType'
  BY <1>2 DEF Types, ClientType, clientVars
<1>10. QED
  BY <1>1, <1>3, <1>7, <1>8, <1>9 DEF Types, c

\* A death is handled.
LEMMA HandleDeadFacts ==
    ASSUME Types, HandleDead
    PROVE  /\ Types' /\ Take
           /\ Head(evq).conn \in Conns /\ Head(evq) = DeadEvent(Head(evq).conn)
           /\ DOMAIN switches' = {d \in DOMAIN switches : switches[d] # Head(evq).conn}
           /\ \A d \in DOMAIN switches' : switches'[d] = switches[d]
<1> DEFINE S == {d \in DOMAIN switches : switches[d] # Head(evq).conn}
<1>1. /\ evq \in Seq(Event) /\ evq # << >> /\ Tail(evq) \in Seq(Event)
      /\ Head(evq).conn \in Conns /\ Head(evq) = DeadEvent(Head(evq).conn)
  BY HandlingFacts, EventFacts DEF HandleDead
<1>2. /\ switches' = [d \in S |-> switches[d]] /\ S \subseteq DOMAIN switches
      /\ evq' = Tail(evq)
      /\ UNCHANGED <<connVars, pending, observing, observers, clientVars>>
  BY DEF HandleDead, Restrict
<1> HIDE DEF S
<1>3. \A d \in DOMAIN switches' : switches'[d] \in Conns /\ IdOf[switches'[d]] = d
  BY <1>2 DEF Types, ServiceType
<1>4. ServiceType'
  BY <1>1, <1>2, <1>3 DEF Types, ServiceType
<1>5. ConnType' /\ ClientType'
  BY <1>2 DEF Types, ConnType, ClientType, connVars, clientVars
<1>6. QED
  BY <1>1, <1>2, <1>4, <1>5 DEF Types, S, Take

\* A request is refused.
LEMMA RefuseSendFacts ==
    ASSUME Types, RefuseSend
    PROVE  LET u == Head(evq).client
           IN  Types' /\ Take /\ u \in Clients /\ Head(evq) = RequestEvent(u)
<1>1. /\ evq \in Seq(Event) /\ evq # << >> /\ Tail(evq) \in Seq(Event)
      /\ Head(evq).client \in Clients /\ Head(evq) = RequestEvent(Head(evq).client)
  BY HandlingFacts, EventFacts DEF RefuseSend
<1>2. Take /\ UNCHANGED <<connVars, serviceVars, made, req, replied>>
  BY <1>1 DEF RefuseSend, Take
<1>3. ServiceType'
  BY <1>1, <1>2, ServiceSame DEF Take
<1>4. ConnType'
  BY <1>2 DEF Types, ConnType, connVars
<1>5. ClientType'
  BY <1>2 DEF Types, ClientType, RefuseSend, Reply
<1>6. QED
  BY <1>1, <1>2, <1>3, <1>4, <1>5 DEF Types

(***************************************************************************)
(* What the service does with the request of client u.                     *)
(***************************************************************************)
FirstXid(u) == xid[req[u].conn] + 1
LastXid(u) == IF req[u].kind = "barrier" THEN FirstXid(u) ELSE FirstXid(u) + 1
InfoOf(u) == switches[IdOf[req[u].conn]]
EntryOf(u) == [xid |-> FirstXid(u), barrier |-> LastXid(u), client |-> u, cls |-> req[u].cls,
               results |-> << >>]
MessagesOf(u) == Messages(u, req[u], FirstXid(u), LastXid(u))

Stores(u) == XidsFree(pending[InfoOf(u)], FirstXid(u), LastXid(u))

Sends(u) ==
    /\ Head(evq) = RequestEvent(u)
    /\ IdOf[req[u].conn] \in DOMAIN switches
    /\ IF req[u].cls # None THEN Observe(req[u].cls) ELSE UNCHANGED <<observing, observers>>
    /\ xid' = [xid EXCEPT ![req[u].conn] = LastXid(u)]
    /\ pending' = IF Stores(u) THEN [pending EXCEPT ![InfoOf(u)] = @ \cup {EntryOf(u)}]
                  ELSE pending
    /\ sent' = IF Stores(u) /\ phase[req[u].conn] # "dead"
               THEN [sent EXCEPT ![req[u].conn] = @ \o MessagesOf(u)] ELSE sent
    /\ UNCHANGED <<phase, switches, clientVars>>

\* The types of these.
LEMMA SendTypes ==
    ASSUME Types, NEW u \in Clients, IdOf[req[u].conn] \in DOMAIN switches
    PROVE  /\ req[u] \in Asked /\ req[u].conn \in Conns /\ req[u].cls \in Classes \cup {None}
           /\ FirstXid(u) \in Nat /\ LastXid(u) \in Nat /\ FirstXid(u) <= LastXid(u)
           /\ xid[req[u].conn] \in Nat /\ FirstXid(u) = xid[req[u].conn] + 1
           /\ LastXid(u) <= xid[req[u].conn] + 2
           /\ InfoOf(u) \in Conns /\ EntryOf(u) \in InfoEntry /\ MessagesOf(u) \in Seq(Message)
<1>1. req[u] \in Asked /\ req[u].conn \in Conns /\ req[u].cls \in Classes \cup {None}
  BY RequestFacts DEF Types, ClientType
<1>2. xid[req[u].conn] \in Nat
  BY <1>1 DEF Types, ConnType
<1>3. /\ FirstXid(u) \in Nat /\ LastXid(u) \in Nat /\ FirstXid(u) <= LastXid(u)
      /\ FirstXid(u) = xid[req[u].conn] + 1
      /\ LastXid(u) <= xid[req[u].conn] + 2
  BY <1>2 DEF FirstXid, LastXid
<1>4. InfoOf(u) \in Conns
  BY DEF Types, ServiceType, InfoOf
<1>5. EntryOf(u) \in InfoEntry
  BY <1>1, <1>3, EntryFacts DEF EntryOf
<1>6. MessagesOf(u) \in Seq(Message)
  BY <1>1, <1>3, MessagesFacts DEF MessagesOf
<1>7. QED
  BY <1>1, <1>2, <1>3, <1>4, <1>5, <1>6

\* A request is carried out.
LEMMA HandleSendFacts ==
    ASSUME Types, HandleSend
    PROVE  Types' /\ Take /\ \E u \in Clients : Sends(u)
<1> DEFINE u == Head(evq).client
<1>1. /\ evq \in Seq(Event) /\ evq # << >> /\ Tail(evq) \in Seq(Event)
      /\ u \in Clients /\ Head(evq) = RequestEvent(u)
  BY HandlingFacts, EventFacts DEF HandleSend
<1>2. Take
  BY <1>1 DEF HandleSend, Take
<1>3. Sends(u)
  BY <1>1 DEF HandleSend, Sends, FirstXid, LastXid, InfoOf, EntryOf, MessagesOf, Stores
<1> HIDE DEF u
<1>4. /\ req[u] \in Asked /\ req[u].conn \in Conns /\ req[u].cls \in Classes \cup {None}
      /\ LastXid(u) \in Nat /\ InfoOf(u) \in Conns /\ EntryOf(u) \in InfoEntry
      /\ MessagesOf(u) \in Seq(Message)
  BY <1>1, <1>3, SendTypes DEF Sends
<1>5. pending' \in [Conns -> SUBSET InfoEntry]
  <2>1. pending \in [Conns -> SUBSET InfoEntry]
    BY DEF Types, ServiceType
  <2>2. pending[InfoOf(u)] \cup {EntryOf(u)} \in SUBSET InfoEntry
    BY <1>4, <2>1
  <2>3. QED
    BY <1>3, <1>4, <2>1, <2>2 DEF Sends
<1>6. observing' \in [Classes -> Int]
  <2>1. observing \in [Classes -> Int]
    BY DEF Types, ServiceType
  <2>2. \A k \in Classes : Observe(k) => observing' \in [Classes -> Int]
    BY <2>1 DEF Observe
  <2>3. QED
    BY <1>3, <1>4, <2>1, <2>2 DEF Sends
<1>7. ServiceType'
  BY <1>1, <1>2, <1>3, <1>5, <1>6 DEF Types, ServiceType, Sends, Take
<1>8. sent' \in [Conns -> Seq(Message)]
  <2>1. sent \in [Conns -> Seq(Message)]
    BY DEF Types, ConnType
  <2> DEFINE s == sent[req[u].conn] \o MessagesOf(u)
  <2>2. s \in Seq(Message)
    BY <1>4, <2>1, ConcatProperties
  <2>3. sent' = IF Stores(u) /\ phase[req[u].conn] # "dead"
                THEN [sent EXCEPT ![req[u].conn] = s] ELSE sent
    BY <1>3 DEF Sends
  <2> HIDE DEF s
  <2>4. QED
    BY <1>4, <2>1, <2>2, <2>3
<1>9. ConnType'
  BY <1>3, <1>4, <1>8 DEF Types, ConnType, Sends
<1>10. ClientType'
  BY <1>3 DEF Types, ClientType, Sends, clientVars
<1>11. QED
  BY <1>1, <1>2, <1>3, <1>7, <1>9, <1>10 DEF Types

(***************************************************************************)
(* What the service does with a barrier reply and with other replies.      *)
(***************************************************************************)

\* The event is of no use any more.
Ignores == UNCHANGED <<connVars, serviceVars, clientVars>>

\* The barrier reply for entry p of the info of connection i.
Ends(i, p) ==
    /\ pending' = [pending EXCEPT ![i] = @ \ {p}]
    /\ IF p.cls # None THEN Unobserve(p.cls) ELSE UNCHANGED <<observing, observers>>
    /\ Reply(p.client, BarrierAnswer(req[p.client], p.results))
    /\ UNCHANGED <<connVars, switches, made, req, replied>>

\* A barrier reply is handled.
LEMMA HandleBarrierFacts ==
    ASSUME Types, HandleBarrier
    PROVE  LET e == Head(evq)
               d == IdOf[e.conn]
           IN  /\ Types' /\ Take
               /\ e \in Answer /\ e.cls = "barrier"
               /\ \/ Ignores
                  \/ /\ d \in DOMAIN switches
                     /\ \E i \in Conns, p \in pending[switches[d]] :
                           i = switches[d] /\ p \in InfoEntry /\ p.barrier = e.xid /\ Ends(i, p)
<1> DEFINE e == Head(evq)
           d == IdOf[e.conn]
<1>1. /\ evq \in Seq(Event) /\ evq # << >> /\ Tail(evq) \in Seq(Event)
      /\ e \in Answer \/ e = FeaturesEvent(e.conn)
  BY HandlingFacts, EventFacts DEF HandleBarrier, HandlingMsg
<1>2. e \in Answer /\ e.cls = "barrier"
  <2>1. FeaturesEvent(e.conn).cls = "features"
    BY DEF FeaturesEvent
  <2>2. e.cls = "barrier"
    BY DEF HandleBarrier, HandlingMsg
  <2>3. QED
    BY <1>1, <2>1, <2>2
<1>3. Take
  BY <1>1 DEF HandleBarrier, Take
<1>4. CASE Entry("barrier", e.xid) = {}
  <2>1. Ignores
    BY <1>4 DEF HandleBarrier, Ignores
  <2>2. Types'
    BY <1>1, <1>3, <2>1, ServiceSame DEF Ignores, Take, Types, ConnType, ClientType, connVars,
         clientVars
  <2>3. QED
    BY <1>2, <1>3, <2>1, <2>2
<1>5. CASE Entry("barrier", e.xid) # {}
  <2>1. PICK p \in Entry("barrier", e.xid) :
           /\ pending' = [pending EXCEPT ![switches[d]] = @ \ {p}]
           /\ IF p.cls # None THEN Unobserve(p.cls) ELSE UNCHANGED <<observing, observers>>
           /\ Reply(p.client, BarrierAnswer(req[p.client], p.results))
           /\ UNCHANGED <<switches, made, req, replied>>
    BY <1>5 DEF HandleBarrier
  <2>2. d \in DOMAIN switches /\ p \in pending[switches[d]] /\ p.barrier = e.xid
    BY <2>1 DEF Entry
  <2>3. UNCHANGED connVars
    BY DEF HandleBarrier
  <2>4. switches[d] \in Conns /\ pending \in [Conns -> SUBSET InfoEntry]
    BY <2>2 DEF Types, ServiceType
  <2>5. p \in InfoEntry /\ p.client \in Clients /\ p.cls \in Classes \cup {None}
    BY <2>2, <2>4, EntryFacts
  <2>6. Ends(switches[d], p)
    BY <2>1, <2>3 DEF Ends
  <2>7. pending' \in [Conns -> SUBSET InfoEntry]
    BY <2>1, <2>4
  <2>8. observing' \in [Classes -> Int]
    <3>1. observing \in [Classes -> Int]
      BY DEF Types, ServiceType
    <3>2. \A k \in Classes : Unobserve(k) => observing' \in [Classes -> Int]
      BY <3>1 DEF Unobserve
    <3>3. QED
      BY <2>1, <2>5, <3>1, <3>2
  <2>9. ServiceType'
    BY <1>1, <1>3, <2>1, <2>7, <2>8 DEF Types, ServiceType, Take
  <2>10. ConnType'
    BY <2>3 DEF Types, ConnType, connVars
  <2>11. ClientType'
    BY <2>1, <2>5 DEF Types, ClientType, Reply
  <2>12. QED
    BY <1>2, <1>3, <2>2, <2>4, <2>5, <2>6, <2>9, <2>10, <2>11 DEF Types
<1>6. QED
  BY <1>4, <1>5

\* The entries a reply counts for, and what becomes of an entry.
CountsFor(e) ==
    {p \in Entry("xid", e.xid) : e.cls = "error" \/ (observing[e.cls] > 0 /\ p.cls = e.cls)}

Extended(p, e) == IF p \in CountsFor(e) THEN [p EXCEPT !.results = Append(@, e.cls)] ELSE p

\* A reply is handled.
LEMMA HandleReplyFacts ==
    ASSUME Types, HandleReply
    PROVE  LET e == Head(evq)
           IN  /\ Types' /\ Take
               /\ e \in Answer /\ e.cls \in Replies
               /\ pending' = [c \in Conns |-> {Extended(p, e) : p \in pending[c]}]
               /\ UNCHANGED <<connVars, switches, observing, observers, clientVars>>
               /\ \A p \in InfoEntry :
                     LET q == Extended(p, e)
                     IN  /\ q \in InfoEntry /\ q.client = p.client /\ q.cls = p.cls
                         /\ q.xid = p.xid /\ q.barrier = p.barrier
                         /\ q.results = IF p \in CountsFor(e) THEN Append(p.results, e.cls)
                                                              ELSE p.results
<1> DEFINE e == Head(evq)
<1>1. /\ evq \in Seq(Event) /\ evq # << >> /\ Tail(evq) \in Seq(Event)
      /\ e \in Answer \/ e = FeaturesEvent(e.conn)
  BY HandlingFacts, EventFacts DEF HandleReply, HandlingMsg
<1>2. e \in Answer /\ e.cls \in Replies
  <2>1. FeaturesEvent(e.conn).cls = "features" /\ FeaturesEvent(e.conn).phase = "config"
    BY DEF FeaturesEvent
  <2>2. e.cls \in Replies /\ (e.cls = "features" => e.phase # "config")
    BY DEF HandleReply, HandlingMsg, Replies
  <2>3. QED
    BY <1>1, <2>1, <2>2
<1>3. Take
  BY <1>1 DEF HandleReply, Take
<1>4. /\ pending' = [c \in Conns |-> {Extended(p, e) : p \in pending[c]}]
      /\ UNCHANGED <<connVars, switches, observing, observers, clientVars>>
  BY DEF HandleReply, Extended, CountsFor
<1> HIDE DEF e
<1>5. \A p \in InfoEntry :
         LET q == Extended(p, e)
         IN  /\ q \in InfoEntry /\ q.client = p.client /\ q.cls = p.cls
             /\ q.xid = p.xid /\ q.barrier = p.barrier
             /\ q.results = IF p \in CountsFor(e) THEN Append(p.results, e.cls) ELSE p.results
  BY <1>2, EntryFacts DEF Extended
<1>6. pending' \in [Conns -> SUBSET InfoEntry]
  <2>1. \A c \in Conns : \A p \in pending[c] : Extended(p, e) \in InfoEntry
    BY <1>5 DEF Types, ServiceType
  <2>2. QED
    BY <1>4, <2>1
<1>7. ServiceType'
  BY <1>1, <1>3, <1>4, <1>6 DEF Types, ServiceType, Take
<1>8. ConnType' /\ ClientType'
  BY <1>4 DEF Types, ConnType, ClientType, connVars, clientVars
<1>9. QED
  BY <1>2, <1>3, <1>4, <1>5, <1>7, <1>8 DEF Types, e

\* Every step keeps the types.
LEMMA TypesNext == Types /\ [Next]_vars => Types'
<1> SUFFICES ASSUME Types, [Next]_vars PROVE Types'
  OBVIOUS
<1>1. CASE UNCHANGED vars
  BY <1>1 DEF Types, ConnType, ServiceType, ClientType, vars
<1>2. ASSUME NEW c \in Conns, Features(c) \/ SwitchReplies(c) \/ SwitchStep(c) \/ Die(c)
      PROVE  Types'
  BY <1>2, TypesFeatures, RepliesFacts, ErrorFacts, PortDescFacts, DoneFacts, BarrierFacts,
     DieFacts DEF SwitchStep
<1>3. ASSUME NEW u \in Clients, NEW r \in Asked, SendMsg(u, r)
      PROVE  Types'
  BY <1>3, SendMsgFacts
<1>4. CASE Service
  BY <1>4, HandleFeaturesFacts, HandleDeadFacts, RefuseSendFacts, HandleSendFacts,
     HandleBarrierFacts, HandleReplyFacts DEF Service
<1>5. QED
  BY <1>1, <1>2, <1>3, <1>4 DEF Next

\* The tables have their types in every state.
LEMMA TypesHold == Spec => []Types
BY TypesInit, TypesNext, PTL DEF Spec

-----------------------------------------------------------------------------
(***************************************************************************)
(* Requests, xids and counts.                                              *)
(***************************************************************************)

\* The entries of all infos.
LEMMA InfosFacts ==
    /\ \A p : p \in Infos <=> \E c \in Conns : p \in pending[c]
    /\ Types => \A p \in Infos : p \in InfoEntry /\ p.client \in Clients
                                 /\ p.cls \in Classes \cup {None}
                                 /\ p.xid \in Nat /\ p.barrier \in Nat
<1>1. \A p : p \in Infos <=> \E c \in Conns : p \in pending[c]
  BY DEF Infos
<1>2. QED
  BY <1>1, EntryFacts DEF Types, ServiceType

\* The queue and the infos are empty at first.
LEMMA CoreInit == Init => CoreInv
<1> SUFFICES ASSUME Init PROVE CoreInv
  OBVIOUS
<1>1. Queued = {} /\ evq = << >>
  BY EmptyQueue DEF Init, Queued
<1>2. Infos = {} /\ \A c \in Conns : pending[c] = {}
  BY DEF Init, Infos
<1>3. ClientInv
  BY <1>1, <1>2, EmptyQueue DEF ClientInv
<1>4. XidInv
  <2>1. IsFiniteSet(Queued) /\ Cardinality(Queued) = 0
    BY <1>1, FS_EmptySet
  <2>2. made = 0 /\ xid = XidStart /\ XidStart \in [Conns -> Nat] /\ MaxRequests \in Nat
    BY OfctlAssumption DEF Init
  <2>3. QED
    BY <1>2, <2>1, <2>2 DEF XidInv
<1>5. CountInv
  <2>1. \A k : WaitingFor(k) = {}
    BY <1>2 DEF WaitingFor
  <2>2. \A k : IsFiniteSet(WaitingFor(k)) /\ Cardinality(WaitingFor(k)) = 0
    BY <2>1, FS_EmptySet
  <2>3. \A k \in Classes : observing[k] = 0
    BY DEF Init
  <2>4. QED
    BY <2>2, <2>3 DEF CountInv
<1>6. QED
  BY <1>3, <1>4, <1>5 DEF CoreInv

\* A step that moves no request changes nothing here.
LEMMA CoreSame ==
    ASSUME CoreInv, UNCHANGED <<pending, state, req, xid, made, observing, observers>>,
           \A u \in Clients : /\ Holds(evq', RequestEvent(u)) <=> Holds(evq, RequestEvent(u))
                              /\ Unique(evq, RequestEvent(u)) => Unique(evq', RequestEvent(u))
    PROVE  CoreInv'
<1>1. Queued' = Queued
  BY DEF Queued
<1>2. Infos' = Infos /\ \A k : WaitingFor(k)' = WaitingFor(k)
  BY DEF Infos, WaitingFor
<1>3. ClientInv'
  BY <1>1 DEF CoreInv, ClientInv
<1>4. XidInv'
  BY <1>1, <1>2 DEF CoreInv, XidInv, Taken, XidsOf
<1>5. CountInv'
  BY <1>2 DEF CoreInv, CountInv
<1>6. QED
  BY <1>3, <1>4, <1>5 DEF CoreInv

\* Neither does an event that is not a request.
LEMMA CorePut ==
    ASSUME Types, CoreInv, NEW e \in Event, Put(e), \A u : e # RequestEvent(u),
           UNCHANGED <<pending, state, req, xid, made, observing, observers>>
    PROVE  CoreInv'
<1>1. evq \in Seq(Event)
  BY DEF Types, ServiceType
<1>2. \A u \in Clients : /\ Holds(evq', RequestEvent(u)) <=> Holds(evq, RequestEvent(u))
                         /\ Unique(evq, RequestEvent(u)) => Unique(evq', RequestEvent(u))
  <2>1. CASE evq' = evq
    BY <2>1
  <2>2. CASE evq' = Append(evq, e)
    BY <1>1, <2>2, PutFacts
  <2>3. QED
    BY <2>1, <2>2 DEF Put
<1>3. QED
  BY <1>2, CoreSame

\* An event that is not a request is taken.
LEMMA TakeOther ==
    ASSUME Types, evq # << >>, \A u : Head(evq) # RequestEvent(u)
    PROVE  \A u \in Clients :
              /\ Holds(Tail(evq), RequestEvent(u)) <=> Holds(evq, RequestEvent(u))
              /\ Unique(evq, RequestEvent(u)) => Unique(Tail(evq), RequestEvent(u))
<1>1. evq \in Seq(Event)
  BY DEF Types, ServiceType
<1>2. QED
  BY <1>1, TakeFacts

\* A request is taken.
LEMMA TakeRequest ==
    ASSUME Types, CoreInv, Take, NEW u \in Clients, Head(evq) = RequestEvent(u)
    PROVE  /\ u \in Queued /\ Queued' = Queued \ {u}
           /\ \A v \in Clients : Unique(evq', RequestEvent(v))
           /\ Cardinality(Queued) \in Nat /\ Cardinality(Queued) > 0
           /\ IsFiniteSet(Queued') /\ Cardinality(Queued') = Cardinality(Queued) - 1
<1>1. evq \in Seq(Event) /\ evq # << >> /\ evq' = Tail(evq)
  BY DEF Types, ServiceType, Take
<1>2. \A v \in Clients : Unique(evq, RequestEvent(v))
  BY DEF CoreInv, ClientInv
<1>3. \A v \in Clients : Unique(evq', RequestEvent(v))
  BY <1>1, <1>2, TakeFacts
<1>4. Holds(evq, RequestEvent(u)) /\ ~Holds(evq', RequestEvent(u))
  BY <1>1, <1>2, TakeFacts
<1>5. \A v \in Clients : v # u => (Holds(evq', RequestEvent(v)) <=> Holds(evq, RequestEvent(v)))
  BY <1>1, TakeFacts, EventKinds
<1>6. u \in Queued /\ Queued' = Queued \ {u}
  BY <1>4, <1>5 DEF Queued
<1>7. IsFiniteSet(Queued)
  BY DEF CoreInv, XidInv
<1>8. Cardinality(Queued) \in Nat /\ Cardinality(Queued) # 0
  BY <1>6, <1>7, FS_CardinalityType, FS_EmptySet
<1>9. IsFiniteSet(Queued') /\ Cardinality(Queued') = Cardinality(Queued) - 1
  BY <1>6, <1>7, FS_RemoveElement
<1>10. QED
  BY <1>3, <1>6, <1>8, <1>9

\* A client sends a request.
LEMMA CoreSendMsg ==
    ASSUME Types, CoreInv, NEW u \in Clients, NEW r \in Asked, SendMsg(u, r)
    PROVE  CoreInv'
<1>1. /\ evq \in Seq(Event) /\ RequestEvent(u) \in Event /\ evq' = Append(evq, RequestEvent(u))
      /\ state[u] # "waiting" /\ made \in Nat /\ made < MaxRequests /\ made' = made + 1
      /\ req' = [req EXCEPT ![u] = r] /\ state' = [state EXCEPT ![u] = "waiting"]
      /\ UNCHANGED <<xid, pending, observing, observers>>
  BY SendMsgFacts, EventFacts DEF SendMsg, Types, ServiceType, ClientType, connVars, serviceVars
<1>2. u \notin Queued /\ \A c \in Conns : \A p \in pending[c] : p.client # u
  BY <1>1 DEF CoreInv, ClientInv
<1>3. Queued' = Queued \cup {u}
  <2>1. \A v \in Clients : Holds(evq', RequestEvent(v)) <=> Holds(evq, RequestEvent(v)) \/ v = u
    BY <1>1, PutFacts, EventKinds
  <2>2. QED
    BY <2>1 DEF Queued
<1>4. \A v \in Clients : Unique(evq', RequestEvent(v))
  <2>1. \A v \in Clients : RequestEvent(v) = RequestEvent(u) => ~Holds(evq, RequestEvent(v))
    BY <1>2, EventKinds DEF Queued
  <2>2. QED
    BY <1>1, <2>1, PutFacts DEF CoreInv, ClientInv
<1>5. req \in [Clients -> Asked] /\ DOMAIN state = Clients
  BY DEF Types, ClientType
<1>6. ClientInv'
  <2>1. \A v \in Clients : v \in Queued' => state'[v] = "waiting"
    BY <1>1, <1>3, <1>5 DEF CoreInv, ClientInv
  <2>2. \A c \in Conns : \A p \in pending[c] : p.client \in Clients
    BY EntryFacts DEF Types, ServiceType
  <2>3. \A c \in Conns : \A p \in pending[c] : state'[p.client] = "waiting"
                                              /\ p.client \notin Queued'
    BY <1>1, <1>2, <1>3, <1>5, <2>2 DEF CoreInv, ClientInv
  <2>4. QED
    BY <1>1, <1>4, <2>1, <2>3 DEF CoreInv, ClientInv
<1>7. Infos' = Infos /\ \A k : WaitingFor(k)' = WaitingFor(k)
  BY <1>1 DEF Infos, WaitingFor
<1>8. XidInv'
  <2>1. IsFiniteSet(Queued') /\ Cardinality(Queued') = Cardinality(Queued) + 1
        /\ Cardinality(Queued) \in Nat
    BY <1>2, <1>3, FS_AddElement, FS_CardinalityType DEF CoreInv, XidInv
  <2>2. MaxRequests \in Nat /\ XidStart \in [Conns -> Nat] /\ xid \in [Conns -> Nat]
    BY OfctlAssumption DEF Types, ConnType
  <2>3. made' <= MaxRequests
    BY <1>1, <2>2
  <2>4. ASSUME NEW c \in Conns
        PROVE  /\ XidStart[c] <= xid'[c]
               /\ xid'[c] + 2 * Cardinality(Queued') <= XidStart[c] + 2 * made'
    <3>1. /\ XidStart[c] <= xid[c]
          /\ xid[c] + 2 * Cardinality(Queued) <= XidStart[c] + 2 * made
      BY DEF CoreInv, XidInv
    <3>2. XidStart[c] \in Nat /\ xid[c] \in Nat
      BY <2>2
    <3>3. QED
      BY <1>1, <2>1, <3>1, <3>2
  <2>5. \A p \in Infos : req'[p.client] = req[p.client]
    BY <1>1, <1>2, <1>5, InfosFacts
  <2>6. \A p \in Infos' : XidsOf(p)' \subseteq Taken(req[p.client].conn)'
    BY <1>1, <1>7, <2>5 DEF CoreInv, XidInv, Taken, XidsOf
  <2>7. \A p, q \in Infos' : p # q => XidsOf(p)' \cap XidsOf(q)' = {}
    BY <1>7 DEF CoreInv, XidInv, XidsOf
  <2>8. QED
    BY <2>1, <2>3, <2>4, <2>6, <2>7 DEF XidInv
<1>9. CountInv'
  BY <1>1, <1>7 DEF CoreInv, CountInv
<1>10. QED
  BY <1>6, <1>8, <1>9 DEF CoreInv

\* A request is refused.
LEMMA CoreRefuse ==
    ASSUME Types, CoreInv, RefuseSend
    PROVE  CoreInv'
<1>1. PICK u \in Clients : Take /\ Head(evq) = RequestEvent(u) /\ u = Head(evq).client
  BY RefuseSendFacts
<1>2. /\ state' = [state EXCEPT ![u] = "answered"]
      /\ UNCHANGED <<xid, pending, observing, observers, made, req>>
  BY <1>1 DEF RefuseSend, Reply, connVars, serviceVars
<1>3. /\ u \in Queued /\ Queued' = Queued \ {u}
      /\ \A v \in Clients : Unique(evq', RequestEvent(v))
      /\ Cardinality(Queued) \in Nat /\ Cardinality(Queued) > 0
      /\ IsFiniteSet(Queued') /\ Cardinality(Queued') = Cardinality(Queued) - 1
  BY <1>1, TakeRequest
<1>4. DOMAIN state = Clients /\ \A c \in Conns : \A p \in pending[c] : p.client \in Clients
  BY EntryFacts DEF Types, ClientType, ServiceType
<1>5. ClientInv'
  BY <1>2, <1>3, <1>4 DEF CoreInv, ClientInv
<1>6. Infos' = Infos /\ \A k : WaitingFor(k)' = WaitingFor(k)
  BY <1>2 DEF Infos, WaitingFor
<1>7. XidInv'
  <2>1. XidStart \in [Conns -> Nat] /\ xid \in [Conns -> Nat] /\ made \in Nat
    BY OfctlAssumption DEF Types, ConnType, ClientType
  <2>2. ASSUME NEW c \in Conns
        PROVE  /\ XidStart[c] <= xid'[c]
               /\ xid'[c] + 2 * Cardinality(Queued') <= XidStart[c] + 2 * made'
    <3>1. /\ XidStart[c] <= xid[c]
          /\ xid[c] + 2 * Cardinality(Queued) <= XidStart[c] + 2 * made
      BY DEF CoreInv, XidInv
    <3>2. XidStart[c] \in Nat /\ xid[c] \in Nat
      BY <2>1
    <3>3. QED
      BY <1>2, <1>3, <2>1, <3>1, <3>2
  <2>3. QED
    BY <1>2, <1>3, <1>6, <2>2 DEF CoreInv, XidInv, Taken, XidsOf
<1>8. CountInv'
  BY <1>2, <1>6 DEF CoreInv, CountInv
<1>9. QED
  BY <1>5, <1>7, <1>8 DEF CoreInv

\* The assertions of _store_xid hold: the xids of a request are new.
LEMMA XidsNew ==
    ASSUME Types, CoreInv, Take, NEW u \in Clients, Sends(u)
    PROVE  /\ Stores(u)
           /\ \A p \in Infos : XidsOf(p) \cap {FirstXid(u), LastXid(u)} = {}
           /\ LastXid(u) + 2 * Cardinality(Queued') <= XidStart[req[u].conn] + 2 * made
<1> DEFINE c == req[u].conn
<1>1. /\ c \in Conns /\ xid[c] \in Nat /\ FirstXid(u) = xid[c] + 1
      /\ FirstXid(u) <= LastXid(u) /\ LastXid(u) <= xid[c] + 2
      /\ FirstXid(u) \in Nat /\ LastXid(u) \in Nat
      /\ InfoOf(u) \in Conns
  BY SendTypes DEF Sends
<1>2. /\ Cardinality(Queued) \in Nat /\ Cardinality(Queued) > 0
      /\ Cardinality(Queued') = Cardinality(Queued) - 1
  BY TakeRequest DEF Sends
<1>3. /\ MaxRequests \in Nat /\ XidStart \in [Conns -> Nat] /\ made \in Nat /\ xid \in [Conns -> Nat]
      /\ \A a, b \in Conns : a # b => Xids(a) \cap Xids(b) = {}
  BY OfctlAssumption DEF Types, ClientType, ConnType
<1> HIDE DEF c
<1>4. \A b \in Conns : /\ XidStart[b] \in Nat /\ xid[b] \in Nat /\ XidStart[b] <= xid[b]
                       /\ xid[b] + 2 * Cardinality(Queued) <= XidStart[b] + 2 * made
                       /\ made <= MaxRequests
  BY <1>3 DEF CoreInv, XidInv
<1>5. LastXid(u) + 2 * Cardinality(Queued') <= XidStart[c] + 2 * made
  BY <1>1, <1>2, <1>3, <1>4
<1>6. \A b \in Conns : xid[b] <= XidStart[b] + 2 * MaxRequests
  BY <1>2, <1>3, <1>4
<1>7. \A b \in Conns : \A x \in Taken(b) : x \in Xids(b)
  BY <1>3, <1>4, <1>6 DEF Taken, Xids
<1>8. FirstXid(u) \in Xids(c) /\ LastXid(u) \in Xids(c)
  <2>1. XidStart[c] \in Nat /\ XidStart[c] <= xid[c] /\ made <= MaxRequests
    BY <1>1, <1>4
  <2>2. LastXid(u) <= XidStart[c] + 2 * MaxRequests
    BY <1>1, <1>2, <1>3, <1>5, <2>1
  <2>3. QED
    BY <1>1, <1>3, <2>1, <2>2 DEF Xids
<1>9. ASSUME NEW p \in Infos, NEW x \in XidsOf(p)
      PROVE  x # FirstXid(u) /\ x # LastXid(u)
  <2>1. req[p.client].conn \in Conns /\ x \in Taken(req[p.client].conn)
    <3>1. p.client \in Clients
      BY InfosFacts
    <3>2. QED
      BY <3>1, RequestFacts DEF CoreInv, XidInv, Types, ClientType
  <2>2. CASE req[p.client].conn = c
    <3>1. x \in Int /\ x <= xid[c]
      BY <2>1, <2>2, <1>1, <1>4 DEF Taken
    <3>2. QED
      BY <3>1, <1>1
  <2>3. CASE req[p.client].conn # c
    BY <2>1, <2>3, <1>1, <1>3, <1>7, <1>8
  <2>4. QED
    BY <2>2, <2>3
<1>10. \A p \in Infos : XidsOf(p) \cap {FirstXid(u), LastXid(u)} = {}
  BY <1>9
<1>11. Stores(u)
  <2>1. \A p \in pending[InfoOf(u)] : p \in Infos
    BY <1>1, InfosFacts
  <2>2. \A p : p.xid \in XidsOf(p) /\ p.barrier \in XidsOf(p)
    BY DEF XidsOf
  <2>3. QED
    BY <1>9, <2>1, <2>2 DEF Stores, XidsFree
<1>12. QED
  BY <1>5, <1>10, <1>11 DEF c

\* A request is carried out: its entry is the only new one.
LEMMA CoreSend ==
    ASSUME Types, CoreInv, HandleSend
    PROVE  CoreInv'
<1>1. PICK u \in Clients : Take /\ Sends(u)
  BY HandleSendFacts
<1> DEFINE n == EntryOf(u)
           i == InfoOf(u)
<1>0. PICK c \in Conns : c = req[u].conn
  BY <1>1, SendTypes DEF Sends
<1>2. /\ c \in Conns /\ xid[c] \in Nat /\ FirstXid(u) = xid[c] + 1
      /\ FirstXid(u) <= LastXid(u) /\ FirstXid(u) \in Nat /\ LastXid(u) \in Nat
      /\ i \in Conns /\ n \in InfoEntry /\ req[u].cls \in Classes \cup {None}
  BY <1>1, <1>0, SendTypes DEF Sends
<1>3. /\ Stores(u)
      /\ \A p \in Infos : XidsOf(p) \cap {FirstXid(u), LastXid(u)} = {}
      /\ LastXid(u) + 2 * Cardinality(Queued') <= XidStart[c] + 2 * made
  BY <1>1, <1>0, XidsNew
<1>4. /\ u \in Queued /\ Queued' = Queued \ {u}
      /\ \A v \in Clients : Unique(evq', RequestEvent(v))
      /\ Cardinality(Queued) \in Nat /\ Cardinality(Queued) > 0
      /\ IsFiniteSet(Queued') /\ Cardinality(Queued') = Cardinality(Queued) - 1
  BY <1>1, TakeRequest DEF Sends
<1>5. /\ pending' = [pending EXCEPT ![i] = @ \cup {n}]
      /\ xid' = [xid EXCEPT ![c] = LastXid(u)]
      /\ UNCHANGED <<made, req, state>>
      /\ IF req[u].cls # None THEN Observe(req[u].cls) ELSE UNCHANGED <<observing, observers>>
  BY <1>1, <1>3, <1>0 DEF Sends, clientVars
<1>6. n.client = u /\ n.cls = req[u].cls /\ XidsOf(n) = {FirstXid(u), LastXid(u)}
  BY DEF EntryOf, XidsOf
<1>7. pending \in [Conns -> SUBSET InfoEntry] /\ xid \in [Conns -> Nat]
  BY DEF Types, ServiceType, ConnType
<1> HIDE DEF n, i
<1>8. \A b \in Conns : \A p \in pending[b] : p.client # u
  BY <1>4 DEF CoreInv, ClientInv
<1>9. \A b \in Conns : \A p \in pending'[b] : p \in pending[b] \/ (b = i /\ p = n)
  BY <1>2, <1>5, <1>7
<1>10. ClientInv'
  <2>1. \A v \in Clients : Unique(evq', RequestEvent(v)) /\ (v \in Queued' => state'[v] = "waiting")
    BY <1>4, <1>5 DEF CoreInv, ClientInv
  <2>2. \A b \in Conns : \A p \in pending'[b] : state'[p.client] = "waiting"
                                                /\ p.client \notin Queued'
    BY <1>4, <1>5, <1>6, <1>9 DEF CoreInv, ClientInv
  <2>3. \A a, b \in Conns : \A p \in pending'[a], q \in pending'[b] :
           p.client = q.client => a = b /\ p = q
    BY <1>6, <1>8, <1>9 DEF CoreInv, ClientInv
  <2>4. QED
    BY <2>1, <2>2, <2>3 DEF ClientInv
<1>11. Infos' = Infos \cup {n} /\ n \notin Infos
  BY <1>2, <1>5, <1>6, <1>7, <1>8 DEF Infos
<1>12. XidInv'
  <2>1. XidStart \in [Conns -> Nat] /\ made \in Nat
    BY OfctlAssumption DEF Types, ClientType
  <2>2. \A b \in Conns : xid'[b] = IF b = c THEN LastXid(u) ELSE xid[b]
    BY <1>5, <1>7
  <2>3. ASSUME NEW b \in Conns
        PROVE  /\ XidStart[b] <= xid'[b]
               /\ xid'[b] + 2 * Cardinality(Queued') <= XidStart[b] + 2 * made'
    <3>1. /\ XidStart[b] <= xid[b]
          /\ xid[b] + 2 * Cardinality(Queued) <= XidStart[b] + 2 * made
      BY DEF CoreInv, XidInv
    <3>2. XidStart[b] \in Nat /\ xid[b] \in Nat
      BY <2>1, <1>7
    <3>3. CASE b = c
      BY <3>1, <3>2, <3>3, <1>2, <1>3, <1>5, <2>2
    <3>4. CASE b # c
      BY <3>1, <3>2, <3>4, <1>4, <1>5, <2>1, <2>2
    <3>5. QED
      BY <3>3, <3>4
  <2>4. \A b \in Conns : Taken(b) \subseteq Taken(b)'
    <3>1. \A b \in Conns : xid[b] \in Nat /\ xid'[b] \in Nat /\ XidStart[b] \in Nat
                           /\ xid[b] <= xid'[b]
      BY <1>2, <1>7, <2>1, <2>2
    <3>2. QED
      BY <3>1 DEF Taken
  <2>5. FirstXid(u) \in Taken(c)' /\ LastXid(u) \in Taken(c)'
    <3>1. xid'[c] = LastXid(u) /\ XidStart[c] \in Nat /\ XidStart[c] <= xid[c]
      BY <1>2, <2>1, <2>2 DEF CoreInv, XidInv
    <3>2. QED
      BY <1>2, <3>1 DEF Taken
  <2>6. ASSUME NEW p \in Infos' PROVE XidsOf(p) \subseteq Taken(req[p.client].conn)'
    <3>1. CASE p = n
      <4>1. req'[p.client].conn = c
        BY <3>1, <1>5, <1>6, <1>0
      <4>2. QED
        BY <3>1, <4>1, <1>6, <2>5 DEF Taken
    <3>2. CASE p \in Infos
      <4>1. req[p.client].conn \in Conns /\ XidsOf(p) \subseteq Taken(req[p.client].conn)
        BY <3>2, InfosFacts, RequestFacts DEF CoreInv, XidInv, Types, ClientType
      <4>2. QED
        BY <4>1, <2>4, <1>5 DEF Taken
    <3>3. QED
      BY <3>1, <3>2, <1>11
  <2>7. \A p, q \in Infos' : p # q => XidsOf(p) \cap XidsOf(q) = {}
    BY <1>3, <1>6, <1>11 DEF CoreInv, XidInv
  <2>8. QED
    BY <1>4, <1>5, <2>3, <2>6, <2>7 DEF CoreInv, XidInv, XidsOf
<1>13. CountInv'
  <2>1. observing \in [Classes -> Int]
    BY DEF Types, ServiceType
  <2>2. None \notin Classes
    BY OfctlAssumption
  <2>3. ASSUME NEW k \in Classes
        PROVE  /\ IsFiniteSet(WaitingFor(k)') /\ observing'[k] = Cardinality(WaitingFor(k)')
               /\ observing'[k] > 0 => k \in DOMAIN observers'
    <3>1. /\ IsFiniteSet(WaitingFor(k)) /\ observing[k] = Cardinality(WaitingFor(k))
          /\ observing[k] > 0 => k \in DOMAIN observers
      BY DEF CoreInv, CountInv
    <3>2. observing[k] \in Int
      BY <2>1
    <3>3. CASE k = req[u].cls
      <4>1. WaitingFor(k)' = WaitingFor(k) \cup {n} /\ n \notin WaitingFor(k)
        BY <3>3, <1>6, <1>11 DEF WaitingFor
      <4>2. IsFiniteSet(WaitingFor(k)') /\ Cardinality(WaitingFor(k)') = observing[k] + 1
        BY <3>1, <4>1, FS_AddElement
      <4>3. Observe(k)
        BY <3>3, <1>5, <2>2
      <4>4. observing'[k] = observing[k] + 1
        BY <4>3, <2>1 DEF Observe
      <4>5. k \in DOMAIN observers'
        <5>1. Cardinality(WaitingFor(k)) \in Nat
          BY <3>1, FS_CardinalityType
        <5>2. CASE observing[k] = 0 /\ k \notin DOMAIN observers
          BY <5>2, <4>3 DEF Observe, With
        <5>3. CASE ~(observing[k] = 0 /\ k \notin DOMAIN observers)
          BY <5>1, <5>3, <4>3, <3>1 DEF Observe
        <5>4. QED
          BY <5>2, <5>3
      <4>6. QED
        BY <4>2, <4>4, <4>5
    <3>4. CASE k # req[u].cls
      <4>1. WaitingFor(k)' = WaitingFor(k)
        BY <3>4, <1>6, <1>11 DEF WaitingFor
      <4>2. observing'[k] = observing[k]
        BY <3>4, <1>2, <1>5, <2>1 DEF Observe
      <4>3. DOMAIN observers \subseteq DOMAIN observers'
        BY <1>5 DEF Observe, With
      <4>4. QED
        BY <4>1, <4>2, <4>3, <3>1
    <3>5. QED
      BY <3>3, <3>4
  <2>4. QED
    BY <2>3 DEF CountInv
<1>14. QED
  BY <1>10, <1>12, <1>13 DEF CoreInv

\* A barrier reply ends a request, or changes nothing.
LEMMA CoreBarrier ==
    ASSUME Types, CoreInv, HandleBarrier
    PROVE  CoreInv'
<1>1. Take /\ Head(evq) \in Answer
  BY HandleBarrierFacts
<1>2. \A u \in Clients : /\ Holds(evq', RequestEvent(u)) <=> Holds(evq, RequestEvent(u))
                         /\ Unique(evq, RequestEvent(u)) => Unique(evq', RequestEvent(u))
  BY <1>1, TakeOther, EventKinds DEF Take
<1>3. CASE Ignores
  BY <1>2, <1>3, CoreSame DEF Ignores, connVars, serviceVars, clientVars
<1>4. ASSUME NEW i \in Conns, NEW p \in pending[i], p \in InfoEntry, Ends(i, p)
      PROVE  CoreInv'
  <2>1. /\ pending' = [pending EXCEPT ![i] = @ \ {p}]
        /\ IF p.cls # None THEN Unobserve(p.cls) ELSE UNCHANGED <<observing, observers>>
        /\ state' = [state EXCEPT ![p.client] = "answered"]
        /\ UNCHANGED <<xid, made, req>>
    BY <1>4 DEF Ends, Reply, connVars
  <2>2. p.client \in Clients /\ p.cls \in Classes \cup {None} /\ DOMAIN state = Clients
        /\ pending \in [Conns -> SUBSET InfoEntry]
    BY <1>4, EntryFacts DEF Types, ClientType, ServiceType
  <2>3. \A c \in Conns : \A q \in pending'[c] : q \in pending[c] /\ q.client # p.client
                                               /\ q.client \in Clients
    <3>1. \A c \in Conns : \A q \in pending[c] : q.client = p.client => c = i /\ q = p
      BY DEF CoreInv, ClientInv
    <3>2. \A c \in Conns : \A q \in pending[c] : q.client \in Clients
      BY <2>2, EntryFacts
    <3>3. QED
      BY <2>1, <2>2, <3>1, <3>2
  <2>4. Queued' = Queued
    BY <1>2 DEF Queued
  <2>5. ClientInv'
    <3>1. \A u \in Clients : /\ Unique(evq', RequestEvent(u))
                             /\ u \in Queued' => state'[u] = "waiting"
      BY <1>2, <1>4, <2>1, <2>2, <2>4 DEF CoreInv, ClientInv
    <3>2. \A c \in Conns : \A q \in pending'[c] : state'[q.client] = "waiting"
                                                 /\ q.client \notin Queued'
      BY <2>1, <2>2, <2>3, <2>4 DEF CoreInv, ClientInv
    <3>3. QED
      BY <2>3, <3>1, <3>2 DEF CoreInv, ClientInv
  <2>6. Infos' = Infos \ {p} /\ p \in Infos
    <3>1. \A q : q \in Infos' <=> \E c \in Conns : q \in pending'[c]
      BY DEF Infos
    <3>2. \A c \in Conns : \A q : q # p /\ q \in pending[c] => q \in pending'[c]
      BY <2>1, <2>2
    <3>3. QED
      BY <2>3, <3>1, <3>2, InfosFacts
  <2>7. XidInv'
    BY <2>1, <2>4, <2>6 DEF CoreInv, XidInv, XidsOf, Taken
  <2>8. CountInv'
    <3>1. observing \in [Classes -> Int] /\ None \notin Classes
      BY OfctlAssumption DEF Types, ServiceType
    <3>2. ASSUME NEW k \in Classes
          PROVE  /\ IsFiniteSet(WaitingFor(k)') /\ observing'[k] = Cardinality(WaitingFor(k)')
                 /\ observing'[k] > 0 => k \in DOMAIN observers'
      <4>1. /\ IsFiniteSet(WaitingFor(k)) /\ observing[k] = Cardinality(WaitingFor(k))
            /\ observing[k] > 0 => k \in DOMAIN observers
        BY DEF CoreInv, CountInv
      <4>2. observing[k] \in Int
        BY <3>1
      <4>3. CASE k = p.cls
        <5>1. WaitingFor(k)' = WaitingFor(k) \ {p} /\ p \in WaitingFor(k)
          BY <4>3, <2>6 DEF WaitingFor
        <5>2. IsFiniteSet(WaitingFor(k)') /\ Cardinality(WaitingFor(k)') = observing[k] - 1
          BY <4>1, <5>1, FS_RemoveElement
        <5>3. Unobserve(k)
          BY <4>3, <2>1, <3>1
        <5>4. observing'[k] = observing[k] - 1
          BY <5>3, <3>1 DEF Unobserve
        <5>5. observing[k] # 1 => observers' = observers
          BY <5>3 DEF Unobserve
        <5>6. QED
          BY <4>1, <4>2, <5>2, <5>4, <5>5
      <4>4. CASE k # p.cls
        <5>1. WaitingFor(k)' = WaitingFor(k)
          BY <4>4, <2>6 DEF WaitingFor
        <5>2. observing'[k] = observing[k]
          BY <4>4, <2>1, <2>2, <3>1 DEF Unobserve
        <5>3. k \in DOMAIN observers => k \in DOMAIN observers'
          BY <4>4, <2>1 DEF Unobserve, Restrict
        <5>4. QED
          BY <5>1, <5>2, <5>3, <4>1
      <4>5. QED
        BY <4>3, <4>4
    <3>3. QED
      BY <3>2 DEF CountInv
  <2>9. QED
    BY <2>5, <2>7, <2>8 DEF CoreInv
<1>5. QED
  BY <1>3, <1>4, HandleBarrierFacts

\* A reply goes to the results of an entry, which stays the same otherwise.
LEMMA CoreReply ==
    ASSUME Types, CoreInv, HandleReply
    PROVE  CoreInv'
<1>1. PICK e \in Answer : e = Head(evq)
  BY HandleReplyFacts
<1>2. /\ Take
      /\ pending' = [c \in Conns |-> {Extended(p, e) : p \in pending[c]}]
      /\ UNCHANGED <<xid, observing, observers, made, req, state>>
      /\ \A p \in InfoEntry : /\ Extended(p, e).client = p.client /\ Extended(p, e).cls = p.cls
                              /\ Extended(p, e).xid = p.xid /\ Extended(p, e).barrier = p.barrier
  BY <1>1, HandleReplyFacts DEF connVars, clientVars
<1>3. \A u \in Clients : /\ Holds(evq', RequestEvent(u)) <=> Holds(evq, RequestEvent(u))
                         /\ Unique(evq, RequestEvent(u)) => Unique(evq', RequestEvent(u))
  BY <1>1, <1>2, TakeOther, EventKinds DEF Take
<1>4. PICK f : f = [p \in InfoEntry |-> Extended(p, e)]
  OBVIOUS
<1>5. \A p \in InfoEntry : /\ f[p].client = p.client /\ f[p].cls = p.cls
                           /\ f[p].xid = p.xid /\ f[p].barrier = p.barrier
  BY <1>2, <1>4
<1>6. pending \in [Conns -> SUBSET InfoEntry]
  BY DEF Types, ServiceType
<1>7. \A c \in Conns : pending'[c] = {f[p] : p \in pending[c]}
  BY <1>2, <1>4, <1>6
<1>8. Queued' = Queued
  BY <1>3 DEF Queued
<1>9. \A c \in Conns : \A q \in pending'[c] : \E p \in pending[c] : p \in InfoEntry /\ q = f[p]
  BY <1>6, <1>7
<1>10. ClientInv'
  <2>1. \A c \in Conns : \A q \in pending'[c] : state'[q.client] = "waiting"
                                               /\ q.client \notin Queued'
    BY <1>2, <1>5, <1>8, <1>9 DEF CoreInv, ClientInv
  <2>2. ASSUME NEW b \in Conns, NEW c \in Conns, NEW p \in pending'[b], NEW q \in pending'[c],
               p.client = q.client
        PROVE  b = c /\ p = q
    <3>1. PICK s \in pending[b] : s \in InfoEntry /\ p = f[s]
      BY <1>9
    <3>2. PICK t \in pending[c] : t \in InfoEntry /\ q = f[t]
      BY <1>9
    <3>3. s.client = t.client
      BY <2>2, <3>1, <3>2, <1>5
    <3>4. b = c /\ s = t
      BY <3>3 DEF CoreInv, ClientInv
    <3>5. QED
      BY <3>1, <3>2, <3>4
  <2>3. QED
    BY <1>2, <1>3, <1>8, <2>1, <2>2 DEF CoreInv, ClientInv
<1>11. Infos \subseteq InfoEntry /\ Infos' = {f[p] : p \in Infos}
  <2>1. \A q : q \in Infos' <=> \E c \in Conns : q \in pending'[c]
    BY DEF Infos
  <2>2. \A q : q \in Infos' <=> \E p \in Infos : q = f[p]
    BY <2>1, <1>7, InfosFacts
  <2>3. QED
    BY <2>2, InfosFacts
<1>12. \A p, q \in Infos : f[p] = f[q] => p = q
  <2>1. SUFFICES ASSUME NEW p \in Infos, NEW q \in Infos, f[p] = f[q] PROVE p = q
    OBVIOUS
  <2>2. p.client = q.client
    BY <2>1, <1>5, <1>11
  <2>3. PICK b \in Conns, c \in Conns : p \in pending[b] /\ q \in pending[c]
    BY InfosFacts
  <2>4. QED
    BY <2>2, <2>3 DEF CoreInv, ClientInv
<1>13. XidInv'
  <2>1. \A p \in Infos : XidsOf(f[p]) = XidsOf(p) /\ f[p].client = p.client
    BY <1>5, <1>11 DEF XidsOf
  <2>2. \A p \in Infos' : XidsOf(p)' \subseteq Taken(req[p.client].conn)'
    <3>1. SUFFICES ASSUME NEW q \in Infos PROVE XidsOf(f[q])' \subseteq Taken(req[f[q].client].conn)'
      BY <1>11
    <3>2. XidsOf(q) \subseteq Taken(req[q.client].conn)
      BY DEF CoreInv, XidInv
    <3>3. req'[f[q].client] = req[q.client] /\ xid' = xid /\ XidsOf(f[q]) = XidsOf(q)
      BY <1>2, <2>1
    <3>4. QED
      BY <3>2, <3>3 DEF Taken, XidsOf
  <2>3. \A p, q \in Infos' : p # q => XidsOf(p)' \cap XidsOf(q)' = {}
    BY <1>11, <2>1 DEF CoreInv, XidInv, XidsOf
  <2>4. QED
    BY <1>2, <1>8, <2>2, <2>3 DEF CoreInv, XidInv
<1>14. CountInv'
  <2>1. ASSUME NEW k \in Classes
        PROVE  IsFiniteSet(WaitingFor(k)') /\ Cardinality(WaitingFor(k)') = Cardinality(WaitingFor(k))
    <3>1. WaitingFor(k) \subseteq Infos /\ WaitingFor(k)' = {f[p] : p \in WaitingFor(k)}
      BY <1>5, <1>11 DEF WaitingFor
    <3>2. PICK g : g = [p \in WaitingFor(k) |-> f[p]]
      OBVIOUS
    <3>3. PICK T : T = WaitingFor(k)'
      OBVIOUS
    <3>4. PICK S : S = WaitingFor(k)
      OBVIOUS
    <3>5. /\ g \in [S -> T] /\ \A y \in T : \E x \in S : g[x] = y
          /\ \A x, y \in S : g[x] = g[y] => x = y
      BY <1>12, <3>1, <3>2, <3>3, <3>4
    <3>6. IsFiniteSet(S)
      BY <3>4 DEF CoreInv, CountInv
    <3>7. QED
      BY <3>3, <3>4, <3>5, <3>6, SameSize
  <2>2. QED
    BY <1>2, <2>1 DEF CoreInv, CountInv
<1>15. QED
  BY <1>10, <1>13, <1>14 DEF CoreInv

\* Every step keeps requests, xids and counts.
LEMMA CoreNext == Types /\ CoreInv /\ [Next]_vars => CoreInv'
<1> SUFFICES ASSUME Types, CoreInv, [Next]_vars PROVE CoreInv'
  OBVIOUS
<1> USE DEF connVars, serviceVars, clientVars
<1>1. CASE UNCHANGED vars
  BY <1>1, CoreSame DEF vars
<1>2. ASSUME NEW c \in Conns, Features(c) PROVE CoreInv'
  <2>1. Put(FeaturesEvent(c)) /\ FeaturesEvent(c) \in Event
    BY <1>2, TypesFeatures, EventFacts
  <2>2. QED
    BY <1>2, <2>1, CorePut, EventKinds DEF Features
<1>3. ASSUME NEW c \in Conns, Die(c) PROVE CoreInv'
  <2>1. Put(DeadEvent(c)) /\ DeadEvent(c) \in Event
    BY <1>3, DieFacts, EventFacts
  <2>2. QED
    BY <1>3, <2>1, CorePut, EventKinds DEF Die
<1>4. ASSUME NEW c \in Conns, PortDesc(c) \/ SwitchDone(c) PROVE CoreInv'
  BY <1>4, CoreSame DEF PortDesc, SwitchDone
<1>5. ASSUME NEW c \in Conns, SwitchReplies(c) PROVE CoreInv'
  <2>1. PICK a \in Answer : Put(a)
    BY <1>5, RepliesFacts
  <2>2. QED
    BY <1>5, <2>1, CorePut, EventKinds, EventFacts DEF SwitchReplies
<1>6. ASSUME NEW c \in Conns, SwitchError(c) PROVE CoreInv'
  <2>1. PICK a \in Answer : Put(a)
    BY <1>6, ErrorFacts
  <2>2. QED
    BY <1>6, <2>1, CorePut, EventKinds, EventFacts DEF SwitchError
<1>7. ASSUME NEW c \in Conns, SwitchBarrier(c) PROVE CoreInv'
  <2>1. PICK a \in Answer : Put(a)
    BY <1>7, BarrierFacts
  <2>2. QED
    BY <1>7, <2>1, CorePut, EventKinds, EventFacts DEF SwitchBarrier
<1>8. CASE HandleFeatures
  <2>1. PICK c \in Conns : c = Head(evq).conn /\ (Head(evq) \in Answer \/ Head(evq) = FeaturesEvent(c))
    BY <1>8, HandleFeaturesFacts
  <2>2. evq # << >> /\ \A u : Head(evq) # RequestEvent(u)
    BY <1>8, <2>1, EventKinds DEF HandleFeatures, HandlingMsg, Handling
  <2>3. evq \in Seq(Event) /\ Tail(evq) \in Seq(Event) /\ \A d \in DOMAIN switches : switches[d] \in Conns
    BY <2>2, TakeFacts DEF Types, ServiceType
  <2>4. evq' = Tail(evq) \/ \E b \in Conns : evq' = Append(Tail(evq), DeadEvent(b))
    BY <1>8, <2>3 DEF HandleFeatures
  <2>5. PICK q : q = Tail(evq)
    OBVIOUS
  <2>6. \A u \in Clients : /\ Holds(q, RequestEvent(u)) <=> Holds(evq, RequestEvent(u))
                           /\ Unique(evq, RequestEvent(u)) => Unique(q, RequestEvent(u))
    BY <2>2, <2>5, TakeOther
  <2>7. ASSUME NEW b \in Conns
        PROVE  LET r == Append(q, DeadEvent(b))
               IN  \A u \in Clients : /\ Holds(r, RequestEvent(u)) <=> Holds(q, RequestEvent(u))
                                      /\ Unique(q, RequestEvent(u)) => Unique(r, RequestEvent(u))
    <3>1. q \in Seq(Event) /\ DeadEvent(b) \in Event /\ \A u : RequestEvent(u) # DeadEvent(b)
      BY <2>3, <2>5, EventFacts, EventKinds
    <3>2. QED
      BY <3>1, PutFacts
  <2>8. \A u \in Clients : /\ Holds(evq', RequestEvent(u)) <=> Holds(evq, RequestEvent(u))
                           /\ Unique(evq, RequestEvent(u)) => Unique(evq', RequestEvent(u))
    BY <2>4, <2>5, <2>6, <2>7
  <2>9. QED
    BY <1>8, <2>8, CoreSame DEF HandleFeatures
<1>9. CASE HandleDead
  <2>1. \A u \in Clients : /\ Holds(evq', RequestEvent(u)) <=> Holds(evq, RequestEvent(u))
                           /\ Unique(evq, RequestEvent(u)) => Unique(evq', RequestEvent(u))
    <3>1. Take /\ \A u : Head(evq) # RequestEvent(u)
      BY <1>9, HandleDeadFacts, EventKinds
    <3>2. QED
      BY <3>1, TakeOther DEF Take
  <2>2. QED
    BY <1>9, <2>1, CoreSame DEF HandleDead
<1>10. QED
  BY <1>1, <1>2, <1>3, <1>4, <1>5, <1>6, <1>7, <1>8, <1>9, CoreSendMsg, CoreRefuse, CoreSend,
     CoreBarrier, CoreReply DEF Next, Service, SwitchStep

\* They hold in every state.
LEMMA CoreHolds == Spec => [](Types /\ CoreInv)
<1>1. Init => Types /\ CoreInv
  BY TypesInit, CoreInit
<1>2. Types /\ CoreInv /\ [Next]_vars => (Types /\ CoreInv)'
  BY TypesNext, CoreNext
<1>3. QED
  BY <1>1, <1>2, PTL DEF Spec

\* The tables of the service have the shapes the code gives them.
THEOREM OfctlTypes == Spec => []TypeOK
<1>1. ASSUME Types, CoreInv PROVE TypeOK
  <2>1. ASSUME NEW c \in Conns PROVE xid[c] \in Xids(c)
    <3>1. /\ XidStart[c] <= xid[c] /\ xid[c] + 2 * Cardinality(Queued) <= XidStart[c] + 2 * made
          /\ made <= MaxRequests
      BY <1>1 DEF CoreInv, XidInv
    <3>2. Cardinality(Queued) \in Nat
      BY <1>1, FS_CardinalityType DEF CoreInv, XidInv
    <3>3. /\ XidStart \in [Conns -> Nat] /\ xid \in [Conns -> Nat] /\ MaxRequests \in Nat
          /\ made \in Nat
      BY <1>1, OfctlAssumption DEF Types, ConnType, ClientType
    <3>4. XidStart[c] \in Nat /\ xid[c] \in Nat
      BY <3>3
    <3>5. QED
      BY <3>1, <3>2, <3>3, <3>4 DEF Xids
  <2>2. observing \in [Classes -> Nat]
    <3>1. observing \in [Classes -> Int]
      BY <1>1 DEF Types, ServiceType
    <3>2. \A k \in Classes : observing[k] \in Nat
      BY <1>1, FS_CardinalityType DEF CoreInv, CountInv
    <3>3. QED
      BY <3>1, <3>2
  <2>3. QED
    BY <1>1, <2>1, <2>2, InfosFacts DEF TypeOK, Types, ConnType, ServiceType, ClientType
<1>2. QED
  BY <1>1, CoreHolds, PTL

\* A class is observed while a request waits for it, and counted exactly:
\* _observe_msg and _unobserve_msg never lose a count.
THEOREM OfctlObserving == Spec => []ObservingExact
<1>1. CoreInv => ObservingExact
  BY DEF CoreInv, CountInv, ObservingExact, WaitingFor
<1>2. QED
  BY <1>1, CoreHolds, PTL

\* The assertions of _store_xid never fail: no request that the service takes
\* has an xid that is in use in the info it is stored in.
THEOREM OfctlXidsFree == Spec => [][HandleSend => Stores(Head(evq).client)]_vars
<1>1. ASSUME Types, CoreInv, HandleSend PROVE Stores(Head(evq).client)
  <2>1. PICK u \in Clients : Take /\ Sends(u)
    BY <1>1, HandleSendFacts
  <2>2. Head(evq).client = u
    BY <2>1 DEF Sends, RequestEvent
  <2>3. QED
    BY <1>1, <2>1, <2>2, XidsNew
<1>2. Types /\ CoreInv => [HandleSend => Stores(Head(evq).client)]_vars
  BY <1>1
<1>3. QED
  BY <1>2, CoreHolds, PTL DEF Spec

-----------------------------------------------------------------------------
(***************************************************************************)
(* The registry.                                                           *)
(***************************************************************************)
NoFeatures == "features" \notin Classes

\* The classes and the handlers with a decorator are different.
LEMMA StaticFacts ==
    ASSUME NoFeatures
    PROVE  /\ DOMAIN Static = {"features", "barrier", "error"}
           /\ Static["features"] = {"config"} /\ Static["barrier"] = {"main"}
           /\ Static["error"] = {"main"}
           /\ DOMAIN Static \cap Classes = {}
BY OfctlAssumption DEF Static, NoFeatures

\* What is observed, at first and after a step.
LEMMA ObserversStep ==
    ASSUME NoFeatures
    PROVE  /\ Init => ObserversInv
           /\ Types /\ ObserversInv /\ [Next]_vars => ObserversInv'
<1>1. Init => ObserversInv
  BY StaticFacts DEF Init, ObserversInv
<1>2. ASSUME ObserversInv, NEW k \in Classes, Observe(k) PROVE ObserversInv'
  <2>1. k \notin DOMAIN Static
    BY StaticFacts
  <2>2. QED
    BY <1>2, <2>1 DEF Observe, ObserversInv, With
<1>3. ASSUME ObserversInv, NEW k \in Classes, Unobserve(k) PROVE ObserversInv'
  <2>1. k \notin DOMAIN Static
    BY StaticFacts
  <2>2. observers' = observers \/ observers' = [j \in DOMAIN observers \ {k} |-> observers[j]]
    BY <1>3 DEF Unobserve, Restrict
  <2>3. QED
    BY <1>3, <2>1, <2>2 DEF ObserversInv
<1>4. ASSUME ObserversInv, UNCHANGED observers PROVE ObserversInv'
  BY <1>4 DEF ObserversInv
<1>5. ASSUME Types, ObserversInv, HandleSend PROVE ObserversInv'
  <2>1. PICK u \in Clients : Sends(u)
    BY <1>5, HandleSendFacts
  <2>2. req[u].cls \in Classes \cup {None}
    BY <1>5, <2>1, SendTypes DEF Sends
  <2>3. QED
    BY <1>2, <1>4, <1>5, <2>1, <2>2 DEF Sends
<1>6. ASSUME Types, ObserversInv, HandleBarrier PROVE ObserversInv'
  <2>1. CASE Ignores
    BY <1>4, <1>5, <1>6, <2>1 DEF Ignores, serviceVars
  <2>2. ASSUME NEW i \in Conns, NEW p \in InfoEntry, Ends(i, p) PROVE ObserversInv'
    <3>1. p.cls \in Classes \cup {None}
      BY EntryFacts
    <3>2. QED
      BY <1>3, <1>4, <1>6, <2>2, <3>1 DEF Ends
  <2>3. QED
    BY <1>6, <2>1, <2>2, HandleBarrierFacts
<1>7. ASSUME Types, ObserversInv, [Next]_vars PROVE ObserversInv'
  <2>1. CASE UNCHANGED observers
    BY <1>4, <1>7, <2>1
  <2>2. QED
    BY <1>5, <1>6, <1>7, <2>1 DEF Next, Service, SwitchStep, vars, serviceVars, Features, PortDesc,
       SwitchReplies, SwitchError, SwitchDone, SwitchBarrier, Die, SendMsg, HandleFeatures,
       HandleDead, RefuseSend, HandleReply
<1>8. QED
  BY <1>1, <1>7

\* Nothing is connected at first.
LEMMA RegInit == Init => RegInv
<1> SUFFICES ASSUME Init PROVE RegInv
  OBVIOUS
<1>1. evq = << >> /\ DOMAIN switches = {} /\ \A c \in Conns : phase[c] = "none"
  BY DEF Init
<1>2. QED
  BY <1>1, EmptyQueue DEF RegInv, Registered

\* A step that neither moves features replies and deaths nor changes a phase
\* or the registry changes nothing here.
LEMMA RegSame ==
    ASSUME RegInv, UNCHANGED <<phase, switches>>,
           \A c \in Conns : \A e \in {FeaturesEvent(c), DeadEvent(c)} :
               Holds(evq', e) <=> Holds(evq, e),
           \A c \in Conns :
               /\ Unique(evq, FeaturesEvent(c)) => Unique(evq', FeaturesEvent(c))
               /\ Followed(evq, FeaturesEvent(c), DeadEvent(c)) =>
                     Followed(evq', FeaturesEvent(c), DeadEvent(c))
    PROVE  RegInv'
<1>1. \A c : Registered(c)' <=> Registered(c)
  BY DEF Registered
<1>2. QED
  BY <1>1 DEF RegInv

\* An event of another kind is put in the queue.
LEMMA PutOther ==
    ASSUME Types, NEW e \in Event, Put(e), \A c : e # FeaturesEvent(c) /\ e # DeadEvent(c)
    PROVE  /\ \A c \in Conns : \A x \in {FeaturesEvent(c), DeadEvent(c)} :
                 Holds(evq', x) <=> Holds(evq, x)
           /\ \A c \in Conns :
                 /\ Unique(evq, FeaturesEvent(c)) => Unique(evq', FeaturesEvent(c))
                 /\ Followed(evq, FeaturesEvent(c), DeadEvent(c)) =>
                       Followed(evq', FeaturesEvent(c), DeadEvent(c))
<1>1. evq \in Seq(Event)
  BY DEF Types, ServiceType
<1>2. CASE evq' = evq
  BY <1>2
<1>3. CASE evq' = Append(evq, e)
  <2>1. \A c \in Conns : Holds(evq', FeaturesEvent(c)) <=> Holds(evq, FeaturesEvent(c))
    BY <1>1, <1>3, PutFacts
  <2>2. \A c \in Conns : Holds(evq', DeadEvent(c)) <=> Holds(evq, DeadEvent(c))
    BY <1>1, <1>3, PutFacts
  <2>3. QED
    BY <1>1, <1>3, <2>1, <2>2, PutFacts
<1>4. QED
  BY <1>2, <1>3 DEF Put

\* An event of another kind is taken.
LEMMA TakeAnother ==
    ASSUME Types, Take, \A c : Head(evq) # FeaturesEvent(c) /\ Head(evq) # DeadEvent(c)
    PROVE  /\ \A c \in Conns : \A x \in {FeaturesEvent(c), DeadEvent(c)} :
                 Holds(evq', x) <=> Holds(evq, x)
           /\ \A c \in Conns :
                 /\ Unique(evq, FeaturesEvent(c)) => Unique(evq', FeaturesEvent(c))
                 /\ Followed(evq, FeaturesEvent(c), DeadEvent(c)) =>
                       Followed(evq', FeaturesEvent(c), DeadEvent(c))
<1>1. evq \in Seq(Event) /\ evq # << >> /\ evq' = Tail(evq)
  BY DEF Types, ServiceType, Take
<1>2. \A c \in Conns : Holds(evq', FeaturesEvent(c)) <=> Holds(evq, FeaturesEvent(c))
  BY <1>1, TakeFacts
<1>3. \A c \in Conns : Holds(evq', DeadEvent(c)) <=> Holds(evq, DeadEvent(c))
  BY <1>1, TakeFacts
<1>4. QED
  BY <1>1, <1>2, <1>3, TakeFacts

\* The features reply is queued, as nothing of the connection is yet.
LEMMA RegFeatures ==
    ASSUME NoFeatures, Types, ObserversInv, RegInv, NEW c \in Conns, Features(c)
    PROVE  RegInv'
<1>1. Observed("features", "config")
  BY StaticFacts DEF ObserversInv, Observed
<1>2. /\ evq' = Append(evq, FeaturesEvent(c)) /\ evq \in Seq(Event) /\ FeaturesEvent(c) \in Event
      /\ phase' = [phase EXCEPT ![c] = IF c \in Modern THEN "config" ELSE "main"]
      /\ phase[c] = "none" /\ DOMAIN phase = Conns /\ UNCHANGED switches
  BY <1>1, EventFacts DEF Features, FeaturesEvent, Types, ConnType, ServiceType, serviceVars
<1>3. ~Holds(evq, FeaturesEvent(c)) /\ ~Registered(c) /\ ~Holds(evq, DeadEvent(c))
  BY <1>2 DEF RegInv
<1>4. \A b : Registered(b)' <=> Registered(b)
  BY <1>2 DEF Registered
<1>5. \A b \in Conns : Holds(evq', FeaturesEvent(b)) <=> Holds(evq, FeaturesEvent(b)) \/ b = c
  BY <1>2, PutFacts, EventKinds
<1>6. \A b \in Conns : Holds(evq', DeadEvent(b)) <=> Holds(evq, DeadEvent(b))
  BY <1>2, PutFacts, EventKinds
<1>7. \A b \in Conns : Unique(evq, FeaturesEvent(b)) => Unique(evq', FeaturesEvent(b))
  BY <1>2, <1>3, PutFacts, EventKinds
<1>8. \A b \in Conns : b # c /\ Followed(evq, FeaturesEvent(b), DeadEvent(b)) =>
                          Followed(evq', FeaturesEvent(b), DeadEvent(b))
  BY <1>2, PutFacts, EventKinds
<1>9. \A b \in Conns : phase'[b] = IF b = c THEN IF c \in Modern THEN "config" ELSE "main"
                                   ELSE phase[b]
  BY <1>2
<1>10. QED
  BY <1>2, <1>3, <1>4, <1>5, <1>6, <1>7, <1>8, <1>9 DEF RegInv

\* The end of the config phase.
LEMMA RegPortDesc ==
    ASSUME Types, RegInv, NEW c \in Conns, PortDesc(c)
    PROVE  RegInv'
<1>1. /\ phase[c] \in {"config", "main"} /\ phase' = [phase EXCEPT ![c] = "main"]
      /\ DOMAIN phase = Conns /\ UNCHANGED <<evq, switches>>
  BY DEF PortDesc, Serving, Types, ConnType, serviceVars
<1>2. \A b \in Conns : phase'[b] = IF b = c THEN "main" ELSE phase[b]
  BY <1>1
<1>3. \A b : Registered(b)' <=> Registered(b)
  BY <1>1 DEF Registered
<1>4. QED
  BY <1>1, <1>2, <1>3 DEF RegInv

\* A death is queued.
LEMMA RegDie ==
    ASSUME Types, RegInv, NEW c \in Conns, Die(c)
    PROVE  RegInv'
<1>1. /\ phase[c] \in {"config", "main"} /\ phase' = [phase EXCEPT ![c] = "dead"]
      /\ DOMAIN phase = Conns /\ UNCHANGED switches
      /\ evq' = Append(evq, DeadEvent(c)) /\ evq \in Seq(Event) /\ DeadEvent(c) \in Event
  BY EventFacts DEF Die, Types, ConnType, ServiceType, serviceVars
<1>2. \A b \in Conns : phase'[b] = IF b = c THEN "dead" ELSE phase[b]
  BY <1>1
<1>3. \A b : Registered(b)' <=> Registered(b)
  BY <1>1 DEF Registered
<1>4. \A b \in Conns : Holds(evq', FeaturesEvent(b)) <=> Holds(evq, FeaturesEvent(b))
  BY <1>1, PutFacts, EventKinds
<1>5. \A b \in Conns : Holds(evq', DeadEvent(b)) <=> Holds(evq, DeadEvent(b)) \/ b = c
  BY <1>1, PutFacts, EventKinds
<1>6. \A b \in Conns : Unique(evq, FeaturesEvent(b)) => Unique(evq', FeaturesEvent(b))
  BY <1>1, PutFacts, EventKinds
<1>7. \A b \in Conns : b = c \/ Followed(evq, FeaturesEvent(b), DeadEvent(b)) =>
                          Followed(evq', FeaturesEvent(b), DeadEvent(b))
  BY <1>1, PutFacts, EventKinds
<1>8. QED
  BY <1>1, <1>2, <1>3, <1>4, <1>5, <1>6, <1>7 DEF RegInv

\* What the features handler does, when no request expects features replies:
\* connection c is registered, and the live one b it replaces is closed.
Replaces(c, b) ==
    /\ phase' = [phase EXCEPT ![b] = "dead"]
    /\ sent' = [sent EXCEPT ![b] = << >>]
    /\ evq' = Append(Tail(evq), DeadEvent(b))

\* The features reply comes from the connection, which was not registered before.
LEMMA FeaturesHandled ==
    ASSUME NoFeatures, Types, RegInv, HandleFeatures
    PROVE  \E c \in Conns :
              /\ Head(evq) = FeaturesEvent(c) /\ evq # << >>
              /\ switches' = With(switches, IdOf[c], c)
              /\ ~Registered(c)
              /\ \A b : Registered(b)' <=> b = c \/ (Registered(b) /\ IdOf[b] # IdOf[c])
              /\ \/ \E b \in Conns : /\ Registered(b) /\ IdOf[b] = IdOf[c] /\ b # c
                                     /\ phase[b] # "dead" /\ Replaces(c, b)
                 \/ /\ evq' = Tail(evq) /\ UNCHANGED <<phase, sent>>
                    /\ \A b \in Conns : Registered(b) /\ IdOf[b] = IdOf[c] => phase[b] = "dead"
<1>1. PICK c \in Conns : /\ c = Head(evq).conn
                         /\ Head(evq) \in Answer \/ Head(evq) = FeaturesEvent(c)
                         /\ \A d \in DOMAIN switches : switches[d] \in Conns
  BY HandleFeaturesFacts
<1>2. Head(evq).cls = "features" /\ evq # << >>
  BY DEF HandleFeatures, HandlingMsg, Handling
<1>3. Head(evq) = FeaturesEvent(c)
  BY <1>1, <1>2, EventKinds DEF NoFeatures
<1>4. ~Registered(c)
  BY <1>2, <1>3, TakeFacts DEF RegInv, Types, ServiceType
<1>5. switches' = With(switches, IdOf[c], c)
  BY <1>1 DEF HandleFeatures
<1>6. \A b : Registered(b)' <=> b = c \/ (Registered(b) /\ IdOf[b] # IdOf[c])
  BY <1>5 DEF Registered, With
<1>7. CASE IdOf[c] \in DOMAIN switches /\ phase[switches[IdOf[c]]] # "dead"
  <2>1. PICK b \in Conns : b = switches[IdOf[c]]
    BY <1>1, <1>7
  <2>2. IdOf[b] = IdOf[c]
    BY <1>7, <2>1 DEF Types, ServiceType
  <2>3. Registered(b) /\ b # c /\ phase[b] # "dead"
    BY <1>4, <1>7, <2>1, <2>2 DEF Registered
  <2>4. Replaces(c, b)
    BY <1>1, <1>7, <2>1 DEF HandleFeatures, Replaces
  <2>5. QED
    BY <1>2, <1>3, <1>4, <1>5, <1>6, <2>2, <2>3, <2>4
<1>8. CASE ~(IdOf[c] \in DOMAIN switches /\ phase[switches[IdOf[c]]] # "dead")
  <2>1. evq' = Tail(evq) /\ UNCHANGED <<phase, sent>>
    BY <1>1, <1>8 DEF HandleFeatures
  <2>2. \A b \in Conns : Registered(b) /\ IdOf[b] = IdOf[c] => phase[b] = "dead"
    BY <1>8 DEF Registered
  <2>3. QED
    BY <1>2, <1>3, <1>4, <1>5, <1>6, <2>1, <2>2
<1>9. QED
  BY <1>7, <1>8

\* A features reply registers its connection.
LEMMA RegHandleFeatures ==
    ASSUME NoFeatures, Types, RegInv, HandleFeatures
    PROVE  RegInv'
<1>1. PICK c \in Conns :
         /\ Head(evq) = FeaturesEvent(c) /\ evq # << >> /\ ~Registered(c)
         /\ \A b : Registered(b)' <=> b = c \/ (Registered(b) /\ IdOf[b] # IdOf[c])
         /\ \/ \E b \in Conns : /\ Registered(b) /\ IdOf[b] = IdOf[c] /\ b # c
                                /\ phase[b] # "dead" /\ Replaces(c, b)
            \/ /\ evq' = Tail(evq) /\ UNCHANGED phase
               /\ \A b \in Conns : Registered(b) /\ IdOf[b] = IdOf[c] => phase[b] = "dead"
  BY FeaturesHandled
<1>2. evq \in Seq(Event) /\ DOMAIN phase = Conns
  BY DEF Types, ServiceType, ConnType
<1>3. PICK q \in Seq(Event) : q = Tail(evq)
  BY <1>1, <1>2, TakeFacts
<1>4. \A b \in Conns : /\ Holds(q, FeaturesEvent(b)) <=> Holds(evq, FeaturesEvent(b)) /\ b # c
                       /\ Holds(q, DeadEvent(b)) <=> Holds(evq, DeadEvent(b))
                       /\ Unique(q, FeaturesEvent(b))
  <2>1. \A b \in Conns : Unique(evq, FeaturesEvent(b))
    BY DEF RegInv
  <2>2. \A b \in Conns : Holds(q, DeadEvent(b)) <=> Holds(evq, DeadEvent(b))
    BY <1>1, <1>2, <1>3, TakeFacts, EventKinds
  <2>3. \A b \in Conns : Holds(q, FeaturesEvent(b)) <=> Holds(evq, FeaturesEvent(b)) /\ b # c
    <3>1. ~Holds(q, FeaturesEvent(c))
      BY <1>1, <1>2, <1>3, <2>1, TakeFacts
    <3>2. \A b \in Conns : b # c => FeaturesEvent(b) # FeaturesEvent(c)
      BY EventKinds
    <3>3. QED
      BY <1>1, <1>2, <1>3, <3>1, <3>2, TakeFacts
  <2>4. QED
    BY <1>1, <1>2, <1>3, <2>1, <2>2, <2>3, TakeFacts
<1>5. \A b \in Conns : Followed(evq, FeaturesEvent(b), DeadEvent(b)) =>
                          /\ Followed(q, FeaturesEvent(b), DeadEvent(b))
                          /\ b = c => Holds(q, DeadEvent(b))
  BY <1>1, <1>2, <1>3, TakeFacts
<1>6. Holds(evq, FeaturesEvent(c))
  BY <1>1, <1>2, TakeFacts
<1>7. CASE evq' = Tail(evq) /\ UNCHANGED phase
  <2>1. \A b \in Conns : /\ Holds(evq', FeaturesEvent(b)) <=> Holds(evq, FeaturesEvent(b)) /\ b # c
                         /\ Holds(evq', DeadEvent(b)) <=> Holds(evq, DeadEvent(b))
                         /\ Unique(evq', FeaturesEvent(b)) /\ phase'[b] = phase[b]
    BY <1>3, <1>4, <1>7
  <2>2. \A b \in Conns : Followed(evq, FeaturesEvent(b), DeadEvent(b)) =>
                            /\ Followed(evq', FeaturesEvent(b), DeadEvent(b))
                            /\ b = c => Holds(evq', DeadEvent(b))
    BY <1>3, <1>5, <1>7
  <2>3. \A b : Registered(b)' <=> b = c \/ (Registered(b) /\ IdOf[b] # IdOf[c])
    BY <1>1
  <2>4. \A b \in Conns : Registered(b) /\ IdOf[b] = IdOf[c] => phase[b] = "dead"
    BY <1>1, <1>7 DEF Replaces, Types, ConnType
  <2>5. QED
    BY <1>1, <1>6, <2>1, <2>2, <2>3, <2>4 DEF RegInv
<1>8. ASSUME NEW b \in Conns, Registered(b), IdOf[b] = IdOf[c], b # c, Replaces(c, b)
      PROVE  RegInv'
  <2>1. /\ evq' = Append(q, DeadEvent(b)) /\ DeadEvent(b) \in Event
        /\ \A a \in Conns : phase'[a] = IF a = b THEN "dead" ELSE phase[a]
    BY <1>2, <1>3, <1>8, EventFacts DEF Replaces
  <2>2. \A a \in Conns : /\ Holds(evq', FeaturesEvent(a)) <=> Holds(evq, FeaturesEvent(a)) /\ a # c
                         /\ Holds(evq', DeadEvent(a)) <=> Holds(evq, DeadEvent(a)) \/ a = b
                         /\ Unique(evq', FeaturesEvent(a))
    <3>1. \A a \in Conns : Holds(evq', FeaturesEvent(a)) <=> Holds(q, FeaturesEvent(a))
      BY <2>1, PutFacts, EventKinds
    <3>2. \A a \in Conns : Holds(evq', DeadEvent(a)) <=> Holds(q, DeadEvent(a)) \/ a = b
      BY <2>1, PutFacts, EventKinds
    <3>3. \A a \in Conns : Unique(evq', FeaturesEvent(a))
      BY <1>4, <2>1, PutFacts, EventKinds
    <3>4. QED
      BY <1>4, <3>1, <3>2, <3>3
  <2>3. \A a \in Conns : a = b \/ Followed(evq, FeaturesEvent(a), DeadEvent(a)) =>
                            /\ Followed(evq', FeaturesEvent(a), DeadEvent(a))
                            /\ a = c => Holds(evq', DeadEvent(a))
    <3>1. \A a \in Conns : a = b \/ Followed(q, FeaturesEvent(a), DeadEvent(a)) =>
                            Followed(evq', FeaturesEvent(a), DeadEvent(a))
      BY <2>1, PutFacts, EventKinds
    <3>2. QED
      BY <1>4, <1>5, <1>8, <2>2, <3>1
  <2>4. ~Holds(evq, FeaturesEvent(b)) /\ phase[b] # "none"
    BY <1>8 DEF RegInv
  <2>5. QED
    <3>1. \A a : Registered(a)' <=> a = c \/ (Registered(a) /\ IdOf[a] # IdOf[c])
      BY <1>1
    <3>2. \A a : Registered(a) /\ IdOf[a] = IdOf[c] => a = b
      BY <1>8 DEF Registered
    <3>3. QED
      BY <1>6, <1>8, <2>1, <2>2, <2>3, <2>4, <3>1, <3>2 DEF RegInv
<1>9. QED
  BY <1>1, <1>7, <1>8

\* A death unregisters its connection, if it is the registered one.
LEMMA RegHandleDead ==
    ASSUME Types, RegInv, HandleDead
    PROVE  RegInv'
<1>1. PICK c \in Conns : /\ Take /\ c = Head(evq).conn /\ Head(evq) = DeadEvent(c)
                         /\ DOMAIN switches' = {d \in DOMAIN switches : switches[d] # c}
                         /\ \A d \in DOMAIN switches' : switches'[d] = switches[d]
  BY HandleDeadFacts
<1>2. evq \in Seq(Event) /\ evq # << >> /\ evq' = Tail(evq) /\ UNCHANGED phase
  BY <1>1 DEF Types, ServiceType, Take, HandleDead, connVars
<1>3. \A b : Registered(b)' <=> Registered(b) /\ b # c
  BY <1>1 DEF Registered
<1>4. phase[c] = "dead"
  BY <1>1, <1>2, TakeFacts DEF RegInv
<1>5. \A b \in Conns : /\ Holds(evq', FeaturesEvent(b)) <=> Holds(evq, FeaturesEvent(b))
                       /\ Holds(evq', DeadEvent(b)) => Holds(evq, DeadEvent(b))
                       /\ b # c => (Holds(evq', DeadEvent(b)) <=> Holds(evq, DeadEvent(b)))
  BY <1>1, <1>2, TakeFacts, EventKinds
<1>6. \A b \in Conns : /\ Unique(evq, FeaturesEvent(b)) => Unique(evq', FeaturesEvent(b))
                       /\ Followed(evq, FeaturesEvent(b), DeadEvent(b)) =>
                             Followed(evq', FeaturesEvent(b), DeadEvent(b))
  BY <1>2, TakeFacts
<1>7. QED
  BY <1>2, <1>3, <1>4, <1>5, <1>6 DEF RegInv

\* Every step keeps the registry right.
LEMMA RegNext ==
    ASSUME NoFeatures
    PROVE  Types /\ ObserversInv /\ RegInv /\ [Next]_vars => RegInv'
<1> SUFFICES ASSUME Types, ObserversInv, RegInv, [Next]_vars PROVE RegInv'
  OBVIOUS
<1> USE DEF connVars, serviceVars, clientVars
<1>1. CASE UNCHANGED vars
  BY <1>1, RegSame DEF vars
<1>2. ASSUME NEW c \in Conns, SwitchReplies(c) PROVE RegInv'
  <2>1. PICK a \in Answer : Put(a)
    BY <1>2, RepliesFacts
  <2>2. a \in Event /\ \A b : a # FeaturesEvent(b) /\ a # DeadEvent(b)
    BY EventKinds, EventFacts DEF NoFeatures
  <2>3. QED
    BY <1>2, <2>1, <2>2, PutOther, RegSame DEF SwitchReplies
<1>3. ASSUME NEW c \in Conns, SwitchError(c) PROVE RegInv'
  <2>1. PICK a \in Answer : Put(a)
    BY <1>3, ErrorFacts
  <2>2. a \in Event /\ \A b : a # FeaturesEvent(b) /\ a # DeadEvent(b)
    BY EventKinds, EventFacts DEF NoFeatures
  <2>3. QED
    BY <1>3, <2>1, <2>2, PutOther, RegSame DEF SwitchError
<1>4. ASSUME NEW c \in Conns, SwitchBarrier(c) PROVE RegInv'
  <2>1. PICK a \in Answer : Put(a)
    BY <1>4, BarrierFacts
  <2>2. a \in Event /\ \A b : a # FeaturesEvent(b) /\ a # DeadEvent(b)
    BY EventKinds, EventFacts DEF NoFeatures
  <2>3. QED
    BY <1>4, <2>1, <2>2, PutOther, RegSame DEF SwitchBarrier
<1>5. ASSUME NEW c \in Conns, SwitchDone(c) PROVE RegInv'
  BY <1>5, RegSame DEF SwitchDone
<1>6. ASSUME NEW u \in Clients, NEW r \in Asked, SendMsg(u, r) PROVE RegInv'
  <2>1. RequestEvent(u) \in Event /\ \A b : RequestEvent(u) # FeaturesEvent(b)
                                           /\ RequestEvent(u) # DeadEvent(b)
    BY EventKinds, EventFacts
  <2>2. Put(RequestEvent(u))
    BY <1>6, SendMsgFacts
  <2>3. QED
    BY <1>6, <2>1, <2>2, PutOther, RegSame DEF SendMsg
<1>7. CASE RefuseSend \/ HandleSend
  <2>1. PICK u \in Clients : Take /\ Head(evq) = RequestEvent(u)
    BY <1>7, RefuseSendFacts, HandleSendFacts DEF Sends
  <2>2. \A b : Head(evq) # FeaturesEvent(b) /\ Head(evq) # DeadEvent(b)
    BY <2>1, EventKinds
  <2>3. UNCHANGED <<phase, switches>>
    BY <1>7 DEF RefuseSend, HandleSend
  <2>4. QED
    BY <2>1, <2>2, <2>3, TakeAnother, RegSame
<1>8. CASE HandleBarrier
  <2>1. Take /\ Head(evq) \in Answer /\ UNCHANGED <<phase, switches>>
    BY <1>8, HandleBarrierFacts DEF Ends, Ignores
  <2>2. \A b : Head(evq) # FeaturesEvent(b) /\ Head(evq) # DeadEvent(b)
    BY <2>1, EventKinds DEF NoFeatures
  <2>3. QED
    BY <2>1, <2>2, TakeAnother, RegSame
<1>9. CASE HandleReply
  <2>1. Take /\ Head(evq) \in Answer /\ UNCHANGED <<phase, switches>>
    BY <1>9, HandleReplyFacts
  <2>2. \A b : Head(evq) # FeaturesEvent(b) /\ Head(evq) # DeadEvent(b)
    BY <2>1, EventKinds DEF NoFeatures
  <2>3. QED
    BY <2>1, <2>2, TakeAnother, RegSame
<1>10. QED
  BY <1>1, <1>2, <1>3, <1>4, <1>5, <1>6, <1>7, <1>8, <1>9, RegFeatures, RegPortDesc, RegDie,
     RegHandleFeatures, RegHandleDead DEF Next, Service, SwitchStep

\* They hold in every state.
LEMMA RegHolds == ASSUME NoFeatures PROVE Spec => [](Types /\ CoreInv /\ ObserversInv /\ RegInv)
<1>1. Init => Types /\ CoreInv /\ ObserversInv /\ RegInv
  BY TypesInit, CoreInit, ObserversStep, RegInit
<1>2. Types /\ CoreInv /\ ObserversInv /\ RegInv /\ [Next]_vars =>
         (Types /\ CoreInv /\ ObserversInv /\ RegInv)'
  BY TypesNext, CoreNext, ObserversStep, RegNext
<1>3. QED
  BY <1>1, <1>2, PTL DEF Spec

\* The service knows a connected switch by its one live connection, unless
\* some request has features replies as its reply class: then _observe_msg
\* and _unobserve_msg turn off the service's own features handler, as the run
\* ofctl_features shows.
THEOREM OfctlRegistry == ASSUME NoFeatures PROVE Spec => []RegistryExact
<1>1. ASSUME Types, RegInv PROVE RegistryExact
  <2>1. SUFFICES ASSUME evq = << >>, NEW c \in Conns
                 PROVE  phase[c] \in {"config", "main"} <=> Registered(c)
    BY DEF RegistryExact, Registered
  <2>2. ~Holds(evq, FeaturesEvent(c)) /\ ~Holds(evq, DeadEvent(c))
    BY <2>1, EmptyQueue
  <2>3. phase[c] \in {"none", "config", "main", "dead"}
    BY <1>1 DEF Types, ConnType
  <2>4. QED
    BY <1>1, <2>2, <2>3 DEF RegInv
<1>2. QED
  BY <1>1, RegHolds, PTL

-----------------------------------------------------------------------------
(***************************************************************************)
(* Replies on their way.                                                   *)
(***************************************************************************)

\* Another event is put behind them.
LEMMA WayPut ==
    ASSUME NEW q \in Seq(Event), NEW x \in Event, NEW u, ~ReplyOn(x, u),
           NEW res \in Seq(Replies), NEW all \in Seq(Replies), OnTheWay(res, all, q, u)
    PROVE  OnTheWay(res, all, Append(q, x), u)
<1>1. PICK at \in [Len(res) + 1 .. Len(all) -> 1 .. Len(q)] : Placed(at, res, all, q, u)
  BY DEF OnTheWay
<1>2. PICK r : r = Append(q, x)
  OBVIOUS
<1>3. /\ Len(q) \in Nat /\ Len(r) = Len(q) + 1 /\ r[Len(q) + 1] = x
      /\ \A i \in 1 .. Len(q) : r[i] = q[i]
  BY <1>2, AppendProperties, LenProperties
<1>4. at \in [Len(res) + 1 .. Len(all) -> 1 .. Len(r)]
  BY <1>1, <1>3
<1>5. \A i \in DOMAIN at : ReplyOn(r[at[i]], u) /\ r[at[i]].cls = all[i]
  BY <1>1, <1>3 DEF Placed
<1>6. \A n \in 1 .. Len(r) : ReplyOn(r[n], u) => \E i \in DOMAIN at : at[i] = n
  <2>1. SUFFICES ASSUME NEW n \in 1 .. Len(r), ReplyOn(r[n], u) PROVE \E i \in DOMAIN at : at[i] = n
    OBVIOUS
  <2>2. n # Len(q) + 1
    BY <1>3, <2>1
  <2>3. n \in 1 .. Len(q) /\ ReplyOn(q[n], u)
    BY <1>3, <2>1, <2>2
  <2>4. QED
    BY <1>1, <2>3 DEF Placed
<1>7. Placed(at, res, all, r, u)
  BY <1>1, <1>4, <1>5, <1>6 DEF Placed
<1>8. QED
  BY <1>2, <1>4, <1>7 DEF OnTheWay

\* A reply is put behind them.
LEMMA WayReply ==
    ASSUME NEW q \in Seq(Event), NEW x \in Event, NEW u, ReplyOn(x, u), x.cls \in Replies,
           NEW res \in Seq(Replies), NEW all \in Seq(Replies), OnTheWay(res, all, q, u)
    PROVE  OnTheWay(res, Append(all, x.cls), Append(q, x), u)
<1>1. PICK at \in [Len(res) + 1 .. Len(all) -> 1 .. Len(q)] : Placed(at, res, all, q, u)
  BY DEF OnTheWay
<1>2. PICK r : r = Append(q, x)
  OBVIOUS
<1>3. PICK more : more = Append(all, x.cls)
  OBVIOUS
<1>4. /\ Len(q) \in Nat /\ Len(r) = Len(q) + 1 /\ r[Len(q) + 1] = x
      /\ \A i \in 1 .. Len(q) : r[i] = q[i]
  BY <1>2, AppendProperties, LenProperties
<1>5. /\ Len(all) \in Nat /\ Len(more) = Len(all) + 1 /\ more[Len(all) + 1] = x.cls
      /\ \A i \in 1 .. Len(all) : more[i] = all[i]
  BY <1>3, AppendProperties, LenProperties
<1>6. Len(res) \in Nat /\ Len(res) <= Len(all) /\ \A i \in 1 .. Len(res) : res[i] = all[i]
  BY <1>1, LenProperties DEF Placed
<1>7. PICK by : by = [i \in Len(res) + 1 .. Len(more) |-> IF i = Len(all) + 1 THEN Len(q) + 1 ELSE at[i]]
  OBVIOUS
<1>8. /\ DOMAIN by = Len(res) + 1 .. Len(more)
      /\ Len(all) + 1 \in DOMAIN by /\ by[Len(all) + 1] = Len(q) + 1
      /\ \A i \in DOMAIN by : i = Len(all) + 1
                              \/ (i \in Len(res) + 1 .. Len(all) /\ i \in DOMAIN at /\ by[i] = at[i]
                                  /\ at[i] \in 1 .. Len(q) /\ by[i] < Len(q) + 1)
  BY <1>1, <1>4, <1>5, <1>6, <1>7
<1>9. by \in [Len(res) + 1 .. Len(more) -> 1 .. Len(r)]
  <2>1. \A i \in DOMAIN by : by[i] \in 1 .. Len(r)
    BY <1>4, <1>8
  <2>2. QED
    BY <1>7, <1>8, <2>1
<1>10. \A i \in 1 .. Len(res) : res[i] = more[i]
  BY <1>5, <1>6
<1>11. \A i \in DOMAIN by : ReplyOn(r[by[i]], u) /\ r[by[i]].cls = more[i]
  <2>1. SUFFICES ASSUME NEW i \in DOMAIN by PROVE ReplyOn(r[by[i]], u) /\ r[by[i]].cls = more[i]
    OBVIOUS
  <2>2. CASE i = Len(all) + 1
    BY <2>2, <1>4, <1>5, <1>8
  <2>3. CASE i # Len(all) + 1
    <3>1. /\ i \in DOMAIN at /\ by[i] = at[i] /\ at[i] \in 1 .. Len(q)
          /\ i \in Len(res) + 1 .. Len(all)
      BY <2>1, <2>3, <1>8
    <3>2. ReplyOn(q[at[i]], u) /\ q[at[i]].cls = all[i]
      BY <1>1, <3>1 DEF Placed
    <3>3. r[at[i]] = q[at[i]] /\ more[i] = all[i]
      BY <1>4, <1>5, <1>6, <3>1
    <3>4. QED
      BY <3>1, <3>2, <3>3
  <2>4. QED
    BY <2>2, <2>3
<1>12. \A i, j \in DOMAIN by : i < j => by[i] < by[j]
  <2>1. SUFFICES ASSUME NEW i \in DOMAIN by, NEW j \in DOMAIN by, i < j PROVE by[i] < by[j]
    OBVIOUS
  <2>2. i # Len(all) + 1
    BY <2>1, <1>5, <1>8
  <2>3. i \in DOMAIN at /\ by[i] = at[i] /\ by[i] < Len(q) + 1
    BY <2>2, <1>8
  <2>4. CASE j = Len(all) + 1
    BY <2>3, <2>4, <1>8
  <2>5. CASE j # Len(all) + 1
    <3>1. j \in DOMAIN at /\ by[j] = at[j]
      BY <2>5, <1>8
    <3>2. QED
      BY <1>1, <2>1, <2>3, <3>1 DEF Placed
  <2>6. QED
    BY <2>4, <2>5
<1>13. \A n \in 1 .. Len(r) : ReplyOn(r[n], u) => \E i \in DOMAIN by : by[i] = n
  <2>1. SUFFICES ASSUME NEW n \in 1 .. Len(r), ReplyOn(r[n], u) PROVE \E i \in DOMAIN by : by[i] = n
    OBVIOUS
  <2>2. CASE n = Len(q) + 1
    BY <2>2, <1>8
  <2>3. CASE n # Len(q) + 1
    <3>1. n \in 1 .. Len(q) /\ ReplyOn(q[n], u)
      BY <1>4, <2>1, <2>3
    <3>2. PICK i \in DOMAIN at : at[i] = n
      BY <1>1, <3>1 DEF Placed
    <3>3. i \in DOMAIN by /\ i # Len(all) + 1
      BY <1>1, <1>5, <1>6, <1>8
    <3>4. QED
      BY <1>8, <3>2, <3>3
  <2>4. QED
    BY <2>2, <2>3
<1>14. Len(res) <= Len(more)
  BY <1>5, <1>6
<1>15. Placed(by, res, more, r, u)
  BY <1>9, <1>10, <1>11, <1>12, <1>13, <1>14 DEF Placed
<1>16. QED
  BY <1>2, <1>3, <1>9, <1>15 DEF OnTheWay

\* Another event is taken before them.
LEMMA WayTake ==
    ASSUME NEW q \in Seq(Event), q # << >>, NEW u, ~ReplyOn(Head(q), u),
           NEW res \in Seq(Replies), NEW all \in Seq(Replies), OnTheWay(res, all, q, u)
    PROVE  OnTheWay(res, all, Tail(q), u)
<1>1. PICK at \in [Len(res) + 1 .. Len(all) -> 1 .. Len(q)] : Placed(at, res, all, q, u)
  BY DEF OnTheWay
<1>2. PICK t : t = Tail(q)
  OBVIOUS
<1>3. /\ Len(q) \in Nat /\ Len(q) > 0 /\ Len(t) = Len(q) - 1 /\ Head(q) = q[1]
      /\ \A i \in 1 .. Len(t) : t[i] = q[i + 1]
  BY <1>2, HeadTailProperties, LenProperties
<1>4. \A i \in DOMAIN at : at[i] \in 1 .. Len(q) /\ at[i] # 1
  BY <1>1, <1>3 DEF Placed
<1>5. PICK by : by = [i \in Len(res) + 1 .. Len(all) |-> at[i] - 1]
  OBVIOUS
<1>6. DOMAIN by = DOMAIN at /\ \A i \in DOMAIN at : /\ by[i] \in 1 .. Len(t) /\ by[i] = at[i] - 1
                                                   /\ t[by[i]] = q[at[i]]
  <2>1. DOMAIN by = DOMAIN at /\ \A i \in DOMAIN at : by[i] = at[i] - 1
    BY <1>1, <1>5
  <2>2. \A i \in DOMAIN at : by[i] \in 1 .. Len(t) /\ by[i] + 1 = at[i]
    BY <1>3, <1>4, <2>1
  <2>3. QED
    BY <1>3, <2>1, <2>2
<1>7. by \in [Len(res) + 1 .. Len(all) -> 1 .. Len(t)]
  BY <1>1, <1>5, <1>6
<1>8. \A i \in DOMAIN by : ReplyOn(t[by[i]], u) /\ t[by[i]].cls = all[i]
  BY <1>1, <1>6 DEF Placed
<1>9. \A i, j \in DOMAIN by : i < j => by[i] < by[j]
  BY <1>1, <1>4, <1>6 DEF Placed
<1>10. \A n \in 1 .. Len(t) : ReplyOn(t[n], u) => \E i \in DOMAIN by : by[i] = n
  <2>1. SUFFICES ASSUME NEW n \in 1 .. Len(t), ReplyOn(t[n], u) PROVE \E i \in DOMAIN by : by[i] = n
    OBVIOUS
  <2>2. n + 1 \in 1 .. Len(q) /\ ReplyOn(q[n + 1], u)
    BY <1>3, <2>1
  <2>3. PICK i \in DOMAIN at : at[i] = n + 1
    BY <1>1, <2>2 DEF Placed
  <2>4. QED
    BY <1>6, <2>3
<1>11. Placed(by, res, all, t, u)
  BY <1>1, <1>7, <1>8, <1>9, <1>10 DEF Placed
<1>12. QED
  BY <1>2, <1>7, <1>11 DEF OnTheWay

\* The first of them is taken: it is the next result.
LEMMA WayCount ==
    ASSUME NEW q \in Seq(Event), q # << >>, NEW u, ReplyOn(Head(q), u), Head(q).cls \in Replies,
           NEW res \in Seq(Replies), NEW all \in Seq(Replies), OnTheWay(res, all, q, u)
    PROVE  OnTheWay(Append(res, Head(q).cls), all, Tail(q), u)
<1>1. PICK at \in [Len(res) + 1 .. Len(all) -> 1 .. Len(q)] : Placed(at, res, all, q, u)
  BY DEF OnTheWay
<1>2. PICK t : t = Tail(q)
  OBVIOUS
<1>3. PICK more : more = Append(res, Head(q).cls)
  OBVIOUS
<1>4. /\ Len(q) \in Nat /\ Len(q) > 0 /\ Len(t) = Len(q) - 1 /\ Head(q) = q[1]
      /\ \A i \in 1 .. Len(t) : t[i] = q[i + 1]
  BY <1>2, HeadTailProperties, LenProperties
<1>5. /\ Len(res) \in Nat /\ Len(more) = Len(res) + 1 /\ more[Len(res) + 1] = Head(q).cls
      /\ \A i \in 1 .. Len(res) : more[i] = res[i]
  BY <1>3, AppendProperties, LenProperties
<1>6. Len(all) \in Nat /\ Len(res) <= Len(all) /\ \A i \in 1 .. Len(res) : res[i] = all[i]
  BY <1>1, LenProperties DEF Placed
<1>7. PICK f \in DOMAIN at : at[f] = 1
  <2>1. 1 \in 1 .. Len(q) /\ ReplyOn(q[1], u)
    BY <1>4
  <2>2. QED
    BY <1>1, <2>1 DEF Placed
<1>8. f = Len(res) + 1
  <2>1. f \in Len(res) + 1 .. Len(all)
    BY <1>1, <1>7
  <2>2. SUFFICES ASSUME Len(res) + 1 < f PROVE FALSE
    BY <1>5, <1>6, <2>1
  <2>3. Len(res) + 1 \in DOMAIN at
    BY <1>1, <1>5, <1>6, <2>1, <2>2
  <2>4. at[Len(res) + 1] < at[f] /\ at[Len(res) + 1] \in 1 .. Len(q)
    BY <1>1, <1>7, <2>2, <2>3 DEF Placed
  <2>5. QED
    BY <1>7, <2>4
<1>9. Head(q).cls = all[Len(res) + 1] /\ Len(res) + 1 <= Len(all)
  BY <1>1, <1>4, <1>5, <1>6, <1>7, <1>8 DEF Placed
<1>10. \A i \in 1 .. Len(more) : more[i] = all[i]
  <2>1. \A i \in 1 .. Len(more) : i \in 1 .. Len(res) \/ i = Len(res) + 1
    BY <1>5
  <2>2. QED
    BY <1>5, <1>6, <1>9, <2>1
<1>11. PICK by : by = [i \in Len(more) + 1 .. Len(all) |-> at[i] - 1]
  OBVIOUS
<1>12. \A i \in Len(more) + 1 .. Len(all) : i \in DOMAIN at /\ at[i] \in 1 .. Len(q) /\ at[i] > 1
  <2>1. SUFFICES ASSUME NEW i \in Len(more) + 1 .. Len(all)
                 PROVE  i \in DOMAIN at /\ at[i] \in 1 .. Len(q) /\ at[i] > 1
    OBVIOUS
  <2>2. i \in Len(res) + 1 .. Len(all) /\ f < i
    BY <1>5, <1>6, <1>8, <2>1
  <2>3. i \in DOMAIN at /\ at[i] \in 1 .. Len(q)
    BY <1>1, <2>2
  <2>4. at[f] < at[i]
    BY <1>1, <1>7, <2>2, <2>3 DEF Placed
  <2>5. QED
    BY <1>7, <2>3, <2>4
<1>13. /\ DOMAIN by = Len(more) + 1 .. Len(all)
       /\ \A i \in DOMAIN by : /\ by[i] \in 1 .. Len(t) /\ by[i] = at[i] - 1
                               /\ t[by[i]] = q[at[i]]
  <2>1. DOMAIN by = Len(more) + 1 .. Len(all) /\ \A i \in DOMAIN by : by[i] = at[i] - 1
    BY <1>11
  <2>2. \A i \in DOMAIN by : by[i] \in 1 .. Len(t) /\ by[i] + 1 = at[i]
    BY <1>4, <1>12, <2>1
  <2>3. QED
    BY <1>4, <2>1, <2>2
<1>14. by \in [Len(more) + 1 .. Len(all) -> 1 .. Len(t)]
  BY <1>11, <1>13
<1>15. \A i \in DOMAIN by : ReplyOn(t[by[i]], u) /\ t[by[i]].cls = all[i]
  BY <1>1, <1>12, <1>13 DEF Placed
<1>16. \A i, j \in DOMAIN by : i < j => by[i] < by[j]
  BY <1>1, <1>12, <1>13 DEF Placed
<1>17. \A n \in 1 .. Len(t) : ReplyOn(t[n], u) => \E i \in DOMAIN by : by[i] = n
  <2>1. SUFFICES ASSUME NEW n \in 1 .. Len(t), ReplyOn(t[n], u) PROVE \E i \in DOMAIN by : by[i] = n
    OBVIOUS
  <2>2. n + 1 \in 1 .. Len(q) /\ ReplyOn(q[n + 1], u)
    BY <1>4, <2>1
  <2>3. PICK i \in DOMAIN at : at[i] = n + 1
    BY <1>1, <2>2 DEF Placed
  <2>4. i # f
    BY <1>7, <2>1, <2>3
  <2>5. i \in DOMAIN by
    BY <1>1, <1>5, <1>6, <1>8, <1>13, <2>3, <2>4
  <2>6. QED
    BY <1>13, <2>3, <2>5
<1>18. Len(more) <= Len(all)
  BY <1>5, <1>9
<1>19. Placed(by, more, all, t, u)
  BY <1>10, <1>14, <1>15, <1>16, <1>17, <1>18 DEF Placed
<1>20. QED
  BY <1>2, <1>3, <1>14, <1>19 DEF OnTheWay

\* When none is on its way, the results are all replies, and the other way round.
LEMMA WayEnd ==
    ASSUME NEW q \in Seq(Event), NEW u, \A n \in 1 .. Len(q) : ~ReplyOn(q[n], u)
    PROVE  /\ OnTheWay(<< >>, << >>, q, u)
           /\ \A res, all \in Seq(Replies) : OnTheWay(res, all, q, u) => res = all
<1>1. OnTheWay(<< >>, << >>, q, u)
  <2>1. PICK none : none = << >>
    OBVIOUS
  <2>2. Len(none) = 0 /\ 0 + 1 .. 0 = {}
    BY <2>1
  <2>3. PICK at : at = [i \in 0 + 1 .. 0 |-> i]
    OBVIOUS
  <2>4. at \in [0 + 1 .. 0 -> 1 .. Len(q)] /\ DOMAIN at = {}
    BY <2>2, <2>3
  <2>5. Placed(at, none, none, q, u)
    BY <2>2, <2>4 DEF Placed
  <2>6. QED
    BY <2>1, <2>2, <2>4, <2>5 DEF OnTheWay
<1>2. ASSUME NEW res \in Seq(Replies), NEW all \in Seq(Replies), OnTheWay(res, all, q, u)
      PROVE  res = all
  <2>1. PICK at \in [Len(res) + 1 .. Len(all) -> 1 .. Len(q)] : Placed(at, res, all, q, u)
    BY <1>2 DEF OnTheWay
  <2>2. /\ Len(res) \in Nat /\ Len(all) \in Nat /\ Len(res) <= Len(all)
        /\ \A i \in 1 .. Len(res) : res[i] = all[i]
    BY <2>1, LenProperties DEF Placed
  <2>3. \A i \in Len(res) + 1 .. Len(all) : FALSE
    BY <2>1 DEF Placed
  <2>4. Len(res) = Len(all)
    <3>1. SUFFICES ASSUME Len(res) < Len(all) PROVE FALSE
      BY <2>2
    <3>2. Len(all) \in Len(res) + 1 .. Len(all)
      BY <2>2, <3>1
    <3>3. QED
      BY <2>3, <3>2
  <2>5. QED
    BY <2>2, <2>4, SeqEqual
<1>3. QED
  BY <1>1, <1>2

-----------------------------------------------------------------------------
(***************************************************************************)
(* Requests, messages and answers.                                         *)
(***************************************************************************)

\* What is known of a state of the service, when no request expects features
\* replies.
Known == NoFeatures /\ Types /\ CoreInv /\ ObserversInv /\ RegInv /\ FlowInv

\* Nothing is on its way at first.
LEMMA FlowInit == Init => FlowInv
<1> SUFFICES ASSUME Init PROVE FlowInv
  OBVIOUS
<1>1. /\ evq = << >> /\ Len(evq) = 0 /\ \A c \in Conns : phase[c] = "none" /\ pending[c] = {}
      /\ \A u \in Clients : state[u] = "idle" /\ replied[u] = << >>
      /\ \A c \in Conns : sent[c] = << >> /\ Len(sent[c]) = 0
  BY DEF Init
<1>2. Queued = {}
  BY <1>1, EmptyQueue DEF Queued
<1>3. RequestLate
  BY <1>1, <1>2 DEF RequestLate, Behind
<1>4. PortsFirst /\ SentInv /\ AnswerInv /\ ResultsInv /\ InfoInv /\ AnswersExact
  BY <1>1 DEF PortsFirst, SentInv, SentOn, AnswerInv, AnswersIn, ResultsInv, InfoInv, AnswersExact
<1>5. FreshInv
  BY <1>1, <1>2 DEF FreshInv
<1>6. QED
  BY <1>3, <1>4, <1>5 DEF FlowInv

\* A request is behind the features reply of its connection, at every step.
LEMMA LateNext ==
    ASSUME Known, [Next]_vars
    PROVE  RequestLate'
<1>1. /\ evq \in Seq(Event) /\ req \in [Clients -> Asked] /\ DOMAIN phase = Conns
      /\ \A u \in Clients : req[u].conn \in Conns
      /\ \A u \in Clients : \A c : RequestEvent(u) # FeaturesEvent(c)
  BY RequestFacts, EventKinds DEF Known, Types, ServiceType, ClientType, ConnType
<1>2. \A u \in Clients : /\ Behind(evq, RequestEvent(u), FeaturesEvent(req[u].conn))
                         /\ u \in Queued => phase[req[u].conn] # "none"
  BY DEF Known, FlowInv, RequestLate
<1>3. ASSUME UNCHANGED req, \A c \in Conns : phase[c] # "none" => phase'[c] # "none",
             \A u \in Clients : Holds(evq', RequestEvent(u)) => Holds(evq, RequestEvent(u)),
             \A u \in Clients : Behind(evq', RequestEvent(u), FeaturesEvent(req[u].conn))
      PROVE  RequestLate'
  <2>1. \A u \in Queued' : u \in Queued
    BY <1>3 DEF Queued
  <2>2. QED
    BY <1>1, <1>2, <1>3, <2>1 DEF RequestLate, Queued
<1>4. ASSUME NEW e \in Event, Put(e), \A u : e # RequestEvent(u), UNCHANGED req,
             \A c \in Conns : phase[c] # "none" => phase'[c] # "none",
             \A c \in Conns : e = FeaturesEvent(c) => phase[c] = "none"
      PROVE  RequestLate'
  <2>1. ASSUME NEW u \in Clients
        PROVE  /\ Behind(evq', RequestEvent(u), FeaturesEvent(req[u].conn))
               /\ Holds(evq', RequestEvent(u)) => Holds(evq, RequestEvent(u))
    <3>1. CASE evq' = evq
      BY <1>2, <3>1
    <3>2. CASE evq' = Append(evq, e)
      <4>1. e = FeaturesEvent(req[u].conn) => ~Holds(evq, RequestEvent(u))
        BY <1>1, <1>2, <1>4 DEF Queued
      <4>2. Behind(evq', RequestEvent(u), FeaturesEvent(req[u].conn))
        BY <1>1, <1>2, <3>2, <4>1, BehindFacts
      <4>3. Holds(evq', RequestEvent(u)) => Holds(evq, RequestEvent(u))
        BY <1>1, <1>4, <3>2, PutFacts
      <4>4. QED
        BY <4>2, <4>3
    <3>3. QED
      BY <1>4, <3>1, <3>2 DEF Put
  <2>2. QED
    BY <1>3, <1>4, <2>1
<1>5. ASSUME Take, UNCHANGED <<phase, req>> PROVE RequestLate'
  <2>1. evq # << >> /\ evq' = Tail(evq)
    BY <1>5 DEF Take
  <2>2. \A u \in Clients : Behind(evq', RequestEvent(u), FeaturesEvent(req[u].conn))
    BY <1>1, <1>2, <2>1, BehindFacts
  <2>3. \A u \in Clients : Holds(evq', RequestEvent(u)) => Holds(evq, RequestEvent(u))
    BY <1>1, <2>1, TakeFacts
  <2>4. QED
    BY <1>3, <1>5, <2>2, <2>3
<1> USE DEF connVars, serviceVars, clientVars
<1>6. CASE UNCHANGED vars
  BY <1>2, <1>3, <1>6 DEF vars
<1>7. ASSUME NEW c \in Conns, Features(c) PROVE RequestLate'
  <2>1. Put(FeaturesEvent(c)) /\ FeaturesEvent(c) \in Event
    BY <1>7, TypesFeatures, EventFacts DEF Known
  <2>2. phase[c] = "none" /\ UNCHANGED req /\ \A b \in Conns : phase[b] # "none" => phase'[b] # "none"
    BY <1>1, <1>7 DEF Features
  <2>3. \A b : FeaturesEvent(c) = FeaturesEvent(b) => b = c
    BY EventKinds
  <2>4. QED
    BY <1>1, <1>4, <2>1, <2>2, <2>3, EventKinds
<1>8. ASSUME NEW c \in Conns, SwitchReplies(c) \/ SwitchError(c) \/ SwitchBarrier(c) PROVE RequestLate'
  <2>1. PICK a \in Answer : Put(a)
    BY <1>8, RepliesFacts, ErrorFacts, BarrierFacts DEF Known
  <2>2. UNCHANGED <<phase, req>>
    BY <1>8 DEF SwitchReplies, SwitchError, SwitchBarrier
  <2>3. a \in Event /\ (\A u : a # RequestEvent(u)) /\ \A b : a # FeaturesEvent(b)
    BY EventKinds, EventFacts DEF Known, NoFeatures
  <2>4. QED
    BY <1>4, <2>1, <2>2, <2>3
<1>9. ASSUME NEW c \in Conns, PortDesc(c) \/ SwitchDone(c) PROVE RequestLate'
  <2>1. UNCHANGED <<evq, req>> /\ \A b \in Conns : phase[b] # "none" => phase'[b] # "none"
    BY <1>1, <1>9 DEF PortDesc, SwitchDone
  <2>2. QED
    BY <1>2, <1>3, <2>1
<1>10. ASSUME NEW c \in Conns, Die(c) PROVE RequestLate'
  <2>1. Put(DeadEvent(c)) /\ DeadEvent(c) \in Event
    BY <1>10, DieFacts, EventFacts DEF Known
  <2>2. UNCHANGED req /\ \A b \in Conns : phase[b] # "none" => phase'[b] # "none"
    BY <1>1, <1>10 DEF Die
  <2>3. QED
    BY <1>4, <2>1, <2>2, EventKinds
<1>11. ASSUME NEW u \in Clients, NEW r \in Asked, SendMsg(u, r) PROVE RequestLate'
  <2>1. /\ evq' = Append(evq, RequestEvent(u)) /\ RequestEvent(u) \in Event
        /\ req' = [req EXCEPT ![u] = r] /\ phase[r.conn] # "none" /\ UNCHANGED phase
        /\ state[u] # "waiting"
    BY <1>11, SendMsgFacts, EventFacts DEF SendMsg, Known
  <2>2. ~Holds(evq, RequestEvent(u))
    BY <2>1 DEF Known, CoreInv, ClientInv, Queued
  <2>3. ASSUME NEW v \in Clients
        PROVE  /\ Behind(evq', RequestEvent(v), FeaturesEvent(req'[v].conn))
               /\ Holds(evq', RequestEvent(v)) => phase'[req'[v].conn] # "none"
    <3>1. CASE v = u
      <4>1. req'[v] = r /\ Behind(evq, RequestEvent(v), FeaturesEvent(r.conn))
        BY <1>1, <2>1, <2>2, <3>1 DEF Behind, Holds
      <4>2. RequestEvent(u) # FeaturesEvent(r.conn)
        BY EventKinds
      <4>3. QED
        BY <1>1, <2>1, <3>1, <4>1, <4>2, BehindFacts
    <3>2. CASE v # u
      <4>1. req'[v] = req[v] /\ RequestEvent(v) # RequestEvent(u)
        BY <2>1, <3>2, <1>1, EventKinds
      <4>2. RequestEvent(u) # FeaturesEvent(req[v].conn)
        BY EventKinds
      <4>3. Behind(evq', RequestEvent(v), FeaturesEvent(req[v].conn))
        BY <1>1, <1>2, <2>1, <4>2, BehindFacts
      <4>4. Holds(evq', RequestEvent(v)) => Holds(evq, RequestEvent(v))
        BY <1>1, <2>1, <4>1, PutFacts
      <4>5. QED
        BY <1>2, <2>1, <4>1, <4>3, <4>4 DEF Queued
    <3>3. QED
      BY <3>1, <3>2
  <2>4. QED
    BY <2>3 DEF RequestLate, Queued
<1>12. CASE HandleFeatures
  <2>1. PICK c \in Conns :
           /\ Head(evq) = FeaturesEvent(c) /\ evq # << >>
           /\ \/ \E b \in Conns : Replaces(c, b)
              \/ evq' = Tail(evq) /\ UNCHANGED phase
    BY <1>12, FeaturesHandled DEF Known
  <2>2. UNCHANGED req
    BY <1>12 DEF HandleFeatures
  <2>3. CASE evq' = Tail(evq) /\ UNCHANGED phase
    BY <1>5, <2>1, <2>2, <2>3 DEF Take
  <2>4. ASSUME NEW b \in Conns, Replaces(c, b) PROVE RequestLate'
    <3>1. PICK q \in Seq(Event) : q = Tail(evq)
      BY <1>1, <2>1, TakeFacts
    <3>2. \A u \in Clients : /\ Behind(q, RequestEvent(u), FeaturesEvent(req[u].conn))
                             /\ Holds(q, RequestEvent(u)) => Holds(evq, RequestEvent(u))
      BY <1>1, <1>2, <2>1, <3>1, BehindFacts, TakeFacts
    <3>3. evq' = Append(q, DeadEvent(b)) /\ DeadEvent(b) \in Event
      BY <2>4, <3>1, EventFacts DEF Replaces
    <3>4. \A u \in Clients : DeadEvent(b) # FeaturesEvent(req[u].conn) /\ DeadEvent(b) # RequestEvent(u)
      BY EventKinds
    <3>5. \A u \in Clients : Behind(evq', RequestEvent(u), FeaturesEvent(req[u].conn))
      BY <1>1, <3>2, <3>3, <3>4, BehindFacts
    <3>6. \A u \in Clients : Holds(evq', RequestEvent(u)) => Holds(evq, RequestEvent(u))
      BY <3>2, <3>3, <3>4, PutFacts
    <3>7. \A a \in Conns : phase[a] # "none" => phase'[a] # "none"
      BY <1>1, <2>4 DEF Replaces
    <3>8. QED
      BY <1>3, <2>2, <3>5, <3>6, <3>7
  <2>5. QED
    BY <2>1, <2>3, <2>4
<1>13. CASE HandleDead \/ RefuseSend \/ HandleSend \/ HandleBarrier \/ HandleReply
  <2>1. Take
    BY <1>13, HandleDeadFacts, RefuseSendFacts, HandleSendFacts, HandleBarrierFacts, HandleReplyFacts
       DEF Known
  <2>2. UNCHANGED <<phase, req>>
    BY <1>13 DEF HandleDead, RefuseSend, HandleSend, HandleBarrier, HandleReply
  <2>3. QED
    BY <1>5, <2>1, <2>2
<1>14. QED
  BY <1>6, <1>7, <1>8, <1>9, <1>10, <1>11, <1>12, <1>13 DEF Next, Service, SwitchStep

\* A request for a live connection goes to the info of that connection.
LEMMA TargetFacts ==
    ASSUME Known, Take, NEW u \in Clients, Sends(u)
    PROVE  /\ InfoOf(u) \in Conns /\ Registered(InfoOf(u)) /\ phase[InfoOf(u)] # "none"
           /\ ~Holds(evq, FeaturesEvent(InfoOf(u)))
           /\ phase[req[u].conn] # "dead" => InfoOf(u) = req[u].conn
<1>1. InfoOf(u) \in Conns /\ req[u].conn \in Conns
  BY SendTypes DEF Sends, Known
<1>2. Registered(InfoOf(u))
  BY DEF Sends, InfoOf, Registered, Known, Types, ServiceType
<1>3. phase[InfoOf(u)] # "none" /\ ~Holds(evq, FeaturesEvent(InfoOf(u)))
  BY <1>1, <1>2 DEF Known, RegInv
<1>4. ASSUME phase[req[u].conn] # "dead" PROVE InfoOf(u) = req[u].conn
  <2>1. evq \in Seq(Event) /\ evq # << >> /\ Head(evq) = RequestEvent(u)
    BY DEF Known, Types, ServiceType, Take, Sends
  <2>2. u \in Queued
    BY <2>1, TakeFacts DEF Queued
  <2>3. /\ phase[req[u].conn] # "none"
        /\ Behind(evq, RequestEvent(u), FeaturesEvent(req[u].conn))
    BY <2>2 DEF Known, FlowInv, RequestLate
  <2>4. RequestEvent(u) # FeaturesEvent(req[u].conn)
    BY EventKinds
  <2>5. ~Holds(evq, FeaturesEvent(req[u].conn))
    BY <2>1, <2>3, <2>4, BehindFacts
  <2>6. phase[req[u].conn] \in {"config", "main"}
    BY <1>1, <1>4, <2>3 DEF Known, Types, ConnType
  <2>7. Registered(req[u].conn)
    BY <1>1, <2>5, <2>6 DEF Known, RegInv
  <2>8. QED
    BY <2>7 DEF Registered, InfoOf
<1>5. QED
  BY <1>1, <1>2, <1>3, <1>4

\* A switch works on requests in the main phase only.
LEMMA MainPhase ==
    ASSUME Known, NEW c \in Conns, NEW type \in {"request", "barrier"}, Serving(c, type)
    PROVE  phase[c] = "main"
BY DEF Known, FlowInv, PortsFirst, Serving

\* The ports are asked for first, at every step.
LEMMA PortsNext ==
    ASSUME Known, [Next]_vars
    PROVE  PortsFirst'
<1>1. /\ sent \in [Conns -> Seq(Message)] /\ DOMAIN phase = Conns
      /\ \A c \in Conns : phase[c] = "config" => sent[c] # << >> /\ Head(sent[c]).type = "ports"
  BY DEF Known, Types, ConnType, FlowInv, PortsFirst
<1> USE DEF connVars, serviceVars, clientVars
<1>2. ASSUME UNCHANGED <<phase, sent>> PROVE PortsFirst'
  BY <1>1, <1>2 DEF PortsFirst
<1>3. ASSUME NEW b \in Conns, \A c \in Conns : c # b => phase'[c] = phase[c] /\ sent'[c] = sent[c],
             phase'[b] # "config"
      PROVE  PortsFirst'
  BY <1>1, <1>3 DEF PortsFirst
<1>4. ASSUME NEW c \in Conns, Features(c) PROVE PortsFirst'
  <2>1. CASE c \in Modern
    <3>1. /\ sent' = [sent EXCEPT ![c] = <<[type |-> "ports"]>>]
          /\ \A b \in Conns : b # c => phase'[b] = phase[b]
      BY <1>1, <1>4, <2>1 DEF Features
    <3>2. sent'[c] # << >> /\ Head(sent'[c]).type = "ports"
      BY <1>1, <3>1
    <3>3. \A b \in Conns : b # c => sent'[b] = sent[b]
      BY <1>1, <3>1
    <3>4. QED
      BY <1>1, <3>1, <3>2, <3>3 DEF PortsFirst
  <2>2. CASE c \notin Modern
    BY <1>1, <1>3, <1>4, <2>2 DEF Features
  <2>3. QED
    BY <2>1, <2>2
<1>5. ASSUME NEW c \in Conns, PortDesc(c) \/ Die(c) PROVE PortsFirst'
  BY <1>1, <1>3, <1>5 DEF PortDesc, Die
<1>6. ASSUME NEW c \in Conns, SwitchError(c) \/ SwitchDone(c) \/ SwitchBarrier(c) PROVE PortsFirst'
  <2>1. phase[c] = "main"
    BY <1>6, MainPhase DEF SwitchError, SwitchDone, SwitchBarrier
  <2>2. UNCHANGED phase /\ sent' = [sent EXCEPT ![c] = Tail(@)]
    BY <1>6 DEF SwitchError, SwitchDone, SwitchBarrier
  <2>3. QED
    BY <1>1, <1>3, <2>1, <2>2
<1>7. CASE HandleFeatures
  <2>1. CASE UNCHANGED <<phase, sent>>
    BY <1>2, <2>1
  <2>2. ASSUME NEW c \in Conns, NEW b \in Conns, Replaces(c, b) PROVE PortsFirst'
    BY <1>1, <1>3, <2>2 DEF Replaces
  <2>3. QED
    BY <1>7, <2>1, <2>2, FeaturesHandled DEF Known
<1>8. CASE HandleSend
  <2>1. PICK u \in Clients : Take /\ Sends(u)
    BY <1>8, HandleSendFacts DEF Known
  <2>2. req[u].conn \in Conns /\ MessagesOf(u) \in Seq(Message)
    BY <2>1, SendTypes DEF Sends, Known
  <2>3. PICK c \in Conns, new \in Seq(Message) : c = req[u].conn /\ new = MessagesOf(u)
    BY <2>2
  <2>4. UNCHANGED phase /\ (sent' = sent \/ sent' = [sent EXCEPT ![c] = @ \o new])
    BY <2>1, <2>3 DEF Sends
  <2>5. CASE sent' = sent
    BY <1>2, <2>4, <2>5
  <2>6. CASE sent' = [sent EXCEPT ![c] = @ \o new]
    <3>1. PICK s \in Seq(Message) : s = sent[c]
      BY <1>1
    <3>2. s # << >> => s \o new # << >> /\ Head(s \o new) = Head(s)
      <4>1. /\ Len(s \o new) = Len(s) + Len(new) /\ Len(s) \in Nat /\ Len(new) \in Nat
            /\ s \o new \in Seq(Message)
            /\ \A i \in 1 .. Len(s) : (s \o new)[i] = s[i]
        BY ConcatProperties, LenProperties
      <4>2. SUFFICES ASSUME s # << >> PROVE s \o new # << >> /\ Head(s \o new) = Head(s)
        OBVIOUS
      <4>3. Len(s) > 0 /\ Head(s) = s[1]
        BY <4>2, HeadTailProperties, EmptySeq
      <4>4. PICK w \in Seq(Message) : w = s \o new
        BY <4>1
      <4>5. Len(w) > 0 /\ w[1] = s[1]
        BY <4>1, <4>3, <4>4
      <4>6. w # << >> /\ Head(w) = w[1]
        BY <4>5, HeadTailProperties, EmptySeq
      <4>7. QED
        BY <4>3, <4>4, <4>5, <4>6
    <3>3. \A b \in Conns : sent'[b] = IF b = c THEN s \o new ELSE sent[b]
      BY <1>1, <2>6, <3>1
    <3>4. QED
      BY <1>1, <2>4, <3>1, <3>2, <3>3 DEF PortsFirst
  <2>7. QED
    BY <2>4, <2>5, <2>6
<1>9. QED
  BY <1>2, <1>4, <1>5, <1>6, <1>7, <1>8 DEF Next, Service, SwitchStep, vars, SwitchReplies, SendMsg,
     HandleDead, RefuseSend, HandleBarrier, HandleReply

(***************************************************************************)
(* Entries and what belongs to them.                                       *)
(***************************************************************************)

\* The request of client u, and its entry, stay what they are, but for the results.
Keeps(u) ==
    /\ req'[u] = req[u]
    /\ \A c \in Conns : \A p \in pending[c] : p.client = u =>
          \E r \in pending'[c] : /\ r.client = u /\ r.xid = p.xid /\ r.barrier = p.barrier
                                 /\ r.cls = p.cls

NoEntry(u) == \A c \in Conns : \A p \in pending[c] : p.client # u

\* No answer to client u is in the queue.
Unheard(u) == \A n \in 1 .. Len(evq) : ~AnswerOn(evq[n], u)

\* Without an entry there is nothing on its way.
LEMMA NoEntryFacts ==
    ASSUME Known, NEW u \in Clients, NoEntry(u)
    PROVE  Silent(u) /\ Unheard(u)
<1>1. Silent(u)
  BY DEF Known, FlowInv, SentInv, SentOn, NoEntry, Silent
<1>2. req[u].conn \in Conns
  BY RequestFacts DEF Known, Types, ClientType
<1>3. Unheard(u)
  BY <1>2 DEF Known, FlowInv, AnswerInv, AnswersIn, NoEntry, Unheard
<1>4. QED
  BY <1>1, <1>3

\* The answers of a switch are about a client, and are answers.
LEMMA AnswerOnFacts ==
    ASSUME NoFeatures
    PROVE  /\ \A a \in Answer : a.about \in Clients /\ AnswerOn(a, a.about)
           /\ \A a \in Answer : \A u : AnswerOn(a, u) => u = a.about
           /\ \A a \in Answer : a.cls \in Replies => ReplyOn(a, a.about)
           /\ \A a \in Answer : a.cls = "barrier" => \A u : ~ReplyOn(a, u)
           /\ \A c : \A u : /\ ~AnswerOn(FeaturesEvent(c), u) /\ ~AnswerOn(DeadEvent(c), u)
                            /\ ~AnswerOn(RequestEvent(c), u)
           /\ \A e, u : ReplyOn(e, u) => AnswerOn(e, u)
<1>1. \A a \in Answer : /\ a.type = "msg" /\ a.about \in Clients
                        /\ a.cls \in Replies \cup {"barrier"} /\ a.cls # "features"
  BY EventFacts, EventKinds DEF NoFeatures
<1>2. "barrier" \notin Replies
  BY OfctlAssumption DEF Replies
<1>3. \A x : /\ FeaturesEvent(x).cls = "features" /\ DeadEvent(x).type = "dead"
             /\ RequestEvent(x).type = "request"
  BY DEF FeaturesEvent, DeadEvent, RequestEvent
<1>4. QED
  BY <1>1, <1>2, <1>3 DEF AnswerOn, ReplyOn

\* A barrier reply that ends a request is the last answer to it, and belongs
\* to an entry of the registered connection.
LEMMA BarrierEntry ==
    ASSUME Known, HandleBarrier, NEW i \in Conns, NEW p \in pending[i], p \in InfoEntry,
           IdOf[Head(evq).conn] \in DOMAIN switches, i = switches[IdOf[Head(evq).conn]],
           p.barrier = Head(evq).xid
    PROVE  /\ p.client \in Clients /\ p.client = Head(evq).about
           /\ req[p.client].conn = i /\ Registered(i)
           /\ Silent(p.client) /\ \A n \in 1 .. Len(evq) : n > 1 => ~AnswerOn(evq[n], p.client)
<1>1. /\ evq \in Seq(Event) /\ evq # << >> /\ Head(evq) \in Answer /\ Head(evq).cls = "barrier"
  BY HandleBarrierFacts DEF Known, Types, ServiceType, Take
<1>2. PICK u \in Clients : u = Head(evq).about /\ AnswerOn(Head(evq), u)
  BY <1>1, AnswerOnFacts DEF Known
<1>3. 1 \in 1 .. Len(evq) /\ Head(evq) = evq[1]
  BY <1>1, HeadTailProperties, LenProperties
<1>4. /\ Head(evq).conn = req[u].conn
      /\ \E r \in pending[req[u].conn] : r.client = u /\ Reports(Head(evq), r)
      /\ Silent(u) /\ \A j \in 1 .. Len(evq) : j > 1 => ~AnswerOn(evq[j], u)
  BY <1>1, <1>2, <1>3 DEF Known, FlowInv, AnswerInv, AnswersIn
<1>5. PICK r \in pending[req[u].conn] : r.client = u /\ r.barrier = Head(evq).xid
  BY <1>1, <1>4 DEF Reports
<1>6. req[u].conn \in Conns
  BY RequestFacts DEF Known, Types, ClientType
<1>7. p \in Infos /\ r \in Infos
  BY <1>5, <1>6, InfosFacts
<1>8. p = r
  <2>1. p.barrier \in XidsOf(p) /\ p.barrier \in XidsOf(r)
    BY <1>5 DEF XidsOf
  <2>2. QED
    BY <1>7, <2>1 DEF Known, CoreInv, XidInv
<1>9. i = req[u].conn
  BY <1>5, <1>6, <1>8 DEF Known, CoreInv, ClientInv
<1>10. Registered(i)
  BY <1>4, <1>9 DEF Registered
<1>11. QED
  BY <1>2, <1>4, <1>5, <1>8, <1>9, <1>10

\* The request of a client keeps its entry, or nothing about it is on its way.
LEMMA KeepsNext ==
    ASSUME Known, [Next]_vars, NEW u \in Clients
    PROVE  \/ Keeps(u)
           \/ /\ Silent(u)
              /\ \/ Unheard(u) /\ \E e \in Event : Put(e) /\ \A v : ~AnswerOn(e, v)
                 \/ Take /\ \A n \in 1 .. Len(evq) : n > 1 => ~AnswerOn(evq[n], u)
<1> USE DEF connVars, serviceVars, clientVars
<1>1. /\ pending \in [Conns -> SUBSET InfoEntry] /\ req \in [Clients -> Asked]
  BY DEF Known, Types, ServiceType, ClientType
<1>2. ASSUME UNCHANGED <<req, pending>> PROVE Keeps(u)
  BY <1>2 DEF Keeps
<1>3. ASSUME NEW v \in Clients, NEW r \in Asked, SendMsg(v, r)
      PROVE  \/ Keeps(u)
             \/ Silent(u) /\ Unheard(u) /\ \E e \in Event : Put(e) /\ \A w : ~AnswerOn(e, w)
  <2>1. /\ state[v] # "waiting" /\ req' = [req EXCEPT ![v] = r] /\ pending' = pending
        /\ Put(RequestEvent(v)) /\ RequestEvent(v) \in Event
    BY <1>3, SendMsgFacts, EventFacts DEF SendMsg, Known
  <2>2. CASE u # v
    BY <1>1, <2>1, <2>2 DEF Keeps
  <2>3. CASE u = v
    <3>1. NoEntry(u)
      BY <2>1, <2>3 DEF Known, CoreInv, ClientInv, NoEntry
    <3>2. QED
      BY <2>1, <3>1, NoEntryFacts, AnswerOnFacts DEF Known
  <2>4. QED
    BY <2>2, <2>3
<1>4. ASSUME HandleSend PROVE Keeps(u)
  <2>1. PICK v \in Clients : Sends(v) /\ InfoOf(v) \in Conns
    BY <1>4, HandleSendFacts, SendTypes DEF Known, Sends
  <2>2. req' = req /\ \A c \in Conns : pending[c] \subseteq pending'[c]
    BY <1>1, <2>1 DEF Sends
  <2>3. QED
    BY <2>2 DEF Keeps
<1>5. ASSUME HandleReply PROVE Keeps(u)
  <2>1. PICK e : e = Head(evq)
    OBVIOUS
  <2>2. /\ pending' = [c \in Conns |-> {Extended(p, e) : p \in pending[c]}] /\ req' = req
        /\ \A p \in InfoEntry : LET q == Extended(p, e)
                                IN  /\ q.client = p.client /\ q.cls = p.cls
                                    /\ q.xid = p.xid /\ q.barrier = p.barrier
    BY <1>5, <2>1, HandleReplyFacts DEF Known
  <2>3. ASSUME NEW c \in Conns, NEW p \in pending[c], p.client = u
        PROVE  \E r \in pending'[c] : /\ r.client = u /\ r.xid = p.xid /\ r.barrier = p.barrier
                                      /\ r.cls = p.cls
    <3>1. Extended(p, e) \in pending'[c] /\ p \in InfoEntry
      BY <1>1, <2>2
    <3>2. QED
      BY <2>2, <2>3, <3>1
  <2>4. QED
    BY <2>2, <2>3 DEF Keeps
<1>6. ASSUME HandleBarrier
      PROVE  \/ Keeps(u)
             \/ Silent(u) /\ Take /\ \A n \in 1 .. Len(evq) : n > 1 => ~AnswerOn(evq[n], u)
  <2>1. CASE Ignores
    BY <1>2, <2>1 DEF Ignores
  <2>2. ASSUME NEW i \in Conns, NEW p \in pending[i], p \in InfoEntry, Ends(i, p),
               IdOf[Head(evq).conn] \in DOMAIN switches, i = switches[IdOf[Head(evq).conn]],
               p.barrier = Head(evq).xid
        PROVE  \/ Keeps(u)
               \/ Silent(u) /\ Take /\ \A n \in 1 .. Len(evq) : n > 1 => ~AnswerOn(evq[n], u)
    <3>1. CASE u = p.client
      BY <1>6, <2>2, <3>1, BarrierEntry, HandleBarrierFacts DEF Known
    <3>2. CASE u # p.client
      <4>1. req' = req /\ pending' = [pending EXCEPT ![i] = @ \ {p}]
        BY <2>2 DEF Ends
      <4>2. \A c \in Conns : \A r \in pending[c] : r.client = u => r \in pending'[c]
        BY <1>1, <3>2, <4>1
      <4>3. QED
        BY <4>1, <4>2 DEF Keeps
    <3>3. QED
      BY <3>1, <3>2
  <2>3. QED
    BY <1>6, <2>1, <2>2, HandleBarrierFacts DEF Known
<1>7. QED
  BY <1>2, <1>3, <1>4, <1>5, <1>6 DEF Next, Service, SwitchStep, vars, Features, PortDesc,
     SwitchReplies, SwitchError, SwitchDone, SwitchBarrier, Die, HandleFeatures, HandleDead,
     RefuseSend

\* What happens to the messages to a switch.
Shrinks(q, s) ==
    \/ q = s \/ (s # << >> /\ q = Tail(s)) \/ q = << >> \/ q = <<PortsMessage>>

Grows(c, u) ==
    /\ Take /\ Sends(u) /\ Stores(u) /\ c = req[u].conn /\ InfoOf(u) = c
    /\ sent'[c] = sent[c] \o MessagesOf(u)

\* The messages to a switch grow by those of one request, or shrink.
LEMMA SentChange ==
    ASSUME Known, [Next]_vars, NEW c \in Conns
    PROVE  Shrinks(sent'[c], sent[c]) \/ \E u \in Clients : Grows(c, u)
<1>1. sent \in [Conns -> Seq(Message)]
  BY DEF Known, Types, ConnType
<1> USE DEF connVars, serviceVars, clientVars
<1>2. ASSUME NEW b \in Conns, Features(b) PROVE Shrinks(sent'[c], sent[c])
  BY <1>1, <1>2 DEF Features, Shrinks, PortsMessage
<1>3. ASSUME NEW b \in Conns, PortDesc(b) \/ SwitchError(b) \/ SwitchDone(b) \/ SwitchBarrier(b)
      PROVE  Shrinks(sent'[c], sent[c])
  <2>1. sent[b] # << >> /\ sent' = [sent EXCEPT ![b] = Tail(@)]
    BY <1>3 DEF PortDesc, SwitchError, SwitchDone, SwitchBarrier, Serving
  <2>2. QED
    BY <1>1, <2>1 DEF Shrinks
<1>4. ASSUME NEW b \in Conns, Die(b) PROVE Shrinks(sent'[c], sent[c])
  BY <1>1, <1>4 DEF Die, Shrinks
<1>5. ASSUME HandleFeatures PROVE Shrinks(sent'[c], sent[c])
  <2>1. CASE sent' = sent
    BY <2>1 DEF Shrinks
  <2>2. ASSUME NEW a, NEW b \in Conns, Replaces(a, b) PROVE Shrinks(sent'[c], sent[c])
    BY <1>1, <2>2 DEF Replaces, Shrinks
  <2>3. QED
    BY <1>5, <2>1, <2>2, FeaturesHandled DEF Known
<1>6. ASSUME HandleSend PROVE Shrinks(sent'[c], sent[c]) \/ \E u \in Clients : Grows(c, u)
  <2>1. PICK u \in Clients : Take /\ Sends(u)
    BY <1>6, HandleSendFacts DEF Known
  <2>2. req[u].conn \in Conns
    BY <2>1, SendTypes DEF Known, Sends
  <2>3. CASE Stores(u) /\ phase[req[u].conn] # "dead" /\ c = req[u].conn
    BY <1>1, <2>1, <2>3, TargetFacts DEF Grows, Sends
  <2>4. CASE ~(Stores(u) /\ phase[req[u].conn] # "dead" /\ c = req[u].conn)
    BY <1>1, <2>1, <2>2, <2>4 DEF Shrinks, Sends
  <2>5. QED
    BY <2>3, <2>4
<1>7. ASSUME UNCHANGED sent PROVE Shrinks(sent'[c], sent[c])
  BY <1>7 DEF Shrinks
<1>8. QED
  BY <1>2, <1>3, <1>4, <1>5, <1>6, <1>7 DEF Next, Service, SwitchStep, vars, SwitchReplies, SendMsg,
     HandleDead, RefuseSend, HandleBarrier, HandleReply

\* Messages that remain were there before, in this order.
LEMMA ShrinkFacts ==
    ASSUME NEW s \in Seq(Message), NEW q, Shrinks(q, s)
    PROVE  /\ q \in Seq(Message) /\ Len(q) \in Nat
           /\ \/ \A i \in 1 .. Len(q) : \A u : ~MessageOn(q[i], u)
              \/ \E k \in {0, 1} : \A i \in 1 .. Len(q) : i + k \in 1 .. Len(s) /\ q[i] = s[i + k]
<1>1. CASE q = s
  <2>1. Len(s) \in Nat /\ \A i \in 1 .. Len(q) : i + 0 \in 1 .. Len(s) /\ q[i] = s[i + 0]
    BY <1>1, LenProperties
  <2>2. QED
    BY <1>1, <2>1
<1>2. CASE s # << >> /\ q = Tail(s)
  <2>1. /\ q \in Seq(Message) /\ Len(q) = Len(s) - 1 /\ Len(s) \in Nat /\ Len(s) > 0
        /\ \A i \in 1 .. Len(q) : q[i] = s[i + 1]
    BY <1>2, HeadTailProperties, LenProperties
  <2>2. Len(q) \in Nat /\ \A i \in 1 .. Len(q) : i + 1 \in 1 .. Len(s)
    BY <2>1
  <2>3. QED
    BY <2>1, <2>2
<1>3. CASE q = << >>
  BY <1>3, EmptySeq
<1>4. CASE q = <<PortsMessage>>
  <2>1. PortsMessage \in Message /\ PortsMessage.type = "ports"
    BY MessageFacts DEF PortsMessage
  <2>2. q \in Seq(Message) /\ Len(q) = 1 /\ q[1] = PortsMessage
    BY <1>4, <2>1
  <2>3. QED
    BY <2>1, <2>2 DEF MessageOn
<1>5. QED
  BY <1>1, <1>2, <1>3, <1>4 DEF Shrinks

\* The messages to a switch, when its entries are kept.
LEMMA SentMove ==
    ASSUME NEW c \in Conns, NEW q, SentOn(c, q),
           \A u \in Clients : (\E i \in 1 .. Len(q) : MessageOn(q[i], u)) => Keeps(u)
    PROVE  SentOn(c, q)'
<1>1. SUFFICES ASSUME NEW i \in 1 .. Len(q), NEW u \in Clients, MessageOn(q[i], u)
               PROVE  /\ req'[u].conn = c
                      /\ \E p \in pending'[c] : p.client = u /\ Carries(q[i], p)'
                      /\ q[i].type = "barrier" =>
                            \A j \in 1 .. Len(q) : j > i => ~MessageOn(q[j], u)
  BY DEF SentOn, MessageOn
<1>2. /\ req[u].conn = c
      /\ \E p \in pending[c] : p.client = u /\ Carries(q[i], p)
      /\ q[i].type = "barrier" => \A j \in 1 .. Len(q) : j > i => ~MessageOn(q[j], u)
  BY <1>1 DEF SentOn
<1>3. Keeps(u)
  BY <1>1
<1>4. PICK p \in pending[c] : p.client = u /\ Carries(q[i], p)
  BY <1>2
<1>5. PICK r \in pending'[c] : r.client = u /\ r.xid = p.xid /\ r.barrier = p.barrier /\ r.cls = p.cls
  BY <1>3, <1>4 DEF Keeps
<1>6. Carries(q[i], r)'
  BY <1>3, <1>4, <1>5 DEF Carries, Keeps
<1>7. QED
  BY <1>2, <1>3, <1>5, <1>6 DEF Keeps

\* The messages to a switch, at every step.
LEMMA SentNext ==
    ASSUME Known, [Next]_vars
    PROVE  SentInv'
<1>1. \A u \in Clients : Keeps(u) \/ Silent(u)
  BY KeepsNext
<1>2. SUFFICES ASSUME NEW c \in Conns PROVE SentOn(c, sent[c])'
  BY DEF SentInv
<1>3. PICK s \in Seq(Message) : s = sent[c]
  BY DEF Known, Types, ConnType
<1>4. PICK q : q = sent'[c]
  OBVIOUS
<1>5. SentOn(c, s) /\ \A u \in Clients : Silent(u) => \A j \in 1 .. Len(s) : ~MessageOn(s[j], u)
  BY <1>3 DEF Known, FlowInv, SentInv, Silent
<1>6. ASSUME Shrinks(q, s) PROVE SentOn(c, q)'
  <2>1. CASE \A i \in 1 .. Len(q) : \A u : ~MessageOn(q[i], u)
    BY <2>1 DEF SentOn, MessageOn
  <2>2. ASSUME NEW k \in {0, 1}, \A i \in 1 .. Len(q) : i + k \in 1 .. Len(s) /\ q[i] = s[i + k]
        PROVE  SentOn(c, q)'
    <3>1. SentOn(c, q)
      <4>1. SUFFICES ASSUME NEW i \in 1 .. Len(q), NEW u \in Clients, MessageOn(q[i], u)
                     PROVE  /\ req[u].conn = c
                            /\ \E p \in pending[c] : p.client = u /\ Carries(q[i], p)
                            /\ q[i].type = "barrier" =>
                                  \A j \in 1 .. Len(q) : j > i => ~MessageOn(q[j], u)
        BY DEF SentOn
      <4>2. i + k \in 1 .. Len(s) /\ q[i] = s[i + k]
        BY <2>2
      <4>3. /\ req[u].conn = c
            /\ \E p \in pending[c] : p.client = u /\ Carries(q[i], p)
            /\ q[i].type = "barrier" => \A j \in 1 .. Len(s) : j > i + k => ~MessageOn(s[j], u)
        BY <1>5, <4>1, <4>2 DEF SentOn
      <4>4. \A j \in 1 .. Len(q) : j > i => j + k \in 1 .. Len(s) /\ j + k > i + k /\ q[j] = s[j + k]
        BY <2>2
      <4>5. QED
        BY <4>3, <4>4
    <3>2. \A u \in Clients : (\E i \in 1 .. Len(q) : MessageOn(q[i], u)) => Keeps(u)
      BY <1>1, <1>5, <2>2
    <3>3. QED
      BY <3>1, <3>2, SentMove
  <2>3. QED
    BY <1>6, <2>1, <2>2, ShrinkFacts
<1>7. ASSUME NEW u \in Clients, Grows(c, u) PROVE SentOn(c, q)'
  <2>1. /\ req[u] \in Asked /\ FirstXid(u) \in Nat /\ LastXid(u) \in Nat /\ EntryOf(u) \in InfoEntry
    BY <1>7, SendTypes DEF Known, Sends, Grows
  <2>16. PICK m : m = [type |-> "request", xid |-> FirstXid(u), about |-> u, cls |-> req[u].cls]
    OBVIOUS
  <2>17. PICK e : e = [type |-> "barrier", xid |-> LastXid(u), about |-> u]
    OBVIOUS
  <2>2. PICK new \in Seq(Message) :
           /\ new = MessagesOf(u)
           /\ req[u].kind = "barrier" => Len(new) = 1 /\ new[1] = e
           /\ req[u].kind # "barrier" => Len(new) = 2 /\ new[1] = m /\ new[2] = e
    BY <2>1, <2>16, <2>17, MessagesFacts DEF MessagesOf
  <2>3. /\ q = s \o new /\ Len(s) \in Nat /\ Len(new) \in Nat /\ Len(q) = Len(s) + Len(new)
        /\ \A i \in 1 .. Len(q) : q[i] = IF i <= Len(s) THEN s[i] ELSE new[i - Len(s)]
    BY <1>3, <1>4, <1>7, <2>2, ConcatProperties, LenProperties DEF Grows
  <2>4. NoEntry(u) /\ Silent(u)
    <3>1. u \in Queued
      BY <1>7, TakeRequest DEF Known, Grows, Sends
    <3>2. NoEntry(u)
      BY <3>1 DEF Known, CoreInv, ClientInv, NoEntry
    <3>3. QED
      BY <3>2, NoEntryFacts
  <2>5. SentOn(c, s)'
    <3>1. \A v \in Clients : (\E i \in 1 .. Len(s) : MessageOn(s[i], v)) => Keeps(v)
      BY <1>1, <1>5
    <3>2. QED
      BY <1>5, <3>1, SentMove
  <2>6. PICK n \in pending'[c] : n = EntryOf(u)
    BY <1>7 DEF Grows, Sends, Known, Types, ServiceType
  <2>7. req' = req /\ req[u].kind \in {"barrier", "other"}
    BY <1>7, <2>1, RequestFacts DEF Grows, Sends, clientVars
  <2>8. /\ m.type = "request" /\ e.type = "barrier" /\ MessageOn(e, u) /\ MessageOn(m, u)
        /\ \A v : v # u => ~MessageOn(m, v) /\ ~MessageOn(e, v)
        /\ n.client = u /\ Carries(e, n)' /\ (req[u].kind = "other" => Carries(m, n)')
    BY <2>16, <2>17, <2>6, <2>7 DEF MessageOn, Carries, EntryOf
  <2>9. \A j \in 1 .. Len(s) : ~MessageOn(s[j], u)
    BY <1>5, <2>4
  <2>10. \A i \in 1 .. Len(q) : \/ i \in 1 .. Len(s) /\ q[i] = s[i]
                                \/ i > Len(s) /\ i = Len(q) /\ q[i] = e
                                \/ i > Len(s) /\ q[i] = m /\ req[u].kind = "other"
    <3>1. SUFFICES ASSUME NEW i \in 1 .. Len(q), i > Len(s)
                   PROVE  (i = Len(q) /\ q[i] = e) \/ (q[i] = m /\ req[u].kind = "other")
      BY <2>3
    <3>2. PICK k \in 1 .. Len(new) : k = i - Len(s) /\ q[i] = new[k]
      BY <2>3, <3>1
    <3>3. CASE req[u].kind = "barrier"
      <4>1. Len(new) = 1 /\ new[1] = e
        BY <2>2, <3>3
      <4>2. Len(q) = Len(s) + 1 /\ Len(s) \in Nat
        BY <2>3, <4>1
      <4>3. k = 1 /\ i = Len(q)
        BY <3>2, <4>1, <4>2
      <4>4. QED
        BY <3>2, <4>1, <4>3
    <3>4. CASE req[u].kind # "barrier"
      <4>1. k = 1 \/ (k = 2 /\ i = Len(q))
        BY <2>2, <2>3, <3>1, <3>2, <3>4
      <4>2. QED
        BY <2>2, <2>7, <3>2, <3>4, <4>1
    <3>5. QED
      BY <3>3, <3>4
  <2>11. SUFFICES ASSUME NEW i \in 1 .. Len(q), NEW v \in Clients, MessageOn(q[i], v)
                  PROVE  /\ req'[v].conn = c
                         /\ \E p \in pending'[c] : p.client = v /\ Carries(q[i], p)'
                         /\ q[i].type = "barrier" =>
                               \A j \in 1 .. Len(q) : j > i => ~MessageOn(q[j], v)
    BY DEF SentOn, MessageOn
  <2>12. CASE i \in 1 .. Len(s) /\ q[i] = s[i]
    <3>1. v # u
      BY <2>9, <2>11, <2>12
    <3>2. /\ req'[v].conn = c
          /\ \E p \in pending'[c] : p.client = v /\ Carries(q[i], p)'
          /\ q[i].type = "barrier" => \A j \in 1 .. Len(s) : j > i => ~MessageOn(s[j], v)
      BY <2>5, <2>11, <2>12 DEF SentOn, MessageOn, Carries
    <3>3. QED
      BY <2>8, <2>10, <3>1, <3>2
  <2>13. CASE i > Len(s) /\ i = Len(q) /\ q[i] = e
    <3>1. v = u
      BY <2>8, <2>11, <2>13
    <3>2. QED
      BY <1>7, <2>3, <2>6, <2>7, <2>8, <2>13, <3>1 DEF Grows
  <2>14. CASE i > Len(s) /\ q[i] = m /\ req[u].kind = "other"
    <3>1. v = u
      BY <2>8, <2>11, <2>14
    <3>2. QED
      BY <1>7, <2>6, <2>7, <2>8, <2>14, <3>1 DEF Grows
  <2>15. QED
    BY <2>10, <2>12, <2>13, <2>14
<1>8. SentOn(c, q)'
  BY <1>3, <1>4, <1>6, <1>7, SentChange
<1>9. QED
  BY <1>4, <1>8 DEF SentOn

\* Nothing new is sent about a request that has an entry.
LEMMA SilentNext ==
    ASSUME Known, [Next]_vars, NEW u \in Clients, Silent(u), ~NoEntry(u)
    PROVE  Silent(u)'
<1>1. SUFFICES ASSUME NEW c \in Conns PROVE \A j \in 1 .. Len(sent'[c]) : ~MessageOn(sent'[c][j], u)
  BY DEF Silent, MessageOn
<1>2. PICK s \in Seq(Message) : s = sent[c]
  BY DEF Known, Types, ConnType
<1>3. PICK q : q = sent'[c]
  OBVIOUS
<1>4. \A j \in 1 .. Len(s) : ~MessageOn(s[j], u)
  BY <1>2 DEF Silent
<1>5. CASE Shrinks(q, s)
  BY <1>3, <1>4, <1>5, ShrinkFacts
<1>6. ASSUME NEW v \in Clients, Grows(c, v) PROVE \A j \in 1 .. Len(q) : ~MessageOn(q[j], u)
  <2>1. v # u
    <3>1. v \in Queued
      BY <1>6, TakeRequest DEF Known, Grows, Sends
    <3>2. QED
      BY <3>1 DEF Known, CoreInv, ClientInv, NoEntry
  <2>2. /\ req[v] \in Asked /\ FirstXid(v) \in Nat /\ LastXid(v) \in Nat
    BY <1>6, SendTypes DEF Known, Sends, Grows
  <2>3. PICK new \in Seq(Message) : new = MessagesOf(v) /\ \A j \in 1 .. Len(new) : ~MessageOn(new[j], u)
    <3>1. PICK m : m = [type |-> "request", xid |-> FirstXid(v), about |-> v, cls |-> req[v].cls]
      OBVIOUS
    <3>2. PICK e : e = [type |-> "barrier", xid |-> LastXid(v), about |-> v]
      OBVIOUS
    <3>3. PICK new \in Seq(Message) :
             /\ new = MessagesOf(v)
             /\ req[v].kind = "barrier" => Len(new) = 1 /\ new[1] = e
             /\ req[v].kind # "barrier" => Len(new) = 2 /\ new[1] = m /\ new[2] = e
      BY <2>2, <3>1, <3>2, MessagesFacts DEF MessagesOf
    <3>4. ~MessageOn(m, u) /\ ~MessageOn(e, u)
      BY <2>1, <3>1, <3>2 DEF MessageOn
    <3>5. \A j \in 1 .. Len(new) : new[j] = m \/ new[j] = e
      <4>1. CASE req[v].kind = "barrier"
        <5>1. Len(new) = 1 /\ new[1] = e
          BY <3>3, <4>1
        <5>2. \A j \in 1 .. Len(new) : j = 1
          BY <5>1
        <5>3. QED
          BY <5>1, <5>2
      <4>2. CASE req[v].kind # "barrier"
        <5>1. Len(new) = 2 /\ new[1] = m /\ new[2] = e
          BY <3>3, <4>2
        <5>2. \A j \in 1 .. Len(new) : j = 1 \/ j = 2
          BY <5>1
        <5>3. QED
          BY <5>1, <5>2
      <4>3. QED
        BY <4>1, <4>2
    <3>6. QED
      BY <3>3, <3>4, <3>5
  <2>4. /\ Len(s) \in Nat /\ Len(new) \in Nat /\ Len(q) = Len(s) + Len(new)
        /\ \A i \in 1 .. Len(q) : q[i] = IF i <= Len(s) THEN s[i] ELSE new[i - Len(s)]
    BY <1>2, <1>3, <1>6, <2>3, ConcatProperties, LenProperties DEF Grows
  <2>5. \A i \in 1 .. Len(q) : i \in 1 .. Len(s) \/ i - Len(s) \in 1 .. Len(new)
    BY <2>4
  <2>6. SUFFICES ASSUME NEW i \in 1 .. Len(q) PROVE ~MessageOn(q[i], u)
    OBVIOUS
  <2>7. CASE i \in 1 .. Len(s)
    <3>1. q[i] = s[i]
      BY <2>4, <2>7
    <3>2. QED
      BY <1>4, <2>7, <3>1
  <2>8. CASE i \notin 1 .. Len(s)
    <3>1. PICK k \in 1 .. Len(new) : k = i - Len(s)
      BY <2>5, <2>8
    <3>2. q[i] = new[k]
      BY <2>4, <2>8, <3>1
    <3>3. QED
      BY <2>3, <3>1, <3>2
  <2>9. QED
    BY <2>7, <2>8
<1>7. QED
  BY <1>2, <1>3, <1>5, <1>6, SentChange

\* The answers in a queue, when the entries they are about are kept.
LEMMA AnswersMove ==
    ASSUME Types, Types', NEW q, AnswersIn(q),
           \A u \in Clients : (\E i \in 1 .. Len(q) : AnswerOn(q[i], u)) =>
               Keeps(u) /\ (Silent(u) => Silent(u)')
    PROVE  AnswersIn(q)'
<1>1. SUFFICES ASSUME NEW i \in 1 .. Len(q), NEW u \in Clients, AnswerOn(q[i], u)
               PROVE  /\ q[i].conn = req'[u].conn
                      /\ \E p \in pending'[req'[u].conn] : p.client = u /\ Reports(q[i], p)
                      /\ q[i].cls = "barrier" =>
                            Silent(u)' /\ \A j \in 1 .. Len(q) : j > i => ~AnswerOn(q[j], u)
  BY DEF AnswersIn, AnswerOn, Reports
<1>2. /\ q[i].conn = req[u].conn
      /\ \E p \in pending[req[u].conn] : p.client = u /\ Reports(q[i], p)
      /\ q[i].cls = "barrier" => Silent(u) /\ \A j \in 1 .. Len(q) : j > i => ~AnswerOn(q[j], u)
  BY <1>1 DEF AnswersIn
<1>3. Keeps(u) /\ (Silent(u) => Silent(u)')
  BY <1>1
<1>4. PICK c \in Conns : c = req[u].conn
  BY RequestFacts DEF Types, ClientType
<1>5. PICK p \in pending[c] : p.client = u /\ Reports(q[i], p)
  BY <1>2, <1>4
<1>6. PICK r \in pending'[c] : r.client = u /\ r.xid = p.xid /\ r.barrier = p.barrier /\ r.cls = p.cls
  BY <1>3, <1>5 DEF Keeps
<1>7. Reports(q[i], r)
  BY <1>5, <1>6 DEF Reports
<1>8. QED
  BY <1>2, <1>3, <1>4, <1>6, <1>7 DEF Keeps

\* Another event is put in the queue, or one is taken.
LEMMA AnswersPut ==
    ASSUME NEW q \in Seq(Event), AnswersIn(q), NEW x \in Event, \A u : ~AnswerOn(x, u)
    PROVE  AnswersIn(Append(q, x))
<1>1. PICK r : r = Append(q, x)
  OBVIOUS
<1>2. /\ Len(q) \in Nat /\ Len(r) = Len(q) + 1 /\ r[Len(q) + 1] = x
      /\ \A i \in 1 .. Len(q) : r[i] = q[i]
  BY <1>1, AppendProperties, LenProperties
<1>3. \A i \in 1 .. Len(r) : (i \in 1 .. Len(q) /\ r[i] = q[i]) \/ \A u : ~AnswerOn(r[i], u)
  BY <1>2
<1>4. AnswersIn(r)
  BY <1>3 DEF AnswersIn
<1>5. QED
  BY <1>1, <1>4

\* The answers that are left when an event is taken.
LEMMA AnswersTake ==
    ASSUME NEW q \in Seq(Event), q # << >>, AnswersIn(q)
    PROVE  AnswersIn(Tail(q))
<1>1. PICK t : t = Tail(q)
  OBVIOUS
<1>2. /\ Len(q) \in Nat /\ Len(q) > 0 /\ Len(t) = Len(q) - 1
      /\ \A i \in 1 .. Len(t) : t[i] = q[i + 1]
  BY <1>1, HeadTailProperties, LenProperties
<1>3. \A i \in 1 .. Len(t) : i + 1 \in 1 .. Len(q) /\ t[i] = q[i + 1]
  BY <1>2
<1>4. AnswersIn(t)
  <2>1. SUFFICES ASSUME NEW i \in 1 .. Len(t), NEW u \in Clients, AnswerOn(t[i], u)
                 PROVE  /\ t[i].conn = req[u].conn
                        /\ \E p \in pending[req[u].conn] : p.client = u /\ Reports(t[i], p)
                        /\ t[i].cls = "barrier" =>
                              Silent(u) /\ \A j \in 1 .. Len(t) : j > i => ~AnswerOn(t[j], u)
    BY DEF AnswersIn
  <2>2. /\ t[i].conn = req[u].conn
        /\ \E p \in pending[req[u].conn] : p.client = u /\ Reports(t[i], p)
        /\ t[i].cls = "barrier" =>
              Silent(u) /\ \A j \in 1 .. Len(q) : j > i + 1 => ~AnswerOn(q[j], u)
    BY <1>3, <2>1 DEF AnswersIn
  <2>3. \A j \in 1 .. Len(t) : j > i => j + 1 \in 1 .. Len(q) /\ j + 1 > i + 1 /\ t[j] = q[j + 1]
    BY <1>3
  <2>4. QED
    BY <2>2, <2>3
<1>5. QED
  BY <1>1, <1>4

\* What happens to the queue.  An answer is put behind the others when the
\* switch says something about the first message to it.
Heard(c, a) ==
    LET m == Head(sent[c])
    IN  /\ sent[c] # << >> /\ phase[c] = "main"
        /\ evq' = Append(evq, a)
        /\ a.conn = c /\ a.about \in Clients /\ MessageOn(m, a.about) /\ a.xid = m.xid
        /\ m.type = "request" => a.cls \in {m.cls, "error"} /\ a.cls \in Replies
        /\ m.type = "barrier" => a.cls = "barrier" /\ sent' = [sent EXCEPT ![c] = Tail(@)]
        /\ UNCHANGED <<req, pending>>

Quiet(e) == \A u : ~AnswerOn(e, u)

\* A message about a request is answered in the main phase, by an event that
\* the service observes.
LEMMA AnswersObserved ==
    ASSUME Known, NEW c \in Conns, NEW m, sent[c] # << >>, m = Head(sent[c]), phase[c] = "main",
           m \in Message, m.type \in {"request", "barrier"}, m.about \in Clients
    PROVE  /\ req[m.about].conn = c
           /\ \E p \in pending[c] : p.client = m.about /\ Carries(m, p)
           /\ Observed("error", phase[c]) /\ Observed("barrier", phase[c])
           /\ m.type = "request" /\ m.cls # None => Observed(m.cls, phase[c])
<1>1. PICK s \in Seq(Message) : s = sent[c]
  BY DEF Known, Types, ConnType
<1>2. Len(s) \in Nat /\ 1 \in 1 .. Len(s) /\ s[1] = m
  BY <1>1, HeadTailProperties, LenProperties, EmptySeq
<1>3. MessageOn(m, m.about) /\ SentOn(c, s)
  BY <1>1 DEF MessageOn, Known, FlowInv, SentInv
<1>4. req[m.about].conn = c /\ \E p \in pending[c] : p.client = m.about /\ Carries(m, p)
  BY <1>2, <1>3 DEF SentOn
<1>5. Observed("error", phase[c]) /\ Observed("barrier", phase[c])
  BY DEF Known, ObserversInv, Observed, Static
<1>6. ASSUME m.type = "request", m.cls # None PROVE Observed(m.cls, phase[c])
  <2>1. PICK p \in pending[c] : p.cls = m.cls
    BY <1>4, <1>6 DEF Carries
  <2>2. p \in InfoEntry /\ p \in Infos
    BY <2>1 DEF Known, Types, ServiceType, Infos
  <2>3. PICK k \in Classes : k = m.cls
    BY <1>6, <2>1, <2>2 DEF InfoEntry
  <2>4. p \in WaitingFor(k)
    BY <2>1, <2>2, <2>3 DEF WaitingFor
  <2>5. observing[k] > 0
    <3>1. IsFiniteSet(WaitingFor(k)) /\ observing[k] = Cardinality(WaitingFor(k))
      BY DEF Known, CoreInv, CountInv
    <3>2. Cardinality(WaitingFor(k)) # 0 /\ Cardinality(WaitingFor(k)) \in Nat
      BY <2>4, <3>1, FS_EmptySet, FS_CardinalityType
    <3>3. QED
      BY <3>1, <3>2
  <2>6. k \in DOMAIN observers
    BY <2>5 DEF Known, CoreInv, CountInv
  <2>7. QED
    BY <2>3, <2>6 DEF Known, ObserversInv, Observed
<1>7. QED
  BY <1>4, <1>5, <1>6

\* The queue at a step: the answers are put behind it one by one, and taken.
LEMMA QueueChange ==
    ASSUME Known, [Next]_vars
    PROVE  \/ evq' = evq
           \/ \E e \in Event : Quiet(e) /\ evq' = Append(evq, e)
           \/ Take
           \/ \E e \in Event : /\ Quiet(e) /\ evq # << >> /\ evq' = Append(Tail(evq), e)
                               /\ UNCHANGED <<req, pending>>
           \/ \E c \in Conns, a \in Answer : Heard(c, a)
<1> USE DEF connVars, serviceVars, clientVars
<1>1. CASE UNCHANGED vars
  BY <1>1 DEF vars
<1>2. ASSUME NEW c \in Conns, Features(c)
      PROVE  evq' = evq \/ \E e \in Event : Quiet(e) /\ evq' = Append(evq, e)
  <2>1. Put(FeaturesEvent(c)) /\ FeaturesEvent(c) \in Event
    BY <1>2, TypesFeatures, EventFacts DEF Known
  <2>2. Quiet(FeaturesEvent(c))
    BY AnswerOnFacts DEF Known, Quiet
  <2>3. QED
    BY <2>1, <2>2 DEF Put
<1>3. ASSUME NEW c \in Conns, SwitchReplies(c) \/ SwitchError(c)
      PROVE  evq' = evq \/ \E a \in Answer : Heard(c, a)
  <2>1. PICK m : m = Head(sent[c])
    OBVIOUS
  <2>2. Serving(c, "request") /\ sent[c] # << >> /\ phase[c] = "main"
    <3>1. Serving(c, "request")
      BY <1>3 DEF SwitchReplies, SwitchError
    <3>2. \A type \in {"request", "barrier"} : Serving(c, type) => phase[c] = "main"
      BY MainPhase
    <3>3. QED
      BY <3>1, <3>2 DEF Serving
  <2>3. /\ m.type = "request" /\ m.about \in Clients
        /\ \E a \in Answer, k \in {m.cls, "error"} : AnswerEvent(a, c, k, m) /\ k \in Replies /\ Put(a)
    BY <1>3, <2>1, RepliesFacts, ErrorFacts DEF Known, Replies
  <2>4. PICK a \in Answer, k \in {m.cls, "error"} : AnswerEvent(a, c, k, m) /\ k \in Replies /\ Put(a)
    BY <2>3
  <2>5. UNCHANGED <<req, pending>>
    BY <1>3 DEF SwitchReplies, SwitchError
  <2>6. QED
    BY <2>1, <2>2, <2>3, <2>4, <2>5 DEF Heard, AnswerEvent, Put, MessageOn
<1>4. ASSUME NEW c \in Conns, SwitchBarrier(c)
      PROVE  evq' = evq \/ \E a \in Answer : Heard(c, a)
  <2>1. PICK m : m = Head(sent[c])
    OBVIOUS
  <2>2. Serving(c, "barrier") /\ sent[c] # << >> /\ phase[c] = "main"
    <3>1. Serving(c, "barrier")
      BY <1>4 DEF SwitchBarrier
    <3>2. \A type \in {"request", "barrier"} : Serving(c, type) => phase[c] = "main"
      BY MainPhase
    <3>3. QED
      BY <3>1, <3>2 DEF Serving
  <2>3. /\ m.type = "barrier" /\ m.about \in Clients
        /\ \E a \in Answer : AnswerEvent(a, c, "barrier", m) /\ Put(a)
        /\ sent' = [sent EXCEPT ![c] = Tail(@)] /\ UNCHANGED <<req, pending>>
    BY <1>4, <2>1, BarrierFacts DEF Known
  <2>4. PICK a \in Answer : AnswerEvent(a, c, "barrier", m) /\ Put(a)
    BY <2>3
  <2>5. QED
    BY <2>1, <2>2, <2>3, <2>4 DEF Heard, AnswerEvent, Put, MessageOn
<1>5. ASSUME NEW c \in Conns, PortDesc(c) \/ SwitchDone(c) PROVE evq' = evq
  BY <1>5 DEF PortDesc, SwitchDone
<1>6. ASSUME NEW c \in Conns, Die(c) PROVE \E e \in Event : Quiet(e) /\ evq' = Append(evq, e)
  BY <1>6, AnswerOnFacts, EventFacts DEF Die, Known, Quiet
<1>7. ASSUME NEW u \in Clients, NEW r \in Asked, SendMsg(u, r)
      PROVE  \E e \in Event : Quiet(e) /\ evq' = Append(evq, e)
  BY <1>7, AnswerOnFacts, EventFacts, SendMsgFacts DEF Known, Quiet
<1>8. CASE HandleFeatures
  <2>1. PICK c \in Conns :
           /\ evq # << >>
           /\ \/ \E b \in Conns : Replaces(c, b)
              \/ evq' = Tail(evq)
    BY <1>8, FeaturesHandled DEF Known
  <2>2. UNCHANGED <<req, pending>>
    BY <1>8 DEF HandleFeatures
  <2>3. CASE evq' = Tail(evq)
    BY <2>1, <2>3 DEF Take
  <2>4. ASSUME NEW b \in Conns, Replaces(c, b)
        PROVE  \E e \in Event : Quiet(e) /\ evq' = Append(Tail(evq), e)
    BY <2>4, AnswerOnFacts, EventFacts DEF Replaces, Known, Quiet
  <2>5. QED
    BY <2>1, <2>2, <2>3, <2>4
<1>9. CASE HandleDead \/ RefuseSend \/ HandleSend \/ HandleBarrier \/ HandleReply
  BY <1>9, HandleDeadFacts, RefuseSendFacts, HandleSendFacts, HandleBarrierFacts, HandleReplyFacts
     DEF Known
<1>10. QED
  BY <1>1, <1>2, <1>3, <1>4, <1>5, <1>6, <1>7, <1>8, <1>9 DEF Next, Service, SwitchStep

\* An answer belongs to an entry at every step.
LEMMA AnswersNext ==
    ASSUME Known, [Next]_vars
    PROVE  AnswerInv'
<1>1. PICK q : q = evq'
  OBVIOUS
<1>2. evq \in Seq(Event) /\ Types /\ Types' /\ AnswersIn(evq)
  BY TypesNext DEF Known, Types, ServiceType, FlowInv, AnswerInv
<1>3. ASSUME NEW u \in Clients, NEW r, AnswersIn(r), \E i \in 1 .. Len(r) : AnswerOn(r[i], u)
      PROVE  Silent(u) => Silent(u)'
  <2>1. \E p \in pending[req[u].conn] : p.client = u
    BY <1>3 DEF AnswersIn
  <2>2. req[u].conn \in Conns
    BY RequestFacts DEF Known, Types, ClientType
  <2>3. ~NoEntry(u)
    BY <2>1, <2>2 DEF NoEntry
  <2>4. QED
    BY <2>3, SilentNext
<1>4. ASSUME AnswersIn(q), \A u \in Clients : (\E i \in 1 .. Len(q) : AnswerOn(q[i], u)) => Keeps(u)
      PROVE  AnswerInv'
  <2>1. AnswersIn(q)'
    BY <1>2, <1>3, <1>4, AnswersMove
  <2>2. QED
    BY <1>1, <2>1 DEF AnswerInv, AnswersIn
<1>5. CASE evq' = evq
  <2>1. AnswersIn(q)
    BY <1>1, <1>2, <1>5
  <2>2. ASSUME NEW u \in Clients, NEW i \in 1 .. Len(q), AnswerOn(q[i], u) PROVE Keeps(u)
    <3>1. ~Unheard(u)
      BY <1>1, <1>5, <2>2 DEF Unheard
    <3>2. ~Take
      BY <1>2, <1>5, HeadTailProperties, LenProperties DEF Take
    <3>3. QED
      BY <3>1, <3>2, KeepsNext
  <2>3. QED
    BY <1>4, <2>1, <2>2
<1>6. ASSUME NEW e \in Event, Quiet(e), evq' = Append(evq, e) PROVE AnswerInv'
  <2>1. AnswersIn(q)
    BY <1>1, <1>2, <1>6, AnswersPut DEF Quiet
  <2>2. /\ Len(evq) \in Nat /\ Len(q) = Len(evq) + 1 /\ q[Len(evq) + 1] = e
        /\ \A i \in 1 .. Len(evq) : q[i] = evq[i]
    BY <1>1, <1>2, <1>6, AppendProperties, LenProperties
  <2>3. ASSUME NEW u \in Clients, NEW i \in 1 .. Len(q), AnswerOn(q[i], u) PROVE Keeps(u)
    <3>1. i \in 1 .. Len(evq) /\ q[i] = evq[i]
      BY <1>6, <2>2, <2>3 DEF Quiet
    <3>2. ~Unheard(u)
      BY <2>3, <3>1 DEF Unheard
    <3>3. ~Take
      <4>1. ASSUME Take PROVE FALSE
        <5>1. Len(Tail(evq)) = Len(evq) - 1 /\ q = Tail(evq)
          BY <1>1, <1>2, <4>1, HeadTailProperties DEF Take
        <5>2. QED
          BY <2>2, <5>1
      <4>2. QED
        BY <4>1
    <3>4. QED
      BY <3>2, <3>3, KeepsNext
  <2>4. QED
    BY <1>4, <2>1, <2>3
<1>7. ASSUME Take PROVE AnswerInv'
  <2>1. q = Tail(evq) /\ evq # << >>
    BY <1>1, <1>7 DEF Take
  <2>2. AnswersIn(q)
    BY <1>2, <2>1, AnswersTake
  <2>3. /\ Len(evq) \in Nat /\ Len(q) = Len(evq) - 1
        /\ \A i \in 1 .. Len(q) : q[i] = evq[i + 1]
    BY <1>2, <2>1, HeadTailProperties, LenProperties
  <2>4. ASSUME NEW u \in Clients, NEW i \in 1 .. Len(q), AnswerOn(q[i], u) PROVE Keeps(u)
    <3>1. PICK k \in 1 .. Len(evq) : k = i + 1 /\ k > 1 /\ q[i] = evq[k]
      BY <2>3
    <3>2. ~Unheard(u) /\ ~\A n \in 1 .. Len(evq) : n > 1 => ~AnswerOn(evq[n], u)
      BY <2>4, <3>1 DEF Unheard
    <3>3. QED
      BY <3>2, KeepsNext
  <2>5. QED
    BY <1>4, <2>2, <2>4
<1>8. ASSUME NEW e \in Event, Quiet(e), evq # << >>, evq' = Append(Tail(evq), e),
             UNCHANGED <<req, pending>>
      PROVE  AnswerInv'
  <2>1. PICK t \in Seq(Event) : t = Tail(evq) /\ AnswersIn(t)
    BY <1>2, <1>8, AnswersTake, HeadTailProperties
  <2>2. AnswersIn(q)
    BY <1>1, <1>8, <2>1, AnswersPut DEF Quiet
  <2>3. \A u \in Clients : Keeps(u)
    BY <1>8 DEF Keeps
  <2>4. QED
    BY <1>4, <2>2, <2>3
<1>9. ASSUME NEW c \in Conns, NEW a \in Answer, Heard(c, a) PROVE AnswerInv'
  <2>1. PICK u \in Clients : u = a.about
    BY <1>9 DEF Heard
  <2>2. PICK s \in Seq(Message) : s = sent[c]
    BY DEF Known, Types, ConnType
  <2>3. PICK m : m = Head(s)
    OBVIOUS
  <2>4. /\ s # << >> /\ phase[c] = "main" /\ q = Append(evq, a)
        /\ a.conn = c /\ MessageOn(m, u) /\ a.xid = m.xid
        /\ m.type = "request" => a.cls \in {m.cls, "error"} /\ a.cls \in Replies
        /\ m.type = "barrier" => a.cls = "barrier" /\ sent' = [sent EXCEPT ![c] = Tail(s)]
        /\ UNCHANGED <<req, pending>>
    BY <1>1, <1>9, <2>1, <2>2, <2>3 DEF Heard
  <2>5. /\ Len(s) \in Nat /\ 1 \in 1 .. Len(s) /\ s[1] = m
        /\ Len(Tail(s)) = Len(s) - 1 /\ \A j \in 1 .. Len(Tail(s)) : Tail(s)[j] = s[j + 1]
    BY <2>2, <2>4, <2>3, HeadTailProperties, LenProperties, EmptySeq
  <2>6. SentOn(c, s)
    BY <2>2 DEF Known, FlowInv, SentInv
  <2>7. /\ req[u].conn = c
        /\ \E p \in pending[c] : p.client = u /\ Carries(m, p)
        /\ m.type = "barrier" => \A j \in 1 .. Len(s) : j > 1 => ~MessageOn(s[j], u)
    BY <2>4, <2>5, <2>6 DEF SentOn
  <2>8. ~Silent(u)
    BY <2>2, <2>4, <2>5 DEF Silent
  <2>9. /\ Len(evq) \in Nat /\ Len(q) = Len(evq) + 1 /\ q[Len(evq) + 1] = a
        /\ \A i \in 1 .. Len(evq) : q[i] = evq[i]
    BY <1>2, <2>4, AppendProperties, LenProperties, EventFacts
  <2>10. \A v : AnswerOn(a, v) => v = u
    BY <2>1, AnswerOnFacts DEF Known
  <2>11. ASSUME m.type = "barrier" PROVE Silent(u)'
    <3>1. SUFFICES ASSUME NEW b \in Conns
                   PROVE  \A j \in 1 .. Len(sent'[b]) : ~MessageOn(sent'[b][j], u)
      BY DEF Silent, MessageOn
    <3>2. CASE b = c
      <4>1. sent'[b] = Tail(s)
        BY <2>4, <2>11, <3>2 DEF Known, Types, ConnType
      <4>2. PICK t : t = Tail(s)
        OBVIOUS
      <4>3. ASSUME NEW j \in 1 .. Len(t) PROVE ~MessageOn(t[j], u)
        <5>1. PICK k \in 1 .. Len(s) : k = j + 1 /\ k > 1 /\ t[j] = s[k]
          BY <2>5, <4>2
        <5>2. QED
          BY <2>7, <2>11, <5>1
      <4>4. QED
        BY <4>1, <4>2, <4>3
    <3>3. CASE b # c
      <4>1. sent'[b] = sent[b]
        BY <2>4, <2>11, <3>3 DEF Known, Types, ConnType
      <4>2. \A j \in 1 .. Len(sent[b]) : MessageOn(sent[b][j], u) => req[u].conn = b
        BY DEF Known, FlowInv, SentInv, SentOn
      <4>3. QED
        BY <2>7, <3>3, <4>1, <4>2
    <3>4. QED
      BY <3>2, <3>3
  <2>12. ASSUME NEW i \in 1 .. Len(q), NEW v \in Clients, AnswerOn(q[i], v)
         PROVE  /\ q[i].conn = req'[v].conn
                /\ \E p \in pending'[req'[v].conn] : p.client = v /\ Reports(q[i], p)
                /\ q[i].cls = "barrier" =>
                      Silent(v)' /\ \A j \in 1 .. Len(q) : j > i => ~AnswerOn(q[j], v)
    <3>1. CASE i \in 1 .. Len(evq)
      <4>1. q[i] = evq[i]
        BY <2>9, <3>1
      <4>2. /\ q[i].conn = req[v].conn
            /\ \E p \in pending[req[v].conn] : p.client = v /\ Reports(q[i], p)
            /\ q[i].cls = "barrier" => Silent(v) /\ \A j \in 1 .. Len(evq) : j > i => ~AnswerOn(evq[j], v)
        BY <1>2, <2>12, <3>1, <4>1 DEF AnswersIn
      <4>3. Silent(v) => Silent(v)'
        BY <1>2, <1>3, <2>12, <3>1, <4>1
      <4>4. q[i].cls = "barrier" => \A j \in 1 .. Len(q) : j > i => ~AnswerOn(q[j], v)
        <5>1. SUFFICES ASSUME q[i].cls = "barrier", NEW j \in 1 .. Len(q), j > i
                       PROVE  ~AnswerOn(q[j], v)
          OBVIOUS
        <5>2. CASE j \in 1 .. Len(evq)
          BY <2>9, <4>2, <5>1, <5>2
        <5>3. CASE j \notin 1 .. Len(evq)
          <6>1. q[j] = a
            BY <2>9, <5>1, <5>3
          <6>2. v # u
            BY <2>8, <4>2, <5>1
          <6>3. QED
            BY <2>10, <6>1, <6>2
        <5>4. QED
          BY <5>2, <5>3
      <4>5. QED
        BY <2>4, <4>2, <4>3, <4>4
    <3>2. CASE i \notin 1 .. Len(evq)
      <4>1. q[i] = a /\ i = Len(q)
        BY <2>9, <3>2
      <4>2. v = u
        BY <2>10, <2>12, <4>1
      <4>3. a.cls = "barrier" => m.type = "barrier"
        BY <2>4, OfctlAssumption DEF MessageOn, Replies
      <4>4. \E p \in pending[c] : p.client = u /\ Reports(a, p)
        <5>1. PICK p \in pending[c] : p.client = u /\ Carries(m, p)
          BY <2>7
        <5>2. m.type \in {"request", "barrier"} /\ (m.type = "request" => a.cls # "barrier")
          BY <2>4, <4>3 DEF MessageOn
        <5>3. Reports(a, p)
          BY <2>4, <5>1, <5>2 DEF Carries, Reports
        <5>4. QED
          BY <5>1, <5>3
      <4>5. \A j \in 1 .. Len(q) : ~(j > i)
        BY <2>9, <4>1
      <4>6. QED
        BY <2>4, <2>7, <2>11, <4>1, <4>2, <4>3, <4>4, <4>5
    <3>3. QED
      BY <3>1, <3>2
  <2>13. AnswersIn(q)'
    BY <2>12 DEF AnswersIn, AnswerOn, Reports
  <2>14. QED
    BY <1>1, <2>13 DEF AnswerInv, AnswersIn
<1>10. QED
  BY <1>5, <1>6, <1>7, <1>8, <1>9, QueueChange

\* Where the features reply of a connection and the request of a client come from.
LEMMA QueueHolds ==
    ASSUME Known, [Next]_vars, NEW x, x \notin Answer, \A c : x # DeadEvent(c), Holds(evq', x)
    PROVE  \/ Holds(evq, x)
           \/ \E c \in Conns : x = FeaturesEvent(c) /\ phase[c] = "none" /\ UNCHANGED <<pending, req, replied>>
           \/ \E u \in Clients, r \in Asked : x = RequestEvent(u) /\ SendMsg(u, r)
<1> USE DEF connVars, serviceVars, clientVars
<1>1. evq \in Seq(Event)
  BY DEF Known, Types, ServiceType
<1>2. ASSUME NEW e \in Event, Put(e), x # e PROVE Holds(evq, x)
  BY <1>1, <1>2, PutFacts DEF Put
<1>3. ASSUME Take PROVE Holds(evq, x)
  BY <1>1, <1>3, TakeFacts DEF Take
<1>4. CASE UNCHANGED evq
  BY <1>4
<1>5. ASSUME NEW c \in Conns, Features(c)
      PROVE  Holds(evq, x) \/ (x = FeaturesEvent(c) /\ phase[c] = "none" /\ UNCHANGED <<pending, req, replied>>)
  <2>1. Put(FeaturesEvent(c)) /\ FeaturesEvent(c) \in Event
    BY <1>5, TypesFeatures, EventFacts DEF Known
  <2>2. phase[c] = "none" /\ UNCHANGED <<pending, req, replied>>
    BY <1>5 DEF Features
  <2>3. QED
    BY <1>2, <2>1, <2>2
<1>6. ASSUME NEW c \in Conns, SwitchReplies(c) \/ SwitchError(c) \/ SwitchBarrier(c) PROVE Holds(evq, x)
  <2>1. PICK a \in Answer : Put(a)
    BY <1>6, RepliesFacts, ErrorFacts, BarrierFacts DEF Known
  <2>2. QED
    BY <1>2, <2>1, EventFacts
<1>7. ASSUME NEW c \in Conns, Die(c) PROVE Holds(evq, x)
  BY <1>2, <1>7, DieFacts, EventFacts DEF Known
<1>8. ASSUME NEW u \in Clients, NEW r \in Asked, SendMsg(u, r) PROVE Holds(evq, x) \/ x = RequestEvent(u)
  BY <1>2, <1>8, SendMsgFacts, EventFacts DEF Known
<1>9. CASE HandleFeatures
  <2>1. PICK c \in Conns : /\ evq # << >>
                           /\ (\E b \in Conns : Replaces(c, b)) \/ evq' = Tail(evq)
    BY <1>9, FeaturesHandled DEF Known
  <2>2. CASE evq' = Tail(evq)
    BY <1>3, <2>1, <2>2 DEF Take
  <2>3. ASSUME NEW b \in Conns, Replaces(c, b) PROVE Holds(evq, x)
    <3>1. PICK t \in Seq(Event) : t = Tail(evq)
      BY <1>1, <2>1, TakeFacts
    <3>2. evq' = Append(t, DeadEvent(b)) /\ DeadEvent(b) \in Event
      BY <2>3, <3>1, EventFacts DEF Replaces
    <3>3. Holds(t, x)
      BY <3>2, PutFacts
    <3>4. QED
      BY <1>1, <2>1, <3>1, <3>3, TakeFacts
  <2>4. QED
    BY <2>1, <2>2, <2>3
<1>10. CASE HandleDead \/ RefuseSend \/ HandleSend \/ HandleBarrier \/ HandleReply
  BY <1>3, <1>10, HandleDeadFacts, RefuseSendFacts, HandleSendFacts, HandleBarrierFacts,
     HandleReplyFacts DEF Known
<1>11. QED
  BY <1>4, <1>5, <1>6, <1>7, <1>8, <1>9, <1>10 DEF Next, Service, SwitchStep, vars, PortDesc, SwitchDone

\* An entry of an info was there, or the service makes it for a request.
LEMMA PendingChange ==
    ASSUME Known, [Next]_vars, NEW c \in Conns, NEW r \in pending'[c]
    PROVE  \/ \E p \in pending[c] : p.client = r.client
           \/ \E u \in Clients : Take /\ Sends(u) /\ c = InfoOf(u) /\ r = EntryOf(u)
<1> USE DEF connVars, serviceVars, clientVars
<1>1. pending \in [Conns -> SUBSET InfoEntry]
  BY DEF Known, Types, ServiceType
<1>2. CASE UNCHANGED pending
  BY <1>2
<1>3. CASE HandleSend
  <2>1. PICK u \in Clients : Take /\ Sends(u) /\ InfoOf(u) \in Conns
    BY <1>3, HandleSendFacts, SendTypes DEF Known, Sends
  <2>2. pending' = pending \/ pending' = [pending EXCEPT ![InfoOf(u)] = @ \cup {EntryOf(u)}]
    BY <2>1 DEF Sends
  <2>3. r \in pending[c] \/ (c = InfoOf(u) /\ r = EntryOf(u))
    BY <1>1, <2>1, <2>2
  <2>4. QED
    BY <2>1, <2>3
<1>4. CASE HandleBarrier
  <2>1. \A b \in Conns : pending'[b] \subseteq pending[b]
    BY <1>1, <1>4, HandleBarrierFacts DEF Known, Ends, Ignores
  <2>2. QED
    BY <2>1
<1>5. CASE HandleReply
  <2>1. PICK e : e = Head(evq)
    OBVIOUS
  <2>2. /\ pending' = [b \in Conns |-> {Extended(p, e) : p \in pending[b]}]
        /\ \A p \in InfoEntry : LET q == Extended(p, e) IN q.client = p.client
    BY <1>5, <2>1, HandleReplyFacts DEF Known
  <2>3. QED
    BY <1>1, <2>2
<1>6. QED
  BY <1>2, <1>3, <1>4, <1>5 DEF Next, Service, SwitchStep, vars, Features, PortDesc,
     SwitchReplies, SwitchError, SwitchDone, SwitchBarrier, Die, SendMsg, HandleFeatures, HandleDead,
     RefuseSend

\* An info belongs to a connection whose features reply was handled, at every step.
LEMMA InfoNext ==
    ASSUME Known, [Next]_vars
    PROVE  InfoInv'
<1>1. SUFFICES ASSUME NEW c \in Conns, NEW r \in pending'[c]
               PROVE  ~Holds(evq', FeaturesEvent(c)) /\ phase'[c] # "none"
  BY DEF InfoInv
<1>2. ~Holds(evq, FeaturesEvent(c)) /\ phase[c] # "none"
  <2>1. CASE \E p \in pending[c] : p.client = r.client
    BY <2>1 DEF Known, FlowInv, InfoInv
  <2>2. ASSUME NEW u \in Clients, Take, Sends(u), c = InfoOf(u)
        PROVE  ~Holds(evq, FeaturesEvent(c)) /\ phase[c] # "none"
    BY <2>2, TargetFacts
  <2>3. QED
    BY <1>1, <2>1, <2>2, PendingChange
<1>3. ~Holds(evq', FeaturesEvent(c))
  <2>1. FeaturesEvent(c) \notin Answer /\ \A b : FeaturesEvent(c) # DeadEvent(b)
    BY EventKinds DEF Known, NoFeatures
  <2>2. /\ \A b : FeaturesEvent(c) = FeaturesEvent(b) => b = c
        /\ \A u : FeaturesEvent(c) # RequestEvent(u)
    BY EventKinds
  <2>3. QED
    BY <1>2, <2>1, <2>2, QueueHolds
<1>4. phase'[c] # "none"
  <2>1. phase \in [Conns -> {"none", "config", "main", "dead"}]
    BY DEF Known, Types, ConnType
  <2>2. QED
    BY <1>2, <2>1 DEF Next, Service, SwitchStep, vars, Features, PortDesc,
       SwitchReplies, SwitchError, SwitchDone, SwitchBarrier, Die, SendMsg, HandleFeatures, HandleDead,
       RefuseSend, HandleSend, HandleBarrier, HandleReply, connVars
<1>5. QED
  BY <1>3, <1>4

\* A reply or an error reaches the service, and is about a request with an entry.
LEMMA SaidFacts ==
    ASSUME Known, NEW c \in Conns, SwitchReplies(c) \/ SwitchError(c)
    PROVE  \E u \in Clients, a \in Answer :
              /\ evq' = Append(evq, a) /\ a.about = u /\ a.cls \in Replies /\ ReplyOn(a, u)
              /\ replied' = [replied EXCEPT ![u] = Append(@, a.cls)]
              /\ req[u].kind = "other" /\ u \notin Queued /\ state[u] = "waiting"
              /\ UNCHANGED <<pending, switches, req, state, answer>>
<1>1. PICK m : m = Head(sent[c])
  OBVIOUS
<1>2. Serving(c, "request") /\ sent[c] # << >> /\ phase[c] = "main"
  <2>1. Serving(c, "request")
    BY DEF SwitchReplies, SwitchError
  <2>2. \A type \in {"request", "barrier"} : Serving(c, type) => phase[c] = "main"
    BY MainPhase
  <2>3. QED
    BY <2>1, <2>2 DEF Serving
<1>3. /\ m \in Message /\ m.type = "request" /\ m.about \in Clients
      /\ \E a \in Answer, k \in Replies :
            /\ AnswerEvent(a, c, k, m) /\ (k = "error" \/ (k = m.cls /\ m.cls \in Classes))
            /\ replied' = [replied EXCEPT ![m.about] = Append(@, k)]
      /\ UNCHANGED <<pending, switches, req, state, answer>>
  BY <1>1, RepliesFacts, ErrorFacts DEF Known, Replies, serviceVars
<1>4. PICK a \in Answer, k \in Replies :
         /\ AnswerEvent(a, c, k, m) /\ (k = "error" \/ (k = m.cls /\ m.cls \in Classes))
         /\ replied' = [replied EXCEPT ![m.about] = Append(@, k)]
  BY <1>3
<1>5. /\ \E p \in pending[c] : p.client = m.about /\ Carries(m, p)
      /\ Observed("error", phase[c]) /\ (m.cls # None => Observed(m.cls, phase[c]))
  BY <1>1, <1>2, <1>3, AnswersObserved
<1>6. Observed(k, phase[c])
  BY <1>4, <1>5, OfctlAssumption
<1>7. evq' = Append(evq, a) /\ a.about = m.about /\ a.cls = k
  BY <1>4, <1>6 DEF AnswerEvent
<1>8. req[m.about].kind = "other" /\ m.about \notin Queued /\ state[m.about] = "waiting"
  BY <1>3, <1>5 DEF Carries, Known, CoreInv, ClientInv
<1>9. ReplyOn(a, m.about)
  BY <1>7, AnswerOnFacts DEF Known
<1>10. QED
  BY <1>3, <1>4, <1>7, <1>8, <1>9

\* What was replied so far changes when a switch says something and when the
\* client asks again.
LEMMA RepliedSame ==
    ASSUME [Next]_vars, \A c \in Conns : ~SwitchReplies(c) /\ ~SwitchError(c),
           \A u \in Clients, r \in Asked : ~SendMsg(u, r)
    PROVE  UNCHANGED <<replied, req>>
BY DEF Next, Service, SwitchStep, vars, Features, PortDesc, SwitchDone, SwitchBarrier, Die,
   HandleFeatures, HandleDead, RefuseSend, HandleSend, HandleBarrier, HandleReply, clientVars

\* Nothing was replied to a request in the queue nor to a barrier request, at every step.
LEMMA FreshNext ==
    ASSUME Known, [Next]_vars
    PROVE  FreshInv'
<1>1. /\ replied \in [Clients -> Seq(Replies)] /\ req \in [Clients -> Asked]
      /\ \A u \in Queued : replied[u] = << >>
      /\ \A u \in Clients : req[u].kind = "barrier" => replied[u] = << >>
  BY DEF Known, Types, ClientType, FlowInv, FreshInv
<1>2. ASSUME NEW u \in Clients, Holds(evq', RequestEvent(u))
      PROVE  u \in Queued \/ \E r \in Asked : SendMsg(u, r)
  <2>1. RequestEvent(u) \notin Answer /\ \A b : RequestEvent(u) # DeadEvent(b) /\ RequestEvent(u) # FeaturesEvent(b)
    BY EventKinds
  <2>2. \A v : RequestEvent(u) = RequestEvent(v) => u = v
    BY EventKinds
  <2>3. QED
    BY <1>2, <2>1, <2>2, QueueHolds DEF Queued
<1>3. ASSUME NEW v \in Clients, NEW r \in Asked, SendMsg(v, r) PROVE FreshInv'
  <2>1. replied' = [replied EXCEPT ![v] = << >>] /\ req' = [req EXCEPT ![v] = r]
    BY <1>3 DEF SendMsg
  <2>2. ASSUME NEW u \in Clients, Holds(evq', RequestEvent(u)) PROVE u \in Queued \/ u = v
    <3>1. PICK e \in Event : e = RequestEvent(v) /\ evq' = Append(evq, e)
      BY <1>3, SendMsgFacts, EventFacts DEF Known
    <3>2. Holds(evq, RequestEvent(u)) \/ RequestEvent(u) = e
      BY <2>2, <3>1, PutFacts DEF Known, Types, ServiceType
    <3>3. QED
      BY <3>1, <3>2, EventKinds DEF Queued
  <2>3. QED
    BY <1>1, <2>1, <2>2 DEF FreshInv, Queued
<1>4. ASSUME NEW c \in Conns, SwitchReplies(c) \/ SwitchError(c),
             \A v \in Clients, r \in Asked : ~SendMsg(v, r)
      PROVE  FreshInv'
  <2>1. PICK v \in Clients, a \in Answer :
           /\ replied' = [replied EXCEPT ![v] = Append(@, a.cls)]
           /\ req[v].kind = "other" /\ v \notin Queued /\ UNCHANGED req
    BY <1>4, SaidFacts
  <2>2. \A u \in Clients : Holds(evq', RequestEvent(u)) => u \in Queued
    BY <1>2, <1>4
  <2>3. \A u \in Clients : u # v => replied'[u] = replied[u]
    BY <1>1, <2>1
  <2>4. QED
    BY <1>1, <2>1, <2>2, <2>3 DEF FreshInv, Queued
<1>5. ASSUME \A c \in Conns : ~SwitchReplies(c) /\ ~SwitchError(c),
             \A v \in Clients, r \in Asked : ~SendMsg(v, r)
      PROVE  FreshInv'
  <2>1. UNCHANGED <<replied, req>>
    BY <1>5, RepliedSame
  <2>2. \A u \in Clients : Holds(evq', RequestEvent(u)) => u \in Queued
    BY <1>2, <1>5
  <2>3. QED
    BY <1>1, <2>1, <2>2 DEF FreshInv, Queued
<1>6. QED
  BY <1>3, <1>4, <1>5

\* The answers are exact, at every step.
LEMMA ExactNext ==
    ASSUME Known, [Next]_vars
    PROVE  AnswersExact'
<1> USE DEF connVars, serviceVars, clientVars
<1>1. /\ replied \in [Clients -> Seq(Replies)] /\ req \in [Clients -> Asked]
      /\ state \in [Clients -> {"idle", "waiting", "answered"}] /\ DOMAIN answer = Clients
      /\ evq \in Seq(Event)
  BY DEF Known, Types, ClientType, ServiceType
<1> DEFINE Exact(s, a, r, q) ==
             s = "answered" =>
                \/ a.kind = "InvalidDatapath"
                \/ /\ a.msgs = r
                   /\ a.kind = "result" <=> "error" \notin Range(r) /\ (Len(r) <= 1 \/ q.multi)
<1>2. \A u \in Clients : Exact(state[u], answer[u], replied[u], req[u])
  BY DEF Known, FlowInv, AnswersExact
<1>3. SUFFICES ASSUME NEW u \in Clients PROVE Exact(state'[u], answer'[u], replied'[u], req'[u])
  BY DEF AnswersExact
<1> HIDE DEF Exact
<1>4. CASE UNCHANGED <<state, answer, replied, req>>
  BY <1>2, <1>4
<1>5. CASE state'[u] # "answered"
  BY <1>5 DEF Exact
<1>6. ASSUME NEW c \in Conns, SwitchReplies(c) \/ SwitchError(c)
      PROVE  Exact(state'[u], answer'[u], replied'[u], req'[u])
  <2>1. PICK v \in Clients, a \in Answer :
           /\ replied' = [replied EXCEPT ![v] = Append(@, a.cls)]
           /\ state[v] = "waiting" /\ UNCHANGED <<req, state, answer>>
    BY <1>6, SaidFacts
  <2>2. u # v => replied'[u] = replied[u]
    BY <1>1, <2>1
  <2>3. QED
    BY <1>2, <1>5, <2>1, <2>2
<1>7. ASSUME NEW v \in Clients, NEW r \in Asked, SendMsg(v, r)
      PROVE  Exact(state'[u], answer'[u], replied'[u], req'[u])
  <2>1. CASE u = v
    BY <1>1, <1>5, <1>7, <2>1 DEF SendMsg
  <2>2. CASE u # v
    <3>1. state'[u] = state[u] /\ answer'[u] = answer[u] /\ replied'[u] = replied[u] /\ req'[u] = req[u]
      BY <1>1, <1>7, <2>2 DEF SendMsg
    <3>2. QED
      BY <1>2, <3>1
  <2>3. QED
    BY <2>1, <2>2
<1>8. ASSUME NEW v \in Clients, NEW rep, Reply(v, rep), UNCHANGED <<replied, req>>,
             Exact("answered", rep, replied[v], req[v])
      PROVE  Exact(state'[u], answer'[u], replied'[u], req'[u])
  <2>1. CASE u = v
    BY <1>1, <1>8, <2>1 DEF Reply
  <2>2. CASE u # v
    BY <1>1, <1>2, <1>8, <2>2 DEF Reply
  <2>3. QED
    BY <2>1, <2>2
<1>9. CASE RefuseSend
  <2>1. PICK rep : rep = [kind |-> "InvalidDatapath", msgs |-> << >>]
    OBVIOUS
  <2>2. Head(evq).client \in Clients
    BY <1>9, RefuseSendFacts DEF Known
  <2>3. Reply(Head(evq).client, rep) /\ UNCHANGED <<replied, req>>
    BY <1>9, <2>1 DEF RefuseSend
  <2>4. \A r, q : Exact("answered", rep, r, q)
    BY <2>1 DEF Exact
  <2>5. QED
    BY <1>8, <2>2, <2>3, <2>4
<1>10. ASSUME NEW i \in Conns, NEW p \in pending[i], p \in InfoEntry, Ends(i, p), HandleBarrier,
              IdOf[Head(evq).conn] \in DOMAIN switches, i = switches[IdOf[Head(evq).conn]],
              p.barrier = Head(evq).xid
       PROVE  Exact(state'[u], answer'[u], replied'[u], req'[u])
  <2>1. PICK v \in Clients : v = p.client
    BY <1>10 DEF InfoEntry
  <2>2. /\ req[v].conn = i /\ Registered(i)
        /\ \A n \in 1 .. Len(evq) : n > 1 => ~AnswerOn(evq[n], v)
    BY <1>10, <2>1, BarrierEntry
  <2>3. evq # << >> /\ Head(evq) \in Answer /\ Head(evq).cls = "barrier"
    BY <1>10, HandleBarrierFacts DEF Known, Take
  <2>4. Len(evq) \in Nat /\ Head(evq) = evq[1]
    BY <1>1, <2>3, HeadTailProperties, LenProperties
  <2>5. \A n \in 1 .. Len(evq) : ~ReplyOn(evq[n], v)
    <3>1. ~ReplyOn(evq[1], v)
      BY <2>3, <2>4, AnswerOnFacts DEF Known
    <3>2. \A n \in 1 .. Len(evq) : n > 1 \/ n = 1
      BY <2>4
    <3>3. QED
      BY <2>2, <3>1, <3>2 DEF ReplyOn
  <2>6. OnTheWay(p.results, replied[v], evq, v)
    BY <2>1, <2>2 DEF Known, FlowInv, ResultsInv
  <2>7. p.results \in Seq(Replies) /\ replied[v] \in Seq(Replies)
    BY <1>1, <1>10 DEF InfoEntry
  <2>8. p.results = replied[v]
    BY <1>1, <2>5, <2>6, <2>7, WayEnd
  <2>9. PICK rep : rep = BarrierAnswer(req[v], replied[v])
    OBVIOUS
  <2>10. Reply(v, rep) /\ UNCHANGED <<replied, req>>
    BY <1>10, <2>1, <2>8, <2>9 DEF Ends
  <2>11. rep.msgs = replied[v]
    BY <2>9 DEF BarrierAnswer
  <2>12. rep.kind = "result" <=>
            "error" \notin Range(replied[v]) /\ (Len(replied[v]) <= 1 \/ req[v].multi)
    <3>1. CASE req[v].kind = "barrier"
      <4>1. replied[v] = << >>
        BY <3>1 DEF Known, FlowInv, FreshInv
      <4>2. rep.kind = "result"
        BY <2>9, <3>1 DEF BarrierAnswer
      <4>3. Len(replied[v]) = 0 /\ Range(replied[v]) = {}
        BY <4>1 DEF Range
      <4>4. QED
        BY <4>2, <4>3
    <3>2. CASE req[v].kind # "barrier"
      <4>1. rep.kind = IF "error" \in Range(replied[v]) THEN "OFError"
                       ELSE IF ~req[v].multi /\ Len(replied[v]) > 1 THEN "UnexpectedMultiReply"
                       ELSE "result"
        BY <2>9, <3>2 DEF BarrierAnswer
      <4>2. Len(replied[v]) \in Nat
        BY <2>7, LenProperties
      <4>3. QED
        BY <4>1, <4>2
    <3>3. QED
      BY <3>1, <3>2
  <2>13. Exact("answered", rep, replied[v], req[v])
    BY <2>11, <2>12 DEF Exact
  <2>14. QED
    BY <1>8, <2>10, <2>13
<1>11. CASE HandleBarrier
  <2>1. CASE Ignores
    BY <1>4, <2>1 DEF Ignores
  <2>2. QED
    BY <1>10, <1>11, <2>1, HandleBarrierFacts DEF Known
<1>12. QED
  BY <1>4, <1>6, <1>7, <1>9, <1>11 DEF Next, Service, SwitchStep, vars, Features, PortDesc, SwitchDone,
     SwitchBarrier, Die, HandleFeatures, HandleDead, HandleSend, HandleReply

\* A reply counts for the entry of the request it is about, and for no other.
LEMMA CountsExact ==
    ASSUME Known, HandleReply, NEW c \in Conns, NEW p \in pending[c], p \in InfoEntry, Registered(c),
           req[p.client].conn = c
    PROVE  p \in CountsFor(Head(evq)) <=> ReplyOn(Head(evq), p.client)
<1>1. PICK e : e = Head(evq)
  OBVIOUS
<1>2. e \in Answer /\ e.cls \in Replies /\ evq # << >> /\ evq \in Seq(Event)
  BY <1>1, HandleReplyFacts DEF Known, Take, Types, ServiceType
<1>3. PICK v \in Clients : v = e.about /\ AnswerOn(e, v) /\ ReplyOn(e, v)
  BY <1>2, AnswerOnFacts DEF Known
<1>4. \A u : ReplyOn(e, u) => u = v
  BY <1>2, <1>3, AnswerOnFacts DEF Known
<1>5. 1 \in 1 .. Len(evq) /\ evq[1] = e
  BY <1>1, <1>2, HeadTailProperties, LenProperties, EmptySeq
<1>6. /\ e.conn = req[v].conn
      /\ \E r \in pending[req[v].conn] : r.client = v /\ Reports(e, r)
  BY <1>3, <1>5 DEF Known, FlowInv, AnswerInv, AnswersIn
<1>7. e.cls # "barrier"
  BY <1>3 DEF ReplyOn
<1>8. PICK b \in Conns : b = req[v].conn
  BY RequestFacts DEF Known, Types, ClientType
<1>9. PICK r \in pending[b] : r.client = v /\ e.xid = r.xid /\ e.cls \in {r.cls, "error"}
  BY <1>6, <1>7, <1>8 DEF Reports
<1>10. r \in Infos /\ p \in Infos
  BY <1>9 DEF Infos
<1>11. ASSUME p \in CountsFor(e) PROVE p.client = v
  <2>1. p.xid = e.xid
    BY <1>11 DEF CountsFor, Entry
  <2>2. p = r
    BY <1>9, <1>10, <2>1 DEF Known, CoreInv, XidInv, XidsOf
  <2>3. QED
    BY <1>9, <2>2
<1>12. ASSUME p.client = v PROVE p \in CountsFor(e)
  <2>1. p = r /\ b = c
    BY <1>9, <1>12 DEF Known, CoreInv, ClientInv
  <2>2. IdOf[e.conn] \in DOMAIN switches /\ switches[IdOf[e.conn]] = c
    BY <1>6, <1>8, <2>1 DEF Registered
  <2>3. p \in Entry("xid", e.xid)
    BY <1>1, <1>9, <2>1, <2>2 DEF Entry
  <2>4. CASE e.cls = "error"
    BY <2>3, <2>4 DEF CountsFor
  <2>5. CASE e.cls # "error"
    <3>1. PICK k \in Classes : k = e.cls /\ p.cls = k
      BY <1>2, <1>9, <2>1, <2>5 DEF Replies
    <3>2. p \in WaitingFor(k)
      BY <1>10, <3>1 DEF WaitingFor
    <3>3. IsFiniteSet(WaitingFor(k)) /\ observing[k] = Cardinality(WaitingFor(k))
      BY DEF Known, CoreInv, CountInv
    <3>4. Cardinality(WaitingFor(k)) # 0 /\ Cardinality(WaitingFor(k)) \in Nat
      BY <3>2, <3>3, FS_EmptySet, FS_CardinalityType
    <3>5. observing[k] > 0
      BY <3>3, <3>4
    <3>6. QED
      BY <2>3, <3>1, <3>5 DEF CountsFor
  <2>6. QED
    BY <2>4, <2>5
<1>13. QED
  BY <1>1, <1>3, <1>4, <1>11, <1>12

\* The results of an entry and the replies on their way are all the replies, at
\* every step.
LEMMA ResultsNext ==
    ASSUME Known, [Next]_vars
    PROVE  ResultsInv'
<1> USE DEF connVars, serviceVars, clientVars
<1>1. /\ replied \in [Clients -> Seq(Replies)] /\ req \in [Clients -> Asked]
      /\ pending \in [Conns -> SUBSET InfoEntry] /\ evq \in Seq(Event)
      /\ \A p \in InfoEntry : p.client \in Clients /\ p.results \in Seq(Replies)
  BY DEF Known, Types, ClientType, ServiceType, InfoEntry
<1>2. ASSUME NEW c \in Conns, NEW p \in pending[c], Registered(c), req[p.client].conn = c
      PROVE  /\ OnTheWay(p.results, replied[p.client], evq, p.client)
             /\ p.client \in Clients /\ p.results \in Seq(Replies) /\ replied[p.client] \in Seq(Replies)
  BY <1>1, <1>2 DEF Known, FlowInv, ResultsInv
<1>3. SUFFICES ASSUME NEW c \in Conns, NEW r \in pending'[c], Registered(c)', req'[r.client].conn = c
               PROVE  OnTheWay(r.results, replied'[r.client], evq', r.client)
  BY DEF ResultsInv
<1>4. ASSUME NEW e \in Event, Put(e), Quiet(e), r \in pending[c], Registered(c), req[r.client].conn = c,
             replied'[r.client] = replied[r.client]
      PROVE  OnTheWay(r.results, replied'[r.client], evq', r.client)
  <2>1. ~ReplyOn(e, r.client)
    BY <1>4 DEF Quiet, ReplyOn
  <2>2. QED
    BY <1>1, <1>2, <1>4, <2>1, WayPut DEF Put
<1>5. ASSUME Take, ~ReplyOn(Head(evq), r.client), r \in pending[c], Registered(c),
             req[r.client].conn = c, replied'[r.client] = replied[r.client]
      PROVE  OnTheWay(r.results, replied'[r.client], evq', r.client)
  BY <1>1, <1>2, <1>5, WayTake DEF Take
<1>6. CASE UNCHANGED <<evq, replied, req, pending, switches>>
  <2>1. r \in pending[c] /\ Registered(c) /\ req[r.client].conn = c
    BY <1>3, <1>6 DEF Registered
  <2>2. QED
    BY <1>2, <1>6, <2>1
<1>7. ASSUME NEW b \in Conns, Features(b)
      PROVE  OnTheWay(r.results, replied'[r.client], evq', r.client)
  <2>1. Put(FeaturesEvent(b)) /\ FeaturesEvent(b) \in Event /\ Quiet(FeaturesEvent(b))
    BY <1>7, TypesFeatures, EventFacts, AnswerOnFacts DEF Known, Quiet
  <2>2. UNCHANGED <<replied, req, pending, switches>>
    BY <1>7 DEF Features
  <2>3. r \in pending[c] /\ Registered(c) /\ req[r.client].conn = c
    BY <1>3, <2>2 DEF Registered
  <2>4. QED
    BY <1>4, <2>1, <2>2, <2>3
<1>8. ASSUME NEW b \in Conns, Die(b)
      PROVE  OnTheWay(r.results, replied'[r.client], evq', r.client)
  <2>1. Put(DeadEvent(b)) /\ DeadEvent(b) \in Event /\ Quiet(DeadEvent(b))
    BY <1>8, DieFacts, EventFacts, AnswerOnFacts DEF Known, Quiet
  <2>2. UNCHANGED <<replied, req, pending, switches>>
    BY <1>8 DEF Die
  <2>3. r \in pending[c] /\ Registered(c) /\ req[r.client].conn = c
    BY <1>3, <2>2 DEF Registered
  <2>4. QED
    BY <1>4, <2>1, <2>2, <2>3
<1>9. ASSUME NEW b \in Conns, SwitchReplies(b) \/ SwitchError(b)
      PROVE  OnTheWay(r.results, replied'[r.client], evq', r.client)
  <2>1. PICK u \in Clients, a \in Answer :
           /\ evq' = Append(evq, a) /\ a.about = u /\ a.cls \in Replies /\ ReplyOn(a, u)
           /\ replied' = [replied EXCEPT ![u] = Append(@, a.cls)]
           /\ UNCHANGED <<pending, switches, req>>
    BY <1>9, SaidFacts
  <2>2. r \in pending[c] /\ Registered(c) /\ req[r.client].conn = c /\ a \in Event
    BY <1>3, <2>1, EventFacts DEF Registered
  <2>3. /\ OnTheWay(r.results, replied[r.client], evq, r.client)
        /\ r.client \in Clients /\ r.results \in Seq(Replies) /\ replied[r.client] \in Seq(Replies)
    BY <1>2, <2>2
  <2>4. CASE r.client = u
    <3>1. replied'[u] = Append(replied[u], a.cls)
      BY <1>1, <2>1
    <3>2. OnTheWay(r.results, Append(replied[u], a.cls), Append(evq, a), u)
      BY <1>1, <2>1, <2>2, <2>3, <2>4, WayReply
    <3>3. QED
      BY <2>1, <2>4, <3>1, <3>2
  <2>5. CASE r.client # u
    <3>1. ~ReplyOn(a, r.client)
      BY <2>1, <2>5, AnswerOnFacts DEF Known
    <3>2. replied'[r.client] = replied[r.client]
      BY <1>1, <2>1, <2>3, <2>5
    <3>3. OnTheWay(r.results, replied[r.client], Append(evq, a), r.client)
      BY <1>1, <2>2, <2>3, <3>1, WayPut
    <3>4. QED
      BY <2>1, <3>2, <3>3
  <2>6. QED
    BY <2>4, <2>5
<1>10. ASSUME NEW b \in Conns, SwitchBarrier(b)
       PROVE  OnTheWay(r.results, replied'[r.client], evq', r.client)
  <2>1. PICK a \in Answer : a.cls = "barrier" /\ Put(a)
    BY <1>10, BarrierFacts DEF Known, AnswerEvent
  <2>2. UNCHANGED <<replied, req, pending, switches>>
    BY <1>10 DEF SwitchBarrier
  <2>3. r \in pending[c] /\ Registered(c) /\ req[r.client].conn = c /\ a \in Event
    BY <1>3, <2>2, EventFacts DEF Registered
  <2>4. ~ReplyOn(a, r.client)
    BY <2>1, AnswerOnFacts DEF Known
  <2>5. /\ OnTheWay(r.results, replied[r.client], evq, r.client)
        /\ r.results \in Seq(Replies) /\ replied[r.client] \in Seq(Replies)
    BY <1>2, <2>3
  <2>6. OnTheWay(r.results, replied[r.client], Append(evq, a), r.client)
    BY <1>1, <2>3, <2>4, <2>5, WayPut
  <2>7. QED
    BY <2>1, <2>2, <2>5, <2>6 DEF Put
<1>11. ASSUME NEW u \in Clients, NEW x \in Asked, SendMsg(u, x)
       PROVE  OnTheWay(r.results, replied'[r.client], evq', r.client)
  <2>1. Put(RequestEvent(u)) /\ RequestEvent(u) \in Event /\ Quiet(RequestEvent(u))
    BY <1>11, SendMsgFacts, EventFacts, AnswerOnFacts DEF Known, Quiet
  <2>2. /\ UNCHANGED <<pending, switches>> /\ state[u] # "waiting"
        /\ req' = [req EXCEPT ![u] = x] /\ replied' = [replied EXCEPT ![u] = << >>]
    BY <1>11 DEF SendMsg
  <2>3. r \in pending[c] /\ Registered(c) /\ r.client \in Clients
    BY <1>1, <1>3, <2>2 DEF Registered
  <2>4. r.client # u
    BY <2>2, <2>3 DEF Known, CoreInv, ClientInv
  <2>5. req'[r.client] = req[r.client] /\ replied'[r.client] = replied[r.client]
    BY <1>1, <2>2, <2>3, <2>4
  <2>6. QED
    BY <1>3, <1>4, <2>1, <2>3, <2>5
<1>12. CASE HandleFeatures
  <2>1. PICK b \in Conns :
           /\ Head(evq) = FeaturesEvent(b) /\ evq # << >>
           /\ \A a : Registered(a)' <=> a = b \/ (Registered(a) /\ IdOf[a] # IdOf[b])
           /\ (\E a \in Conns : Replaces(b, a)) \/ evq' = Tail(evq)
    BY <1>12, FeaturesHandled DEF Known
  <2>2. UNCHANGED <<replied, req, pending>>
    BY <1>12 DEF HandleFeatures
  <2>3. c # b
    <3>1. Holds(evq, FeaturesEvent(b))
      BY <1>1, <2>1, TakeFacts
    <3>2. pending[b] = {}
      BY <3>1 DEF Known, FlowInv, InfoInv
    <3>3. QED
      BY <1>3, <2>2, <3>2
  <2>4. r \in pending[c] /\ Registered(c) /\ req[r.client].conn = c
    BY <1>3, <2>1, <2>2, <2>3
  <2>5. /\ OnTheWay(r.results, replied[r.client], evq, r.client)
        /\ r.results \in Seq(Replies) /\ replied[r.client] \in Seq(Replies)
    BY <1>2, <2>4
  <2>6. ~ReplyOn(Head(evq), r.client)
    BY <2>1, AnswerOnFacts DEF Known
  <2>7. PICK t \in Seq(Event) : t = Tail(evq)
    BY <1>1, <2>1, TakeFacts
  <2>8. OnTheWay(r.results, replied[r.client], t, r.client)
    BY <1>1, <2>1, <2>5, <2>6, <2>7, WayTake
  <2>9. ASSUME NEW a \in Conns, Replaces(b, a)
        PROVE  OnTheWay(r.results, replied'[r.client], evq', r.client)
    <3>1. evq' = Append(t, DeadEvent(a)) /\ DeadEvent(a) \in Event /\ ~ReplyOn(DeadEvent(a), r.client)
      BY <2>7, <2>9, AnswerOnFacts, EventFacts DEF Replaces, Known
    <3>2. OnTheWay(r.results, replied[r.client], Append(t, DeadEvent(a)), r.client)
      BY <2>5, <2>8, <3>1, WayPut
    <3>3. QED
      BY <2>2, <3>1, <3>2
  <2>10. QED
    BY <2>1, <2>2, <2>7, <2>8, <2>9
<1>13. CASE HandleDead
  <2>1. /\ Take /\ Head(evq) = DeadEvent(Head(evq).conn)
        /\ \A d \in DOMAIN switches' : d \in DOMAIN switches /\ switches'[d] = switches[d]
    BY <1>13, HandleDeadFacts DEF Known
  <2>2. UNCHANGED <<replied, req, pending>>
    BY <1>13 DEF HandleDead
  <2>3. r \in pending[c] /\ Registered(c) /\ req[r.client].conn = c
    BY <1>3, <2>1, <2>2 DEF Registered
  <2>4. ~ReplyOn(Head(evq), r.client)
    BY <2>1, AnswerOnFacts DEF Known
  <2>5. QED
    BY <1>5, <2>1, <2>2, <2>3, <2>4
<1>14. CASE RefuseSend
  <2>1. Take /\ Head(evq) = RequestEvent(Head(evq).client)
    BY <1>14, RefuseSendFacts DEF Known
  <2>2. UNCHANGED <<replied, req, pending, switches>>
    BY <1>14 DEF RefuseSend
  <2>3. r \in pending[c] /\ Registered(c) /\ req[r.client].conn = c
    BY <1>3, <2>2 DEF Registered
  <2>4. ~ReplyOn(Head(evq), r.client)
    BY <2>1, AnswerOnFacts DEF Known
  <2>5. QED
    BY <1>5, <2>1, <2>2, <2>3, <2>4
<1>15. CASE HandleSend
  <2>1. PICK u \in Clients : Take /\ Sends(u)
    BY <1>15, HandleSendFacts DEF Known
  <2>2. Head(evq) = RequestEvent(u) /\ UNCHANGED <<replied, req, switches>>
    BY <2>1 DEF Sends
  <2>3. \A v : ~ReplyOn(Head(evq), v)
    BY <2>2, AnswerOnFacts DEF Known
  <2>4. InfoOf(u) \in Conns
    BY <2>1, TargetFacts
  <2>5. r \in pending[c] \/ r = EntryOf(u)
    BY <1>1, <2>1, <2>4 DEF Sends
  <2>6. CASE r \in pending[c]
    BY <1>3, <1>5, <2>1, <2>2, <2>3, <2>6 DEF Registered
  <2>7. CASE r = EntryOf(u)
    <3>1. r.client = u /\ r.results = << >>
      BY <2>7 DEF EntryOf
    <3>2. u \in Queued
      BY <2>1, <2>2, TakeRequest DEF Known
    <3>3. replied[u] = << >> /\ NoEntry(u)
      BY <3>2 DEF Known, FlowInv, FreshInv, CoreInv, ClientInv, NoEntry
    <3>4. \A n \in 1 .. Len(evq) : ~ReplyOn(evq[n], u)
      BY <3>3, NoEntryFacts DEF Unheard, ReplyOn
    <3>5. OnTheWay(<< >>, << >>, evq, u)
      BY <1>1, <3>4, WayEnd
    <3>6. << >> \in Seq(Replies)
      BY EmptySeq
    <3>7. OnTheWay(<< >>, << >>, Tail(evq), u)
      BY <1>1, <2>1, <2>3, <3>5, <3>6, WayTake DEF Take
    <3>8. QED
      BY <2>1, <2>2, <3>1, <3>3, <3>7 DEF Take
  <2>8. QED
    BY <2>5, <2>6, <2>7
<1>16. CASE HandleBarrier
  <2>1. /\ Take /\ Head(evq) \in Answer /\ Head(evq).cls = "barrier"
        /\ UNCHANGED <<replied, req, switches>>
        /\ \A b \in Conns : pending'[b] \subseteq pending[b]
    BY <1>1, <1>16, HandleBarrierFacts DEF Known, Ends, Ignores
  <2>2. r \in pending[c] /\ Registered(c) /\ req[r.client].conn = c
    BY <1>3, <2>1 DEF Registered
  <2>3. ~ReplyOn(Head(evq), r.client)
    BY <2>1, AnswerOnFacts DEF Known
  <2>4. QED
    BY <1>5, <2>1, <2>2, <2>3
<1>17. CASE HandleReply
  <2>1. PICK e : e = Head(evq)
    OBVIOUS
  <2>2. /\ Take /\ e \in Answer /\ e.cls \in Replies
        /\ pending' = [b \in Conns |-> {Extended(p, e) : p \in pending[b]}]
        /\ UNCHANGED <<replied, req, switches>>
        /\ \A p \in InfoEntry :
              LET q == Extended(p, e)
              IN  /\ q.client = p.client
                  /\ q.results = IF p \in CountsFor(e) THEN Append(p.results, e.cls) ELSE p.results
    BY <1>17, <2>1, HandleReplyFacts DEF Known
  <2>3. PICK p \in pending[c] : r = Extended(p, e)
    BY <2>2
  <2>4. /\ p \in InfoEntry /\ r.client = p.client
        /\ r.results = IF p \in CountsFor(e) THEN Append(p.results, e.cls) ELSE p.results
    BY <1>1, <2>2, <2>3
  <2>5. Registered(c) /\ req[p.client].conn = c
    BY <1>3, <2>2, <2>4 DEF Registered
  <2>6. p \in CountsFor(e) <=> ReplyOn(e, p.client)
    BY <1>17, <2>1, <2>4, <2>5, CountsExact
  <2>7. /\ OnTheWay(p.results, replied[p.client], evq, p.client)
        /\ p.results \in Seq(Replies) /\ replied[p.client] \in Seq(Replies)
    BY <1>2, <2>5
  <2>8. CASE ReplyOn(e, p.client)
    <3>1. OnTheWay(Append(p.results, e.cls), replied[p.client], Tail(evq), p.client)
      BY <1>1, <2>1, <2>2, <2>7, <2>8, WayCount DEF Take
    <3>2. QED
      BY <2>2, <2>4, <2>6, <2>8, <3>1 DEF Take
  <2>9. CASE ~ReplyOn(e, p.client)
    <3>1. OnTheWay(p.results, replied[p.client], Tail(evq), p.client)
      BY <1>1, <2>1, <2>2, <2>7, <2>9, WayTake DEF Take
    <3>2. QED
      BY <2>2, <2>4, <2>6, <2>9, <3>1 DEF Take
  <2>10. QED
    BY <2>8, <2>9
<1>18. QED
  BY <1>6, <1>7, <1>8, <1>9, <1>10, <1>11, <1>12, <1>13, <1>14, <1>15, <1>16, <1>17
     DEF Next, Service, SwitchStep, vars, PortDesc, SwitchDone

\* All of it holds in every state.
LEMMA FlowHolds == ASSUME NoFeatures PROVE Spec => [](Types /\ CoreInv /\ ObserversInv /\ RegInv /\ FlowInv)
<1>1. Init => Types /\ CoreInv /\ ObserversInv /\ RegInv /\ FlowInv
  BY TypesInit, CoreInit, ObserversStep, RegInit, FlowInit
<1>2. Types /\ CoreInv /\ ObserversInv /\ RegInv /\ FlowInv /\ [Next]_vars =>
         (Types /\ CoreInv /\ ObserversInv /\ RegInv /\ FlowInv)'
  <2>1. SUFFICES ASSUME Types, CoreInv, ObserversInv, RegInv, FlowInv, [Next]_vars
                 PROVE  (Types /\ CoreInv /\ ObserversInv /\ RegInv /\ FlowInv)'
    OBVIOUS
  <2>2. Known
    BY <2>1 DEF Known
  <2>3. Types' /\ CoreInv' /\ ObserversInv' /\ RegInv'
    BY <2>1, TypesNext, CoreNext, ObserversStep, RegNext
  <2>4. FlowInv'
    BY <2>1, <2>2, LateNext, PortsNext, SentNext, AnswersNext, ResultsNext, InfoNext, FreshNext,
       ExactNext DEF FlowInv
  <2>5. QED
    BY <2>3, <2>4
<1>3. QED
  BY <1>1, <1>2, PTL DEF Spec

\* The answer a client gets is exactly what the switch said about its request:
\* the replies are in the results of the entry or on their way, in order, the
\* barrier reply is behind them, and the service observes their class until
\* then.  It takes requests that do not expect features replies.
THEOREM OfctlAnswers == ASSUME NoFeatures PROVE Spec => []AnswersExact
<1>1. FlowInv => AnswersExact
  BY DEF FlowInv
<1>2. QED
  BY <1>1, FlowHolds, PTL

=============================================================================
