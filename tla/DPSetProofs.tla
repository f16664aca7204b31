---------------------------- MODULE DPSetProofs ----------------------------
(***************************************************************************)
(* Proofs about the version negotiation and about DPSet, for every set of  *)
(* connections, switches, versions and ports.                              *)
(***************************************************************************)
EXTENDS DPSet, ProofLemmas

(***************************************************************************)
(* The version negotiation.                                                *)
(***************************************************************************)

\* Max and Min of a non-empty set of versions are its bounds.
LEMMA MaxFacts ==
    ASSUME NEW S \in SUBSET Versions, S # {}
    PROVE  Max(S) \in S /\ \A y \in S : Max(S) >= y
<1>1. IsFiniteSet(S)
  BY VersionsAssumption, FS_Subset
<1>2. \E x \in S : \A y \in S : x >= y
  <2>1. S \in SUBSET Int
    BY VersionsAssumption
  <2>2. QED
    BY <1>1, <2>1, MaxExists
<1>3. QED
  BY <1>2 DEF Max

\* The smaller of two numbers.
LEMMA MinFacts ==
    ASSUME NEW a \in Int, NEW b \in Int
    PROVE  Min({a, b}) = IF a <= b THEN a ELSE b
<1> DEFINE m == IF a <= b THEN a ELSE b
<1>1. m \in {a, b} /\ \A y \in {a, b} : m =< y
  OBVIOUS
<1>2. \A x \in {a, b} : (\A y \in {a, b} : x =< y) => x = m
  OBVIOUS
<1> HIDE DEF m
<1>3. QED
  BY <1>1, <1>2 DEF Min

\* hello_handler ends with a version exactly if the controller and the switch
\* agree on it.
LEMMA NegotiationExact ==
    ASSUME NEW h \in Hellos, NEW v \in Versions
    PROVE  Negotiate(h) = v <=> AgreedVersion(h, v)
<1> DEFINE top == Max(Supported)
           best == Max(Usable(h))
<1>1. /\ h.version \in Int /\ h.elements \in BOOLEAN
      /\ h.bitmap \subseteq Versions /\ \A w \in h.bitmap : w \in Int
  <2>1. h.version \in Versions /\ h.elements \in BOOLEAN /\ h.bitmap \subseteq Versions
    BY DEF Hellos
  <2>2. \A w \in Versions : w \in Int
    BY VersionsAssumption
  <2>3. QED
    BY <2>1, <2>2
<1>2. /\ v \in Int /\ v # 0
      /\ Supported \subseteq Versions /\ Supported # {}
      /\ \A s \in Supported : s \in Int
  BY VersionsAssumption
<1>3. top \in Supported /\ \A s \in Supported : top >= s
  BY <1>2, MaxFacts
<1>4. Usable(h) \subseteq Supported
  BY DEF Usable
<1>5. Usable(h) # {} => best \in Usable(h) /\ \A s \in Usable(h) : best >= s
  BY <1>2, <1>4, MaxFacts
<1>6. Negotiate(h) = v <=> Usable(h) # {} /\ best = SwitchChoice(h) /\ best = v
  BY <1>2 DEF Negotiate, Failed
<1> HIDE DEF best
<1>7. CASE h.elements
  <2> DEFINE low == {w \in h.bitmap : w <= top}
             last == Max(low)
  <2>1. Usable(h) = h.bitmap \cap Supported /\ Usable(h) \subseteq low
    BY <1>7, <1>1, <1>2, <1>3 DEF Usable
  <2>2. SwitchChoice(h) = last
    BY <1>7 DEF SwitchChoice
  <2>3. low \subseteq Versions /\ (low # {} => last \in low /\ \A w \in low : last >= w)
    BY <1>1, MaxFacts
  <2> HIDE DEF last, top
  <2>4. ASSUME Usable(h) # {}, best = last, best = v
        PROVE  AgreedVersion(h, v)
    <3>1. v \in h.bitmap /\ v \in Supported /\ \A w \in low : v >= w
      BY <2>4, <2>1, <2>3, <1>5
    <3>2. ASSUME NEW w \in h.bitmap, w > v, NEW s \in Supported PROVE s < w
      <4>1. w \in Int /\ s \in Int /\ top \in Int /\ top >= s
        BY <3>2, <1>1, <1>2, <1>3
      <4>2. w \notin low
        BY <3>1, <3>2, <4>1, <1>2
      <4>3. QED
        BY <4>1, <4>2
    <3>3. QED
      BY <1>7, <3>1, <3>2 DEF AgreedVersion
  <2>5. ASSUME AgreedVersion(h, v)
        PROVE  Usable(h) # {} /\ best = last /\ best = v
    <3>1. /\ v \in h.bitmap /\ v \in Supported
          /\ \A w \in h.bitmap : w > v => \A s \in Supported : s < w
      BY <1>7, <2>5 DEF AgreedVersion
    <3>2. v \in Usable(h) /\ v \in low
      BY <3>1, <2>1
    <3>3. best \in Usable(h) /\ best >= v /\ last \in low /\ last >= v
      BY <3>2, <1>5, <2>3
    <3>4. best \in Int /\ last \in Int /\ best \in h.bitmap /\ best \in Supported
          /\ last \in h.bitmap /\ ~(top < last)
      BY <3>3, <2>1, <1>1, <1>2, <1>3
    <3>5. ~(best > v) /\ ~(last > v)
      BY <3>1, <3>4, <1>2, <1>3
    <3>6. QED
      BY <3>2, <3>3, <3>4, <3>5, <1>2
  <2>6. QED
    BY <1>6, <2>2, <2>4, <2>5
<1>8. CASE ~h.elements
  <2>1. Usable(h) = {s \in Supported : s <= h.version}
    BY <1>8 DEF Usable
  <2>2. SwitchChoice(h) = IF h.version <= top THEN h.version ELSE top
    <3>1. h.version \in Int /\ top \in Int
      BY <1>1, <1>2, <1>3
    <3>2. SwitchChoice(h) = Min({h.version, top})
      BY <1>8 DEF SwitchChoice
    <3> HIDE DEF top
    <3>3. QED
      BY <3>1, <3>2, MinFacts
  <2> HIDE DEF top
  <2>3. AgreedVersion(h, v) <=>
          /\ v \in Supported
          /\ \/ v = h.version /\ \E s \in Supported : s >= v
             \/ v <= h.version /\ \A s \in Supported : s <= v
    BY <1>8 DEF AgreedVersion
  <2>4. ASSUME Usable(h) # {}, best = SwitchChoice(h), best = v
        PROVE  AgreedVersion(h, v)
    BY <2>4, <2>1, <2>2, <2>3, <1>1, <1>2, <1>3, <1>5
  <2>5. ASSUME AgreedVersion(h, v)
        PROVE  Usable(h) # {} /\ best = SwitchChoice(h) /\ best = v
    <3>1. v \in Supported /\ v <= h.version /\ h.version \in Int /\ top \in Int
      BY <2>3, <2>5, <1>1, <1>2, <1>3
    <3>2. v \in Usable(h)
      BY <3>1, <2>1
    <3>3. best \in Int /\ best \in Supported /\ best <= h.version /\ best >= v /\ best <= top
      BY <3>2, <2>1, <1>2, <1>3, <1>5
    <3>4. CASE v = h.version
      BY <3>1, <3>2, <3>3, <3>4, <2>2, <1>2, <1>3
    <3>5. CASE v # h.version
      <4>1. v = top
        BY <3>5, <2>3, <2>5, <3>1, <1>2, <1>3
      <4>2. QED
        BY <4>1, <3>1, <3>2, <3>3, <3>5, <2>2
    <3>6. QED
      BY <3>4, <3>5
  <2>6. QED
    BY <1>6, <2>4, <2>5
<1>9. QED
  BY <1>1, <1>7, <1>8

\* hello_handler fails a hello with a gap; it accepts any other one exactly when
\* there is a version on which the controller and the switch agree, and uses it.
THEOREM NegotiationCorrect == NegotiationSound
  BY NegotiationExact DEF NegotiationSound, Gap, Negotiate

\* A negotiation that does not fail ends with a supported, agreed version.
LEMMA NegotiateFacts ==
    ASSUME NEW h \in Hellos, Negotiate(h) # Failed
    PROVE  Negotiate(h) \in Supported /\ AgreedVersion(h, Negotiate(h))
<1>1. Usable(h) \subseteq Supported
  BY DEF Usable
<1>2. Negotiate(h) = Max(Usable(h)) /\ Usable(h) # {}
  BY DEF Negotiate
<1>3. Negotiate(h) \in Supported
  BY <1>1, <1>2, VersionsAssumption, MaxFacts
<1>4. QED
  BY <1>3, NegotiationExact, VersionsAssumption

-----------------------------------------------------------------------------
(***************************************************************************)
(* Types.                                                                  *)
(***************************************************************************)
Status == [type : {"status"}, reason : {"add", "modify", "delete"},
           port : PortNos, attr : PortAttrs]

Message == Status \cup [type : {"features"}, ports : Ports]
                  \cup [type : {"port_desc"}, ports : Ports, more : BOOLEAN]

Event == [type : {"state"}, conn : Conns, phase : {"main", "dead"}]
         \cup [type : {"status"}, conn : Conns, status : Status]

RegisterJob(c) == [do |-> "register", conn |-> c]

UnregisterJob(c) == [do |-> "unregister", conn |-> c]

Jobs == {Idle} \cup {RegisterJob(c) : c \in Conns} \cup {UnregisterJob(c) : c \in Conns}

ConnType ==
    /\ phase \in [Conns -> {"none", "handshake", "config", "main", "dead"}]
    /\ ver \in [Conns -> Supported \cup {0}]
    /\ said \in [Conns -> Seq(SwitchHello)]
    /\ ports \in [Conns -> Ports]
    /\ pending \in [Conns -> Seq(Status)]
    /\ \A c \in Conns : Len(pending[c]) <= 1

WireType ==
    /\ swports \in [Dpids -> Ports]
    /\ asked \in [Conns -> {"nothing", "features", "port_desc", "rest"}]
    /\ rest \in [Conns -> Ports]
    /\ wire \in [Conns -> Seq(Message)]

SetType ==
    /\ evq \in Seq(Event)
    /\ job \in Jobs
    /\ DOMAIN dps \subseteq Dpids
    /\ \A d \in DOMAIN dps : dps[d] \in Conns /\ DpidOf[dps[d]] = d
    /\ DOMAIN pstate = DOMAIN dps
    /\ \A d \in DOMAIN pstate : pstate[d] \in Ports
    /\ announced \in [Dpids -> Seq({"enter", "reconnected", "leave"})]

\* A handler of DPSet that is in the middle belongs to a registered switch.
JobInv ==
    \A c \in Conns : job \in {RegisterJob(c), UnregisterJob(c)} => DpidOf[c] \in DOMAIN dps

Types == ConnType /\ WireType /\ SetType /\ JobInv

(***************************************************************************)
(* What is on the wire: the reply that ends the configuration comes once.  *)
(***************************************************************************)

\* A message that ends what the switch was asked for.
Final(m) == m.type = "features" \/ (m.type = "port_desc" /\ ~m.more)

OnlyStatus(q) == \A i \in 1 .. Len(q) : q[i].type = "status"

NoFinal(q) == \A i \in 1 .. Len(q) : ~Final(q[i])

FinalLast(q) ==
    \A i, j \in 1 .. Len(q) : i < j /\ Final(q[i]) => q[j].type = "status"

\* Replies travel in the config phase only, one request at a time, and behind
\* the last part of a reply there are only port status messages.
WireOK(request, p, q) ==
    /\ request # "nothing" => p = "config"
    /\ ~OnlyStatus(q) => p = "config"
    /\ request \in {"features", "port_desc"} => OnlyStatus(q)
    /\ request = "rest" => NoFinal(q)
    /\ FinalLast(q)

WireInv == \A c \in Conns : WireOK(asked[c], phase[c], wire[c])

(***************************************************************************)
(* The registry: where the main event and the dead event of a connection   *)
(* can be, and what DPSet then knows of it.                                *)
(***************************************************************************)
MainEvent(c) == StateEvent(c, "main")

DeadEvent(c) == StateEvent(c, "dead")

Registered(c) == DpidOf[c] \in DOMAIN dps /\ dps[DpidOf[c]] = c

Old(c) == dps[DpidOf[c]]

\* The main event comes once, and before the connection is registered.
MainOnce ==
    \A c \in Conns :
        /\ Unique(evq, MainEvent(c))
        /\ Holds(evq, MainEvent(c)) =>
              /\ phase[c] \in {"main", "dead"}
              /\ ~Registered(c)
              /\ job # RegisterJob(c)

\* A handler that waits for the old connection's close has it dead already.
Waiting ==
    \A c \in Conns :
        /\ job = RegisterJob(c) => /\ phase[c] \in {"main", "dead"}
                                   /\ ~Registered(c)
                                   /\ phase[Old(c)] = "dead"
        /\ job = UnregisterJob(c) => Registered(c) /\ phase[c] = "dead"

\* A connection in the main phase is known to DPSet, or will be.
MainKnown ==
    \A c \in Conns :
        /\ Registered(c) => phase[c] \in {"main", "dead"}
        /\ phase[c] = "main" =>
              Holds(evq, MainEvent(c)) \/ job = RegisterJob(c) \/ Registered(c)

\* A dead connection is taken out of the registry, or will be.
DeadKnown ==
    \A c \in Conns :
        /\ Holds(evq, DeadEvent(c)) => phase[c] = "dead"
        /\ phase[c] = "dead" =>
              /\ Followed(evq, MainEvent(c), DeadEvent(c))
              /\ Registered(c) => Holds(evq, DeadEvent(c)) \/ job = UnregisterJob(c)
              /\ job = RegisterJob(c) => Holds(evq, DeadEvent(c))

RegInv == MainOnce /\ Waiting /\ MainKnown /\ DeadKnown

\* The last thing said of a switch is that it is there.
Inside(s) == s # << >> /\ s[Len(s)] # "leave"

-----------------------------------------------------------------------------
(***************************************************************************)
(* The operators on partial functions.                                     *)
(***************************************************************************)

\* A table of ports stays one whatever is added, replaced or removed.
LEMMA PortsFacts ==
    ASSUME NEW f \in Ports
    PROVE  /\ NoPorts \in Ports
           /\ \A p \in PortNos, a \in PortAttrs : With(f, p, a) \in Ports
           /\ \A p : Minus(f, p) \in Ports
           /\ \A s \in Status : Applied(f, s) \in Ports
           /\ \A g \in Ports : Updated(f, g) \in Ports
           /\ \A S \in SUBSET DOMAIN f : Restrict(f, S) \in Ports
<1>1. PICK D \in SUBSET PortNos : f \in [D -> PortAttrs]
  BY DEF Ports
<1>2. NoPorts \in Ports
  <2>1. << >> \in [{} -> PortAttrs]
    OBVIOUS
  <2>2. QED
    BY <2>1 DEF Ports, NoPorts
<1>3. ASSUME NEW p \in PortNos, NEW a \in PortAttrs PROVE With(f, p, a) \in Ports
  <2>1. With(f, p, a) \in [D \cup {p} -> PortAttrs]
    BY <1>1 DEF With
  <2>2. QED
    BY <2>1 DEF Ports
<1>4. ASSUME NEW p PROVE Minus(f, p) \in Ports
  <2>1. Minus(f, p) \in [D \ {p} -> PortAttrs]
    BY <1>1 DEF Minus, Restrict
  <2>2. QED
    BY <2>1 DEF Ports
<1>5. ASSUME NEW g \in Ports PROVE Updated(f, g) \in Ports
  <2>1. PICK E \in SUBSET PortNos : g \in [E -> PortAttrs]
    BY DEF Ports
  <2>2. Updated(f, g) \in [D \cup E -> PortAttrs]
    BY <1>1, <2>1 DEF Updated
  <2>3. QED
    BY <2>2 DEF Ports
<1>6. ASSUME NEW S \in SUBSET DOMAIN f PROVE Restrict(f, S) \in Ports
  <2>1. S \in SUBSET PortNos /\ Restrict(f, S) \in [S -> PortAttrs]
    BY <1>1 DEF Restrict
  <2>2. QED
    BY <2>1 DEF Ports
<1>7. ASSUME NEW s \in Status PROVE Applied(f, s) \in Ports
  BY <1>3, <1>4 DEF Status, Applied
<1>8. QED
  BY <1>2, <1>3, <1>4, <1>5, <1>6, <1>7

\* The ports a switch starts with, and no ports, are tables of ports.
LEMMA SomePorts == InitPorts \in Ports /\ NoPorts \in Ports
<1>1. InitPorts \in Ports
  BY DPSetAssumption DEF Ports
<1>2. QED
  BY <1>1, PortsFacts

\* A job names its handler and, unless DPSet is idle, its connection.
LEMMA JobFacts ==
    /\ Idle \in Jobs
    /\ \A c \in Conns : RegisterJob(c) \in Jobs /\ UnregisterJob(c) \in Jobs
    /\ \A c, e : RegisterJob(c) # Idle /\ UnregisterJob(c) # Idle
                 /\ RegisterJob(c) # UnregisterJob(e)
                 /\ (RegisterJob(c) = RegisterJob(e) => c = e)
                 /\ (UnregisterJob(c) = UnregisterJob(e) => c = e)
    /\ \A j \in Jobs : j.do = "register" => j.conn \in Conns /\ j = RegisterJob(j.conn)
    /\ \A j \in Jobs : j.do = "unregister" => j.conn \in Conns /\ j = UnregisterJob(j.conn)
<1>1. \A c : /\ RegisterJob(c).do = "register" /\ RegisterJob(c).conn = c
             /\ UnregisterJob(c).do = "unregister" /\ UnregisterJob(c).conn = c
  BY DEF RegisterJob, UnregisterJob
<1>2. Idle.do = "idle"
  BY DEF Idle
<1>3. QED
  BY <1>1, <1>2 DEF Jobs

\* The messages and events the code makes and takes apart.
LEMMA MessageFacts ==
    /\ \A reason \in {"add", "modify", "delete"}, p \in PortNos, a \in PortAttrs :
          LET m == [type |-> "status", reason |-> reason, port |-> p, attr |-> a]
          IN  m \in Status /\ m \in Message /\ m.type = "status"
    /\ \A f \in Ports : [type |-> "features", ports |-> f] \in Message
    /\ \A f \in Ports, more \in BOOLEAN :
          [type |-> "port_desc", ports |-> f, more |-> more] \in Message
    /\ \A m \in Message : m.type = "features" => m.ports \in Ports
    /\ \A m \in Message : m.type = "port_desc" => m.ports \in Ports /\ m.more \in BOOLEAN
    /\ \A m \in Message : m.type = "status" => m \in Status
    /\ \A s \in Status : s.port \in PortNos /\ s.attr \in PortAttrs
<1>1. \A reason \in {"add", "modify", "delete"}, p \in PortNos, a \in PortAttrs :
          LET m == [type |-> "status", reason |-> reason, port |-> p, attr |-> a]
          IN  m \in Status /\ m \in Message /\ m.type = "status"
  BY DEF Status, Message
<1>2. \A f \in Ports : [type |-> "features", ports |-> f] \in Message
  BY DEF Message
<1>3. \A f \in Ports, more \in BOOLEAN :
          [type |-> "port_desc", ports |-> f, more |-> more] \in Message
  BY DEF Message
<1>4. ASSUME NEW m \in Message
      PROVE  /\ m.type = "features" => m.ports \in Ports
             /\ m.type = "port_desc" => m.ports \in Ports /\ m.more \in BOOLEAN
             /\ m.type = "status" => m \in Status
  BY DEF Message, Status
<1>5. \A s \in Status : s.port \in PortNos /\ s.attr \in PortAttrs
  BY DEF Status
<1>6. QED
  BY <1>1, <1>2, <1>3, <1>4, <1>5

\* The same for the events of DPSet's queue.
LEMMA EventFacts ==
    /\ \A c \in Conns : MainEvent(c) \in Event /\ DeadEvent(c) \in Event
    /\ \A c \in Conns, s \in Status :
          LET e == [type |-> "status", conn |-> c, status |-> s]
          IN  /\ e \in Event
              /\ \A b : e # MainEvent(b) /\ e # DeadEvent(b)
    /\ \A e \in Event : e.conn \in Conns
    /\ \A e \in Event : e.type = "state" /\ e.phase = "main" => e = MainEvent(e.conn)
    /\ \A e \in Event : e.type = "state" /\ e.phase = "dead" => e = DeadEvent(e.conn)
    /\ \A e \in Event : e.type = "status" =>
          e.status \in Status /\ \A b : e # MainEvent(b) /\ e # DeadEvent(b)
    /\ \A b, c : /\ MainEvent(b) # DeadEvent(c)
                 /\ MainEvent(b) = MainEvent(c) => b = c
                 /\ DeadEvent(b) = DeadEvent(c) => b = c
<1>1. \A c \in Conns : MainEvent(c) \in Event /\ DeadEvent(c) \in Event
  BY DEF Event, MainEvent, DeadEvent, StateEvent
<1>2. ASSUME NEW c \in Conns, NEW s \in Status
      PROVE  LET e == [type |-> "status", conn |-> c, status |-> s]
             IN  /\ e \in Event
                 /\ \A b : e # MainEvent(b) /\ e # DeadEvent(b)
  BY DEF Event, MainEvent, DeadEvent, StateEvent
<1>3. ASSUME NEW e \in Event
      PROVE  /\ e.conn \in Conns
             /\ e.type = "state" /\ e.phase = "main" => e = MainEvent(e.conn)
             /\ e.type = "state" /\ e.phase = "dead" => e = DeadEvent(e.conn)
             /\ e.type = "status" => e.status \in Status
             /\ e.type = "status" => \A b : e # MainEvent(b) /\ e # DeadEvent(b)
  BY DEF Event, MainEvent, DeadEvent, StateEvent
<1>4. ASSUME NEW b, NEW c
      PROVE  /\ MainEvent(b) # DeadEvent(c)
             /\ MainEvent(b) = MainEvent(c) => b = c
             /\ DeadEvent(b) = DeadEvent(c) => b = c
  <2>1. MainEvent(b).phase = "main" /\ DeadEvent(c).phase = "dead"
        /\ MainEvent(b).conn = b /\ MainEvent(c).conn = c
        /\ DeadEvent(b).conn = b /\ DeadEvent(c).conn = c
    BY DEF MainEvent, DeadEvent, StateEvent
  <2>2. QED
    BY <2>1
<1>5. QED
  BY <1>1, <1>2, <1>3, <1>4

-----------------------------------------------------------------------------
(***************************************************************************)
(* The types are kept.                                                     *)
(***************************************************************************)

\* The initial tables have their types.
LEMMA TypesInit == Init => Types
<1> SUFFICES ASSUME Init PROVE Types
  OBVIOUS
<1>1. ConnType
  BY SomePorts DEF Init, ConnType
<1>2. WireType
  BY SomePorts DEF Init, WireType
<1>3. SetType /\ JobInv
  BY JobFacts DEF Init, SetType, JobInv
<1>4. QED
  BY <1>1, <1>2, <1>3 DEF Types

\* What the switch sends is a message on the wire.
LEMMA SendType ==
    ASSUME WireType, NEW c \in Conns, NEW m \in Message, SwitchSends(c, m)
    PROVE  wire' \in [Conns -> Seq(Message)]
BY DEF WireType, SwitchSends

\* The steps of a switch keep the types.
LEMMA SwitchTypes ==
    ASSUME Types,
           \/ \E d \in Dpids, reason \in {"add", "modify", "delete"},
                 p \in PortNos, a \in PortAttrs : PortChange(d, reason, p, a)
           \/ \E c \in Conns : AnswerFeatures(c) \/ AnswerRest(c)
           \/ \E c \in Conns, now \in SUBSET PortNos : AnswerPortDesc(c, now)
    PROVE  Types'
<1> USE DEF Types
<1>1. UNCHANGED <<connVars, evq, setVars>>
  BY DEF PortChange, AnswerFeatures, AnswerRest, AnswerPortDesc
<1>2. ConnType' /\ SetType' /\ JobInv'
  BY <1>1 DEF ConnType, SetType, JobInv, connVars, setVars
<1>3. ASSUME NEW d \in Dpids, NEW reason \in {"add", "modify", "delete"},
             NEW p \in PortNos, NEW a \in PortAttrs, PortChange(d, reason, p, a)
      PROVE  WireType'
  <2> DEFINE m == [type |-> "status", reason |-> reason, port |-> p, attr |-> a]
  <2>1. m \in Message /\ m \in Status
    BY MessageFacts
  <2>2. /\ wire' = [c \in Conns |-> IF c \in Alive(d) THEN Append(wire[c], m) ELSE wire[c]]
        /\ swports' = [swports EXCEPT ![d] = Applied(@, m)]
    BY <1>3 DEF PortChange
  <2> HIDE DEF m
  <2>3. wire' \in [Conns -> Seq(Message)]
    BY <2>1, <2>2 DEF WireType
  <2>4. swports[d] \in Ports
    BY DEF WireType
  <2>5. Applied(swports[d], m) \in Ports
    BY <2>1, <2>4, PortsFacts
  <2>6. swports' \in [Dpids -> Ports]
    BY <2>2, <2>5 DEF WireType
  <2>7. QED
    BY <1>3, <2>3, <2>6 DEF PortChange, WireType
<1>4. ASSUME NEW c \in Conns, AnswerFeatures(c)
      PROVE  WireType'
  <2>1. swports[DpidOf[c]] \in Ports
    BY DPSetAssumption DEF WireType
  <2>2. wire' \in [Conns -> Seq(Message)]
    BY <1>4, <2>1, MessageFacts, SendType DEF AnswerFeatures
  <2>3. QED
    BY <1>4, <2>2 DEF AnswerFeatures, WireType
<1>5. ASSUME NEW c \in Conns, AnswerRest(c)
      PROVE  WireType'
  <2>1. rest[c] \in Ports
    BY DEF WireType
  <2>2. wire' \in [Conns -> Seq(Message)]
    BY <1>5, <2>1, MessageFacts, SendType DEF AnswerRest
  <2>3. QED
    BY <1>5, <2>2, SomePorts DEF AnswerRest, WireType
<1>6. ASSUME NEW c \in Conns, NEW now \in SUBSET PortNos, AnswerPortDesc(c, now)
      PROVE  WireType'
  <2> DEFINE all == swports[DpidOf[c]]
             more == now # DOMAIN all
             m == [type |-> "port_desc", ports |-> Restrict(all, now), more |-> more]
  <2>1. all \in Ports /\ now \subseteq DOMAIN all
    BY <1>6, DPSetAssumption DEF WireType, AnswerPortDesc
  <2>2. Restrict(all, now) \in Ports /\ Restrict(all, DOMAIN all \ now) \in Ports
    BY <2>1, PortsFacts
  <2>3. m \in Message
    BY <2>2, MessageFacts
  <2>4. wire' \in [Conns -> Seq(Message)]
    BY <1>6, <2>3, SendType DEF AnswerPortDesc
  <2>5. rest' = [rest EXCEPT ![c] = Restrict(all, DOMAIN all \ now)]
        /\ asked' = [asked EXCEPT ![c] = IF more THEN "rest" ELSE "nothing"]
        /\ swports' = swports
    BY <1>6 DEF AnswerPortDesc
  <2> HIDE DEF all, more, m
  <2>6. QED
    BY <2>2, <2>4, <2>5 DEF WireType
<1>7. QED
  BY <1>2, <1>3, <1>4, <1>5, <1>6

\* The steps of a connection keep the types.
LEMMA ConnTypes ==
    ASSUME Types, NEW c \in Conns,
           \/ Connect(c) \/ Die(c) \/ RecvStep(c)
           \/ \E h \in SwitchHello : Hello(c, h)
    PROVE  Types'
<1> USE DEF Types
<1>1. setVars' = setVars
  BY DEF Connect, Die, RecvStep, Features, PortDescReply, PortStatus, ApplyStatus, Hello
<1>2. ASSUME evq' \in Seq(Event) PROVE SetType' /\ JobInv'
  BY <1>1, <1>2 DEF SetType, JobInv, setVars
<1>3. evq \in Seq(Event)
  BY DEF SetType
<1>4. ASSUME NEW e \in Event, Notify(e) PROVE evq' \in Seq(Event)
  BY <1>3, <1>4 DEF Notify
<1>5. CASE Connect(c)
  BY <1>5, <1>2, <1>3 DEF Connect, ConnType, WireType, wireVars
<1>6. CASE Die(c)
  <2>1. evq' \in Seq(Event)
    BY <1>6, <1>4, EventFacts DEF Die, DeadEvent
  <2>2. wire' \in [Conns -> Seq(Message)]
    BY <1>6 DEF Die, Gone, WireType
  <2>3. WireType'
    BY <1>6, <2>2, SomePorts DEF Die, Gone, WireType
  <2>4. ConnType'
    BY <1>6 DEF Die, ConnType
  <2>5. QED
    BY <1>2, <2>1, <2>3, <2>4
<1>7. ASSUME NEW h \in SwitchHello, Hello(c, h) PROVE Types'
  <2>1. Negotiate(h) \in Supported
    BY <1>7, NegotiateFacts, DPSetAssumption DEF Hello
  <2>2. ConnType'
    <3> DEFINE one == <<h>>
    <3>1. one \in Seq(SwitchHello) /\ said' = [said EXCEPT ![c] = one]
      BY <1>7 DEF Hello
    <3> HIDE DEF one
    <3>2. QED
      BY <1>7, <2>1, <3>1 DEF Hello, ConnType
  <2>3. WireType'
    BY <1>7 DEF Hello, WireType
  <2>4. evq' = evq
    BY <1>7 DEF Hello
  <2>5. QED
    BY <1>2, <1>3, <2>2, <2>3, <2>4
<1>8. ASSUME NEW type, Reading(c, type)
      PROVE  /\ Head(wire[c]) \in Message /\ Head(wire[c]).type = type
             /\ [wire EXCEPT ![c] = Tail(@)] \in [Conns -> Seq(Message)]
  <2>1. wire[c] \in Seq(Message) /\ wire[c] # << >>
    BY <1>8 DEF Reading, WireType
  <2>2. Head(wire[c]) \in Message /\ Tail(wire[c]) \in Seq(Message)
    BY <2>1
  <2>3. QED
    BY <1>8, <2>2 DEF Reading, WireType
<1>9. CASE Features(c)
  <2>1. Head(wire[c]).ports \in Ports
    BY <1>8, <1>9, MessageFacts DEF Features
  <2>2. evq' \in Seq(Event)
    BY <1>3, <1>4, <1>9, EventFacts DEF Features, MainEvent
  <2>3. WireType'
    BY <1>8, <1>9 DEF Features, WireType
  <2>4. ConnType'
    BY <1>9, <2>1, SomePorts DEF Features, ConnType
  <2>5. QED
    BY <1>2, <2>2, <2>3, <2>4
<1>10. CASE PortDescReply(c)
  <2>1. Head(wire[c]).ports \in Ports
    BY <1>8, <1>10, MessageFacts DEF PortDescReply
  <2>2. evq' \in Seq(Event)
    BY <1>3, <1>4, <1>10, EventFacts DEF PortDescReply, MainEvent
  <2>3. WireType'
    BY <1>8, <1>10 DEF PortDescReply, WireType
  <2>4. Updated(ports[c], Head(wire[c]).ports) \in Ports
    BY <2>1, PortsFacts DEF ConnType
  <2>5. ConnType'
    BY <1>10, <2>4 DEF PortDescReply, ConnType
  <2>6. QED
    BY <1>2, <2>2, <2>3, <2>5
<1>11. CASE PortStatus(c)
  <2>1. Head(wire[c]) \in Status
    BY <1>8, <1>11, MessageFacts DEF PortStatus
  <2>2. evq' \in Seq(Event)
    BY <1>3, <1>4, <1>11, <2>1, EventFacts DEF PortStatus
  <2>3. WireType'
    BY <1>8, <1>11 DEF PortStatus, WireType
  <2> DEFINE one == <<Head(wire[c])>>
  <2>4. one \in Seq(Status) /\ Len(one) <= 1
    BY <2>1
  <2>5. pending' = pending \/ pending' = [pending EXCEPT ![c] = one]
    BY <1>11 DEF PortStatus
  <2> HIDE DEF one
  <2>6. pending' \in [Conns -> Seq(Status)] /\ \A b \in Conns : Len(pending'[b]) <= 1
    BY <2>4, <2>5 DEF ConnType
  <2>7. ConnType'
    BY <1>11, <2>6 DEF PortStatus, ConnType
  <2>8. QED
    BY <1>2, <2>2, <2>3, <2>7
<1>12. CASE ApplyStatus(c)
  <2> DEFINE s == Head(pending[c])
  <2>1. s \in Status
    BY <1>12 DEF ApplyStatus, ConnType
  <2>2. ports[c] \in Ports
    BY DEF ConnType
  <2>3. Applied(ports[c], s) \in Ports
    BY <2>1, <2>2, PortsFacts
  <2>4. ports' \in [Conns -> Ports]
    BY <1>12, <2>3 DEF ApplyStatus, ConnType
  <2>5. pending' = [pending EXCEPT ![c] = << >>]
    BY <1>12 DEF ApplyStatus
  <2>6. pending' \in [Conns -> Seq(Status)] /\ \A b \in Conns : Len(pending'[b]) <= 1
    BY <2>5 DEF ConnType
  <2>7. ConnType'
    BY <1>12, <2>4, <2>6 DEF ApplyStatus, ConnType
  <2>8. WireType' /\ evq' = evq
    BY <1>12 DEF ApplyStatus, WireType, wireVars
  <2>9. QED
    BY <1>2, <1>3, <2>7, <2>8
<1>13. QED
  BY <1>5, <1>6, <1>7, <1>9, <1>10, <1>11, <1>12 DEF RecvStep

\* Registering a connection that a main event names keeps the types.
LEMMA RegisterTypes ==
    ASSUME Types, NEW c \in Conns, NEW reconnected \in BOOLEAN, RegisterNow(c, reconnected)
    PROVE  /\ DOMAIN dps' = DOMAIN dps \cup {DpidOf[c]}
           /\ dps'[DpidOf[c]] = c
           /\ \A e \in DOMAIN dps : e # DpidOf[c] => dps'[e] = dps[e]
           /\ DOMAIN pstate' = DOMAIN dps'
           /\ \A e \in DOMAIN pstate' : pstate'[e] \in Ports
           /\ announced' \in [Dpids -> Seq({"enter", "reconnected", "leave"})]
<1> DEFINE d == DpidOf[c]
<1>1. d \in Dpids /\ ports[c] \in Ports
  BY DPSetAssumption DEF Types, ConnType
<1>2. /\ DOMAIN pstate = DOMAIN dps
      /\ \A e \in DOMAIN pstate : pstate[e] \in Ports
      /\ announced \in [Dpids -> Seq({"enter", "reconnected", "leave"})]
  BY DEF Types, SetType
<1>3. dps' = With(dps, d, c)
      /\ (d \notin DOMAIN pstate => pstate' = With(pstate, d, ports[c]))
      /\ (d \in DOMAIN pstate => pstate' = pstate)
  BY DEF RegisterNow
<1>4. PICK s \in Seq({"enter", "reconnected", "leave"}) :
         announced' = [announced EXCEPT ![d] = @ \o s]
  <2>0. /\ << >> \in Seq({"enter", "reconnected", "leave"})
        /\ <<"enter">> \in Seq({"enter", "reconnected", "leave"})
        /\ <<"reconnected">> \in Seq({"enter", "reconnected", "leave"})
    OBVIOUS
  <2> DEFINE a == IF d \notin DOMAIN pstate THEN <<"enter">> ELSE << >>
             b == IF reconnected THEN <<"reconnected">> ELSE << >>
  <2>1. announced' = [announced EXCEPT ![d] = @ \o (a \o b)]
    BY DEF RegisterNow, Announce
  <2>2. a \in Seq({"enter", "reconnected", "leave"})
    BY <2>0, Zenon
  <2>3. b \in Seq({"enter", "reconnected", "leave"})
    BY <2>0, Zenon
  <2> HIDE DEF a, b
  <2>4. a \o b \in Seq({"enter", "reconnected", "leave"})
    BY <2>2, <2>3
  <2>5. QED
    BY <2>1, <2>4
<1> HIDE DEF d
<1>5. announced' \in [Dpids -> Seq({"enter", "reconnected", "leave"})]
  <2>1. announced[d] \o s \in Seq({"enter", "reconnected", "leave"})
    BY <1>1, <1>2, <1>4
  <2>2. QED
    BY <1>2, <1>4, <2>1
<1>6. DOMAIN dps' = DOMAIN dps \cup {d} /\ dps'[d] = c
      /\ \A e \in DOMAIN dps : e # d => dps'[e] = dps[e]
  BY <1>3 DEF With
<1>7. DOMAIN pstate' = DOMAIN dps' /\ \A e \in DOMAIN pstate' : pstate'[e] \in Ports
  <2>1. CASE d \in DOMAIN pstate
    BY <1>2, <1>3, <1>6, <2>1
  <2>2. CASE d \notin DOMAIN pstate
    BY <1>1, <1>2, <1>3, <1>6, <2>2 DEF With
  <2>3. QED
    BY <2>1, <2>2
<1>8. QED
  BY <1>5, <1>6, <1>7 DEF d

\* The event that DPSet handles, and the ones behind it.
LEMMA HandledEvent ==
    ASSUME Types, NEW type, Handling(type)
    PROVE  /\ job = Idle /\ evq # << >> /\ evq \in Seq(Event)
           /\ Head(evq) \in Event /\ Head(evq).type = type /\ Tail(evq) \in Seq(Event)
           /\ Head(evq).conn \in Conns
<1>1. evq \in Seq(Event) /\ evq # << >> /\ job = Idle /\ Head(evq).type = type
  BY DEF Types, SetType, Handling
<1>2. Head(evq) \in Event /\ Tail(evq) \in Seq(Event)
  BY <1>1, TakeFacts
<1>3. QED
  BY <1>1, <1>2, EventFacts

\* The steps of DPSet keep the types.
LEMMA SetTypes ==
    ASSUME Types, DPSetStep
    PROVE  Types'
<1> DEFINE Words == {"enter", "reconnected", "leave"}
<1>0. ConnType /\ WireType /\ SetType /\ JobInv
  BY DEF Types
<1>1. CASE Register
  <2> DEFINE c == Head(evq).conn
             d == DpidOf[c]
  <2>1. /\ job = Idle /\ c \in Conns /\ d \in Dpids
        /\ evq \in Seq(Event) /\ Tail(evq) \in Seq(Event)
    BY <1>1, HandledEvent, DPSetAssumption DEF Register
  <2>2. CASE d \in DOMAIN dps
    <3>1. job' = RegisterJob(c) /\ UNCHANGED <<dps, pstate, announced>>
      BY <1>1, <2>2 DEF Register, RegisterJob
    <3>2. dps[d] \in Conns
      BY <1>0, <2>2 DEF SetType
    <3>3. evq' \in Seq(Event)
      <4>1. evq' = Tail(evq) \/ evq' = Append(Tail(evq), DeadEvent(dps[d]))
        BY <1>1, <2>2 DEF Register, DeadEvent
      <4>2. DeadEvent(dps[d]) \in Event
        BY <3>2, EventFacts
      <4>3. QED
        BY <2>1, <4>1, <4>2, PutFacts
    <3>4. SetType'
      BY <1>0, <2>1, <3>1, <3>3, JobFacts DEF SetType
    <3>5. JobInv'
      <4> SUFFICES ASSUME NEW b \in Conns, job' \in {RegisterJob(b), UnregisterJob(b)}
                   PROVE  DpidOf[b] \in DOMAIN dps'
        BY DEF JobInv
      <4>1. b = c
        BY <3>1, JobFacts
      <4>2. QED
        BY <4>1, <3>1, <2>2
    <3>6. ConnType'
      BY <1>0, <1>1, <2>2 DEF Register, ConnType
    <3>7. WireType'
      <4>1. wire' = wire \/ wire' = [wire EXCEPT ![dps[d]] = << >>]
        BY <1>1, <2>2 DEF Register, Gone
      <4>2. wire' \in [Conns -> Seq(Message)]
        <5> HIDE DEF d
        <5>1. << >> \in Seq(Message)
          OBVIOUS
        <5>2. QED
          BY <1>0, <4>1, <5>1 DEF WireType
      <4>3. /\ asked' = asked \/ asked' = [asked EXCEPT ![dps[d]] = "nothing"]
            /\ rest' = rest \/ rest' = [rest EXCEPT ![dps[d]] = NoPorts]
            /\ swports' = swports
        BY <1>1, <2>2 DEF Register, Gone
      <4>4. QED
        BY <1>0, <4>2, <4>3, SomePorts DEF WireType
    <3>8. QED
      BY <3>4, <3>5, <3>6, <3>7 DEF Types
  <2>3. CASE d \notin DOMAIN dps
    <3>1. /\ RegisterNow(c, FALSE)
          /\ evq' = Tail(evq)
          /\ UNCHANGED <<phase, job, wire, asked, rest, ver, said, ports, pending,
                         swports, changes>>
      BY <1>1, <2>3 DEF Register
    <3>2. /\ DOMAIN dps' = DOMAIN dps \cup {d}
          /\ dps'[d] = c
          /\ \A e \in DOMAIN dps : e # d => dps'[e] = dps[e]
          /\ DOMAIN pstate' = DOMAIN dps'
          /\ \A e \in DOMAIN pstate' : pstate'[e] \in Ports
          /\ announced' \in [Dpids -> Seq(Words)]
      BY <2>1, <3>1, RegisterTypes
    <3>3. SetType'
      BY <1>0, <2>1, <3>1, <3>2, JobFacts DEF SetType
    <3>4. ConnType' /\ WireType'
      BY <1>0, <3>1 DEF ConnType, WireType
    <3>5. JobInv'
      BY <2>1, <3>1, JobFacts DEF JobInv
    <3>6. QED
      BY <3>3, <3>4, <3>5 DEF Types
  <2>4. QED
    BY <2>2, <2>3
<1>2. CASE Reregister
  <2> DEFINE c == job.conn
             d == DpidOf[c]
  <2>1. job = RegisterJob(c) /\ c \in Conns /\ d \in Dpids /\ d \in DOMAIN dps
    BY <1>0, <1>2, JobFacts, DPSetAssumption DEF Reregister, SetType, JobInv
  <2>2. RegisterNow(c, TRUE) /\ job' = Idle /\ UNCHANGED <<connVars, wireVars, evq>>
    BY <1>2 DEF Reregister
  <2>3. /\ DOMAIN dps' = DOMAIN dps \cup {d}
        /\ dps'[d] = c
        /\ \A e \in DOMAIN dps : e # d => dps'[e] = dps[e]
        /\ DOMAIN pstate' = DOMAIN dps'
        /\ \A e \in DOMAIN pstate' : pstate'[e] \in Ports
        /\ announced' \in [Dpids -> Seq(Words)]
    BY <2>1, <2>2, RegisterTypes
  <2>4. SetType'
    BY <1>0, <2>1, <2>2, <2>3, JobFacts DEF SetType
  <2>5. ConnType' /\ WireType'
    BY <1>0, <2>2 DEF ConnType, WireType, connVars, wireVars
  <2>6. JobInv'
    BY <2>2, JobFacts DEF JobInv
  <2>7. QED
    BY <2>4, <2>5, <2>6 DEF Types
<1>3. CASE Unregister
  <2> DEFINE c == Head(evq).conn
             d == DpidOf[c]
  <2>1. /\ job = Idle /\ c \in Conns /\ d \in Dpids /\ Tail(evq) \in Seq(Event)
    BY <1>3, HandledEvent, DPSetAssumption DEF Unregister
  <2>2. evq' = Tail(evq) /\ UNCHANGED <<connVars, wireVars, dps>>
    BY <1>3 DEF Unregister
  <2>3. ConnType' /\ WireType'
    BY <1>0, <2>2 DEF ConnType, WireType, connVars, wireVars
  <2>4. CASE \E e \in DOMAIN dps : dps[e] = c
    <3>1. d \in DOMAIN dps
      BY <1>0, <2>4 DEF SetType
    <3>2. /\ pstate' = With(pstate, d, NoPorts)
          /\ announced' = [announced EXCEPT ![d] = @ \o <<"leave">>]
          /\ job' = UnregisterJob(c)
      BY <1>3, <2>4 DEF Unregister, Announce, UnregisterJob
    <3>3. announced' \in [Dpids -> Seq(Words)]
      <4>1. announced[d] \in Seq(Words) /\ <<"leave">> \in Seq(Words)
        BY <1>0, <2>1 DEF SetType
      <4>2. announced[d] \o <<"leave">> \in Seq(Words)
        BY <4>1
      <4>3. QED
        BY <1>0, <3>2, <4>2 DEF SetType
    <3>4. DOMAIN pstate' = DOMAIN dps' /\ \A e \in DOMAIN pstate' : pstate'[e] \in Ports
      BY <1>0, <2>2, <3>1, <3>2, SomePorts DEF SetType, With
    <3>5. SetType'
      BY <1>0, <2>1, <2>2, <3>2, <3>3, <3>4, JobFacts DEF SetType
    <3>6. JobInv'
      BY <2>2, <3>1, <3>2, JobFacts DEF JobInv
    <3>7. QED
      BY <2>3, <3>5, <3>6 DEF Types
  <2>5. CASE ~\E e \in DOMAIN dps : dps[e] = c
    <3>1. UNCHANGED <<pstate, announced, job>>
      BY <1>3, <2>5 DEF Unregister
    <3>2. SetType' /\ JobInv'
      BY <1>0, <2>1, <2>2, <3>1 DEF SetType, JobInv
    <3>3. QED
      BY <2>3, <3>2 DEF Types
  <2>6. QED
    BY <2>4, <2>5
<1>4. CASE Unregistered
  <2> DEFINE d == DpidOf[job.conn]
  <2>1. /\ dps' = Minus(dps, d) /\ pstate' = Minus(pstate, d)
        /\ job' = Idle /\ UNCHANGED <<connVars, wireVars, evq, announced>>
    BY <1>4 DEF Unregistered
  <2>2. ConnType' /\ WireType'
    BY <1>0, <2>1 DEF ConnType, WireType, connVars, wireVars
  <2>3. /\ DOMAIN dps' = DOMAIN dps \ {d} /\ DOMAIN pstate' = DOMAIN pstate \ {d}
        /\ \A e \in DOMAIN dps' : dps'[e] = dps[e]
        /\ \A e \in DOMAIN pstate' : pstate'[e] = pstate[e]
    BY <2>1 DEF Minus, Restrict
  <2>4. SetType'
    BY <1>0, <2>1, <2>3, JobFacts DEF SetType
  <2>5. JobInv'
    BY <2>1, JobFacts DEF JobInv
  <2>6. QED
    BY <2>2, <2>4, <2>5 DEF Types
<1>5. CASE StatusEvent
  <2> DEFINE d == DpidOf[Head(evq).conn]
             s == Head(evq).status
  <2>1. evq' = Tail(evq) /\ UNCHANGED <<connVars, wireVars, dps, job, announced>>
    BY <1>5 DEF StatusEvent
  <2>2. ConnType' /\ WireType' /\ JobInv'
    BY <1>0, <2>1 DEF ConnType, WireType, JobInv, connVars, wireVars
  <2>3. Tail(evq) \in Seq(Event) /\ s \in Status
    BY <1>5, HandledEvent, EventFacts DEF StatusEvent
  <2>4. DOMAIN pstate' = DOMAIN pstate /\ \A e \in DOMAIN pstate' : pstate'[e] \in Ports
    <3>1. CASE d \notin DOMAIN pstate
      BY <1>0, <1>5, <3>1 DEF StatusEvent, SetType
    <3>2. CASE d \in DOMAIN pstate
      <4>1. pstate[d] \in Ports
        BY <1>0, <3>2 DEF SetType
      <4>2. Applied(pstate[d], s) \in Ports
        BY <2>3, <4>1, PortsFacts
      <4>3. pstate' = [pstate EXCEPT ![d] = Applied(@, s)]
        BY <1>5, <3>2 DEF StatusEvent
      <4> HIDE DEF d, s
      <4>4. QED
        BY <1>0, <4>2, <4>3 DEF SetType
    <3>3. QED
      BY <3>1, <3>2
  <2>5. SetType'
    BY <1>0, <2>1, <2>3, <2>4 DEF SetType
  <2>6. QED
    BY <2>2, <2>5 DEF Types
<1>6. QED
  BY <1>1, <1>2, <1>3, <1>4, <1>5 DEF DPSetStep

\* Every step keeps the types.
LEMMA TypesNext == Types /\ [Next]_vars => Types'
<1> SUFFICES ASSUME Types, [Next]_vars PROVE Types'
  OBVIOUS
<1>1. CASE UNCHANGED vars
  BY <1>1 DEF vars, Types, ConnType, WireType, SetType, JobInv
<1>2. CASE Next
  BY <1>2, SwitchTypes, ConnTypes, SetTypes DEF Next
<1>3. QED
  BY <1>1, <1>2

\* The tables keep their types in every behaviour.
LEMMA TypesHold == Spec => []Types
BY TypesInit, TypesNext, PTL DEF Spec

\* DPSet's tables have the shapes the code gives them: dps and port_state know
\* the same switches, and every switch is listed with a connection of its own.
THEOREM DPSetTypes == Spec => []TypeOK
<1>1. Types => TypeOK
  BY DEF Types, ConnType, WireType, SetType, TypeOK
<1>2. QED
  BY <1>1, TypesHold, PTL

-----------------------------------------------------------------------------
(***************************************************************************)
(* One reply at a time.                                                    *)
(***************************************************************************)

\* The switch sends one more message.
LEMMA WirePut ==
    ASSUME NEW q \in Seq(Message), NEW m \in Message
    PROVE  /\ OnlyStatus(q) /\ m.type = "status" => OnlyStatus(Append(q, m))
           /\ ~OnlyStatus(Append(q, m)) => ~OnlyStatus(q) \/ m.type # "status"
           /\ NoFinal(q) /\ ~Final(m) => NoFinal(Append(q, m))
           /\ FinalLast(q) /\ m.type = "status" => FinalLast(Append(q, m))
           /\ NoFinal(q) => FinalLast(Append(q, m))
<1> DEFINE r == Append(q, m)
<1>1. /\ r \in Seq(Message) /\ Len(q) \in Nat /\ Len(r) = Len(q) + 1
      /\ \A i \in 1 .. Len(q) : r[i] = q[i]
      /\ r[Len(q) + 1] = m
  BY AppendProperties, LenProperties
<1> HIDE DEF r
<1>2. \A i \in 1 .. Len(r) : i \in 1 .. Len(q) \/ i = Len(q) + 1
  BY <1>1
<1>3. OnlyStatus(q) /\ m.type = "status" => OnlyStatus(r)
  BY <1>1, <1>2 DEF OnlyStatus
<1>4. NoFinal(q) /\ ~Final(m) => NoFinal(r)
  BY <1>1, <1>2 DEF NoFinal
<1>5. ASSUME FinalLast(q), m.type = "status",
             NEW i \in 1 .. Len(r), NEW j \in 1 .. Len(r), i < j, Final(r[i])
      PROVE  r[j].type = "status"
  <2>1. i \in 1 .. Len(q) /\ (j \in 1 .. Len(q) \/ j = Len(q) + 1)
    BY <1>1, <1>5
  <2>2. QED
    BY <2>1, <1>1, <1>5 DEF FinalLast
<1>6. ASSUME NoFinal(q), NEW i \in 1 .. Len(r), NEW j \in 1 .. Len(r), i < j, Final(r[i])
      PROVE  r[j].type = "status"
  <2>1. i \in 1 .. Len(q)
    BY <1>1, <1>6
  <2>2. QED
    BY <2>1, <1>1, <1>6 DEF NoFinal
<1>7. (FinalLast(q) /\ m.type = "status" => FinalLast(r)) /\ (NoFinal(q) => FinalLast(r))
  BY <1>5, <1>6 DEF FinalLast
<1>8. QED
  BY <1>3, <1>4, <1>7 DEF r

\* A wire with port status messages only holds no reply.
LEMMA OnlyStatusFacts ==
    ASSUME NEW q, OnlyStatus(q)
    PROVE  NoFinal(q) /\ FinalLast(q)
BY DEF OnlyStatus, NoFinal, FinalLast, Final

\* An empty wire.
LEMMA EmptyWire == OnlyStatus(<< >>) /\ NoFinal(<< >>) /\ FinalLast(<< >>)
BY DEF OnlyStatus, NoFinal, FinalLast

\* recv() returns the first message.
LEMMA WireTake ==
    ASSUME NEW q \in Seq(Message), q # << >>
    PROVE  /\ OnlyStatus(q) => OnlyStatus(Tail(q)) /\ Head(q).type = "status"
           /\ NoFinal(q) => NoFinal(Tail(q)) /\ ~Final(Head(q))
           /\ FinalLast(q) => FinalLast(Tail(q))
           /\ FinalLast(q) /\ Final(Head(q)) => OnlyStatus(Tail(q))
<1> DEFINE t == Tail(q)
<1>1. /\ Head(q) = q[1] /\ Len(q) \in Nat /\ Len(q) > 0 /\ Len(t) = Len(q) - 1
      /\ \A i \in 1 .. Len(t) : t[i] = q[i + 1]
  BY HeadTailProperties, LenProperties
<1> HIDE DEF t
<1>2. 1 \in 1 .. Len(q) /\ \A i \in 1 .. Len(t) : i + 1 \in 1 .. Len(q)
  BY <1>1
<1>3. OnlyStatus(q) => OnlyStatus(t) /\ Head(q).type = "status"
  BY <1>1, <1>2 DEF OnlyStatus
<1>4. NoFinal(q) => NoFinal(t) /\ ~Final(Head(q))
  BY <1>1, <1>2 DEF NoFinal
<1>5. ASSUME FinalLast(q),
             NEW i \in 1 .. Len(t), NEW j \in 1 .. Len(t), i < j, Final(t[i])
      PROVE  t[j].type = "status"
  <2>1. /\ i + 1 \in 1 .. Len(q) /\ j + 1 \in 1 .. Len(q) /\ i + 1 < j + 1
        /\ Final(q[i + 1]) /\ t[j] = q[j + 1]
    BY <1>1, <1>2, <1>5
  <2>2. QED
    BY <2>1, <1>5 DEF FinalLast
<1>6. ASSUME FinalLast(q), Final(Head(q)), NEW i \in 1 .. Len(t)
      PROVE  t[i].type = "status"
  <2>1. i + 1 \in 1 .. Len(q) /\ 1 < i + 1 /\ Final(q[1]) /\ t[i] = q[i + 1]
    BY <1>1, <1>2, <1>6
  <2>2. QED
    BY <2>1, <1>2, <1>6 DEF FinalLast
<1>7. (FinalLast(q) => FinalLast(t)) /\ (FinalLast(q) /\ Final(Head(q)) => OnlyStatus(t))
  <2>1. FinalLast(q) => FinalLast(t)
    BY <1>5 DEF FinalLast
  <2>2. FinalLast(q) /\ Final(Head(q)) => OnlyStatus(t)
    BY <1>6 DEF OnlyStatus
  <2>3. QED
    BY <2>1, <2>2
<1>8. QED
  BY <1>3, <1>4, <1>7 DEF t

\* A step that changes the wire of one connection only.
LEMMA OneWire ==
    ASSUME WireInv, NEW c \in Conns,
           \A b \in Conns \ {c} : asked'[b] = asked[b] /\ phase'[b] = phase[b]
                                  /\ wire'[b] = wire[b],
           WireOK(asked'[c], phase'[c], wire'[c])
    PROVE  WireInv'
BY DEF WireInv

\* The connection dies and with it what was on the wire.
LEMMA WireGone ==
    ASSUME Types, WireInv, NEW c \in Conns, Gone(c), phase' = [phase EXCEPT ![c] = "dead"]
    PROVE  WireInv'
<1>1. /\ asked' = [asked EXCEPT ![c] = "nothing"] /\ wire' = [wire EXCEPT ![c] = << >>]
      /\ asked \in [Conns -> {"nothing", "features", "port_desc", "rest"}]
      /\ wire \in [Conns -> Seq(Message)]
      /\ phase \in [Conns -> {"none", "handshake", "config", "main", "dead"}]
  BY DEF Gone, Types, ConnType, WireType
<1>2. asked'[c] = "nothing" /\ wire'[c] = << >>
  BY <1>1
<1>3. WireOK(asked'[c], phase'[c], wire'[c])
  BY <1>2, EmptyWire DEF WireOK
<1>4. QED
  BY <1>1, <1>3, OneWire

\* Replies stay in order, one at a time.
LEMMA WireNext == Types /\ WireInv /\ [Next]_vars => WireInv'
<1> SUFFICES ASSUME Types, WireInv, [Next]_vars PROVE WireInv'
  OBVIOUS
<1>1. /\ asked \in [Conns -> {"nothing", "features", "port_desc", "rest"}]
      /\ wire \in [Conns -> Seq(Message)]
      /\ phase \in [Conns -> {"none", "handshake", "config", "main", "dead"}]
      /\ \A c \in Conns : wire[c] \in Seq(Message)
      /\ \A c \in Conns : WireOK(asked[c], phase[c], wire[c])
  BY DEF Types, ConnType, WireType, WireInv
<1>2. ASSUME UNCHANGED <<asked, phase, wire>> PROVE WireInv'
  BY <1>2 DEF WireInv
<1>3. ASSUME NEW d \in Dpids, NEW reason \in {"add", "modify", "delete"},
             NEW p \in PortNos, NEW a \in PortAttrs, PortChange(d, reason, p, a)
      PROVE  WireInv'
  <2> DEFINE m == [type |-> "status", reason |-> reason, port |-> p, attr |-> a]
  <2>1. m \in Message /\ m.type = "status"
    BY MessageFacts
  <2>2. /\ wire' = [c \in Conns |-> IF c \in Alive(d) THEN Append(wire[c], m) ELSE wire[c]]
        /\ UNCHANGED <<asked, phase>>
    BY <1>3 DEF PortChange, connVars
  <2> HIDE DEF m
  <2>3. ~Final(m)
    BY <2>1 DEF Final
  <2>4. ASSUME NEW c \in Conns PROVE WireOK(asked[c], phase[c], Append(wire[c], m))
    BY <1>1, <2>1, <2>3, WirePut DEF WireOK
  <2>5. QED
    BY <1>1, <2>2, <2>4 DEF WireInv
<1>4. ASSUME NEW c \in Conns, AnswerFeatures(c)
      PROVE  WireInv'
  <2>1. PICK m \in Message : wire' = [wire EXCEPT ![c] = Append(@, m)]
    <3>1. swports[DpidOf[c]] \in Ports
      BY DPSetAssumption DEF Types, WireType
    <3>2. QED
      BY <1>4, <3>1, MessageFacts DEF AnswerFeatures, SwitchSends
  <2>2. asked[c] = "features" /\ asked' = [asked EXCEPT ![c] = "nothing"] /\ phase' = phase
    BY <1>4 DEF AnswerFeatures, connVars
  <2>3. phase[c] = "config" /\ NoFinal(wire[c])
    BY <1>1, <2>2, OnlyStatusFacts DEF WireOK
  <2>4. WireOK("nothing", phase[c], Append(wire[c], m))
    BY <1>1, <2>3, WirePut DEF WireOK
  <2>5. QED
    BY <1>1, <2>1, <2>2, <2>4, OneWire
<1>5. ASSUME NEW c \in Conns, AnswerRest(c)
      PROVE  WireInv'
  <2>1. PICK m \in Message : wire' = [wire EXCEPT ![c] = Append(@, m)]
    <3>1. rest[c] \in Ports
      BY DEF Types, WireType
    <3>2. QED
      BY <1>5, <3>1, MessageFacts DEF AnswerRest, SwitchSends
  <2>2. asked[c] = "rest" /\ asked' = [asked EXCEPT ![c] = "nothing"] /\ phase' = phase
    BY <1>5 DEF AnswerRest, connVars
  <2>3. phase[c] = "config" /\ NoFinal(wire[c])
    BY <1>1, <2>2 DEF WireOK
  <2>4. WireOK("nothing", phase[c], Append(wire[c], m))
    BY <1>1, <2>3, WirePut DEF WireOK
  <2>5. QED
    BY <1>1, <2>1, <2>2, <2>4, OneWire
<1>6. ASSUME NEW c \in Conns, NEW now \in SUBSET PortNos, AnswerPortDesc(c, now)
      PROVE  WireInv'
  <2> DEFINE all == swports[DpidOf[c]]
             more == now # DOMAIN all
             m == [type |-> "port_desc", ports |-> Restrict(all, now), more |-> more]
  <2>1. /\ wire' = [wire EXCEPT ![c] = Append(@, m)]
        /\ asked[c] = "port_desc" /\ phase' = phase
        /\ asked' = [asked EXCEPT ![c] = IF more THEN "rest" ELSE "nothing"]
    BY <1>6 DEF AnswerPortDesc, SwitchSends, connVars
  <2>2. m \in Message
    <3>1. all \in Ports /\ now \subseteq DOMAIN all
      BY <1>6, DPSetAssumption DEF AnswerPortDesc, Types, WireType
    <3>2. QED
      BY <3>1, PortsFacts, MessageFacts
  <2>3. more => ~Final(m)
    BY DEF Final
  <2> HIDE DEF m, more
  <2>4. phase[c] = "config" /\ NoFinal(wire[c])
    BY <1>1, <2>1, OnlyStatusFacts DEF WireOK
  <2>5. WireOK(IF more THEN "rest" ELSE "nothing", phase[c], Append(wire[c], m))
    BY <1>1, <2>2, <2>3, <2>4, WirePut DEF WireOK
  <2>6. QED
    BY <1>1, <2>1, <2>5, OneWire
<1>7. ASSUME NEW c \in Conns, Connect(c)
      PROVE  WireInv'
  <2>1. phase[c] = "none" /\ phase' = [phase EXCEPT ![c] = "handshake"]
        /\ UNCHANGED <<asked, wire>>
    BY <1>7 DEF Connect, wireVars
  <2>2. WireOK(asked[c], "handshake", wire[c])
    BY <1>1, <2>1 DEF WireOK
  <2>3. QED
    BY <1>1, <2>1, <2>2, OneWire
<1>8. ASSUME NEW c \in Conns, Die(c)
      PROVE  WireInv'
  BY <1>8, WireGone DEF Die
<1>9. ASSUME NEW c \in Conns, NEW h \in SwitchHello, Hello(c, h)
      PROVE  WireInv'
  <2>1. phase[c] = "handshake" /\ phase' = [phase EXCEPT ![c] = "config"]
        /\ asked' = [asked EXCEPT ![c] = "features"] /\ wire' = wire
    BY <1>9 DEF Hello
  <2>2. WireOK("features", "config", wire[c])
    BY <1>1, <2>1 DEF WireOK
  <2>3. QED
    BY <1>1, <2>1, <2>2, OneWire
<1>10. ASSUME NEW c \in Conns, NEW type, Reading(c, type)
       PROVE  wire[c] \in Seq(Message) /\ wire[c] # << >> /\ Head(wire[c]).type = type
              /\ Head(wire[c]) \in Message
  <2>1. wire[c] \in Seq(Message) /\ wire[c] # << >> /\ Head(wire[c]).type = type
    BY <1>1, <1>10 DEF Reading
  <2>2. QED
    BY <2>1
<1>11. ASSUME NEW c \in Conns, Features(c)
       PROVE  WireInv'
  <2>1. /\ wire' = [wire EXCEPT ![c] = Tail(@)] /\ Reading(c, "features")
        /\ \/ phase' = [phase EXCEPT ![c] = "main"] /\ asked' = asked
           \/ asked' = [asked EXCEPT ![c] = "port_desc"] /\ phase' = phase
    BY <1>11 DEF Features
  <2>2. wire[c] # << >> /\ Head(wire[c]).type = "features" /\ Final(Head(wire[c]))
    BY <1>10, <2>1 DEF Final
  <2>3. ~OnlyStatus(wire[c]) /\ ~NoFinal(wire[c]) /\ OnlyStatus(Tail(wire[c]))
    BY <1>1, <2>2, WireTake DEF WireOK
  <2>4. phase[c] = "config" /\ asked[c] = "nothing"
    BY <1>1, <2>3 DEF WireOK
  <2>5. WireOK("nothing", "main", Tail(wire[c])) /\ WireOK("port_desc", "config", Tail(wire[c]))
    BY <2>3, OnlyStatusFacts DEF WireOK
  <2>6. WireOK(asked'[c], phase'[c], wire'[c])
    BY <1>1, <2>1, <2>4, <2>5
  <2>7. QED
    BY <1>1, <2>1, <2>6, OneWire
<1>12. ASSUME NEW c \in Conns, PortDescReply(c)
       PROVE  WireInv'
  <2>1. /\ wire' = [wire EXCEPT ![c] = Tail(@)] /\ asked' = asked /\ Reading(c, "port_desc")
        /\ \/ phase' = phase
           \/ ~Head(wire[c]).more /\ phase' = [phase EXCEPT ![c] = "main"]
    BY <1>12 DEF PortDescReply
  <2>2. wire[c] # << >> /\ Head(wire[c]).type = "port_desc"
    BY <1>10, <2>1
  <2>3. ~OnlyStatus(wire[c])
    BY <1>1, <2>2, WireTake
  <2>4. phase[c] = "config" /\ asked[c] \in {"nothing", "rest"}
    BY <1>1, <2>3 DEF WireOK
  <2>5. WireOK(asked[c], phase[c], Tail(wire[c]))
    BY <1>1, <2>2, <2>4, WireTake DEF WireOK
  <2>6. CASE ~Head(wire[c]).more /\ phase' = [phase EXCEPT ![c] = "main"]
    <3>1. Final(Head(wire[c]))
      BY <2>2, <2>6 DEF Final
    <3>2. asked[c] = "nothing" /\ OnlyStatus(Tail(wire[c]))
      BY <1>1, <2>2, <2>4, <3>1, WireTake DEF WireOK
    <3>3. WireOK(asked[c], "main", Tail(wire[c]))
      BY <3>2, OnlyStatusFacts DEF WireOK
    <3>4. QED
      BY <1>1, <2>1, <2>6, <3>3, OneWire
  <2>7. CASE phase' = phase
    BY <1>1, <2>1, <2>5, <2>7, OneWire
  <2>8. QED
    BY <2>1, <2>6, <2>7
<1>13. ASSUME NEW c \in Conns, PortStatus(c)
       PROVE  WireInv'
  <2>1. wire' = [wire EXCEPT ![c] = Tail(@)] /\ asked' = asked /\ phase' = phase
        /\ Reading(c, "status")
    BY <1>13 DEF PortStatus
  <2>2. wire[c] # << >>
    BY <1>10, <2>1
  <2>3. WireOK(asked[c], phase[c], Tail(wire[c]))
    BY <1>1, <2>2, WireTake DEF WireOK
  <2>4. QED
    BY <1>1, <2>1, <2>3, OneWire
<1>14. ASSUME NEW c \in Conns, ApplyStatus(c)
       PROVE  WireInv'
  BY <1>2, <1>14 DEF ApplyStatus, wireVars
<1>15. CASE Register
  <2> DEFINE d == DpidOf[Head(evq).conn]
  <2>1. CASE d \in DOMAIN dps /\ phase[dps[d]] # "dead"
    <3>1. dps[d] \in Conns
      BY <2>1 DEF Types, SetType
    <3>2. Gone(dps[d]) /\ phase' = [phase EXCEPT ![dps[d]] = "dead"]
      BY <1>15, <2>1 DEF Register
    <3> HIDE DEF d
    <3>3. QED
      BY <3>1, <3>2, WireGone
  <2>2. CASE ~(d \in DOMAIN dps /\ phase[dps[d]] # "dead")
    BY <1>2, <1>15, <2>2 DEF Register
  <2>3. QED
    BY <2>1, <2>2
<1>16. CASE Reregister \/ Unregister \/ Unregistered \/ StatusEvent
  BY <1>2, <1>16 DEF Reregister, Unregister, Unregistered, StatusEvent, connVars, wireVars
<1>17. CASE UNCHANGED vars
  BY <1>2, <1>17 DEF vars
<1>18. QED
  BY <1>3, <1>4, <1>5, <1>6, <1>7, <1>8, <1>9, <1>11, <1>12, <1>13, <1>14, <1>15, <1>16, <1>17
     DEF Next, RecvStep, DPSetStep

\* Each reply is answered once, in every behaviour.
LEMMA WireHolds == Spec => []WireInv
<1>1. Init => WireInv
  BY EmptyWire DEF Init, WireInv, WireOK
<1>2. QED
  BY <1>1, WireNext, TypesHold, PTL DEF Spec

\* A connection that reads a reply is in the config phase.
LEMMA ReplyInConfig ==
    ASSUME Types, WireInv, NEW c \in Conns, Reading(c, "features") \/ Reading(c, "port_desc")
    PROVE  phase[c] = "config"
<1>1. wire[c] \in Seq(Message) /\ wire[c] # << >> /\ Head(wire[c]).type # "status"
  BY DEF Reading, Types, WireType
<1>2. ~OnlyStatus(wire[c])
  BY <1>1, WireTake
<1>3. QED
  BY <1>2 DEF WireInv, WireOK

-----------------------------------------------------------------------------
(***************************************************************************)
(* The version.                                                            *)
(***************************************************************************)

\* The agreed version is kept.
LEMMA VersionNext == Types /\ WireInv /\ VersionAgreed /\ [Next]_vars => VersionAgreed'
<1> SUFFICES ASSUME Types, WireInv, VersionAgreed, [Next]_vars, NEW b \in Conns,
                    phase'[b] \in {"config", "main"}
             PROVE  AgreedVersion(said'[b][1], ver'[b])
  BY DEF VersionAgreed
<1>0. /\ phase \in [Conns -> {"none", "handshake", "config", "main", "dead"}]
      /\ ver \in [Conns -> Supported \cup {0}]
      /\ said \in [Conns -> Seq(SwitchHello)]
  BY DEF Types, ConnType
<1>1. ASSUME UNCHANGED <<ver, said>>, phase[b] \in {"config", "main"}
      PROVE  AgreedVersion(said'[b][1], ver'[b])
  BY <1>1 DEF VersionAgreed
<1>2. ASSUME NEW c \in Conns, Connect(c)
      PROVE  AgreedVersion(said'[b][1], ver'[b])
  BY <1>0, <1>1, <1>2 DEF Connect
<1>3. ASSUME NEW c \in Conns, Die(c)
      PROVE  AgreedVersion(said'[b][1], ver'[b])
  BY <1>0, <1>1, <1>3 DEF Die
<1>4. ASSUME NEW c \in Conns, NEW h \in SwitchHello, Hello(c, h)
      PROVE  AgreedVersion(said'[b][1], ver'[b])
  <2>1. CASE b = c
    <3>1. AgreedVersion(h, Negotiate(h))
      BY <1>4, NegotiateFacts, DPSetAssumption DEF Hello
    <3>2. said'[c] = <<h>> /\ ver'[c] = Negotiate(h)
      BY <1>0, <1>4 DEF Hello
    <3>3. said'[c][1] = h
      BY <3>2
    <3>4. QED
      BY <2>1, <3>1, <3>2, <3>3
  <2>2. CASE b # c
    <3>1. said'[b] = said[b] /\ ver'[b] = ver[b] /\ phase'[b] = phase[b]
      BY <1>0, <1>4, <2>2 DEF Hello
    <3>2. QED
      BY <3>1 DEF VersionAgreed
  <2>3. QED
    BY <2>1, <2>2
<1>5. ASSUME NEW c \in Conns, Features(c) \/ PortDescReply(c)
      PROVE  AgreedVersion(said'[b][1], ver'[b])
  <2>1. phase[c] = "config"
    BY <1>5, ReplyInConfig DEF Features, PortDescReply
  <2>2. UNCHANGED <<ver, said>> /\ (phase' = phase \/ phase' = [phase EXCEPT ![c] = "main"])
    BY <1>5 DEF Features, PortDescReply
  <2>3. QED
    BY <1>0, <1>1, <2>1, <2>2
<1>6. CASE Register
  <2>1. UNCHANGED <<ver, said>>
    BY <1>6 DEF Register
  <2>2. phase' = phase \/ \E c : phase' = [phase EXCEPT ![c] = "dead"]
    BY <1>6 DEF Register
  <2>3. QED
    BY <1>0, <1>1, <2>1, <2>2
<1>7. CASE UNCHANGED connVars \/ UNCHANGED <<phase, ver, said>>
  BY <1>1, <1>7 DEF connVars
<1>8. QED
  BY <1>2, <1>3, <1>4, <1>5, <1>6, <1>7
     DEF Next, RecvStep, DPSetStep, PortChange, AnswerFeatures, AnswerRest, AnswerPortDesc,
         PortStatus, ApplyStatus, Reregister, Unregister, Unregistered, StatusEvent, vars,
         connVars

\* No connection gets past the handshake with a version that its switch, which
\* sees only the highest version of the controller, does not use too.
THEOREM DPSetVersions == Spec => []VersionAgreed
<1>1. Init => VersionAgreed
  BY DEF Init, VersionAgreed
<1>2. QED
  BY <1>1, VersionNext, TypesHold, WireHolds, PTL DEF Spec

-----------------------------------------------------------------------------
(***************************************************************************)
(* The registry.  One lemma for each way a step can change what RegInv     *)
(* speaks of: the phases, DPSet's queue, dps and job.                      *)
(***************************************************************************)

\* A step that touches none of it.
LEMMA RegSame ==
    ASSUME RegInv, UNCHANGED <<phase, evq, dps, job>>
    PROVE  RegInv'
BY DEF RegInv, MainOnce, Waiting, MainKnown, DeadKnown, Registered, Old, MainEvent, DeadEvent,
       StateEvent

\* A connection before the main phase moves on.
LEMMA RegEarly ==
    ASSUME Types, RegInv, NEW c \in Conns, NEW p \in {"handshake", "config"},
           phase[c] \notin {"main", "dead"}, phase' = [phase EXCEPT ![c] = p],
           UNCHANGED <<evq, dps, job>>
    PROVE  RegInv'
<1> USE DEF Registered, Old, MainEvent, DeadEvent, StateEvent
<1>1. phase'[c] = p /\ \A b \in Conns : b # c => phase'[b] = phase[b]
  BY DEF Types, ConnType
<1>2. MainOnce'
  BY <1>1 DEF RegInv, MainOnce
<1>3. Waiting'
  <2>1. \A d \in DOMAIN dps : dps[d] \in Conns
    BY DEF Types, SetType
  <2>2. \A b \in Conns : job = RegisterJob(b) => DpidOf[b] \in DOMAIN dps
    BY DEF Types, JobInv
  <2>3. QED
    BY <1>1, <2>1, <2>2 DEF RegInv, Waiting
<1>4. MainKnown'
  BY <1>1 DEF RegInv, MainKnown
<1>5. DeadKnown'
  BY <1>1 DEF RegInv, DeadKnown
<1>6. QED
  BY <1>2, <1>3, <1>4, <1>5 DEF RegInv

\* A connection gets to the main phase and DPSet is told.
LEMMA RegMain ==
    ASSUME Types, RegInv, NEW c \in Conns, phase[c] = "config",
           phase' = [phase EXCEPT ![c] = "main"], evq' = Append(evq, MainEvent(c)),
           UNCHANGED <<dps, job>>
    PROVE  RegInv'
<1>1. phase'[c] = "main" /\ \A b \in Conns : b # c => phase'[b] = phase[b]
  BY DEF Types, ConnType
<1>2. evq \in Seq(Event) /\ MainEvent(c) \in Event
  BY EventFacts DEF Types, SetType
<1>3. /\ \A e : Holds(evq', e) <=> Holds(evq, e) \/ e = MainEvent(c)
      /\ \A e : Unique(evq, e) /\ (e = MainEvent(c) => ~Holds(evq, e)) => Unique(evq', e)
      /\ \A e, f : Followed(evq, e, f) /\ e # MainEvent(c) => Followed(evq', e, f)
  BY <1>2, PutFacts
<1>4. \A b : (Registered(b))' <=> Registered(b)
  BY DEF Registered
<1>5. MainOnce'
  <2> SUFFICES ASSUME NEW b \in Conns
               PROVE  /\ Unique(evq', MainEvent(b))
                      /\ Holds(evq', MainEvent(b)) =>
                            /\ phase'[b] \in {"main", "dead"}
                            /\ ~(Registered(b))'
                            /\ job' # RegisterJob(b)
    BY DEF MainOnce, MainEvent, StateEvent
  <2>1. CASE b = c
    BY <1>1, <1>3, <1>4, <2>1 DEF RegInv, MainOnce, Waiting, MainKnown
  <2>2. CASE b # c
    BY <1>1, <1>3, <1>4, <2>2, EventFacts DEF RegInv, MainOnce
  <2>3. QED
    BY <2>1, <2>2
<1>6. Waiting'
  <2>1. \A d \in DOMAIN dps : dps[d] \in Conns
    BY DEF Types, SetType
  <2>2. \A b \in Conns : job = RegisterJob(b) => DpidOf[b] \in DOMAIN dps
    BY DEF Types, JobInv
  <2>3. QED
    BY <1>1, <1>4, <2>1, <2>2 DEF RegInv, Waiting, Old
<1>7. MainKnown'
  BY <1>1, <1>3, <1>4 DEF RegInv, MainKnown, MainEvent, StateEvent
<1>8. DeadKnown'
  <2> SUFFICES ASSUME NEW b \in Conns
               PROVE  /\ Holds(evq', DeadEvent(b)) => phase'[b] = "dead"
                      /\ phase'[b] = "dead" =>
                            /\ Followed(evq', MainEvent(b), DeadEvent(b))
                            /\ (Registered(b))' =>
                                  Holds(evq', DeadEvent(b)) \/ job' = UnregisterJob(b)
                            /\ job' = RegisterJob(b) => Holds(evq', DeadEvent(b))
    BY DEF DeadKnown, MainEvent, DeadEvent, StateEvent
  <2>1. Holds(evq', DeadEvent(b)) <=> Holds(evq, DeadEvent(b))
    BY <1>3, EventFacts
  <2>2. b # c => MainEvent(b) # MainEvent(c)
    BY EventFacts
  <2>3. QED
    BY <1>1, <1>3, <1>4, <2>1, <2>2 DEF RegInv, DeadKnown
<1>9. QED
  BY <1>5, <1>6, <1>7, <1>8 DEF RegInv

\* A port status is added to the queue.
LEMMA RegStatus ==
    ASSUME Types, RegInv, NEW e \in Event, \A b : e # MainEvent(b) /\ e # DeadEvent(b),
           evq' = Append(evq, e), UNCHANGED <<phase, dps, job>>
    PROVE  RegInv'
<1>1. evq \in Seq(Event)
  BY DEF Types, SetType
<1>2. \A b \in Conns : /\ Holds(evq', MainEvent(b)) <=> Holds(evq, MainEvent(b))
                       /\ Holds(evq', DeadEvent(b)) <=> Holds(evq, DeadEvent(b))
                       /\ Unique(evq, MainEvent(b)) => Unique(evq', MainEvent(b))
                       /\ Followed(evq, MainEvent(b), DeadEvent(b)) =>
                             Followed(evq', MainEvent(b), DeadEvent(b))
  BY <1>1, PutFacts
<1>3. QED
  BY <1>2 DEF RegInv, MainOnce, Waiting, MainKnown, DeadKnown, Registered, Old, MainEvent,
              DeadEvent, StateEvent

\* A connection dies and DPSet is told.
LEMMA RegDie ==
    ASSUME Types, RegInv, NEW c \in Conns, phase' = [phase EXCEPT ![c] = "dead"],
           evq' = Append(evq, DeadEvent(c)), UNCHANGED <<dps, job>>
    PROVE  RegInv'
<1>1. phase'[c] = "dead" /\ \A b \in Conns : b # c => phase'[b] = phase[b]
  BY DEF Types, ConnType
<1>2. evq \in Seq(Event) /\ DeadEvent(c) \in Event
  BY EventFacts DEF Types, SetType
<1>3. \A b \in Conns : /\ Holds(evq', MainEvent(b)) <=> Holds(evq, MainEvent(b))
                       /\ Holds(evq', DeadEvent(b)) <=> Holds(evq, DeadEvent(b)) \/ b = c
                       /\ Unique(evq, MainEvent(b)) => Unique(evq', MainEvent(b))
                       /\ Followed(evq, MainEvent(b), DeadEvent(b)) =>
                             Followed(evq', MainEvent(b), DeadEvent(b))
  BY <1>2, PutFacts, EventFacts
<1>4. Followed(evq', MainEvent(c), DeadEvent(c))
  BY <1>2, PutFacts, EventFacts
<1>5. \A b : (Registered(b))' <=> Registered(b)
  BY DEF Registered
<1>6. MainOnce'
  BY <1>1, <1>3, <1>5 DEF RegInv, MainOnce, MainEvent, StateEvent
<1>7. Waiting'
  <2>1. \A d \in DOMAIN dps : dps[d] \in Conns
    BY DEF Types, SetType
  <2>2. \A b \in Conns : job = RegisterJob(b) => DpidOf[b] \in DOMAIN dps
    BY DEF Types, JobInv
  <2>3. QED
    BY <1>1, <1>5, <2>1, <2>2 DEF RegInv, Waiting, Old
<1>8. MainKnown'
  BY <1>1, <1>3, <1>5 DEF RegInv, MainKnown, MainEvent, StateEvent
<1>9. DeadKnown'
  BY <1>1, <1>3, <1>4, <1>5 DEF RegInv, DeadKnown, MainEvent, DeadEvent, StateEvent
<1>10. QED
  BY <1>6, <1>7, <1>8, <1>9 DEF RegInv

\* DPSet takes an event off its queue.
LEMMA QueueTaken ==
    ASSUME Types, RegInv, NEW type, Handling(type)
    PROVE  /\ \A e : Holds(Tail(evq), e) => Holds(evq, e)
           /\ \A e : Holds(evq, e) /\ e # Head(evq) => Holds(Tail(evq), e)
           /\ Holds(evq, Head(evq))
           /\ \A b \in Conns :
                 /\ Unique(Tail(evq), MainEvent(b))
                 /\ Head(evq) = MainEvent(b) => ~Holds(Tail(evq), MainEvent(b))
                 /\ phase[b] = "dead" => Followed(Tail(evq), MainEvent(b), DeadEvent(b))
                 /\ phase[b] = "dead" /\ Head(evq) = MainEvent(b) =>
                       Holds(Tail(evq), DeadEvent(b))
<1>1. evq \in Seq(Event) /\ evq # << >>
  BY HandledEvent
<1>2. \A b \in Conns : Unique(evq, MainEvent(b))
  BY DEF RegInv, MainOnce
<1>3. \A b \in Conns : phase[b] = "dead" => Followed(evq, MainEvent(b), DeadEvent(b))
  BY DEF RegInv, DeadKnown
<1>4. /\ Holds(evq, Head(evq))
      /\ \A e : Holds(Tail(evq), e) => Holds(evq, e)
      /\ \A e : Holds(evq, e) => Holds(Tail(evq), e) \/ e = Head(evq)
      /\ \A e : Unique(evq, e) => Unique(Tail(evq), e)
      /\ Unique(evq, Head(evq)) => ~Holds(Tail(evq), Head(evq))
      /\ \A e, f : Followed(evq, e, f) => Followed(Tail(evq), e, f)
      /\ \A f : Followed(evq, Head(evq), f) => Holds(Tail(evq), f)
  BY <1>1, TakeFacts
<1>5. QED
  BY <1>2, <1>3, <1>4

\* A switch with a connection that is not closed yet: that one is closed first.
LEMMA RegReplace ==
    ASSUME Types, RegInv, Register, NEW c \in Conns, c = Head(evq).conn,
           DpidOf[c] \in DOMAIN dps, NEW o \in Conns, o = dps[DpidOf[c]]
    PROVE  RegInv'
<1>1. /\ Handling("state") /\ job = Idle
      /\ Head(evq) = MainEvent(c) /\ Tail(evq) \in Seq(Event)
  <2>1. Handling("state") /\ Head(evq).phase = "main"
    BY DEF Register
  <2>2. QED
    BY <2>1, HandledEvent, EventFacts
<1>2. ~Registered(c) /\ phase[c] \in {"main", "dead"}
  BY <1>1, QueueTaken DEF RegInv, MainOnce
<1>3. job' = RegisterJob(c) /\ dps' = dps
  BY DEF Register, RegisterJob
<1>4. \/ /\ phase[o] # "dead" /\ phase' = [phase EXCEPT ![o] = "dead"]
         /\ evq' = Append(Tail(evq), DeadEvent(o))
      \/ phase[o] = "dead" /\ phase' = phase /\ evq' = Tail(evq)
  BY DEF Register, DeadEvent
<1>5. phase'[o] = "dead" /\ \A b \in Conns : b # o => phase'[b] = phase[b]
  BY <1>1, <1>4 DEF Types, ConnType
<1>6. /\ \A b \in Conns :
            /\ Holds(evq', MainEvent(b)) <=> Holds(Tail(evq), MainEvent(b))
            /\ Holds(Tail(evq), DeadEvent(b)) => Holds(evq', DeadEvent(b))
            /\ Holds(evq', DeadEvent(b)) => Holds(Tail(evq), DeadEvent(b)) \/ b = o
            /\ Unique(Tail(evq), MainEvent(b)) => Unique(evq', MainEvent(b))
            /\ Followed(Tail(evq), MainEvent(b), DeadEvent(b)) =>
                  Followed(evq', MainEvent(b), DeadEvent(b))
      /\ phase[o] # "dead" => /\ Holds(evq', DeadEvent(o))
                              /\ Followed(evq', MainEvent(o), DeadEvent(o))
  <2>1. CASE evq' = Append(Tail(evq), DeadEvent(o))
    <3>1. DeadEvent(o) \in Event
      BY <1>1, EventFacts
    <3>2. /\ \A e : Holds(evq', e) <=> Holds(Tail(evq), e) \/ e = DeadEvent(o)
          /\ \A e : Unique(Tail(evq), e) /\ (e = DeadEvent(o) => ~Holds(Tail(evq), e))
                    => Unique(evq', e)
          /\ \A e, f : Followed(Tail(evq), e, f) /\ e # DeadEvent(o) => Followed(evq', e, f)
          /\ \A e : e # DeadEvent(o) => Followed(evq', e, DeadEvent(o))
      BY <1>1, <2>1, <3>1, PutFacts
    <3>3. QED
      BY <3>2, EventFacts
  <2>2. CASE evq' = Tail(evq) /\ phase[o] = "dead"
    BY <2>2
  <2>3. QED
    BY <1>4, <2>1, <2>2
<1>7. \A b : (Registered(b))' <=> Registered(b)
  BY <1>3 DEF Registered
<1>8. \A b \in Conns : /\ job' = RegisterJob(b) <=> b = c
                       /\ job' # UnregisterJob(b)
                       /\ job # RegisterJob(b) /\ job # UnregisterJob(b)
  BY <1>1, <1>3, JobFacts
<1>9. \A b \in Conns : b # c => MainEvent(b) # Head(evq)
  BY <1>1, EventFacts
<1>10. \A b \in Conns : DeadEvent(b) # Head(evq)
  BY <1>1, EventFacts
<1>11. MainOnce'
  <2> SUFFICES ASSUME NEW b \in Conns
               PROVE  /\ Unique(evq', MainEvent(b))
                      /\ Holds(evq', MainEvent(b)) =>
                            /\ phase'[b] \in {"main", "dead"}
                            /\ ~(Registered(b))'
                            /\ job' # RegisterJob(b)
    BY DEF MainOnce, MainEvent, StateEvent
  <2>1. Unique(evq', MainEvent(b))
    BY <1>1, <1>6, QueueTaken
  <2>2. Holds(evq', MainEvent(b)) => Holds(evq, MainEvent(b)) /\ b # c
    BY <1>1, <1>6, QueueTaken
  <2>3. QED
    BY <1>5, <1>7, <1>8, <2>1, <2>2 DEF RegInv, MainOnce
<1>12. Waiting'
  <2> SUFFICES /\ phase'[c] \in {"main", "dead"} /\ ~(Registered(c))'
               /\ (phase[Old(c)])' = "dead"
    BY <1>8 DEF Waiting
  <2>1. (Old(c))' = o
    BY <1>3 DEF Old
  <2>2. QED
    BY <1>2, <1>5, <1>7, <1>1, <2>1
<1>13. MainKnown'
  <2> SUFFICES ASSUME NEW b \in Conns
               PROVE  /\ (Registered(b))' => phase'[b] \in {"main", "dead"}
                      /\ phase'[b] = "main" =>
                            Holds(evq', MainEvent(b)) \/ job' = RegisterJob(b)
                            \/ (Registered(b))'
    BY DEF MainKnown, MainEvent, StateEvent
  <2>1. Holds(evq, MainEvent(b)) => Holds(evq', MainEvent(b)) \/ b = c
    BY <1>1, <1>6, <1>9, QueueTaken
  <2>2. QED
    BY <1>5, <1>7, <1>8, <2>1 DEF RegInv, MainKnown
<1>14. DeadKnown'
  <2> SUFFICES ASSUME NEW b \in Conns
               PROVE  /\ Holds(evq', DeadEvent(b)) => phase'[b] = "dead"
                      /\ phase'[b] = "dead" =>
                            /\ Followed(evq', MainEvent(b), DeadEvent(b))
                            /\ (Registered(b))' =>
                                  Holds(evq', DeadEvent(b)) \/ job' = UnregisterJob(b)
                            /\ job' = RegisterJob(b) => Holds(evq', DeadEvent(b))
    BY DEF DeadKnown, MainEvent, DeadEvent, StateEvent
  <2>1. Holds(evq', DeadEvent(b)) => Holds(evq, DeadEvent(b)) \/ b = o
    BY <1>1, <1>6, QueueTaken
  <2>2. Holds(evq, DeadEvent(b)) => Holds(evq', DeadEvent(b))
    BY <1>1, <1>6, <1>10, QueueTaken
  <2>3. phase[b] = "dead" => Followed(evq', MainEvent(b), DeadEvent(b))
    BY <1>1, <1>6, QueueTaken
  <2>4. phase[b] = "dead" /\ b = c => Holds(evq', DeadEvent(b))
    BY <1>1, <1>6, QueueTaken
  <2>5. c # o
    BY <1>2 DEF Registered
  <2>6. CASE b = o
    BY <1>5, <1>6, <1>7, <1>8, <2>2, <2>3, <2>5, <2>6 DEF RegInv, DeadKnown
  <2>7. CASE b # o
    BY <1>5, <1>7, <1>8, <2>1, <2>2, <2>3, <2>4, <2>7 DEF RegInv, DeadKnown
  <2>8. QED
    BY <2>6, <2>7
<1>15. QED
  BY <1>11, <1>12, <1>13, <1>14 DEF RegInv

\* A switch that DPSet does not know is registered.
LEMMA RegNew ==
    ASSUME Types, RegInv, Register, NEW c \in Conns, c = Head(evq).conn,
           DpidOf[c] \notin DOMAIN dps
    PROVE  RegInv'
<1>1. Handling("state") /\ job = Idle /\ Head(evq) = MainEvent(c)
  <2>1. Handling("state") /\ Head(evq).phase = "main"
    BY DEF Register
  <2>2. QED
    BY <2>1, HandledEvent, EventFacts
<1>2. phase[c] \in {"main", "dead"}
  BY <1>1, QueueTaken DEF RegInv, MainOnce
<1>3. dps' = With(dps, DpidOf[c], c) /\ evq' = Tail(evq) /\ UNCHANGED <<phase, job>>
  BY DEF Register, RegisterNow
<1>4. /\ (Registered(c))'
      /\ \A b \in Conns : b # c => ((Registered(b))' <=> Registered(b))
  BY <1>3 DEF Registered, With
<1>5. \A b \in Conns : job # RegisterJob(b) /\ job # UnregisterJob(b)
  BY <1>1, JobFacts
<1>6. \A b \in Conns : /\ b # c => MainEvent(b) # Head(evq)
                       /\ DeadEvent(b) # Head(evq)
  BY <1>1, EventFacts
<1>7. MainOnce'
  <2> SUFFICES ASSUME NEW b \in Conns
               PROVE  /\ Unique(evq', MainEvent(b))
                      /\ Holds(evq', MainEvent(b)) =>
                            /\ phase'[b] \in {"main", "dead"}
                            /\ ~(Registered(b))'
                            /\ job' # RegisterJob(b)
    BY DEF MainOnce, MainEvent, StateEvent
  <2>1. Unique(evq', MainEvent(b))
    BY <1>1, <1>3, QueueTaken
  <2>2. Holds(evq', MainEvent(b)) => Holds(evq, MainEvent(b)) /\ b # c
    BY <1>1, <1>3, QueueTaken
  <2>3. QED
    BY <1>3, <1>4, <1>5, <2>1, <2>2 DEF RegInv, MainOnce
<1>8. Waiting'
  BY <1>3, <1>5 DEF Waiting
<1>9. MainKnown'
  <2> SUFFICES ASSUME NEW b \in Conns
               PROVE  /\ (Registered(b))' => phase'[b] \in {"main", "dead"}
                      /\ phase'[b] = "main" =>
                            Holds(evq', MainEvent(b)) \/ job' = RegisterJob(b)
                            \/ (Registered(b))'
    BY DEF MainKnown, MainEvent, StateEvent
  <2>1. Holds(evq, MainEvent(b)) /\ b # c => Holds(evq', MainEvent(b))
    BY <1>1, <1>3, <1>6, QueueTaken
  <2>2. QED
    BY <1>2, <1>3, <1>4, <1>5, <2>1 DEF RegInv, MainKnown
<1>10. DeadKnown'
  <2> SUFFICES ASSUME NEW b \in Conns
               PROVE  /\ Holds(evq', DeadEvent(b)) => phase'[b] = "dead"
                      /\ phase'[b] = "dead" =>
                            /\ Followed(evq', MainEvent(b), DeadEvent(b))
                            /\ (Registered(b))' =>
                                  Holds(evq', DeadEvent(b)) \/ job' = UnregisterJob(b)
                            /\ job' = RegisterJob(b) => Holds(evq', DeadEvent(b))
    BY DEF DeadKnown, MainEvent, DeadEvent, StateEvent
  <2>1. Holds(evq', DeadEvent(b)) <=> Holds(evq, DeadEvent(b))
    BY <1>1, <1>3, <1>6, QueueTaken
  <2>2. phase[b] = "dead" => Followed(evq', MainEvent(b), DeadEvent(b))
    BY <1>1, <1>3, QueueTaken
  <2>3. phase[b] = "dead" /\ b = c => Holds(evq', DeadEvent(b))
    BY <1>1, <1>3, QueueTaken
  <2>4. QED
    BY <1>3, <1>4, <1>5, <2>1, <2>2, <2>3 DEF RegInv, DeadKnown
<1>11. QED
  BY <1>7, <1>8, <1>9, <1>10 DEF RegInv

\* The close of the old connection has returned.
LEMMA RegReregister ==
    ASSUME Types, RegInv, Reregister, NEW c \in Conns, job = RegisterJob(c)
    PROVE  RegInv'
<1>1. job.conn = c /\ DpidOf[c] \in DOMAIN dps
  BY JobFacts DEF RegisterJob, Types, JobInv
<1>2. dps' = With(dps, DpidOf[c], c) /\ job' = Idle /\ UNCHANGED <<evq, phase>>
  BY <1>1 DEF Reregister, RegisterNow, connVars
<1>3. /\ phase[c] \in {"main", "dead"} /\ ~Registered(c) /\ phase[Old(c)] = "dead"
      /\ ~Holds(evq, MainEvent(c))
      /\ phase[c] = "dead" => Holds(evq, DeadEvent(c))
  BY <1>1 DEF RegInv, Waiting, MainOnce, DeadKnown
<1>4. /\ (Registered(c))'
      /\ \A b \in Conns : b # c => ((Registered(b))' => Registered(b))
      /\ \A b \in Conns : Registered(b) => (Registered(b))' \/ b = Old(c)
  BY <1>2 DEF Registered, Old, With
<1>5. \A b \in Conns : /\ job' # RegisterJob(b) /\ job' # UnregisterJob(b)
                       /\ job # UnregisterJob(b)
                       /\ job = RegisterJob(b) => b = c
  BY <1>1, <1>2, JobFacts
<1>6. MainOnce'
  BY <1>2, <1>3, <1>4, <1>5 DEF RegInv, MainOnce, MainEvent, StateEvent
<1>7. Waiting'
  BY <1>5 DEF Waiting
<1>8. MainKnown'
  <2> SUFFICES ASSUME NEW b \in Conns
               PROVE  /\ (Registered(b))' => phase[b] \in {"main", "dead"}
                      /\ phase[b] = "main" => Holds(evq, MainEvent(b)) \/ (Registered(b))'
    BY <1>2 DEF MainKnown, MainEvent, StateEvent
  <2>1. CASE b = c
    BY <1>3, <1>4, <2>1
  <2>2. CASE b # c
    BY <1>3, <1>4, <1>5, <2>2 DEF RegInv, MainKnown
  <2>3. QED
    BY <2>1, <2>2
<1>9. DeadKnown'
  <2> SUFFICES ASSUME NEW b \in Conns
               PROVE  /\ Holds(evq, DeadEvent(b)) => phase[b] = "dead"
                      /\ phase[b] = "dead" =>
                            /\ Followed(evq, MainEvent(b), DeadEvent(b))
                            /\ (Registered(b))' => Holds(evq, DeadEvent(b))
    BY <1>2, <1>5 DEF DeadKnown, MainEvent, DeadEvent, StateEvent
  <2>1. QED
    BY <1>3, <1>4, <1>5 DEF RegInv, DeadKnown
<1>10. QED
  BY <1>6, <1>7, <1>8, <1>9 DEF RegInv

\* The death of a connection: the switch is taken out if it is the one listed.
LEMMA RegUnregister ==
    ASSUME Types, RegInv, Unregister, NEW c \in Conns, c = Head(evq).conn
    PROVE  RegInv'
<1>1. Handling("state") /\ job = Idle /\ Head(evq) = DeadEvent(c)
  <2>1. Handling("state") /\ Head(evq).phase = "dead"
    BY DEF Unregister
  <2>2. QED
    BY <2>1, HandledEvent, EventFacts
<1>2. phase[c] = "dead"
  BY <1>1, QueueTaken DEF RegInv, DeadKnown
<1>3. evq' = Tail(evq) /\ UNCHANGED <<phase, dps>>
  BY DEF Unregister, connVars
<1>4. Registered(c) <=> \E e \in DOMAIN dps : dps[e] = c
  BY DEF Registered, Types, SetType
<1>5. (Registered(c) => job' = UnregisterJob(c)) /\ (~Registered(c) => job' = job)
  BY <1>4 DEF Unregister, UnregisterJob
<1>6. \A b : (Registered(b))' <=> Registered(b)
  BY <1>3 DEF Registered
<1>7. \A b \in Conns : /\ job # RegisterJob(b) /\ job # UnregisterJob(b)
                       /\ job' # RegisterJob(b)
                       /\ job' = UnregisterJob(b) => b = c /\ Registered(c)
  BY <1>1, <1>5, JobFacts
<1>8. \A b \in Conns : /\ MainEvent(b) # Head(evq)
                       /\ b # c => DeadEvent(b) # Head(evq)
  BY <1>1, EventFacts
<1>9. \A b \in Conns : Holds(evq', MainEvent(b)) <=> Holds(evq, MainEvent(b))
  BY <1>1, <1>3, <1>8, QueueTaken
<1>10. MainOnce'
  <2>1. \A b \in Conns : Unique(evq', MainEvent(b))
    BY <1>1, <1>3, QueueTaken
  <2>2. QED
    BY <1>3, <1>6, <1>7, <1>9, <2>1 DEF RegInv, MainOnce, MainEvent, StateEvent
<1>11. Waiting'
  BY <1>2, <1>3, <1>6, <1>7 DEF Waiting
<1>12. MainKnown'
  BY <1>3, <1>6, <1>7, <1>9 DEF RegInv, MainKnown, MainEvent, StateEvent
<1>13. DeadKnown'
  <2> SUFFICES ASSUME NEW b \in Conns
               PROVE  /\ Holds(evq', DeadEvent(b)) => phase[b] = "dead"
                      /\ phase[b] = "dead" =>
                            /\ Followed(evq', MainEvent(b), DeadEvent(b))
                            /\ Registered(b) =>
                                  Holds(evq', DeadEvent(b)) \/ job' = UnregisterJob(b)
    BY <1>3, <1>6, <1>7 DEF DeadKnown, MainEvent, DeadEvent, StateEvent
  <2>1. Holds(evq', DeadEvent(b)) => Holds(evq, DeadEvent(b))
    BY <1>1, <1>3, QueueTaken
  <2>2. phase[b] = "dead" => Followed(evq', MainEvent(b), DeadEvent(b))
    BY <1>1, <1>3, QueueTaken
  <2>3. b # c /\ Holds(evq, DeadEvent(b)) => Holds(evq', DeadEvent(b))
    BY <1>1, <1>3, <1>8, QueueTaken
  <2>4. QED
    BY <1>5, <1>7, <2>1, <2>2, <2>3 DEF RegInv, DeadKnown
<1>14. QED
  BY <1>10, <1>11, <1>12, <1>13 DEF RegInv

\* The switch is taken out.
LEMMA RegUnregistered ==
    ASSUME Types, RegInv, Unregistered, NEW c \in Conns, job = UnregisterJob(c)
    PROVE  RegInv'
<1>1. job.conn = c
  BY DEF UnregisterJob
<1>2. dps' = Minus(dps, DpidOf[c]) /\ job' = Idle /\ UNCHANGED <<evq, phase>>
  BY <1>1 DEF Unregistered, connVars
<1>3. Registered(c) /\ phase[c] = "dead"
  BY DEF RegInv, Waiting
<1>4. \A b \in Conns : (Registered(b))' <=> Registered(b) /\ b # c
  BY <1>2, <1>3 DEF Registered, Minus, Restrict
<1>5. \A b \in Conns : /\ job' # RegisterJob(b) /\ job' # UnregisterJob(b)
                       /\ job # RegisterJob(b)
                       /\ job = UnregisterJob(b) => b = c
  BY <1>2, JobFacts
<1>6. MainOnce'
  BY <1>2, <1>4, <1>5 DEF RegInv, MainOnce, MainEvent, StateEvent
<1>7. Waiting'
  BY <1>5 DEF Waiting
<1>8. MainKnown'
  BY <1>2, <1>3, <1>4, <1>5 DEF RegInv, MainKnown, MainEvent, StateEvent
<1>9. DeadKnown'
  BY <1>2, <1>4, <1>5 DEF RegInv, DeadKnown, MainEvent, DeadEvent, StateEvent
<1>10. QED
  BY <1>6, <1>7, <1>8, <1>9 DEF RegInv

\* A port status is handled.
LEMMA RegStatusEvent ==
    ASSUME Types, RegInv, StatusEvent
    PROVE  RegInv'
<1>1. Handling("status") /\ evq' = Tail(evq) /\ UNCHANGED <<phase, dps, job>>
  BY DEF StatusEvent, connVars
<1>2. \A b : Head(evq) # MainEvent(b) /\ Head(evq) # DeadEvent(b)
  BY <1>1, HandledEvent, EventFacts
<1>3. \A b \in Conns : /\ Holds(evq', MainEvent(b)) <=> Holds(evq, MainEvent(b))
                       /\ Holds(evq', DeadEvent(b)) <=> Holds(evq, DeadEvent(b))
                       /\ Unique(evq', MainEvent(b))
                       /\ phase[b] = "dead" => Followed(evq', MainEvent(b), DeadEvent(b))
  BY <1>1, <1>2, QueueTaken
<1>4. QED
  BY <1>1, <1>3 DEF RegInv, MainOnce, Waiting, MainKnown, DeadKnown, Registered, Old,
                    MainEvent, DeadEvent, StateEvent

\* Every step keeps the registry's invariant.
LEMMA RegNext == Types /\ WireInv /\ RegInv /\ [Next]_vars => RegInv'
<1> SUFFICES ASSUME Types, WireInv, RegInv, [Next]_vars PROVE RegInv'
  OBVIOUS
<1>1. ASSUME NEW c \in Conns, Connect(c) PROVE RegInv'
  BY <1>1, RegEarly DEF Connect, setVars
<1>2. ASSUME NEW c \in Conns, NEW h \in SwitchHello, Hello(c, h) PROVE RegInv'
  BY <1>2, RegEarly DEF Hello, setVars
<1>3. ASSUME NEW c \in Conns, Features(c) \/ PortDescReply(c) PROVE RegInv'
  <2>1. phase[c] = "config"
    BY <1>3, ReplyInConfig DEF Features, PortDescReply
  <2>2. UNCHANGED <<dps, job>>
        /\ \/ UNCHANGED <<phase, evq>>
           \/ phase' = [phase EXCEPT ![c] = "main"] /\ evq' = Append(evq, MainEvent(c))
    BY <1>3 DEF Features, PortDescReply, Notify, MainEvent, setVars
  <2>3. QED
    BY <2>1, <2>2, RegMain, RegSame
<1>4. ASSUME NEW c \in Conns, PortStatus(c) PROVE RegInv'
  <2> DEFINE e == [type |-> "status", conn |-> c, status |-> Head(wire[c])]
  <2>1. UNCHANGED <<phase, dps, job>> /\ (evq' = evq \/ evq' = Append(evq, e))
    BY <1>4 DEF PortStatus, Notify, setVars
  <2>2. Head(wire[c]) \in Status
    <3>1. wire[c] \in Seq(Message) /\ wire[c] # << >> /\ Head(wire[c]).type = "status"
      BY <1>4 DEF PortStatus, Reading, Types, WireType
    <3>2. Head(wire[c]) \in Message
      BY <3>1
    <3>3. QED
      BY <3>1, <3>2, MessageFacts
  <2>3. e \in Event /\ \A b : e # MainEvent(b) /\ e # DeadEvent(b)
    BY <2>2, EventFacts
  <2> HIDE DEF e
  <2>4. QED
    BY <2>1, <2>3, RegStatus, RegSame
<1>5. ASSUME NEW c \in Conns, Die(c) PROVE RegInv'
  BY <1>5, RegDie DEF Die, Notify, DeadEvent, setVars
<1>6. CASE Register
  <2>1. PICK c \in Conns : c = Head(evq).conn
    BY <1>6, HandledEvent DEF Register
  <2>2. CASE DpidOf[c] \in DOMAIN dps
    <3>1. PICK o \in Conns : o = dps[DpidOf[c]]
      BY <2>2 DEF Types, SetType
    <3>2. QED
      BY <1>6, <2>1, <2>2, <3>1, RegReplace
  <2>3. CASE DpidOf[c] \notin DOMAIN dps
    BY <1>6, <2>1, <2>3, RegNew
  <2>4. QED
    BY <2>2, <2>3
<1>7. CASE Reregister
  <2>1. \E c \in Conns : job = RegisterJob(c)
    BY <1>7, JobFacts DEF Reregister, Types, SetType
  <2>2. QED
    BY <1>7, <2>1, RegReregister
<1>8. CASE Unregister
  <2>1. \E c \in Conns : c = Head(evq).conn
    BY <1>8, HandledEvent DEF Unregister
  <2>2. QED
    BY <1>8, <2>1, RegUnregister
<1>9. CASE Unregistered
  <2>1. \E c \in Conns : job = UnregisterJob(c)
    BY <1>9, JobFacts DEF Unregistered, Types, SetType
  <2>2. QED
    BY <1>9, <2>1, RegUnregistered
<1>10. CASE StatusEvent
  BY <1>10, RegStatusEvent
<1>11. CASE UNCHANGED <<phase, evq, dps, job>>
  BY <1>11, RegSame
<1>12. ASSUME \/ UNCHANGED <<connVars, evq, setVars>>
              \/ \E c \in Conns : ApplyStatus(c)
              \/ UNCHANGED vars
       PROVE  RegInv'
  BY <1>11, <1>12 DEF ApplyStatus, connVars, setVars, vars
<1>13. QED
  BY <1>1, <1>2, <1>3, <1>4, <1>5, <1>6, <1>7, <1>8, <1>9, <1>10, <1>12
     DEF Next, RecvStep, DPSetStep, PortChange, AnswerFeatures, AnswerRest, AnswerPortDesc,
         connVars, setVars

\* The registry's invariant holds in every behaviour.
LEMMA RegHolds == Spec => []RegInv
<1>1. Init => RegInv
  <2> SUFFICES ASSUME Init PROVE RegInv
    OBVIOUS
  <2>1. evq = << >> /\ job = Idle /\ DOMAIN dps = {} /\ \A c \in Conns : phase[c] = "none"
    BY DEF Init
  <2>2. QED
    BY <2>1, EmptyQueue, JobFacts
       DEF RegInv, MainOnce, Waiting, MainKnown, DeadKnown, Registered
<1>2. QED
  BY <1>1, RegNext, TypesHold, WireHolds, PTL DEF Spec

\* When DPSet has caught up, its registry lists exactly the connections in the
\* main phase: a reconnecting switch takes over, and the late death of its old
\* connection does not take the new one out.
THEOREM DPSetRegistry == Spec => []RegistryExact
<1>1. Types /\ RegInv => RegistryExact
  <2> SUFFICES ASSUME Types, RegInv, evq = << >>, job = Idle, NEW c \in Conns
               PROVE  phase[c] = "main" <=> Registered(c)
    BY DEF RegistryExact, Quiet, Registered
  <2>1. ~Holds(evq, MainEvent(c)) /\ ~Holds(evq, DeadEvent(c))
    BY EmptyQueue
  <2>2. job # RegisterJob(c) /\ job # UnregisterJob(c)
    BY JobFacts
  <2>3. QED
    BY <2>1, <2>2 DEF RegInv, MainKnown, DeadKnown
<1>2. QED
  BY <1>1, TypesHold, RegHolds, PTL

-----------------------------------------------------------------------------
(***************************************************************************)
(* What applications are told.                                             *)
(***************************************************************************)
Words == {"enter", "reconnected", "leave"}

\* The announcements of one switch alternate.
Alternates(s) ==
    \A i \in 1 .. Len(s) : s[i] = "enter" <=> ~(i > 1 /\ s[i - 1] # "leave")

\* One more announcement.
LEMMA AnnounceOne ==
    ASSUME NEW s \in Seq(Words), NEW w \in Words, Alternates(s), w = "enter" <=> ~Inside(s)
    PROVE  /\ Alternates(s \o <<w>>)
           /\ Inside(s \o <<w>>) <=> w # "leave"
<1> DEFINE r == s \o <<w>>
<1>1. /\ Len(s) \in Nat /\ Len(r) = Len(s) + 1
      /\ \A i \in 1 .. Len(s) : r[i] = s[i]
      /\ r[Len(s) + 1] = w
      /\ r # << >>
  BY LenProperties
<1>2. s = << >> <=> Len(s) = 0
  BY EmptySeq
<1> HIDE DEF r
<1>3. Inside(r) <=> w # "leave"
  BY <1>1 DEF Inside
<1>4. ASSUME NEW i \in 1 .. Len(r)
      PROVE  r[i] = "enter" <=> ~(i > 1 /\ r[i - 1] # "leave")
  <2>1. CASE i \in 1 .. Len(s)
    <3>1. r[i] = s[i] /\ (i > 1 => r[i - 1] = s[i - 1])
      BY <1>1, <2>1
    <3>2. QED
      BY <2>1, <3>1 DEF Alternates
  <2>2. CASE i = Len(s) + 1
    <3>1. r[i] = w /\ (i > 1 => i - 1 = Len(s) /\ r[i - 1] = s[Len(s)])
      BY <1>1, <2>2
    <3>2. Inside(s) <=> i > 1 /\ r[i - 1] # "leave"
      BY <1>1, <1>2, <2>2, <3>1 DEF Inside
    <3>3. QED
      BY <3>1, <3>2
  <2>3. QED
    BY <1>1, <2>1, <2>2
<1>5. Alternates(r)
  BY <1>4 DEF Alternates
<1>6. QED
  BY <1>3, <1>5 DEF r

\* A switch is in while it is registered and not about to be taken out.
In(d) == d \in DOMAIN dps /\ \A c \in Conns : job = UnregisterJob(c) => DpidOf[c] # d

AnnounceInv ==
    \A d \in Dpids : Alternates(announced[d]) /\ (Inside(announced[d]) <=> In(d))

\* A step that announces one event of one switch.
LEMMA AnnounceStep ==
    ASSUME Types, AnnounceInv, NEW d \in Dpids, NEW w \in Words,
           announced' = [announced EXCEPT ![d] = @ \o <<w>>],
           w = "enter" <=> ~In(d),
           \A e \in Dpids \ {d} : (In(e))' <=> In(e),
           (In(d))' <=> w # "leave"
    PROVE  AnnounceInv'
<1>1. announced[d] \in Seq(Words) /\ announced \in [Dpids -> Seq(Words)]
  BY DEF Types, SetType, Words
<1>2. Alternates(announced[d]) /\ (Inside(announced[d]) <=> In(d))
  BY DEF AnnounceInv
<1> DEFINE r == announced[d] \o <<w>>
<1>3. Alternates(r) /\ (Inside(r) <=> w # "leave")
  BY <1>1, <1>2, AnnounceOne
<1>4. announced'[d] = r /\ \A e \in Dpids \ {d} : announced'[e] = announced[e]
  BY <1>1
<1> HIDE DEF r
<1>5. QED
  BY <1>3, <1>4 DEF AnnounceInv

\* Every step keeps the announcements in order.
LEMMA AnnounceNext == Types /\ RegInv /\ AnnounceInv /\ [Next]_vars => AnnounceInv'
<1> SUFFICES ASSUME Types, RegInv, AnnounceInv, [Next]_vars PROVE AnnounceInv'
  OBVIOUS
<1>0. /\ DOMAIN pstate = DOMAIN dps /\ DOMAIN dps \subseteq Dpids
      /\ announced \in [Dpids -> Seq(Words)]
      /\ \A c \in Conns : DpidOf[c] \in Dpids
  BY DPSetAssumption DEF Types, SetType, Words
<1>1. ASSUME UNCHANGED <<dps, job, announced>> PROVE AnnounceInv'
  BY <1>1 DEF AnnounceInv, In
<1>2. CASE Register
  <2>1. PICK c \in Conns : c = Head(evq).conn
    BY <1>2, HandledEvent DEF Register
  <2>2. job = Idle /\ \A b \in Conns : job # UnregisterJob(b)
    BY <1>2, HandledEvent, JobFacts DEF Register
  <2>3. CASE DpidOf[c] \in DOMAIN dps
    <3>1. job' = RegisterJob(c) /\ UNCHANGED <<dps, announced>>
      BY <1>2, <2>1, <2>3 DEF Register, RegisterJob
    <3>2. \A b \in Conns : job' # UnregisterJob(b)
      BY <3>1, JobFacts
    <3>3. QED
      BY <2>2, <3>1, <3>2 DEF AnnounceInv, In
  <2>4. CASE DpidOf[c] \notin DOMAIN dps
    <3>1. RegisterNow(c, FALSE) /\ job' = job
      BY <1>2, <2>1, <2>4 DEF Register
    <3>2. announced' = [announced EXCEPT ![DpidOf[c]] = @ \o (<<"enter">> \o << >>)]
      BY <1>0, <2>4, <3>1 DEF RegisterNow, Announce
    <3>3. <<"enter">> \o << >> = <<"enter">>
      OBVIOUS
    <3>4. announced' = [announced EXCEPT ![DpidOf[c]] = @ \o <<"enter">>]
      BY <3>2, <3>3
    <3>5. DOMAIN dps' = DOMAIN dps \cup {DpidOf[c]}
      BY <3>1 DEF RegisterNow, With
    <3>6. QED
      BY <1>0, <2>2, <2>4, <3>1, <3>4, <3>5, AnnounceStep DEF In, Words
  <2>5. QED
    BY <2>3, <2>4
<1>3. CASE Reregister
  <2>1. PICK c \in Conns : job = RegisterJob(c) /\ c = job.conn
    BY <1>3, JobFacts DEF Reregister, Types, SetType
  <2>2. DpidOf[c] \in DOMAIN dps
    BY <2>1 DEF Types, JobInv
  <2>3. RegisterNow(c, TRUE) /\ job' = Idle
    BY <1>3, <2>1 DEF Reregister
  <2>4. announced' = [announced EXCEPT ![DpidOf[c]] = @ \o (<< >> \o <<"reconnected">>)]
    BY <1>0, <2>2, <2>3 DEF RegisterNow, Announce
  <2>5. << >> \o <<"reconnected">> = <<"reconnected">>
    OBVIOUS
  <2>6. announced' = [announced EXCEPT ![DpidOf[c]] = @ \o <<"reconnected">>]
    BY <2>4, <2>5
  <2>7. DOMAIN dps' = DOMAIN dps
    BY <2>2, <2>3 DEF RegisterNow, With
  <2>8. \A b \in Conns : job # UnregisterJob(b) /\ job' # UnregisterJob(b)
    BY <2>1, <2>3, JobFacts
  <2>9. QED
    BY <1>0, <2>2, <2>6, <2>7, <2>8, AnnounceStep DEF In, Words
<1>4. CASE Unregister
  <2>1. PICK c \in Conns : c = Head(evq).conn
    BY <1>4, HandledEvent DEF Unregister
  <2>2. \A b \in Conns : job # UnregisterJob(b)
    BY <1>4, HandledEvent, JobFacts DEF Unregister
  <2>3. CASE \E e \in DOMAIN dps : dps[e] = c
    <3>1. DpidOf[c] \in DOMAIN dps
      BY <2>3 DEF Types, SetType
    <3>2. /\ announced' = [announced EXCEPT ![DpidOf[c]] = @ \o <<"leave">>]
          /\ job' = UnregisterJob(c) /\ dps' = dps
      BY <1>4, <2>1, <2>3 DEF Unregister, Announce, UnregisterJob
    <3>3. \A b \in Conns : job' = UnregisterJob(b) <=> b = c
      BY <3>2, JobFacts
    <3>4. QED
      BY <1>0, <2>2, <3>1, <3>2, <3>3, AnnounceStep DEF In, Words
  <2>4. CASE ~\E e \in DOMAIN dps : dps[e] = c
    BY <1>1, <1>4, <2>1, <2>4 DEF Unregister
  <2>5. QED
    BY <2>3, <2>4
<1>5. CASE Unregistered
  <2>1. PICK c \in Conns : job = UnregisterJob(c) /\ c = job.conn
    BY <1>5, JobFacts DEF Unregistered, Types, SetType
  <2>2. dps' = Minus(dps, DpidOf[c]) /\ job' = Idle /\ announced' = announced
    BY <1>5, <2>1 DEF Unregistered
  <2>3. DOMAIN dps' = DOMAIN dps \ {DpidOf[c]}
    BY <2>2 DEF Minus, Restrict
  <2>4. \A b \in Conns : job' # UnregisterJob(b) /\ (job = UnregisterJob(b) <=> b = c)
    BY <2>1, <2>2, JobFacts
  <2>5. QED
    BY <2>2, <2>3, <2>4 DEF AnnounceInv, In
<1>6. CASE StatusEvent \/ UNCHANGED setVars \/ UNCHANGED vars
  BY <1>1, <1>6 DEF StatusEvent, setVars, vars
<1>7. QED
  BY <1>2, <1>3, <1>4, <1>5, <1>6
     DEF Next, RecvStep, DPSetStep, PortChange, AnswerFeatures, AnswerRest, AnswerPortDesc,
         Connect, Die, Hello, Features, PortDescReply, PortStatus, ApplyStatus

\* Applications see every switch enter before anything else, never enter twice,
\* and reconnect or leave only while it is in, however connections of the
\* switch overlap.
THEOREM DPSetAnnouncements == Spec => []AnnouncementsAlternate
<1>1. Init => AnnounceInv
  <2> SUFFICES ASSUME Init, NEW d \in Dpids
               PROVE  Alternates(announced[d]) /\ (Inside(announced[d]) <=> In(d))
    BY DEF AnnounceInv
  <2>1. announced[d] = << >> /\ DOMAIN dps = {}
    BY DEF Init
  <2>2. QED
    BY <2>1 DEF Alternates, Inside, In
<1>2. Types /\ AnnounceInv => AnnouncementsAlternate
  <2> SUFFICES ASSUME Types, AnnounceInv, NEW d \in Dpids, NEW i \in DOMAIN announced[d]
               PROVE  announced[d][i] = "enter" <=> ~(i > 1 /\ announced[d][i - 1] # "leave")
    BY DEF AnnouncementsAlternate
  <2>1. i \in 1 .. Len(announced[d])
    <3>1. announced[d] \in Seq(Words)
      BY DEF Types, SetType, Words
    <3>2. QED
      BY <3>1
  <2>2. QED
    BY <2>1 DEF AnnounceInv, Alternates
<1>3. QED
  BY <1>1, <1>2, AnnounceNext, TypesHold, RegHolds, PTL DEF Spec

=============================================================================
