------------------------------ MODULE StpProofs ------------------------------
(***************************************************************************)
(* Proofs about the spanning tree library, for every network of bridges    *)
(* (with several links between two bridges, and links of a bridge to       *)
(* itself) and all costs and times: the types of the tables, whether or    *)
(* not recalculations overlap, and, where they do not, that a bridge that  *)
(* does not recalculate has the root and the root port that follow from    *)
(* what its ports hold (RootPortExact).                                    *)
(***************************************************************************)
EXTENDS Stp, ProofLemmas

Roles == {"root", "designated", "nondesignated"}
States == {"gone", "disable", "block", "listen", "learn", "forward"}
Reports == {"none", "up", "down", "add", "delete"}

MsgType == [root : Nat, cost : Nat, bridge : Nat, port : Nat, age : Nat]
PrioType == [root : Nat, cost : Nat, age : Nat]
PortType == [role : Roles, state : States, held : MsgType, prio : PrioType,
             wait : Off .. MaxAge, timer : Off .. FwdDelay]
TaskType == [bridge : Bridges \cup {0}, init : BOOLEAN, gone : Ports \cup {0},
             phase : {"down", "up"}, left : SUBSET Ports, roles : [Ports -> Roles]]

\* The types of the variables.
Types ==
    /\ alive \subseteq Bridges
    /\ root \in [Bridges -> PrioType]
    /\ port \in [Ports -> PortType]
    /\ linked \subseteq Ports
    /\ news \in [Ports -> Reports]
    /\ task \in [Threads -> TaskType]
    /\ changes \in Nat

\* A link works at both of its ends or at none.
BothEnds(L) == \A p \in Ports : p \in L <=> Peer[p] \in L

\* The object r of the port p.  A port without use has forgotten all, and what
\* a port holds comes from the port at the other end.  Where recalculations
\* overlap one may make a port the root port that another one made forget.
PortOK(p, r) ==
    /\ r \in PortType
    /\ r.timer # Off <=> r.state \in {"listen", "learn"}
    /\ r.role = "designated" => r.wait = Off
    /\ ~Active(r) => r.role = "designated" /\ r.held = NoMsg
    /\ r.role = "root" => r.held # NoMsg \/ Overlap
    /\ r.held # NoMsg => r.held.port = Peer[p]

\* BPDUs w on the links of L come from the port at the other end.
WireOK(w, L) ==
    /\ w \in [Ports -> Seq(MsgType)]
    /\ \A p \in Ports : w[p] # << >> => p \in L
    /\ \A p \in Ports : \A i \in 1 .. Len(w[p]) : w[p][i].port = Peer[p]

\* Ports, their links and what the switches report of them.  A report of a
\* port that comes up never finds it holding something: this is what makes
\* link_up, which does not recalculate, right.
LinkInv(p) ==
    /\ port[p].state # "gone" => Owner[p] \in alive
    /\ news[p] # "none" => Owner[p] \in alive
    /\ p \in linked => Owner[p] \in alive
    /\ p \in linked => port[p].state # "gone" \/ news[p] = "add"
    /\ news[p] \in {"down", "delete"} => p \notin linked
    /\ p \notin linked => port[p].held = NoMsg \/ news[p] \in {"down", "delete"}
    /\ news[p] \in {"up", "add"} => port[p].held = NoMsg

\* A recalculation is one of a registered bridge and goes over ports of it.  A
\* port that is to be removed at its end has no use and no link.
TaskInv(t) ==
    /\ task[t] # Idle => task[t].bridge \in alive
    /\ task[t].gone # 0 => /\ t = 0 /\ task[t].gone \notin linked
                           /\ ~Active(port[task[t].gone])
    /\ task[t].left \subseteq PortsOf(task[t].bridge)
    /\ task[t].phase = "down" => \A p \in Ports : task[t].roles[p] = "designated"

\* Where recalculations do not overlap there is one at a time, and what the
\* ports of a bridge forgot in its first loop is forgotten when the second starts.
AloneInv(t) ==
    ~Overlap /\ task[t] # Idle =>
        /\ \A u \in Threads \ {t} : task[u] = Idle
        /\ task[t].phase = "down"
        /\ task[t].init => \A p \in PortsOf(task[t].bridge) :
                             p \in task[t].left \/ port[p].held = NoMsg

\* The port p is the best one of those that hold a better root than b.
Best(b, p) == p \in Known(b) /\ \A q \in Known(b) \ {p} : Nearer(p, q)

\* The bridge b does not recalculate.
Settled(b) == b \in alive /\ \A t \in Threads : task[t].bridge # b

\* RootPortExact for one bridge, without the CHOOSE of SelectRootPort.
RootInv(b) ==
    ~Overlap /\ Settled(b) =>
        /\ \A p \in PortsOf(b) : port[p].role = "root" =>
              /\ Best(b, p)
              /\ root[b] = [root |-> port[p].held.root, cost |-> port[p].held.cost,
                            age |-> port[p].held.age]
        /\ (\A p \in PortsOf(b) : port[p].role # "root") =>
              root[b] = OwnRoot(b) /\ Known(b) = {}

Inv ==
    /\ Types
    /\ BothEnds(linked)
    /\ WireOK(wire, linked)
    /\ \A p \in Ports : PortOK(p, port[p])
    /\ \A p \in Ports : LinkInv(p)
    /\ \A t \in Threads : TaskInv(t)
    /\ \A t \in Threads : AloneInv(t)
    /\ \A b \in Bridges : RootInv(b)

-----------------------------------------------------------------------------
(***************************************************************************)
(* Port objects.                                                           *)
(***************************************************************************)

\* The constants of the port objects have their types.
LEMMA ConstantTypes ==
    /\ NoMsg \in MsgType
    /\ \A b \in Bridges : OwnRoot(b) \in PrioType
    /\ Gone \in PortType
    /\ Idle \in TaskType
    /\ 0 \notin Ports /\ 0 \notin Bridges
BY StpAssumption DEF NoMsg, MsgType, OwnRoot, PrioType, Gone, PortType, Idle, TaskType,
   Roles, States, Off

\* No recalculation.
LEMMA IdleFacts ==
    /\ Idle.gone = 0 /\ Idle.bridge = 0 /\ Idle.left = {}
    /\ \A p \in Ports : Idle.roles[p] = "designated"
BY DEF Idle

\* The time a port waits for a BPDU.
LEMMA WaitTimeType ==
    ASSUME NEW h \in MsgType
    PROVE  WaitTime(h) \in 0 .. MaxAge
BY StpAssumption DEF WaitTime, MsgType

\* Port.up: the port keeps what it holds and starts to listen.
LEMMA UpOK ==
    ASSUME NEW p, NEW r, PortOK(p, r), NEW role \in Roles, NEW prio \in PrioType,
           role = "root" => r.held # NoMsg \/ Overlap
    PROVE  /\ PortOK(p, Up(r, role, prio))
           /\ Up(r, role, prio).held = r.held
           /\ Up(r, role, prio).role = role
           /\ Up(r, role, prio).state = "listen"
<1>1. r \in PortType /\ r.held \in MsgType /\ WaitTime(r.held) \in 0 .. MaxAge
  BY WaitTimeType DEF PortOK, PortType
<1>2. MaxAge \in Nat /\ FwdDelay \in Nat \ {0}
  BY StpAssumption
<1>3. PICK w : w = IF role = "designated" THEN Off
                   ELSE IF role = r.role THEN r.wait ELSE WaitTime(r.held)
  OBVIOUS
<1>4. w \in Off .. MaxAge /\ (role = "designated" => w = Off)
  BY <1>1, <1>2, <1>3 DEF PortType, Off
<1>5. PICK u : u = Up(r, role, prio)
  OBVIOUS
<1>6. u = [role |-> role, state |-> "listen", held |-> r.held, prio |-> prio,
           wait |-> w, timer |-> FwdDelay]
  BY <1>1, <1>3, <1>5 DEF Up, PortType
<1>7. u \in PortType
  BY <1>1, <1>2, <1>4, <1>6 DEF PortType, States, Off
<1>8. PortOK(p, u)
  BY <1>2, <1>4, <1>6, <1>7 DEF PortOK, Active, Off
<1>9. QED
  BY <1>5, <1>6, <1>8

\* Port.down: the port forgets what it holds if it is to.
LEMMA DownOK ==
    ASSUME NEW p, NEW r, PortOK(p, r), NEW s \in {"block", "disable"}, NEW init \in BOOLEAN,
           s = "disable" => init
    PROVE  /\ PortOK(p, Down(r, s, init))
           /\ Down(r, s, init).held = (IF init THEN NoMsg ELSE r.held)
           /\ Down(r, s, init).role = "designated"
           /\ Down(r, s, init).state = s
<1>1. r \in PortType /\ NoMsg \in MsgType /\ MaxAge \in Nat /\ FwdDelay \in Nat
  BY StpAssumption, ConstantTypes DEF PortOK
<1>2. PICK h : h = IF init THEN NoMsg ELSE r.held
  OBVIOUS
<1>3. PICK u : u = Down(r, s, init)
  OBVIOUS
<1>4. u = [role |-> "designated", state |-> s, held |-> h, prio |-> r.prio,
           wait |-> Off, timer |-> Off]
  BY <1>1, <1>2, <1>3 DEF Down, PortType
<1>5. h \in MsgType
  BY <1>1, <1>2 DEF PortType
<1>6. u \in PortType
  BY <1>1, <1>4, <1>5 DEF PortType, Roles, States, Off
<1>7. PortOK(p, u)
  BY <1>2, <1>4, <1>6 DEF PortOK, Active
<1>8. QED
  BY <1>2, <1>3, <1>4, <1>7

\* A port that does not exist.
LEMMA GoneOK ==
    ASSUME NEW p
    PROVE  /\ PortOK(p, Gone)
           /\ Gone.held = NoMsg /\ Gone.role = "designated" /\ Gone.state = "gone"
           /\ ~Active(Gone)
<1>1. Gone \in PortType
  BY ConstantTypes
<1>2. QED
  BY <1>1 DEF PortOK, Gone, Active

\* Port.__init__: a new port holds nothing.
LEMMA NewPortOK ==
    ASSUME NEW p \in Ports
    PROVE  /\ PortOK(p, NewPort(p))
           /\ NewPort(p).held = NoMsg
           /\ NewPort(p).role = "designated"
           /\ NewPort(p).state = "listen"
<1>1. PortOK(p, Gone) /\ Gone.held = NoMsg
  BY GoneOK
<1>2. OwnRoot(Owner[p]) \in PrioType /\ "designated" \in Roles
  BY ConstantTypes, StpAssumption DEF Roles
<1>3. QED
  BY <1>1, <1>2, UpOK DEF NewPort

\* _state_machine: a port keeps its role and what it holds while time passes.
LEMMA PassedOK ==
    ASSUME NEW p, NEW r, PortOK(p, r)
    PROVE  /\ PortOK(p, Passed(r))
           /\ Passed(r).held = r.held /\ Passed(r).role = r.role
           /\ Passed(r).state = "gone" <=> r.state = "gone"
           /\ Active(Passed(r)) <=> Active(r)
<1>1. r \in PortType /\ MaxAge \in Nat /\ FwdDelay \in Nat \ {0}
  BY StpAssumption DEF PortOK
<1>2. PICK w : w = Less(r.wait)
  OBVIOUS
<1>3. PICK u : u = Passed(r)
  OBVIOUS
<1>4. r.wait \in Off .. MaxAge /\ r.timer \in Off .. FwdDelay
  BY <1>1 DEF PortType
<1>5. w \in Off .. MaxAge /\ (r.wait = Off => w = Off)
  BY <1>1, <1>2, <1>4 DEF Less, Off
<1>6. CASE r.timer # 1
  <2>1. PICK n : n = Less(r.timer)
    OBVIOUS
  <2>2. n \in Off .. FwdDelay /\ (n = Off <=> r.timer = Off)
    BY <1>1, <1>4, <1>6, <2>1 DEF Less, Off
  <2>3. u = [r EXCEPT !.timer = n, !.wait = w]
    BY <1>1, <1>2, <1>3, <1>6, <2>1 DEF Passed, PortType
  <2>4. u = [role |-> r.role, state |-> r.state, held |-> r.held, prio |-> r.prio,
             wait |-> w, timer |-> n]
    BY <1>1, <2>3 DEF PortType
  <2>5. u \in PortType
    BY <1>1, <1>5, <2>2, <2>4 DEF PortType
  <2>6. PortOK(p, u)
    BY <1>5, <2>2, <2>4, <2>5 DEF PortOK, Active
  <2>7. QED
    BY <1>3, <2>4, <2>6 DEF Active
<1>7. CASE r.timer = 1
  <2>1. PICK s : s = NextState(r)
    OBVIOUS
  <2>2. PICK n : n = IF s = "learn" THEN FwdDelay ELSE Off
    OBVIOUS
  <2>3. r.state \in {"listen", "learn"}
    BY <1>7 DEF PortOK, Off
  <2>4. s \in {"learn", "block", "forward"}
    BY <2>1 DEF NextState
  <2>5. u = [r EXCEPT !.state = s, !.timer = n, !.wait = w]
    BY <1>1, <1>2, <1>3, <1>7, <2>1, <2>2 DEF Passed, PortType
  <2>6. u = [role |-> r.role, state |-> s, held |-> r.held, prio |-> r.prio,
             wait |-> w, timer |-> n]
    BY <1>1, <2>5 DEF PortType
  <2>7. n \in Off .. FwdDelay /\ (n # Off <=> s = "learn")
    BY <1>1, <2>2 DEF Off
  <2>8. u \in PortType
    BY <1>1, <1>5, <2>4, <2>6, <2>7 DEF PortType, States
  <2>9. PortOK(p, u)
    BY <1>5, <2>3, <2>4, <2>6, <2>7, <2>8 DEF PortOK, Active
  <2>10. QED
    BY <1>3, <2>3, <2>4, <2>6, <2>9 DEF Active
<1>8. QED
  BY <1>6, <1>7

-----------------------------------------------------------------------------
(***************************************************************************)
(* BPDUs on their way.                                                     *)
(***************************************************************************)

\* _generate_config_bpdu names the sender.
LEMMA BpduType ==
    ASSUME NEW p \in Ports, NEW r \in PortType
    PROVE  Bpdu(p, r) \in MsgType /\ Bpdu(p, r).port = p
<1>1. /\ PathCost[p] \in Nat /\ Owner[p] \in Nat /\ p \in Nat
      /\ r.prio.root \in Nat /\ r.prio.cost \in Nat /\ r.prio.age \in Nat
  BY StpAssumption DEF PortType, PrioType
<1>2. QED
  BY <1>1 DEF Bpdu, MsgType

\* A message with the right sender is put at the end of a queue of such messages.
LEMMA AppendFrom ==
    ASSUME NEW q \in Seq(MsgType), NEW m \in MsgType, NEW x,
           \A i \in 1 .. Len(q) : q[i].port = x, m.port = x
    PROVE  /\ Append(q, m) \in Seq(MsgType)
           /\ \A i \in 1 .. Len(Append(q, m)) : Append(q, m)[i].port = x
<1> DEFINE r == Append(q, m)
<1>1. /\ r \in Seq(MsgType) /\ Len(q) \in Nat /\ Len(r) = Len(q) + 1
      /\ \A i \in 1 .. Len(q) : r[i] = q[i]
      /\ r[Len(q) + 1] = m
  BY AppendProperties, LenProperties
<1> HIDE DEF r
<1>2. ASSUME NEW i \in 1 .. Len(r) PROVE r[i].port = x
  <2>1. i \in 1 .. Len(q) \/ i = Len(q) + 1
    BY <1>1
  <2>2. QED
    BY <1>1, <2>1
<1>3. QED
  BY <1>1, <1>2 DEF r

\* _transmit_bpdu at ports of links that work.
LEMMA TransmitOK ==
    ASSUME NEW w, NEW L \in SUBSET Ports, NEW S \in SUBSET L, NEW f,
           WireOK(w, L), BothEnds(L), \A p \in Ports : f[p] \in PortType
    PROVE  WireOK(Transmit(w, S, f), L)
<1>1. PICK v : v = Transmit(w, S, f)
  OBVIOUS
<1>2. ASSUME NEW q \in Ports
      PROVE  /\ v[q] \in Seq(MsgType)
             /\ v[q] # << >> => q \in L
             /\ \A i \in 1 .. Len(v[q]) : v[q][i].port = Peer[q]
  <2>1. PICK p : p = Peer[q]
    OBVIOUS
  <2>2. p \in Ports /\ (p \in L <=> q \in L)
    BY <2>1, StpAssumption DEF BothEnds
  <2>3. v[q] = IF p \in S /\ Sends(f[p]) THEN Append(w[q], Bpdu(p, f[p])) ELSE w[q]
    BY <1>1, <2>1 DEF Transmit
  <2>4. /\ w[q] \in Seq(MsgType)
        /\ w[q] # << >> => q \in L
        /\ \A i \in 1 .. Len(w[q]) : w[q][i].port = p
    BY <2>1 DEF WireOK
  <2>5. Bpdu(p, f[p]) \in MsgType /\ Bpdu(p, f[p]).port = p
    BY <2>2, BpduType
  <2>6. CASE p \in S /\ Sends(f[p])
    <3>1. v[q] = Append(w[q], Bpdu(p, f[p]))
      BY <2>3, <2>6
    <3>2. q \in L
      BY <2>2, <2>6
    <3>3. QED
      BY <2>1, <2>4, <2>5, <3>1, <3>2, AppendFrom
  <2>7. CASE ~(p \in S /\ Sends(f[p]))
    BY <2>1, <2>3, <2>4, <2>7
  <2>8. QED
    BY <2>6, <2>7
<1>3. v = [q \in Ports |-> v[q]]
  BY <1>1 DEF Transmit
<1>4. v \in [Ports -> Seq(MsgType)]
  BY <1>2, <1>3
<1>5. QED
  BY <1>1, <1>2, <1>4 DEF WireOK

\* No BPDUs.
LEMMA EmptyWire ==
    ASSUME NEW L
    PROVE  WireOK([p \in Ports |-> << >>], L)
BY DEF WireOK

\* A BPDU is taken from its queue.
LEMMA TakeOK ==
    ASSUME NEW w, NEW L, NEW p \in Ports, WireOK(w, L), w[p] # << >>
    PROVE  /\ WireOK([w EXCEPT ![p] = Tail(@)], L)
           /\ Head(w[p]) \in MsgType /\ Head(w[p]).port = Peer[p]
           /\ p \in L
<1>1. /\ w \in [Ports -> Seq(MsgType)] /\ w[p] \in Seq(MsgType) /\ p \in L
      /\ \A i \in 1 .. Len(w[p]) : w[p][i].port = Peer[p]
  BY DEF WireOK
<1>2. PICK t : t = Tail(w[p])
  OBVIOUS
<1>3. /\ Head(w[p]) \in MsgType /\ Head(w[p]) = w[p][1] /\ t \in Seq(MsgType)
      /\ Len(w[p]) \in Nat /\ Len(w[p]) > 0 /\ Len(t) = Len(w[p]) - 1
      /\ \A i \in 1 .. Len(t) : t[i] = w[p][i + 1]
  BY <1>1, <1>2, HeadTailProperties, LenProperties
<1>4. ASSUME NEW i \in 1 .. Len(t) PROVE t[i].port = Peer[p]
  <2>1. i + 1 \in 1 .. Len(w[p]) /\ t[i] = w[p][i + 1]
    BY <1>3
  <2>2. QED
    BY <1>1, <2>1
<1>5. PICK v : v = [w EXCEPT ![p] = Tail(@)]
  OBVIOUS
<1>6. v \in [Ports -> Seq(MsgType)] /\ v[p] = t /\ \A q \in Ports \ {p} : v[q] = w[q]
  BY <1>1, <1>2, <1>3, <1>5
<1>7. WireOK(v, L)
  <2>1. \A q \in Ports : v[q] # << >> => q \in L
    BY <1>1, <1>6 DEF WireOK
  <2>2. \A q \in Ports : \A i \in 1 .. Len(v[q]) : v[q][i].port = Peer[q]
    BY <1>4, <1>6 DEF WireOK
  <2>3. QED
    BY <1>6, <2>1, <2>2 DEF WireOK
<1>8. Head(w[p]).port = Peer[p]
  BY <1>1, <1>3
<1>9. QED
  BY <1>1, <1>3, <1>5, <1>7, <1>8

\* Links work again.
LEMMA WireMore ==
    ASSUME NEW w, NEW L, NEW M, WireOK(w, L), L \subseteq M
    PROVE  WireOK(w, M)
BY DEF WireOK

\* Links fail, and what was on them is lost.
LEMMA WireCut ==
    ASSUME NEW w, NEW L, NEW S, WireOK(w, L)
    PROVE  WireOK([p \in Ports |-> IF p \in S THEN << >> ELSE w[p]], L \ S)
<1>1. PICK v : v = [p \in Ports |-> IF p \in S THEN << >> ELSE w[p]]
  OBVIOUS
<1>2. \A p \in Ports : v[p] = IF p \in S THEN << >> ELSE w[p]
  BY <1>1
<1>3. \A p \in Ports : v[p] \in Seq(MsgType)
  <2> TAKE p \in Ports
  <2>1. w[p] \in Seq(MsgType) /\ << >> \in Seq(MsgType)
    BY DEF WireOK
  <2>2. v[p] = << >> \/ v[p] = w[p]
    BY <1>2
  <2>3. QED
    BY <2>1, <2>2
<1>4. v \in [Ports -> Seq(MsgType)]
  BY <1>1, <1>3
<1>5. \A p \in Ports : v[p] # << >> => p \in L \ S
  BY <1>2 DEF WireOK
<1>6. \A p \in Ports : \A i \in 1 .. Len(v[p]) : v[p][i].port = Peer[p]
  <2> SUFFICES ASSUME NEW p \in Ports, NEW i \in 1 .. Len(v[p]) PROVE v[p][i].port = Peer[p]
    OBVIOUS
  <2>1. CASE p \in S
    <3>1. v[p] = << >>
      BY <1>2, <2>1
    <3>2. QED
      BY <3>1
  <2>2. CASE p \notin S
    BY <1>2, <2>2 DEF WireOK
  <2>3. QED
    BY <2>1, <2>2
<1>7. QED
  BY <1>1, <1>4, <1>5, <1>6 DEF WireOK

-----------------------------------------------------------------------------
(***************************************************************************)
(* The order of root paths.                                                *)
(***************************************************************************)

\* compare_root_path compares cost, bridge and port in this order.
LEMMA RootPathOrder ==
    ASSUME NEW m \in MsgType, NEW n \in MsgType
    PROVE  CompareRootPath(Vector(m), Vector(n)) <=>
              \/ m.cost < n.cost
              \/ m.cost = n.cost /\ m.bridge < n.bridge
              \/ m.cost = n.cost /\ m.bridge = n.bridge /\ m.port < n.port
<1>1. PICK v, w : v = Vector(m) /\ w = Vector(n)
  OBVIOUS
<1>2. /\ v = <<m.cost, m.bridge, m.port>> /\ w = <<n.cost, n.bridge, n.port>>
      /\ DOMAIN v = {1, 2, 3}
  BY <1>1 DEF Vector
<1>3. /\ v[1] = m.cost /\ v[2] = m.bridge /\ v[3] = m.port
      /\ w[1] = n.cost /\ w[2] = n.bridge /\ w[3] = n.port
  BY <1>2
<1>4. 1 .. 1 - 1 = {} /\ 1 .. 2 - 1 = {1} /\ 1 .. 3 - 1 = {1, 2}
  OBVIOUS
<1>5. CompareRootPath(v, w) <=>
         \/ v[1] < w[1]
         \/ v[2] < w[2] /\ v[1] = w[1]
         \/ v[3] < w[3] /\ v[1] = w[1] /\ v[2] = w[2]
  <2>1. CompareRootPath(v, w) <=>
          \E i \in {1, 2, 3} : v[i] < w[i] /\ \A j \in 1 .. i - 1 : v[j] = w[j]
    BY <1>2 DEF CompareRootPath
  <2>2. CompareRootPath(v, w) <=>
          \/ v[1] < w[1] /\ \A j \in 1 .. 1 - 1 : v[j] = w[j]
          \/ v[2] < w[2] /\ \A j \in 1 .. 2 - 1 : v[j] = w[j]
          \/ v[3] < w[3] /\ \A j \in 1 .. 3 - 1 : v[j] = w[j]
    BY <2>1, Zenon
  <2>3. /\ (\A j \in 1 .. 1 - 1 : v[j] = w[j]) <=> TRUE
        /\ (\A j \in 1 .. 2 - 1 : v[j] = w[j]) <=> v[1] = w[1]
        /\ (\A j \in 1 .. 3 - 1 : v[j] = w[j]) <=> v[1] = w[1] /\ v[2] = w[2]
    BY <1>4
  <2>4. QED
    BY <2>2, <2>3
<1>6. QED
  BY <1>1, <1>3, <1>5

\* What the ports of a bridge hold is strictly and totally ordered, as no two
\* ports hold something from the same port.
LEMMA NearerOrder ==
    ASSUME NEW b \in Bridges, \A p \in Ports : PortOK(p, port[p])
    PROVE  /\ \A p, q \in Known(b) : p # q => Nearer(p, q) \/ Nearer(q, p)
           /\ \A p, q \in Known(b) : ~(Nearer(p, q) /\ Nearer(q, p))
           /\ \A p, q, r \in Known(b) : Nearer(p, q) /\ Nearer(q, r) => Nearer(p, r)
<1> DEFINE Less3(m, n) == \/ m.root < n.root
                          \/ m.root = n.root /\ m.cost < n.cost
                          \/ m.root = n.root /\ m.cost = n.cost /\ m.bridge < n.bridge
                          \/ /\ m.root = n.root /\ m.cost = n.cost /\ m.bridge = n.bridge
                             /\ m.port < n.port
<1>1. \A p \in Known(b) : /\ p \in Ports /\ port[p].held \in MsgType
                          /\ port[p].held.port = Peer[p]
  BY DEF Known, PortsOf, PortOK, PortType
<1>2. \A p, q \in Known(b) : Nearer(p, q) <=> Less3(port[p].held, port[q].held)
  <2> TAKE p, q \in Known(b)
  <2>1. port[p].held \in MsgType /\ port[q].held \in MsgType
    BY <1>1
  <2>2. CompareRootPath(Vector(port[p].held), Vector(port[q].held)) <=>
          \/ port[p].held.cost < port[q].held.cost
          \/ port[p].held.cost = port[q].held.cost /\ port[p].held.bridge < port[q].held.bridge
          \/ /\ port[p].held.cost = port[q].held.cost /\ port[p].held.bridge = port[q].held.bridge
             /\ port[p].held.port < port[q].held.port
    BY <2>1, RootPathOrder
  <2>3. QED
    BY <2>2 DEF Nearer
<1>3. ASSUME NEW p \in Known(b), NEW q \in Known(b), p # q
      PROVE  Nearer(p, q) \/ Nearer(q, p)
  <2>1. PICK m, n : m = port[p].held /\ n = port[q].held
    OBVIOUS
  <2>2. m \in MsgType /\ n \in MsgType /\ m.port # n.port
    <3>1. Peer[p] # Peer[q]
      <4>1. p \in Ports /\ q \in Ports
        BY <1>1
      <4>2. Peer[Peer[p]] = p /\ Peer[Peer[q]] = q
        BY <4>1, StpAssumption
      <4>3. QED
        BY <1>3, <4>2
    <3>2. QED
      BY <1>1, <2>1, <3>1
  <2>3. Less3(m, n) \/ Less3(n, m)
    BY <2>2 DEF MsgType
  <2>4. QED
    BY <1>2, <2>1, <2>3
<1>4. ASSUME NEW p \in Known(b), NEW q \in Known(b), Nearer(p, q), Nearer(q, p)
      PROVE  FALSE
  <2>1. PICK m, n : m = port[p].held /\ n = port[q].held
    OBVIOUS
  <2>2. m \in MsgType /\ n \in MsgType /\ Less3(m, n) /\ Less3(n, m)
    BY <1>1, <1>2, <1>4, <2>1
  <2>3. QED
    BY <2>2 DEF MsgType
<1>5. ASSUME NEW p \in Known(b), NEW q \in Known(b), NEW r \in Known(b),
             Nearer(p, q), Nearer(q, r)
      PROVE  Nearer(p, r)
  <2>1. PICK m, n, k : m = port[p].held /\ n = port[q].held /\ k = port[r].held
    OBVIOUS
  <2>2. m \in MsgType /\ n \in MsgType /\ k \in MsgType /\ Less3(m, n) /\ Less3(n, k)
    BY <1>1, <1>2, <1>5, <2>1
  <2>3. Less3(m, k)
    BY <2>2 DEF MsgType
  <2>4. QED
    BY <1>2, <2>1, <2>3
<1>6. QED
  BY <1>3, <1>4, <1>5

\* _select_root_port finds the one best port, if there is a port to find.
LEMMA SelectFindsBest ==
    ASSUME NEW b \in Bridges, \A p \in Ports : PortOK(p, port[p])
    PROVE  /\ Known(b) = {} => SelectRootPort(b) = 0
           /\ Known(b) # {} => Best(b, SelectRootPort(b))
           /\ \A p : Best(b, p) => SelectRootPort(b) = p
<1>1. ASSUME NEW p, NEW q, Best(b, p), Best(b, q) PROVE p = q
  BY <1>1, NearerOrder DEF Best
<1>2. ASSUME Known(b) # {} PROVE Best(b, SelectRootPort(b))
  <2>1. IsFiniteSet(Known(b))
    <3>1. Known(b) \subseteq Ports /\ IsFiniteSet(Ports)
      BY StpAssumption DEF Known, PortsOf
    <3>2. QED
      BY <3>1, FS_Subset
  <2>2. PICK R : R = {e \in Known(b) \X Known(b) : Nearer(e[1], e[2])}
    OBVIOUS
  <2>3. \A p, q \in Known(b) : <<p, q>> \in R <=> Nearer(p, q)
    BY <2>2
  <2>4. \A p, q \in Known(b) : p # q => <<p, q>> \in R \/ <<q, p>> \in R
    BY <2>3, NearerOrder
  <2>5. \A p, q, r \in Known(b) : <<p, q>> \in R /\ <<q, r>> \in R => <<p, r>> \in R
    BY <2>3, NearerOrder
  <2>6. PICK p \in Known(b) : \A q \in Known(b) \ {p} : <<p, q>> \in R
    BY <1>2, <2>1, <2>4, <2>5, LeastExists
  <2>7. \E x \in Known(b) : \A q \in Known(b) \ {x} : Nearer(x, q)
    BY <2>3, <2>6
  <2>8. SelectRootPort(b) = CHOOSE x \in Known(b) : \A q \in Known(b) \ {x} : Nearer(x, q)
    BY <1>2 DEF SelectRootPort
  <2>9. QED
    BY <2>7, <2>8 DEF Best
<1>3. Known(b) = {} => SelectRootPort(b) = 0
  BY DEF SelectRootPort
<1>4. ASSUME NEW p, Best(b, p) PROVE SelectRootPort(b) = p
  <2>1. Known(b) # {}
    BY <1>4 DEF Best
  <2>2. QED
    BY <1>1, <1>2, <1>4, <2>1
<1>5. QED
  BY <1>2, <1>3, <1>4

-----------------------------------------------------------------------------
(***************************************************************************)
(* What steps have in common.                                              *)
(***************************************************************************)

\* The start of a recalculation.
LEMMA RecalculateType ==
    ASSUME NEW b \in Bridges, NEW init \in BOOLEAN, NEW gone \in Ports \cup {0}
    PROVE  /\ Recalculate(b, init, gone) \in TaskType
           /\ Recalculate(b, init, gone).bridge = b
           /\ Recalculate(b, init, gone).init = init
           /\ Recalculate(b, init, gone).gone = gone
           /\ Recalculate(b, init, gone).phase = "down"
           /\ Recalculate(b, init, gone).left = PortsOf(b)
           /\ \A p \in Ports : Recalculate(b, init, gone).roles[p] = "designated"
<1>1. PICK R : R = [p \in Ports |-> "designated"]
  OBVIOUS
<1>2. R \in [Ports -> Roles] /\ \A p \in Ports : R[p] = "designated"
  BY <1>1 DEF Roles
<1>3. PICK k : k = Recalculate(b, init, gone)
  OBVIOUS
<1>4. k = [bridge |-> b, init |-> init, gone |-> gone, phase |-> "down",
           left |-> PortsOf(b), roles |-> R]
  BY <1>1, <1>3 DEF Recalculate, Idle
<1>5. PortsOf(b) \in SUBSET Ports
  BY DEF PortsOf
<1>6. k \in TaskType
  BY <1>2, <1>4, <1>5 DEF TaskType
<1>7. QED
  BY <1>2, <1>3, <1>4, <1>6

\* A loop takes ports in use that it did not come to yet: all of them where
\* nothing runs in between.
LEMMA TurnFacts ==
    ASSUME NEW job \in TaskType
    PROVE  /\ Turn(job) \subseteq job.left /\ After(job) \subseteq job.left
           /\ \A p \in Turn(job) : Active(port[p])
           /\ ~Overlap => \A p \in job.left : Active(port[p]) <=> p \in Turn(job)
           /\ ~Overlap => \A p \in After(job) : ~Active(port[p])
<1>1. Turn(job) \subseteq job.left /\ \A p \in Turn(job) : Active(port[p])
  BY DEF Turn
<1>2. After(job) \subseteq job.left
  BY DEF After
<1>3. ASSUME ~Overlap, NEW p \in job.left PROVE Active(port[p]) <=> p \in Turn(job)
  BY <1>3 DEF Turn
<1>4. ASSUME ~Overlap, NEW p \in After(job), Active(port[p]) PROVE FALSE
  <2>1. p \in Turn(job) /\ p \in job.left
    BY <1>2, <1>3, <1>4
  <2>2. Before(job, p, p)
    BY <1>4, <2>1 DEF After
  <2>3. p \in Nat
    BY <2>1, StpAssumption DEF TaskType
  <2>4. PICK n : n = Rank(job.roles[p])
    OBVIOUS
  <2>5. n \in {0, 1, 2}
    BY <2>4 DEF Rank
  <2>6. n < n \/ p < p
    BY <2>2, <2>4 DEF Before
  <2>7. QED
    BY <2>3, <2>5, <2>6
<1>5. QED
  BY <1>1, <1>2, <1>3, <1>4

\* All ports are as they should be: then the port table has its type.
LEMMA PortTable ==
    ASSUME NEW f, f = [p \in Ports |-> f[p]], \A p \in Ports : PortOK(p, f[p])
    PROVE  f \in [Ports -> PortType]
<1>1. \A p \in Ports : f[p] \in PortType
  BY DEF PortOK
<1>2. QED
  BY <1>1

\* The root and the root port of a bridge remain right when its ports keep
\* what counts, or lose, without being the root port, what they held.
LEMMA RootFrame ==
    ASSUME NEW b \in Bridges, RootInv(b),
           Settled(b)' => Settled(b) /\ root'[b] = root[b],
           ~Overlap /\ Settled(b)' => \A p \in PortsOf(b) :
              \/ /\ port'[p].held = port[p].held
                 /\ Active(port'[p]) <=> Active(port[p])
                 /\ port'[p].role = "root" <=> port[p].role = "root"
              \/ port'[p].held = NoMsg /\ port[p].role # "root" /\ port'[p].role # "root"
    PROVE  RootInv(b)'
<1> SUFFICES ASSUME ~Overlap, Settled(b)'
             PROVE  /\ \A p \in PortsOf(b) : port'[p].role = "root" =>
                          /\ Best(b, p)'
                          /\ root'[b] = [root |-> port'[p].held.root, cost |-> port'[p].held.cost,
                                         age |-> port'[p].held.age]
                    /\ (\A p \in PortsOf(b) : port'[p].role # "root") =>
                          root'[b] = OwnRoot(b) /\ Known(b)' = {}
  BY DEF RootInv, OwnRoot, PortsOf
<1>1. /\ Settled(b) /\ root'[b] = root[b]
      /\ \A p \in PortsOf(b) :
            \/ /\ port'[p].held = port[p].held
               /\ Active(port'[p]) <=> Active(port[p])
               /\ port'[p].role = "root" <=> port[p].role = "root"
            \/ port'[p].held = NoMsg /\ port[p].role # "root" /\ port'[p].role # "root"
  OBVIOUS
<1>2. \A p \in Known(b)' : p \in Known(b) /\ port'[p].held = port[p].held
  BY <1>1 DEF Known, PortsOf
<1>3. \A p \in PortsOf(b) : port'[p].role = "root" <=> port[p].role = "root"
  BY <1>1
<1>4. ASSUME NEW p \in PortsOf(b), port'[p].role = "root"
      PROVE  /\ Best(b, p)'
             /\ root'[b] = [root |-> port'[p].held.root, cost |-> port'[p].held.cost,
                            age |-> port'[p].held.age]
  <2>1. /\ port'[p].held = port[p].held /\ (Active(port'[p]) <=> Active(port[p]))
        /\ port[p].role = "root"
    BY <1>1, <1>4
  <2>2. /\ Best(b, p)
        /\ root[b] = [root |-> port[p].held.root, cost |-> port[p].held.cost,
                      age |-> port[p].held.age]
    BY <1>1, <1>4, <2>1 DEF RootInv
  <2>3. p \in Known(b)'
    BY <2>1, <2>2 DEF Best, Known, PortsOf
  <2>4. ASSUME NEW q \in Known(b)', q # p PROVE Nearer(p, q)'
    <3>1. Nearer(p, q)
      BY <1>2, <2>2, <2>4 DEF Best
    <3>2. port'[q].held = port[q].held
      BY <1>2, <2>4
    <3>3. QED
      BY <2>1, <3>1, <3>2 DEF Nearer, CompareRootPath, Vector
  <2>5. QED
    BY <1>1, <2>1, <2>2, <2>3, <2>4 DEF Best
<1>5. ASSUME \A p \in PortsOf(b) : port'[p].role # "root"
      PROVE  root'[b] = OwnRoot(b) /\ Known(b)' = {}
  <2>1. \A p \in PortsOf(b) : port[p].role # "root"
    BY <1>3, <1>5
  <2>2. root[b] = OwnRoot(b) /\ Known(b) = {}
    BY <1>1, <2>1 DEF RootInv
  <2>3. QED
    BY <1>1, <1>2, <2>2
<1>6. QED
  BY <1>4, <1>5

\* The port object r when it holds h and waits for w.
Heard(r, h, w) == [r EXCEPT !.held = h, !.wait = w]

\* rcv_config_bpdu: a port in use takes what a BPDU says.
LEMMA HeardOK ==
    ASSUME NEW p \in Ports, NEW r, PortOK(p, r), Active(r), NEW h \in MsgType,
           h.port = Peer[p] \/ h = r.held, NEW w,
           w = r.wait \/ (r.wait # Off /\ w = WaitTime(h))
    PROVE  /\ PortOK(p, Heard(r, h, w))
           /\ Heard(r, h, w).held = h /\ Heard(r, h, w).role = r.role
           /\ Heard(r, h, w).state = r.state
<1>1. r \in PortType /\ WaitTime(h) \in 0 .. MaxAge /\ MaxAge \in Nat
  BY WaitTimeType, StpAssumption DEF PortOK
<1>2. PICK n : n = Heard(r, h, w)
  OBVIOUS
<1>3. n = [role |-> r.role, state |-> r.state, held |-> h, prio |-> r.prio,
           wait |-> w, timer |-> r.timer]
  BY <1>1, <1>2 DEF PortType, Heard
<1>4. w \in Off .. MaxAge
  BY <1>1 DEF PortType, Off
<1>5. n \in PortType
  BY <1>1, <1>3, <1>4 DEF PortType
<1>6. r.role = "root" => h # NoMsg \/ Overlap
  <2>1. Peer[p] # 0
    BY StpAssumption
  <2>2. QED
    BY <2>1 DEF PortOK, NoMsg
<1>7. h # NoMsg => h.port = Peer[p]
  BY DEF PortOK
<1>8. r.role = "designated" => w = Off
  BY DEF PortOK
<1>9. PortOK(p, n)
  BY <1>3, <1>5, <1>6, <1>7, <1>8 DEF PortOK, Active
<1>10. QED
  BY <1>2, <1>3, <1>9

-----------------------------------------------------------------------------
(***************************************************************************)
(* The first state.                                                        *)
(***************************************************************************)

\* The first state satisfies the inductive invariant.
LEMMA InitInv == Init => Inv
<1> SUFFICES ASSUME Init PROVE Inv
  OBVIOUS
<1>1. \A p \in Ports : /\ port[p] = NewPort(p) /\ PortOK(p, port[p])
                       /\ port[p].held = NoMsg /\ port[p].role = "designated"
                       /\ port[p].state = "listen"
  BY NewPortOK DEF Init
<1>2. port = [p \in Ports |-> port[p]]
  BY DEF Init
<1>3. Types
  <2>1. port \in [Ports -> PortType]
    BY <1>1, <1>2, PortTable
  <2>2. root \in [Bridges -> PrioType]
    BY ConstantTypes DEF Init
  <2>3. task \in [Threads -> TaskType]
    BY ConstantTypes DEF Init
  <2>4. news \in [Ports -> Reports]
    BY DEF Init, Reports
  <2>5. QED
    BY <2>1, <2>2, <2>3, <2>4 DEF Init, Types
<1>4. BothEnds(linked)
  BY StpAssumption DEF Init, BothEnds
<1>5. WireOK(wire, linked)
  <2>1. WireOK([p \in Ports |-> << >>], Ports) /\ BothEnds(Ports)
    BY <1>4, EmptyWire DEF Init
  <2>2. \A p \in Ports : port[p] \in PortType
    BY <1>1 DEF PortOK
  <2>3. WireOK(Transmit([p \in Ports |-> << >>], Ports, port), Ports)
    BY <2>1, <2>2, TransmitOK
  <2>4. QED
    BY <2>3 DEF Init
<1>6. \A p \in Ports : LinkInv(p)
  BY <1>1, StpAssumption DEF Init, LinkInv
<1>7. \A t \in Threads : task[t] = Idle
  BY DEF Init
<1>8. \A t \in Threads : TaskInv(t) /\ AloneInv(t)
  BY <1>7, IdleFacts DEF TaskInv, AloneInv
<1>9. \A b \in Bridges : RootInv(b)
  <2> TAKE b \in Bridges
  <2>1. Known(b) = {}
    BY <1>1 DEF Known, PortsOf
  <2>2. \A p \in PortsOf(b) : port[p].role # "root"
    BY <1>1 DEF PortsOf
  <2>3. root[b] = OwnRoot(b)
    BY DEF Init
  <2>4. QED
    BY <2>1, <2>2, <2>3 DEF RootInv
<1>10. QED
  BY <1>1, <1>3, <1>4, <1>5, <1>6, <1>8, <1>9 DEF Inv

-----------------------------------------------------------------------------
(***************************************************************************)
(* The steps of the threads.                                               *)
(***************************************************************************)

\* Ports go down in a recalculation.
LEMMA DownPortsInv ==
    ASSUME Inv, NEW t \in Threads, DownPorts(t)
    PROVE  Inv'
<1> USE DEF Inv
<1>1. PICK job : job = task[t]
  OBVIOUS
<1>2. PICK turn : turn = Turn(job)
  OBVIOUS
<1>3. PICK rest : rest = After(job)
  OBVIOUS
<1>4. PICK g : g = port'
  OBVIOUS
<1>5. /\ job.phase = "down" /\ turn # {}
      /\ g = [p \in Ports |-> IF p \in turn THEN Down(port[p], "block", job.init) ELSE port[p]]
      /\ task' = [task EXCEPT ![t].left = rest]
      /\ UNCHANGED <<alive, root, linked, news, wire, changes>>
  BY <1>1, <1>2, <1>3, <1>4 DEF DownPorts
<1>6. job \in TaskType /\ job.init \in BOOLEAN /\ TaskInv(t)
  BY <1>1 DEF Types, TaskType
<1>7. /\ turn \subseteq job.left /\ rest \subseteq job.left
      /\ \A p \in turn : Active(port[p])
      /\ ~Overlap => \A p \in job.left : Active(port[p]) <=> p \in turn
  BY <1>2, <1>3, <1>6, TurnFacts
<1>8. job # Idle /\ job.bridge \in alive /\ job.bridge \in Bridges /\ job.left \subseteq PortsOf(job.bridge)
  BY <1>1, <1>5, <1>6, <1>7, IdleFacts DEF TaskInv, Types
<1>9. ASSUME NEW p \in Ports
      PROVE  /\ PortOK(p, g[p])
             /\ g[p].state = "gone" <=> port[p].state = "gone"
             /\ Active(g[p]) <=> Active(port[p])
             /\ g[p].held = port[p].held \/ g[p].held = NoMsg
             /\ p \notin turn => g[p] = port[p]
             /\ p \in turn /\ job.init => g[p].held = NoMsg
  <2>1. CASE p \in turn
    <3>1. PICK d : d = Down(port[p], "block", job.init)
      OBVIOUS
    <3>2. PICK s \in {"block", "disable"} : s = "block"
      OBVIOUS
    <3>3. PortOK(p, port[p]) /\ d = Down(port[p], s, job.init) /\ (s = "disable" => job.init)
      BY <3>1, <3>2
    <3>4. /\ PortOK(p, d) /\ d.held = (IF job.init THEN NoMsg ELSE port[p].held) /\ d.state = s
      BY <1>6, <3>3, DownOK
    <3>5. g[p] = d /\ Active(port[p])
      BY <1>5, <1>7, <2>1, <3>1
    <3>6. QED
      BY <2>1, <3>2, <3>4, <3>5 DEF Active
  <2>2. CASE p \notin turn
    BY <1>5, <2>2
  <2>3. QED
    BY <2>1, <2>2
<1>10. PICK k : k = [job EXCEPT !.left = rest]
  OBVIOUS
<1>11. /\ k \in TaskType /\ k.bridge = job.bridge /\ k.init = job.init /\ k.gone = job.gone
       /\ k.phase = job.phase /\ k.left = rest /\ k.roles = job.roles
  <2>1. rest \in SUBSET Ports
    BY <1>6, <1>7 DEF TaskType
  <2>2. k = [bridge |-> job.bridge, init |-> job.init, gone |-> job.gone,
             phase |-> job.phase, left |-> rest, roles |-> job.roles]
    BY <1>6, <1>10 DEF TaskType
  <2>3. QED
    BY <1>6, <2>1, <2>2 DEF TaskType
<1>12. task' = [task EXCEPT ![t] = k] /\ \A u \in Threads : task'[u] = IF u = t THEN k ELSE task[u]
  BY <1>1, <1>5, <1>10 DEF Types
<1>13. Types'
  <2>1. g = [p \in Ports |-> g[p]]
    BY <1>5
  <2>2. g \in [Ports -> PortType]
    BY <1>9, <2>1, PortTable
  <2>3. task' \in [Threads -> TaskType]
    BY <1>11, <1>12 DEF Types
  <2>4. QED
    BY <1>4, <1>5, <2>2, <2>3 DEF Types
<1>14. BothEnds(linked)' /\ WireOK(wire, linked)'
  BY <1>5 DEF BothEnds
<1>15. \A p \in Ports : LinkInv(p)'
  <2> TAKE p \in Ports
  <2>1. /\ LinkInv(p) /\ (g[p].state = "gone" <=> port[p].state = "gone")
        /\ g[p].held = port[p].held \/ g[p].held = NoMsg
    BY <1>9
  <2>2. QED
    BY <1>4, <1>5, <2>1 DEF LinkInv
<1>16. \A u \in Threads : TaskInv(u)'
  <2> TAKE u \in Threads
  <2>1. /\ task'[u].bridge = task[u].bridge /\ task'[u].gone = task[u].gone
        /\ task'[u].left \subseteq task[u].left /\ task'[u].roles = task[u].roles
        /\ task'[u].phase = task[u].phase /\ (task'[u] # Idle => task[u] # Idle)
    BY <1>1, <1>7, <1>8, <1>11, <1>12
  <2>2. task[u].gone # 0 => ~Active(g[task[u].gone])
    <3>1. SUFFICES ASSUME task[u].gone # 0 PROVE ~Active(g[task[u].gone])
      OBVIOUS
    <3>2. task[u].gone \in Ports /\ ~Active(port[task[u].gone])
      BY <3>1 DEF TaskInv, Types, TaskType
    <3>3. QED
      BY <1>9, <3>2
  <2>3. TaskInv(u)
    OBVIOUS
  <2>4. QED
    BY <1>4, <1>5, <2>1, <2>2, <2>3 DEF TaskInv, PortsOf
<1>17. \A u \in Threads : AloneInv(u)'
  <2> TAKE u \in Threads
  <2>1. SUFFICES ASSUME ~Overlap, task'[u] # Idle
                 PROVE  /\ \A v \in Threads \ {u} : task'[v] = Idle
                        /\ task'[u].phase = "down"
                        /\ task'[u].init => \A p \in PortsOf(task'[u].bridge) :
                                              p \in task'[u].left \/ port'[p].held = NoMsg
    BY DEF AloneInv, PortsOf
  <2>2. /\ \A v \in Threads \ {t} : task[v] = Idle
        /\ job.init => \A p \in PortsOf(job.bridge) : p \in job.left \/ port[p].held = NoMsg
    BY <1>1, <1>8, <2>1 DEF AloneInv
  <2>3. u = t /\ task'[u] = k /\ \A v \in Threads \ {u} : task'[v] = Idle
    BY <1>12, <2>1, <2>2
  <2>4. ASSUME job.init, NEW p \in PortsOf(job.bridge) PROVE g[p].held = NoMsg
    <3>1. p \in Ports /\ PortOK(p, port[p])
      BY DEF PortsOf
    <3>2. CASE p \in turn
      BY <1>9, <2>4, <3>1, <3>2
    <3>3. CASE p \notin turn
      <4>1. port[p].held = NoMsg
        BY <1>7, <2>1, <2>2, <2>4, <3>1, <3>3 DEF PortOK
      <4>2. QED
        BY <1>9, <3>1, <3>3, <4>1
    <3>4. QED
      BY <3>2, <3>3
  <2>5. QED
    BY <1>4, <1>5, <1>11, <2>3, <2>4
<1>18. \A c \in Bridges : RootInv(c)'
  <2> TAKE c \in Bridges
  <2>1. CASE c = job.bridge
    <3>1. task'[t].bridge = c
      BY <1>11, <1>12, <2>1
    <3>2. QED
      BY <3>1 DEF RootInv, Settled
  <2>2. CASE c # job.bridge
    <3>1. Settled(c)' => Settled(c) /\ root'[c] = root[c]
      BY <1>1, <1>5, <1>12, <2>2 DEF Settled
    <3>2. \A p \in PortsOf(c) : port'[p] = port[p]
      BY <1>4, <1>7, <1>8, <1>9, <2>2 DEF PortsOf
    <3>3. QED
      BY <3>1, <3>2, RootFrame
  <2>3. QED
    BY <2>1, <2>2
<1>19. QED
  BY <1>4, <1>9, <1>13, <1>14, <1>15, <1>16, <1>17, <1>18

\* What _spanning_tree_algorithm finds: at most one root port, the best one.
LEMMA RolesFound ==
    ASSUME Inv, NEW b \in Bridges
    PROVE  /\ Known(b) = {} => SelectRootPort(b) = 0
           /\ Known(b) # {} => Best(b, SelectRootPort(b))
           /\ \A p \in Ports :
                /\ Role(b, p) \in Roles
                /\ Role(b, p) = "root" <=> Known(b) # {} /\ p = SelectRootPort(b)
           /\ OwnRoot(b) \in PrioType /\ NewRoot(b) \in PrioType
<1> USE DEF Inv
<1>1. /\ Known(b) = {} => SelectRootPort(b) = 0
      /\ Known(b) # {} => Best(b, SelectRootPort(b))
  BY SelectFindsBest
<1>2. ASSUME NEW p \in Ports
      PROVE  /\ Role(b, p) \in Roles
             /\ Role(b, p) = "root" <=> Known(b) # {} /\ p = SelectRootPort(b)
  <2>1. p # 0
    BY ConstantTypes
  <2>2. Known(b) # {} => SelectRootPort(b) \in Ports
    BY <1>1 DEF Best, Known, PortsOf
  <2>3. QED
    BY <1>1, <2>1, <2>2, ConstantTypes DEF Role, Roles
<1>3. OwnRoot(b) \in PrioType
  BY ConstantTypes
<1>4. NewRoot(b) \in PrioType
  <2>1. CASE Known(b) # {}
    <3>1. PICK rp : rp = SelectRootPort(b)
      OBVIOUS
    <3>2. rp \in Ports /\ rp # 0
      BY <1>1, <2>1, <3>1, ConstantTypes DEF Best, Known, PortsOf
    <3>3. port[rp].held \in MsgType
      BY <3>2 DEF Types, PortType
    <3>4. NewRoot(b) = [root |-> port[rp].held.root, cost |-> port[rp].held.cost,
                        age |-> port[rp].held.age]
      BY <3>1, <3>2 DEF NewRoot
    <3>5. QED
      BY <3>3, <3>4 DEF MsgType, PrioType
  <2>2. CASE Known(b) = {}
    BY <1>1, <1>3, <2>2 DEF NewRoot
  <2>3. QED
    BY <2>1, <2>2
<1>5. QED
  BY <1>1, <1>2, <1>3, <1>4

\* A recalculation that found the roles of the ports goes over ports of its bridge.
LEMMA DecidedFacts ==
    ASSUME Inv, NEW t \in Threads, task[t] # Idle, task[t].phase = "down"
    PROVE  LET b == task[t].bridge
               job == Decided(task[t])
           IN  /\ job \in TaskType /\ job.bridge = b /\ job.gone = task[t].gone
               /\ job.phase = "up" /\ job.left \subseteq PortsOf(b)
               /\ \A p \in PortsOf(b) : Active(port[p]) => p \in job.left
               /\ \A p \in PortsOf(b) :
                     job.roles[p] = IF task[t].init THEN "designated" ELSE Role(b, p)
<1> USE DEF Inv
<1>1. PICK k : k = task[t]
  OBVIOUS
<1>2. PICK b : b = k.bridge
  OBVIOUS
<1>3. PICK job : job = Decided(k)
  OBVIOUS
<1>4. /\ k \in TaskType /\ b \in Bridges
      /\ k.phase = "down" => \A p \in Ports : k.roles[p] = "designated"
  BY <1>1, <1>2 DEF Types, TaskInv, TaskType
<1>5. PortsOf(b) \subseteq Ports
  BY DEF PortsOf
<1>6. CASE k.init
  <2>1. job = [k EXCEPT !.phase = "up", !.left = PortsOf(b)]
    BY <1>2, <1>3, <1>6 DEF Decided
  <2>2. job = [bridge |-> b, init |-> k.init, gone |-> k.gone, phase |-> "up",
               left |-> PortsOf(b), roles |-> k.roles]
    BY <1>2, <1>4, <2>1 DEF TaskType
  <2>3. job \in TaskType
    BY <1>4, <1>5, <2>2 DEF TaskType
  <2>4. QED
    BY <1>1, <1>2, <1>3, <1>4, <1>5, <1>6, <2>2, <2>3
<1>7. CASE ~k.init
  <2>1. PICK L : L = {p \in PortsOf(b) : Active(port[p])}
    OBVIOUS
  <2>2. PICK R : R = [p \in Ports |-> IF Owner[p] = b THEN Role(b, p) ELSE k.roles[p]]
    OBVIOUS
  <2>3. job = [k EXCEPT !.phase = "up", !.left = L, !.roles = R]
    BY <1>2, <1>3, <1>7, <2>1, <2>2 DEF Decided
  <2>4. job = [bridge |-> b, init |-> k.init, gone |-> k.gone, phase |-> "up",
               left |-> L, roles |-> R]
    BY <1>2, <1>4, <2>3 DEF TaskType
  <2>5. R \in [Ports -> Roles]
    <3>1. \A p \in Ports : Role(b, p) \in Roles
      BY <1>4, RolesFound
    <3>2. \A p \in Ports : k.roles[p] \in Roles
      BY <1>4 DEF TaskType
    <3>3. QED
      BY <2>2, <3>1, <3>2
  <2>6. job \in TaskType
    BY <1>4, <1>5, <2>1, <2>4, <2>5 DEF TaskType
  <2>7. \A p \in PortsOf(b) : job.roles[p] = Role(b, p)
    BY <2>2, <2>4 DEF PortsOf
  <2>8. QED
    BY <1>1, <1>2, <1>3, <1>7, <2>1, <2>4, <2>6, <2>7
<1>8. QED
  BY <1>6, <1>7, <1>4 DEF TaskType

\* The roles are found and ports go up in a recalculation.
LEMMA UpPortsInv ==
    ASSUME Inv, NEW t \in Threads, UpPorts(t)
    PROVE  Inv'
<1> USE DEF Inv
<1>1. PICK b : b = task[t].bridge
  OBVIOUS
<1>2. PICK init : init = task[t].init
  OBVIOUS
<1>3. PICK gone : gone = task[t].gone
  OBVIOUS
<1>4. PICK now : now = root'[b]
  OBVIOUS
<1>5. PICK up : up = port'
  OBVIOUS
<1>6. PICK job : /\ job = IF task[t].phase = "down" THEN Decided(task[t]) ELSE task[t]
                 /\ up = [p \in Ports |->
                             IF p \in Turn(job) THEN Up(port[p], job.roles[p], now)
                             ELSE IF p = job.gone /\ \A q \in After(job) : ~Active(port[q])
                             THEN Gone ELSE port[p]]
                 /\ wire' = Transmit(wire, linked \cap Turn(job), up)
                 /\ task' = [task EXCEPT ![t] = IF \A q \in After(job) : ~Active(port[q]) THEN Idle
                                                ELSE [job EXCEPT !.left = After(job)]]
  <2>1. PICK job \in {IF task[t].phase = "down" THEN Decided(task[t]) ELSE task[t]} :
          \E turn \in {Turn(job)} :
            /\ port' = [p \in Ports |->
                         IF p \in turn THEN Up(port[p], job.roles[p], root'[task[t].bridge])
                         ELSE IF p = job.gone /\ \A q \in After(job) : ~Active(port[q])
                         THEN Gone ELSE port[p]]
            /\ wire' = Transmit(wire, linked \cap turn, port')
            /\ task' = [task EXCEPT ![t] = IF \A q \in After(job) : ~Active(port[q]) THEN Idle
                                           ELSE [job EXCEPT !.left = After(job)]]
    BY Zenon DEF UpPorts
  <2>2. /\ job = IF task[t].phase = "down" THEN Decided(task[t]) ELSE task[t]
        /\ up = [p \in Ports |->
                    IF p \in Turn(job) THEN Up(port[p], job.roles[p], now)
                    ELSE IF p = job.gone /\ \A q \in After(job) : ~Active(port[q])
                    THEN Gone ELSE port[p]]
        /\ wire' = Transmit(wire, linked \cap Turn(job), up)
        /\ task' = [task EXCEPT ![t] = IF \A q \in After(job) : ~Active(port[q]) THEN Idle
                                       ELSE [job EXCEPT !.left = After(job)]]
    <3>1. b = task[t].bridge /\ now = root'[b] /\ up = port'
      BY <1>1, <1>4, <1>5
    <3>2. PICK turn : /\ turn = Turn(job)
                      /\ port' = [p \in Ports |->
                           IF p \in turn THEN Up(port[p], job.roles[p], root'[task[t].bridge])
                           ELSE IF p = job.gone /\ \A q \in After(job) : ~Active(port[q])
                           THEN Gone ELSE port[p]]
                      /\ wire' = Transmit(wire, linked \cap turn, port')
      BY <2>1, Zenon
    <3>3. QED
      BY <2>1, <3>1, <3>2, Zenon
  <2>3. QED
    BY <2>2
<1>7. /\ task[t] # Idle /\ UNCHANGED <<alive, linked, news, changes>>
      /\ task[t].phase = "down" => Turn(task[t]) = {}
      /\ root' = IF task[t].phase # "down" THEN root
                 ELSE [root EXCEPT ![b] = IF init THEN OwnRoot(b) ELSE NewRoot(b)]
  BY <1>1, <1>2 DEF UpPorts
<1>8. /\ b \in alive /\ b \in Bridges /\ init \in BOOLEAN /\ task[t] \in TaskType /\ TaskInv(t)
      /\ gone # 0 => t = 0 /\ gone \notin linked /\ ~Active(port[gone])
      /\ task[t].left \subseteq PortsOf(b)
  BY <1>1, <1>2, <1>3, <1>7 DEF TaskInv, Types, TaskType
<1>9. /\ job \in TaskType /\ job.bridge = b /\ job.gone = gone /\ job.left \subseteq PortsOf(b)
      /\ job.phase = "up"
      /\ task[t].phase = "down" =>
            /\ \A p \in PortsOf(b) : Active(port[p]) => p \in job.left
            /\ \A p \in PortsOf(b) : job.roles[p] = IF init THEN "designated" ELSE Role(b, p)
  <2>1. CASE task[t].phase = "down"
    <3>1. job = Decided(task[t])
      BY <1>6, <2>1
    <3>2. QED
      BY <1>1, <1>2, <1>3, <1>7, <2>1, <3>1, DecidedFacts
  <2>2. CASE task[t].phase # "down"
    <3>1. job = task[t]
      BY <1>6, <2>2
    <3>2. job.phase = "up"
      BY <1>8, <2>2, <3>1 DEF TaskType
    <3>3. QED
      BY <1>1, <1>3, <1>8, <2>2, <3>1, <3>2
  <2>3. QED
    BY <2>1, <2>2
<1>10. PICK turn, rest : turn = Turn(job) /\ rest = After(job)
  OBVIOUS
<1>11. /\ turn \subseteq job.left /\ rest \subseteq job.left
       /\ \A p \in turn : Active(port[p])
       /\ ~Overlap => \A p \in job.left : Active(port[p]) <=> p \in turn
       /\ ~Overlap => \A p \in rest : ~Active(port[p])
  BY <1>9, <1>10, TurnFacts
<1>12. PICK end \in BOOLEAN : end <=> \A q \in rest : ~Active(port[q])
  OBVIOUS
<1>13. PICK k : k = IF end THEN Idle ELSE [job EXCEPT !.left = rest]
  OBVIOUS
<1>14. /\ up = [p \in Ports |-> IF p \in turn THEN Up(port[p], job.roles[p], now)
                                ELSE IF p = gone /\ end THEN Gone ELSE port[p]]
       /\ wire' = Transmit(wire, linked \cap turn, up)
       /\ task' = [task EXCEPT ![t] = k]
  BY <1>6, <1>9, <1>10, <1>12, <1>13
<1>15. \A u \in Threads : task'[u] = IF u = t THEN k ELSE task[u]
  BY <1>14 DEF Types
<1>16. root' \in [Bridges -> PrioType] /\ now \in PrioType
  <2>1. OwnRoot(b) \in PrioType /\ NewRoot(b) \in PrioType /\ root \in [Bridges -> PrioType]
    BY <1>8, RolesFound DEF Types
  <2>2. root' \in [Bridges -> PrioType]
    BY <1>7, <1>8, <2>1
  <2>3. QED
    BY <1>4, <1>8, <2>2
<1>17. ~Overlap => task[t].phase = "down" /\ end /\ (init => \A p \in PortsOf(b) : port[p].held = NoMsg)
  <2>1. SUFFICES ASSUME ~Overlap
                 PROVE  task[t].phase = "down" /\ end /\ (init => \A p \in PortsOf(b) : port[p].held = NoMsg)
    OBVIOUS
  <2>2. AloneInv(t)
    OBVIOUS
  <2>3. task[t].phase = "down" /\ (init => \A p \in PortsOf(b) : p \in task[t].left \/ port[p].held = NoMsg)
    BY <1>1, <1>2, <1>7, <2>1, <2>2 DEF AloneInv
  <2>4. \A p \in task[t].left : ~Active(port[p])
    BY <1>7, <1>8, <2>1, <2>3, TurnFacts
  <2>5. \A p \in PortsOf(b) : ~Active(port[p]) => port[p].held = NoMsg
    BY DEF PortOK, PortsOf
  <2>6. end
    BY <1>11, <1>12, <2>1
  <2>7. QED
    BY <2>3, <2>4, <2>5, <2>6
<1>18. ASSUME NEW p \in turn
       PROVE  /\ p \in Ports /\ Owner[p] = b /\ Active(port[p])
              /\ PortOK(p, up[p]) /\ up[p].held = port[p].held /\ up[p].state = "listen"
              /\ up[p].role = job.roles[p]
  <2>1. p \in Ports /\ p \in PortsOf(b) /\ Owner[p] = b /\ Active(port[p])
    BY <1>9, <1>11 DEF PortsOf
  <2>2. PICK role : role = job.roles[p]
    OBVIOUS
  <2>3. up[p] = Up(port[p], role, now)
    BY <1>14, <2>1, <2>2
  <2>4. role \in Roles
    BY <1>9, <2>1, <2>2 DEF TaskType
  <2>5. role = "root" => port[p].held # NoMsg \/ Overlap
    <3>1. SUFFICES ASSUME role = "root", ~Overlap PROVE port[p].held # NoMsg
      OBVIOUS
    <3>2. Role(b, p) = "root"
      BY <1>9, <1>17, <2>1, <2>2, <3>1
    <3>3. p \in Known(b)
      BY <1>8, <2>1, <3>2, RolesFound DEF Best
    <3>4. QED
      BY <3>3 DEF Known
  <2>6. PortOK(p, port[p])
    BY <2>1
  <2>7. QED
    BY <1>16, <2>1, <2>2, <2>3, <2>4, <2>5, <2>6, UpOK
<1>19. ASSUME NEW p \in Ports, p \notin turn
       PROVE  /\ PortOK(p, up[p]) /\ up[p].held = port[p].held
              /\ Active(up[p]) <=> Active(port[p])
              /\ up[p].role = port[p].role
              /\ up[p].state # "gone" => port[p].state # "gone"
              /\ p \in linked => up[p] = port[p]
  <2>1. up[p] = IF p = gone /\ end THEN Gone ELSE port[p]
    BY <1>14, <1>19
  <2>2. CASE p = gone /\ end
    <3>1. up[p] = Gone /\ p # 0
      BY <2>1, <2>2, ConstantTypes
    <3>2. p \notin linked /\ ~Active(port[p])
      BY <1>8, <2>2, <3>1
    <3>3. port[p].held = NoMsg /\ port[p].role = "designated"
      BY <3>2 DEF PortOK
    <3>4. PortOK(p, Gone) /\ Gone.held = NoMsg /\ Gone.role = "designated" /\ Gone.state = "gone" /\ ~Active(Gone)
      BY GoneOK
    <3>5. QED
      BY <3>1, <3>2, <3>3, <3>4
  <2>3. CASE ~(p = gone /\ end)
    BY <2>1, <2>3
  <2>4. QED
    BY <2>2, <2>3
<1>20. ASSUME NEW p \in Ports
       PROVE  /\ PortOK(p, up[p]) /\ up[p].held = port[p].held
              /\ Active(up[p]) <=> Active(port[p])
              /\ up[p].state # "gone" => port[p].state # "gone"
              /\ p \in linked /\ port[p].state # "gone" => up[p].state # "gone"
  <2>1. CASE p \in turn
    BY <1>18, <2>1 DEF Active
  <2>2. CASE p \notin turn
    BY <1>19, <2>2
  <2>3. QED
    BY <2>1, <2>2
<1>21. /\ k \in TaskType /\ (k = Idle \/ k.bridge = b)
       /\ k.gone # 0 => k.gone = gone
       /\ k.left \subseteq PortsOf(k.bridge)
       /\ k.phase = "down" => k = Idle
  <2>1. CASE end
    <3>1. k = Idle
      BY <1>13, <2>1
    <3>2. QED
      BY <3>1, ConstantTypes, IdleFacts
  <2>2. CASE ~end
    <3>1. k = [bridge |-> b, init |-> job.init, gone |-> gone, phase |-> "up",
               left |-> rest, roles |-> job.roles]
      BY <1>9, <1>13, <2>2 DEF TaskType
    <3>2. rest \in SUBSET Ports /\ rest \subseteq PortsOf(b)
      BY <1>9, <1>11 DEF TaskType
    <3>3. QED
      BY <1>9, <3>1, <3>2 DEF TaskType
  <2>3. QED
    BY <2>1, <2>2
<1>22. Types'
  <2>1. up = [p \in Ports |-> up[p]]
    BY <1>14
  <2>2. up \in [Ports -> PortType]
    BY <1>20, <2>1, PortTable
  <2>3. task' \in [Threads -> TaskType]
    BY <1>14, <1>21 DEF Types
  <2>4. QED
    BY <1>5, <1>7, <1>16, <2>2, <2>3 DEF Types
<1>23. BothEnds(linked)'
  BY <1>7 DEF BothEnds
<1>24. WireOK(wire, linked)'
  <2>1. linked \in SUBSET Ports /\ linked \cap turn \in SUBSET linked
    BY DEF Types
  <2>2. \A p \in Ports : up[p] \in PortType
    BY <1>20 DEF PortOK
  <2>3. WireOK(Transmit(wire, linked \cap turn, up), linked)
    BY <2>1, <2>2, TransmitOK
  <2>4. QED
    BY <1>7, <1>14, <2>3
<1>25. \A p \in Ports : LinkInv(p)'
  <2> TAKE p \in Ports
  <2>1. LinkInv(p)
    OBVIOUS
  <2>2. QED
    BY <1>5, <1>7, <1>20, <2>1 DEF LinkInv
<1>26. \A u \in Threads : TaskInv(u)'
  <2> TAKE u \in Threads
  <2>1. CASE u = t
    <3>1. task'[u] = k
      BY <1>15, <2>1
    <3>2. gone # 0 => gone \in Ports /\ ~Active(up[gone])
      BY <1>3, <1>8, <1>20 DEF TaskType
    <3>3. k.phase = "down" => \A p \in Ports : k.roles[p] = "designated"
      BY <1>21, IdleFacts
    <3>4. QED
      BY <1>5, <1>7, <1>8, <1>21, <2>1, <3>1, <3>2, <3>3 DEF TaskInv, PortsOf
  <2>2. CASE u # t
    <3>1. task'[u] = task[u] /\ TaskInv(u)
      BY <1>15, <2>2
    <3>2. task[u].gone # 0 => ~Active(up[task[u].gone])
      <4>1. SUFFICES ASSUME task[u].gone # 0 PROVE ~Active(up[task[u].gone])
        OBVIOUS
      <4>2. task[u].gone \in Ports /\ ~Active(port[task[u].gone])
        BY <4>1 DEF TaskInv, Types, TaskType
      <4>3. QED
        BY <1>20, <4>2
    <3>3. QED
      BY <1>5, <1>7, <3>1, <3>2 DEF TaskInv, PortsOf
  <2>3. QED
    BY <2>1, <2>2
<1>27. \A u \in Threads : AloneInv(u)'
  <2> TAKE u \in Threads
  <2>1. SUFFICES ASSUME ~Overlap, task'[u] # Idle PROVE FALSE
    BY DEF AloneInv
  <2>2. k = Idle
    BY <1>13, <1>17, <2>1
  <2>3. u # t /\ task[u] # Idle
    BY <1>15, <2>1, <2>2
  <2>4. QED
    BY <1>7, <2>1, <2>3 DEF AloneInv
<1>28. ASSUME NEW c \in Bridges, c # b PROVE RootInv(c)'
  <2>1. Settled(c)' => Settled(c) /\ root'[c] = root[c]
    <3>1. SUFFICES ASSUME Settled(c)' PROVE Settled(c) /\ root'[c] = root[c]
      OBVIOUS
    <3>2. \A u \in Threads : task[u].bridge # c
      <4> TAKE u \in Threads
      <4>1. CASE u = t
        BY <1>1, <1>28, <4>1
      <4>2. CASE u # t
        BY <1>15, <3>1, <4>2 DEF Settled
      <4>3. QED
        BY <4>1, <4>2
    <3>3. root'[c] = root[c]
      BY <1>7, <1>28 DEF Types
    <3>4. QED
      BY <1>7, <3>1, <3>2, <3>3 DEF Settled
  <2>2. \A p \in PortsOf(c) : /\ port'[p].held = port[p].held
                              /\ Active(port'[p]) <=> Active(port[p])
                              /\ port'[p].role = "root" <=> port[p].role = "root"
    <3> TAKE p \in PortsOf(c)
    <3>1. p \in Ports /\ p \notin turn
      BY <1>18, <1>28 DEF PortsOf
    <3>2. QED
      BY <1>5, <1>19, <3>1
  <2>3. QED
    BY <2>1, <2>2, RootFrame
<1>29. ASSUME ~Overlap PROVE RootInv(b)'
  <2>1. \A p \in PortsOf(b) :
          /\ port'[p].held = port[p].held
          /\ Active(port'[p]) <=> Active(port[p])
          /\ port'[p].role = "root" <=> ~init /\ Known(b) # {} /\ p = SelectRootPort(b)
    <3> TAKE p \in PortsOf(b)
    <3>1. p \in Ports
      BY DEF PortsOf
    <3>2. up[p].held = port[p].held /\ (Active(up[p]) <=> Active(port[p]))
      BY <1>20, <3>1
    <3>3. Role(b, p) = "root" <=> Known(b) # {} /\ p = SelectRootPort(b)
      BY <1>8, <3>1, RolesFound
    <3>4. CASE Active(port[p])
      <4>1. p \in turn /\ job.roles[p] = IF init THEN "designated" ELSE Role(b, p)
        BY <1>9, <1>11, <1>17, <1>29, <3>4
      <4>2. up[p].role = job.roles[p]
        BY <1>18, <4>1
      <4>3. QED
        BY <1>5, <3>2, <3>3, <4>1, <4>2
    <3>5. CASE ~Active(port[p])
      <4>1. p \notin turn /\ up[p].role = port[p].role
        BY <1>11, <1>19, <3>1, <3>5
      <4>2. port[p].role = "designated"
        BY <3>1, <3>5 DEF PortOK
      <4>3. p \notin Known(b)
        BY <3>5 DEF Known
      <4>4. ~(Known(b) # {} /\ p = SelectRootPort(b))
        BY <1>8, <4>3, RolesFound DEF Best
      <4>5. QED
        BY <1>5, <3>2, <4>1, <4>2, <4>4
    <3>6. QED
      BY <3>4, <3>5
  <2>2. Known(b)' = Known(b)
    BY <2>1 DEF Known, PortsOf
  <2>3. now = (IF init THEN OwnRoot(b) ELSE NewRoot(b)) /\ root'[b] = now
    BY <1>4, <1>7, <1>8, <1>17, <1>29 DEF Types
  <2>4. CASE ~init /\ Known(b) # {}
    <3>1. PICK rp : rp = SelectRootPort(b)
      OBVIOUS
    <3>2. Best(b, rp) /\ rp \in PortsOf(b) /\ rp # 0
      BY <1>8, <2>4, <3>1, ConstantTypes, RolesFound DEF Best, Known, PortsOf
    <3>3. now = [root |-> port[rp].held.root, cost |-> port[rp].held.cost, age |-> port[rp].held.age]
      BY <2>3, <2>4, <3>1, <3>2 DEF NewRoot
    <3>4. \A p \in PortsOf(b) : port'[p].role = "root" <=> p = rp
      BY <2>1, <2>4, <3>1
    <3>5. port'[rp].held = port[rp].held
      BY <2>1, <3>2
    <3>6. ASSUME NEW q \in Known(b)', q # rp PROVE Nearer(rp, q)'
      <4>1. q \in Known(b) /\ q \in PortsOf(b) /\ Nearer(rp, q)
        BY <2>2, <3>2, <3>6 DEF Best, Known
      <4>2. port'[q].held = port[q].held
        BY <2>1, <4>1
      <4>3. QED
        BY <3>5, <4>1, <4>2 DEF Nearer, CompareRootPath, Vector
    <3>7. Best(b, rp)'
      BY <2>2, <3>2, <3>6 DEF Best
    <3>8. QED
      BY <2>3, <3>2, <3>3, <3>4, <3>5, <3>7 DEF RootInv, PortsOf
  <2>5. CASE init \/ Known(b) = {}
    <3>1. now = OwnRoot(b)
      BY <1>8, <2>3, <2>5, RolesFound DEF NewRoot
    <3>2. \A p \in PortsOf(b) : port'[p].role # "root"
      BY <2>1, <2>5
    <3>3. Known(b) = {}
      BY <1>17, <1>29, <2>5 DEF Known
    <3>4. QED
      BY <2>2, <2>3, <3>1, <3>2, <3>3 DEF RootInv, OwnRoot, PortsOf
  <2>6. QED
    BY <1>8, <2>4, <2>5
<1>30. \A c \in Bridges : RootInv(c)'
  BY <1>28, <1>29 DEF RootInv
<1>31. QED
  BY <1>5, <1>20, <1>22, <1>23, <1>24, <1>25, <1>26, <1>27, <1>30

\* A recalculation of b starts on the thread t.  Some ports of b may change, as
\* f says; gone is the port to be removed.
Start(t, b, init, gone, f) ==
    /\ NotBusy /\ task[t] = Idle /\ b \in alive
    /\ f = [p \in Ports |-> f[p]]
    /\ \A p \in Ports :
         /\ PortOK(p, f[p])
         /\ Owner[p] # b => f[p] = port[p]
         /\ f[p].state = "gone" <=> port[p].state = "gone"
         /\ \/ f[p].held = port[p].held \/ f[p].held = NoMsg
            \/ p \in linked /\ news[p] = "none"
         /\ Active(f[p]) => Active(port[p])
         /\ news'[p] = news[p] \/ (news'[p] = "none" /\ f[p].held = NoMsg)
         /\ news[p] = "add" => news'[p] = "add"
    /\ gone # 0 => t = 0 /\ gone \notin linked /\ ~Active(f[gone])
    /\ port' = f
    /\ task' = [task EXCEPT ![t] = Recalculate(b, init, gone)]
    /\ news' \in [Ports -> Reports]
    /\ WireOK(wire', linked)
    /\ UNCHANGED <<alive, root, linked, changes>>

\* The start of a recalculation.
LEMMA StartInv ==
    ASSUME Inv, NEW t \in Threads, NEW b \in Bridges, NEW init \in BOOLEAN,
           NEW gone \in Ports \cup {0}, NEW f, Start(t, b, init, gone, f)
    PROVE  Inv'
<1> USE DEF Inv, Start
<1>2. PICK k : k = Recalculate(b, init, gone)
  OBVIOUS
<1>3. /\ k \in TaskType /\ k.bridge = b /\ k.init = init /\ k.gone = gone
      /\ k.phase = "down" /\ k.left = PortsOf(b)
      /\ \A p \in Ports : k.roles[p] = "designated"
  BY <1>2, RecalculateType
<1>4. \A u \in Threads : task'[u] = IF u = t THEN k ELSE task[u]
  BY <1>2 DEF Types
<1>5. Idle.bridge = 0 /\ b # 0
  BY ConstantTypes, IdleFacts
<1>7. Types'
  <2>1. f \in [Ports -> PortType]
    BY PortTable
  <2>2. task' \in [Threads -> TaskType]
    BY <1>2, <1>3 DEF Types
  <2>3. QED
    BY <2>1, <2>2 DEF Types
<1>8. BothEnds(linked)' /\ WireOK(wire, linked)'
  BY DEF BothEnds
<1>9. \A p \in Ports : LinkInv(p)'
  <2> TAKE p \in Ports
  <2>1. LinkInv(p)
    OBVIOUS
  <2>2. QED
    BY <2>1 DEF LinkInv
<1>10. \A u \in Threads : TaskInv(u)'
  <2> TAKE u \in Threads
  <2>1. CASE u = t
    <3>1. task'[u] = k
      BY <1>4, <2>1
    <3>2. QED
      BY <1>3, <2>1, <3>1 DEF TaskInv, PortsOf
  <2>2. CASE u # t
    <3>1. task'[u] = task[u]
      BY <1>4, <2>2
    <3>2. task[u].gone # 0 => ~Active(f[task[u].gone])
      <4>1. SUFFICES ASSUME task[u].gone # 0 PROVE ~Active(f[task[u].gone])
        OBVIOUS
      <4>2. task[u].gone \in Ports /\ ~Active(port[task[u].gone])
        BY <4>1 DEF TaskInv, Types, TaskType
      <4>3. QED
        BY <4>2
    <3>3. QED
      BY <3>1, <3>2 DEF TaskInv, PortsOf
  <2>3. QED
    BY <2>1, <2>2
<1>11. \A u \in Threads : AloneInv(u)'
  <2> TAKE u \in Threads
  <2>1. SUFFICES ASSUME ~Overlap, task'[u] # Idle
                 PROVE  /\ \A v \in Threads \ {u} : task'[v] = Idle
                        /\ task'[u].phase = "down"
                        /\ \A p \in PortsOf(task'[u].bridge) : p \in task'[u].left
    BY DEF AloneInv, PortsOf
  <2>2. \A v \in Threads : task[v] = Idle
    BY <2>1 DEF NotBusy
  <2>3. u = t /\ task'[u] = k
    BY <1>4, <2>1, <2>2
  <2>4. QED
    BY <1>3, <1>4, <2>2, <2>3
<1>12. \A c \in Bridges : RootInv(c)'
  <2> TAKE c \in Bridges
  <2>1. CASE c = b
    <3>1. task'[t].bridge = c
      BY <1>3, <1>4, <2>1
    <3>2. QED
      BY <3>1 DEF RootInv, Settled
  <2>2. CASE c # b
    <3>1. Settled(c)' => Settled(c)
      <4>1. c # 0
        BY ConstantTypes
      <4>2. QED
        BY <1>4, <1>5, <4>1 DEF Settled
    <3>2. \A p \in PortsOf(c) : port'[p] = port[p]
      BY <2>2 DEF PortsOf
    <3>3. QED
      BY <3>1, <3>2, RootFrame
  <2>3. QED
    BY <2>1, <2>2
<1>13. QED
  BY <1>7, <1>8, <1>9, <1>10, <1>11, <1>12

\* Ports change without a recalculation: a port keeps what it holds and its
\* role, or it is not the root port and loses what it held.
LEMMA PortChangeInv ==
    ASSUME Inv, port' = [p \in Ports |-> port'[p]],
           \A p \in Ports : PortOK(p, port'[p]),
           UNCHANGED <<alive, root, linked, task, changes>>,
           news' \in [Ports -> Reports], WireOK(wire', linked),
           \A p \in Ports : LinkInv(p)',
           ~Overlap => \A p \in Ports :
              \/ /\ port'[p].held = port[p].held
                 /\ Active(port'[p]) <=> Active(port[p])
                 /\ port'[p].role = "root" <=> port[p].role = "root"
              \/ port'[p].held = NoMsg /\ port[p].role # "root" /\ port'[p].role # "root",
           \A p \in Ports : Active(port'[p]) => Active(port[p]) \/ task[0] = Idle,
           \A p \in Ports : port'[p].held = port[p].held \/ port'[p].held = NoMsg
    PROVE  Inv'
<1> USE DEF Inv
<1>1. Types'
  <2>1. port' \in [Ports -> PortType]
    BY PortTable
  <2>2. QED
    BY <2>1 DEF Types
<1>2. BothEnds(linked)' /\ WireOK(wire, linked)'
  BY DEF BothEnds
<1>3. \A t \in Threads : TaskInv(t)'
  <2> TAKE t \in Threads
  <2>1. task[t].gone # 0 => ~Active(port'[task[t].gone])
    <3>1. SUFFICES ASSUME task[t].gone # 0 PROVE ~Active(port'[task[t].gone])
      OBVIOUS
    <3>2. task[t].gone \in Ports /\ ~Active(port[task[t].gone]) /\ t = 0
      BY <3>1 DEF TaskInv, Types, TaskType
    <3>3. task[0] # Idle
      BY <3>1, <3>2 DEF Idle
    <3>4. QED
      BY <3>2, <3>3
  <2>2. TaskInv(t)
    OBVIOUS
  <2>3. QED
    BY <2>1, <2>2 DEF TaskInv, PortsOf
<1>4. \A t \in Threads : AloneInv(t)'
  <2> TAKE t \in Threads
  <2>1. AloneInv(t)
    OBVIOUS
  <2>2. \A p \in PortsOf(task[t].bridge) : port[p].held = NoMsg => port'[p].held = NoMsg
    BY DEF PortsOf
  <2>3. QED
    BY <2>1, <2>2 DEF AloneInv, PortsOf
<1>5. \A b \in Bridges : RootInv(b)'
  <2> TAKE b \in Bridges
  <2>1. Settled(b)' => Settled(b) /\ root'[b] = root[b]
    BY DEF Settled
  <2>2. ~Overlap => \A p \in PortsOf(b) :
              \/ /\ port'[p].held = port[p].held
                 /\ Active(port'[p]) <=> Active(port[p])
                 /\ port'[p].role = "root" <=> port[p].role = "root"
              \/ port'[p].held = NoMsg /\ port[p].role # "root" /\ port'[p].role # "root"
    BY DEF PortsOf
  <2>3. QED
    BY <2>1, <2>2, RootFrame
<1>6. QED
  BY <1>1, <1>2, <1>3, <1>4, <1>5

\* A BPDU is received.
LEMMA ReceiveInv ==
    ASSUME Inv, NEW p \in Ports, Receive(p)
    PROVE  Inv'
<1> USE DEF Inv
<1>1. PICK m : m = Head(wire[p])
  OBVIOUS
<1>2. PICK info : info = CompareBpdu(port[p].held, m)
  OBVIOUS
<1>3. PICK held : held = IF info = "superior" THEN m ELSE port[p].held
  OBVIOUS
<1>4. PICK w : w = IF info # "inferior" /\ port[p].wait # Off THEN WaitTime(held) ELSE port[p].wait
  OBVIOUS
<1>5. PICK heard : heard = [port EXCEPT ![p] = [@ EXCEPT !.held = held, !.wait = w]]
  OBVIOUS
<1>6. port \in [Ports -> PortType] /\ PortOK(p, port[p])
  BY DEF Types
<1>7. /\ NotBusy /\ task[0] = Idle /\ wire[p] # << >> /\ news[p] = "none"
      /\ wire' = [wire EXCEPT ![p] = Tail(@)]
      /\ UNCHANGED <<alive, root, linked, news, changes>>
  BY DEF Receive
<1>8. \/ UNCHANGED <<port, task>>
      \/ Active(port[p]) /\ info # "superior" /\ port' = heard /\ UNCHANGED task
      \/ /\ Active(port[p]) /\ info = "superior"
         /\ port' = heard
         /\ task' = [task EXCEPT ![0] = Recalculate(Owner[p], FALSE, 0)]
  <2>1. PICK h : h = [port EXCEPT ![p].held = held,
                        ![p].wait = IF info # "inferior" /\ @ # Off THEN WaitTime(held) ELSE @]
    OBVIOUS
  <2>2. h = heard
    BY <1>4, <1>5, <1>6, <2>1 DEF PortType
  <2>3. IF ~Active(port[p]) \/ m.age > MaxAge THEN UNCHANGED <<port, task>>
        ELSE /\ port' = h
             /\ task' = IF info # "superior" THEN task
                        ELSE [task EXCEPT ![0] = Recalculate(Owner[p], FALSE, 0)]
    BY <1>1, <1>2, <1>3, <2>1 DEF Receive
  <2>4. QED
    BY <2>2, <2>3
<1>9. WireOK(wire', linked) /\ m \in MsgType /\ m.port = Peer[p] /\ p \in linked
  BY <1>1, <1>7, TakeOK
<1>10. held \in MsgType /\ (held.port = Peer[p] \/ held = port[p].held)
  BY <1>3, <1>6, <1>9 DEF PortType
<1>11. ASSUME Active(port[p])
       PROVE  /\ heard = [q \in Ports |-> heard[q]]
              /\ \A q \in Ports \ {p} : heard[q] = port[q]
              /\ PortOK(p, heard[p]) /\ heard[p].held = held
              /\ heard[p].role = port[p].role /\ heard[p].state = port[p].state
  <2>1. w = port[p].wait \/ (port[p].wait # Off /\ w = WaitTime(held))
    BY <1>4
  <2>2. PICK n : n = Heard(port[p], held, w)
    OBVIOUS
  <2>3. PortOK(p, n) /\ n.held = held /\ n.role = port[p].role /\ n.state = port[p].state
    <3> HIDE DEF Inv
    <3>1. PICK r : r = port[p]
      OBVIOUS
    <3>2. /\ PortOK(p, r) /\ Active(r) /\ (held.port = Peer[p] \/ held = r.held)
          /\ w = r.wait \/ (r.wait # Off /\ w = WaitTime(held))
          /\ n = Heard(r, held, w)
      BY <1>6, <1>10, <1>11, <2>1, <2>2, <3>1
    <3>3. PortOK(p, n) /\ n.held = held /\ n.role = r.role /\ n.state = r.state
      BY <1>10, <3>2, HeardOK
    <3>4. QED
      BY <3>1, <3>3
  <2>4. heard[p] = n /\ heard = [q \in Ports |-> heard[q]] /\ \A q \in Ports \ {p} : heard[q] = port[q]
    BY <1>5, <1>6, <2>2 DEF Heard
  <2>5. QED
    BY <2>3, <2>4
<1>12. news' \in [Ports -> Reports]
  BY <1>7 DEF Types
<1>13. CASE UNCHANGED <<port, task>>
  <2>1. \A q \in Ports : LinkInv(q)'
    BY <1>7, <1>13 DEF LinkInv
  <2>2. port' = [q \in Ports |-> port'[q]]
    BY <1>6, <1>13
  <2>3. QED
    BY <1>7, <1>9, <1>12, <1>13, <2>1, <2>2, PortChangeInv
<1>14. CASE Active(port[p]) /\ info # "superior" /\ port' = heard /\ UNCHANGED task
  <2>1. held = port[p].held
    BY <1>3, <1>14
  <2>2. \A q \in Ports : /\ port'[q].held = port[q].held /\ port'[q].role = port[q].role
                         /\ port'[q].state = port[q].state
    BY <1>11, <1>14, <2>1
  <2>3. \A q \in Ports : LinkInv(q)'
    BY <1>7, <2>2 DEF LinkInv
  <2>4. port' = [q \in Ports |-> port'[q]] /\ \A q \in Ports : PortOK(q, port'[q])
    BY <1>11, <1>14
  <2>5. \A q \in Ports : Active(port'[q]) <=> Active(port[q])
    BY <2>2 DEF Active
  <2>6. QED
    BY <1>7, <1>9, <1>12, <1>14, <2>2, <2>3, <2>4, <2>5, PortChangeInv
<1>15. CASE /\ Active(port[p]) /\ info = "superior"
            /\ port' = heard
            /\ task' = [task EXCEPT ![0] = Recalculate(Owner[p], FALSE, 0)]
  <2>1. PICK b : b = Owner[p]
    OBVIOUS
  <2>2. b \in Bridges /\ b \in alive
    <3>1. port[p].state # "gone" /\ LinkInv(p)
      BY <1>15 DEF Active
    <3>2. QED
      BY <2>1, <3>1, StpAssumption DEF LinkInv
  <2>4. \A q \in Ports : PortOK(q, heard[q]) /\ (Owner[q] # b => heard[q] = port[q])
    BY <1>11, <1>15, <2>1
  <2>5. \A q \in Ports : heard[q].state = port[q].state
    BY <1>11, <1>15
  <2>6. \A q \in Ports : heard[q].held = port[q].held \/ heard[q].held = NoMsg
                           \/ (q \in linked /\ news[q] = "none")
    BY <1>7, <1>9, <1>11, <1>15
  <2>7. \A q \in Ports : Active(heard[q]) => Active(port[q])
    BY <2>5 DEF Active
  <2>8. 0 \in Threads /\ heard = [q \in Ports |-> heard[q]]
    BY <1>11, <1>15 DEF Threads
  <2>9. task' = [task EXCEPT ![0] = Recalculate(b, FALSE, 0)]
    BY <1>15, <2>1
  <2>10. port' = heard
    BY <1>15
  <2>11. \A q \in Ports : news'[q] = news[q]
    BY <1>7
  <2>12. Start(0, b, FALSE, 0, heard)
    BY <1>7, <1>9, <1>12, <2>2, <2>4, <2>5, <2>6, <2>7, <2>8, <2>9, <2>10, <2>11 DEF Start
  <2> HIDE DEF Inv
  <2>13. QED
    BY <2>2, <2>8, <2>12, StartInv
<1>16. QED
  BY <1>8, <1>13, <1>14, <1>15

\* A port waited too long.
LEMMA WaitTimeoutInv ==
    ASSUME Inv, NEW p \in Ports, WaitTimeout(p)
    PROVE  Inv'
<1> USE DEF Inv
<1>1. PICK b : b = Owner[p]
  OBVIOUS
<1>2. /\ NotBusy /\ port[p].wait = 0 /\ task[p] = Idle
      /\ port' = [port EXCEPT ![p].wait = Off]
      /\ task' = [task EXCEPT ![p] = Recalculate(b, TRUE, 0)]
      /\ UNCHANGED <<alive, root, linked, news, wire, changes>>
  BY <1>1 DEF WaitTimeout
<1>3. b \in Bridges /\ b \in alive
  <2>1. port[p].role # "designated"
    BY <1>2 DEF PortOK, Off
  <2>2. port[p].state # "gone"
    BY <2>1 DEF PortOK, Active
  <2>3. QED
    BY <1>1, <2>2, StpAssumption DEF LinkInv
<1>4. news' \in [Ports -> Reports] /\ WireOK(wire', linked)
  BY <1>2 DEF Types
<1>5. PICK d : d = [port[p] EXCEPT !.wait = Off]
  OBVIOUS
<1>6. port \in [Ports -> PortType] /\ \A q \in Ports : PortOK(q, port[q])
  BY DEF Types
<1>7. /\ d = [role |-> port[p].role, state |-> port[p].state, held |-> port[p].held,
               prio |-> port[p].prio, wait |-> Off, timer |-> port[p].timer]
      /\ Off \in Off .. MaxAge
  <2>1. port[p] \in PortType
    BY <1>6
  <2>2. QED
    BY <1>5, <2>1, StpAssumption DEF PortType, Off
<1>8. /\ PortOK(p, d) /\ d.held = port[p].held /\ d.state = port[p].state
      /\ Active(d) <=> Active(port[p])
  <2>1. PortOK(p, port[p]) /\ port[p] \in PortType
    BY <1>6
  <2>2. d \in PortType
    BY <1>7, <2>1 DEF PortType
  <2>3. QED
    BY <1>7, <2>1, <2>2 DEF PortOK, Active
<1>9. PICK f : f = port'
  OBVIOUS
<1>10. f = [q \in Ports |-> f[q]] /\ f[p] = d /\ \A q \in Ports \ {p} : f[q] = port[q]
  BY <1>2, <1>5, <1>6, <1>9
<1>11. \A q \in Ports : /\ PortOK(q, f[q]) /\ f[q].held = port[q].held /\ news'[q] = news[q]
                        /\ f[q].state = port[q].state /\ (Active(f[q]) <=> Active(port[q]))
                        /\ Owner[q] # b => f[q] = port[q]
  BY <1>1, <1>2, <1>6, <1>8, <1>10
<1>12. p \in Threads
  BY DEF Threads
<1> HIDE DEF Inv
<1>13. Start(p, b, TRUE, 0, f)
  BY <1>2, <1>3, <1>4, <1>9, <1>10, <1>11 DEF Start
<1>14. QED
  BY <1>3, <1>12, <1>13, StartInv

\* link_down, and port_delete.
LEMMA LinkDownInv ==
    ASSUME Inv, NEW p \in Ports, LinkDown(p)
    PROVE  Inv'
<1>1. PICK b : b = Owner[p]
  OBVIOUS
<1>2. PICK gone : gone = IF news[p] = "delete" THEN p ELSE 0
  OBVIOUS
<1>3. PICK d : d = Down(port[p], "disable", TRUE)
  OBVIOUS
<1>4. PICK off : off = [port EXCEPT ![p] = d]
  OBVIOUS
<1>5. Types /\ LinkInv(p) /\ \A q \in Ports : PortOK(q, port[q]) /\ LinkInv(q)
  BY DEF Inv
<1>6. /\ NotBusy /\ task[0] = Idle /\ news[p] \in {"down", "delete"}
      /\ news' = [news EXCEPT ![p] = "none"]
      /\ UNCHANGED <<alive, root, linked, wire, changes>>
      /\ port[p].role = "root" =>
            /\ port' = off
            /\ task' = [task EXCEPT ![0] = Recalculate(b, TRUE, gone)]
      /\ port[p].role # "root" =>
            /\ port' = IF news[p] = "delete" THEN [port EXCEPT ![p] = Gone] ELSE off
            /\ UNCHANGED task
  BY <1>1, <1>2, <1>3, <1>4 DEF LinkDown, Status
<1>7. PortOK(p, d) /\ d.held = NoMsg /\ d.role = "designated" /\ d.state = "disable"
  <2>1. PICK s \in {"block", "disable"} : s = "disable"
    OBVIOUS
  <2>2. PICK init \in BOOLEAN : init = TRUE
    OBVIOUS
  <2>3. PortOK(p, port[p]) /\ d = Down(port[p], s, init) /\ (s = "disable" => init)
    BY <1>3, <1>5, <2>1, <2>2
  <2>4. /\ PortOK(p, d) /\ d.held = (IF init THEN NoMsg ELSE port[p].held)
        /\ d.role = "designated" /\ d.state = s
    BY <2>3, DownOK
  <2>5. QED
    BY <2>1, <2>2, <2>4
<1>8. /\ off = [q \in Ports |-> off[q]] /\ off[p] = d
      /\ \A q \in Ports \ {p} : off[q] = port[q]
  BY <1>4, <1>5 DEF Types
<1>9. /\ p \notin linked /\ Owner[p] \in alive /\ b \in Bridges /\ b \in alive
  BY <1>1, <1>5, <1>6, StpAssumption DEF LinkInv
<1>10. /\ news' \in [Ports -> Reports] /\ news'[p] = "none"
       /\ \A q \in Ports \ {p} : news'[q] = news[q]
  BY <1>5, <1>6 DEF Types, Reports
<1>11. WireOK(wire', linked)
  BY <1>6 DEF Inv
<1>12. CASE port[p].role = "root"
  <2>1. Active(port[p]) /\ port[p].state # "gone"
    BY <1>5, <1>12 DEF PortOK, Active
  <2>2. ASSUME NEW q \in Ports
        PROVE  /\ PortOK(q, off[q])
               /\ Owner[q] # b => off[q] = port[q]
               /\ off[q].state = "gone" <=> port[q].state = "gone"
               /\ off[q].held = port[q].held \/ off[q].held = NoMsg
               /\ Active(off[q]) => Active(port[q])
               /\ news'[q] = news[q] \/ (news'[q] = "none" /\ off[q].held = NoMsg)
               /\ news[q] = "add" => news'[q] = "add"
    <3>1. CASE q = p
      BY <1>1, <1>6, <1>7, <1>8, <1>10, <2>1, <3>1
    <3>2. CASE q # p
      BY <1>5, <1>8, <1>10, <3>2
    <3>3. QED
      BY <3>1, <3>2
  <2>3. gone # 0 => gone \notin linked /\ ~Active(off[gone])
    BY <1>2, <1>7, <1>8, <1>9 DEF Active
  <2>4. gone \in Ports \cup {0} /\ 0 \in Threads
    BY <1>2 DEF Threads
  <2>5. Start(0, b, TRUE, gone, off)
    BY <1>6, <1>8, <1>9, <1>10, <1>11, <1>12, <2>2, <2>3 DEF Start
  <2>6. QED
    BY <1>9, <2>4, <2>5, StartInv
<1>13. CASE port[p].role # "root"
  <2>1. /\ port' = [q \in Ports |-> port'[q]]
        /\ port'[p] = d \/ (port'[p] = Gone /\ news[p] = "delete")
        /\ \A q \in Ports \ {p} : port'[q] = port[q]
    <3>1. CASE news[p] = "delete"
      BY <1>5, <1>6, <1>13, <3>1 DEF Types
    <3>2. CASE news[p] # "delete"
      BY <1>6, <1>8, <1>13, <3>2
    <3>3. QED
      BY <3>1, <3>2
  <2>2. PortOK(p, port'[p]) /\ port'[p].held = NoMsg /\ port'[p].role = "designated" /\ ~Active(port'[p])
    BY <1>7, <2>1, GoneOK DEF Active
  <2>3. \A q \in Ports : PortOK(q, port'[q])
    BY <1>5, <2>1, <2>2
  <2>4. \A q \in Ports : LinkInv(q)'
    <3> TAKE q \in Ports
    <3>1. CASE q = p
      BY <1>6, <1>9, <1>10, <2>2, <3>1 DEF LinkInv
    <3>2. CASE q # p
      <4>1. LinkInv(q) /\ port'[q] = port[q] /\ news'[q] = news[q]
        BY <1>5, <1>10, <2>1, <3>2
      <4>2. QED
        BY <1>6, <4>1 DEF LinkInv
    <3>3. QED
      BY <3>1, <3>2
  <2>5. \A q \in Ports :
              \/ /\ port'[q].held = port[q].held
                 /\ Active(port'[q]) <=> Active(port[q])
                 /\ port'[q].role = "root" <=> port[q].role = "root"
              \/ port'[q].held = NoMsg /\ port[q].role # "root" /\ port'[q].role # "root"
    BY <1>13, <2>1, <2>2
  <2>6. \A q \in Ports : /\ Active(port'[q]) => Active(port[q]) \/ task[0] = Idle
                         /\ port'[q].held = port[q].held \/ port'[q].held = NoMsg
    BY <1>6, <2>1, <2>2
  <2>7. QED
    BY <1>6, <1>10, <1>11, <1>13, <2>1, <2>3, <2>4, <2>5, <2>6, PortChangeInv
<1>14. QED
  BY <1>12, <1>13

\* link_up, and port_add.
LEMMA LinkUpInv ==
    ASSUME Inv, NEW p \in Ports, LinkUp(p)
    PROVE  Inv'
<1>1. PICK d : d = IF news[p] = "add" THEN NewPort(p) ELSE Up(port[p], "designated", root[Owner[p]])
  OBVIOUS
<1>2. Types /\ LinkInv(p) /\ \A q \in Ports : PortOK(q, port[q]) /\ LinkInv(q)
  BY DEF Inv
<1>3. /\ NotBusy /\ task[0] = Idle /\ news[p] \in {"up", "add"}
      /\ news' = [news EXCEPT ![p] = "none"]
      /\ port' = [port EXCEPT ![p] = d]
      /\ wire' = Transmit(wire, linked \cap {p}, port')
      /\ UNCHANGED <<alive, root, linked, task, changes>>
  BY <1>1 DEF LinkUp, Status
<1>4. port[p].held = NoMsg /\ Owner[p] \in alive /\ Owner[p] \in Bridges
  BY <1>2, <1>3, StpAssumption DEF LinkInv
<1>5. PortOK(p, d) /\ d.held = NoMsg /\ d.role = "designated" /\ d.state = "listen"
  <2>1. CASE news[p] = "add"
    BY <1>1, <2>1, NewPortOK
  <2>2. CASE news[p] # "add"
    <3>1. root[Owner[p]] \in PrioType /\ "designated" \in Roles /\ PortOK(p, port[p])
      BY <1>2, <1>4 DEF Types, Roles
    <3>2. d = Up(port[p], "designated", root[Owner[p]])
      BY <1>1, <2>2
    <3>3. QED
      BY <1>4, <3>1, <3>2, UpOK
  <2>3. QED
    BY <2>1, <2>2
<1>6. /\ port' = [q \in Ports |-> port'[q]] /\ port'[p] = d
      /\ \A q \in Ports \ {p} : port'[q] = port[q]
  BY <1>2, <1>3 DEF Types
<1>7. /\ news' \in [Ports -> Reports] /\ news'[p] = "none"
      /\ \A q \in Ports \ {p} : news'[q] = news[q]
  BY <1>2, <1>3 DEF Types, Reports
<1>8. \A q \in Ports : PortOK(q, port'[q])
  BY <1>2, <1>5, <1>6
<1>9. WireOK(wire', linked)
  <2>1. linked \in SUBSET Ports /\ linked \cap {p} \in SUBSET linked /\ BothEnds(linked) /\ WireOK(wire, linked)
    BY DEF Inv, Types
  <2>2. \A q \in Ports : port'[q] \in PortType
    BY <1>8 DEF PortOK
  <2>3. PICK f : f = port'
    OBVIOUS
  <2>4. WireOK(Transmit(wire, linked \cap {p}, f), linked)
    BY <2>1, <2>2, <2>3, TransmitOK
  <2>5. QED
    BY <1>3, <2>3, <2>4
<1>10. \A q \in Ports : LinkInv(q)'
  <2> TAKE q \in Ports
  <2>1. CASE q = p
    BY <1>3, <1>4, <1>5, <1>6, <1>7, <2>1 DEF LinkInv
  <2>2. CASE q # p
    <3>1. LinkInv(q) /\ port'[q] = port[q] /\ news'[q] = news[q]
      BY <1>2, <1>6, <1>7, <2>2
    <3>2. QED
      BY <1>3, <3>1 DEF LinkInv
  <2>3. QED
    BY <2>1, <2>2
<1>11. ~Overlap => port[p].role # "root"
  BY <1>2, <1>4 DEF PortOK
<1>12. ~Overlap => \A q \in Ports :
              \/ /\ port'[q].held = port[q].held
                 /\ Active(port'[q]) <=> Active(port[q])
                 /\ port'[q].role = "root" <=> port[q].role = "root"
              \/ port'[q].held = NoMsg /\ port[q].role # "root" /\ port'[q].role # "root"
  BY <1>5, <1>6, <1>11
<1>13. \A q \in Ports : /\ Active(port'[q]) => Active(port[q]) \/ task[0] = Idle
                        /\ port'[q].held = port[q].held \/ port'[q].held = NoMsg
  BY <1>3, <1>5, <1>6
<1>14. QED
  BY <1>3, <1>6, <1>7, <1>8, <1>9, <1>10, <1>12, <1>13, PortChangeInv

\* A hello time passes.
LEMMA TickInv ==
    ASSUME Inv, Tick
    PROVE  Inv'
<1>1. Types /\ BothEnds(linked) /\ WireOK(wire, linked) /\ \A q \in Ports : PortOK(q, port[q]) /\ LinkInv(q)
  BY DEF Inv
<1>2. /\ port' = [q \in Ports |-> Passed(port[q])]
      /\ wire' = Transmit(wire, linked, port)
      /\ UNCHANGED <<alive, root, linked, news, task, changes>>
  BY DEF Tick
<1>3. ASSUME NEW q \in Ports
      PROVE  /\ PortOK(q, port'[q])
             /\ port'[q].held = port[q].held /\ port'[q].role = port[q].role
             /\ port'[q].state = "gone" <=> port[q].state = "gone"
             /\ Active(port'[q]) <=> Active(port[q])
  <2>1. PICK r : r = port[q]
    OBVIOUS
  <2>2. PortOK(q, r) /\ port'[q] = Passed(r)
    BY <1>1, <1>2, <2>1
  <2>3. QED
    BY <2>1, <2>2, PassedOK
<1>4. port' = [q \in Ports |-> port'[q]] /\ news' \in [Ports -> Reports]
  BY <1>1, <1>2 DEF Types
<1>5. WireOK(wire', linked)
  <2>1. linked \in SUBSET Ports /\ linked \in SUBSET linked /\ \A q \in Ports : port[q] \in PortType
    BY <1>1 DEF Types
  <2>2. QED
    BY <1>1, <1>2, <2>1, TransmitOK
<1>6. \A q \in Ports : LinkInv(q)'
  <2> TAKE q \in Ports
  <2>1. LinkInv(q) /\ port'[q].held = port[q].held /\ (port'[q].state = "gone" <=> port[q].state = "gone")
    BY <1>1, <1>3
  <2>2. QED
    BY <1>2, <2>1 DEF LinkInv
<1>7. QED
  BY <1>2, <1>3, <1>4, <1>5, <1>6, PortChangeInv

-----------------------------------------------------------------------------
(***************************************************************************)
(* The steps of the network.                                               *)
(***************************************************************************)

\* Ports together with the other ends of their links.
LEMMA PeersClosed ==
    ASSUME NEW S \in SUBSET Ports, NEW q \in Ports
    PROVE  /\ q \in S \cup Peers(S) <=> Peer[q] \in S \cup Peers(S)
           /\ q \in Peers(S) <=> Peer[q] \in S
           /\ Peers(S) \subseteq Ports
<1>1. Peer[q] \in Ports /\ Peer[Peer[q]] = q /\ \A p \in S : Peer[p] \in Ports /\ Peer[Peer[p]] = p
  BY StpAssumption
<1>2. q \in Peers(S) <=> Peer[q] \in S
  BY <1>1 DEF Peers
<1>3. Peer[q] \in Peers(S) <=> q \in S
  BY <1>1 DEF Peers
<1>4. QED
  BY <1>1, <1>2, <1>3 DEF Peers

\* Links fail: at both ends, with what was on them.
LEMMA CutOK ==
    ASSUME Inv, NEW S \in SUBSET Ports, Cut(S)
    PROVE  /\ linked' = linked \ (S \cup Peers(S)) /\ linked' \in SUBSET Ports
           /\ BothEnds(linked') /\ WireOK(wire', linked')
<1>1. PICK D : D = S \cup Peers(S)
  OBVIOUS
<1>2. /\ linked' = linked \ D
      /\ wire' = [p \in Ports |-> IF p \in D THEN << >> ELSE wire[p]]
  BY <1>1 DEF Cut
<1>3. linked \in SUBSET Ports /\ BothEnds(linked) /\ WireOK(wire, linked)
  BY DEF Inv, Types
<1>4. \A q \in Ports : q \in D <=> Peer[q] \in D
  BY <1>1, PeersClosed
<1>5. BothEnds(linked')
  BY <1>2, <1>3, <1>4 DEF BothEnds
<1>6. WireOK(wire', linked')
  BY <1>2, <1>3, WireCut
<1>7. QED
  BY <1>1, <1>2, <1>3, <1>5, <1>6

\* Nothing is on its way when the network changes.
LEMMA QuietFacts ==
    ASSUME Inv, Quiet, NEW p \in Ports
    PROVE  /\ news[p] = "none" /\ wire[p] = << >>
           /\ \A t \in Threads : task[t] = Idle
           /\ p \in linked => Owner[p] \in alive /\ port[p].state # "gone"
           /\ p \notin linked => port[p].held = NoMsg
           /\ port[p].state # "gone" => Owner[p] \in alive
           /\ port[p].state = "gone" => port[p].held = NoMsg
           /\ PortOK(p, port[p])
           /\ Peer[p] \in linked <=> p \in linked
<1>1. /\ news[p] = "none" /\ wire[p] = << >>
      /\ \A t \in Threads : task[t] = Idle
  BY DEF Quiet
<1>2. LinkInv(p) /\ PortOK(p, port[p]) /\ BothEnds(linked)
  BY DEF Inv
<1>3. QED
  BY <1>1, <1>2 DEF LinkInv, PortOK, Active, BothEnds

\* No recalculation is under way.
LEMMA IdleTasks ==
    ASSUME \A t \in Threads : task'[t] = Idle
    PROVE  \A t \in Threads : TaskInv(t)' /\ AloneInv(t)'
BY IdleFacts DEF TaskInv, AloneInv, PortsOf

\* A change of the network that the bridges have yet to hear of.
LEMMA NetworkInv ==
    ASSUME Inv, Quiet, UNCHANGED <<alive, root, port, task>>,
           linked' \in SUBSET Ports, BothEnds(linked'), WireOK(wire', linked'),
           news' \in [Ports -> Reports], changes' \in Nat, \A p \in Ports : LinkInv(p)'
    PROVE  Inv'
<1>1. Types /\ \A p \in Ports : PortOK(p, port[p])
  BY DEF Inv
<1>2. Types'
  BY <1>1 DEF Types
<1>3. \A t \in Threads : task'[t] = Idle
  BY DEF Quiet
<1>4. \A b \in Bridges : RootInv(b)'
  <2> TAKE b \in Bridges
  <2>1. RootInv(b)
    BY DEF Inv
  <2>2. Settled(b)' => Settled(b) /\ root'[b] = root[b]
    BY DEF Settled
  <2>3. QED
    BY <2>1, <2>2, RootFrame
<1>5. QED
  BY <1>1, <1>2, <1>3, <1>4, IdleTasks DEF Inv

\* A link fails.
LEMMA LinkFailsInv ==
    ASSUME Inv, NEW p \in Ports, LinkFails(p)
    PROVE  Inv'
<1>1. /\ Quiet /\ changes' = changes + 1 /\ p \in linked /\ Cut({p})
      /\ news' = [q \in Ports |-> IF q \in {p, Peer[p]} THEN "down" ELSE news[q]]
      /\ UNCHANGED <<alive, root, port, task>>
  BY DEF LinkFails, Change
<1>2. /\ linked' = linked \ ({p} \cup Peers({p})) /\ linked' \in SUBSET Ports
      /\ BothEnds(linked') /\ WireOK(wire', linked')
  BY <1>1, CutOK
<1>3. {p} \cup Peers({p}) = {p, Peer[p]}
  BY DEF Peers
<1>4. news' \in [Ports -> Reports] /\ changes' \in Nat
  BY <1>1 DEF Inv, Types, Reports
<1>5. \A q \in Ports : LinkInv(q)'
  <2> TAKE q \in Ports
  <2>1. LinkInv(q) /\ news[q] = "none" /\ (q \in linked => Owner[q] \in alive /\ port[q].state # "gone")
    BY <1>1, QuietFacts DEF Inv
  <2>2. CASE q \in {p, Peer[p]}
    <3>1. q \in linked
      BY <1>1, <2>2, QuietFacts
    <3>2. news'[q] = "down" /\ q \notin linked'
      BY <1>1, <1>2, <1>3, <2>2
    <3>3. QED
      BY <1>1, <2>1, <3>1, <3>2 DEF LinkInv
  <2>3. CASE q \notin {p, Peer[p]}
    <3>1. news'[q] = news[q] /\ (q \in linked' <=> q \in linked)
      BY <1>1, <1>2, <1>3, <2>3
    <3>2. QED
      BY <1>1, <2>1, <3>1 DEF LinkInv
  <2>4. QED
    BY <2>2, <2>3
<1>6. QED
  BY <1>1, <1>2, <1>4, <1>5, NetworkInv

\* A port is removed.
LEMMA PortRemovedInv ==
    ASSUME Inv, NEW p \in Ports, PortRemoved(p)
    PROVE  Inv'
<1>1. /\ Quiet /\ changes' = changes + 1 /\ port[p].state # "gone" /\ Cut({p})
      /\ news' = [q \in Ports |-> IF q = p THEN "delete"
                                  ELSE IF q = Peer[p] /\ q \in linked THEN "down" ELSE news[q]]
      /\ UNCHANGED <<alive, root, port, task>>
  BY DEF PortRemoved, Change
<1>2. /\ linked' = linked \ ({p} \cup Peers({p})) /\ linked' \in SUBSET Ports
      /\ BothEnds(linked') /\ WireOK(wire', linked')
  BY <1>1, CutOK
<1>3. {p} \cup Peers({p}) = {p, Peer[p]}
  BY DEF Peers
<1>4. news' \in [Ports -> Reports] /\ changes' \in Nat
  BY <1>1 DEF Inv, Types, Reports
<1>5. \A q \in Ports : LinkInv(q)'
  <2> TAKE q \in Ports
  <2>1. /\ LinkInv(q) /\ news[q] = "none" /\ (q \in linked => Owner[q] \in alive /\ port[q].state # "gone")
        /\ q \notin linked => port[q].held = NoMsg
        /\ port[q].state # "gone" => Owner[q] \in alive
    BY <1>1, QuietFacts DEF Inv
  <2>2. CASE q = p
    <3>1. news'[q] = "delete" /\ q \notin linked'
      BY <1>1, <1>2, <1>3, <2>2
    <3>2. QED
      BY <1>1, <2>1, <2>2, <3>1 DEF LinkInv
  <2>3. CASE q # p
    <3>1. CASE q = Peer[p] /\ q \in linked
      <4>1. news'[q] = "down" /\ q \notin linked'
        BY <1>1, <1>2, <1>3, <2>3, <3>1
      <4>2. QED
        BY <1>1, <2>1, <3>1, <4>1 DEF LinkInv
    <3>2. CASE ~(q = Peer[p] /\ q \in linked)
      <4>1. news'[q] = news[q] /\ (q \in linked' <=> q \in linked)
        BY <1>1, <1>2, <1>3, <2>3, <3>2
      <4>2. QED
        BY <1>1, <2>1, <4>1 DEF LinkInv
    <3>3. QED
      BY <3>1, <3>2
  <2>4. QED
    BY <2>2, <2>3
<1>6. QED
  BY <1>1, <1>2, <1>4, <1>5, NetworkInv

\* The ports of B, out of the ports S that are reported as n, are linked again.
Mended(S, n, B) ==
    /\ \A p \in S : p \in B <=> Peer[p] \in S \/ port[Peer[p]].state # "gone"
    /\ \A q \in Ports : q \in linked' <=> q \in linked \/ q \in B \/ Peer[q] \in B
    /\ linked' \in SUBSET Ports /\ linked \subseteq linked' /\ BothEnds(linked')
    /\ news' \in [Ports -> Reports]
    /\ \A q \in Ports : news'[q] = IF q \in S THEN n ELSE IF Peer[q] \in B THEN "up" ELSE news[q]

\* Links work again: at both ends.
LEMMA MendOK ==
    ASSUME Inv, NEW S \in SUBSET Ports, NEW n \in Reports, Mend(S, n)
    PROVE  \E B \in SUBSET S : Mended(S, n, B)
<1>1. PICK B : B = {p \in S : Peer[p] \in S \/ port[Peer[p]].state # "gone"}
  OBVIOUS
<1>2. /\ linked' = linked \cup B \cup Peers(B)
      /\ news' = [q \in Ports |-> IF q \in S THEN n
                                  ELSE IF q \in Peers(B) THEN "up" ELSE news[q]]
  BY <1>1 DEF Mend
<1>3. B \in SUBSET S /\ B \in SUBSET Ports
  BY <1>1
<1>4. Types /\ BothEnds(linked)
  BY DEF Inv
<1>5. \A q \in Ports : /\ q \in B \cup Peers(B) <=> Peer[q] \in B \cup Peers(B)
                       /\ q \in Peers(B) <=> Peer[q] \in B
                       /\ Peers(B) \subseteq Ports
  BY <1>3, PeersClosed
<1>6. \A q \in Ports : q \in linked' <=> q \in linked \/ q \in B \/ Peer[q] \in B
  BY <1>2, <1>5
<1>7. linked' \in SUBSET Ports /\ linked \subseteq linked'
  <2>1. Peers(B) \subseteq Ports
    BY <1>3, StpAssumption DEF Peers
  <2>2. QED
    BY <1>2, <1>3, <1>4, <2>1 DEF Types
<1>8. BothEnds(linked')
  BY <1>2, <1>4, <1>5 DEF BothEnds
<1>9. news' \in [Ports -> Reports]
  BY <1>2, <1>4 DEF Types, Reports
<1>10. \A q \in Ports : news'[q] = IF q \in S THEN n ELSE IF Peer[q] \in B THEN "up" ELSE news[q]
  BY <1>2, <1>5
<1>11. Mended(S, n, B)
  BY <1>1, <1>6, <1>7, <1>8, <1>9, <1>10 DEF Mended
<1>12. QED
  BY <1>3, <1>11

\* The link of one port works again.
LEMMA MendOneInv ==
    ASSUME Inv, Quiet, NEW p \in Ports, NEW n \in {"up", "add"}, Mend({p}, n),
           p \notin linked, Owner[p] \in alive, n = "up" => port[p].state # "gone",
           UNCHANGED <<alive, root, port, wire, task>>, changes' = changes + 1
    PROVE  Inv'
<1>1. PICK B \in SUBSET {p} :
         /\ p \in B <=> Peer[p] \in {p} \/ port[Peer[p]].state # "gone"
         /\ \A q \in Ports : q \in linked' <=> q \in linked \/ q \in B \/ Peer[q] \in B
         /\ linked' \in SUBSET Ports /\ linked \subseteq linked' /\ BothEnds(linked')
         /\ news' \in [Ports -> Reports]
         /\ \A q \in Ports : news'[q] = IF q \in {p} THEN n
                                        ELSE IF Peer[q] \in B THEN "up" ELSE news[q]
  <2>1. {p} \in SUBSET Ports /\ n \in Reports
    BY DEF Reports
  <2>2. PICK B \in SUBSET {p} : Mended({p}, n, B)
    BY <2>1, MendOK
  <2>3. QED
    BY <2>2 DEF Mended
<1>2. WireOK(wire', linked') /\ changes' \in Nat
  BY <1>1, WireMore DEF Inv, Types
<1>3. Peer[p] # p /\ Peer[p] \in Ports /\ Peer[Peer[p]] = p
  BY StpAssumption
<1>4. \A q \in Ports : LinkInv(q)'
  <2> TAKE q \in Ports
  <2>1. /\ LinkInv(q) /\ news[q] = "none"
        /\ q \notin linked => port[q].held = NoMsg
        /\ port[q].state # "gone" => Owner[q] \in alive
        /\ Peer[q] \in linked <=> q \in linked
    BY QuietFacts DEF Inv
  <2>2. CASE q = p
    <3>1. news'[q] = n
      BY <1>1, <2>2
    <3>2. QED
      BY <2>1, <2>2, <3>1 DEF LinkInv
  <2>3. CASE q # p /\ Peer[q] \in B
    <3>1. q = Peer[p]
      BY <1>1, <2>3, StpAssumption
    <3>2. port[q].state # "gone" /\ news'[q] = "up" /\ q \notin linked
      BY <1>1, <1>3, <2>1, <2>3, <3>1
    <3>3. QED
      BY <2>1, <3>2 DEF LinkInv
  <2>4. CASE q # p /\ Peer[q] \notin B
    <3>1. news'[q] = news[q] /\ (q \in linked' <=> q \in linked)
      BY <1>1, <2>4
    <3>2. QED
      BY <2>1, <3>1 DEF LinkInv
  <2>5. QED
    BY <2>2, <2>3, <2>4
<1>5. QED
  BY <1>1, <1>2, <1>4, NetworkInv

\* A link works again.
LEMMA LinkWorksInv ==
    ASSUME Inv, NEW p \in Ports, LinkWorks(p)
    PROVE  Inv'
<1>1. /\ Quiet /\ changes' = changes + 1 /\ p \notin linked /\ port[p].state # "gone"
      /\ Mend({p}, "up") /\ UNCHANGED <<alive, root, port, wire, task>>
  BY DEF LinkWorks, Change
<1>2. Owner[p] \in alive
  BY <1>1, QuietFacts
<1>3. PICK n \in {"up", "add"} : n = "up"
  OBVIOUS
<1>4. QED
  BY <1>1, <1>2, <1>3, MendOneInv

\* A port is added.
LEMMA PortAddedInv ==
    ASSUME Inv, NEW p \in Ports, PortAdded(p)
    PROVE  Inv'
<1>1. /\ Quiet /\ changes' = changes + 1 /\ Owner[p] \in alive /\ port[p].state = "gone"
      /\ Mend({p}, "add") /\ UNCHANGED <<alive, root, port, wire, task>>
  BY DEF PortAdded, Change
<1>2. p \notin linked
  BY <1>1, QuietFacts
<1>3. PICK n \in {"up", "add"} : n = "add"
  OBVIOUS
<1>4. QED
  BY <1>1, <1>2, <1>3, MendOneInv

\* A switch fails.
LEMMA SwitchFailsInv ==
    ASSUME Inv, NEW b \in Bridges, SwitchFails(b)
    PROVE  Inv'
<1>1. /\ Quiet /\ changes' = changes + 1 /\ b \in alive /\ Cut(PortsOf(b))
      /\ news' = [q \in Ports |-> IF q \in (Peers(PortsOf(b)) \cap linked) \ PortsOf(b) THEN "down"
                                  ELSE news[q]]
      /\ port' = [q \in Ports |-> IF Owner[q] = b THEN Gone ELSE port[q]]
      /\ alive' = alive \ {b}
      /\ task' = [t \in Threads |-> IF task[t].bridge = b THEN Idle ELSE task[t]]
      /\ root' = root
  BY DEF SwitchFails, Change, Unregister
<1>2. PortsOf(b) \in SUBSET Ports /\ \A q \in Ports : q \in PortsOf(b) <=> Owner[q] = b
  BY DEF PortsOf
<1>3. /\ linked' = linked \ (PortsOf(b) \cup Peers(PortsOf(b))) /\ linked' \in SUBSET Ports
      /\ BothEnds(linked') /\ WireOK(wire', linked')
  BY <1>1, <1>2, CutOK
<1>4. \A t \in Threads : task[t] = Idle /\ task'[t] = Idle
  BY <1>1 DEF Quiet
<1>5. \A q \in Ports : PortOK(q, port'[q])
  BY <1>1, GoneOK DEF Inv
<1>6. Types'
  <2>1. port' = [q \in Ports |-> port'[q]]
    BY <1>1
  <2>2. port' \in [Ports -> PortType]
    BY <1>5, <2>1, PortTable
  <2>3. task' \in [Threads -> TaskType]
    BY <1>1, <1>4, ConstantTypes
  <2>4. Types /\ news' \in [Ports -> Reports]
    BY <1>1 DEF Inv, Types, Reports
  <2>5. QED
    BY <1>1, <1>3, <2>2, <2>3, <2>4 DEF Types
<1>7. \A q \in Ports : LinkInv(q)'
  <2> TAKE q \in Ports
  <2>1. /\ LinkInv(q) /\ news[q] = "none"
        /\ q \in linked => Owner[q] \in alive
    BY <1>1, QuietFacts DEF Inv
  <2>2. CASE Owner[q] = b
    <3>1. port'[q] = Gone /\ news'[q] = "none" /\ q \notin linked'
      BY <1>1, <1>2, <1>3, <2>1, <2>2
    <3>2. QED
      BY <3>1, GoneOK DEF LinkInv
  <2>3. CASE Owner[q] # b /\ q \in Peers(PortsOf(b)) /\ q \in linked
    <3>1. news'[q] = "down" /\ q \notin linked' /\ Owner[q] \in alive'
      BY <1>1, <1>2, <1>3, <2>1, <2>3
    <3>2. QED
      BY <3>1 DEF LinkInv
  <2>4. CASE Owner[q] # b /\ ~(q \in Peers(PortsOf(b)) /\ q \in linked)
    <3>1. /\ news'[q] = news[q] /\ (q \in linked' <=> q \in linked) /\ port'[q] = port[q]
          /\ Owner[q] \in alive' <=> Owner[q] \in alive
      BY <1>1, <1>2, <1>3, <2>4
    <3>2. QED
      BY <2>1, <3>1 DEF LinkInv
  <2>5. QED
    BY <2>2, <2>3, <2>4
<1>8. \A c \in Bridges : RootInv(c)'
  <2> TAKE c \in Bridges
  <2>1. CASE c = b
    BY <1>1, <2>1 DEF RootInv, Settled
  <2>2. CASE c # b
    <3>1. RootInv(c)
      BY DEF Inv
    <3>2. Idle.bridge = 0 /\ c # 0
      BY ConstantTypes DEF Idle
    <3>3. Settled(c)' => Settled(c) /\ root'[c] = root[c]
      BY <1>1, <1>4, <3>2 DEF Settled
    <3>4. \A p \in PortsOf(c) : port'[p] = port[p]
      BY <1>1, <2>2 DEF PortsOf
    <3>5. QED
      BY <3>1, <3>3, <3>4, RootFrame
  <2>3. QED
    BY <2>1, <2>2
<1>9. QED
  BY <1>3, <1>4, <1>5, <1>6, <1>7, <1>8, IdleTasks DEF Inv

\* A switch is back.
LEMMA SwitchReturnsInv ==
    ASSUME Inv, NEW b \in Bridges, SwitchReturns(b)
    PROVE  Inv'
<1>1. /\ Quiet /\ changes' = changes + 1 /\ b \notin alive /\ Mend(PortsOf(b), "none")
      /\ alive' = alive \cup {b}
      /\ root' = [root EXCEPT ![b] = OwnRoot(b)]
      /\ port' = [q \in Ports |-> IF Owner[q] = b THEN NewPort(q) ELSE port[q]]
      /\ task' = task
      /\ wire' = Transmit(wire, linked' \cap PortsOf(b), port')
  BY DEF SwitchReturns, Change, Register
<1>2. PortsOf(b) \in SUBSET Ports /\ "none" \in Reports /\ \A q \in Ports : q \in PortsOf(b) <=> Owner[q] = b
  BY DEF PortsOf, Reports
<1>3. PICK B \in SUBSET PortsOf(b) :
         /\ \A p \in PortsOf(b) : p \in B <=> Peer[p] \in PortsOf(b) \/ port[Peer[p]].state # "gone"
         /\ \A q \in Ports : q \in linked' <=> q \in linked \/ q \in B \/ Peer[q] \in B
         /\ linked' \in SUBSET Ports /\ linked \subseteq linked' /\ BothEnds(linked')
         /\ news' \in [Ports -> Reports]
         /\ \A q \in Ports : news'[q] = IF q \in PortsOf(b) THEN "none"
                                        ELSE IF Peer[q] \in B THEN "up" ELSE news[q]
  <2>1. PICK S \in SUBSET Ports : S = PortsOf(b)
    BY <1>2
  <2>2. PICK n \in Reports : n = "none"
    BY <1>2
  <2>3. Mend(S, n)
    BY <1>1, <2>1, <2>2
  <2>4. PICK B \in SUBSET S : Mended(S, n, B)
    BY <2>3, MendOK
  <2>5. QED
    BY <2>1, <2>2, <2>4 DEF Mended
<1>4. \A t \in Threads : task[t] = Idle /\ task'[t] = Idle
  BY <1>1 DEF Quiet
<1>5. \A q \in Ports : PortOK(q, port'[q])
  BY <1>1, NewPortOK DEF Inv
<1>6. Types'
  <2>1. port' = [q \in Ports |-> port'[q]]
    BY <1>1
  <2>2. port' \in [Ports -> PortType]
    BY <1>5, <2>1, PortTable
  <2>3. Types
    BY DEF Inv
  <2>4. root' \in [Bridges -> PrioType]
    BY <1>1, <2>3, ConstantTypes DEF Types
  <2>5. QED
    BY <1>1, <1>3, <2>2, <2>3, <2>4 DEF Types
<1>7. WireOK(wire', linked')
  <2>1. PICK L, f : L = linked' /\ f = port'
    OBVIOUS
  <2>2. L \in SUBSET Ports /\ L \cap PortsOf(b) \in SUBSET L /\ BothEnds(L) /\ linked \subseteq L
    BY <1>3, <2>1
  <2>3. WireOK(wire, linked)
    BY DEF Inv
  <2>4. WireOK(wire, L)
    BY <2>2, <2>3, WireMore
  <2>5. \A q \in Ports : f[q] \in PortType
    BY <1>5, <2>1 DEF PortOK
  <2>6. WireOK(Transmit(wire, L \cap PortsOf(b), f), L)
    BY <2>2, <2>4, <2>5, TransmitOK
  <2>7. QED
    BY <1>1, <2>1, <2>6
<1>8. \A q \in Ports : LinkInv(q)'
  <2> TAKE q \in Ports
  <2>1. /\ LinkInv(q) /\ news[q] = "none"
        /\ q \in linked => Owner[q] \in alive
        /\ q \notin linked => port[q].held = NoMsg
        /\ port[q].state # "gone" => Owner[q] \in alive
        /\ Peer[q] \in linked <=> q \in linked
    BY <1>1, QuietFacts DEF Inv
  <2>2. CASE Owner[q] = b
    <3>1. port'[q] = NewPort(q) /\ news'[q] = "none" /\ Owner[q] \in alive'
      BY <1>1, <1>2, <1>3, <2>2
    <3>2. port'[q].held = NoMsg /\ port'[q].state = "listen"
      BY <3>1, NewPortOK
    <3>3. QED
      BY <3>1, <3>2 DEF LinkInv
  <2>3. CASE Owner[q] # b /\ Peer[q] \in B
    <3>1. /\ Peer[q] \in Ports /\ Owner[Peer[q]] = b /\ Peer[Peer[q]] = q
      BY <1>2, <1>3, <2>3, StpAssumption
    <3>2. Peer[q] \notin linked
      BY <1>1, <3>1, QuietFacts
    <3>3. port[q].state # "gone"
      BY <1>2, <1>3, <2>3, <3>1
    <3>4. news'[q] = "up" /\ port'[q] = port[q] /\ Owner[q] \in alive'
      BY <1>1, <1>2, <1>3, <2>1, <2>3, <3>3
    <3>5. QED
      BY <2>1, <3>2, <3>3, <3>4 DEF LinkInv
  <2>4. CASE Owner[q] # b /\ Peer[q] \notin B
    <3>1. /\ news'[q] = news[q] /\ (q \in linked' <=> q \in linked) /\ port'[q] = port[q]
          /\ Owner[q] \in alive' <=> Owner[q] \in alive
      BY <1>1, <1>2, <1>3, <2>4
    <3>2. QED
      BY <2>1, <3>1 DEF LinkInv
  <2>5. QED
    BY <2>2, <2>3, <2>4
<1>9. \A c \in Bridges : RootInv(c)'
  <2> TAKE c \in Bridges
  <2>1. CASE c = b
    <3>1. \A p \in PortsOf(b) : port'[p].held = NoMsg /\ port'[p].role = "designated"
      BY <1>1, <1>2, NewPortOK
    <3>2. Known(b)' = {}
      BY <3>1 DEF Known, PortsOf
    <3>3. root'[b] = OwnRoot(b)
      BY <1>1 DEF Inv, Types
    <3>4. QED
      BY <2>1, <3>1, <3>2, <3>3 DEF RootInv, OwnRoot, PortsOf
  <2>2. CASE c # b
    <3>1. RootInv(c)
      BY DEF Inv
    <3>2. Settled(c)' => Settled(c) /\ root'[c] = root[c]
      BY <1>1, <2>2 DEF Settled, Inv, Types
    <3>3. \A p \in PortsOf(c) : port'[p] = port[p]
      BY <1>1, <2>2 DEF PortsOf
    <3>4. QED
      BY <3>1, <3>2, <3>3, RootFrame
  <2>3. QED
    BY <2>1, <2>2
<1>10. QED
  BY <1>3, <1>4, <1>5, <1>6, <1>7, <1>8, <1>9, IdleTasks DEF Inv

-----------------------------------------------------------------------------
(***************************************************************************)
(* The theorems.                                                           *)
(***************************************************************************)

\* Every step preserves the inductive invariant.
LEMMA NextInv == Inv /\ [Next]_vars => Inv'
<1> SUFFICES ASSUME Inv, [Next]_vars PROVE Inv'
  OBVIOUS
<1>1. CASE UNCHANGED vars
  <2>1. \A b \in Bridges : RootInv(b)'
    <3> TAKE b \in Bridges
    <3>1. RootInv(b) /\ (Settled(b)' => Settled(b) /\ root'[b] = root[b])
      BY <1>1 DEF Inv, Settled, vars
    <3>2. \A p \in PortsOf(b) : port'[p] = port[p]
      BY <1>1 DEF vars
    <3>3. QED
      BY <3>1, <3>2, RootFrame
  <2>2. Types' /\ BothEnds(linked)' /\ WireOK(wire, linked)' /\ \A p \in Ports : PortOK(p, port[p])'
    BY <1>1 DEF vars, Inv, Types, BothEnds, WireOK, PortOK, Active
  <2>3. (\A p \in Ports : LinkInv(p)') /\ \A t \in Threads : TaskInv(t)' /\ AloneInv(t)'
    BY <1>1 DEF vars, Inv, LinkInv, TaskInv, AloneInv, Active, PortsOf
  <2>4. QED
    BY <2>1, <2>2, <2>3 DEF Inv
<1>2. ASSUME NEW p \in Ports, Receive(p) PROVE Inv'
  BY <1>2, ReceiveInv
<1>3. ASSUME NEW p \in Ports, WaitTimeout(p) PROVE Inv'
  BY <1>3, WaitTimeoutInv
<1>4. ASSUME NEW p \in Ports, LinkDown(p) PROVE Inv'
  BY <1>4, LinkDownInv
<1>5. ASSUME NEW p \in Ports, LinkUp(p) PROVE Inv'
  BY <1>5, LinkUpInv
<1>6. ASSUME NEW p \in Ports, LinkFails(p) PROVE Inv'
  BY <1>6, LinkFailsInv
<1>7. ASSUME NEW p \in Ports, PortRemoved(p) PROVE Inv'
  BY <1>7, PortRemovedInv
<1>8. ASSUME NEW p \in Ports, LinkWorks(p) PROVE Inv'
  BY <1>8, LinkWorksInv
<1>9. ASSUME NEW p \in Ports, PortAdded(p) PROVE Inv'
  BY <1>9, PortAddedInv
<1>10. ASSUME NEW b \in Bridges, SwitchFails(b) PROVE Inv'
  BY <1>10, SwitchFailsInv
<1>11. ASSUME NEW b \in Bridges, SwitchReturns(b) PROVE Inv'
  BY <1>11, SwitchReturnsInv
<1>12. ASSUME NEW t \in Threads, DownPorts(t) PROVE Inv'
  BY <1>12, DownPortsInv
<1>13. ASSUME NEW t \in Threads, UpPorts(t) PROVE Inv'
  BY <1>13, UpPortsInv
<1>14. CASE Tick
  BY <1>14, TickInv
<1>15. QED
  BY <1>1, <1>2, <1>3, <1>4, <1>5, <1>6, <1>7, <1>8, <1>9, <1>10, <1>11, <1>12, <1>13, <1>14
     DEF Next, Step, Network

\* The inductive invariant implies the types of the run.
LEMMA InvTypes == Inv => TypeOK
<1> SUFFICES ASSUME Inv PROVE TypeOK
  OBVIOUS
<1>1. alive \subseteq Bridges /\ linked \subseteq Ports
  BY DEF Inv, Types
<1>2. Peers(linked) = linked
  <2>1. \A q \in Ports : q \in Peers(linked) <=> Peer[q] \in linked
    BY <1>1, PeersClosed
  <2>2. Peers(linked) \subseteq Ports
    BY <1>1, StpAssumption DEF Peers
  <2>3. \A q \in Ports : Peer[q] \in linked <=> q \in linked
    BY DEF Inv, BothEnds
  <2>4. QED
    BY <1>1, <2>1, <2>2, <2>3
<1>3. ASSUME NEW p \in Ports
      PROVE  /\ port[p].state \in {"gone", "disable", "block", "listen", "learn", "forward"}
             /\ port[p].role \in {"root", "designated", "nondesignated"}
             /\ port[p].wait \in Off .. MaxAge /\ port[p].timer \in Off .. FwdDelay
             /\ port[p].timer # Off <=> port[p].state \in {"listen", "learn"}
             /\ port[p].role = "designated" => port[p].wait = Off
             /\ port[p].state # "gone" => Owner[p] \in alive
  <2>1. PortOK(p, port[p]) /\ LinkInv(p)
    BY DEF Inv
  <2>2. QED
    BY <2>1 DEF PortOK, PortType, Roles, States, LinkInv
<1>4. QED
  BY <1>1, <1>2, <1>3 DEF TypeOK

\* The inductive invariant implies that roots and root ports are never stale.
LEMMA InvRootPort == ~Overlap /\ Inv => RootPortExact
<1> SUFFICES ASSUME ~Overlap, Inv, NEW b \in alive, \A t \in Threads : task[t].bridge # b
             PROVE  /\ root[b] = NewRoot(b)
                    /\ \A p \in PortsOf(b) : port[p].role = "root" <=> p = SelectRootPort(b)
  BY DEF RootPortExact
<1>1. b \in Bridges /\ Settled(b) /\ RootInv(b)
  BY DEF Inv, Types, Settled
<1>2. \A p \in Ports : PortOK(p, port[p])
  BY DEF Inv
<1>3. /\ Known(b) = {} => SelectRootPort(b) = 0
      /\ \A p : Best(b, p) => SelectRootPort(b) = p
  BY <1>1, <1>2, SelectFindsBest
<1>4. 0 \notin PortsOf(b)
  BY ConstantTypes DEF PortsOf
<1>5. ASSUME NEW p \in PortsOf(b), port[p].role = "root"
      PROVE  /\ root[b] = NewRoot(b)
             /\ \A q \in PortsOf(b) : port[q].role = "root" <=> q = SelectRootPort(b)
  <2>1. /\ Best(b, p)
        /\ root[b] = [root |-> port[p].held.root, cost |-> port[p].held.cost,
                      age |-> port[p].held.age]
    BY <1>1, <1>5 DEF RootInv
  <2>2. SelectRootPort(b) = p /\ p # 0
    BY <1>3, <1>4, <1>5, <2>1
  <2>3. root[b] = NewRoot(b)
    BY <2>1, <2>2 DEF NewRoot
  <2>4. \A q \in PortsOf(b) : port[q].role = "root" => q = SelectRootPort(b)
    BY <1>1, <1>3 DEF RootInv
  <2>5. QED
    BY <1>5, <2>2, <2>3, <2>4
<1>6. CASE \A p \in PortsOf(b) : port[p].role # "root"
  <2>1. root[b] = OwnRoot(b) /\ Known(b) = {}
    BY <1>1, <1>6 DEF RootInv
  <2>2. SelectRootPort(b) = 0 /\ NewRoot(b) = OwnRoot(b)
    BY <1>3, <2>1 DEF NewRoot
  <2>3. QED
    BY <1>4, <1>6, <2>1, <2>2
<1>7. QED
  BY <1>5, <1>6

\* Whether or not recalculations overlap, the port tables of all bridges have
\* their types, a link works at both ends or at none, and a port waits for
\* BPDUs only where it does not send them.
THEOREM StpTypes == Spec => []TypeOK
<1>1. Inv => TypeOK
  BY InvTypes
<1>2. QED
  BY InitInv, NextInv, <1>1, PTL DEF Spec

\* Where recalculations do not overlap, a bridge that does not recalculate has
\* the root and the root port that _spanning_tree_algorithm finds in what its
\* ports hold.
THEOREM StpRootPort ==
    ASSUME ~Overlap
    PROVE  Spec => []RootPortExact
<1>1. Inv => RootPortExact
  BY InvRootPort
<1>2. QED
  BY InitInv, NextInv, <1>1, PTL DEF Spec

=============================================================================
