-------------------------------- MODULE Stp --------------------------------
(***************************************************************************)
(* The spanning tree library, ryu/lib/stplib.py: the application Stp with  *)
(* a Bridge for every connected switch and a Port, with its threads, for   *)
(* every port of it.                                                       *)
(*                                                                         *)
(* Threads: the event loop of the application handles one packet-in, port  *)
(* status or registration at a time, for all bridges; a port has a thread  *)
(* that sends BPDUs, one that waits for them and its state machine; a wait *)
(* that times out spawns a recalculation.  A recalculation takes all ports *)
(* down, then up, one after the other, and yields at each (hub.sleep(0)):  *)
(* with Overlap TRUE other threads run there, a second recalculation of    *)
(* the same bridge included.  With Overlap FALSE a recalculation that      *)
(* started ends before anything else happens.  The yields inside the down  *)
(* or up of one port (the end of a thread, a send that blocks) are not     *)
(* split further.                                                          *)
(* Time is counted in hello times and goes on when nothing is left to do.  *)
(* All bridges have the default priority and times: a bridge id is a       *)
(* number, the order of the MAC addresses.  The flags of a topology change *)
(* do not influence the tree and are left out.                             *)
(***************************************************************************)
EXTENDS Integers, Sequences, FiniteSets

CONSTANTS
    Bridges,   \* bridge ids
    Ports,     \* port ids
    Owner,     \* port -> its bridge
    Peer,      \* port -> the port at the other end of its link
    PathCost,  \* port -> path_cost
    MaxAge,    \* max_age, in hello times
    FwdDelay,  \* forward_delay, in hello times
    Kinds,     \* what may go wrong, a subset of {"link", "port", "switch"}
    MaxChanges, \* bound on failures and repairs
    Overlap    \* whether other threads run at the yields of a recalculation

ASSUME StpAssumption ==
    /\ Bridges \subseteq Nat \ {0} /\ IsFiniteSet(Bridges)
    /\ Ports \subseteq Nat \ {0} /\ IsFiniteSet(Ports)
    /\ Owner \in [Ports -> Bridges] /\ PathCost \in [Ports -> Nat \ {0}]
    /\ Peer \in [Ports -> Ports]
    /\ \A p \in Ports : Peer[p] # p /\ Peer[Peer[p]] = p
    /\ MaxAge \in Nat \ {0} /\ FwdDelay \in Nat \ {0} /\ MaxChanges \in Nat
    /\ Kinds \subseteq {"link", "port", "switch"} /\ Overlap \in BOOLEAN

VARIABLES
    alive,  \* the keys of bridge_list
    root,   \* bridge -> root_priority and the age of root_times
    port,   \* port -> the Port object, state "gone" without one
    linked, \* ports whose link works
    news,   \* port -> a port status that was not handled yet, or "none"
    wire,   \* port -> the BPDUs on their way to it
    task,   \* port -> recalculation its timeout spawned; 0 -> the event loop
    changes

vars == <<alive, root, port, linked, news, wire, task, changes>>

Off == -1

\* designated_priority and designated_times, or what a BPDU carries
NoMsg == [root |-> 0, cost |-> 0, bridge |-> 0, port |-> 0, age |-> 0]

Gone == [role |-> "designated", state |-> "gone", held |-> NoMsg,
         prio |-> [root |-> 0, cost |-> 0, age |-> 0], wait |-> Off, timer |-> Off]

OwnRoot(b) == [root |-> b, cost |-> 0, age |-> 0]

\* A recalculation of a bridge: its argument init, the port to remove at its
\* end or 0, the loop it is in, the ports of the loop it did not come to yet
\* and the roles it found.
Idle == [bridge |-> 0, init |-> FALSE, gone |-> 0, phase |-> "down", left |-> {},
         roles |-> [p \in Ports |-> "designated"]]

Less(n) == IF n > 0 THEN n - 1 ELSE n

Threads == Ports \cup {0}

-----------------------------------------------------------------------------
(* Comparisons; the smaller value is superior.                             *)

\* compare_root_path(...) is SUPERIOR, for <<cost, bridge, port>>
CompareRootPath(v, w) ==
    \E i \in DOMAIN v : v[i] < w[i] /\ \A j \in 1 .. i - 1 : v[j] = w[j]

Vector(m) == <<m.cost, m.bridge, m.port>>

\* compare_bpdu_info.  result1 and result2 compare an id that includes the
\* priority with one that does not, so that the times always decide a tie.
CompareBpdu(held, m) ==
    IF \/ held = NoMsg \/ m.root < held.root
       \/ m.root = held.root /\ CompareRootPath(Vector(m), Vector(held))
       \/ m.root = held.root /\ Vector(m) = Vector(held) /\ m.age # held.age
    THEN "superior"
    ELSE IF m = held THEN "repeated" ELSE "inferior"

-----------------------------------------------------------------------------
(* Port objects.                                                           *)

Active(r) == r.state \notin {"gone", "disable"}

\* The sending thread runs, and sends: started in LISTEN, stopped in BLOCK.
Sends(r) == r.state \in {"listen", "learn", "forward"} /\ r.role = "designated"

WaitTime(h) == IF h.age < MaxAge THEN MaxAge - h.age ELSE 0

\* Port.up
Up(r, role, prio) ==
    [r EXCEPT !.role = role, !.prio = prio, !.state = "listen", !.timer = FwdDelay,
              !.wait = IF role = "designated" THEN Off
                       ELSE IF role = r.role THEN @ ELSE WaitTime(r.held)]

\* Mutant: the thread that waits for BPDUs goes on.
Down_bug(r, state, init) ==
    [r EXCEPT !.role = "designated", !.state = state, !.timer = Off,
              !.held = IF init THEN NoMsg ELSE @]

\* Mutant: a port that goes down keeps what it held.
DownKeeps_bug(r, state, init) ==
    [r EXCEPT !.role = "designated", !.state = state, !.timer = Off, !.wait = Off]

\* Port.down
Down(r, state, init) ==
    [r EXCEPT !.role = "designated", !.state = state, !.timer = Off, !.wait = Off,
              !.held = IF init THEN NoMsg ELSE @]

\* Port.__init__: the port of a new bridge, and a port that is added
NewPort(p) == Up(Gone, "designated", OwnRoot(Owner[p]))

\* _generate_config_bpdu: the sender adds the cost of the link.
Bpdu(p, r) == [root |-> r.prio.root, cost |-> r.prio.cost + PathCost[p],
               bridge |-> Owner[p], port |-> p, age |-> r.prio.age + 1]

\* _transmit_bpdu of those of the ports S that send, in the port table f
Transmit(w, S, f) ==
    [q \in Ports |-> LET p == Peer[q]
                     IN  IF p \in S /\ Sends(f[p]) THEN Append(w[q], Bpdu(p, f[p]))
                         ELSE w[q]]

-----------------------------------------------------------------------------
(* Bridge: the tree as one bridge sees it.                                 *)

PortsOf(b) == {p \in Ports : Owner[p] = b}

\* What the port p holds is superior to what q holds.
Nearer(p, q) ==
    \/ port[p].held.root < port[q].held.root
    \/ /\ port[p].held.root = port[q].held.root
       /\ CompareRootPath(Vector(port[p].held), Vector(port[q].held))

\* The ports that hold a better root than the bridge b itself.
Known(b) == {p \in PortsOf(b) : Active(port[p]) /\ port[p].held # NoMsg /\ port[p].held.root < b}

\* _select_root_port, or 0 at a bridge that is a root itself
SelectRootPort(b) ==
    IF Known(b) = {} THEN 0
    ELSE CHOOSE p \in Known(b) : \A q \in Known(b) \ {p} : Nearer(p, q)

\* _select_designated_port: whether p is designated beside the root port rp
IsDesignated(p, rp) ==
    LET h == port[p].held
        r == port[rp].held
    IN  \/ h = NoMsg \/ h.root # r.root
        \/ CompareRootPath(<<r.cost, Owner[p], p>>, <<h.cost - PathCost[p], h.bridge, h.port>>)

\* _spanning_tree_algorithm
Role(b, p) ==
    LET rp == SelectRootPort(b)
    IN  IF rp = 0 \/ (p # rp /\ IsDesignated(p, rp)) THEN "designated"
        ELSE IF p = rp THEN "root" ELSE "nondesignated"

NewRoot(b) ==
    LET rp == SelectRootPort(b)
    IN  IF rp = 0 THEN OwnRoot(b)
        ELSE [root |-> port[rp].held.root, cost |-> port[rp].held.cost, age |-> port[rp].held.age]

-----------------------------------------------------------------------------
(* recalculate_spanning_tree.                                              *)

Recalculate(b, init, gone) ==
    [Idle EXCEPT !.bridge = b, !.init = init, !.gone = gone, !.left = PortsOf(b)]

Rank(role) == CASE role = "root" -> 0 [] role = "designated" -> 1 [] OTHER -> 2

\* The loops go over the table of the ports or, where roles were found, over
\* these: the root port, the designated ports and the others.
Before(job, p, q) ==
    \/ Rank(job.roles[p]) < Rank(job.roles[q])
    \/ Rank(job.roles[p]) = Rank(job.roles[q]) /\ p < q

\* The next port in use, or all of them if nothing runs in between.
Turn(job) ==
    LET S == {p \in job.left : Active(port[p])}
    IN  IF Overlap THEN {p \in S : \A q \in S \ {p} : Before(job, p, q)} ELSE S

\* What is left of a loop then.
After(job) == {q \in job.left : \A p \in Turn(job) : Before(job, p, q)}

\* The roles are found; they are those of the ports that are in use now.
Decided(job) ==
    LET b == job.bridge
    IN  IF job.init THEN [job EXCEPT !.phase = "up", !.left = PortsOf(b)]
        ELSE [job EXCEPT !.phase = "up", !.left = {p \in PortsOf(b) : Active(port[p])},
                         !.roles = [p \in Ports |-> IF Owner[p] = b THEN Role(b, p) ELSE @[p]]]

\* Nothing else runs in the middle of a recalculation unless Overlap is TRUE.
NotBusy == Overlap \/ \A t \in Threads : task[t] = Idle

Init ==
    /\ alive = Bridges
    /\ root = [b \in Bridges |-> OwnRoot(b)]
    /\ port = [p \in Ports |-> NewPort(p)]
    /\ linked = Ports
    /\ news = [p \in Ports |-> "none"]
    /\ wire = Transmit([p \in Ports |-> << >>], Ports, port)
    /\ task = [t \in Threads |-> Idle]
    /\ changes = 0

-----------------------------------------------------------------------------
(* Threads.                                                                *)

\* The first loop of recalculate_spanning_tree: all ports down.
DownPorts(t) ==
    LET job == task[t]
        turn == Turn(job)
    IN  /\ job.phase = "down" /\ turn # {}
        /\ port' = [p \in Ports |-> IF p \in turn THEN Down(port[p], "block", job.init) ELSE port[p]]
        /\ task' = [task EXCEPT ![t].left = After(job)]
        /\ UNCHANGED <<alive, root, linked, news, wire, changes>>

\* The rest of recalculate_spanning_tree: the tree is calculated, all ports
\* go up, with the root_priority of the moment, and their threads start to
\* send.  At the end of port_delete the port is removed.
UpPorts(t) ==
    LET b == task[t].bridge
        decide == task[t].phase = "down"
    IN  /\ task[t] # Idle
        /\ decide => Turn(task[t]) = {}
        /\ root' = IF ~decide THEN root
                   ELSE [root EXCEPT ![b] = IF task[t].init THEN OwnRoot(b) ELSE NewRoot(b)]
        /\ \E job \in {IF decide THEN Decided(task[t]) ELSE task[t]} : \E turn \in {Turn(job)} :
             LET end == \A q \in After(job) : ~Active(port[q])
             IN  /\ port' = [p \in Ports |->
                               IF p \in turn THEN Up(port[p], job.roles[p], root'[b])
                               ELSE IF p = job.gone /\ end THEN Gone ELSE port[p]]
                 /\ wire' = Transmit(wire, linked \cap turn, port')
                 /\ task' = [task EXCEPT ![t] = IF end THEN Idle ELSE [job EXCEPT !.left = After(job)]]
        /\ UNCHANGED <<alive, linked, news, changes>>

\* packet_in_handler with a configuration BPDU, and rcv_config_bpdu.  A switch
\* reports a port before what arrives there.
Receive(p) ==
    LET m == Head(wire[p])
        info == CompareBpdu(port[p].held, m)
        held == IF info = "superior" THEN m ELSE port[p].held
        heard == [port EXCEPT ![p].held = held,
                     ![p].wait = IF info # "inferior" /\ @ # Off THEN WaitTime(held) ELSE @]
    IN  /\ NotBusy /\ task[0] = Idle
        /\ wire[p] # << >> /\ news[p] = "none"
        /\ wire' = [wire EXCEPT ![p] = Tail(@)]
        /\ IF ~Active(port[p]) \/ m.age > MaxAge THEN UNCHANGED <<port, task>>
           ELSE /\ port' = heard
                /\ task' = IF info # "superior" THEN task
                           ELSE [task EXCEPT ![0] = Recalculate(Owner[p], FALSE, 0)]
        /\ UNCHANGED <<alive, root, linked, news, changes>>

\* Mutant: what the ports know is not forgotten.
WaitTimeout_bug(p) ==
    /\ NotBusy
    /\ port[p].wait = 0 /\ task[p] = Idle
    /\ port' = [port EXCEPT ![p].wait = Off]
    /\ task' = [task EXCEPT ![p] = Recalculate(Owner[p], FALSE, 0)]
    /\ UNCHANGED <<alive, root, linked, news, wire, changes>>

\* _wait_bpdu_timer: the thread ends and spawns a recalculation.
WaitTimeout(p) ==
    /\ NotBusy
    /\ port[p].wait = 0 /\ task[p] = Idle
    /\ port' = [port EXCEPT ![p].wait = Off]
    /\ task' = [task EXCEPT ![p] = Recalculate(Owner[p], TRUE, 0)]
    /\ UNCHANGED <<alive, root, linked, news, wire, changes>>

\* Mutant: every port ends up forwarding.
NextState_bug(r) == IF r.state = "listen" THEN "learn" ELSE "forward"

\* _get_next_state
NextState(r) ==
    IF r.state = "listen" THEN "learn"
    ELSE IF r.role = "nondesignated" THEN "block" ELSE "forward"

\* _state_machine when a hello time passed: the next state after the forward delay
Passed(r) ==
    IF r.timer # 1 THEN [r EXCEPT !.timer = Less(@), !.wait = Less(@)]
    ELSE LET s == NextState(r)
         IN  [r EXCEPT !.state = s, !.timer = IF s = "learn" THEN FwdDelay ELSE Off,
                       !.wait = Less(@)]

-----------------------------------------------------------------------------
(* The other events of the application.                                    *)

Status(p, n) == NotBusy /\ task[0] = Idle /\ news[p] = n /\ news' = [news EXCEPT ![p] = "none"]

\* link_down of a root port recalculates the tree, and of any port port_delete
\* removes it.
LinkDown(p) ==
    LET isRoot == port[p].role = "root"
        gone == news[p] = "delete"
        off == [port EXCEPT ![p] = Down(@, "disable", TRUE)]
    IN  /\ Status(p, "down") \/ Status(p, "delete")
        /\ port' = IF gone /\ ~isRoot THEN [port EXCEPT ![p] = Gone] ELSE off
        /\ task' = IF ~isRoot THEN task
                   ELSE [task EXCEPT ![0] = Recalculate(Owner[p], TRUE, IF gone THEN p ELSE 0)]
        /\ UNCHANGED <<alive, root, linked, wire, changes>>

\* link_up, and port_add
LinkUp(p) ==
    LET on == [port EXCEPT ![p] = IF news[p] = "add" THEN NewPort(p)
                                  ELSE Up(@, "designated", root[Owner[p]])]
    IN  /\ Status(p, "up") \/ Status(p, "add")
        /\ port' = on
        /\ wire' = Transmit(wire, linked \cap {p}, on)
        /\ UNCHANGED <<alive, root, linked, task, changes>>

\* dispacher_change when a switch is gone: _unregister_bridge
Unregister(b) ==
    /\ port' = [p \in Ports |-> IF Owner[p] = b THEN Gone ELSE port[p]]
    /\ alive' = alive \ {b}
    /\ task' = [t \in Threads |-> IF task[t].bridge = b THEN Idle ELSE task[t]]
    /\ UNCHANGED root

\* dispacher_change when a switch is there again: _register_bridge.  All its
\* ports are started, whatever the state of their link.
Register(b) ==
    /\ alive' = alive \cup {b}
    /\ root' = [root EXCEPT ![b] = OwnRoot(b)]
    /\ port' = [p \in Ports |-> IF Owner[p] = b THEN NewPort(p) ELSE port[p]]
    /\ UNCHANGED task

-----------------------------------------------------------------------------
(* The network: links, ports and switches fail and come back.  The change  *)
(* of a link is reported by the switches at its ends.                      *)

Quiet ==
    /\ \A p \in Ports : wire[p] = << >> /\ news[p] = "none" /\ port[p].wait # 0
    /\ \A t \in Threads : task[t] = Idle

Peers(S) == {Peer[p] : p \in S}

\* The links of the ports S fail; what was on them is lost.
Cut(S) ==
    /\ linked' = linked \ (S \cup Peers(S))
    /\ wire' = [p \in Ports |-> IF p \in S \cup Peers(S) THEN << >> ELSE wire[p]]

\* Changes happen when nothing is on its way.
Change(kind) == Quiet /\ kind \in Kinds /\ changes < MaxChanges /\ changes' = changes + 1

LinkFails(p) ==
    /\ Change("link")
    /\ p \in linked
    /\ Cut({p})
    /\ news' = [q \in Ports |-> IF q \in {p, Peer[p]} THEN "down" ELSE news[q]]
    /\ UNCHANGED <<alive, root, port, task>>

PortRemoved(p) ==
    /\ Change("port")
    /\ port[p].state # "gone"
    /\ Cut({p})
    /\ news' = [q \in Ports |-> IF q = p THEN "delete"
                                ELSE IF q = Peer[p] /\ q \in linked THEN "down" ELSE news[q]]
    /\ UNCHANGED <<alive, root, port, task>>

\* A switch that failed reports nothing.
SwitchFails(b) ==
    /\ Change("switch")
    /\ b \in alive
    /\ Cut(PortsOf(b))
    /\ news' = [q \in Ports |-> IF q \in (Peers(PortsOf(b)) \cap linked) \ PortsOf(b) THEN "down"
                                ELSE news[q]]
    /\ Unregister(b)

\* The links of the ports S work again where both ends are there.
Mend(S, n) ==
    LET back == {p \in S : Peer[p] \in S \/ port[Peer[p]].state # "gone"}
    IN  /\ linked' = linked \cup back \cup Peers(back)
        /\ news' = [q \in Ports |-> IF q \in S THEN n
                                    ELSE IF q \in Peers(back) THEN "up" ELSE news[q]]

LinkWorks(p) ==
    /\ Change("link")
    /\ p \notin linked /\ port[p].state # "gone" /\ port[Peer[p]].state # "gone"
    /\ Mend({p}, "up")
    /\ UNCHANGED <<alive, root, port, wire, task>>

PortAdded(p) ==
    /\ Change("port")
    /\ Owner[p] \in alive /\ port[p].state = "gone"
    /\ Mend({p}, "add")
    /\ UNCHANGED <<alive, root, port, wire, task>>

SwitchReturns(b) ==
    /\ Change("switch")
    /\ b \notin alive
    /\ Mend(PortsOf(b), "none")
    /\ Register(b)
    /\ wire' = Transmit(wire, linked' \cap PortsOf(b), port')

-----------------------------------------------------------------------------
\* A hello time passes.
Tick ==
    /\ Quiet
    /\ port' = [p \in Ports |-> Passed(port[p])]
    /\ wire' = Transmit(wire, linked, port)
    /\ UNCHANGED <<alive, root, linked, news, task, changes>>

Step ==
    \/ Tick
    \/ \E t \in Threads : DownPorts(t) \/ UpPorts(t)
    \/ \E p \in Ports : Receive(p) \/ WaitTimeout(p)
                        \/ LinkDown(p) \/ LinkUp(p)

Network ==
    \/ \E p \in Ports : LinkFails(p) \/ PortRemoved(p) \/ LinkWorks(p) \/ PortAdded(p)
    \/ \E b \in Bridges : SwitchFails(b) \/ SwitchReturns(b)

Next == Step \/ Network

\* Time passes and the threads run; what failed need not come back.
Spec == Init /\ [][Next]_vars /\ WF_vars(Step)

-----------------------------------------------------------------------------
(* What is checked.                                                        *)

\* The shapes of the tables.  A port waits for BPDUs only where it does not send them.
TypeOK ==
    /\ alive \subseteq Bridges
    /\ linked \subseteq Ports /\ Peers(linked) = linked
    /\ \A p \in Ports :
         /\ port[p].state \in {"gone", "disable", "block", "listen", "learn", "forward"}
         /\ port[p].role \in {"root", "designated", "nondesignated"}
         /\ port[p].wait \in Off .. MaxAge /\ port[p].timer \in Off .. FwdDelay
         /\ port[p].timer # Off <=> port[p].state \in {"listen", "learn"}
         /\ port[p].role = "designated" => port[p].wait = Off
         /\ port[p].state # "gone" => Owner[p] \in alive

Relays(p) == p \in linked /\ port[p].state = "forward" /\ port[Peer[p]].state = "forward"
Links(S) == {{p, Peer[p]} : p \in S}
Tree == Links({p \in Ports : Relays(p)})
Ends(l) == {Owner[p] : p \in l}
Crosses(l, B) == Ends(l) \cap B # {} /\ ~(Ends(l) \subseteq B)

\* As long as recalculations do not overlap, the links that relay frames never
\* form a loop: of every set of them one ends at a bridge where no other one of
\* the set ends.  (A bridge that an overlap leaves as a false root, see
\* SmallestIsRoot, forwards at all its ports and may close a loop.)
NoLoop ==
    \A S \in SUBSET Tree : S # {} =>
        \E b \in Bridges : Cardinality({p \in UNION S : Owner[p] = b}) = 1

\* As long as recalculations do not overlap, the root port and the root of a
\* bridge that does not recalculate are never stale: they are what
\* _select_root_port and _spanning_tree_algorithm find in what its ports hold
\* now, whatever BPDUs, port statuses and timeouts came since.
RootPortExact ==
    \A b \in alive : (\A t \in Threads : task[t].bridge # b) =>
        /\ root[b] = NewRoot(b)
        /\ \A p \in PortsOf(b) : port[p].role = "root" <=> p = SelectRootPort(b)

\* Bridges that are connected by links are connected by links that relay frames.
Spanning ==
    LET tree == Tree
        links == Links(linked)
    IN  \A B \in SUBSET alive :
            (\E l \in links : Crosses(l, B)) => \E l \in tree : Crosses(l, B)

\* After the last failure the links that relay frames come to span the network,
\* as long as recalculations do not overlap.
Converges == <>[]Spanning

\* Linked bridges agree on a root, which is one of them and not larger than any.
RootAgreed ==
    LET links == Links(linked)
    IN  /\ \A b \in alive : root[b].root <= b
        /\ \A p \in linked : root[Owner[p]].root = root[Owner[Peer[p]]].root
        /\ \A B \in SUBSET alive : (\E l \in links : Crosses(l, B)) \/ \A b \in B : root[b].root \in B

\* "a bridge has smallest bridge ID is chosen as a root" (stplib.py): after the
\* last failure the smallest bridge that is connected is every bridge's root.
\* It is so as long as recalculations do not overlap, and not where they do.
SmallestIsRoot == <>[]RootAgreed
=============================================================================
