# A verification of the Ryu controller core

TLA+ modules for the core of the Ryu OpenFlow controller (`src/ryu`): what
happens between a TCP connection from a switch and the events applications see,
and three of the services built on it: requests to switches (ofctl), the spanning
tree and VRRP.
TLC checks small instances of the modules, TLAPS proves the main invariants for
every size. `PROJECT.json` lists the runs, the source lines behind every
definition, the hazards and the theorems.

## 1. The system

Ryu is one process of cooperating *greenlets* (eventlet). A greenlet runs until
it blocks: on a semaphore, on an empty queue, in `recv`, `sendall`, `sleep` or
`join`. Nothing else preempts it, so the interleavings that matter are those at
blocking calls. Almost every call into another component may block, because
events travel through bounded queues.

| Component | State | Operations | Hard part |
|---|---|---|---|
| OpenFlow connection, `controller/controller.py` | phase, socket, send queue with a bounded semaphore, unanswered echo requests | receive loop, send loop, echo loop, `send_msg`, `close`, tear-down in `serve` | three greenlets and all applications change one object; greenlets are killed while blocked |
| Handshake handlers, `controller/ofp_handler.py` | phase, version, ports of the connection | hello, features, port description, echo, port status | run in the receive greenlet, between two blocking broadcasts |
| Version negotiation, `hello_handler`, `ofproto/ofproto_protocol.py` | none | choice of the version | gaps in the sets of versions |
| Switch registry, `controller/dpset.py` | `dps`, `port_state` | register, unregister, port status | works behind its own queue; a switch reconnects before its old connection is dead |
| Event bus, `base/app_manager.py`, `lib/hub.py` | event queues, `SERVICE_BRICKS`, observers | event loop, `send_event`, `send_request`, `stop`, `close` | full queues, synchronous requests, stopping while others send |
| ofctl service, `app/ofctl` | pending requests by xid and barrier | send, barrier reply, reply, death | replies and death race |
| Topology, `topology/switches.py` | switches, ports, links, hosts | LLDP in and out, two timer loops | stale links, reconnection |
| Spanning tree, `lib/stplib.py` | port roles, states, timers | BPDU handling, port state machine | timers against BPDUs |
| VRRP, `services/protocols/vrrp` | router state, three timers, a cached packet | timers, advertisements, shutdown, configuration changes | events of timers that were cancelled, one-way links |
| BGP, BFD, OVSDB, IGMP, LACP | sessions and tables | protocol state machines | timers, restarts |
| Codecs, REST, samples | - | - | not modelled |

Connections broadcast events (`send_event_to_observers`) to the queues of their
observers, in the order of a dictionary; the broadcaster blocks on the first
full queue. Observers take events one by one in their event loops and may call
`Datapath.send_msg` (which may block) or `Datapath.close` (which broadcasts
again). `AppManager.close` stops applications by putting a stop event on the
same queues.

What makes each part correct:

* connection: no slot of the send queue is lost or invented; phases only move
  forward and are announced in order; the socket is closed last; a dead
  connection is torn down; a silent switch is noticed; blocked senders get on;
* negotiation: the chosen version is the one the switch believes was chosen;
* registry: one live connection per switch, ports equal to those of the switch,
  enter and leave alternate;
* event bus: queues keep their bound; requests are answered, unless handlers request
  something of each other or one fails; a stopped application is quiet; `close()` is
  exclusive and returns;
* ofctl service: a request gets the replies to it and no others; it is answered;
  the service knows the switches that are connected;
* VRRP: no router waits for a timer that does not run; one master, the right one,
  and it stays;
* spanning tree, as long as recalculations of a bridge do not overlap: no loop of
  forwarding ports; the root and the root port of a bridge follow from what its ports
  hold, not from what they held before; after a failure the tree spans the network
  again, with the smallest bridge as root.

## 2. Modules

| Module | Models |
|---|---|
| `Negotiation` | abstract specification: phase and socket of a connection |
| `Datapath` | one connection with its greenlets `R` (receive loop and `serve`), `S` (send loop), `E` (echo loop), other applications, and observers with bounded queues |
| `HelloNegotiation` | `hello_handler`'s version choice and its reference |
| `DPSet` | several connections of a switch, `OFPHandler` and `DPSet`; uses `HelloNegotiation` |
| `EventBus` | applications, event loops, requests, `AppManager.close` |
| `Ofctl` | the ofctl service with its clients, connections and their switches |
| `Vrrp` | the VRRP routers of a virtual router, both versions, and the network between them |
| `Stp` | the bridges of the spanning tree library with the threads of their ports, and a network that fails |
| `DatapathProofs`, `EventBusProofs`, `DPSetProofs`, `OfctlProofs`, `VrrpProofs`, `StpProofs` | theorems about the module of that name; `DPSetProofs` has those about `HelloNegotiation` too |
| `PortSyncProofs` | the theorem about the port tables of `DPSet`; extends `DPSetProofs` |
| `ProofLemmas` | facts about queues and finite sets that these proofs share |
| `MCDatapath`, `MCDPSet`, `MCEventBus`, `MCOfctl`, `MCVrrp`, `MCStp` | instances for TLC |

Definitions whose names end in `_bug` are mutants: they are not used by any
specification, and show that a property can fail when the definition they stand
next to is changed the way a programming mistake would change it.

### Datapath

A step is the code between two points where the greenlet may block, or part of
it. `pc[g]` is the place of greenlet `g`, `waiters[q]` the FIFO of greenlets
blocked on semaphore `q`, `todo[g]` and `ev[g]` what is left of a broadcast `g` is
blocked in. `sem` and `qlen` are `_send_q_sem` and `send_q`; `qref` is false once the
send loop cleared `self.send_q`. `Deliver` is `send_event_to_observers`: it serves
observers in order and queues the broadcaster at the first full one;
`BroadcastResume` goes on from there. The shutdown in the `finally` clause of
`_deactivate` is a separate step (`EndClose`, `LeaveLoop`) as the broadcast before it
may block. An observer's handler may send to the switch (`Talkers`) and may close the
connection (`Closing`), as DPSet does with an old connection: then it broadcasts in
its own event loop, to its own queue too. `KillSend` and `KillEcho` are the two `hub.kill` calls: a greenlet that
is blocked gets `GreenletExit` there and runs its `finally` clause, one that has
never run is discarded without it. The switch is external: it sends messages in
any order as far as requests allow, goes silent (`Crash`) or closes
(`Disconnect`). Semaphores are modelled as FIFO without barging, which is what
eventlet's are.

Abstracted: bytes and framing, xids (a reply either matches a request or not),
the contents of messages beyond their kind, TLS. Port numbers are in `DPSet`.

### HelloNegotiation and DPSet

`Negotiate` has the two branches of `hello_handler` (with and without elements) and
its failures. `DPSet` has one receive greenlet per connection, with the messages of
the switch in `wire`. Broadcast and handler of a port status are two steps (the
broadcast may block). `_register` and `_unregister` are each two steps, split at
the call that may block (`close()` of the old datapath, the leave event). DPSet's own
`switch_features_handler` assigns the dictionary that `OFPHandler` assigned already
and has no effect. Queues are unbounded here. `said`, `announced`, `owner` and `missed` are
history variables; `owner` names the connection that all of a switch's `port_state`
comes from, and has no entry for a switch once a port status of another of its
connections was applied (`port_status_handler` goes by the id of the switch).

### EventBus

`At(a, "get")` is the event loop in `events.get()`; the loop condition is evaluated
when a handler has returned (`LoopTop`). A handler may announce to the observers of
its application, or make synchronous requests of others (`Servers`, in both directions
in the instance), then ends or raises. `close()` is `CloseLock`, then per application `Uninstantiate`, `StopApp`, `JoinApp`. `lost` is a
history variable: requesters nobody will answer.

### Ofctl

`switches` is `_switches`, `pending` the tables `xids`, `barriers` and `results` of a
`_SwitchInfo` (one per connection), `observing` is `_observing_events` and `observers` what
the OpenFlow event application knows of the service: class -> phases, `{}` for all.
Each handler of the service is one action, as its event loop runs one at a time;
`evq` is its queue. Who gets an event is decided when it is sent (`Arrive`), what is
done with it when it is handled. A client calls `send_msg` with any datapath object
it may have kept, that of an old connection too; xids and the sending go by the
message's own connection, the tables by the latest one with the same id. The
switch is external: it handles messages in order, replies any number of times up to
a bound, may fail a request, and answers a barrier behind everything else. `replied`
(what the switch said) is a history variable.

### Vrrp

A router is a queue of events, a state object and three timers. A timer's
greenlet posts an event when it expires (`Timeout`); `cancel` and `start` change the timer
and leave the queue alone, so late events of cancelled timers are handled, by
whatever state the router is in then. `_thread` is not reset when a timer fires (value
`Done`), which is what `is_running` sees. `start` replaces the timer. In the code it cancels
only `if self._thread`, and a greenlet that has not run yet counts as false: two starts
in handlers that follow each other without a yield leave two timers. The surplus one
ends with the next `cancel`, as they share one event, or expires like the one beside it.
For the advertisement timer that means one more advertisement; the delay timer is only
started when `is_running` is false; of two master-down timers the earlier one counts,
which the next advertisement of the master cancels with the other, or which expires
within `LongestDown`. The model has no such timers: that they change nothing for the
properties is this argument, not a check. `orphans` are master-down timers of routers that
were shut down as masters: they go on and post by name. Packets travel on directed
links that can be cut. Time is in ticks: it passes when all queues and links are
empty, that is, handlers are fast in comparison with the skew time; within a tick
any order is possible. The skew, in the code (256 - priority) / 256 seconds
in version 2 and that part of the master's interval in version 3, is a table over
priorities and intervals.

### Stp

`port[p]` is a `Port` object: role, state, what it holds of the last superior BPDU
(`held`), what it advertises (`prio`), and the time left to its state machine and to its
wait for BPDUs. `task` holds the recalculations in progress: at most one of the event
loop, and one for every port whose wait timed out (they are spawned greenlets).
A recalculation takes the ports down (`DownPorts`), finds the roles and takes them up
(`UpPorts`), each in the order of its loop: the port table, or root port, designated
ports and others where roles were found. With `Overlap` TRUE a step is one port, as the
code yields after each (`hub.sleep(0)`), and other threads run in between, a second
recalculation of the bridge included; each `up` uses the `root_priority` of the moment.
With `Overlap` FALSE nothing else runs until the recalculation ends. Not split are the
yields inside one port's `down` or `up` (threads that are killed and joined, a send that
blocks); not modelled are the exceptions that overlapping recalculations can raise
there (`PortThread.stop` on a thread that another stopped already, a dictionary of ports
that changes under the loop). `news`
are port status messages on their way, `wire` the BPDUs. Times are in hello times;
state machines advance and designated ports send at every tick. `compare_bpdu_info`
compares an id that includes the priority with one that does not, so that what
decides between equal vectors is whether the message age differs; `CompareBpdu` does
the same. The network is external: links, ports and switches fail and come back
when nothing is on its way; a switch that fails reports nothing any more. A link may
join two ports of one bridge.

## 3. Runs

| Run | Instance | Shows |
|---|---|---|
| `datapath` | 1.3 handshake, one application, two observers of which one sends and the other closes, all queues of one slot, one unanswered echo request allowed | `TypeOK`, `SlotsConserved`, `PhaseEventsInOrder`, `SocketClosedLast`, `ImplementsNegotiation` (2.9 million states) |
| `datapath_live` | 1.0 handshake, one observer that sends to the switch and closes the connection | `DeadIsTornDown`, `SendersReleased`, `SilentSwitchDetected` |
| `datapath_death` | two observers | a violation: an observer is never told of a death |
| `datapath_mixed` | observers of different phases | a violation: dead is told before main |
| `dpset` | two connections of one switch, two ports, two port changes | `TypeOK`, `VersionAgreed`, `RegistryExact`, `PortsInSync`, `AnnouncementsAlternate`; before it, `NegotiationSound` for all hellos over five versions (3.3 million states) |
| `event_bus` | two applications that request of each other, an outside sender, two closers, two slots | `TypeOK`, `SlotsConserved`, `StoppedIsQuiet`, `CloseIsExclusive`, `RequestAnswered`, `SendersReleased`, `CloseCompletes` (65,000 states) |
| `ofctl` | two connections of one switch, two clients, one reply class | `TypeOK`, `AnswersExact`, `ObservingExact`, `RegistryExact`, `AnsweredOrDead` (570,000 states) |
| `ofctl_death` | one request | a violation: a pending request is never answered when its switch dies |
| `ofctl_features` | a request that expects a features reply | a violation: the registry misses later switches |
| `vrrp` | two routers of different priority, versions 2 and 3, delayed and no preemption | `TypeOK`, `NeverDeaf`, `ElectionSettles`, `NoFlapping`, `Converges` (458,000 states) |
| `stp` | a ring of three bridges with unequal links; failures and repairs of links, ports and switches; recalculations do not overlap | `TypeOK`, `NoLoop`, `RootPortExact`, `Converges`, `SmallestIsRoot` (92,000 states) |
| `stp_race` | the same ring, one link failure, overlapping recalculations | a violation: a bridge stays a false root |

Bounds. Queues of one slot make every send a potential block, so all waiting
patterns of larger queues occur with few events; two observers are the smallest
number for which a broadcast can be interrupted between two of them. Two
overlapping connections give every reconnection race, two port changes let one
be missed or replayed while another is queued. In `event_bus` the queues have two
slots so that a sender and a stop event can both find room after the event loop
has left (see below). In `ofctl` two requests and two replies let replies of two requests
of a class, an error and a reconnection mix. In `vrrp` an interval is three ticks and
the skews one and two, so that the order of time-outs is that of the priorities as
in the code; `MaxFaults` counts link changes, shutdowns, restarts and configuration
changes. `SettleTime`, after which an election is over, is a master-down interval and, for
every router but one, a delay of preemption and an interval. One delay and one interval
in all are too few: the proof of `ElectionSettles` failed with them, and TLC then found
routers that change state later than that, two of the same skew without delays, and more
than two in version 3, where a delayed preemption that no longer applies is not cancelled
and starts others. In `stp` three bridges in a ring are the smallest network with a loop and a
blocked port; two changes let a failure hit the network while it still recovers from
another, or be repaired half way (the invariants were also checked with three).
`MaxAge` 4 and `FwdDelay` 3 keep the order of the defaults 2, 15, 20 and 30 seconds: hello <
forward delay < maximum age < twice the forward delay. `MaxChanges`, `MaxFaults`,
`MaxRequests` and `MaxReplies` are the only bounds that are not in the code.
Deadlock checking is off: a torn-down connection, exhausted connections and a
closed manager are proper ends.

### The disagreements

*Death is not always announced* (`datapath_death`). `ofp_event.py:112` says the state
change event is sent to observers after a phase change. If the send loop or echo
loop is blocked in `close()`'s broadcast on a full queue, the receive loop ends,
`serve()` kills it, and the rest of the broadcast is lost; every later `close()` finds
the phase dead and announces nothing.

*Dead before main* (`datapath_mixed`). `ryu_app_api.rst:23` says the queue preserves the
order of events. The receive loop is blocked on one observer while it announces
the main phase; a `close()` elsewhere announces the dead phase to a second observer
first. If whoever observes a phase observes the dead phase too this cannot happen
(run `datapath`, theorem `OrderCorrect`), because the second broadcast queues up behind
the first.

*A request without an answer* (`ofctl_death`). `api.py` says that `send_msg` waits for
replies and raises an exception on error, and `exception.py:43` that `InvalidDatapath` "can
happen when the bridge disconnects". It does for a request made after the death.
One that is pending is forgotten with the `_SwitchInfo` and its sender waits for ever.

*A service that stops seeing switches* (`ofctl_features`). A `send_msg` with
`reply_cls=OFPSwitchFeatures` is legal; when it ends, `unobserve_event` removes the
service from the observers of features replies, its own registration included, and
no switch that connects later is ever found by `get_datapath`.

*A false root* (`stp_race`). The library says that the bridge with the smallest id is
the root. A wait for BPDUs times out and its recalculation takes the ports down,
forgetting what they hold; while it yields the event loop handles a superior BPDU,
stores it and recalculates; then the first recalculation finishes with itself as
root. The port still holds the superior BPDU, so the next one is a repetition and
nothing recalculates again.

### Exceptions stated in properties

* `SendLoopNeverRan`: a send loop killed before it ran never clears `send_q`, so
  later senders fill the queue and block for good.
* `PortsInSync` excludes a `port_state` inherited from an earlier connection (kept on
  purpose, see the comment in `_register`), one to which a port status of another
  connection was applied, and a port status that came between two parts of a port
  description. The second takes three connections of one switch, two of them still
  open: DPSet copies the ports of the third and then handles a status event that an
  older one had queued. The proof of `PortsInSync` failed there; run `dpset` has two
  connections, in which it cannot happen.
* `SelfBlocked`: an observer that closes the connection in its own event loop waits for
  a slot of its own full queue, and the receive loop behind it is never done.
* `Gap`: `hello_handler` fails a hello without elements whose version lies in a gap of the
  supported ones (`ofp_handler.py:165-175`), while the comment above (141-149) says "So
  log it and use max(usable_versions) with the hope that the switch is able to
  understand lower version." The comment quotes the OpenFlow text that asks for the
  failure, and the code follows that text; `NegotiationSound` states the case by itself.
* `Doomed`: a request to an unregistered or exited application, or whose handler raised, is
  never answered (`Stranded`). A greenlet that waits for a slot of a queue whose event loop
  has left is not served when senders before it filled the queue (`ShutOut`): with more
  senders than slots `stop()` can be the one. And handlers of two applications that
  request something of each other wait for ever: the queue for replies, "dedicated to
  the transaction to avoid deadlock" (`doc/source/ryu_app_api.rst:34-36`), keeps a reply
  from waiting behind other events, but the request itself needs the event loop that is
  blocked. The three liveness properties of `EventBus` excuse a greenlet of these kinds,
  and one that waits for it directly or through others, and nobody else.
* `AnsweredOrDead` speaks of connections that live; the others are `ofctl_death`.
* Two connections of one switch whose random xids meet would fail the assertions of
  `_store_xid`; run `ofctl` keeps the ranges apart.
* In `Stp` a port status is handled before the BPDUs that arrive at the port. Otherwise
  a BPDU can be stored by a port whose `link_up` follows: it keeps what it holds, becomes
  designated and takes every later BPDU for a repetition.
* `NoLoop` is checked on networks without a cable between two ports of one bridge. If
  the bridge is the root, all its ports are designated (`_spanning_tree_algorithm`),
  both ends forward, and TLC finds `NoLoop` violated.
* `NoLoop`, `RootPortExact`, `Converges` and `SmallestIsRoot` are stated for recalculations that
  do not overlap. Where they do, a bridge can take itself for the root for good, which
  is `stp_race`, or be left with a foreign root and no root port. All ports of a false
  root are designated and forward, so that it can close a loop that stays: TLC found one
  in the ring of three with a fourth bridge between 3 and 1 whose link to 1 fails, when
  the time-out at the port towards 4 overlaps the BPDUs of root 1 on the other ports of 3.
* `Ofctl`: clients ask for features replies only of connections that are past the
  handshake. The event of the handshake's features reply goes to the service's own
  handler; where the class is observed as well, `_handle_reply` runs after it, finds the
  new and empty `_SwitchInfo` and returns.

## 4. Fairness

Weak fairness for the steps of greenlets: eventlet's hub runs every greenlet that
is ready; `recv` and `sendall` have a timeout (`CONF.socket_timeout`), `sleep` ends, a
released semaphore wakes its oldest waiter. The handlers of an observer have strong
fairness in `Datapath`: its event loop is not always ready, as it may be blocked in a
broadcast or a send, but its queue is FIFO and every event in it is reached. In `EventBus` handlers are assumed to
return. No fairness for what the switch sends, when applications send or close,
whether a handler raises or what it sends.

`Ofctl`: the event loop of the service handles what is queued, and a switch that stays
connected handles what it was sent (OpenFlow obliges it to answer a barrier). `Vrrp`
and `Stp`: weak fairness of `Step`, that is, time passes, and queues, timers and packets are
served before it does. Nothing obliges faults to happen, to end or to be repaired:
the liveness properties speak of the time after the last of a bounded number.

## 5. Proofs

`DatapathProofs` proves for every finite or infinite set of applications, every
list of observers and every queue size:

* `TypeCorrect`: `Spec => []TypeOK`. Needs `SlotInv`: the semaphore is a number, the
  queue length is a number, and their sum is the size. `TypeOK` alone is inductive
  only together with this, because `sem + qlen` must not exceed the bound when the
  send loop's `finally` clause adds them.
* `SlotsCorrect`: `Spec => []SlotsConserved`, from the same invariant.
* `SocketCorrect`: `Spec => []SocketClosedLast`, from `Life`: how far the receive
  greenlet has got determines what the other greenlets, `active` and the socket can
  be (`Begin`: before `serve`, `Shutting`: the socket is shut once the receive loop
  has been left, `Ending`: after `join` both loops are dead and stay dead).
* `NegotiationCorrect`: `Spec => ImplementsNegotiation`, by step simulation under
  `Life`: each action is a step of `Negotiation` or leaves phase and socket alone.
* `OrderCorrect`: `Spec => []PhaseEventsInOrder`, if every observer of a phase observes the
  dead phase too (`DeadObserved`; run `datapath_mixed` shows that this is needed). From
  `OrderInv`: a broadcast that is not finished waits at the first observer it has not
  served (`Queueing`); at most two phase broadcasts are unfinished, one of the receive loop
  and one of the death (`Announcing`); what an observer was told comes before what it
  is still to be told (`ToldInv`); and the death has all the observers before it that
  the receive loop still has, and waits behind it where both wait at one queue
  (`DeadLast`), so that it cannot overtake. `Spawning` says when the two loops can run.

`EventBusProofs` proves for every set of applications, observers, outside senders and
closers, and every queue size:

* `TypeCorrect` and `SlotsCorrect`, from `SlotInv`: the types, `SlotsConserved` and the fact
  that a closer in `stop()` has an application to stop (`VictimInv`). The bound of `sem`
  needs `SlotsConserved` and the other way round.
* `ExclusiveCorrect`: `Spec => []CloseIsExclusive`, and `QuietCorrect`: `Spec =>
  []StoppedIsQuiet`, from `CloseInv`: the closer that stops applications holds the
  lock, its list names only applications that are still there, and an application
  that is gone has left its loop or is the one being stopped. The list condition
  is inductive only with the lock: another closer would remove what it names.

`DPSetProofs` proves for every set of connections, switches, ports and versions:

* `NegotiationCorrect`: `NegotiationSound`, for every hello, those in a gap included. That a finite set has a
  greatest element is proved by a least counterexample (`MaxExists` in `ProofLemmas`),
  as induction over sets is out of reach.
* `DPSetTypes`: `Spec => []TypeOK`, from `Types`, which types messages, events and the
  rest of the handler DPSet is in (`job`) as well, and `JobInv`: a registration or
  removal that waits is one of a switch in `dps`.
* `DPSetVersions`: `Spec => []VersionAgreed`, from `NegotiationCorrect`.
* `DPSetRegistry`: `Spec => []RegistryExact`. `RegistryExact` speaks of an empty queue;
  `RegInv` says what is on its way when it is not: a connection announces main once
  (`MainOnce`), its dead event comes behind its main event (`Waiting`), a connection in
  the main phase is registered or its main event is queued (`MainKnown`), and one that
  is registered and dead has its dead event queued (`DeadKnown`). `MainOnce` needs
  `WireInv`: after the last part of a port description the switch sends port
  statuses only.
* `DPSetAnnouncements`: `Spec => []AnnouncementsAlternate`, from `AnnounceInv`: a switch is
  in by its announcements exactly while it is in `dps` and its leave event is not due.

`PortSyncProofs` proves `DPSetPorts`: `Spec => []PortsInSync`. There are three copies of
a switch's ports (switch, `Datapath.ports`, `port_state`), with a queue of status messages
between each two. The invariants say that replaying a queue on the copy behind it
gives the copy ahead: `SyncInv` for the wire, phase by phase of the port description,
`ReplayInv` for DPSet's queue. A replay is stated port by port, by the last message
about the port (`Replays`), so it needs no recursion, and it shows why replaying events
that a late copy has seen already does no harm. `StatusLate` (no status event before
the main event of its connection) and `OwnerInv` tie the queue to the registry.

`OfctlProofs` proves for every set of connections, clients, classes and requests:

* `OfctlTypes`, `OfctlObserving` (`Spec => []ObservingExact`) and `OfctlXidsFree`, an action
  property: the assertions of `_store_xid` hold whenever a request is taken. They follow
  from `CoreInv`: a client waits for one request, queued, pending or forgotten
  (`ClientInv`), the xids in the tables were taken from their connection and are used
  once (`XidInv`), and the counts are the cardinalities (`CountInv`).
* `OfctlRegistry`: `Spec => []RegistryExact`, from `RegInv`, as in DPSet.
* `OfctlAnswers`: `Spec => []AnswersExact`. `FlowInv` follows a request through the
  switch's input, the event queue and the tables: its reply messages are those in the
  results and, behind them, those on their way, in the order in which the switch sent
  them (`Placed`, with a function from replies to positions in the queue), and the
  barrier reply comes after the last of them.

The last two assume `NoFeatures` (no request expects features replies), for run
`ofctl_features` shows that it is needed: the service switches its own handler off.

`VrrpProofs` proves for every set of routers, priorities, modes, intervals and skews:
`VrrpTypes` and `VrrpNeverDeaf` (`Spec => []NeverDeaf`), from `AlertInv`: in each state the timer
that a router depends on runs or its event is in the queue, and a master has no
delayed preemption scheduled, which is why the late event of one does no harm. It also
proves `VrrpElection` (`Spec => []ElectionSettles`) and `VrrpNoFlapping` (`Spec => NoFlapping`), if
no router's interval is three times that of another (`SimilarIntervals`). In version 2 this
is needed: the code ignores the interval in a packet, a backup with an interval of 2
ticks takes over between two advertisements of a master with 9, again and again (TLC
finds it). In version 3, which learns the interval of the master, TLC finds no violation
for two such routers; the proof does not tell the versions apart.

Two invariants carry them. `Sane` holds always, during faults too: timers are within
their ranges, only backups that preempt delay a preemption, a cached packet has the
priority of the router. `ElectionInv` holds from the first tick after the last fault if every
link works and says, by the ticks since that fault (`calm`), what can still happen:

* what a router hears, or is about to hear, comes from a router that is master now, or
  there is a better master (`HeardPart`);
* the next advertisement of the master reaches a backup before its master-down timer
  expires (`ReachPart`); this is where `SimilarIntervals` is used;
* a master-down or delay event below a better master is one from before, and is handled
  before the router's `Limit`, which is the later the more routers have a lower
  priority (`DownPart`, `DelayPart`): only a worse router that takes over by mistake
  starts a delay;
* of two masters the lower one has heard the other an interval after its `Limit`
  (`RivalPart`); timers of earlier instances are over after `LongestDown` (`OrphanPart`); a
  backup nobody leads takes over by `Elected` (`LeadPart`).

At `SettleTime` every limit is over, which leaves one master, the right one, and no event
that changes a state. The handlers are first reduced to what each does to this (take
over, give way, follow, wait, release, stay, advertise), so that every part is shown
once per effect and not once per branch of two protocol versions.

`StpProofs` proves for every network, all costs and times: `StpTypes`, whether or not
recalculations overlap, and `StpRootPort` (`Spec => []RootPortExact`) where they do not
(`~Overlap`); with overlap TLC finds it violated. The invariant `Inv` adds to the types: links work at both ends or at none (`BothEnds`), BPDUs
travel on working links and name the port that sent them (`WireOK`), so that no two ports
of a bridge hold the same vector and `_select_root_port`, which keeps the first of two
equal ones, has one result (`LeastExists` gives that it has any); which thread
recalculates what (`TaskInv`, and `AloneInv`: without overlap one at a time); `LinkInv`: a port whose link is about to be
reported up holds nothing, which is what makes `link_up`, the one change that does
not recalculate, correct; and `RootInv`, which is `RootPortExact` bridge by bridge.

The assumptions are those on the constants: `ConstantsAssumption`, `BusAssumption` (the
kinds of greenlets are distinct, queues have at least one slot), `VersionsAssumption`,
`DPSetAssumption`, `OfctlAssumption` (the xids of two connections differ), `VrrpAssumption`
and `StpAssumption` (ports are joined in pairs; ids are positive). Six theorems have a
hypothesis of their own, named in their statements: `DeadObserved`, `NoFeatures` (two),
`SimilarIntervals` (two) and `~Overlap`. Each is satisfied by the instance of the passing run.

Only model-checked:

* liveness: `DeadIsTornDown`, both `SendersReleased`, `SilentSwitchDetected`, `RequestAnswered`,
  `CloseCompletes`, `AnsweredOrDead`, both `Converges`, `SmallestIsRoot`. The prover has no
  reasoning about fairness and `ENABLED`;
* `NoLoop` of `Stp`, the one invariant without a theorem. It is not true of all times,
  also where recalculations do not overlap. With a
  root behind a ring of three bridges and its link lost, bridges of the ring take their
  old information about that root back from each other, and their root ports point
  around the ring until the ages end. TLC finds a loop for a maximum age of 8 and a forward delay
  of 3, and none for 8 and 5 or for 10 and 8, which are nearest to the defaults: the two
  forward delays must outlast the ages. An invariant would have to bound the timers of
  every port by the ages held along every path to it, and paths need an induction over
  data.

## 6. Not modelled

`OpenFlowController` (listening, accepting, spawning of clients), loading of
applications and contexts, message codecs and packet libraries, REST and WSGI,
the sample and third-party applications, and the services that section 7 plans.

`Vrrp`: a change of the advertisement interval, the monitors of interfaces,
statistics and RPC. `Timer.cancel` joins the greenlet of the timer, which may be
blocked on the router's own full queue; queues are unbounded in the model. `Stp`:
topology change flags, notifications and events, which do not influence the tree;
configured priorities and times (`values` in the constructors of `Bridge` and `Port` is the
shared default dictionary: the configuration of one bridge stays for the next, and
that of a port is not applied at all); the late death of an old connection, which
removes the bridge of the new one as it goes by the id; a state machine whose
time-out meets a change of state by another thread.

Of the 230,000 lines of the repository most are codecs and tables of message
classes for five OpenFlow versions and dozens of packet formats, a second copy of
Ryu below `app/hedera-ryu`, REST front ends and samples. They keep no state between
calls, or are third-party, and hold nothing for a model checker to find.

## 7. Plan

1. `Datapath`, `Negotiation`, with proofs of all invariants and of the refinement (done).
2. `HelloNegotiation`, `DPSet`, with proofs of all invariants (done).
3. `EventBus`, `EventBusProofs` (done).
4. `Ofctl` and `Vrrp` with proofs of all invariants, `Stp` with proofs of all but `NoLoop` (done).
5. `Switches`: topology tables, LLDP loop and link time-out; properties: no link to a
   port that is gone, a late death does not remove a new connection (by reading,
   the code does not have the second: `_unregister` goes by the id).
6. A composition of `DPSet` with bounded queues: dead before main at DPSet. (The
   self-deadlock of a `close()` in `_register` is in `Datapath`, see `SelfBlocked`.)
7. BFD sessions and BGP best path selection, if time allows.
