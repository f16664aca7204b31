-------------------------------- MODULE Vrrp --------------------------------
(***************************************************************************)
(* The VRRP routers of one virtual router id on one network:               *)
(* ryu/services/protocols/vrrp/router.py, both protocol versions, with the *)
(* part of manager.py that shuts a router down and starts its successor.   *)
(*                                                                         *)
(* A router is an application; its timers are greenlets that post an event *)
(* to its queue when they expire, its state objects handle the events.     *)
(* Time is counted in ticks and handlers take none: it goes on when every  *)
(* queue is empty.  Within a tick events come in any order, so an event    *)
(* whose timer was cancelled after it was posted is still handled.         *)
(* A router is named by the number that orders primary_ip_address.         *)
(*                                                                         *)
(* Timer.start replaces the timer that runs.  In the code it does so only  *)
(* "if self._thread", and a greenlet that was spawned and has not run yet  *)
(* counts as false: two starts without a yield between them leave both     *)
(* timers running until the next cancel, which ends all that share the     *)
(* event, or until they expire.  Such a timer is set by the same handlers  *)
(* in the same instant, so it expires within LongestDown.                  *)
(***************************************************************************)
EXTENDS Integers, Sequences, FiniteSets

CONSTANTS
    Routers,       \* the routers, a set of numbers
    Versions,      \* protocol versions; all routers use the same
    StartPriority, \* router -> config.priority at its start
    Owner,         \* the priority of the address owner (255)
    Priorities,    \* the priorities a configuration change may set
    StartMode,     \* router -> [preempt: preempt_mode, delay: preempt_delay]
    Modes,         \* the modes a configuration change may set
    AdminMaster,   \* routers with admin_state 'master'
    Interval,      \* router -> config.advertisement_interval, in ticks
    Skew,          \* priority, interval -> skew_time in ticks
    MaxFaults      \* bound on link changes, shutdowns, restarts and requests

AllPriorities == Priorities \cup {StartPriority[r] : r \in Routers}
AllModes == Modes \cup {StartMode[r] : r \in Routers}
Intervals == {Interval[r] : r \in Routers}

\* Priorities have 8 bits; there is a longest preempt_delay.
ASSUME VrrpAssumption ==
    /\ Routers \subseteq Nat /\ IsFiniteSet(Routers) /\ Routers # {}
    /\ Versions \subseteq {2, 3}
    /\ StartPriority \in [Routers -> Nat \ {0}]
    /\ Priorities \subseteq Nat \ {0} /\ IsFiniteSet(Priorities)
    /\ StartMode \in [Routers -> [preempt : BOOLEAN, delay : Nat]]
    /\ Modes \subseteq [preempt : BOOLEAN, delay : Nat] /\ IsFiniteSet(Modes)
    /\ Interval \in [Routers -> Nat \ {0}]
    /\ Skew \in [AllPriorities \X Intervals -> Nat]
    /\ AdminMaster \subseteq Routers
    /\ MaxFaults \in Nat

VARIABLES
    version,  \* the version of a behaviour, chosen at its start
    state,    \* VRRPRouter.state
    prio,     \* config.priority
    mode,     \* config.preempt_mode, config.preempt_delay
    madver,   \* params.master_adver_interval
    cached,   \* priority in the cached packet self.vrrp, 0 for None
    timer,    \* the timers: ticks left, Off without a thread, Done when it fired
    orphans,  \* ticks left of the master-down timers of earlier instances
    queue,    \* the router's event queue
    net,      \* <<from, to>> -> advertisements on their way
    cut,      \* links that lose everything
    faults,   \* what the bound counts
    calm      \* ticks since the last fault, up to SettleTime (history)

vars == <<version, state, prio, mode, madver, cached, timer, orphans, queue, net, cut, faults, calm>>

Off == -1
Done == -2
NoTimers == [down |-> Off, adver |-> Off, delay |-> Off]
TimerEvents == DOMAIN NoTimers

Max(S) == CHOOSE x \in S : \A y \in S : x >= y

\* VRRPParams.skew_time and master_down_interval
SkewTime(p, int) == Skew[<<p, int>>]
MasterDown(p, int) == 3 * int + SkewTime(p, int)

LongestDown == Max({MasterDown(x[1], x[2]) : x \in AllPriorities \X Intervals})
LongestInterval == Max(Intervals)
LongestDelay == Max({m.delay : m \in AllModes})

\* How long an election takes after the last fault, at most.  A master-down
\* interval; then, for every other router, a delayed preemption and the
\* advertisement that ends it: version 3 does not cancel the delay when a
\* better master is heard, and a router that takes over by mistake starts the
\* delay of those above it.
SettleTime == LongestDown + (Cardinality(Routers) - 1) * (LongestDelay + LongestInterval) + 1

\* VRRPRouterV2.start and VRRPRouterV3.start
StartsMaster(r) == StartPriority[r] = Owner \/ (version = 3 /\ r \in AdminMaster)
StartTimers(r) ==
    IF StartsMaster(r) THEN [NoTimers EXCEPT !.adver = Interval[r]]
    ELSE [NoTimers EXCEPT !.down = MasterDown(StartPriority[r], Interval[r])]

Advertisement(r, p) == [ev |-> "received", prio |-> p, src |-> r, interval |-> Interval[r]]

\* send_advertisement: the network carries the packet to all other routers.
Sent(n, r, msgs) == [l \in DOMAIN n |-> IF l[1] = r THEN n[l] \o msgs ELSE n[l]]

Links == {l \in Routers \X Routers : l[1] # l[2]}

Init ==
    /\ version \in Versions
    /\ state = [r \in Routers |-> IF StartsMaster(r) THEN "master" ELSE "backup"]
    /\ prio = StartPriority
    /\ mode = StartMode
    /\ madver = Interval
    /\ cached = [r \in Routers |-> IF StartsMaster(r) THEN StartPriority[r] ELSE 0]
    /\ timer = [r \in Routers |-> StartTimers(r)]
    /\ orphans = [r \in Routers |-> {}]
    /\ queue = [r \in Routers |-> << >>]
    /\ net = [l \in Links |-> IF StartsMaster(l[1])
                              THEN <<Advertisement(l[1], StartPriority[l[1]])>> ELSE << >>]
    /\ cut = {}
    /\ faults = 0
    /\ calm = 0

-----------------------------------------------------------------------------
(* Time, timers and the network.                                           *)

Post(r, e) == queue' = [queue EXCEPT ![r] = Append(@, e)]

Expired(r) == 0 \in orphans[r] \/ \E k \in TimerEvents : timer[r][k] = 0

Quiet ==
    /\ \A r \in Routers : queue[r] = << >> /\ ~Expired(r)
    /\ \A l \in Links : net[l] = << >>

Tick ==
    /\ Quiet
    /\ timer' = [r \in Routers |-> [k \in TimerEvents |->
                    IF timer[r][k] > 0 THEN timer[r][k] - 1 ELSE timer[r][k]]]
    /\ orphans' = [r \in Routers |-> {t - 1 : t \in orphans[r]}]
    /\ calm' = IF calm < SettleTime THEN calm + 1 ELSE calm
    /\ UNCHANGED <<version, cut, state, prio, mode, madver, cached, queue, net, faults>>

\* Timer._timer and TimerEventSender._timeout.  _thread is not reset.
Timeout(r, k) ==
    /\ timer[r][k] = 0
    /\ timer' = [timer EXCEPT ![r][k] = Done]
    /\ Post(r, [ev |-> k])
    /\ UNCHANGED <<version, cut, state, prio, mode, madver, cached, orphans, net, faults, calm>>

\* The same for a timer of an instance that was shut down: it posts to
\* whatever router has the name now.
OrphanTimeout(r) ==
    /\ 0 \in orphans[r]
    /\ orphans' = [orphans EXCEPT ![r] = @ \ {0}]
    /\ Post(r, [ev |-> "down"])
    /\ UNCHANGED <<version, cut, state, prio, mode, madver, cached, timer, net, faults, calm>>

\* A packet arrives, or is lost on a link that is cut.
Deliver(l) ==
    /\ net[l] # << >>
    /\ net' = [net EXCEPT ![l] = Tail(@)]
    /\ IF l \in cut THEN UNCHANGED queue ELSE Post(l[2], Head(net[l]))
    /\ UNCHANGED <<version, state, prio, mode, madver, cached, timer, orphans, cut, faults, calm>>

Fault == faults < MaxFaults /\ faults' = faults + 1 /\ calm' = 0

\* A link, in one direction, stops working or works again.
Cut(l) ==
    /\ Fault
    /\ cut' = IF l \in cut THEN cut \ {l} ELSE cut \cup {l}
    /\ UNCHANGED <<version, state, prio, mode, madver, cached, timer, orphans, queue, net>>

-----------------------------------------------------------------------------
(* The states Master and Backup.  Every handler gives the new state, timers *)
(* and advertisements of the router.                                        *)

\* state_change, the timers and send_advertisement; the packet is made once.
Becomes(r, s, ts, msgs) ==
    /\ state' = [state EXCEPT ![r] = s]
    /\ timer' = [timer EXCEPT ![r] = ts]
    /\ net' = Sent(net, r, msgs)
    /\ cached' = IF msgs = << >> THEN cached ELSE [cached EXCEPT ![r] = msgs[1].prio]

Packet(r) == Advertisement(r, IF cached[r] = 0 THEN prio[r] ELSE cached[r])

\* _adver of the Master, and what it does about a released responsibility
Adver(r) == Becomes(r, "master", [timer[r] EXCEPT !.adver = Interval[r]], <<Packet(r)>>)

\* Mutant: the advertisements are not scheduled.
TakeOver_bug(r) ==
    Becomes(r, "master", [timer[r] EXCEPT !.delay = Off], <<Packet(r)>>)

\* Mutant: a delayed preemption stays scheduled.
TakeOverDelay_bug(r) ==
    Becomes(r, "master", [timer[r] EXCEPT !.adver = Interval[r]], <<Packet(r)>>)

\* _master_down of the Backup; the master-down timer is left running.
TakeOver(r) ==
    Becomes(r, "master", [timer[r] EXCEPT !.delay = Off, !.adver = Interval[r]], <<Packet(r)>>)

Stay(r) == Becomes(r, state[r], timer[r], << >>)

HandleTimer(r, k) ==
    /\ queue[r] # << >> /\ Head(queue[r]).ev = k
    /\ queue' = [queue EXCEPT ![r] = Tail(@)]
    /\ IF state[r] = "master" /\ k = "adver" THEN Adver(r)
       ELSE IF state[r] = "backup" /\ k \in {"down", "delay"} THEN TakeOver(r)
       ELSE Stay(r)
    /\ UNCHANGED <<version, cut, prio, mode, madver, orphans, faults, calm>>

\* The master whose advertisement arrives has priority over r.
GivesWay(r, m) == prio[r] < m.prio \/ (prio[r] = m.prio /\ r < m.src)

\* Version 3 takes the interval over from the master.
Learned(r, m) == IF version = 3 THEN m.interval ELSE madver[r]

Learn(r, m) == madver' = [madver EXCEPT ![r] = Learned(r, m)]

\* Mutant: a master never gives way.
MasterReceives_bug(r, m) ==
    IF m.prio = 0 THEN Adver(r) /\ UNCHANGED madver
    ELSE Stay(r) /\ UNCHANGED madver

\* vrrp_received of the Master
MasterReceives(r, m) ==
    IF m.prio = 0 THEN Adver(r) /\ UNCHANGED madver
    ELSE IF GivesWay(r, m)
    THEN /\ Becomes(r, "backup", [timer[r] EXCEPT !.adver = Off,
                                     !.down = MasterDown(prio[r], Learned(r, m))], << >>)
         /\ Learn(r, m)
    ELSE Stay(r) /\ UNCHANGED madver

\* Mutant: the timer is not restarted by an advertisement of the master.
BackupReceives_bug(r, m) ==
    IF m.prio = 0
    THEN /\ Becomes(r, "backup", [timer[r] EXCEPT !.down = SkewTime(prio[r], madver[r])], << >>)
         /\ UNCHANGED madver
    ELSE Stay(r) /\ Learn(r, m)

\* vrrp_received of the Backup.  Only version 2 cancels a delayed preemption.
BackupReceives(r, m) ==
    IF m.prio = 0
    THEN /\ Becomes(r, "backup", [timer[r] EXCEPT !.down = SkewTime(prio[r], madver[r])], << >>)
         /\ UNCHANGED madver
    ELSE IF ~mode[r].preempt \/ prio[r] <= m.prio
    THEN /\ Becomes(r, "backup", [timer[r] EXCEPT
                        !.delay = IF version = 2 THEN Off ELSE @,
                        !.down = MasterDown(prio[r], Learned(r, m))], << >>)
         /\ Learn(r, m)
    ELSE IF mode[r].delay > 0
    THEN /\ Becomes(r, "backup", [timer[r] EXCEPT
                        !.delay = IF @ = Off THEN mode[r].delay ELSE @,
                        !.down = MasterDown(prio[r], madver[r])], << >>)
         /\ UNCHANGED madver
    ELSE Stay(r) /\ UNCHANGED madver

Receive(r) ==
    /\ queue[r] # << >> /\ Head(queue[r]).ev = "received"
    /\ queue' = [queue EXCEPT ![r] = Tail(@)]
    /\ CASE state[r] = "master" -> MasterReceives(r, Head(queue[r]))
         [] state[r] = "backup" -> BackupReceives(r, Head(queue[r]))
         [] OTHER -> Stay(r) /\ UNCHANGED madver
    /\ UNCHANGED <<version, cut, prio, mode, orphans, faults, calm>>

-----------------------------------------------------------------------------
(* Requests through the manager.  A request is handled when the router gets *)
(* to it; it was queued before the events that are behind it.               *)

\* vrrp_shutdown_request.  The manager then takes the router down, which
\* ignores what is still in its queue.
Shutdown(r) ==
    /\ state[r] # "initialize"
    /\ Fault
    /\ IF state[r] = "master"
       THEN Becomes(r, "initialize", [timer[r] EXCEPT !.adver = Off], <<Advertisement(r, 0)>>)
       ELSE Becomes(r, "initialize", [timer[r] EXCEPT !.down = Off, !.delay = Off], << >>)
    /\ UNCHANGED <<version, cut, prio, mode, madver, orphans, queue>>

\* config_request_handler of the manager: a new router with the old name.
Restart(r) ==
    /\ state[r] = "initialize" /\ queue[r] = << >>
    /\ Fault
    /\ prio' = [prio EXCEPT ![r] = StartPriority[r]]
    /\ mode' = [mode EXCEPT ![r] = StartMode[r]]
    /\ madver' = [madver EXCEPT ![r] = Interval[r]]
    /\ orphans' = [orphans EXCEPT ![r] = @ \cup {t \in {timer[r].down} : t >= 0}]
    /\ state' = [state EXCEPT ![r] = IF StartsMaster(r) THEN "master" ELSE "backup"]
    /\ timer' = [timer EXCEPT ![r] = StartTimers(r)]
    /\ net' = Sent(net, r, IF StartsMaster(r) THEN <<Advertisement(r, StartPriority[r])>>
                                              ELSE << >>)
    /\ cached' = [cached EXCEPT ![r] = IF StartsMaster(r) THEN StartPriority[r] ELSE 0]
    /\ UNCHANGED <<version, cut, queue>>

\* Mutant: the cached packet is kept.
ChangePriority_bug(r, p) ==
    /\ state[r] # "initialize"
    /\ Fault
    /\ prio' = [prio EXCEPT ![r] = p]
    /\ IF state[r] = "master" THEN Adver(r)
       ELSE IF p = Owner THEN TakeOver(r) ELSE Stay(r)
    /\ UNCHANGED <<version, cut, mode, madver, orphans, queue>>

\* vrrp_config_change_request with a priority: the cached packet is dropped.
ChangePriority(r, p) ==
    /\ state[r] # "initialize"
    /\ Fault
    /\ prio' = [prio EXCEPT ![r] = p]
    /\ state' = [state EXCEPT ![r] = IF p = Owner THEN "master" ELSE @]
    /\ LET speaks == state[r] = "master" \/ p = Owner
       IN  /\ cached' = [cached EXCEPT ![r] = IF speaks THEN p ELSE 0]
           /\ net' = Sent(net, r, IF speaks THEN <<Advertisement(r, p)>> ELSE << >>)
           /\ timer' = IF ~speaks THEN timer
                       ELSE IF state[r] = "master"
                       THEN [timer EXCEPT ![r].adver = Interval[r]]
                       ELSE [timer EXCEPT ![r] = [NoTimers EXCEPT !.adver = Interval[r]]]
    /\ UNCHANGED <<version, cut, mode, madver, orphans, queue>>

\* vrrp_config_change_request with preempt_mode or preempt_delay
ChangeMode(r, m) ==
    /\ state[r] # "initialize"
    /\ Fault
    /\ mode' = [mode EXCEPT ![r] = m]
    /\ cached' = [cached EXCEPT ![r] = 0]
    /\ timer' = IF state[r] = "backup" THEN [timer EXCEPT ![r].delay = Off] ELSE timer
    /\ UNCHANGED <<version, cut, state, prio, madver, orphans, queue, net>>

Handle(r) == Receive(r) \/ \E k \in TimerEvents : HandleTimer(r, k)

Step ==
    \/ Tick
    \/ \E r \in Routers : Handle(r) \/ OrphanTimeout(r) \/ \E k \in TimerEvents : Timeout(r, k)
    \/ \E l \in Links : Deliver(l)

Request ==
    \/ \E r \in Routers : Shutdown(r) \/ Restart(r)
    \/ \E r \in Routers, p \in Priorities : ChangePriority(r, p)
    \/ \E r \in Routers, m \in Modes : ChangeMode(r, m)

Next == Step \/ Request \/ \E l \in Links : Cut(l)

\* Time passes, and what is queued or on its way is handled.
Spec == Init /\ [][Next]_vars /\ WF_vars(Step)

-----------------------------------------------------------------------------
(* What is checked.                                                        *)

\* The shapes of the tables.
TypeOK ==
    /\ state \in [Routers -> {"initialize", "backup", "master"}]
    /\ \A r \in Routers : prio[r] > 0 /\ madver[r] \in Intervals
    /\ \A r \in Routers, k \in TimerEvents : timer[r][k] \in Int /\ timer[r][k] >= Done
    /\ \A r \in Routers : state[r] = "master" => timer[r].delay = Off
    /\ calm \in 0 .. SettleTime

\* The timer runs or has posted its event, and the event is still to be handled.
Armed(r, k) == timer[r][k] >= 0 \/ \E i \in DOMAIN queue[r] : queue[r][i].ev = k

\* A backup is always going to notice that the master is gone and a master is
\* always going to advertise, whichever cancelled or late events are handled.
NeverDeaf ==
    \A r \in Routers : /\ state[r] = "backup" => Armed(r, "down")
                       /\ state[r] = "master" => Armed(r, "adver")

Masters == {r \in Routers : state[r] = "master"}
Running == {r \in Routers : state[r] # "initialize"}

\* Once all links work and nothing was stopped or changed for SettleTime, the running
\* routers have one master and no router that preempts has a higher priority.
ElectionSettles ==
    Quiet /\ calm = SettleTime /\ cut = {} /\ Running # {} =>
        /\ Cardinality(Masters) = 1
        /\ \A r \in Running, m \in Masters : mode[r].preempt => prio[r] <= prio[m]

\* The router that is elected stays elected as long as nothing happens.
NoFlapping == [][calm = SettleTime /\ calm' = SettleTime /\ cut = {} => state' = state]_vars

\* After the last fault there is, for ever, one master if any router runs.
Converges == <>[](cut = {} /\ Running # {} => Cardinality(Masters) = 1)
=============================================================================
