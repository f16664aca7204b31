----------------------------- MODULE VrrpProofs -----------------------------
(***************************************************************************)
(* Proofs about the VRRP routers, for every set of routers and every       *)
(* choice of priorities, modes and intervals.                              *)
(***************************************************************************)
EXTENDS Vrrp, ProofLemmas

(***************************************************************************)
(* Types.                                                                  *)
(***************************************************************************)
States == {"initialize", "backup", "master"}
Ticks == {t \in Int : t >= Done}
Timers == [TimerEvents -> Ticks]
Adverts == [ev : {"received"}, prio : Nat, src : Routers, interval : Intervals]
Events == Adverts \cup {[ev |-> k] : k \in TimerEvents}

Types ==
    /\ state \in [Routers -> States]
    /\ prio \in [Routers -> AllPriorities]
    /\ mode \in [Routers -> AllModes]
    /\ madver \in [Routers -> Intervals]
    /\ cached \in [Routers -> Nat]
    /\ timer \in [Routers -> Timers]
    /\ queue \in [Routers -> Seq(Events)]
    /\ net \in [Links -> Seq(Adverts)]
    /\ calm \in 0 .. SettleTime

\* The queue q holds an event of kind k.
Has(q, k) == \E i \in 1 .. Len(q) : q[i].ev = k

\* The router in state s with timers ts and queue q is not deaf, and a master
\* has no delayed preemption.
Alert(s, ts, q) ==
    /\ s = "backup" => ts["down"] >= 0 \/ Has(q, "down")
    /\ s = "master" => ts["adver"] >= 0 \/ Has(q, "adver")
    /\ s = "master" => ts["delay"] = Off

AlertInv == \A r \in Routers : Alert(state[r], timer[r], queue[r])

-----------------------------------------------------------------------------
(***************************************************************************)
(* Timers, intervals and events.                                           *)
(***************************************************************************)

\* The timers by name.
LEMMA TimerFacts ==
    /\ TimerEvents = {"down", "adver", "delay"}
    /\ NoTimers \in Timers
    /\ NoTimers["delay"] = Off
    /\ \A ts \in Timers, t \in Ticks, k \in TimerEvents : [ts EXCEPT ![k] = t] \in Timers
    /\ \A ts \in Timers, k \in TimerEvents : ts[k] \in Int /\ ts[k] >= Done
    /\ Off \in Ticks /\ Done \in Ticks /\ Nat \subseteq Ticks
<1>1. TimerEvents = {"down", "adver", "delay"}
  BY DEF TimerEvents, NoTimers
<1>2. Off \in Ticks /\ Done \in Ticks /\ Nat \subseteq Ticks
  BY DEF Off, Done, Ticks
<1>3. NoTimers \in [{"down", "adver", "delay"} -> Ticks] /\ NoTimers["delay"] = Off
  BY <1>2 DEF NoTimers
<1>4. \A ts \in Timers, t \in Ticks, k \in TimerEvents : [ts EXCEPT ![k] = t] \in Timers
  BY DEF Timers
<1>5. \A ts \in Timers, k \in TimerEvents : ts[k] \in Int /\ ts[k] >= Done
  BY DEF Timers, Ticks
<1>6. QED
  BY <1>1, <1>2, <1>3, <1>4, <1>5 DEF Timers

\* The priorities and intervals, and the times computed from them.
LEMMA IntervalFacts ==
    /\ \A r \in Routers : Interval[r] \in Nat /\ Interval[r] > 0 /\ Interval[r] \in Intervals
    /\ \A i \in Intervals : i \in Nat /\ i > 0
    /\ \A r \in Routers : StartPriority[r] \in AllPriorities
    /\ \A p \in Priorities : p \in AllPriorities
    /\ \A p \in AllPriorities : p \in Nat /\ p > 0
    /\ \A r \in Routers : StartMode[r] \in AllModes
    /\ \A m \in Modes : m \in AllModes
    /\ \A m \in AllModes : m.delay \in Nat
    /\ \A p \in AllPriorities, i \in Intervals :
          /\ SkewTime(p, i) \in Nat
          /\ MasterDown(p, i) \in Nat
<1>1. /\ \A r \in Routers : Interval[r] \in Nat /\ Interval[r] > 0 /\ Interval[r] \in Intervals
      /\ \A i \in Intervals : i \in Nat /\ i > 0
  <2>1. \A r \in Routers : Interval[r] \in Nat /\ Interval[r] # 0
    BY VrrpAssumption
  <2>2. QED
    BY <2>1 DEF Intervals
<1>2. /\ \A r \in Routers : StartPriority[r] \in AllPriorities
      /\ \A p \in Priorities : p \in AllPriorities
      /\ \A p \in AllPriorities : p \in Nat /\ p > 0
  BY VrrpAssumption DEF AllPriorities
<1>3. /\ \A r \in Routers : StartMode[r] \in AllModes
      /\ \A m \in Modes : m \in AllModes
      /\ \A m \in AllModes : m.delay \in Nat
  BY VrrpAssumption DEF AllModes
<1>4. ASSUME NEW p \in AllPriorities, NEW i \in Intervals
      PROVE  SkewTime(p, i) \in Nat /\ MasterDown(p, i) \in Nat
  <2>1. <<p, i>> \in AllPriorities \X Intervals
    OBVIOUS
  <2>2. Skew[<<p, i>>] \in Nat
    BY <2>1, VrrpAssumption
  <2>3. QED
    BY <1>1, <2>2 DEF SkewTime, MasterDown
<1>5. QED
  BY <1>1, <1>2, <1>3, <1>4

\* The set of the values of a function on a finite set is finite and has a
\* largest element.
LEMMA ImageMax ==
    ASSUME NEW S, IsFiniteSet(S), S # {}, NEW T, NEW f \in [S -> T], \A y \in T : \E x \in S : f[x] = y
    PROVE  /\ IsFiniteSet(T)
           /\ T \subseteq Nat => Max(T) \in T /\ Max(T) \in Nat /\ \A y \in T : y <= Max(T)
<1>1. f \in Surjection(S, T)
  BY DEF Surjection
<1>2. IsFiniteSet(T)
  BY <1>1, FS_Surjection
<1>3. ASSUME T \subseteq Nat
      PROVE  Max(T) \in T /\ Max(T) \in Nat /\ \A y \in T : y <= Max(T)
  <2>1. T \in SUBSET Int /\ T # {}
    BY <1>3
  <2>2. \E x \in T : \A y \in T : x >= y
    BY <1>2, <2>1, MaxExists
  <2>3. Max(T) \in T /\ \A y \in T : Max(T) >= y
    BY <2>2 DEF Max
  <2>4. QED
    BY <1>3, <2>3
<1>4. QED
  BY <1>2, <1>3

\* The longest master-down interval, advertisement interval and delay.
LEMMA LongestFacts ==
    /\ LongestDown \in Nat /\ LongestInterval \in Nat /\ LongestDelay \in Nat
    /\ LongestInterval \in Intervals
    /\ \A p \in AllPriorities, i \in Intervals : MasterDown(p, i) <= LongestDown
    /\ \A i \in Intervals : i <= LongestInterval
    /\ \A m \in AllModes : m.delay <= LongestDelay
<1>1. IsFiniteSet(Routers) /\ Routers # {}
  BY VrrpAssumption
<1>2. IsFiniteSet(AllPriorities) /\ AllPriorities # {}
  <2>1. IsFiniteSet({StartPriority[r] : r \in Routers})
    <3>1. PICK T : T = {StartPriority[r] : r \in Routers}
      OBVIOUS
    <3>2. StartPriority \in [Routers -> T]
      BY <3>1, VrrpAssumption
    <3>3. QED
      BY <1>1, <3>1, <3>2, ImageMax
  <2>2. IsFiniteSet(AllPriorities)
    BY <2>1, VrrpAssumption, FS_Union DEF AllPriorities
  <2>3. QED
    BY <1>1, <2>2, IntervalFacts
<1>3. IsFiniteSet(AllModes) /\ AllModes # {}
  <2>1. IsFiniteSet({StartMode[r] : r \in Routers})
    <3>1. PICK T : T = {StartMode[r] : r \in Routers}
      OBVIOUS
    <3>2. StartMode \in [Routers -> T]
      BY <3>1, VrrpAssumption
    <3>3. QED
      BY <1>1, <3>1, <3>2, ImageMax
  <2>2. IsFiniteSet(AllModes)
    BY <2>1, VrrpAssumption, FS_Union DEF AllModes
  <2>3. QED
    BY <1>1, <2>2, IntervalFacts
<1>4. /\ IsFiniteSet(Intervals) /\ Intervals # {}
      /\ LongestInterval \in Intervals /\ LongestInterval \in Nat
      /\ \A i \in Intervals : i <= LongestInterval
  <2>1. /\ Interval \in [Routers -> Intervals] /\ Intervals \subseteq Nat
        /\ \A y \in Intervals : \E x \in Routers : Interval[x] = y
    BY VrrpAssumption, IntervalFacts DEF Intervals
  <2>2. /\ IsFiniteSet(Intervals) /\ Max(Intervals) \in Intervals /\ Max(Intervals) \in Nat
        /\ \A i \in Intervals : i <= Max(Intervals)
    BY <1>1, <2>1, ImageMax
  <2>3. QED
    BY <1>1, <2>2, IntervalFacts DEF LongestInterval
<1>5. /\ LongestDown \in Nat
      /\ \A p \in AllPriorities, i \in Intervals : MasterDown(p, i) <= LongestDown
  <2>1. PICK S : S = AllPriorities \X Intervals
    OBVIOUS
  <2>2. IsFiniteSet(S)
    BY <1>2, <1>4, <2>1, FS_Product
  <2>3. S # {}
    <3>1. PICK p, i : p \in AllPriorities /\ i \in Intervals
      BY <1>2, <1>4
    <3>2. <<p, i>> \in S
      BY <2>1, <3>1
    <3>3. QED
      BY <3>2
  <2>4. PICK f : f = [x \in S |-> MasterDown(x[1], x[2])]
    OBVIOUS
  <2>5. PICK T : T = {MasterDown(x[1], x[2]) : x \in S}
    OBVIOUS
  <2>6. \A x \in S : MasterDown(x[1], x[2]) \in Nat
    BY <2>1, IntervalFacts
  <2>7. f \in [S -> T] /\ T \subseteq Nat /\ \A y \in T : \E x \in S : f[x] = y
    BY <2>4, <2>5, <2>6
  <2>8. Max(T) \in Nat /\ \A y \in T : y <= Max(T)
    BY <2>2, <2>3, <2>7, ImageMax
  <2>9. LongestDown = Max(T)
    BY <2>1, <2>5 DEF LongestDown
  <2>10. ASSUME NEW p \in AllPriorities, NEW i \in Intervals PROVE MasterDown(p, i) \in T
    <3>1. <<p, i>> \in S /\ <<p, i>>[1] = p /\ <<p, i>>[2] = i
      BY <2>1
    <3>2. QED
      BY <2>5, <3>1
  <2>11. QED
    BY <2>8, <2>9, <2>10
<1>6. LongestDelay \in Nat /\ \A m \in AllModes : m.delay <= LongestDelay
  <2>1. PICK f : f = [m \in AllModes |-> m.delay]
    OBVIOUS
  <2>2. PICK T : T = {m.delay : m \in AllModes}
    OBVIOUS
  <2>3. f \in [AllModes -> T] /\ T \subseteq Nat /\ \A y \in T : \E x \in AllModes : f[x] = y
    BY <2>1, <2>2, IntervalFacts
  <2>4. Max(T) \in Nat /\ \A y \in T : y <= Max(T)
    BY <1>3, <2>2, <2>3, ImageMax
  <2>5. LongestDelay = Max(T)
    BY <2>2 DEF LongestDelay
  <2>6. \A m \in AllModes : m.delay \in T
    BY <2>2
  <2>7. QED
    BY <2>4, <2>5, <2>6
<1>7. QED
  BY <1>4, <1>5, <1>6

\* There is a bound on the time an election takes.
LEMMA SettleTimeNat == SettleTime \in Nat /\ LongestDown < SettleTime
<1>1. Cardinality(Routers) \in Nat /\ Cardinality(Routers) # 0
  BY VrrpAssumption, FS_CardinalityType, FS_EmptySet
<1>2. PICK n, w \in Nat : n = Cardinality(Routers) - 1 /\ w = LongestDelay + LongestInterval
  BY <1>1, LongestFacts
<1>3. n * w \in Nat
  OBVIOUS
<1>4. QED
  BY <1>2, <1>3, LongestFacts DEF SettleTime

(***************************************************************************)
(* Queues of events.                                                       *)
(***************************************************************************)

\* The advertisements a router makes, and the events.
LEMMA EventFacts ==
    /\ \A r \in Routers, p \in Nat : Advertisement(r, p) \in Adverts /\ Advertisement(r, p).prio = p
    /\ \A m \in Adverts : /\ m \in Events /\ m.ev = "received" /\ m.prio \in Nat
                          /\ m.src \in Routers /\ m.interval \in Intervals
    /\ \A k \in TimerEvents : [ev |-> k] \in Events /\ [ev |-> k].ev = k
    /\ \A e \in Events : e.ev = "received" => e \in Adverts
    /\ \A k \in TimerEvents : k # "received"
<1>1. \A r \in Routers, p \in Nat : Advertisement(r, p) \in Adverts /\ Advertisement(r, p).prio = p
  BY IntervalFacts DEF Advertisement, Adverts
<1>2. \A k \in TimerEvents : k # "received"
  BY TimerFacts
<1>3. \A m \in Adverts : /\ m \in Events /\ m.ev = "received" /\ m.prio \in Nat
                          /\ m.src \in Routers /\ m.interval \in Intervals
  BY DEF Adverts, Events
<1>4. \A k \in TimerEvents : [ev |-> k] \in Events /\ [ev |-> k].ev = k
  BY DEF Events
<1>5. \A e \in Events : e.ev = "received" => e \in Adverts
  BY <1>2, <1>4 DEF Events
<1>6. QED
  BY <1>1, <1>2, <1>3, <1>4, <1>5

\* An event is put behind the others.
LEMMA HasPut ==
    ASSUME NEW q \in Seq(Events), NEW e \in Events
    PROVE  /\ Append(q, e) \in Seq(Events)
           /\ \A k : Has(q, k) \/ k = e.ev => Has(Append(q, e), k)
<1>1. PICK t : t = Append(q, e)
  OBVIOUS
<1>2. /\ t \in Seq(Events) /\ Len(q) \in Nat /\ Len(t) = Len(q) + 1 /\ t[Len(q) + 1] = e
      /\ \A i \in 1 .. Len(q) : t[i] = q[i]
  BY <1>1, AppendProperties, LenProperties
<1>3. \A i \in 1 .. Len(q) : i \in 1 .. Len(t) /\ t[i] = q[i]
  BY <1>2
<1>4. PICK n \in 1 .. Len(t) : t[n] = e
  BY <1>2
<1>5. QED
  BY <1>1, <1>2, <1>3, <1>4 DEF Has

\* An event is taken; the others of another kind stay.
LEMMA HasTake ==
    ASSUME NEW q \in Seq(Events), q # << >>
    PROVE  /\ Tail(q) \in Seq(Events) /\ Head(q) \in Events
           /\ \A k : Has(q, k) /\ k # Head(q).ev => Has(Tail(q), k)
<1>1. PICK t : t = Tail(q)
  OBVIOUS
<1>2. /\ t \in Seq(Events) /\ Head(q) \in Events /\ Head(q) = q[1] /\ Len(q) \in Nat
      /\ Len(t) = Len(q) - 1 /\ \A i \in 1 .. Len(t) : t[i] = q[i + 1]
  BY <1>1, HeadTailProperties, LenProperties
<1>3. ASSUME NEW k, Has(q, k), k # Head(q).ev PROVE Has(t, k)
  <2>1. PICK i \in 1 .. Len(q) : q[i].ev = k
    BY <1>3 DEF Has
  <2>2. i # 1
    BY <1>2, <1>3, <2>1
  <2>3. PICK j \in 1 .. Len(t) : i = j + 1
    BY <1>2, <2>1, <2>2
  <2>4. t[j] = q[i]
    BY <1>2, <2>3
  <2>5. QED
    BY <2>1, <2>4 DEF Has
<1>4. QED
  BY <1>1, <1>2, <1>3

\* Advertisements are sent on the links of a router.
LEMMA SentFacts ==
    ASSUME Types, NEW r \in Routers, NEW msgs \in Seq(Adverts)
    PROVE  Sent(net, r, msgs) \in [Links -> Seq(Adverts)]
<1>1. net \in [Links -> Seq(Adverts)]
  BY DEF Types
<1>2. \A l \in Links : net[l] \in Seq(Adverts) /\ net[l] \o msgs \in Seq(Adverts)
  BY <1>1, ConcatProperties
<1>3. QED
  BY <1>1, <1>2 DEF Sent

\* What a router sends is nothing or one advertisement.
LEMMA OneFacts ==
    /\ << >> \in Seq(Adverts)
    /\ \A m \in Adverts : <<m>> \in Seq(Adverts) /\ <<m>> # << >> /\ <<m>>[1] = m
<1>1. << >> \in Seq(Adverts)
  OBVIOUS
<1>2. ASSUME NEW m \in Adverts PROVE <<m>> \in Seq(Adverts) /\ <<m>> # << >> /\ <<m>>[1] = m
  OBVIOUS
<1>3. QED
  BY <1>1, <1>2

\* The new state, timers and advertisements of a router.
LEMMA BecomesFacts ==
    ASSUME Types, NEW r \in Routers, NEW s \in States, NEW ts \in Timers, NEW msgs \in Seq(Adverts),
           msgs = << >> \/ msgs[1] \in Adverts, Becomes(r, s, ts, msgs)
    PROVE  /\ state' \in [Routers -> States] /\ timer' \in [Routers -> Timers]
           /\ net' \in [Links -> Seq(Adverts)] /\ cached' \in [Routers -> Nat]
           /\ state'[r] = s /\ timer'[r] = ts
           /\ \A x \in Routers : x # r => state'[x] = state[x] /\ timer'[x] = timer[x]
<1>1. net' \in [Links -> Seq(Adverts)]
  BY SentFacts DEF Becomes
<1>2. msgs # << >> => msgs[1].prio \in Nat
  BY EventFacts
<1>3. cached' \in [Routers -> Nat]
  BY <1>2 DEF Types, Becomes
<1>4. /\ state' = [state EXCEPT ![r] = s] /\ timer' = [timer EXCEPT ![r] = ts]
      /\ state \in [Routers -> States] /\ timer \in [Routers -> Timers]
  BY DEF Types, Becomes
<1>5. QED
  BY <1>1, <1>3, <1>4

\* The packet a router sends.
LEMMA PacketFacts ==
    ASSUME Types, NEW r \in Routers
    PROVE  Packet(r) \in Adverts
BY IntervalFacts, EventFacts DEF Types, Packet

(***************************************************************************)
(* The handlers.  Each takes the event at the head of the queue of its     *)
(* router and leaves the router alert.                                     *)
(***************************************************************************)
Handles(r) == queue[r] # << >> /\ queue' = [queue EXCEPT ![r] = Tail(@)]

\* What a step that concerns the state, the timers and the queue gives.
Kept ==
    /\ state' \in [Routers -> States] /\ timer' \in [Routers -> Timers]
    /\ net' \in [Links -> Seq(Adverts)] /\ cached' \in [Routers -> Nat]
    /\ queue' \in [Routers -> Seq(Events)]
    /\ AlertInv'

\* The handler leaves the router in state s with timers ts.
LEMMA HandlerFacts ==
    ASSUME Types, AlertInv, NEW r \in Routers, Handles(r), NEW s \in States, NEW ts \in Timers,
           NEW msgs \in Seq(Adverts), msgs = << >> \/ msgs[1] \in Adverts, Becomes(r, s, ts, msgs),
           Alert(s, ts, Tail(queue[r]))
    PROVE  Kept
<1>1. /\ state' \in [Routers -> States] /\ timer' \in [Routers -> Timers]
      /\ net' \in [Links -> Seq(Adverts)] /\ cached' \in [Routers -> Nat]
      /\ state'[r] = s /\ timer'[r] = ts
      /\ \A x \in Routers : x # r => state'[x] = state[x] /\ timer'[x] = timer[x]
  BY BecomesFacts
<1>2. queue \in [Routers -> Seq(Events)]
  BY DEF Types
<1>3. Tail(queue[r]) \in Seq(Events)
  BY <1>2, HasTake DEF Handles
<1>4. /\ queue' \in [Routers -> Seq(Events)] /\ queue'[r] = Tail(queue[r])
      /\ \A x \in Routers : x # r => queue'[x] = queue[x]
  BY <1>2, <1>3 DEF Handles
<1>5. \A x \in Routers : Alert(state'[x], timer'[x], queue'[x])
  BY <1>1, <1>4 DEF AlertInv
<1>6. QED
  BY <1>1, <1>4, <1>5 DEF Kept, AlertInv

\* The router stays what it is, after an event it does not rely on.
LEMMA StayFacts ==
    ASSUME Types, AlertInv, NEW r \in Routers, Handles(r), Stay(r),
           state[r] = "master" => Head(queue[r]).ev # "adver",
           state[r] = "backup" => Head(queue[r]).ev # "down"
    PROVE  Kept
<1>1. PICK q \in Seq(Events) : q = queue[r] /\ q # << >>
  BY DEF Types, Handles
<1>2. \A k : Has(q, k) /\ k # Head(q).ev => Has(Tail(q), k)
  BY <1>1, HasTake
<1>3. Alert(state[r], timer[r], q)
  BY <1>1 DEF AlertInv
<1>4. Alert(state[r], timer[r], Tail(q))
  BY <1>1, <1>2, <1>3 DEF Alert
<1>5. state[r] \in States /\ timer[r] \in Timers
  BY DEF Types
<1>6. QED
  BY <1>1, <1>4, <1>5, HandlerFacts, OneFacts DEF Stay

\* A master advertises and schedules the next advertisement.
LEMMA AdverFacts ==
    ASSUME Types, AlertInv, NEW r \in Routers, Handles(r), Adver(r), state[r] = "master"
    PROVE  Kept
<1>1. PICK ts : ts = [timer[r] EXCEPT !.adver = Interval[r]]
  OBVIOUS
<1>2. timer[r] \in Timers /\ Interval[r] \in Ticks /\ Interval[r] \in Nat /\ "adver" \in TimerEvents
  BY TimerFacts, IntervalFacts DEF Types
<1>3. ts \in Timers
  BY <1>1, <1>2, TimerFacts
<1>4. timer[r]["delay"] = Off
  BY DEF AlertInv, Alert
<1>5. ts["adver"] = Interval[r] /\ ts["delay"] = Off
  BY <1>1, <1>2, <1>4, TimerFacts DEF Timers
<1>6. Alert("master", ts, Tail(queue[r]))
  BY <1>2, <1>5 DEF Alert
<1>7. PICK msgs \in Seq(Adverts) : msgs = <<Packet(r)>> /\ msgs[1] \in Adverts
  BY PacketFacts, OneFacts
<1>8. Becomes(r, "master", ts, msgs) /\ "master" \in States
  BY <1>1, <1>7 DEF Adver, States
<1>9. QED
  BY <1>3, <1>6, <1>7, <1>8, HandlerFacts

\* A backup becomes the master.
LEMMA TakeOverFacts ==
    ASSUME Types, AlertInv, NEW r \in Routers, Handles(r), TakeOver(r)
    PROVE  Kept
<1>1. PICK ts : ts = [timer[r] EXCEPT !.delay = Off, !.adver = Interval[r]]
  OBVIOUS
<1>2. /\ timer[r] \in Timers /\ Interval[r] \in Ticks /\ Interval[r] \in Nat /\ Off \in Ticks
      /\ TimerEvents = {"down", "adver", "delay"}
  BY TimerFacts, IntervalFacts DEF Types
<1>3. ts \in Timers /\ ts["adver"] = Interval[r] /\ ts["delay"] = Off
  BY <1>1, <1>2 DEF Timers
<1>4. Alert("master", ts, Tail(queue[r]))
  BY <1>2, <1>3 DEF Alert
<1>5. PICK msgs \in Seq(Adverts) : msgs = <<Packet(r)>> /\ msgs[1] \in Adverts
  BY PacketFacts, OneFacts
<1>6. Becomes(r, "master", ts, msgs) /\ "master" \in States
  BY <1>1, <1>5 DEF TakeOver, States
<1>7. QED
  BY <1>3, <1>4, <1>5, <1>6, HandlerFacts

\* A router is a backup whose master-down timer runs.
LEMMA BackupFacts ==
    ASSUME Types, AlertInv, NEW r \in Routers, Handles(r), NEW ts \in Timers, ts["down"] >= 0,
           Becomes(r, "backup", ts, << >>)
    PROVE  Kept
<1>1. Alert("backup", ts, Tail(queue[r])) /\ "backup" \in States
  BY DEF Alert, States
<1>2. QED
  BY <1>1, HandlerFacts, OneFacts

\* What a backup or a master may wait for: the interval is one that is known.
LEMMA LearnedFacts ==
    ASSUME Types, NEW r \in Routers, NEW m \in Adverts
    PROVE  /\ Learned(r, m) \in Intervals /\ madver[r] \in Intervals
           /\ MasterDown(prio[r], Learned(r, m)) \in Nat
           /\ MasterDown(prio[r], madver[r]) \in Nat /\ SkewTime(prio[r], madver[r]) \in Nat
           /\ Learn(r, m) => madver' \in [Routers -> Intervals]
<1>1. prio[r] \in AllPriorities /\ madver[r] \in Intervals /\ m.interval \in Intervals
  BY EventFacts DEF Types
<1>2. Learned(r, m) \in Intervals
  BY <1>1 DEF Learned
<1>3. Learn(r, m) => madver' \in [Routers -> Intervals]
  BY <1>2 DEF Learn, Types
<1>4. QED
  BY <1>1, <1>2, <1>3, IntervalFacts

\* A master gets an advertisement.
LEMMA MasterReceivesFacts ==
    ASSUME Types, AlertInv, NEW r \in Routers, Handles(r), NEW m \in Adverts, m = Head(queue[r]),
           state[r] = "master", MasterReceives(r, m)
    PROVE  Kept /\ madver' \in [Routers -> Intervals]
<1>1. madver \in [Routers -> Intervals] /\ m.ev = "received"
  BY EventFacts DEF Types
<1>2. CASE Adver(r) /\ UNCHANGED madver
  BY <1>1, <1>2, AdverFacts
<1>3. CASE Stay(r) /\ UNCHANGED madver
  BY <1>1, <1>3, StayFacts
<1>4. ASSUME Becomes(r, "backup", [timer[r] EXCEPT !.adver = Off,
                                      !.down = MasterDown(prio[r], Learned(r, m))], << >>),
             Learn(r, m)
      PROVE  Kept /\ madver' \in [Routers -> Intervals]
  <2>1. PICK t \in Nat : t = MasterDown(prio[r], Learned(r, m))
    BY LearnedFacts
  <2>2. PICK ts : ts = [timer[r] EXCEPT !.adver = Off, !.down = t]
    OBVIOUS
  <2>3. timer[r] \in Timers /\ TimerEvents = {"down", "adver", "delay"} /\ Off \in Ticks /\ t \in Ticks
    BY TimerFacts DEF Types
  <2>4. ts \in Timers /\ ts["down"] = t
    BY <2>2, <2>3 DEF Timers
  <2>5. Becomes(r, "backup", ts, << >>) /\ ts["down"] >= 0
    BY <1>4, <2>1, <2>2, <2>4
  <2>6. Kept
    BY <2>4, <2>5, BackupFacts
  <2>7. QED
    BY <1>4, <2>6, LearnedFacts
<1>5. QED
  BY <1>2, <1>3, <1>4 DEF MasterReceives

\* A backup gets an advertisement.
LEMMA BackupReceivesFacts ==
    ASSUME Types, AlertInv, NEW r \in Routers, Handles(r), NEW m \in Adverts, m = Head(queue[r]),
           state[r] = "backup", BackupReceives(r, m)
    PROVE  Kept /\ madver' \in [Routers -> Intervals]
<1>1. madver \in [Routers -> Intervals] /\ m.ev = "received"
  BY EventFacts DEF Types
<1>2. timer[r] \in Timers /\ TimerEvents = {"down", "adver", "delay"} /\ Off \in Ticks /\ Nat \subseteq Ticks
  BY TimerFacts DEF Types
<1>3. ASSUME NEW t \in Nat, NEW d \in Ticks,
             Becomes(r, "backup", [timer[r] EXCEPT !.delay = d, !.down = t], << >>)
      PROVE  Kept
  <2>1. PICK ts : ts = [timer[r] EXCEPT !.delay = d, !.down = t]
    OBVIOUS
  <2>2. ts \in Timers /\ ts["down"] = t
    BY <1>2, <2>1 DEF Timers
  <2>3. Becomes(r, "backup", ts, << >>) /\ ts["down"] >= 0
    BY <1>3, <2>1, <2>2
  <2>4. QED
    BY <2>2, <2>3, BackupFacts
<1>4. CASE Becomes(r, "backup", [timer[r] EXCEPT !.down = SkewTime(prio[r], madver[r])], << >>)
           /\ UNCHANGED madver
  <2>1. PICK t \in Nat : t = SkewTime(prio[r], madver[r])
    BY LearnedFacts
  <2>2. PICK ts : ts = [timer[r] EXCEPT !.down = t]
    OBVIOUS
  <2>3. ts \in Timers /\ ts["down"] = t
    BY <1>2, <2>2 DEF Timers
  <2>4. Becomes(r, "backup", ts, << >>) /\ ts["down"] >= 0
    BY <1>4, <2>1, <2>2, <2>3
  <2>5. Kept
    BY <2>3, <2>4, BackupFacts
  <2>6. QED
    BY <1>1, <1>4, <2>5
<1>5. CASE /\ Becomes(r, "backup", [timer[r] EXCEPT
                        !.delay = IF version = 2 THEN Off ELSE @,
                        !.down = MasterDown(prio[r], Learned(r, m))], << >>)
           /\ Learn(r, m)
  <2>1. PICK t \in Nat : t = MasterDown(prio[r], Learned(r, m))
    BY LearnedFacts
  <2>2. PICK d \in Ticks : d = IF version = 2 THEN Off ELSE timer[r].delay
    BY <1>2 DEF Timers
  <2>3. Becomes(r, "backup", [timer[r] EXCEPT !.delay = d, !.down = t], << >>)
    BY <1>5, <2>1, <2>2
  <2>4. QED
    BY <1>3, <1>5, <2>3, LearnedFacts
<1>6. CASE /\ Becomes(r, "backup", [timer[r] EXCEPT
                        !.delay = IF @ = Off THEN mode[r].delay ELSE @,
                        !.down = MasterDown(prio[r], madver[r])], << >>)
           /\ UNCHANGED madver
  <2>1. PICK t \in Nat : t = MasterDown(prio[r], madver[r])
    BY LearnedFacts
  <2>2. mode[r].delay \in Ticks
    BY <1>2, IntervalFacts DEF Types
  <2>3. PICK d \in Ticks : d = IF timer[r].delay = Off THEN mode[r].delay ELSE timer[r].delay
    BY <1>2, <2>2 DEF Timers
  <2>4. Becomes(r, "backup", [timer[r] EXCEPT !.delay = d, !.down = t], << >>)
    BY <1>6, <2>1, <2>3
  <2>5. QED
    BY <1>1, <1>3, <1>6, <2>4
<1>7. CASE Stay(r) /\ UNCHANGED madver
  BY <1>1, <1>7, StayFacts
<1>8. QED
  BY <1>4, <1>5, <1>6, <1>7 DEF BackupReceives

\* An advertisement is handled, in any state.
LEMMA ReceiveFacts ==
    ASSUME Types, AlertInv, NEW r \in Routers, Receive(r)
    PROVE  Types' /\ AlertInv'
<1>1. Handles(r)
  BY DEF Receive, Handles
<1>2. PICK m \in Adverts : m = Head(queue[r]) /\ m.ev = "received"
  <2>1. queue[r] \in Seq(Events) /\ queue[r] # << >> /\ Head(queue[r]).ev = "received"
    BY DEF Types, Receive
  <2>2. QED
    BY <2>1, HasTake, EventFacts
<1>3. Kept /\ madver' \in [Routers -> Intervals]
  <2>1. CASE state[r] = "master"
    <3>1. MasterReceives(r, m)
      BY <1>2, <2>1 DEF Receive
    <3>2. QED
      BY <1>1, <1>2, <2>1, <3>1, MasterReceivesFacts
  <2>2. CASE state[r] = "backup"
    <3>1. BackupReceives(r, m)
      BY <1>2, <2>2 DEF Receive
    <3>2. QED
      BY <1>1, <1>2, <2>2, <3>1, BackupReceivesFacts
  <2>3. CASE state[r] # "master" /\ state[r] # "backup"
    <3>1. Stay(r) /\ UNCHANGED madver
      BY <2>3 DEF Receive
    <3>2. QED
      BY <1>1, <2>3, <3>1, StayFacts DEF Types
  <2>4. QED
    BY <2>1, <2>2, <2>3
<1>4. UNCHANGED <<prio, mode, calm>>
  BY DEF Receive
<1>5. QED
  BY <1>3, <1>4 DEF Types, Kept

\* A timer event is handled, whether or not the timer was cancelled since.
LEMMA HandleTimerFacts ==
    ASSUME Types, AlertInv, NEW r \in Routers, NEW k \in TimerEvents, HandleTimer(r, k)
    PROVE  Types' /\ AlertInv'
<1>1. Handles(r) /\ Head(queue[r]).ev = k
  BY DEF HandleTimer, Handles
<1>2. CASE state[r] = "master" /\ k = "adver"
  <2>1. Adver(r)
    BY <1>2 DEF HandleTimer
  <2>2. Kept
    BY <1>1, <1>2, <2>1, AdverFacts
  <2>3. QED
    BY <2>2 DEF Types, Kept, HandleTimer
<1>3. CASE state[r] = "backup" /\ k \in {"down", "delay"}
  <2>1. TakeOver(r)
    BY <1>3 DEF HandleTimer
  <2>2. Kept
    BY <1>1, <2>1, TakeOverFacts
  <2>3. QED
    BY <2>2 DEF Types, Kept, HandleTimer
<1>4. CASE ~(state[r] = "master" /\ k = "adver") /\ ~(state[r] = "backup" /\ k \in {"down", "delay"})
  <2>1. Stay(r)
    BY <1>4 DEF HandleTimer
  <2>2. Kept
    BY <1>1, <1>4, <2>1, StayFacts
  <2>3. QED
    BY <2>2 DEF Types, Kept, HandleTimer
<1>5. QED
  BY <1>2, <1>3, <1>4

(***************************************************************************)
(* Time, the network and the requests.                                     *)
(***************************************************************************)

\* Time passes: no timer that runs is stopped.
LEMMA TickFacts ==
    ASSUME Types, AlertInv, Tick
    PROVE  Types' /\ AlertInv'
<1>1. timer \in [Routers -> Timers] /\ TimerEvents = {"down", "adver", "delay"}
  BY TimerFacts DEF Types
<1>2. \A r \in Routers : \A k \in TimerEvents : timer[r][k] \in Int /\ timer[r][k] >= -2
  BY <1>1, TimerFacts DEF Done
<1>3. \A r \in Routers : \A k \in TimerEvents :
         timer'[r][k] = IF timer[r][k] > 0 THEN timer[r][k] - 1 ELSE timer[r][k]
  BY DEF Tick
<1>4. \A r \in Routers : timer'[r] \in Timers
  <2>1. SUFFICES ASSUME NEW r \in Routers PROVE timer'[r] \in Timers
    OBVIOUS
  <2>2. timer'[r] = [k \in TimerEvents |-> IF timer[r][k] > 0 THEN timer[r][k] - 1 ELSE timer[r][k]]
    BY DEF Tick
  <2>3. \A k \in TimerEvents :
           (IF timer[r][k] > 0 THEN timer[r][k] - 1 ELSE timer[r][k]) \in Ticks
    BY <1>2 DEF Ticks, Done
  <2>4. QED
    BY <2>2, <2>3 DEF Timers
<1>5. timer' \in [Routers -> Timers]
  <2>1. DOMAIN timer' = Routers /\ timer' = [r \in Routers |-> timer'[r]]
    BY DEF Tick
  <2>2. QED
    BY <1>4, <2>1
<1>6. calm' \in 0 .. SettleTime
  BY SettleTimeNat DEF Types, Tick
<1>7. Types'
  BY <1>5, <1>6 DEF Types, Tick
<1>8. ASSUME NEW r \in Routers PROVE Alert(state'[r], timer'[r], queue'[r])
  <2>1. /\ \A k \in TimerEvents : timer[r][k] >= 0 => timer'[r][k] >= 0
        /\ timer[r]["delay"] = Off => timer'[r]["delay"] = Off
    BY <1>1, <1>2, <1>3 DEF Off
  <2>2. state'[r] = state[r] /\ queue'[r] = queue[r] /\ Alert(state[r], timer[r], queue[r])
    BY DEF Tick, AlertInv
  <2>3. QED
    BY <1>1, <2>1, <2>2 DEF Alert
<1>9. QED
  BY <1>7, <1>8 DEF AlertInv

\* An event is put in the queue of a router; its timers keep running but for
\* the one that posts it.
LEMMA PostFacts ==
    ASSUME Types, AlertInv, NEW r \in Routers, NEW e \in Events, Post(r, e), UNCHANGED state,
           timer' \in [Routers -> Timers], \A x \in Routers : x # r => timer'[x] = timer[x],
           \A k \in TimerEvents : timer'[r][k] = timer[r][k] \/ (k = e.ev /\ timer[r][k] = 0)
    PROVE  queue' \in [Routers -> Seq(Events)] /\ AlertInv'
<1>1. queue \in [Routers -> Seq(Events)]
  BY DEF Types
<1>2. PICK q \in Seq(Events) : q = queue[r]
  BY <1>1
<1>3. Append(q, e) \in Seq(Events) /\ \A k : Has(q, k) \/ k = e.ev => Has(Append(q, e), k)
  BY HasPut
<1>4. /\ queue' \in [Routers -> Seq(Events)] /\ queue'[r] = Append(q, e)
      /\ \A x \in Routers : x # r => queue'[x] = queue[x]
  BY <1>1, <1>2, <1>3 DEF Post
<1>5. Alert(state[r], timer[r], q)
  BY <1>2 DEF AlertInv
<1>6. Alert(state[r], timer'[r], Append(q, e))
  <2>1. PICK t : t = timer'[r]
    OBVIOUS
  <2>2. \A k \in {"down", "adver", "delay"} : t[k] = timer[r][k] \/ (k = e.ev /\ timer[r][k] = 0)
    BY <2>1, TimerFacts
  <2>3. Alert(state[r], t, Append(q, e))
    BY <1>3, <1>5, <2>2 DEF Alert, Off
  <2>4. QED
    BY <2>1, <2>3
<1>7. \A x \in Routers : Alert(state'[x], timer'[x], queue'[x])
  BY <1>4, <1>6 DEF AlertInv
<1>8. QED
  BY <1>4, <1>7 DEF AlertInv

\* A timer fires.
LEMMA TimeoutFacts ==
    ASSUME Types, AlertInv, NEW r \in Routers, NEW k \in TimerEvents, Timeout(r, k)
    PROVE  Types' /\ AlertInv'
<1>1. PICK e \in Events : e = [ev |-> k] /\ e.ev = k
  BY EventFacts
<1>2. /\ timer[r][k] = 0 /\ Post(r, e) /\ timer' = [timer EXCEPT ![r][k] = Done]
      /\ UNCHANGED <<state, prio, mode, madver, cached, net, calm>>
  BY <1>1 DEF Timeout
<1>3. timer \in [Routers -> Timers] /\ Done \in Ticks
  BY TimerFacts DEF Types
<1>4. [timer[r] EXCEPT ![k] = Done] \in Timers
  BY <1>3, TimerFacts
<1>5. /\ timer' \in [Routers -> Timers] /\ \A x \in Routers : x # r => timer'[x] = timer[x]
      /\ timer'[r] = [timer[r] EXCEPT ![k] = Done]
  BY <1>2, <1>3, <1>4
<1>6. \A j \in TimerEvents : timer'[r][j] = timer[r][j] \/ (j = e.ev /\ timer[r][j] = 0)
  BY <1>1, <1>2, <1>3, <1>5 DEF Timers
<1>7. queue' \in [Routers -> Seq(Events)] /\ AlertInv'
  BY <1>2, <1>5, <1>6, PostFacts
<1>8. QED
  BY <1>2, <1>5, <1>7 DEF Types

\* A timer of an earlier instance fires.
LEMMA OrphanFacts ==
    ASSUME Types, AlertInv, NEW r \in Routers, OrphanTimeout(r)
    PROVE  Types' /\ AlertInv'
<1>1. PICK e \in Events : e = [ev |-> "down"]
  BY EventFacts, TimerFacts
<1>2. Post(r, e) /\ UNCHANGED <<state, prio, mode, madver, cached, timer, net, calm>>
  BY <1>1 DEF OrphanTimeout
<1>3. timer' \in [Routers -> Timers]
  BY <1>2 DEF Types
<1>4. queue' \in [Routers -> Seq(Events)] /\ AlertInv'
  BY <1>2, <1>3, PostFacts
<1>5. QED
  BY <1>2, <1>4 DEF Types

\* A packet arrives or is lost.
LEMMA DeliverFacts ==
    ASSUME Types, AlertInv, NEW l \in Links, Deliver(l)
    PROVE  Types' /\ AlertInv'
<1>1. net \in [Links -> Seq(Adverts)] /\ net[l] # << >> /\ net' = [net EXCEPT ![l] = Tail(@)]
  BY DEF Types, Deliver
<1>2. Head(net[l]) \in Adverts /\ Tail(net[l]) \in Seq(Adverts)
  BY <1>1, HeadTailProperties
<1>3. net' \in [Links -> Seq(Adverts)]
  BY <1>1, <1>2
<1>4. UNCHANGED <<state, prio, mode, madver, cached, timer, calm>>
  BY DEF Deliver
<1>5. CASE UNCHANGED queue
  BY <1>3, <1>4, <1>5 DEF Types, AlertInv
<1>6. CASE Post(l[2], Head(net[l]))
  <2>1. l[2] \in Routers /\ Head(net[l]) \in Events
    BY <1>2, EventFacts DEF Links
  <2>2. timer' \in [Routers -> Timers]
    BY <1>4 DEF Types
  <2>3. queue' \in [Routers -> Seq(Events)] /\ AlertInv'
    BY <1>4, <1>6, <2>1, <2>2, PostFacts
  <2>4. QED
    BY <1>3, <1>4, <2>3 DEF Types
<1>7. QED
  BY <1>5, <1>6 DEF Deliver

\* A fault is counted.
LEMMA FaultFacts == Fault => calm' \in 0 .. SettleTime
BY SettleTimeNat DEF Fault

\* A request changes the state and the timers of one router.
LEMMA RequestAlert ==
    ASSUME AlertInv, NEW r \in Routers, UNCHANGED queue, Alert(state'[r], timer'[r], queue[r]),
           \A x \in Routers : x # r => state'[x] = state[x] /\ timer'[x] = timer[x]
    PROVE  AlertInv'
BY DEF AlertInv

\* A router is shut down.
LEMMA ShutdownFacts ==
    ASSUME Types, AlertInv, NEW r \in Routers, Shutdown(r)
    PROVE  Types' /\ AlertInv'
<1>1. timer[r] \in Timers /\ TimerEvents = {"down", "adver", "delay"} /\ Off \in Ticks
  BY TimerFacts DEF Types
<1>2. PICK ts \in Timers, msgs \in Seq(Adverts) :
         Becomes(r, "initialize", ts, msgs) /\ (msgs = << >> \/ msgs[1] \in Adverts)
  <2>1. CASE state[r] = "master"
    <3>1. PICK ts : ts = [timer[r] EXCEPT !.adver = Off]
      OBVIOUS
    <3>2. ts \in Timers
      BY <1>1, <3>1 DEF Timers
    <3>3. PICK msgs \in Seq(Adverts) : msgs = <<Advertisement(r, 0)>> /\ msgs[1] \in Adverts
      BY OneFacts, EventFacts
    <3>4. QED
      BY <2>1, <3>1, <3>2, <3>3 DEF Shutdown
  <2>2. CASE state[r] # "master"
    <3>1. PICK ts : ts = [timer[r] EXCEPT !.down = Off, !.delay = Off]
      OBVIOUS
    <3>2. ts \in Timers
      BY <1>1, <3>1 DEF Timers
    <3>3. QED
      BY <2>2, <3>1, <3>2, OneFacts DEF Shutdown
  <2>3. QED
    BY <2>1, <2>2
<1>3. PICK s \in States : s = "initialize"
  BY DEF States
<1>4. /\ state' \in [Routers -> States] /\ timer' \in [Routers -> Timers]
      /\ net' \in [Links -> Seq(Adverts)] /\ cached' \in [Routers -> Nat] /\ state'[r] = s
      /\ \A x \in Routers : x # r => state'[x] = state[x] /\ timer'[x] = timer[x]
  BY <1>2, <1>3, BecomesFacts
<1>5. UNCHANGED <<prio, mode, madver, queue>> /\ calm' \in 0 .. SettleTime
  BY FaultFacts DEF Shutdown
<1>6. AlertInv'
  BY <1>3, <1>4, <1>5, RequestAlert DEF Alert
<1>7. QED
  BY <1>4, <1>5, <1>6 DEF Types

\* How a router starts.
LEMMA StartFacts ==
    ASSUME NEW r \in Routers
    PROVE  /\ StartTimers(r) \in Timers
           /\ \A q : Alert(IF StartsMaster(r) THEN "master" ELSE "backup", StartTimers(r), q)
           /\ (IF StartsMaster(r) THEN <<Advertisement(r, StartPriority[r])>> ELSE << >>) \in Seq(Adverts)
<1>1. /\ TimerEvents = {"down", "adver", "delay"} /\ NoTimers \in Timers /\ NoTimers["delay"] = Off
      /\ Nat \subseteq Ticks
  BY TimerFacts
<1>2. /\ Interval[r] \in Nat /\ StartPriority[r] \in Nat
      /\ MasterDown(StartPriority[r], Interval[r]) \in Nat
  BY IntervalFacts
<1>3. CASE StartsMaster(r)
  <2>1. PICK ts : ts = [NoTimers EXCEPT !.adver = Interval[r]]
    OBVIOUS
  <2>2. ts \in Timers /\ ts["adver"] = Interval[r] /\ ts["delay"] = Off
    BY <1>1, <1>2, <2>1 DEF Timers
  <2>3. StartTimers(r) = ts
    BY <1>3, <2>1 DEF StartTimers
  <2>4. <<Advertisement(r, StartPriority[r])>> \in Seq(Adverts)
    BY <1>2, EventFacts, OneFacts
  <2>5. \A q : Alert("master", ts, q)
    BY <1>2, <2>2 DEF Alert
  <2>6. QED
    BY <1>3, <2>2, <2>3, <2>4, <2>5
<1>4. CASE ~StartsMaster(r)
  <2>1. PICK t \in Nat : t = MasterDown(StartPriority[r], Interval[r])
    BY <1>2
  <2>2. PICK ts : ts = [NoTimers EXCEPT !.down = t]
    OBVIOUS
  <2>3. ts \in Timers /\ ts["down"] = t
    BY <1>1, <2>1, <2>2 DEF Timers
  <2>4. StartTimers(r) = ts
    BY <1>4, <2>1, <2>2 DEF StartTimers
  <2>5. \A q : Alert("backup", ts, q)
    BY <2>1, <2>3 DEF Alert
  <2>6. QED
    BY <1>4, <2>3, <2>4, <2>5, OneFacts
<1>5. QED
  BY <1>3, <1>4

\* A router is started again.
LEMMA RestartFacts ==
    ASSUME Types, AlertInv, NEW r \in Routers, Restart(r)
    PROVE  Types' /\ AlertInv'
<1>1. PICK s \in States : s = IF StartsMaster(r) THEN "master" ELSE "backup"
  BY DEF States
<1>2. PICK ts \in Timers : ts = StartTimers(r) /\ \A q : Alert(s, ts, q)
  BY <1>1, StartFacts
<1>3. PICK msgs \in Seq(Adverts) :
         msgs = IF StartsMaster(r) THEN <<Advertisement(r, StartPriority[r])>> ELSE << >>
  BY StartFacts
<1>4. net' \in [Links -> Seq(Adverts)]
  BY <1>3, SentFacts DEF Restart
<1>5. /\ state' = [state EXCEPT ![r] = s] /\ timer' = [timer EXCEPT ![r] = ts]
      /\ UNCHANGED queue
  BY <1>1, <1>2 DEF Restart
<1>6. /\ state' \in [Routers -> States] /\ timer' \in [Routers -> Timers]
      /\ state'[r] = s /\ timer'[r] = ts
      /\ \A x \in Routers : x # r => state'[x] = state[x] /\ timer'[x] = timer[x]
  BY <1>5 DEF Types
<1>7. StartPriority[r] \in AllPriorities /\ StartPriority[r] \in Nat /\ StartMode[r] \in AllModes
      /\ Interval[r] \in Intervals
  BY IntervalFacts
<1>8. /\ prio' \in [Routers -> AllPriorities] /\ mode' \in [Routers -> AllModes]
      /\ madver' \in [Routers -> Intervals] /\ cached' \in [Routers -> Nat]
  BY <1>7 DEF Restart, Types
<1>9. calm' \in 0 .. SettleTime
  BY FaultFacts DEF Restart
<1>10. AlertInv'
  BY <1>2, <1>5, <1>6, RequestAlert
<1>11. QED
  BY <1>4, <1>5, <1>6, <1>8, <1>9, <1>10 DEF Types

\* The priority of a router is changed.
LEMMA ChangePriorityFacts ==
    ASSUME Types, AlertInv, NEW r \in Routers, NEW p \in Priorities, ChangePriority(r, p)
    PROVE  Types' /\ AlertInv'
<1>1. /\ state \in [Routers -> States] /\ timer \in [Routers -> Timers]
      /\ TimerEvents = {"down", "adver", "delay"} /\ NoTimers \in Timers /\ NoTimers["delay"] = Off
      /\ Nat \subseteq Ticks /\ Interval[r] \in Nat /\ p \in AllPriorities /\ p \in Nat
  BY TimerFacts, IntervalFacts DEF Types
<1>2. PICK speaks \in BOOLEAN : speaks = (state[r] = "master" \/ p = Owner)
  OBVIOUS
<1>3. PICK msgs \in Seq(Adverts) : msgs = IF speaks THEN <<Advertisement(r, p)>> ELSE << >>
  BY <1>1, EventFacts, OneFacts
<1>4. net' \in [Links -> Seq(Adverts)]
  BY <1>2, <1>3, SentFacts DEF ChangePriority
<1>5. /\ prio' \in [Routers -> AllPriorities] /\ cached' \in [Routers -> Nat]
      /\ state' = [state EXCEPT ![r] = IF p = Owner THEN "master" ELSE @]
  BY <1>1, <1>2 DEF ChangePriority, Types
<1>6. PICK s \in States : s = state'[r]
  BY <1>1, <1>5 DEF States
<1>7. UNCHANGED <<mode, madver, queue>> /\ calm' \in 0 .. SettleTime
  BY FaultFacts DEF ChangePriority
<1>8. Alert(state[r], timer[r], queue[r])
  BY DEF AlertInv
<1>9. CASE ~speaks
  <2>1. timer' = timer /\ state'[r] = state[r]
    BY <1>1, <1>2, <1>5, <1>9 DEF ChangePriority
  <2>2. AlertInv'
    BY <1>1, <1>5, <1>7, <1>8, <2>1, RequestAlert
  <2>3. state' \in [Routers -> States]
    BY <1>1, <1>5, <1>6
  <2>4. QED
    BY <1>1, <1>4, <1>5, <1>7, <2>1, <2>2, <2>3 DEF Types
<1>10. ASSUME NEW ts \in Timers, timer' = [timer EXCEPT ![r] = ts], speaks,
              ts["adver"] = Interval[r], ts["delay"] = Off
       PROVE  Types' /\ AlertInv'
  <2>1. s = "master"
    BY <1>1, <1>2, <1>5, <1>6, <1>10
  <2>2. Alert(s, ts, queue[r])
    BY <1>1, <1>10, <2>1 DEF Alert
  <2>3. /\ timer' \in [Routers -> Timers] /\ timer'[r] = ts /\ state' \in [Routers -> States]
        /\ \A x \in Routers : x # r => state'[x] = state[x] /\ timer'[x] = timer[x]
    BY <1>1, <1>5, <1>6, <1>10
  <2>4. AlertInv'
    BY <1>6, <1>7, <2>2, <2>3, RequestAlert
  <2>5. QED
    BY <1>4, <1>5, <1>7, <2>3, <2>4 DEF Types
<1>11. CASE speaks /\ state[r] = "master"
  <2>1. PICK ts : ts = [timer[r] EXCEPT !.adver = Interval[r]]
    OBVIOUS
  <2>2. timer[r]["delay"] = Off
    BY <1>8, <1>11 DEF Alert
  <2>3. ts \in Timers /\ ts["adver"] = Interval[r] /\ ts["delay"] = Off
    BY <1>1, <2>1, <2>2 DEF Timers
  <2>4. timer' = [timer EXCEPT ![r].adver = Interval[r]]
    BY <1>2, <1>11 DEF ChangePriority
  <2>5. timer' = [timer EXCEPT ![r] = ts]
    BY <1>1, <2>1, <2>4
  <2>6. QED
    BY <1>10, <1>11, <2>3, <2>5
<1>12. CASE speaks /\ state[r] # "master"
  <2>1. PICK ts : ts = [NoTimers EXCEPT !.adver = Interval[r]]
    OBVIOUS
  <2>2. ts \in Timers /\ ts["adver"] = Interval[r] /\ ts["delay"] = Off
    BY <1>1, <2>1 DEF Timers
  <2>3. timer' = [timer EXCEPT ![r] = ts]
    BY <1>2, <1>12, <2>1 DEF ChangePriority
  <2>4. QED
    BY <1>10, <1>12, <2>2, <2>3
<1>13. QED
  BY <1>9, <1>11, <1>12

\* The preemption mode of a router is changed.
LEMMA ChangeModeFacts ==
    ASSUME Types, AlertInv, NEW r \in Routers, NEW m \in Modes, ChangeMode(r, m)
    PROVE  Types' /\ AlertInv'
<1>1. /\ timer \in [Routers -> Timers] /\ TimerEvents = {"down", "adver", "delay"} /\ Off \in Ticks
      /\ m \in AllModes
  BY TimerFacts, IntervalFacts DEF Types
<1>2. /\ mode' \in [Routers -> AllModes] /\ cached' \in [Routers -> Nat]
      /\ UNCHANGED <<state, prio, madver, queue, net>> /\ calm' \in 0 .. SettleTime
  BY <1>1, FaultFacts DEF ChangeMode, Types
<1>3. Alert(state[r], timer[r], queue[r])
  BY DEF AlertInv
<1>4. CASE timer' = timer
  BY <1>2, <1>4 DEF Types, AlertInv
<1>5. CASE state[r] = "backup" /\ timer' = [timer EXCEPT ![r].delay = Off]
  <2>1. PICK ts : ts = [timer[r] EXCEPT !.delay = Off]
    OBVIOUS
  <2>2. ts \in Timers /\ ts["down"] = timer[r]["down"]
    BY <1>1, <2>1 DEF Timers
  <2>3. timer' = [timer EXCEPT ![r] = ts]
    BY <1>1, <1>5, <2>1
  <2>4. timer' \in [Routers -> Timers] /\ timer'[r] = ts /\ \A x \in Routers : x # r => timer'[x] = timer[x]
    BY <1>1, <2>2, <2>3
  <2>5. Alert(state[r], ts, queue[r])
    BY <1>3, <1>5, <2>2 DEF Alert
  <2>6. AlertInv'
    BY <1>2, <2>4, <2>5, RequestAlert
  <2>7. QED
    BY <1>2, <2>4, <2>6 DEF Types
<1>6. QED
  BY <1>4, <1>5 DEF ChangeMode

(***************************************************************************)
(* The theorems.                                                           *)
(***************************************************************************)

\* The routers start alert.
LEMMA AlertInit == Init => Types /\ AlertInv
<1> SUFFICES ASSUME Init PROVE Types /\ AlertInv
  OBVIOUS
<1>1. /\ state = [r \in Routers |-> IF StartsMaster(r) THEN "master" ELSE "backup"]
      /\ timer = [r \in Routers |-> StartTimers(r)]
      /\ queue = [r \in Routers |-> << >>] /\ prio = StartPriority /\ mode = StartMode
      /\ madver = Interval /\ calm = 0
      /\ cached = [r \in Routers |-> IF StartsMaster(r) THEN StartPriority[r] ELSE 0]
      /\ net = [l \in Links |-> IF StartsMaster(l[1])
                                THEN <<Advertisement(l[1], StartPriority[l[1]])>> ELSE << >>]
  BY DEF Init
<1>2. \A l \in Links : l[1] \in Routers
  BY DEF Links
<1>3. net \in [Links -> Seq(Adverts)]
  BY <1>1, <1>2, StartFacts
<1>4. state \in [Routers -> States] /\ timer \in [Routers -> Timers]
  BY <1>1, StartFacts DEF States
<1>5. /\ prio \in [Routers -> AllPriorities] /\ mode \in [Routers -> AllModes]
      /\ madver \in [Routers -> Intervals]
  BY <1>1, IntervalFacts, VrrpAssumption
<1>6. cached \in [Routers -> Nat]
  BY <1>1, IntervalFacts
<1>7. queue \in [Routers -> Seq(Events)]
  BY <1>1
<1>8. calm \in 0 .. SettleTime
  BY <1>1, SettleTimeNat
<1>9. \A r \in Routers : Alert(state[r], timer[r], queue[r])
  BY <1>1, StartFacts
<1>10. QED
  BY <1>3, <1>4, <1>5, <1>6, <1>7, <1>8, <1>9 DEF Types, AlertInv

\* Every step keeps them alert.
LEMMA AlertNext == Types /\ AlertInv /\ [Next]_vars => Types' /\ AlertInv'
<1> SUFFICES ASSUME Types, AlertInv, [Next]_vars PROVE Types' /\ AlertInv'
  OBVIOUS
<1>1. CASE UNCHANGED vars
  BY <1>1 DEF Types, AlertInv, vars
<1>2. ASSUME NEW l \in Links, Cut(l) PROVE Types' /\ AlertInv'
  <2>1. UNCHANGED <<state, prio, mode, madver, cached, timer, queue, net>> /\ calm' \in 0 .. SettleTime
    BY <1>2, FaultFacts DEF Cut
  <2>2. QED
    BY <2>1 DEF Types, AlertInv
<1>3. CASE Step
  BY <1>3, TickFacts, ReceiveFacts, HandleTimerFacts, OrphanFacts, TimeoutFacts, DeliverFacts
     DEF Step, Handle
<1>4. CASE Request
  BY <1>4, ShutdownFacts, RestartFacts, ChangePriorityFacts, ChangeModeFacts DEF Request
<1>5. QED
  BY <1>1, <1>2, <1>3, <1>4 DEF Next

\* The routers are alert in every state.
LEMMA AlertHolds == Spec => [](Types /\ AlertInv)
BY AlertInit, AlertNext, PTL DEF Spec

\* The tables of the routers have their shapes in every state; in particular a
\* master has no delayed preemption scheduled, and the intervals a router
\* learned are those of routers.
THEOREM VrrpTypes == Spec => []TypeOK
<1>1. Types /\ AlertInv => TypeOK
  <2>1. SUFFICES ASSUME Types, AlertInv PROVE TypeOK
    OBVIOUS
  <2>2. state \in [Routers -> {"initialize", "backup", "master"}] /\ calm \in 0 .. SettleTime
    BY <2>1 DEF Types, States
  <2>3. \A r \in Routers : prio[r] > 0 /\ madver[r] \in Intervals
    BY <2>1, IntervalFacts DEF Types
  <2>4. \A r \in Routers, k \in TimerEvents : timer[r][k] \in Int /\ timer[r][k] >= Done
    BY <2>1, TimerFacts DEF Types
  <2>5. \A r \in Routers : state[r] = "master" => timer[r].delay = Off
    BY <2>1 DEF AlertInv, Alert
  <2>6. QED
    BY <2>2, <2>3, <2>4, <2>5 DEF TypeOK
<1>2. QED
  BY <1>1, AlertHolds, PTL

\* No router is ever deaf, whichever cancelled or late timer events it handles:
\* a backup has its master-down timer running or the timer's event in its queue,
\* a master has its next advertisement scheduled or on its way.
THEOREM VrrpNeverDeaf == Spec => []NeverDeaf
<1>1. Types /\ AlertInv => NeverDeaf
  <2>1. SUFFICES ASSUME Types, AlertInv, NEW r \in Routers
                 PROVE  /\ state[r] = "backup" => Armed(r, "down")
                        /\ state[r] = "master" => Armed(r, "adver")
    BY DEF NeverDeaf
  <2>2. Alert(state[r], timer[r], queue[r])
    BY <2>1 DEF AlertInv
  <2>3. \A k : Has(queue[r], k) => \E i \in DOMAIN queue[r] : queue[r][i].ev = k
    <3>1. queue[r] \in Seq(Events)
      BY <2>1 DEF Types
    <3>2. DOMAIN queue[r] = 1 .. Len(queue[r])
      BY <3>1, LenProperties
    <3>3. QED
      BY <3>2 DEF Has
  <2>4. QED
    BY <2>2, <2>3 DEF Alert, Armed
<1>2. QED
  BY <1>1, AlertHolds, PTL

(***************************************************************************)
(* The election.  What is queued at a router or on its way to it is taken  *)
(* as a set of events, as the order within a tick does not matter.         *)
(***************************************************************************)
In(q) == {q[i] : i \in 1 .. Len(q)}
To(y) == {l \in Links : l[2] = y}
OnLinks(y) == UNION {In(net[l]) : l \in To(y)}
Coming(y) == In(queue[y]) \cup OnLinks(y)
Posted(y, k) == \E e \in Coming(y) : e.ev = k
OnWay(m, y) == \E e \in Coming(y) : e.ev = "received" /\ e.src = m

\* An event is put behind the others.
LEMMA InPut ==
    ASSUME NEW T, NEW q \in Seq(T), NEW e \in T
    PROVE  In(Append(q, e)) = In(q) \cup {e}
<1>1. PICK t : t = Append(q, e)
  OBVIOUS
<1>2. Len(t) = Len(q) + 1 /\ t[Len(q) + 1] = e /\ \A i \in 1 .. Len(q) : t[i] = q[i]
  BY <1>1, AppendProperties
<1>3. Len(q) \in Nat
  BY LenProperties
<1>4. \A i \in 1 .. Len(t) : i \in 1 .. Len(q) \/ i = Len(q) + 1
  BY <1>2, <1>3
<1>5. \A i \in 1 .. Len(q) : i \in 1 .. Len(t)
  BY <1>2, <1>3
<1>6. Len(q) + 1 \in 1 .. Len(t)
  BY <1>2, <1>3
<1>7. In(t) = In(q) \cup {e}
  BY <1>2, <1>4, <1>5, <1>6 DEF In
<1>8. QED
  BY <1>1, <1>7

\* The events of a sequence after the operations of the queues.
LEMMA InFacts ==
    ASSUME NEW T, NEW q \in Seq(T)
    PROVE  /\ In(q) \subseteq T
           /\ \A e \in T : In(q \o <<e>>) = In(q) \cup {e}
           /\ In(q \o << >>) = In(q)
           /\ q # << >> => In(q) = {Head(q)} \cup In(Tail(q)) /\ Tail(q) \in Seq(T)
<1>1. Len(q) \in Nat /\ \A i \in 1 .. Len(q) : q[i] \in T
  BY LenProperties, ElementOfSeq
<1>2. In(q) \subseteq T
  BY <1>1 DEF In
<1>5. ASSUME NEW e \in T PROVE In(q \o <<e>>) = In(q) \cup {e}
  <2>1. q \o <<e>> = Append(q, e)
    BY AppendIsConcat
  <2>2. In(Append(q, e)) = In(q) \cup {e}
    BY InPut
  <2>3. QED
    BY <2>1, <2>2, Zenon
<1>6. q \o << >> = q
  BY ConcatEmptySeq
<1>7. ASSUME q # << >> PROVE In(q) = {Head(q)} \cup In(Tail(q)) /\ Tail(q) \in Seq(T)
  <2>1. PICK t : t = Tail(q)
    OBVIOUS
  <2>2. /\ t \in Seq(T) /\ Head(q) = q[1] /\ Len(t) = Len(q) - 1
        /\ \A i \in 1 .. Len(t) : t[i] = q[i + 1]
    BY <1>7, <2>1, HeadTailProperties
  <2>3. Len(q) > 0
    BY <1>1, <1>7, EmptySeq
  <2>4. \A i \in 1 .. Len(t) : i + 1 \in 1 .. Len(q) /\ t[i] = q[i + 1]
    BY <1>1, <2>2
  <2>5. \A i \in 1 .. Len(q) : i = 1 \/ \E j \in 1 .. Len(t) : i = j + 1
    <3>1. SUFFICES ASSUME NEW i \in 1 .. Len(q), i # 1 PROVE \E j \in 1 .. Len(t) : i = j + 1
      OBVIOUS
    <3>2. i - 1 \in 1 .. Len(t) /\ i = (i - 1) + 1
      BY <1>1, <2>2, <3>1
    <3>3. QED
      BY <3>2
  <2>6. 1 \in 1 .. Len(q)
    BY <1>1, <2>3
  <2>7. In(q) = {q[1]} \cup In(t)
    <3>1. \A x \in In(q) : x \in {q[1]} \cup In(t)
      <4>1. SUFFICES ASSUME NEW i \in 1 .. Len(q) PROVE q[i] \in {q[1]} \cup In(t)
        BY DEF In
      <4>2. CASE i = 1
        BY <4>2
      <4>3. ASSUME NEW j \in 1 .. Len(t), i = j + 1 PROVE q[i] \in In(t)
        BY <2>4, <4>3 DEF In
      <4>4. QED
        BY <2>5, <4>2, <4>3
    <3>2. q[1] \in In(q)
      BY <2>6 DEF In
    <3>3. \A x \in In(t) : x \in In(q)
      <4>1. SUFFICES ASSUME NEW i \in 1 .. Len(t) PROVE t[i] \in In(q)
        BY DEF In
      <4>2. i + 1 \in 1 .. Len(q) /\ t[i] = q[i + 1]
        BY <2>4
      <4>3. QED
        BY <4>2 DEF In
    <3>4. QED
      BY <3>1, <3>2, <3>3
  <2>8. QED
    BY <2>1, <2>2, <2>7
<1>8. QED
  BY <1>2, <1>5, <1>6, <1>7

\* What comes to a router is an event, and what is on a link an advertisement.
LEMMA ComingFacts ==
    ASSUME Types, NEW y \in Routers
    PROVE  /\ Coming(y) \subseteq Events
           /\ \A e \in Coming(y) : e.ev = "received" => e \in Adverts
           /\ \A k \in TimerEvents : Posted(y, k) <=> Has(queue[y], k)
           /\ \A e \in Coming(y) : e \in In(queue[y]) \/ \E s \in Routers : s # y
<1>1. queue[y] \in Seq(Events) /\ \A l \in To(y) : l \in Links /\ net[l] \in Seq(Adverts)
  BY DEF Types, To
<1>2. In(queue[y]) \subseteq Events /\ \A l \in To(y) : In(net[l]) \subseteq Adverts
  BY <1>1, InFacts
<1>3. Adverts \subseteq Events /\ \A m \in Adverts : \A k \in TimerEvents : m.ev # k
  BY EventFacts
<1>4. Coming(y) \subseteq Events
  BY <1>2, <1>3 DEF Coming, OnLinks
<1>5. \A e \in Coming(y) : e.ev = "received" => e \in Adverts
  BY <1>4, EventFacts
<1>6. ASSUME NEW k \in TimerEvents PROVE Posted(y, k) <=> Has(queue[y], k)
  BY <1>2, <1>3 DEF Posted, Coming, OnLinks, Has, In
<1>7. ASSUME NEW e \in Coming(y), e \notin In(queue[y]) PROVE \E s \in Routers : s # y
  BY <1>7 DEF Coming, OnLinks, To, Links
<1>8. QED
  BY <1>4, <1>5, <1>6, <1>7

\* Nothing comes when everything is handled.
LEMMA ComingQuiet ==
    ASSUME Quiet, NEW y \in Routers
    PROVE  Coming(y) = {}
<1>1. queue[y] = << >> /\ \A l \in To(y) : net[l] = << >>
  BY DEF Quiet, To
<1>2. In(<< >>) = {}
  BY DEF In
<1>3. QED
  BY <1>1, <1>2 DEF Coming, OnLinks

\* An event is posted.
LEMMA ComingPost ==
    ASSUME Types, NEW r \in Routers, NEW e \in Events, Post(r, e), UNCHANGED net
    PROVE  /\ Coming(r)' = Coming(r) \cup {e}
           /\ \A y \in Routers : y # r => Coming(y)' = Coming(y)
<1>1. queue \in [Routers -> Seq(Events)] /\ queue' = [queue EXCEPT ![r] = Append(@, e)]
  BY DEF Types, Post
<1>2. In(queue'[r]) = In(queue[r]) \cup {e}
  <2>1. PICK q \in Seq(Events) : q = queue[r]
    BY <1>1
  <2>2. queue'[r] = Append(q, e)
    BY <1>1, <2>1
  <2>3. In(Append(q, e)) = In(q) \cup {e}
    BY InPut
  <2>4. QED
    BY <2>1, <2>2, <2>3
<1>3. \A y \in Routers : y # r => queue'[y] = queue[y]
  BY <1>1
<1>4. QED
  BY <1>2, <1>3 DEF Coming, OnLinks, To

\* A packet arrives: it was coming before.
LEMMA ComingDeliver ==
    ASSUME Types, NEW l \in Links, Deliver(l), cut = {}
    PROVE  \A y \in Routers : Coming(y)' = Coming(y)
<1>1. /\ net \in [Links -> Seq(Adverts)] /\ net[l] # << >> /\ net' = [net EXCEPT ![l] = Tail(@)]
      /\ queue \in [Routers -> Seq(Events)]
      /\ queue' = [queue EXCEPT ![l[2]] = Append(@, Head(net[l]))]
  BY DEF Types, Deliver, Post
<1>2. PICK h : h = Head(net[l])
  OBVIOUS
<1>3. In(net[l]) = {h} \cup In(net'[l]) /\ \A k \in Links : k # l => net'[k] = net[k]
  BY <1>1, <1>2, InFacts
<1>4. l[2] \in Routers /\ h \in Adverts /\ h \in Events
  BY <1>1, <1>2, HeadTailProperties, EventFacts DEF Links
<1>5. In(queue'[l[2]]) = In(queue[l[2]]) \cup {h} /\ \A y \in Routers : y # l[2] => queue'[y] = queue[y]
  <2>1. PICK q \in Seq(Events) : q = queue[l[2]]
    BY <1>1, <1>4
  <2>2. queue'[l[2]] = Append(q, h) /\ \A y \in Routers : y # l[2] => queue'[y] = queue[y]
    BY <1>1, <1>2, <1>4, <2>1
  <2>3. In(Append(q, h)) = In(q) \cup {h}
    BY <1>4, InPut
  <2>4. QED
    BY <2>1, <2>2, <2>3
<1>6. ASSUME NEW y \in Routers, y # l[2] PROVE Coming(y)' = Coming(y)
  <2>1. \A k \in To(y) : net'[k] = net[k]
    BY <1>3, <1>6 DEF To
  <2>2. QED
    BY <1>5, <1>6, <2>1 DEF Coming, OnLinks, To
<1>7. Coming(l[2])' = Coming(l[2])
  <2>1. l \in To(l[2]) /\ To(l[2]) \subseteq Links
    BY DEF To
  <2>2. UNION {In(net[k]) : k \in To(l[2])} = {h} \cup UNION {In(net'[k]) : k \in To(l[2])}
    BY <1>3, <2>1
  <2>3. QED
    BY <1>5, <2>2 DEF Coming, OnLinks, To
<1>8. QED
  BY <1>6, <1>7

\* A router takes the event at the head of its queue and sends nothing.
LEMMA ComingTake ==
    ASSUME Types, NEW r \in Routers, Handles(r), net' = Sent(net, r, << >>)
    PROVE  /\ Head(queue[r]) \in Coming(r)
           /\ Coming(r) = Coming(r)' \cup {Head(queue[r])}
           /\ \A y \in Routers : y # r => Coming(y)' = Coming(y)
<1>1. /\ queue \in [Routers -> Seq(Events)] /\ queue[r] # << >>
      /\ queue' = [queue EXCEPT ![r] = Tail(@)]
      /\ net \in [Links -> Seq(Adverts)]
  BY DEF Types, Handles
<1>2. In(queue[r]) = In(queue'[r]) \cup {Head(queue[r])} /\ \A y \in Routers : y # r => queue'[y] = queue[y]
  BY <1>1, InFacts
<1>3. \A l \in Links : In(net'[l]) = In(net[l])
  BY <1>1, InFacts DEF Sent
<1>4. \A y \in Routers : UNION {In(net[l]) : l \in To(y)} = UNION {In(net'[l]) : l \in To(y)}
  BY <1>3 DEF To
<1>5. QED
  BY <1>2, <1>4 DEF Coming, OnLinks, To

\* A router sends an advertisement to all others.
LEMMA ComingSent ==
    ASSUME Types, NEW r \in Routers, NEW p \in Adverts, net' = Sent(net, r, <<p>>), NEW y \in Routers
    PROVE  OnLinks(y)' = OnLinks(y) \cup (IF y = r THEN {} ELSE {p})
<1>1. net \in [Links -> Seq(Adverts)]
  BY DEF Types
<1>2. \A l \in Links : In(net'[l]) = IF l[1] = r THEN In(net[l]) \cup {p} ELSE In(net[l])
  <2>1. SUFFICES ASSUME NEW l \in Links
                 PROVE  In(net'[l]) = IF l[1] = r THEN In(net[l]) \cup {p} ELSE In(net[l])
    OBVIOUS
  <2>2. PICK q \in Seq(Adverts) : q = net[l]
    BY <1>1
  <2>3. net'[l] = IF l[1] = r THEN q \o <<p>> ELSE q
    BY <1>1, <2>2 DEF Sent
  <2>4. In(q \o <<p>>) = In(q) \cup {p}
    BY InFacts
  <2>5. QED
    BY <2>2, <2>3, <2>4
<1>3. \A l \in To(y) : l \in Links /\ (y = r => l[1] # r)
  BY DEF To, Links
<1>4. CASE y = r
  BY <1>2, <1>3, <1>4 DEF OnLinks, To
<1>5. CASE y # r
  <2>1. PICK k \in To(y) : k[1] = r
    <3>1. <<r, y>> \in To(y) /\ <<r, y>>[1] = r
      BY <1>5 DEF To, Links
    <3>2. QED
      BY <3>1
  <2>2. PICK U, V : U = OnLinks(y)' /\ V = OnLinks(y)
    OBVIOUS
  <2>3. \A l \in To(y) : In(net[l]) \subseteq In(net'[l]) /\ In(net'[l]) \subseteq In(net[l]) \cup {p}
    BY <1>2, <1>3
  <2>4. p \in In(net'[k])
    BY <1>2, <1>3, <2>1
  <2>5. p \in U /\ V \subseteq U
    BY <2>1, <2>2, <2>3, <2>4 DEF OnLinks, To
  <2>6. U \subseteq V \cup {p}
    BY <2>2, <2>3 DEF OnLinks, To
  <2>7. U = V \cup {p}
    BY <2>5, <2>6
  <2>8. (IF y = r THEN {} ELSE {p}) = {p}
    BY <1>5
  <2>9. QED
    BY <2>2, <2>7, <2>8, Zenon
<1>6. QED
  BY <1>4, <1>5

\* A router takes the event at the head of its queue and sends an advertisement.
LEMMA ComingSend ==
    ASSUME Types, NEW r \in Routers, Handles(r), NEW p \in Adverts, net' = Sent(net, r, <<p>>)
    PROVE  /\ Head(queue[r]) \in Coming(r)
           /\ Coming(r) = Coming(r)' \cup {Head(queue[r])}
           /\ \A y \in Routers : y # r => Coming(y)' = Coming(y) \cup {p}
<1>1. /\ queue \in [Routers -> Seq(Events)] /\ queue[r] # << >>
      /\ queue' = [queue EXCEPT ![r] = Tail(@)]
  BY DEF Types, Handles
<1>2. In(queue[r]) = In(queue'[r]) \cup {Head(queue[r])} /\ \A y \in Routers : y # r => queue'[y] = queue[y]
  BY <1>1, InFacts
<1>3. \A y \in Routers : OnLinks(y)' = OnLinks(y) \cup (IF y = r THEN {} ELSE {p})
  BY ComingSent
<1>4. ASSUME NEW y \in Routers, y # r PROVE Coming(y)' = Coming(y) \cup {p}
  <2>1. queue'[y] = queue[y] /\ OnLinks(y)' = OnLinks(y) \cup {p}
    BY <1>2, <1>3, <1>4
  <2>2. Coming(y)' = In(queue'[y]) \cup OnLinks(y)'
    BY DEF Coming
  <2>3. QED
    BY <2>1, <2>2 DEF Coming
<1>5. Coming(r) = Coming(r)' \cup {Head(queue[r])}
  <2>1. OnLinks(r)' = OnLinks(r)
    BY <1>3
  <2>2. Coming(r)' = In(queue'[r]) \cup OnLinks(r)'
    BY DEF Coming
  <2>3. QED
    BY <1>2, <2>1, <2>2 DEF Coming
<1>6. QED
  BY <1>4, <1>5

(***************************************************************************)
(* The deadlines of the election, in ticks after the last fault.  A router *)
(* that no master of its priority keeps down takes over until Elected; one *)
(* that takes over by mistake, beside a better master, does so until its   *)
(* Limit, which is later the more routers have a lower priority: hearing   *)
(* such a router is what starts its delayed preemption.                    *)
(***************************************************************************)
Below(r, s) == prio[r] < prio[s] \/ (prio[r] = prio[s] /\ r < s)
Worse(r) == {x \in Routers : prio[x] < prio[r]}
Round == LongestDelay + LongestInterval
Elected == LongestDown + LongestDelay
Limit(r) == Elected + Cardinality(Worse(r)) * Round

\* Products are monotonic.
LEMMA ProductFacts ==
    ASSUME NEW w \in Nat, NEW a \in Nat, NEW b \in Nat
    PROVE  /\ a * w \in Nat
           /\ a <= b => a * w <= b * w
           /\ a < b => a * w + w <= b * w
<1>1. \A c \in Nat : c * w \in Nat
  OBVIOUS
<1>2. ASSUME a <= b PROVE a * w <= b * w
  <2>1. PICK c \in Nat : b = a + c
    <3>1. b - a \in Nat /\ b = a + (b - a)
      BY <1>2
    <3>2. QED
      BY <3>1
  <2>2. b * w = a * w + c * w
    BY <2>1
  <2>3. QED
    BY <1>1, <2>2
<1>3. ASSUME a < b PROVE a * w + w <= b * w
  <2>1. PICK c \in Nat : b = a + 1 + c
    <3>1. b - a - 1 \in Nat /\ b = a + 1 + (b - a - 1)
      BY <1>3
    <3>2. QED
      BY <3>1
  <2>2. b * w = a * w + w + c * w
    BY <2>1
  <2>3. QED
    BY <1>1, <2>2
<1>4. QED
  BY <1>1, <1>2, <1>3

\* Master-down intervals.
LEMMA DownFacts ==
    /\ LongestInterval <= LongestDown
    /\ \A p \in AllPriorities, i \in Intervals :
          MasterDown(p, i) >= 3 * i /\ MasterDown(p, i) > 0 /\ MasterDown(p, i) <= LongestDown
<1>1. \A p \in AllPriorities, i \in Intervals : MasterDown(p, i) \in Nat /\ MasterDown(p, i) >= 3 * i
  BY IntervalFacts DEF MasterDown
<1>2. PICK r \in Routers : TRUE
  BY VrrpAssumption
<1>3. PICK p \in AllPriorities : p = StartPriority[r]
  BY IntervalFacts
<1>4. /\ MasterDown(p, LongestInterval) <= LongestDown /\ MasterDown(p, LongestInterval) >= 3 * LongestInterval
      /\ MasterDown(p, LongestInterval) \in Nat
  BY <1>1, LongestFacts
<1>5. LongestInterval <= LongestDown
  BY <1>4, LongestFacts
<1>6. \A i \in Intervals : i \in Nat /\ i > 0
  BY IntervalFacts
<1>7. QED
  BY <1>1, <1>5, <1>6, LongestFacts

\* The routers of a virtual router advertise at similar rates: one that waits
\* for three of its own intervals waits for an advertisement of any other.
\* The code does not see to it: version 2 ignores the interval in a packet.
SimilarIntervals == \A r, s \in Routers : Interval[r] < 3 * Interval[s]

\* Then a master-down interval is longer than the interval of any router.
LEMMA DownLong ==
    ASSUME SimilarIntervals, NEW p \in AllPriorities, NEW i \in Intervals, NEW m \in Routers
    PROVE  MasterDown(p, i) > Interval[m]
<1>1. PICK r \in Routers : i = Interval[r]
  BY DEF Intervals
<1>2. 3 * i > Interval[m] /\ Interval[m] \in Nat /\ i \in Nat
  BY <1>1, IntervalFacts DEF SimilarIntervals
<1>3. MasterDown(p, i) >= 3 * i /\ MasterDown(p, i) \in Nat
  BY DownFacts, IntervalFacts
<1>4. QED
  BY <1>2, <1>3

\* The limits.
LEMMA LimitFacts ==
    ASSUME Types
    PROVE  /\ \A x \in Routers : Limit(x) \in Nat /\ Elected <= Limit(x)
           /\ \A x, y \in Routers : prio[x] < prio[y] => Limit(x) + LongestDelay + LongestInterval <= Limit(y)
           /\ \A x, y \in Routers : prio[x] <= prio[y] => Limit(x) <= Limit(y)
           /\ \A x, y \in Routers : x # y /\ prio[x] <= prio[y] => Limit(x) + LongestInterval < SettleTime
           /\ \A x, y \in Routers : x # y => Elected < SettleTime
<1>1. \A x \in Routers : prio[x] \in Nat
  BY IntervalFacts DEF Types
<1>2. Round \in Nat /\ Elected \in Nat /\ LongestDelay \in Nat /\ LongestInterval \in Nat /\ LongestDown \in Nat
      /\ Round = LongestDelay + LongestInterval /\ Elected = LongestDown + LongestDelay
  BY LongestFacts DEF Round, Elected
<1>3. IsFiniteSet(Routers) /\ Cardinality(Routers) \in Nat
  BY VrrpAssumption, FS_CardinalityType
<1>4. \A x \in Routers : /\ Worse(x) \subseteq Routers /\ IsFiniteSet(Worse(x))
                         /\ Cardinality(Worse(x)) \in Nat
  <2>1. SUFFICES ASSUME NEW x \in Routers
                 PROVE  Worse(x) \subseteq Routers /\ IsFiniteSet(Worse(x)) /\ Cardinality(Worse(x)) \in Nat
    OBVIOUS
  <2>2. Worse(x) \subseteq Routers
    BY DEF Worse
  <2>3. IsFiniteSet(Worse(x))
    BY <1>3, <2>2, FS_Subset
  <2>4. QED
    BY <2>2, <2>3, FS_CardinalityType
<1>5. \A x \in Routers : Limit(x) \in Nat /\ Elected <= Limit(x)
  <2>1. SUFFICES ASSUME NEW x \in Routers PROVE Limit(x) \in Nat /\ Elected <= Limit(x)
    OBVIOUS
  <2>2. Cardinality(Worse(x)) * Round \in Nat
    BY <1>2, <1>4, ProductFacts
  <2>3. QED
    BY <1>2, <2>2 DEF Limit
<1>6. ASSUME NEW x \in Routers, NEW y \in Routers, prio[x] < prio[y]
      PROVE  Limit(x) + LongestDelay + LongestInterval <= Limit(y)
  <2>1. Worse(x) \subseteq Worse(y)
    BY <1>1, <1>6 DEF Worse
  <2>2. x \in Worse(y) /\ x \notin Worse(x)
    BY <1>1, <1>6 DEF Worse
  <2>3. Cardinality(Worse(x)) < Cardinality(Worse(y))
    BY <1>4, <2>1, <2>2, FS_Subset
  <2>4. Cardinality(Worse(x)) * Round + Round <= Cardinality(Worse(y)) * Round
    BY <1>2, <1>4, <2>3, ProductFacts
  <2>5. Cardinality(Worse(x)) * Round \in Nat /\ Cardinality(Worse(y)) * Round \in Nat
    BY <1>2, <1>4, ProductFacts
  <2>6. QED
    BY <1>2, <2>4, <2>5 DEF Limit
<1>7. ASSUME NEW x \in Routers, NEW y \in Routers, prio[x] <= prio[y]
      PROVE  Limit(x) <= Limit(y)
  <2>1. Worse(x) \subseteq Worse(y)
    BY <1>1, <1>7 DEF Worse
  <2>2. Cardinality(Worse(x)) <= Cardinality(Worse(y))
    BY <1>4, <2>1, FS_Subset
  <2>3. Cardinality(Worse(x)) * Round <= Cardinality(Worse(y)) * Round
    BY <1>2, <1>4, <2>2, ProductFacts
  <2>4. Cardinality(Worse(x)) * Round \in Nat /\ Cardinality(Worse(y)) * Round \in Nat
    BY <1>2, <1>4, ProductFacts
  <2>5. QED
    BY <1>2, <2>3, <2>4 DEF Limit
<1>8. ASSUME NEW x \in Routers, NEW y \in Routers, x # y
      PROVE  /\ Cardinality(Routers) >= 2
             /\ prio[x] <= prio[y] => Cardinality(Worse(x)) + 2 <= Cardinality(Routers)
  <2>1. IsFiniteSet(Routers \ {x}) /\ Cardinality(Routers \ {x}) = Cardinality(Routers) - 1
    BY <1>3, FS_RemoveElement
  <2>2. y \in Routers \ {x}
    BY <1>8
  <2>3. PICK R, S : R = Routers \ {x} /\ S = R \ {y}
    OBVIOUS
  <2>4. IsFiniteSet(S) /\ Cardinality(S) = Cardinality(Routers) - 2 /\ Cardinality(S) \in Nat
    <3>1. IsFiniteSet(R) /\ y \in R /\ Cardinality(R) = Cardinality(Routers) - 1
      BY <2>1, <2>2, <2>3
    <3>2. IsFiniteSet(S) /\ Cardinality(S) = Cardinality(R) - 1
      BY <2>3, <3>1, FS_RemoveElement
    <3>3. Cardinality(S) \in Nat
      BY <3>2, FS_CardinalityType
    <3>4. QED
      BY <1>3, <3>1, <3>2, <3>3
  <2>5. ASSUME prio[x] <= prio[y] PROVE Cardinality(Worse(x)) + 2 <= Cardinality(Routers)
    <3>1. Worse(x) \subseteq S
      BY <1>1, <2>3, <2>5 DEF Worse
    <3>2. Cardinality(Worse(x)) <= Cardinality(S)
      BY <2>4, <3>1, FS_Subset
    <3>3. QED
      BY <1>3, <1>4, <2>4, <3>2
  <2>6. QED
    BY <1>3, <2>4, <2>5
<1>9. ASSUME NEW x \in Routers, NEW y \in Routers, x # y
      PROVE  /\ Elected < SettleTime
             /\ prio[x] <= prio[y] => Limit(x) + LongestInterval < SettleTime
  <2>1. PICK n \in Nat : n = Cardinality(Routers) - 1 /\ n >= 1
    BY <1>3, <1>8, <1>9
  <2>2. n * Round \in Nat /\ SettleTime = LongestDown + n * Round + 1
    BY <1>2, <2>1, ProductFacts DEF SettleTime, Round
  <2>3. 1 * Round <= n * Round
    BY <1>2, <2>1, ProductFacts
  <2>4. Elected < SettleTime
    BY <1>2, <2>2, <2>3
  <2>5. ASSUME prio[x] <= prio[y] PROVE Limit(x) + LongestInterval < SettleTime
    <3>1. PICK c \in Nat : c = Cardinality(Worse(x)) /\ c < n
      BY <1>3, <1>4, <1>8, <1>9, <2>1, <2>5
    <3>2. c * Round + Round <= n * Round /\ c * Round \in Nat
      BY <1>2, <3>1, ProductFacts
    <3>3. QED
      BY <1>2, <2>2, <3>1, <3>2 DEF Limit
  <2>6. QED
    BY <2>4, <2>5
<1>10. QED
  BY <1>5, <1>6, <1>7, <1>9

\* Limits depend on the priorities only.
LEMMA LimitSame ==
    ASSUME UNCHANGED prio
    PROVE  \A x : Limit(x)' = Limit(x)
BY DEF Limit, Worse

(***************************************************************************)
(* What a router does with an event h: the events that remain or are new,  *)
(* its state and its timers afterwards.                                    *)
(***************************************************************************)
Takes(r, h, out) ==
    /\ h \in Coming(r) /\ Coming(r) = Coming(r)' \cup {h}
    /\ \A y \in Routers : y # r =>
          /\ Coming(y)' = Coming(y) \cup out
          /\ state'[y] = state[y] /\ timer'[y] = timer[y] /\ cached'[y] = cached[y]
    /\ UNCHANGED <<prio, mode, orphans, calm, cut>>

Turns(r, s, down, adver, delay) ==
    /\ state'[r] = s
    /\ timer'[r].down = down /\ timer'[r].adver = adver /\ timer'[r].delay = delay

\* The timer of a backup that heard a master.
LongWait(d) == d \in Nat /\ d > 0 /\ d <= LongestDown /\ \A m \in Routers : d > Interval[m]

StayView(r, h) ==
    /\ Takes(r, h, {}) /\ cached'[r] = cached[r]
    /\ Turns(r, state[r], timer[r].down, timer[r].adver, timer[r].delay)
    /\ state[r] = "master" => h.ev # "adver" /\ (h.ev = "received" => h.prio # 0 /\ ~GivesWay(r, h))
    /\ state[r] = "backup" => /\ h.ev \notin {"down", "delay"}
                              /\ h.ev = "received" => mode[r].preempt /\ prio[r] > h.prio

AdverView(r, h) ==
    /\ Takes(r, h, {Packet(r)}) /\ cached'[r] = Packet(r).prio
    /\ Turns(r, "master", timer[r].down, Interval[r], timer[r].delay)
    /\ state[r] = "master" /\ (h.ev = "adver" \/ (h.ev = "received" /\ h.prio = 0))

TakeOverView(r, h) ==
    /\ Takes(r, h, {Packet(r)}) /\ cached'[r] = Packet(r).prio
    /\ Turns(r, "master", timer[r].down, Interval[r], Off)
    /\ state[r] = "backup" /\ h.ev \in {"down", "delay"}

Hears(r, h, s) == state[r] = s /\ h.ev = "received" /\ h.prio # 0 /\ cached'[r] = cached[r] /\ Takes(r, h, {})

GiveWayView(r, h) ==
    /\ Hears(r, h, "master") /\ GivesWay(r, h)
    /\ \E d : LongWait(d) /\ Turns(r, "backup", d, Off, timer[r].delay)

FollowView(r, h) ==
    /\ Hears(r, h, "backup") /\ (~mode[r].preempt \/ prio[r] <= h.prio)
    /\ \E d, l : LongWait(d) /\ l \in {Off, timer[r].delay} /\ Turns(r, "backup", d, timer[r].adver, l)

WaitView(r, h) ==
    /\ Hears(r, h, "backup") /\ mode[r].preempt /\ prio[r] > h.prio /\ mode[r].delay > 0
    /\ \E d : /\ LongWait(d)
              /\ Turns(r, "backup", d, timer[r].adver,
                       IF timer[r].delay = Off THEN mode[r].delay ELSE timer[r].delay)

\* Only in the tick of a fault is a master's release on its way.
ReleaseView(r, h) ==
    /\ Takes(r, h, {}) /\ cached'[r] = cached[r]
    /\ state[r] = "backup" /\ h.ev = "received" /\ h.prio = 0
    /\ \E d \in Nat : d <= LongestDown /\ Turns(r, "backup", d, timer[r].adver, timer[r].delay)

\* A handler that changes one router and sends nothing.
LEMMA TakesNothing ==
    ASSUME Types, NEW r \in Routers, Handles(r), NEW s, NEW ts, Becomes(r, s, ts, << >>),
           UNCHANGED <<prio, mode, orphans, calm, cut>>
    PROVE  /\ Takes(r, Head(queue[r]), {}) /\ cached'[r] = cached[r]
           /\ state'[r] = s /\ timer'[r] = ts
<1>1. net' = Sent(net, r, << >>) /\ cached' = cached
  BY DEF Becomes
<1>2. state \in [Routers -> States] /\ timer \in [Routers -> Timers]
  BY DEF Types
<1>3. /\ state' = [state EXCEPT ![r] = s] /\ timer' = [timer EXCEPT ![r] = ts]
  BY DEF Becomes
<1>4. state'[r] = s /\ timer'[r] = ts /\ \A y \in Routers : y # r => state'[y] = state[y] /\ timer'[y] = timer[y]
  BY <1>2, <1>3
<1>5. /\ Head(queue[r]) \in Coming(r) /\ Coming(r) = Coming(r)' \cup {Head(queue[r])}
      /\ \A y \in Routers : y # r => Coming(y)' = Coming(y)
  BY <1>1, ComingTake
<1>6. QED
  BY <1>1, <1>4, <1>5 DEF Takes

\* A handler that changes one router and sends an advertisement.
LEMMA TakesPacket ==
    ASSUME Types, NEW r \in Routers, Handles(r), NEW s, NEW ts, Becomes(r, s, ts, <<Packet(r)>>),
           UNCHANGED <<prio, mode, orphans, calm, cut>>
    PROVE  /\ Takes(r, Head(queue[r]), {Packet(r)}) /\ cached'[r] = Packet(r).prio
           /\ state'[r] = s /\ timer'[r] = ts
<1>1. PICK p \in Adverts : p = Packet(r)
  BY PacketFacts
<1>2. net' = Sent(net, r, <<p>>) /\ cached' = [cached EXCEPT ![r] = p.prio]
  BY <1>1, OneFacts DEF Becomes
<1>3. state \in [Routers -> States] /\ timer \in [Routers -> Timers] /\ cached \in [Routers -> Nat]
  BY DEF Types
<1>4. state' = [state EXCEPT ![r] = s] /\ timer' = [timer EXCEPT ![r] = ts]
  BY DEF Becomes
<1>5. /\ state'[r] = s /\ timer'[r] = ts /\ cached'[r] = p.prio
      /\ \A y \in Routers : y # r => state'[y] = state[y] /\ timer'[y] = timer[y] /\ cached'[y] = cached[y]
  BY <1>2, <1>3, <1>4
<1>6. /\ Head(queue[r]) \in Coming(r) /\ Coming(r) = Coming(r)' \cup {Head(queue[r])}
      /\ \A y \in Routers : y # r => Coming(y)' = Coming(y) \cup {p}
  BY <1>2, ComingSend
<1>7. QED
  BY <1>1, <1>5, <1>6 DEF Takes

\* The handlers of timer events.
LEMMA TimerViews ==
    ASSUME Types, NEW r \in Routers, NEW k \in TimerEvents, HandleTimer(r, k)
    PROVE  \E h : StayView(r, h) \/ AdverView(r, h) \/ TakeOverView(r, h)
<1>1. Handles(r) /\ Head(queue[r]).ev = k /\ UNCHANGED <<prio, mode, orphans, calm, cut>>
  BY DEF HandleTimer, Handles
<1>2. PICK h : h = Head(queue[r]) /\ h.ev = k /\ k # "received"
  BY <1>1, TimerFacts
<1>3. timer[r] \in Timers /\ TimerEvents = {"down", "adver", "delay"} /\ Interval[r] \in Ticks /\ Off \in Ticks
  BY TimerFacts, IntervalFacts DEF Types
<1>4. CASE state[r] = "master" /\ k = "adver"
  <2>1. PICK ts : ts = [timer[r] EXCEPT !.adver = Interval[r]]
    OBVIOUS
  <2>2. Becomes(r, "master", ts, <<Packet(r)>>)
    BY <1>4, <2>1 DEF HandleTimer, Adver
  <2>3. Takes(r, h, {Packet(r)}) /\ cached'[r] = Packet(r).prio /\ state'[r] = "master" /\ timer'[r] = ts
    BY <1>1, <1>2, <2>2, TakesPacket
  <2>4. ts.down = timer[r].down /\ ts.adver = Interval[r] /\ ts.delay = timer[r].delay
    BY <1>3, <2>1 DEF Timers
  <2>5. AdverView(r, h)
    BY <1>2, <1>4, <2>3, <2>4 DEF AdverView, Turns
  <2>6. QED
    BY <2>5
<1>5. CASE state[r] = "backup" /\ k \in {"down", "delay"}
  <2>1. PICK ts : ts = [timer[r] EXCEPT !.delay = Off, !.adver = Interval[r]]
    OBVIOUS
  <2>2. Becomes(r, "master", ts, <<Packet(r)>>)
    BY <1>5, <2>1 DEF HandleTimer, TakeOver
  <2>3. Takes(r, h, {Packet(r)}) /\ cached'[r] = Packet(r).prio /\ state'[r] = "master" /\ timer'[r] = ts
    BY <1>1, <1>2, <2>2, TakesPacket
  <2>4. ts.down = timer[r].down /\ ts.adver = Interval[r] /\ ts.delay = Off
    BY <1>3, <2>1 DEF Timers
  <2>5. TakeOverView(r, h)
    BY <1>2, <1>5, <2>3, <2>4 DEF TakeOverView, Turns
  <2>6. QED
    BY <2>5
<1>6. CASE ~(state[r] = "master" /\ k = "adver") /\ ~(state[r] = "backup" /\ k \in {"down", "delay"})
  <2>1. Becomes(r, state[r], timer[r], << >>)
    BY <1>6 DEF HandleTimer, Stay
  <2>2. Takes(r, h, {}) /\ cached'[r] = cached[r] /\ state'[r] = state[r] /\ timer'[r] = timer[r]
    BY <1>1, <1>2, <2>1, TakesNothing
  <2>3. StayView(r, h)
    BY <1>2, <1>6, <2>2 DEF StayView, Turns
  <2>4. QED
    BY <2>3
<1>7. QED
  BY <1>4, <1>5, <1>6

\* The handlers of advertisements.
LEMMA ReceiveViews ==
    ASSUME SimilarIntervals, Types, NEW r \in Routers, Receive(r)
    PROVE  \E h : \/ StayView(r, h) \/ AdverView(r, h) \/ GiveWayView(r, h)
                  \/ FollowView(r, h) \/ WaitView(r, h) \/ ReleaseView(r, h)
<1>1. Handles(r) /\ UNCHANGED <<prio, mode, orphans, calm, cut>>
  BY DEF Receive, Handles
<1>2. PICK h \in Adverts : h = Head(queue[r]) /\ h.ev = "received"
  <2>1. queue[r] \in Seq(Events) /\ queue[r] # << >> /\ Head(queue[r]).ev = "received"
    BY DEF Types, Receive
  <2>2. QED
    BY <2>1, HasTake, EventFacts
<1>3. /\ timer[r] \in Timers /\ TimerEvents = {"down", "adver", "delay"} /\ Interval[r] \in Ticks /\ Off \in Ticks
      /\ Nat \subseteq Ticks
  BY TimerFacts, IntervalFacts DEF Types
<1>4. /\ prio[r] \in AllPriorities /\ prio[r] \in Nat /\ h.prio \in Nat
      /\ Learned(r, h) \in Intervals /\ madver[r] \in Intervals
      /\ mode[r].delay \in Nat
  BY LearnedFacts, EventFacts, IntervalFacts DEF Types
<1>5. LongWait(MasterDown(prio[r], Learned(r, h))) /\ LongWait(MasterDown(prio[r], madver[r]))
  BY <1>4, DownFacts, DownLong, IntervalFacts DEF LongWait
<1>6. ASSUME Stay(r),
             state[r] = "master" => h.prio # 0 /\ ~GivesWay(r, h),
             state[r] = "backup" => mode[r].preempt /\ prio[r] > h.prio
      PROVE  StayView(r, h)
  <2>1. Becomes(r, state[r], timer[r], << >>)
    BY <1>6 DEF Stay
  <2>2. Takes(r, h, {}) /\ cached'[r] = cached[r] /\ state'[r] = state[r] /\ timer'[r] = timer[r]
    BY <1>1, <1>2, <2>1, TakesNothing
  <2>3. QED
    BY <1>2, <1>6, <2>2 DEF StayView, Turns
<1>7. CASE state[r] = "master"
  <2>1. MasterReceives(r, h)
    BY <1>2, <1>7 DEF Receive
  <2>2. CASE h.prio = 0
    <3>1. PICK ts : ts = [timer[r] EXCEPT !.adver = Interval[r]]
      OBVIOUS
    <3>2. Becomes(r, "master", ts, <<Packet(r)>>)
      BY <2>1, <2>2, <3>1 DEF MasterReceives, Adver
    <3>3. Takes(r, h, {Packet(r)}) /\ cached'[r] = Packet(r).prio /\ state'[r] = "master" /\ timer'[r] = ts
      BY <1>1, <1>2, <3>2, TakesPacket
    <3>4. ts.down = timer[r].down /\ ts.adver = Interval[r] /\ ts.delay = timer[r].delay
      BY <1>3, <3>1 DEF Timers
    <3>5. AdverView(r, h)
      BY <1>2, <1>7, <2>2, <3>3, <3>4 DEF AdverView, Turns
    <3>6. QED
      BY <3>5
  <2>3. CASE h.prio # 0 /\ GivesWay(r, h)
    <3>1. PICK d : d = MasterDown(prio[r], Learned(r, h)) /\ LongWait(d) /\ d \in Nat
      BY <1>5 DEF LongWait
    <3>2. PICK ts : ts = [timer[r] EXCEPT !.adver = Off, !.down = d]
      OBVIOUS
    <3>3. Becomes(r, "backup", ts, << >>)
      BY <2>1, <2>3, <3>1, <3>2 DEF MasterReceives
    <3>4. Takes(r, h, {}) /\ cached'[r] = cached[r] /\ state'[r] = "backup" /\ timer'[r] = ts
      BY <1>1, <1>2, <3>3, TakesNothing
    <3>5. ts.down = d /\ ts.adver = Off /\ ts.delay = timer[r].delay
      BY <1>3, <3>1, <3>2 DEF Timers
    <3>6. GiveWayView(r, h)
      BY <1>2, <1>7, <2>3, <3>1, <3>4, <3>5 DEF GiveWayView, Hears, Turns
    <3>7. QED
      BY <3>6
  <2>4. CASE h.prio # 0 /\ ~GivesWay(r, h)
    BY <1>6, <1>7, <2>1, <2>4 DEF MasterReceives
  <2>5. QED
    BY <2>2, <2>3, <2>4
<1>8. CASE state[r] = "backup"
  <2>1. BackupReceives(r, h)
    BY <1>2, <1>8 DEF Receive
  <2>2. CASE h.prio = 0
    <3>1. PICK d \in Nat : d = SkewTime(prio[r], madver[r]) /\ d <= LongestDown
      <4>1. SkewTime(prio[r], madver[r]) \in Nat /\ MasterDown(prio[r], madver[r]) <= LongestDown
        BY <1>4, IntervalFacts, LongestFacts
      <4>2. madver[r] \in Nat /\ LongestDown \in Nat
        BY <1>4, IntervalFacts, LongestFacts
      <4>3. QED
        BY <4>1, <4>2 DEF MasterDown
    <3>2. PICK ts : ts = [timer[r] EXCEPT !.down = d]
      OBVIOUS
    <3>3. Becomes(r, "backup", ts, << >>)
      BY <2>1, <2>2, <3>1, <3>2 DEF BackupReceives
    <3>4. Takes(r, h, {}) /\ cached'[r] = cached[r] /\ state'[r] = "backup" /\ timer'[r] = ts
      BY <1>1, <1>2, <3>3, TakesNothing
    <3>5. ts.down = d /\ ts.adver = timer[r].adver /\ ts.delay = timer[r].delay
      BY <1>3, <3>1, <3>2 DEF Timers
    <3>6. ReleaseView(r, h)
      BY <1>2, <1>8, <2>2, <3>1, <3>4, <3>5 DEF ReleaseView, Turns
    <3>7. QED
      BY <3>6
  <2>3. CASE h.prio # 0 /\ (~mode[r].preempt \/ prio[r] <= h.prio)
    <3>1. PICK d : d = MasterDown(prio[r], Learned(r, h)) /\ LongWait(d) /\ d \in Nat
      BY <1>5 DEF LongWait
    <3>2. PICK l \in Ticks : l = IF version = 2 THEN Off ELSE timer[r].delay
      BY <1>3 DEF Timers
    <3>3. PICK ts : ts = [timer[r] EXCEPT !.delay = l, !.down = d]
      OBVIOUS
    <3>4. Becomes(r, "backup", ts, << >>)
      BY <2>1, <2>3, <3>1, <3>2, <3>3 DEF BackupReceives
    <3>5. Takes(r, h, {}) /\ cached'[r] = cached[r] /\ state'[r] = "backup" /\ timer'[r] = ts
      BY <1>1, <1>2, <3>4, TakesNothing
    <3>6. ts.down = d /\ ts.adver = timer[r].adver /\ ts.delay = l /\ l \in {Off, timer[r].delay}
      BY <1>3, <3>1, <3>2, <3>3 DEF Timers
    <3>7. FollowView(r, h)
      BY <1>2, <1>8, <2>3, <3>1, <3>5, <3>6 DEF FollowView, Hears, Turns
    <3>8. QED
      BY <3>7
  <2>4. CASE h.prio # 0 /\ ~(~mode[r].preempt \/ prio[r] <= h.prio) /\ mode[r].delay > 0
    <3>1. PICK d : d = MasterDown(prio[r], madver[r]) /\ LongWait(d) /\ d \in Nat
      BY <1>5 DEF LongWait
    <3>2. PICK l \in Ticks : l = IF timer[r].delay = Off THEN mode[r].delay ELSE timer[r].delay
      BY <1>3, <1>4 DEF Timers
    <3>3. PICK ts : ts = [timer[r] EXCEPT !.delay = l, !.down = d]
      OBVIOUS
    <3>4. Becomes(r, "backup", ts, << >>)
      BY <2>1, <2>4, <3>1, <3>2, <3>3 DEF BackupReceives
    <3>5. Takes(r, h, {}) /\ cached'[r] = cached[r] /\ state'[r] = "backup" /\ timer'[r] = ts
      BY <1>1, <1>2, <3>4, TakesNothing
    <3>6. ts.down = d /\ ts.adver = timer[r].adver /\ ts.delay = l
      BY <1>3, <3>1, <3>2, <3>3 DEF Timers
    <3>7. mode[r].preempt /\ prio[r] > h.prio
      BY <1>4, <2>4
    <3>8. WaitView(r, h)
      BY <1>2, <1>8, <2>4, <3>1, <3>2, <3>5, <3>6, <3>7 DEF WaitView, Hears, Turns
    <3>9. QED
      BY <3>8
  <2>5. CASE h.prio # 0 /\ ~(~mode[r].preempt \/ prio[r] <= h.prio) /\ ~(mode[r].delay > 0)
    <3>1. mode[r].preempt /\ prio[r] > h.prio
      BY <1>4, <2>5
    <3>2. Stay(r)
      BY <2>1, <2>5 DEF BackupReceives
    <3>3. QED
      BY <1>6, <1>8, <3>1, <3>2
  <2>6. QED
    BY <2>2, <2>3, <2>4, <2>5
<1>9. CASE state[r] # "master" /\ state[r] # "backup"
  BY <1>6, <1>9 DEF Receive
<1>10. QED
  BY <1>7, <1>8, <1>9

(***************************************************************************)
(* What holds of a router at any time, faults included: the ranges of the  *)
(* timers, which router may have a delayed preemption, and the packet that *)
(* is cached.  A router alone hears nothing.                               *)
(***************************************************************************)
Company(r) == \E s \in Routers : s # r

Fit(r) ==
    /\ timer[r].down <= LongestDown /\ timer[r].adver <= Interval[r] /\ timer[r].delay <= LongestDelay
    /\ timer[r].delay # Off => mode[r].preempt /\ state[r] = "backup" /\ Company(r)
    /\ timer[r].delay = Done => Posted(r, "delay")
    /\ cached[r] \in {0, prio[r]}
    /\ Posted(r, "received") => Company(r)

Sane ==
    /\ orphans \in [Routers -> SUBSET (0 .. LongestDown)]
    /\ \A r \in Routers : Fit(r)

\* A router that does nothing and loses nothing.
LEMMA FitKeep ==
    ASSUME NEW r \in Routers, Fit(r), timer'[r] = timer[r], mode'[r] = mode[r], state'[r] = state[r],
           cached'[r] = cached[r], prio'[r] = prio[r], Coming(r) \subseteq Coming(r)',
           Posted(r, "received")' => Posted(r, "received") \/ Company(r)
    PROVE  Fit(r)'
<1>1. Company(r)' <=> Company(r)
  BY DEF Company
<1>2. Posted(r, "delay") => Posted(r, "delay")'
  BY DEF Posted
<1>3. QED
  BY <1>1, <1>2 DEF Fit

\* The routers that see another router handle an event.
LEMMA FitOthers ==
    ASSUME Sane, NEW r \in Routers, NEW h, NEW out, Takes(r, h, out), NEW y \in Routers, y # r
    PROVE  Fit(y)'
<1>1. /\ Coming(y)' = Coming(y) \cup out /\ state'[y] = state[y] /\ timer'[y] = timer[y]
      /\ cached'[y] = cached[y] /\ prio'[y] = prio[y] /\ mode'[y] = mode[y]
  BY DEF Takes
<1>2. Company(y) /\ Fit(y)
  BY DEF Company, Sane
<1>3. Coming(y) \subseteq Coming(y)'
  BY <1>1
<1>4. QED
  BY <1>1, <1>2, <1>3, FitKeep

\* The router that handles an event.
LEMMA FitSelf ==
    ASSUME Sane, NEW r \in Routers, NEW h, NEW out, Takes(r, h, out),
           NEW s, NEW d, NEW a, NEW l, Turns(r, s, d, a, l),
           d <= LongestDown, a <= Interval[r], l <= LongestDelay, cached'[r] \in {0, prio[r]},
           l # Off => mode[r].preempt /\ s = "backup" /\ Company(r),
           l = Done => timer[r].delay = Done /\ h.ev # "delay"
    PROVE  Sane'
<1>1. /\ Coming(r) = Coming(r)' \cup {h} /\ prio'[r] = prio[r] /\ mode'[r] = mode[r]
      /\ orphans' = orphans
  BY DEF Takes
<1>2. state'[r] = s /\ timer'[r].down = d /\ timer'[r].adver = a /\ timer'[r].delay = l
  BY DEF Turns
<1>3. Company(r)' <=> Company(r)
  BY DEF Company
<1>4. Fit(r)
  BY DEF Sane
<1>5. Posted(r, "received")' => Posted(r, "received")
  BY <1>1 DEF Posted
<1>6. l = Done => Posted(r, "delay")'
  <2>1. SUFFICES ASSUME l = Done PROVE Posted(r, "delay")'
    OBVIOUS
  <2>2. PICK e \in Coming(r) : e.ev = "delay"
    BY <1>4, <2>1 DEF Fit, Posted
  <2>3. e # h
    BY <2>1, <2>2
  <2>4. QED
    BY <1>1, <2>2, <2>3 DEF Posted
<1>7. Fit(r)'
  BY <1>1, <1>2, <1>3, <1>4, <1>5, <1>6 DEF Fit
<1>8. \A y \in Routers : y # r => Fit(y)'
  BY FitOthers
<1>9. QED
  BY <1>1, <1>7, <1>8 DEF Sane

\* The packet of a router has its priority.
LEMMA PacketSane ==
    ASSUME Types, Sane, NEW r \in Routers
    PROVE  /\ Packet(r) \in Adverts /\ Packet(r).ev = "received" /\ Packet(r).src = r
           /\ Packet(r).prio = prio[r] /\ prio[r] \in Nat /\ prio[r] > 0
<1>1. cached[r] \in {0, prio[r]}
  BY DEF Sane, Fit
<1>2. prio[r] \in Nat /\ prio[r] > 0
  BY IntervalFacts DEF Types
<1>3. Packet(r) = Advertisement(r, prio[r])
  BY <1>1 DEF Packet
<1>4. QED
  BY <1>2, <1>3, EventFacts DEF Advertisement

\* Every handler.
LEMMA SaneViews ==
    ASSUME Types, AlertInv, Sane, NEW r \in Routers, NEW h,
           \/ StayView(r, h) \/ AdverView(r, h) \/ TakeOverView(r, h) \/ GiveWayView(r, h)
           \/ FollowView(r, h) \/ WaitView(r, h) \/ ReleaseView(r, h)
    PROVE  Sane'
<1>1. Fit(r) /\ timer[r] \in Timers /\ Off <= LongestDelay /\ Off <= Interval[r] /\ Off # Done
  BY IntervalFacts, LongestFacts DEF Sane, Types, Off, Done
<1>2. Interval[r] <= Interval[r] /\ \A x : LongWait(x) => x <= LongestDown
  BY IntervalFacts DEF LongWait
<1>3. /\ timer[r].down <= LongestDown /\ timer[r].adver <= Interval[r] /\ timer[r].delay <= LongestDelay
      /\ timer[r].delay # Off => mode[r].preempt /\ state[r] = "backup" /\ Company(r)
      /\ cached[r] \in {0, prio[r]} /\ (Posted(r, "received") => Company(r))
  BY <1>1 DEF Fit
<1>4. state[r] = "master" => timer[r].delay = Off
  BY <1>3
<1>5. CASE StayView(r, h)
  <2>1. Takes(r, h, {}) /\ Turns(r, state[r], timer[r].down, timer[r].adver, timer[r].delay)
        /\ cached'[r] = cached[r]
    BY <1>5 DEF StayView
  <2>2. timer[r].delay # Off => h.ev # "delay"
    BY <1>3, <1>5 DEF StayView
  <2>3. QED
    BY <1>1, <1>3, <2>1, <2>2, FitSelf
<1>6. CASE AdverView(r, h)
  <2>1. Takes(r, h, {Packet(r)}) /\ Turns(r, "master", timer[r].down, Interval[r], timer[r].delay)
        /\ cached'[r] = prio[r] /\ timer[r].delay = Off
    BY <1>4, <1>6, PacketSane DEF AdverView
  <2>2. QED
    BY <1>1, <1>2, <1>3, <2>1, FitSelf
<1>7. CASE TakeOverView(r, h)
  <2>1. Takes(r, h, {Packet(r)}) /\ Turns(r, "master", timer[r].down, Interval[r], Off)
        /\ cached'[r] = prio[r]
    BY <1>7, PacketSane DEF TakeOverView
  <2>2. QED
    BY <1>1, <1>2, <1>3, <2>1, FitSelf
<1>8. CASE GiveWayView(r, h)
  <2>1. PICK d : LongWait(d) /\ Turns(r, "backup", d, Off, timer[r].delay)
    BY <1>8 DEF GiveWayView
  <2>2. Takes(r, h, {}) /\ cached'[r] = cached[r] /\ timer[r].delay = Off
    BY <1>4, <1>8 DEF GiveWayView, Hears
  <2>3. QED
    BY <1>1, <1>2, <1>3, <2>1, <2>2, FitSelf
<1>9. CASE FollowView(r, h)
  <2>1. PICK d, l : LongWait(d) /\ l \in {Off, timer[r].delay} /\ Turns(r, "backup", d, timer[r].adver, l)
    BY <1>9 DEF FollowView
  <2>2. Takes(r, h, {}) /\ cached'[r] = cached[r] /\ h.ev = "received"
    BY <1>9 DEF FollowView, Hears
  <2>3. l <= LongestDelay /\ (l # Off => l = timer[r].delay)
    BY <1>1, <1>3, <2>1
  <2>4. QED
    BY <1>1, <1>2, <1>3, <2>1, <2>2, <2>3, FitSelf
<1>10. CASE WaitView(r, h)
  <2>1. PICK l : l = IF timer[r].delay = Off THEN mode[r].delay ELSE timer[r].delay
    OBVIOUS
  <2>2. PICK d : LongWait(d) /\ Turns(r, "backup", d, timer[r].adver, l)
    BY <1>10, <2>1 DEF WaitView
  <2>3. Takes(r, h, {}) /\ cached'[r] = cached[r] /\ h.ev = "received" /\ mode[r].preempt
    BY <1>10 DEF WaitView, Hears
  <2>4. Posted(r, "received")
    BY <2>3 DEF Takes, Posted
  <2>5. mode[r].delay \in Nat /\ mode[r].delay <= LongestDelay
    BY IntervalFacts, LongestFacts DEF Types
  <2>6. l <= LongestDelay
    BY <1>3, <2>1, <2>5
  <2>7. l = Done => timer[r].delay = Done /\ h.ev # "delay"
    BY <2>1, <2>3, <2>5 DEF Done
  <2>8. QED
    BY <1>1, <1>2, <1>3, <2>2, <2>3, <2>4, <2>6, <2>7, FitSelf
<1>11. CASE ReleaseView(r, h)
  <2>1. PICK d \in Nat : d <= LongestDown /\ Turns(r, "backup", d, timer[r].adver, timer[r].delay)
    BY <1>11 DEF ReleaseView
  <2>2. Takes(r, h, {}) /\ cached'[r] = cached[r] /\ h.ev = "received"
    BY <1>11 DEF ReleaseView
  <2>3. QED
    BY <1>1, <1>3, <2>1, <2>2, FitSelf
<1>12. QED
  BY <1>5, <1>6, <1>7, <1>8, <1>9, <1>10, <1>11

\* What comes to a router, in the next state.
ComingTyped ==
    \A y \in Routers :
        /\ Posted(y, "delay") <=> Has(queue[y], "delay")
        /\ \A e \in Coming(y) : e \in In(queue[y]) \/ Company(y)

\* It follows from the types in any state.
LEMMA ComingNext == Types => ComingTyped
<1>1. "delay" \in TimerEvents
  BY TimerFacts
<1>2. QED
  BY <1>1, ComingFacts DEF ComingTyped, Company

\* A router whose queue does not change, and which starts no delayed preemption.
LEMMA FitQueue ==
    ASSUME Types, Types', NEW r \in Routers, Fit(r), queue'[r] = queue[r],
           timer'[r].down <= LongestDown, timer'[r].adver <= Interval[r], timer'[r].delay <= LongestDelay,
           timer'[r].delay # Off => /\ timer[r].delay # Off /\ mode'[r] = mode[r] /\ state'[r] = state[r]
                                    /\ timer'[r].delay = Done => timer[r].delay = Done,
           cached'[r] \in {0, prio'[r]}
    PROVE  Fit(r)'
<1>1. Company(r)' <=> Company(r)
  BY DEF Company
<1>2. ComingTyped /\ ComingTyped'
  BY ComingNext, PTL
<1>3. Posted(r, "delay") <=> Has(queue[r], "delay")
  BY <1>2 DEF ComingTyped
<1>4. Posted(r, "delay")' <=> Has(queue'[r], "delay")
  BY <1>2 DEF ComingTyped
<1>5. Posted(r, "delay")' <=> Posted(r, "delay")
  BY <1>3, <1>4 DEF Has
<1>6. Posted(r, "received")' => Posted(r, "received") \/ Company(r)
  <2>1. SUFFICES ASSUME NEW e \in Coming(r)', e.ev = "received" PROVE Posted(r, "received") \/ Company(r)
    BY DEF Posted
  <2>3. e \in In(queue[r])' \/ Company(r)
    BY <1>1, <1>2 DEF ComingTyped
  <2>4. In(queue[r])' = In(queue[r])
    BY DEF In
  <2>5. QED
    BY <2>1, <2>3, <2>4 DEF Posted, Coming
<1>7. /\ timer'[r].delay # Off => mode'[r].preempt /\ state'[r] = "backup" /\ Company(r)'
      /\ timer'[r].delay = Done => Posted(r, "delay")'
  <2>1. Off # Done
    BY DEF Off, Done
  <2>2. QED
    BY <1>1, <1>5, <2>1 DEF Fit
<1>8. Posted(r, "received")' => Company(r)'
  BY <1>1, <1>6 DEF Fit
<1>9. QED
  BY <1>7, <1>8 DEF Fit

\* An event of a timer is posted.
LEMMA FitPost ==
    ASSUME Types, NEW r \in Routers, Fit(r), NEW e \in Events, Post(r, e), UNCHANGED <<net, state, mode, prio, cached>>,
           e.ev # "received", NEW k \in TimerEvents,
           timer'[r].down \in {timer[r].down, Done}, timer'[r].adver \in {timer[r].adver, Done},
           \/ timer'[r].delay = timer[r].delay
           \/ timer'[r].delay = Done /\ timer[r].delay = 0 /\ e.ev = "delay"
    PROVE  Fit(r)'
<1>1. Coming(r)' = Coming(r) \cup {e}
  BY ComingPost
<1>2. /\ Posted(r, "received")' => Posted(r, "received")
      /\ Posted(r, "delay") => Posted(r, "delay")'
      /\ e.ev = "delay" => Posted(r, "delay")'
  BY <1>1 DEF Posted
<1>3. Company(r)' <=> Company(r)
  BY DEF Company
<1>4. Done <= LongestDown /\ Done <= Interval[r] /\ Done <= LongestDelay /\ 0 # Off
  BY IntervalFacts, LongestFacts DEF Done, Off
<1>5. QED
  BY <1>2, <1>3, <1>4 DEF Fit

\* The timers that post an event.
LEMMA SanePost ==
    ASSUME Types, AlertInv, Sane, NEW r \in Routers, NEW k \in TimerEvents,
           Timeout(r, k) \/ OrphanTimeout(r)
    PROVE  Sane'
<1>1. Types'
  BY TimeoutFacts, OrphanFacts
<1>2. PICK e \in Events : Post(r, e) /\ e.ev # "received" /\ (Timeout(r, k) => e.ev = k)
  BY EventFacts, TimerFacts DEF Timeout, OrphanTimeout
<1>3. timer \in [Routers -> Timers] /\ TimerEvents = {"down", "adver", "delay"} /\ queue \in [Routers -> Seq(Events)]
  BY TimerFacts DEF Types
<1>4. /\ UNCHANGED <<net, state, mode, prio, cached>>
      /\ orphans' = orphans \/ orphans' = [orphans EXCEPT ![r] = @ \ {0}]
      /\ timer' = timer \/ (timer' = [timer EXCEPT ![r][k] = Done] /\ timer[r][k] = 0 /\ e.ev = k)
  BY <1>2 DEF Timeout, OrphanTimeout
<1>5. orphans' \in [Routers -> SUBSET (0 .. LongestDown)]
  BY <1>4 DEF Sane
<1>6. Fit(r)'
  <2>1. \/ timer'[r].down = timer[r].down /\ timer'[r].adver = timer[r].adver /\ timer'[r].delay = timer[r].delay
        \/ timer'[r] = [timer[r] EXCEPT ![k] = Done] /\ timer[r][k] = 0 /\ e.ev = k
    BY <1>3, <1>4
  <2>2. /\ timer'[r].down \in {timer[r].down, Done} /\ timer'[r].adver \in {timer[r].adver, Done}
        /\ \/ timer'[r].delay = timer[r].delay
           \/ timer'[r].delay = Done /\ timer[r].delay = 0 /\ e.ev = "delay"
    BY <1>3, <2>1 DEF Timers
  <2>3. QED
    BY <1>2, <1>4, <2>2, FitPost DEF Sane
<1>7. ASSUME NEW y \in Routers, y # r PROVE Fit(y)'
  <2>1. Fit(y) /\ queue'[y] = queue[y] /\ timer'[y] = timer[y]
    BY <1>2, <1>3, <1>4, <1>7 DEF Sane, Post
  <2>2. QED
    BY <1>1, <1>4, <2>1, FitQueue DEF Fit
<1>8. QED
  BY <1>5, <1>6, <1>7 DEF Sane

\* A packet arrives or is lost.
LEMMA SaneDeliver ==
    ASSUME Types, AlertInv, Sane, NEW l \in Links, Deliver(l)
    PROVE  Sane'
<1>1. Types'
  BY DeliverFacts
<1>2. UNCHANGED <<state, mode, prio, cached, timer, orphans>>
  BY DEF Deliver
<1>3. l[2] \in Routers /\ Company(l[2])
  BY DEF Links, Company
<1>4. /\ queue \in [Routers -> Seq(Events)]
      /\ queue' = queue \/ (Post(l[2], Head(net[l])) /\ Head(net[l]) \in Events)
  <2>1. net[l] \in Seq(Adverts) /\ net[l] # << >>
    BY DEF Types, Deliver
  <2>2. Head(net[l]) \in Events
    BY <2>1, HeadTailProperties, EventFacts
  <2>3. QED
    BY <2>2 DEF Types, Deliver
<1>5. ASSUME NEW y \in Routers, queue'[y] = queue[y] PROVE Fit(y)'
  BY <1>1, <1>2, <1>5, FitQueue DEF Sane, Fit
<1>6. \A y \in Routers : y # l[2] => queue'[y] = queue[y]
  BY <1>4 DEF Post
<1>7. CASE Post(l[2], Head(net[l])) /\ Head(net[l]) \in Events
  <2>1. PICK y \in Routers : y = l[2] /\ Company(y)
    BY <1>3
  <2>2. PICK q \in Seq(Events) : q = queue[y]
    BY <1>4
  <2>3. queue'[y] = Append(q, Head(net[l]))
    BY <1>4, <1>7, <2>1, <2>2 DEF Post
  <2>4. Has(q, "delay") => Has(queue'[y], "delay")
    BY <1>7, <2>3, HasPut
  <2>5. ComingTyped /\ ComingTyped'
    BY <1>1, ComingNext, PTL
  <2>6. Posted(y, "delay") <=> Has(queue[y], "delay")
    BY <2>5 DEF ComingTyped
  <2>7. Posted(y, "delay")' <=> Has(queue'[y], "delay")
    BY <2>5 DEF ComingTyped
  <2>8. Posted(y, "delay") => Posted(y, "delay")'
    BY <2>2, <2>4, <2>6, <2>7
  <2>9. Company(y)'
    BY <2>1 DEF Company
  <2>10. Fit(y)'
    BY <1>2, <2>8, <2>9 DEF Fit, Sane
  <2>11. QED
    BY <1>2, <1>5, <1>6, <2>1, <2>10 DEF Sane
<1>8. CASE queue' = queue
  BY <1>2, <1>5, <1>8 DEF Sane
<1>9. QED
  BY <1>4, <1>7, <1>8

\* Time passes.
LEMMA SaneTick ==
    ASSUME Types, AlertInv, Sane, Tick
    PROVE  Sane'
<1>1. Types' /\ UNCHANGED <<state, mode, prio, cached, queue>>
  BY TickFacts DEF Tick
<1>2. /\ timer \in [Routers -> Timers] /\ TimerEvents = {"down", "adver", "delay"}
      /\ \A r \in Routers : \A k \in TimerEvents : timer[r][k] \in Int
  BY TimerFacts DEF Types
<1>3. \A r \in Routers : \A k \in TimerEvents :
         timer'[r][k] = IF timer[r][k] > 0 THEN timer[r][k] - 1 ELSE timer[r][k]
  BY <1>2 DEF Tick
<1>4. orphans' \in [Routers -> SUBSET (0 .. LongestDown)]
  <2>1. \A r \in Routers : orphans[r] \subseteq 0 .. LongestDown /\ 0 \notin orphans[r]
    BY DEF Sane, Tick, Quiet, Expired
  <2>2. orphans' = [r \in Routers |-> {t - 1 : t \in orphans[r]}]
    BY DEF Tick
  <2>3. \A r \in Routers : \A t \in orphans[r] : t - 1 \in 0 .. LongestDown
    BY <2>1, LongestFacts
  <2>4. QED
    BY <2>2, <2>3
<1>5. ASSUME NEW r \in Routers PROVE Fit(r)'
  <2>1. Fit(r)
    BY DEF Sane
  <2>2. Interval[r] \in Nat /\ LongestDown \in Nat /\ LongestDelay \in Nat
    BY IntervalFacts, LongestFacts
  <2>3. \A k \in TimerEvents : \A b \in Nat : timer[r][k] <= b => timer'[r][k] <= b
    BY <1>2, <1>3
  <2>4. /\ timer'[r].down <= LongestDown /\ timer'[r].adver <= Interval[r] /\ timer'[r].delay <= LongestDelay
    BY <1>2, <2>1, <2>2, <2>3 DEF Fit
  <2>5. /\ timer[r].delay = Off => timer'[r].delay = Off
        /\ timer'[r].delay = Done => timer[r].delay = Done
    BY <1>2, <1>3 DEF Off, Done
  <2>6. cached'[r] \in {0, prio'[r]}
    BY <1>1, <2>1 DEF Fit
  <2>7. QED
    BY <1>1, <2>1, <2>4, <2>5, <2>6, FitQueue
<1>6. QED
  BY <1>4, <1>5 DEF Sane

\* A request to the router r, which starts no delayed preemption.
LEMMA SaneRequest ==
    ASSUME Types, Types', Sane, NEW r \in Routers, UNCHANGED queue,
           \A y \in Routers : y # r => /\ timer'[y] = timer[y] /\ state'[y] = state[y] /\ cached'[y] = cached[y]
                                       /\ prio'[y] = prio[y] /\ mode'[y] = mode[y],
           NEW d, NEW a, NEW l, timer'[r].down = d, timer'[r].adver = a, timer'[r].delay = l,
           d \in {Off, timer[r].down} \/ (d \in Nat /\ d <= LongestDown), a \in {Off, timer[r].adver, Interval[r]},
           l = Off \/ (l = timer[r].delay /\ mode'[r] = mode[r] /\ state'[r] = state[r]),
           cached'[r] \in {0, prio'[r]},
           orphans' \in [Routers -> SUBSET (0 .. LongestDown)]
    PROVE  Sane'
<1>1. Fit(r)
  BY DEF Sane
<1>2. Off <= LongestDown /\ Off <= LongestDelay /\ Off <= Interval[r] /\ Interval[r] <= Interval[r]
  BY IntervalFacts, LongestFacts DEF Off
<1>3. d <= LongestDown /\ a <= Interval[r] /\ l <= LongestDelay
  BY <1>1, <1>2 DEF Fit
<1>4. Fit(r)'
  BY <1>1, <1>3, FitQueue
<1>5. ASSUME NEW y \in Routers, y # r PROVE Fit(y)'
  <2>1. Fit(y)
    BY DEF Sane
  <2>2. QED
    BY <1>5, <2>1, FitQueue DEF Fit
<1>6. QED
  BY <1>4, <1>5 DEF Sane

\* A router is shut down.
LEMMA SaneShutdown ==
    ASSUME Types, AlertInv, Sane, NEW r \in Routers, Shutdown(r)
    PROVE  Sane'
<1>1. Types'
  BY ShutdownFacts
<1>2. /\ state \in [Routers -> States] /\ timer \in [Routers -> Timers] /\ cached \in [Routers -> Nat]
      /\ TimerEvents = {"down", "adver", "delay"}
  BY TimerFacts DEF Types
<1>3. UNCHANGED <<prio, mode, orphans, queue>>
  BY DEF Shutdown
<1>4. orphans' \in [Routers -> SUBSET (0 .. LongestDown)] /\ cached[r] \in {0, prio[r]}
  BY <1>3 DEF Sane, Fit
<1>5. CASE state[r] = "master"
  <2>1. PICK ts : ts = [timer[r] EXCEPT !.adver = Off]
    OBVIOUS
  <2>2. PICK p \in Adverts : p = Advertisement(r, 0) /\ p.prio = 0
    BY EventFacts
  <2>3. Becomes(r, "initialize", ts, <<p>>)
    BY <1>5, <2>1, <2>2 DEF Shutdown
  <2>4. /\ state' = [state EXCEPT ![r] = "initialize"] /\ timer' = [timer EXCEPT ![r] = ts]
        /\ cached' = [cached EXCEPT ![r] = 0]
    BY <2>2, <2>3, OneFacts DEF Becomes
  <2>5. ts.down = timer[r].down /\ ts.adver = Off /\ ts.delay = timer[r].delay
    BY <1>2, <2>1 DEF Timers
  <2>6. ts.delay = Off
    BY <1>5, <2>5 DEF AlertInv, Alert
  <2>7. /\ timer'[r] = ts /\ cached'[r] = 0
        /\ \A y \in Routers : y # r => timer'[y] = timer[y] /\ state'[y] = state[y] /\ cached'[y] = cached[y]
    BY <1>2, <2>4
  <2>8. QED
    BY <1>1, <1>3, <1>4, <2>5, <2>6, <2>7, SaneRequest
<1>6. CASE state[r] # "master"
  <2>1. PICK ts : ts = [timer[r] EXCEPT !.down = Off, !.delay = Off]
    OBVIOUS
  <2>2. Becomes(r, "initialize", ts, << >>)
    BY <1>6, <2>1 DEF Shutdown
  <2>3. state' = [state EXCEPT ![r] = "initialize"] /\ timer' = [timer EXCEPT ![r] = ts] /\ cached' = cached
    BY <2>2 DEF Becomes
  <2>4. ts.down = Off /\ ts.adver = timer[r].adver /\ ts.delay = Off
    BY <1>2, <2>1 DEF Timers
  <2>5. /\ timer'[r] = ts /\ cached'[r] = cached[r]
        /\ \A y \in Routers : y # r => timer'[y] = timer[y] /\ state'[y] = state[y] /\ cached'[y] = cached[y]
    BY <1>2, <2>3
  <2>6. QED
    BY <1>1, <1>3, <1>4, <2>4, <2>5, SaneRequest
<1>7. QED
  BY <1>5, <1>6

\* The timers a router starts with.
LEMMA StartSane ==
    ASSUME NEW r \in Routers
    PROVE  /\ StartTimers(r).down = Off \/ (StartTimers(r).down \in Nat /\ StartTimers(r).down <= LongestDown)
           /\ StartTimers(r).adver \in {Off, Interval[r]}
           /\ StartTimers(r).delay = Off
<1>1. /\ MasterDown(StartPriority[r], Interval[r]) \in Nat
      /\ MasterDown(StartPriority[r], Interval[r]) <= LongestDown
  BY IntervalFacts, LongestFacts
<1>2. CASE StartsMaster(r)
  BY <1>2 DEF StartTimers, NoTimers
<1>3. CASE ~StartsMaster(r)
  <2>1. PICK d : d = MasterDown(StartPriority[r], Interval[r])
    OBVIOUS
  <2>2. StartTimers(r) = [NoTimers EXCEPT !.down = d]
    BY <1>3, <2>1 DEF StartTimers
  <2>3. StartTimers(r).down = d /\ StartTimers(r).adver = Off /\ StartTimers(r).delay = Off
    BY <2>2 DEF NoTimers
  <2>4. QED
    BY <1>1, <2>1, <2>3
<1>4. QED
  BY <1>2, <1>3

\* The manager starts a router with the name of one that was shut down.
LEMMA SaneRestart ==
    ASSUME Types, AlertInv, Sane, NEW r \in Routers, Restart(r)
    PROVE  Sane'
<1>1. Types'
  BY RestartFacts
<1>2. /\ state \in [Routers -> States] /\ timer \in [Routers -> Timers] /\ cached \in [Routers -> Nat]
      /\ prio \in [Routers -> AllPriorities] /\ mode \in [Routers -> AllModes]
  BY DEF Types
<1>3. PICK s, c : /\ s = IF StartsMaster(r) THEN "master" ELSE "backup"
                  /\ c = IF StartsMaster(r) THEN StartPriority[r] ELSE 0
  OBVIOUS
<1>4. /\ state' = [state EXCEPT ![r] = s] /\ timer' = [timer EXCEPT ![r] = StartTimers(r)]
      /\ cached' = [cached EXCEPT ![r] = c] /\ prio' = [prio EXCEPT ![r] = StartPriority[r]]
      /\ mode' = [mode EXCEPT ![r] = StartMode[r]] /\ UNCHANGED queue
  BY <1>3 DEF Restart
<1>5. c \in {0, StartPriority[r]}
  BY <1>3
<1>6. orphans' \in [Routers -> SUBSET (0 .. LongestDown)]
  <2>1. orphans' = [orphans EXCEPT ![r] = @ \cup {t \in {timer[r].down} : t >= 0}]
    BY DEF Restart
  <2>2. timer[r].down \in Int /\ timer[r].down <= LongestDown /\ LongestDown \in Nat
    BY <1>2, TimerFacts, LongestFacts DEF Sane, Fit
  <2>3. {t \in {timer[r].down} : t >= 0} \subseteq 0 .. LongestDown
    BY <2>2
  <2>4. PICK W : W = {t \in {timer[r].down} : t >= 0}
    OBVIOUS
  <2>5. QED
    BY <2>1, <2>3, <2>4 DEF Sane
<1>7. /\ timer'[r] = StartTimers(r) /\ cached'[r] = c /\ prio'[r] = StartPriority[r]
      /\ \A y \in Routers : y # r => /\ timer'[y] = timer[y] /\ state'[y] = state[y] /\ cached'[y] = cached[y]
                                     /\ prio'[y] = prio[y] /\ mode'[y] = mode[y]
  BY <1>2, <1>4
<1>8. QED
  BY <1>1, <1>4, <1>5, <1>6, <1>7, StartSane, SaneRequest

\* The priority of a router is changed.
LEMMA SaneChangePriority ==
    ASSUME Types, AlertInv, Sane, NEW r \in Routers, NEW p \in Priorities, ChangePriority(r, p)
    PROVE  Sane'
<1>1. Types'
  BY ChangePriorityFacts
<1>2. /\ state \in [Routers -> States] /\ timer \in [Routers -> Timers] /\ cached \in [Routers -> Nat]
      /\ prio \in [Routers -> AllPriorities] /\ TimerEvents = {"down", "adver", "delay"}
  BY TimerFacts DEF Types
<1>3. PICK s, c : /\ s = IF p = Owner THEN "master" ELSE state[r]
                  /\ c = IF state[r] = "master" \/ p = Owner THEN p ELSE 0
  OBVIOUS
<1>4. /\ prio' = [prio EXCEPT ![r] = p] /\ UNCHANGED <<mode, orphans, queue>>
      /\ state' = [state EXCEPT ![r] = IF p = Owner THEN "master" ELSE @]
      /\ cached' = [cached EXCEPT ![r] = c]
  BY <1>3 DEF ChangePriority
<1>5. orphans' \in [Routers -> SUBSET (0 .. LongestDown)]
  BY <1>4 DEF Sane
<1>6. /\ prio'[r] = p /\ cached'[r] \in {0, p}
      /\ \A y \in Routers : y # r => /\ state'[y] = state[y] /\ cached'[y] = cached[y]
                                     /\ prio'[y] = prio[y] /\ mode'[y] = mode[y]
  BY <1>2, <1>3, <1>4
<1>7. CASE ~(state[r] = "master" \/ p = Owner)
  <2>1. timer' = timer /\ state'[r] = state[r]
    BY <1>2, <1>4, <1>7 DEF ChangePriority
  <2>2. QED
    BY <1>1, <1>4, <1>5, <1>6, <2>1, SaneRequest
<1>8. CASE state[r] = "master"
  <2>1. PICK ts : ts = [timer[r] EXCEPT !.adver = Interval[r]]
    OBVIOUS
  <2>2. timer' = [timer EXCEPT ![r] = ts]
    BY <1>2, <1>8, <2>1 DEF ChangePriority
  <2>3. ts.down = timer[r].down /\ ts.adver = Interval[r] /\ ts.delay = timer[r].delay
    BY <1>2, <2>1 DEF Timers
  <2>4. ts.delay = Off
    BY <1>8, <2>3 DEF AlertInv, Alert
  <2>5. timer'[r] = ts /\ \A y \in Routers : y # r => timer'[y] = timer[y]
    BY <1>2, <2>2
  <2>6. QED
    BY <1>1, <1>4, <1>5, <1>6, <2>3, <2>4, <2>5, SaneRequest
<1>9. CASE state[r] # "master" /\ p = Owner
  <2>1. PICK ts : ts = [NoTimers EXCEPT !.adver = Interval[r]]
    OBVIOUS
  <2>2. timer' = [timer EXCEPT ![r] = ts]
    BY <1>2, <1>9, <2>1 DEF ChangePriority
  <2>3. ts.down = Off /\ ts.adver = Interval[r] /\ ts.delay = Off
    BY <2>1 DEF NoTimers
  <2>4. timer'[r] = ts /\ \A y \in Routers : y # r => timer'[y] = timer[y]
    BY <1>2, <2>2
  <2>5. QED
    BY <1>1, <1>4, <1>5, <1>6, <2>3, <2>4, SaneRequest
<1>10. QED
  BY <1>7, <1>8, <1>9

\* The mode of a router is changed.
LEMMA SaneChangeMode ==
    ASSUME Types, AlertInv, Sane, NEW r \in Routers, NEW m \in Modes, ChangeMode(r, m)
    PROVE  Sane'
<1>1. Types'
  BY ChangeModeFacts
<1>2. /\ state \in [Routers -> States] /\ timer \in [Routers -> Timers] /\ cached \in [Routers -> Nat]
      /\ mode \in [Routers -> AllModes] /\ TimerEvents = {"down", "adver", "delay"}
  BY TimerFacts DEF Types
<1>3. /\ mode' = [mode EXCEPT ![r] = m] /\ cached' = [cached EXCEPT ![r] = 0]
      /\ UNCHANGED <<state, prio, orphans, queue>>
  BY DEF ChangeMode
<1>4. PICK ts : ts = IF state[r] = "backup" THEN [timer[r] EXCEPT !.delay = Off] ELSE timer[r]
  OBVIOUS
<1>5. timer' = [timer EXCEPT ![r] = ts]
  BY <1>2, <1>4 DEF ChangeMode
<1>6. ts.down = timer[r].down /\ ts.adver = timer[r].adver
  BY <1>2, <1>4 DEF Timers
<1>7. ts.delay = Off
  <2>1. state[r] # "backup" => timer[r].delay = Off
    BY DEF Sane, Fit
  <2>2. state[r] = "backup" => ts.delay = Off
    BY <1>2, <1>4 DEF Timers
  <2>3. QED
    BY <1>4, <2>1, <2>2
<1>8. /\ timer'[r] = ts /\ cached'[r] = 0 /\ orphans' \in [Routers -> SUBSET (0 .. LongestDown)]
      /\ \A y \in Routers : y # r => timer'[y] = timer[y] /\ cached'[y] = cached[y] /\ mode'[y] = mode[y]
  BY <1>2, <1>3, <1>5 DEF Sane
<1>9. QED
  BY <1>1, <1>3, <1>6, <1>7, <1>8, SaneRequest

\* The routers start sane.
LEMMA SaneInit == Init => Sane
<1> SUFFICES ASSUME Init PROVE Sane
  OBVIOUS
<1>1. /\ timer = [r \in Routers |-> StartTimers(r)] /\ prio = StartPriority /\ Types
      /\ cached = [r \in Routers |-> IF StartsMaster(r) THEN StartPriority[r] ELSE 0]
      /\ orphans = [r \in Routers |-> {}] /\ queue = [r \in Routers |-> << >>]
  BY AlertInit DEF Init
<1>2. ASSUME NEW r \in Routers PROVE Fit(r)
  <2>1. Off <= LongestDown /\ Off <= LongestDelay /\ Off <= Interval[r] /\ Off # Done /\ Interval[r] <= Interval[r]
    BY IntervalFacts, LongestFacts DEF Off, Done
  <2>2. timer[r] = StartTimers(r) /\ cached[r] \in {0, prio[r]}
    BY <1>1
  <2>3. /\ timer[r].down <= LongestDown /\ timer[r].adver <= Interval[r] /\ timer[r].delay = Off
    BY <2>1, <2>2, StartSane
  <2>4. ASSUME NEW e \in Coming(r) PROVE Company(r)
    <3>1. In(queue[r]) = {}
      BY <1>1 DEF In
    <3>2. QED
      BY <1>1, <3>1, ComingFacts DEF Company
  <2>5. Posted(r, "received") => Company(r)
    BY <2>4 DEF Posted
  <2>6. QED
    BY <2>1, <2>2, <2>3, <2>5 DEF Fit
<1>3. orphans \in [Routers -> SUBSET (0 .. LongestDown)]
  BY <1>1
<1>4. QED
  BY <1>2, <1>3 DEF Sane

\* Every step keeps them sane.
LEMMA SaneNext ==
    ASSUME SimilarIntervals, Types, AlertInv, Sane, [Next]_vars
    PROVE  Sane'
<1>1. Types'
  BY AlertNext
<1>2. ASSUME UNCHANGED <<state, prio, mode, cached, timer, orphans, queue>> PROVE Sane'
  <2>1. \A r \in Routers : Fit(r)'
    BY <1>1, <1>2, FitQueue DEF Sane, Fit
  <2>2. QED
    BY <1>2, <2>1 DEF Sane
<1>3. CASE UNCHANGED vars
  BY <1>2, <1>3 DEF vars
<1>4. ASSUME NEW l \in Links, Cut(l) PROVE Sane'
  BY <1>2, <1>4 DEF Cut
<1>5. ASSUME NEW r \in Routers, Handle(r) PROVE Sane'
  <2>1. CASE Receive(r)
    BY <2>1, ReceiveViews, SaneViews
  <2>2. ASSUME NEW k \in TimerEvents, HandleTimer(r, k) PROVE Sane'
    BY <2>2, TimerViews, SaneViews
  <2>3. QED
    BY <1>5, <2>1, <2>2 DEF Handle
<1>6. ASSUME NEW r \in Routers, OrphanTimeout(r) PROVE Sane'
  <2>1. "down" \in TimerEvents
    BY TimerFacts
  <2>2. QED
    BY <1>6, <2>1, SanePost
<1>7. CASE Step
  BY <1>5, <1>6, <1>7, SaneTick, SanePost, SaneDeliver DEF Step
<1>8. CASE Request
  BY <1>8, SaneShutdown, SaneRestart, SaneChangePriority, SaneChangeMode DEF Request
<1>9. QED
  BY <1>3, <1>4, <1>7, <1>8 DEF Next

(***************************************************************************)
(* The election, as long as no fault happens and every link works.         *)
(***************************************************************************)
Settling == calm > 0 /\ cut = {}

\* y gives way to the advertisements of the master m, or waits for them.
Follows(y, m) ==
    /\ y \in Routers /\ m \in Masters /\ y # m
    /\ \/ state[y] = "master" /\ Below(y, m)
       \/ state[y] = "backup" /\ (~mode[y].preempt \/ prio[y] <= prio[m])

Topmost(y) == \A m \in Masters : prio[m] < prio[y]

\* A backup that no master keeps down.
Unled(y) == state[y] = "backup" /\ Topmost(y) /\ (mode[y].preempt \/ Masters = {})

\* y may still take over from m, or over m, by mistake.
InTime(y, m) == calm <= Limit(y) /\ (Topmost(y) => calm <= Limit(m))

\* The advertisement e comes from a master, or a better one is there that ends
\* the mistake of its sender.
Current(e) ==
    /\ e.prio = prio[e.src]
    /\ \E m \in Masters : m = e.src \/ Below(e.src, m)
    /\ \A m \in Masters : Below(e.src, m) => calm <= Limit(e.src) + LongestInterval

\* The next advertisement of m comes before the timer of y expires, or is on
\* its way, or was scheduled before the last fault.
Reached(y, m) ==
    \/ timer[y].down > 0 /\ timer[y].down > timer[m].adver
    \/ OnWay(m, y) /\ (timer[y].down > 0 \/ InTime(y, m))
    \/ calm <= Interval[m] /\ calm + timer[m].adver <= Interval[m]

HeardPart == \A y \in Routers : \A e \in Coming(y) : e.ev = "received" => Current(e)
ReachPart == \A y, m \in Routers : Follows(y, m) => Reached(y, m)
DownPart == \A y, m \in Routers : Follows(y, m) /\ Posted(y, "down") => InTime(y, m)
RivalPart ==
    \A x, m \in Masters : Below(x, m) =>
        /\ calm <= Limit(x) + LongestInterval
        /\ OnWay(m, x) \/ calm + timer[m].adver <= Limit(x) + LongestInterval
DelayAt(y) ==
    /\ timer[y].delay # Off => calm <= Limit(y) /\ calm + timer[y].delay <= Limit(y)
    /\ Posted(y, "delay") => calm <= Limit(y) /\ mode[y].preempt
DelayPart == \A y \in Routers : DelayAt(y)
OrphanPart == \A y \in Routers : \A t \in orphans[y] : t + calm <= LongestDown
LeadAt(y) ==
    Unled(y) =>
        /\ timer[y].delay = Off => calm <= LongestDown /\ calm + timer[y].down <= LongestDown
        /\ timer[y].delay # Off => calm <= Elected /\ calm + timer[y].delay <= Elected
LeadPart == \A y \in Routers : LeadAt(y)

Election == /\ HeardPart /\ ReachPart /\ DownPart /\ RivalPart
            /\ DelayPart /\ OrphanPart /\ LeadPart

\* The numbers of the election.
LEMMA Numbers ==
    ASSUME Types, Sane
    PROVE  /\ calm \in Nat
           /\ \A r \in Routers :
                 /\ r \in Nat /\ prio[r] \in Nat /\ prio[r] > 0 /\ Limit(r) \in Nat
                 /\ Interval[r] \in Nat /\ Interval[r] > 0
                 /\ Interval[r] <= LongestInterval /\ Interval[r] <= LongestDown
                 /\ timer[r].down \in Int /\ timer[r].adver \in Int /\ timer[r].delay \in Int
                 /\ timer[r].down <= LongestDown /\ timer[r].adver <= Interval[r]
                 /\ timer[r].delay <= LongestDelay
                 /\ LongestDown <= Limit(r) /\ Elected <= Limit(r)
           /\ LongestDown \in Nat /\ LongestInterval \in Nat /\ LongestDelay \in Nat
           /\ Elected \in Nat /\ Elected = LongestDown + LongestDelay /\ Off = -1 /\ Done = -2
<1>1. calm \in Nat
  BY SettleTimeNat DEF Types
<1>2. LongestDown \in Nat /\ LongestInterval \in Nat /\ LongestDelay \in Nat
  BY LongestFacts
<1>3. Elected \in Nat /\ Elected = LongestDown + LongestDelay
  BY <1>2 DEF Elected
<1>4. \A r \in Routers : r \in Nat /\ prio[r] \in Nat /\ prio[r] > 0
  BY VrrpAssumption, IntervalFacts DEF Types
<1>5. \A r \in Routers : Limit(r) \in Nat /\ Elected <= Limit(r)
  BY LimitFacts
<1>6. \A r \in Routers : LongestDown <= Limit(r)
  BY <1>2, <1>3, <1>5
<1>7. \A r \in Routers : /\ Interval[r] \in Nat /\ Interval[r] > 0
                         /\ Interval[r] <= LongestInterval
  BY IntervalFacts, LongestFacts
<1>8. \A r \in Routers : Interval[r] <= LongestDown
  BY <1>2, <1>7, DownFacts
<1>9. \A r \in Routers : timer[r].down \in Int /\ timer[r].adver \in Int /\ timer[r].delay \in Int
  BY TimerFacts DEF Types
<1>10. \A r \in Routers : /\ timer[r].down <= LongestDown /\ timer[r].adver <= Interval[r]
                          /\ timer[r].delay <= LongestDelay
  BY DEF Sane, Fit
<1>11. QED
  BY <1>1, <1>2, <1>3, <1>4, <1>5, <1>6, <1>7, <1>8, <1>9, <1>10 DEF Off, Done

\* The order of the routers.
LEMMA BelowFacts ==
    ASSUME Types, NEW x \in Routers, NEW y \in Routers, NEW z \in Routers
    PROVE  /\ Below(x, y) => prio[x] <= prio[y] /\ x # y
           /\ Below(x, y) /\ Below(y, z) => Below(x, z)
           /\ Below(x, y) /\ prio[y] <= prio[z] => Below(x, z) \/ (prio[x] = prio[z] /\ prio[y] = prio[z])
           /\ x # y => Below(x, y) \/ Below(y, x)
<1>1. \A r \in Routers : r \in Nat /\ prio[r] \in Nat
  BY VrrpAssumption, IntervalFacts DEF Types
<1>2. QED
  BY <1>1 DEF Below

\* A step that changes no state, no priority and no mode.
LEMMA SameStates ==
    ASSUME \A y \in Routers : state'[y] = state[y], UNCHANGED <<prio, mode>>
    PROVE  /\ Masters' = Masters
           /\ \A y, m \in Routers : Follows(y, m)' <=> Follows(y, m)
           /\ \A y : (Topmost(y)' <=> Topmost(y)) /\ Limit(y)' = Limit(y)
           /\ \A y \in Routers : Unled(y)' <=> Unled(y)
           /\ \A x, y : Below(x, y)' <=> Below(x, y)
<1>1. Masters' = Masters
  BY DEF Masters
<1>2. \A x, y : Below(x, y)' <=> Below(x, y)
  BY DEF Below
<1>3. \A y : Topmost(y)' <=> Topmost(y)
  BY <1>1 DEF Topmost
<1>4. \A y : Limit(y)' = Limit(y)
  BY LimitSame
<1>5. \A y, m \in Routers : Follows(y, m)' <=> Follows(y, m)
  BY <1>1, <1>2 DEF Follows
<1>6. \A y \in Routers : Unled(y)' <=> Unled(y)
  BY <1>1, <1>3 DEF Unled
<1>7. QED
  BY <1>1, <1>2, <1>3, <1>4, <1>5, <1>6

\* The times that a mistake may take depend on the states and the tick only.
LEMMA SameTimes ==
    ASSUME \A y \in Routers : state'[y] = state[y], UNCHANGED <<prio, mode, calm>>
    PROVE  /\ \A y, m : InTime(y, m)' <=> InTime(y, m)
           /\ \A e : Current(e)' <=> Current(e)
<1>1. /\ Masters' = Masters /\ \A y : (Topmost(y)' <=> Topmost(y)) /\ Limit(y)' = Limit(y)
      /\ \A x, y : Below(x, y)' <=> Below(x, y)
  BY SameStates
<1>2. QED
  BY <1>1 DEF InTime, Current

\* Early in an election every mistake is in time.
LEMMA EarlyInTime ==
    ASSUME Types, Sane, NEW y \in Routers, NEW m \in Routers, calm <= LongestDown
    PROVE  InTime(y, m)
BY Numbers DEF InTime

\* A timer posts its event.
LEMMA ElectionPost ==
    ASSUME Types, Sane, Election, NEW r \in Routers, NEW k \in TimerEvents,
           Timeout(r, k) \/ OrphanTimeout(r)
    PROVE  Election'
<1>1. PICK e \in Events : /\ Post(r, e) /\ e.ev # "received"
                          /\ (Timeout(r, k) /\ e.ev = k) \/ (OrphanTimeout(r) /\ e.ev = "down")
  BY EventFacts, TimerFacts DEF Timeout, OrphanTimeout
<1>2. UNCHANGED <<net, state, mode, prio, calm>>
  BY DEF Timeout, OrphanTimeout
<1>3. Coming(r)' = Coming(r) \cup {e} /\ \A y \in Routers : y # r => Coming(y)' = Coming(y)
  BY <1>1, <1>2, ComingPost
<1>4. /\ \A y \in Routers : \A c : c # e.ev => (Posted(y, c)' <=> Posted(y, c))
      /\ \A y \in Routers : \A c : Posted(y, c)' => Posted(y, c) \/ y = r
      /\ \A y, m \in Routers : OnWay(m, y)' <=> OnWay(m, y)
  BY <1>1, <1>3 DEF Posted, OnWay
<1>5. /\ Masters' = Masters
      /\ \A y, m \in Routers : Follows(y, m)' <=> Follows(y, m)
      /\ \A y : Limit(y)' = Limit(y)
      /\ \A y \in Routers : Unled(y)' <=> Unled(y)
      /\ \A x, y : Below(x, y)' <=> Below(x, y)
  BY <1>2, SameStates
<1>6. (\A y, m : InTime(y, m)' <=> InTime(y, m)) /\ \A x : Current(x)' <=> Current(x)
  BY <1>2, SameTimes
<1>7. /\ timer \in [Routers -> Timers] /\ TimerEvents = {"down", "adver", "delay"}
      /\ timer' = timer \/ (timer' = [timer EXCEPT ![r][k] = Done] /\ timer[r][k] = 0 /\ e.ev = k)
  BY <1>1, TimerFacts DEF Types, Timeout, OrphanTimeout
<1>8. \A y \in Routers :
         /\ timer'[y].down = timer[y].down \/ (y = r /\ e.ev = "down" /\ timer[y].down = 0 /\ timer'[y].down = Done)
         /\ timer'[y].adver = timer[y].adver \/ (timer[y].adver = 0 /\ timer'[y].adver = Done)
         /\ timer'[y].delay = timer[y].delay \/ (y = r /\ e.ev = "delay" /\ timer[y].delay = 0 /\ timer'[y].delay = Done)
  <2>1. CASE timer' = timer
    BY <2>1
  <2>2. CASE timer' = [timer EXCEPT ![r][k] = Done] /\ timer[r][k] = 0 /\ e.ev = k
    <3>1. timer'[r] = [timer[r] EXCEPT ![k] = Done] /\ \A y \in Routers : y # r => timer'[y] = timer[y]
      BY <1>7, <2>2
    <3>2. \A c \in TimerEvents : timer'[r][c] = IF c = k THEN Done ELSE timer[r][c]
      BY <1>7, <3>1 DEF Timers
    <3>3. QED
      BY <1>7, <2>2, <3>1, <3>2
  <2>3. QED
    BY <1>7, <2>1, <2>2
<1>9. HeardPart'
  BY <1>1, <1>3, <1>6 DEF HeardPart, Election
<1>10. ReachPart'
  <2>1. SUFFICES ASSUME NEW y \in Routers, NEW m \in Routers, Follows(y, m) PROVE Reached(y, m)'
    BY <1>5 DEF ReachPart
  <2>2. Reached(y, m)
    BY <2>1 DEF Election, ReachPart
  <2>3. timer'[m].adver <= timer[m].adver /\ timer'[m].adver \in Int
    BY <1>8, Numbers
  <2>4. CASE timer'[y].down = timer[y].down
    BY <1>2, <1>4, <1>6, <2>2, <2>3, <2>4, Numbers DEF Reached
  <2>5. CASE timer[y].down = 0
    <3>1. \/ OnWay(m, y) /\ InTime(y, m)
          \/ calm <= Interval[m] /\ calm + timer[m].adver <= Interval[m]
      BY <2>2, <2>5 DEF Reached
    <3>2. QED
      BY <1>2, <1>4, <1>6, <2>3, <3>1, Numbers DEF Reached
  <2>6. QED
    BY <1>8, <2>4, <2>5
<1>11. DownPart'
  <2>1. SUFFICES ASSUME NEW y \in Routers, NEW m \in Routers, Follows(y, m), Posted(y, "down")'
                 PROVE  InTime(y, m)
    BY <1>5, <1>6 DEF DownPart
  <2>2. CASE Posted(y, "down")
    BY <2>1, <2>2 DEF Election, DownPart
  <2>3. CASE ~Posted(y, "down")
    <3>1. y = r /\ e.ev = "down"
      BY <1>4, <2>1, <2>3
    <3>2. CASE Timeout(r, k) /\ k = "down"
      <4>1. timer[y].down = 0
        BY <3>1, <3>2 DEF Timeout
      <4>2. Reached(y, m)
        BY <2>1 DEF Election, ReachPart
      <4>3. InTime(y, m) \/ calm <= Interval[m]
        BY <4>1, <4>2 DEF Reached
      <4>4. QED
        BY <4>3, Numbers, EarlyInTime
    <3>3. CASE OrphanTimeout(r)
      <4>1. 0 \in orphans[r]
        BY <3>3 DEF OrphanTimeout
      <4>2. 0 + calm <= LongestDown
        BY <4>1 DEF Election, OrphanPart
      <4>3. QED
        BY <4>2, Numbers, EarlyInTime
    <3>4. QED
      BY <1>1, <3>1, <3>2, <3>3
  <2>4. QED
    BY <2>2, <2>3
<1>12. RivalPart'
  <2>1. SUFFICES ASSUME NEW x \in Masters, NEW m \in Masters, Below(x, m)
                 PROVE  /\ calm <= Limit(x) + LongestInterval
                        /\ OnWay(m, x) \/ calm + timer'[m].adver <= Limit(x) + LongestInterval
    BY <1>2, <1>4, <1>5 DEF RivalPart, Masters
  <2>2. x \in Routers /\ m \in Routers
    BY DEF Masters
  <2>3. timer'[m].adver <= timer[m].adver /\ timer'[m].adver \in Int
    BY <1>8, <2>2, Numbers
  <2>4. QED
    BY <2>1, <2>2, <2>3, Numbers DEF Election, RivalPart
<1>13. DelayPart'
  <2>1. SUFFICES ASSUME NEW y \in Routers
                 PROVE  /\ timer'[y].delay # Off => calm <= Limit(y) /\ calm + timer'[y].delay <= Limit(y)
                        /\ Posted(y, "delay")' => calm <= Limit(y) /\ mode[y].preempt
    BY <1>2, <1>5 DEF DelayPart, DelayAt
  <2>2. /\ timer[y].delay # Off => calm <= Limit(y) /\ calm + timer[y].delay <= Limit(y)
        /\ Posted(y, "delay") => calm <= Limit(y) /\ mode[y].preempt
    BY DEF Election, DelayPart, DelayAt
  <2>3. timer'[y].delay # Off => calm <= Limit(y) /\ calm + timer'[y].delay <= Limit(y)
    BY <1>8, <2>2, Numbers
  <2>4. ASSUME Posted(y, "delay")', ~Posted(y, "delay") PROVE calm <= Limit(y) /\ mode[y].preempt
    <3>1. y = r /\ e.ev = "delay" /\ Timeout(r, k) /\ k = "delay"
      BY <1>1, <1>4, <2>4
    <3>2. timer[y].delay = 0 /\ 0 # Off
      BY <3>1 DEF Timeout, Off
    <3>3. mode[y].preempt
      BY <3>2 DEF Sane, Fit
    <3>4. QED
      BY <2>2, <3>2, <3>3
  <2>5. QED
    BY <2>2, <2>3, <2>4
<1>14. OrphanPart'
  <2>1. \A y \in Routers : orphans'[y] \subseteq orphans[y]
    BY DEF Timeout, OrphanTimeout, Sane
  <2>2. QED
    BY <1>2, <2>1 DEF Election, OrphanPart
<1>15. LeadPart'
  <2>1. SUFFICES ASSUME NEW y \in Routers, Unled(y)
                 PROVE  /\ timer'[y].delay = Off => calm <= LongestDown /\ calm + timer'[y].down <= LongestDown
                        /\ timer'[y].delay # Off => calm <= Elected /\ calm + timer'[y].delay <= Elected
    BY <1>2, <1>5 DEF LeadPart, LeadAt, LongestDown, Elected, LongestDelay
  <2>2. /\ timer[y].delay = Off => calm <= LongestDown /\ calm + timer[y].down <= LongestDown
        /\ timer[y].delay # Off => calm <= Elected /\ calm + timer[y].delay <= Elected
    BY <2>1 DEF Election, LeadPart, LeadAt
  <2>3. QED
    BY <1>8, <2>2, Numbers
<1>16. QED
  BY <1>9, <1>10, <1>11, <1>12, <1>13, <1>14, <1>15 DEF Election

\* Nothing changes but the order of what comes.
LEMMA ElectionSame ==
    ASSUME Election, UNCHANGED <<state, prio, mode, timer, orphans, calm>>,
           \A y \in Routers : Coming(y)' = Coming(y)
    PROVE  Election'
<1>1. /\ Masters' = Masters
      /\ \A y, m \in Routers : Follows(y, m)' <=> Follows(y, m)
      /\ \A y : Limit(y)' = Limit(y)
      /\ \A y \in Routers : Unled(y)' <=> Unled(y)
      /\ \A x, y : Below(x, y)' <=> Below(x, y)
  BY SameStates
<1>2. (\A y, m : InTime(y, m)' <=> InTime(y, m)) /\ \A x : Current(x)' <=> Current(x)
  BY SameTimes
<1>3. /\ \A y \in Routers : \A c : Posted(y, c)' <=> Posted(y, c)
      /\ \A y, m \in Routers : OnWay(m, y)' <=> OnWay(m, y)
  BY DEF Posted, OnWay
<1>4. \A y, m \in Routers : Reached(y, m)' <=> Reached(y, m)
  BY <1>2, <1>3 DEF Reached
<1>5. HeardPart'
  BY <1>2 DEF Election, HeardPart
<1>6. ReachPart'
  BY <1>1, <1>4 DEF Election, ReachPart
<1>7. DownPart'
  BY <1>1, <1>2, <1>3 DEF Election, DownPart
<1>8. RivalPart'
  BY <1>1, <1>3 DEF Election, RivalPart, Masters
<1>9. DelayPart'
  BY <1>1, <1>3 DEF Election, DelayPart, DelayAt
<1>10. OrphanPart'
  BY DEF Election, OrphanPart
<1>11. LeadPart'
  BY <1>1 DEF Election, LeadPart, LeadAt
<1>12. QED
  BY <1>5, <1>6, <1>7, <1>8, <1>9, <1>10, <1>11 DEF Election

\* An event is handled and the state of the router stays: what does not depend
\* on its timers.
LEMMA HandleSame ==
    ASSUME Election, NEW r \in Routers, NEW h, NEW out, Takes(r, h, out), state'[r] = state[r],
           \A e \in out : e.ev = "received" /\ Current(e)
    PROVE  /\ HeardPart' /\ DownPart' /\ OrphanPart'
           /\ \A y \in Routers : y # r => DelayAt(y)' /\ LeadAt(y)'
           /\ Posted(r, "delay")' => Posted(r, "delay")
           /\ \A y, m \in Routers : OnWay(m, y) => OnWay(m, y)' \/ (y = r /\ h.ev = "received" /\ h.src = m)
           /\ \A y, m \in Routers : y # r /\ m # r /\ Reached(y, m) => Reached(y, m)'
<1>1. /\ h \in Coming(r) /\ Coming(r) = Coming(r)' \cup {h}
      /\ \A y \in Routers : y # r => /\ Coming(y)' = Coming(y) \cup out
                                     /\ state'[y] = state[y] /\ timer'[y] = timer[y]
      /\ UNCHANGED <<prio, mode, orphans, calm>>
  BY DEF Takes
<1>2. \A y \in Routers : state'[y] = state[y]
  BY <1>1
<1>3. /\ Masters' = Masters
      /\ \A y, m \in Routers : Follows(y, m)' <=> Follows(y, m)
      /\ \A y : Limit(y)' = Limit(y)
      /\ \A y \in Routers : Unled(y)' <=> Unled(y)
  BY <1>1, <1>2, SameStates
<1>4. (\A y, m : InTime(y, m)' <=> InTime(y, m)) /\ \A x : Current(x)' <=> Current(x)
  BY <1>1, <1>2, SameTimes
<1>5. \A y \in Routers : \A e \in Coming(y)' : e \in Coming(y) \/ (e \in out /\ y # r)
  BY <1>1
<1>6. \A y \in Routers : \A c : c # "received" /\ Posted(y, c)' => Posted(y, c)
  BY <1>5 DEF Posted
<1>7. \A y, m \in Routers : OnWay(m, y) => OnWay(m, y)' \/ (y = r /\ h.ev = "received" /\ h.src = m)
  BY <1>1 DEF OnWay
<1>8. HeardPart'
  BY <1>4, <1>5 DEF Election, HeardPart
<1>9. DownPart'
  BY <1>3, <1>4, <1>6 DEF Election, DownPart
<1>10. OrphanPart'
  BY <1>1 DEF Election, OrphanPart
<1>11. ASSUME NEW y \in Routers, y # r PROVE DelayAt(y)' /\ LeadAt(y)'
  <2>1. DelayAt(y) /\ LeadAt(y) /\ timer'[y] = timer[y] /\ (Posted(y, "delay")' => Posted(y, "delay"))
    BY <1>1, <1>6, <1>11 DEF Election, DelayPart, LeadPart
  <2>2. DelayAt(y)'
    BY <1>1, <1>3, <2>1 DEF DelayAt
  <2>3. LeadAt(y)'
    BY <1>1, <1>3, <2>1 DEF LeadAt
  <2>4. QED
    BY <2>2, <2>3
<1>12. ASSUME NEW y \in Routers, NEW m \in Routers, y # r, m # r, Reached(y, m) PROVE Reached(y, m)'
  BY <1>1, <1>4, <1>7, <1>12 DEF Reached
<1>13. QED
  BY <1>6, <1>7, <1>8, <1>9, <1>10, <1>11, <1>12

\* A rivalry that the event does not end.
LEMMA RivalSame ==
    ASSUME Election, NEW r \in Routers, NEW h, NEW out, Takes(r, h, out), state'[r] = state[r],
           timer'[r].adver = timer[r].adver,
           \A x, m \in Masters : Below(x, m) /\ OnWay(m, x) => OnWay(m, x)'
    PROVE  RivalPart'
<1>1. /\ \A y \in Routers : state'[y] = state[y] /\ timer'[y].adver = timer[y].adver
      /\ UNCHANGED <<prio, mode, calm>>
  BY DEF Takes
<1>2. /\ Masters' = Masters /\ \A y : Limit(y)' = Limit(y)
      /\ \A x, y : Below(x, y)' <=> Below(x, y)
  BY <1>1, SameStates
<1>3. QED
  BY <1>1, <1>2 DEF Election, RivalPart, Masters

\* What is heard has the priority of its sender.
LEMMA HeardFacts ==
    ASSUME Types, Election, NEW r \in Routers, NEW h, h \in Coming(r), h.ev = "received"
    PROVE  /\ Current(h) /\ h.src \in Routers /\ h.prio = prio[h.src] /\ h.prio \in Nat /\ h.prio > 0
<1>1. Current(h)
  BY DEF Election, HeardPart
<1>2. h.src \in Routers
  BY ComingFacts, EventFacts
<1>3. prio[h.src] \in Nat /\ prio[h.src] > 0
  BY <1>2, IntervalFacts DEF Types
<1>4. QED
  BY <1>1, <1>2, <1>3 DEF Current

\* An event is dropped.
LEMMA ElectionStay ==
    ASSUME Types, Sane, Election, NEW r \in Routers, NEW h, StayView(r, h)
    PROVE  Election'
<1>1. /\ Takes(r, h, {}) /\ state'[r] = state[r] /\ h \in Coming(r)
      /\ timer'[r].down = timer[r].down /\ timer'[r].adver = timer[r].adver /\ timer'[r].delay = timer[r].delay
  BY DEF StayView, Turns, Takes
<1>2. /\ HeardPart' /\ DownPart' /\ OrphanPart'
      /\ \A y \in Routers : y # r => DelayAt(y)' /\ LeadAt(y)'
      /\ Posted(r, "delay")' => Posted(r, "delay")
      /\ \A y, m \in Routers : OnWay(m, y) => OnWay(m, y)' \/ (y = r /\ h.ev = "received" /\ h.src = m)
  BY <1>1, HandleSame
<1>3. /\ \A y \in Routers : state'[y] = state[y] /\ timer'[y].down = timer[y].down
                            /\ timer'[y].adver = timer[y].adver /\ timer'[y].delay = timer[y].delay
      /\ UNCHANGED <<prio, mode, calm>>
  BY <1>1 DEF Takes
<1>4. /\ Masters' = Masters
      /\ \A y, m \in Routers : Follows(y, m)' <=> Follows(y, m)
      /\ \A y : Limit(y)' = Limit(y)
      /\ \A y \in Routers : Unled(y)' <=> Unled(y)
  BY <1>3, SameStates
<1>5. \A y, m : InTime(y, m)' <=> InTime(y, m)
  BY <1>3, SameTimes
<1>6. ASSUME NEW m \in Routers, Follows(r, m), h.ev = "received" PROVE h.src # m
  <2>1. h.src = m => h.prio = prio[m]
    BY <1>1, <1>6, HeardFacts
  <2>2. h.prio \in Nat /\ prio[r] \in Nat
    BY <1>1, <1>6, HeardFacts, Numbers
  <2>3. QED
    BY <1>6, <2>1, <2>2 DEF Follows, StayView, GivesWay, Below
<1>7. ReachPart'
  <2>1. SUFFICES ASSUME NEW y \in Routers, NEW m \in Routers, Follows(y, m) PROVE Reached(y, m)'
    BY <1>4 DEF ReachPart
  <2>2. Reached(y, m) /\ (OnWay(m, y) => OnWay(m, y)')
    BY <1>2, <1>6, <2>1 DEF Election, ReachPart
  <2>3. QED
    BY <1>3, <1>5, <2>2 DEF Reached
<1>8. RivalPart'
  <2>1. ASSUME NEW x \in Masters, NEW m \in Masters, Below(x, m), OnWay(m, x) PROVE OnWay(m, x)'
    <3>1. x \in Routers /\ m \in Routers /\ Follows(x, m)
      BY <2>1, BelowFacts DEF Masters, Follows
    <3>2. QED
      BY <1>2, <1>6, <2>1, <3>1
  <2>2. QED
    BY <1>1, <2>1, RivalSame
<1>9. DelayAt(r)' /\ LeadAt(r)'
  <2>1. DelayAt(r) /\ LeadAt(r)
    BY DEF Election, DelayPart, LeadPart
  <2>2. QED
    BY <1>2, <1>3, <1>4, <2>1 DEF DelayAt, LeadAt
<1>10. DelayPart' /\ LeadPart'
  BY <1>2, <1>9 DEF DelayPart, LeadPart
<1>11. QED
  BY <1>2, <1>7, <1>8, <1>10 DEF Election

\* A backup hears an advertisement and starts its timer again.
LEMMA BackupHears ==
    ASSUME Types, Sane, Election, NEW r \in Routers, NEW h, Hears(r, h, "backup"),
           NEW d, LongWait(d), NEW l, Turns(r, "backup", d, timer[r].adver, l),
           DelayAt(r)', LeadAt(r)'
    PROVE  Election'
<1>1. /\ Takes(r, h, {}) /\ state[r] = "backup" /\ state'[r] = "backup"
      /\ timer'[r].down = d /\ timer'[r].adver = timer[r].adver
  BY DEF Hears, Turns
<1>2. /\ HeardPart' /\ DownPart' /\ OrphanPart'
      /\ \A y \in Routers : y # r => DelayAt(y)' /\ LeadAt(y)'
      /\ \A y, m \in Routers : OnWay(m, y) => OnWay(m, y)' \/ (y = r /\ h.ev = "received" /\ h.src = m)
      /\ \A y, m \in Routers : y # r /\ m # r /\ Reached(y, m) => Reached(y, m)'
  BY <1>1, HandleSame
<1>3. /\ \A y \in Routers : state'[y] = state[y] /\ timer'[y].adver = timer[y].adver
      /\ UNCHANGED <<prio, mode, calm>>
  BY <1>1 DEF Takes
<1>4. \A y, m \in Routers : Follows(y, m)' <=> Follows(y, m)
  BY <1>3, SameStates
<1>5. ReachPart'
  <2>1. SUFFICES ASSUME NEW y \in Routers, NEW m \in Routers, Follows(y, m) PROVE Reached(y, m)'
    BY <1>4 DEF ReachPart
  <2>2. m # r
    BY <1>1, <2>1 DEF Follows, Masters
  <2>3. CASE y = r
    <3>1. timer[m].adver <= Interval[m] /\ timer[m].adver \in Int /\ Interval[m] \in Nat
      BY Numbers
    <3>2. d > 0 /\ d > timer[m].adver
      BY <3>1 DEF LongWait
    <3>3. QED
      BY <1>1, <1>3, <2>3, <3>2 DEF Reached
  <2>4. CASE y # r
    BY <1>2, <2>1, <2>2, <2>4 DEF Election, ReachPart
  <2>5. QED
    BY <2>3, <2>4
<1>6. RivalPart'
  <2>1. ASSUME NEW x \in Masters, NEW m \in Masters, OnWay(m, x) PROVE OnWay(m, x)'
    BY <1>1, <1>2, <2>1 DEF Masters
  <2>2. QED
    BY <1>1, <2>1, RivalSame
<1>7. QED
  BY <1>2, <1>5, <1>6 DEF Election, DelayPart, LeadPart

\* A backup that follows the master it hears is led.
LEMMA ElectionFollow ==
    ASSUME Types, Sane, Election, NEW r \in Routers, NEW h, FollowView(r, h)
    PROVE  Election'
<1>1. PICK d, l : LongWait(d) /\ l \in {Off, timer[r].delay} /\ Turns(r, "backup", d, timer[r].adver, l)
  BY DEF FollowView
<1>2. /\ Hears(r, h, "backup") /\ (~mode[r].preempt \/ prio[r] <= h.prio)
      /\ Takes(r, h, {}) /\ h \in Coming(r) /\ h.ev = "received" /\ state'[r] = state[r]
      /\ timer'[r].delay = l
  BY <1>1 DEF FollowView, Hears, Takes, Turns
<1>3. Posted(r, "delay")' => Posted(r, "delay")
  BY <1>2, HandleSame
<1>4. /\ \A y \in Routers : state'[y] = state[y]
      /\ UNCHANGED <<prio, mode, calm>>
  BY <1>2 DEF Takes
<1>5. Limit(r)' = Limit(r) /\ (Unled(r)' <=> Unled(r))
  BY <1>4, SameStates
<1>6. DelayAt(r)'
  BY <1>1, <1>2, <1>3, <1>4, <1>5 DEF Election, DelayPart, DelayAt
<1>7. ~Unled(r)
  <2>1. Current(h) /\ h.src \in Routers /\ h.prio = prio[h.src]
    BY <1>2, HeardFacts
  <2>2. PICK m \in Masters : m = h.src \/ Below(h.src, m)
    BY <2>1 DEF Current
  <2>3. m \in Routers /\ prio[h.src] <= prio[m] /\ prio[m] \in Nat /\ prio[r] \in Nat /\ prio[h.src] \in Nat
    BY <2>1, <2>2, BelowFacts, Numbers DEF Masters
  <2>4. ASSUME Unled(r) PROVE FALSE
    <3>1. prio[m] < prio[r] /\ mode[r].preempt
      BY <2>2, <2>4 DEF Unled, Topmost
    <3>2. QED
      BY <1>2, <2>1, <2>3, <3>1
  <2>5. QED
    BY <2>4
<1>8. LeadAt(r)'
  BY <1>5, <1>7 DEF LeadAt
<1>9. QED
  BY <1>1, <1>2, <1>6, <1>8, BackupHears

\* A backup with a higher priority waits for its delay.
LEMMA ElectionWait ==
    ASSUME Types, Sane, Election, NEW r \in Routers, NEW h, WaitView(r, h)
    PROVE  Election'
<1>1. PICK l : l = IF timer[r].delay = Off THEN mode[r].delay ELSE timer[r].delay
  OBVIOUS
<1>2. PICK d : LongWait(d) /\ Turns(r, "backup", d, timer[r].adver, l)
  BY <1>1 DEF WaitView
<1>3. /\ Hears(r, h, "backup") /\ mode[r].preempt /\ prio[r] > h.prio /\ mode[r].delay > 0
      /\ Takes(r, h, {}) /\ h \in Coming(r) /\ h.ev = "received" /\ state'[r] = state[r] /\ state[r] = "backup"
      /\ timer'[r].delay = l
  BY <1>2 DEF WaitView, Hears, Takes, Turns
<1>4. Posted(r, "delay")' => Posted(r, "delay")
  BY <1>3, HandleSame
<1>5. /\ \A y \in Routers : state'[y] = state[y]
      /\ UNCHANGED <<prio, mode, calm>>
  BY <1>3 DEF Takes
<1>6. Limit(r)' = Limit(r) /\ (Unled(r)' <=> Unled(r))
  BY <1>5, SameStates
<1>7. mode[r].delay \in Nat /\ mode[r].delay <= LongestDelay
  BY IntervalFacts, LongestFacts DEF Types
<1>8. DelayAt(r) /\ LeadAt(r)
  BY DEF Election, DelayPart, LeadPart
<1>9. CASE timer[r].delay = Off
  <2>1. l = mode[r].delay /\ l # Off
    BY <1>1, <1>7, <1>9 DEF Off
  <2>2. CASE Unled(r)
    <3>1. calm <= LongestDown
      BY <1>8, <1>9, <2>2 DEF LeadAt
    <3>2. calm + l <= Elected /\ calm <= Elected /\ calm + l <= Limit(r) /\ calm <= Limit(r)
      BY <1>7, <2>1, <3>1, Numbers
    <3>3. DelayAt(r)' /\ LeadAt(r)'
      BY <1>3, <1>4, <1>5, <1>6, <1>8, <2>1, <3>2 DEF DelayAt, LeadAt
    <3>4. QED
      BY <1>2, <1>3, <3>3, BackupHears
  <2>3. CASE ~Unled(r)
    <3>1. PICK m \in Masters : ~(prio[m] < prio[r])
      BY <1>3, <2>3 DEF Unled, Topmost
    <3>2. Current(h) /\ h.src \in Routers /\ h.prio = prio[h.src]
      BY <1>3, HeardFacts
    <3>3. m \in Routers /\ prio[m] \in Nat /\ prio[r] \in Nat /\ prio[h.src] \in Nat
      BY <3>2, Numbers DEF Masters
    <3>4. prio[h.src] < prio[m] /\ prio[h.src] < prio[r]
      BY <1>3, <3>1, <3>2, <3>3
    <3>5. calm <= Limit(h.src) + LongestInterval
      BY <3>2, <3>4 DEF Current, Below
    <3>6. Limit(h.src) + LongestDelay + LongestInterval <= Limit(r)
      BY <3>2, <3>4, LimitFacts
    <3>7. calm + l <= Limit(r) /\ calm <= Limit(r)
      BY <1>7, <2>1, <3>2, <3>5, <3>6, Numbers
    <3>8. DelayAt(r)' /\ LeadAt(r)'
      BY <1>3, <1>4, <1>5, <1>6, <1>8, <2>1, <2>3, <3>7 DEF DelayAt, LeadAt
    <3>9. QED
      BY <1>2, <1>3, <3>8, BackupHears
  <2>4. QED
    BY <2>2, <2>3
<1>10. CASE timer[r].delay # Off
  <2>1. l = timer[r].delay
    BY <1>1, <1>10
  <2>2. DelayAt(r)' /\ LeadAt(r)'
    BY <1>3, <1>4, <1>5, <1>6, <1>8, <1>10, <2>1 DEF DelayAt, LeadAt
  <2>3. QED
    BY <1>2, <1>3, <2>2, BackupHears
<1>11. QED
  BY <1>9, <1>10

\* A master advertises.
LEMMA ElectionAdver ==
    ASSUME Types, Sane, Election, NEW r \in Routers, NEW h, AdverView(r, h)
    PROVE  Election'
<1>1. PICK p : /\ p = Packet(r) /\ p.ev = "received" /\ p.src = r /\ p.prio = prio[r]
  BY PacketSane
<1>2. /\ Takes(r, h, {p}) /\ state[r] = "master" /\ state'[r] = state[r] /\ h \in Coming(r)
      /\ timer'[r].down = timer[r].down /\ timer'[r].adver = Interval[r] /\ timer'[r].delay = timer[r].delay
  BY <1>1 DEF AdverView, Turns, Takes
<1>3. h.ev # "received"
  <2>1. h.ev = "received" => h.prio > 0
    BY <1>2, HeardFacts
  <2>2. h.ev = "adver" \/ (h.ev = "received" /\ h.prio = 0)
    BY DEF AdverView
  <2>3. QED
    BY <2>1, <2>2
<1>4. r \in Masters
  BY <1>2 DEF Masters
<1>5. Current(p)
  <2>1. \A m \in Masters : Below(r, m) => calm <= Limit(r) + LongestInterval
    BY <1>4 DEF Election, RivalPart
  <2>2. QED
    BY <1>1, <1>4, <2>1 DEF Current
<1>6. /\ HeardPart' /\ DownPart' /\ OrphanPart'
      /\ \A y \in Routers : y # r => DelayAt(y)' /\ LeadAt(y)'
      /\ Posted(r, "delay")' => Posted(r, "delay")
      /\ \A y, m \in Routers : OnWay(m, y) => OnWay(m, y)' \/ (y = r /\ h.ev = "received" /\ h.src = m)
  BY <1>1, <1>2, <1>5, HandleSame
<1>7. \A y, m \in Routers : OnWay(m, y) => OnWay(m, y)'
  BY <1>3, <1>6
<1>8. \A y \in Routers : y # r => OnWay(r, y)'
  <2>1. \A y \in Routers : y # r => p \in Coming(y)'
    BY <1>2 DEF Takes
  <2>2. QED
    BY <1>1, <2>1 DEF OnWay
<1>9. /\ \A y \in Routers : /\ state'[y] = state[y] /\ timer'[y].down = timer[y].down
                            /\ timer'[y].delay = timer[y].delay
                            /\ y # r => timer'[y].adver = timer[y].adver
      /\ UNCHANGED <<prio, mode, calm>>
  BY <1>2 DEF Takes
<1>10. /\ Masters' = Masters
       /\ \A y, m \in Routers : Follows(y, m)' <=> Follows(y, m)
       /\ \A y : Limit(y)' = Limit(y)
       /\ \A y \in Routers : Unled(y)' <=> Unled(y)
       /\ \A x, y : Below(x, y)' <=> Below(x, y)
  BY <1>9, SameStates
<1>11. \A y, m : InTime(y, m)' <=> InTime(y, m)
  BY <1>9, SameTimes
<1>12. ReachPart'
  <2>1. SUFFICES ASSUME NEW y \in Routers, NEW m \in Routers, Follows(y, m) PROVE Reached(y, m)'
    BY <1>10 DEF ReachPart
  <2>2. Reached(y, m) /\ y # m
    BY <2>1 DEF Election, ReachPart, Follows
  <2>3. CASE m = r
    <3>1. timer[y].down > 0 \/ InTime(y, m) \/ calm <= Interval[m]
      BY <2>2 DEF Reached
    <3>2. calm <= Interval[m] => InTime(y, m)
      BY Numbers, EarlyInTime
    <3>3. QED
      BY <1>8, <1>9, <1>11, <2>2, <2>3, <3>1, <3>2 DEF Reached
  <2>4. CASE m # r
    BY <1>7, <1>9, <1>11, <2>2, <2>4 DEF Reached
  <2>5. QED
    BY <2>3, <2>4
<1>13. RivalPart'
  <2>1. SUFFICES ASSUME NEW x \in Masters, NEW m \in Masters, Below(x, m)
                 PROVE  /\ calm <= Limit(x) + LongestInterval
                        /\ OnWay(m, x)' \/ calm + timer'[m].adver <= Limit(x) + LongestInterval
    BY <1>9, <1>10 DEF RivalPart
  <2>2. x \in Routers /\ m \in Routers /\ x # m
    BY <2>1, BelowFacts DEF Masters
  <2>3. /\ calm <= Limit(x) + LongestInterval
        /\ OnWay(m, x) \/ calm + timer[m].adver <= Limit(x) + LongestInterval
    BY <2>1 DEF Election, RivalPart
  <2>4. QED
    BY <1>7, <1>8, <1>9, <2>2, <2>3
<1>14. DelayAt(r)' /\ LeadAt(r)'
  <2>1. DelayAt(r) /\ LeadAt(r)
    BY DEF Election, DelayPart, LeadPart
  <2>2. QED
    BY <1>6, <1>9, <1>10, <2>1 DEF DelayAt, LeadAt
<1>15. QED
  BY <1>6, <1>12, <1>13, <1>14 DEF Election, DelayPart, LeadPart

\* When a backup may take over: until its limit, and if no master is as good
\* as it until the limit of each of them.
LEMMA TakeOverInTime ==
    ASSUME Types, Sane, Election, NEW r \in Routers, state[r] = "backup", NEW h, h \in Coming(r),
           h.ev \in {"down", "delay"}
    PROVE  /\ calm <= Limit(r)
           /\ Topmost(r) => \A m \in Masters : calm <= Limit(m)
           /\ Unled(r) => calm <= Elected
<1>1. Posted(r, h.ev)
  BY DEF Posted
<1>2. Masters \subseteq Routers /\ r \notin Masters
  BY DEF Masters
<1>3. h.ev = "delay" => calm <= Limit(r) /\ mode[r].preempt
  BY <1>1 DEF Election, DelayPart, DelayAt
<1>4. CASE Unled(r)
  <2>1. calm <= LongestDown \/ calm <= Elected
    BY <1>4 DEF Election, LeadPart, LeadAt
  <2>2. calm <= Elected
    BY <2>1, Numbers
  <2>3. QED
    BY <1>2, <2>2, Numbers
<1>5. CASE ~Topmost(r)
  <2>1. PICK m \in Masters : ~(prio[m] < prio[r])
    BY <1>5 DEF Topmost
  <2>2. prio[r] <= prio[m]
    BY <1>2, <2>1, Numbers
  <2>3. Follows(r, m)
    BY <1>2, <2>2 DEF Follows
  <2>4. h.ev = "down" => InTime(r, m)
    BY <1>1, <1>2, <2>3 DEF Election, DownPart
  <2>5. calm <= Limit(r)
    BY <1>3, <2>4 DEF InTime
  <2>6. QED
    BY <1>5, <2>5 DEF Unled
<1>6. CASE Topmost(r) /\ ~Unled(r)
  <2>1. ~mode[r].preempt /\ Masters # {} /\ h.ev = "down"
    BY <1>3, <1>6 DEF Unled
  <2>2. \A m \in Masters : Follows(r, m)
    BY <1>2, <2>1 DEF Follows
  <2>3. \A m \in Masters : InTime(r, m)
    BY <1>1, <1>2, <2>1, <2>2 DEF Election, DownPart
  <2>4. QED
    BY <1>6, <2>1, <2>3 DEF InTime
<1>7. QED
  BY <1>4, <1>5, <1>6

\* A backup takes over.
LEMMA ElectionTakeOver ==
    ASSUME Types, Sane, Election, NEW r \in Routers, NEW h, TakeOverView(r, h)
    PROVE  Election'
<1>1. PICK p : /\ p = Packet(r) /\ p.ev = "received" /\ p.src = r /\ p.prio = prio[r]
  BY PacketSane
<1>2. /\ Takes(r, h, {p}) /\ state[r] = "backup" /\ state'[r] = "master" /\ h \in Coming(r)
      /\ timer'[r].down = timer[r].down /\ timer'[r].adver = Interval[r] /\ timer'[r].delay = Off
      /\ h.ev \in {"down", "delay"}
  BY <1>1 DEF TakeOverView, Turns, Takes
<1>3. /\ calm <= Limit(r)
      /\ Topmost(r) => \A m \in Masters : calm <= Limit(m)
  BY <1>2, TakeOverInTime
<1>4. /\ Coming(r) = Coming(r)' \cup {h}
      /\ \A y \in Routers : y # r => /\ Coming(y)' = Coming(y) \cup {p}
                                     /\ state'[y] = state[y] /\ timer'[y] = timer[y]
      /\ UNCHANGED <<prio, mode, orphans, calm>>
  BY <1>2 DEF Takes
<1>5. Masters' = Masters \cup {r} /\ Masters \subseteq Routers /\ r \notin Masters
  BY <1>2, <1>4 DEF Masters
<1>6. (\A x, y : Below(x, y)' <=> Below(x, y)) /\ \A y : Limit(y)' = Limit(y)
  BY <1>4, LimitSame DEF Below
<1>7. \A y : Topmost(y)' <=> Topmost(y) /\ prio[r] < prio[y]
  BY <1>4, <1>5 DEF Topmost
<1>8. /\ \A y \in Routers : \A c : c # "received" /\ Posted(y, c)' => Posted(y, c)
      /\ \A y, m \in Routers : OnWay(m, y) => OnWay(m, y)'
      /\ \A y \in Routers : y # r => OnWay(r, y)'
  BY <1>1, <1>2, <1>4 DEF Posted, OnWay
<1>9. \A y, m \in Routers : y # r /\ m # r => (Follows(y, m)' <=> Follows(y, m))
  BY <1>4, <1>5, <1>6 DEF Follows
<1>10. \A y, m : y # r /\ InTime(y, m) => InTime(y, m)'
  BY <1>4, <1>6, <1>7 DEF InTime
<1>11. \A m \in Routers : Follows(r, m)' => Follows(r, m) /\ InTime(r, m)'
  <2>1. SUFFICES ASSUME NEW m \in Routers, Follows(r, m)' PROVE Follows(r, m) /\ InTime(r, m)'
    OBVIOUS
  <2>2. m \in Masters /\ r # m /\ Below(r, m)
    BY <1>2, <1>5, <1>6, <2>1 DEF Follows
  <2>3. prio[r] <= prio[m]
    BY <2>2, BelowFacts
  <2>4. ~Topmost(r)'
    BY <1>7, Numbers
  <2>5. QED
    BY <1>2, <1>3, <1>4, <1>6, <2>2, <2>3, <2>4 DEF Follows, InTime
<1>12. ASSUME NEW x \in Masters, Below(x, r)
       PROVE  calm <= Limit(x) \/ \E m \in Masters : Below(x, m)
  <2>1. CASE Topmost(r)
    BY <1>3, <2>1
  <2>2. CASE ~Topmost(r)
    <3>1. PICK m \in Masters : ~(prio[m] < prio[r])
      BY <2>2 DEF Topmost
    <3>2. x \in Routers /\ m \in Routers
      BY <1>5
    <3>3. prio[r] <= prio[m]
      BY <3>1, <3>2, Numbers
    <3>4. Below(x, m) \/ prio[x] = prio[r]
      BY <1>12, <3>2, <3>3, BelowFacts
    <3>5. prio[x] = prio[r] => Limit(r) <= Limit(x)
      BY <3>2, LimitFacts, Numbers
    <3>6. QED
      BY <1>3, <3>2, <3>4, <3>5, Numbers
  <2>3. QED
    BY <2>1, <2>2
<1>13. ASSUME NEW y \in Routers, Follows(y, r)', \A m \in Routers : Follows(y, m) => calm <= Limit(y)
       PROVE  y # r /\ InTime(y, r)'
  <2>1. y # r /\ state'[y] = state[y]
    BY <1>4, <1>13 DEF Follows
  <2>2. calm <= Limit(y)
    <3>1. CASE state[y] = "master"
      <4>1. y \in Masters /\ Below(y, r)
        BY <1>6, <1>13, <2>1, <3>1 DEF Follows, Masters
      <4>2. ASSUME NEW m \in Masters, Below(y, m) PROVE calm <= Limit(y)
        <5>1. m \in Routers /\ y # m
          BY <1>5, <4>2, BelowFacts
        <5>2. QED
          BY <1>13, <3>1, <4>2, <5>1 DEF Follows
      <4>3. QED
        BY <1>12, <4>1, <4>2
    <3>2. CASE state[y] = "backup"
      <4>1. CASE \E m \in Masters : Follows(y, m)
        BY <1>5, <1>13, <4>1
      <4>2. CASE ~\E m \in Masters : Follows(y, m)
        <5>1. y \notin Masters
          BY <3>2 DEF Masters
        <5>2. \A m \in Masters : mode[y].preempt /\ ~(prio[y] <= prio[m])
          BY <3>2, <4>2, <5>1 DEF Follows
        <5>3. \A m \in Masters : prio[m] < prio[y]
          BY <1>5, <5>2, Numbers
        <5>4. Unled(y)
          BY <3>2, <5>2, <5>3 DEF Unled, Topmost
        <5>5. calm <= LongestDown \/ calm <= Elected
          BY <5>4 DEF Election, LeadPart, LeadAt
        <5>6. QED
          BY <5>5, Numbers
      <4>3. QED
        BY <4>1, <4>2
    <3>3. QED
      BY <1>13, <2>1, <3>1, <3>2 DEF Follows
  <2>3. QED
    BY <1>3, <1>4, <1>6, <2>1, <2>2 DEF InTime
<1>14. HeardPart'
  <2>1. Current(p)'
    <3>1. \A m \in Masters' : Below(r, m)' => calm' <= Limit(r)' + LongestInterval
      BY <1>3, <1>4, <1>6, Numbers
    <3>2. r \in Masters'
      BY <1>5
    <3>3. QED
      BY <1>1, <1>4, <3>1, <3>2 DEF Current
  <2>2. ASSUME NEW y \in Routers, NEW e \in Coming(y), e.ev = "received" PROVE Current(e)'
    <3>1. Current(e) /\ e.src \in Routers /\ e.prio = prio[e.src]
      BY <2>2, HeardFacts
    <3>2. PICK m0 \in Masters : m0 = e.src \/ Below(e.src, m0)
      BY <3>1 DEF Current
    <3>3. ASSUME Below(e.src, r) PROVE calm <= Limit(e.src) + LongestInterval
      <4>1. CASE \E m \in Masters : Below(e.src, m)
        BY <3>1, <4>1 DEF Current
      <4>2. CASE e.src \in Masters
        <5>1. calm <= Limit(e.src) \/ \E m \in Masters : Below(e.src, m)
          BY <1>12, <3>3, <4>2
        <5>2. QED
          BY <3>1, <4>1, <5>1, Numbers
      <4>3. QED
        BY <3>2, <4>1, <4>2
    <3>4. \A m \in Masters' : Below(e.src, m)' => calm' <= Limit(e.src)' + LongestInterval
      <4>1. \A m \in Masters : Below(e.src, m) => calm <= Limit(e.src) + LongestInterval
        BY <3>1 DEF Current
      <4>2. QED
        BY <1>4, <1>5, <1>6, <3>3, <4>1
    <3>5. \E m \in Masters' : m = e.src \/ Below(e.src, m)'
      BY <1>5, <1>6, <3>2
    <3>6. QED
      BY <1>4, <3>1, <3>4, <3>5 DEF Current
  <2>3. QED
    BY <1>4, <2>1, <2>2 DEF HeardPart
<1>15. ReachPart'
  <2>1. SUFFICES ASSUME NEW y \in Routers, NEW m \in Routers, Follows(y, m)' PROVE Reached(y, m)'
    BY DEF ReachPart
  <2>2. CASE m = r
    <3>1. CASE timer[y].down > 0
      <4>1. y # r
        BY <2>1, <2>2 DEF Follows
      <4>2. QED
        BY <1>4, <1>8, <2>2, <3>1, <4>1 DEF Reached
    <3>2. CASE ~(timer[y].down > 0)
      <4>1. ASSUME NEW m0 \in Routers, Follows(y, m0) PROVE calm <= Limit(y)
        <5>1. Reached(y, m0)
          BY <4>1 DEF Election, ReachPart
        <5>2. InTime(y, m0) \/ calm <= Interval[m0]
          BY <3>2, <5>1 DEF Reached
        <5>3. QED
          BY <5>2, Numbers DEF InTime
      <4>2. y # r /\ InTime(y, r)'
        BY <1>13, <2>1, <2>2, <4>1
      <4>3. QED
        BY <1>8, <2>2, <4>2 DEF Reached
    <3>3. QED
      BY <3>1, <3>2
  <2>3. CASE m # r /\ y # r
    <3>1. Reached(y, m)
      BY <1>9, <2>1, <2>3 DEF Election, ReachPart
    <3>2. QED
      BY <1>4, <1>8, <1>10, <2>3, <3>1 DEF Reached
  <2>4. CASE m # r /\ y = r
    <3>1. Reached(r, m) /\ InTime(r, m)'
      BY <1>11, <2>1, <2>4 DEF Election, ReachPart
    <3>2. QED
      BY <1>2, <1>4, <1>8, <2>4, <3>1 DEF Reached
  <2>5. QED
    BY <2>2, <2>3, <2>4
<1>16. DownPart'
  <2>1. SUFFICES ASSUME NEW y \in Routers, NEW m \in Routers, Follows(y, m)', Posted(y, "down")'
                 PROVE  InTime(y, m)'
    BY DEF DownPart
  <2>2. Posted(y, "down")
    BY <1>8, <2>1
  <2>3. \A x \in Routers : Follows(y, x) => InTime(y, x)
    BY <2>2 DEF Election, DownPart
  <2>4. CASE m = r
    BY <1>13, <2>1, <2>3, <2>4 DEF InTime
  <2>5. CASE m # r /\ y # r
    BY <1>9, <1>10, <2>1, <2>3, <2>5
  <2>6. CASE m # r /\ y = r
    BY <1>11, <2>1, <2>6
  <2>7. QED
    BY <2>4, <2>5, <2>6
<1>17. RivalPart'
  <2>1. SUFFICES ASSUME NEW x \in Masters', NEW m \in Masters', Below(x, m)
                 PROVE  /\ calm <= Limit(x) + LongestInterval
                        /\ OnWay(m, x)' \/ calm + timer'[m].adver <= Limit(x) + LongestInterval
    BY <1>4, <1>6 DEF RivalPart
  <2>2. x \in Routers /\ m \in Routers /\ x # m
    BY <1>5, <2>1, BelowFacts
  <2>3. CASE x = r
    <3>1. timer[m].adver <= LongestInterval /\ timer'[m] = timer[m] /\ timer[m].adver \in Int
      BY <1>4, <2>2, <2>3, Numbers
    <3>2. QED
      BY <1>3, <2>2, <2>3, <3>1, Numbers
  <2>4. CASE m = r
    <3>1. x \in Masters
      BY <1>5, <2>2, <2>4
    <3>2. calm <= Limit(x) \/ \E m0 \in Masters : Below(x, m0)
      BY <1>12, <2>1, <2>4, <3>1
    <3>3. calm <= Limit(x) + LongestInterval
      BY <2>2, <3>1, <3>2, Numbers DEF Election, RivalPart
    <3>4. QED
      BY <1>8, <2>2, <2>4, <3>3
  <2>5. CASE x # r /\ m # r
    <3>1. x \in Masters /\ m \in Masters
      BY <1>5, <2>5
    <3>2. QED
      BY <1>4, <1>8, <2>1, <2>2, <2>5, <3>1 DEF Election, RivalPart
  <2>6. QED
    BY <2>3, <2>4, <2>5
<1>18. DelayPart'
  <2>1. SUFFICES ASSUME NEW y \in Routers PROVE DelayAt(y)'
    BY DEF DelayPart
  <2>2. DelayAt(y) /\ (Posted(y, "delay")' => Posted(y, "delay"))
    BY <1>8 DEF Election, DelayPart
  <2>3. timer'[y].delay = Off \/ timer'[y] = timer[y]
    BY <1>2, <1>4
  <2>4. QED
    BY <1>4, <1>6, <2>2, <2>3 DEF DelayAt
<1>19. OrphanPart'
  BY <1>4 DEF Election, OrphanPart
<1>20. LeadPart'
  <2>1. SUFFICES ASSUME NEW y \in Routers, Unled(y)' PROVE LeadAt(y)'
    BY DEF LeadPart, LeadAt
  <2>2. y # r /\ state[y] = "backup" /\ Topmost(y) /\ mode[y].preempt /\ timer'[y] = timer[y]
    BY <1>2, <1>4, <1>5, <1>7, <2>1 DEF Unled
  <2>3. Unled(y) /\ LeadAt(y)
    BY <2>2 DEF Unled, Election, LeadPart
  <2>4. QED
    BY <1>4, <2>2, <2>3 DEF LeadAt
<1>21. QED
  BY <1>14, <1>15, <1>16, <1>17, <1>18, <1>19, <1>20 DEF Election

\* A master gives way: a better one stays.
LEMMA ElectionGiveWay ==
    ASSUME Types, AlertInv, Sane, Election, NEW r \in Routers, NEW h, GiveWayView(r, h)
    PROVE  Election'
<1>1. PICK d : LongWait(d) /\ Turns(r, "backup", d, Off, timer[r].delay)
  BY DEF GiveWayView
<1>2. /\ Takes(r, h, {}) /\ state[r] = "master" /\ state'[r] = "backup" /\ h \in Coming(r) /\ h.ev = "received"
      /\ GivesWay(r, h) /\ timer'[r].down = d /\ timer'[r].delay = timer[r].delay
  BY <1>1 DEF GiveWayView, Hears, Turns, Takes
<1>3. /\ Coming(r) = Coming(r)' \cup {h}
      /\ \A y \in Routers : y # r => Coming(y)' = Coming(y) /\ state'[y] = state[y] /\ timer'[y] = timer[y]
      /\ UNCHANGED <<prio, mode, orphans, calm>>
  BY <1>2 DEF Takes
<1>4. Masters' = Masters \ {r} /\ Masters \subseteq Routers /\ r \in Masters
  BY <1>2, <1>3 DEF Masters
<1>5. Current(h) /\ h.src \in Routers /\ h.prio = prio[h.src]
  BY <1>2, HeardFacts
<1>6. Below(r, h.src)
  BY <1>2, <1>5 DEF GivesWay, Below
<1>7. PICK M \in Masters : Below(r, M)
  <2>1. PICK m \in Masters : m = h.src \/ Below(h.src, m)
    BY <1>5 DEF Current
  <2>2. Below(r, m)
    BY <1>4, <1>5, <1>6, <2>1, BelowFacts
  <2>3. QED
    BY <2>2
<1>8. M \in Routers /\ M # r /\ M \in Masters' /\ prio[r] <= prio[M] /\ Follows(r, M)
  BY <1>2, <1>4, <1>7, BelowFacts DEF Follows
<1>9. (\A x, y : Below(x, y)' <=> Below(x, y)) /\ \A y : Limit(y)' = Limit(y)
  BY <1>3, LimitSame DEF Below
<1>10. \A y \in Routers : Topmost(y)' => Topmost(y)
  <2>1. SUFFICES ASSUME NEW y \in Routers, Topmost(y)' PROVE Topmost(y)
    OBVIOUS
  <2>2. \A m \in Masters : m # r => prio[m] < prio[y]
    BY <1>3, <1>4, <2>1 DEF Topmost
  <2>3. prio[r] < prio[y]
    BY <1>8, <2>2, Numbers
  <2>4. QED
    BY <2>2, <2>3 DEF Topmost
<1>11. ~Topmost(r)'
  BY <1>3, <1>8, Numbers DEF Topmost
<1>12. /\ \A y \in Routers : \A c : Posted(y, c)' => Posted(y, c)
       /\ \A y, m \in Routers : y # r => (OnWay(m, y)' <=> OnWay(m, y))
  BY <1>3 DEF Posted, OnWay
<1>13. \A y, m \in Routers : y # r /\ Follows(y, m)' => m # r /\ Follows(y, m)
  BY <1>3, <1>4, <1>9 DEF Follows
<1>14. \A y \in Routers : \A m : InTime(y, m) => InTime(y, m)'
  BY <1>3, <1>9, <1>10 DEF InTime
<1>15. HeardPart'
  <2>1. SUFFICES ASSUME NEW y \in Routers, NEW e \in Coming(y), e.ev = "received" PROVE Current(e)'
    BY <1>3 DEF HeardPart
  <2>2. Current(e) /\ e.src \in Routers
    BY <2>1, HeardFacts
  <2>3. PICK m \in Masters : m = e.src \/ Below(e.src, m)
    BY <2>2 DEF Current
  <2>4. m = r => Below(e.src, M)
    BY <1>4, <1>7, <1>8, <2>2, <2>3, BelowFacts
  <2>5. \E x \in Masters' : x = e.src \/ Below(e.src, x)'
    BY <1>4, <1>8, <1>9, <2>3, <2>4
  <2>6. QED
    BY <1>3, <1>4, <1>9, <2>2, <2>5 DEF Current
<1>16. ReachPart'
  <2>1. SUFFICES ASSUME NEW y \in Routers, NEW m \in Routers, Follows(y, m)' PROVE Reached(y, m)'
    BY DEF ReachPart
  <2>2. CASE y = r
    <3>1. m # r /\ timer'[m] = timer[m]
      BY <1>3, <2>1, <2>2 DEF Follows
    <3>2. timer[m].adver <= Interval[m] /\ timer[m].adver \in Int /\ Interval[m] \in Nat
      BY Numbers
    <3>3. d > 0 /\ d > timer[m].adver
      BY <1>1, <3>2 DEF LongWait
    <3>4. QED
      BY <1>2, <2>2, <3>1, <3>3 DEF Reached
  <2>3. CASE y # r
    <3>1. m # r /\ Reached(y, m)
      BY <1>13, <2>1, <2>3 DEF Election, ReachPart
    <3>2. QED
      BY <1>3, <1>12, <1>14, <2>3, <3>1 DEF Reached
  <2>4. QED
    BY <2>2, <2>3
<1>17. DownPart'
  <2>1. SUFFICES ASSUME NEW y \in Routers, NEW m \in Routers, Follows(y, m)', Posted(y, "down")'
                 PROVE  InTime(y, m)'
    BY DEF DownPart
  <2>2. Posted(y, "down")
    BY <1>12, <2>1
  <2>3. CASE y = r
    <3>1. InTime(r, M)
      BY <1>8, <2>2, <2>3 DEF Election, DownPart
    <3>2. QED
      BY <1>3, <1>9, <1>11, <2>3, <3>1 DEF InTime
  <2>4. CASE y # r
    BY <1>13, <1>14, <2>1, <2>2, <2>4 DEF Election, DownPart
  <2>5. QED
    BY <2>3, <2>4
<1>18. RivalPart'
  <2>1. SUFFICES ASSUME NEW x \in Masters', NEW m \in Masters', Below(x, m)
                 PROVE  /\ calm <= Limit(x) + LongestInterval
                        /\ OnWay(m, x)' \/ calm + timer'[m].adver <= Limit(x) + LongestInterval
    BY <1>3, <1>9 DEF RivalPart
  <2>2. x \in Masters /\ m \in Masters /\ x # r /\ m # r /\ x \in Routers /\ m \in Routers
    BY <1>4
  <2>3. QED
    BY <1>3, <1>12, <2>1, <2>2 DEF Election, RivalPart
<1>19. DelayPart'
  <2>1. SUFFICES ASSUME NEW y \in Routers PROVE DelayAt(y)'
    BY DEF DelayPart
  <2>2. DelayAt(y) /\ (Posted(y, "delay")' => Posted(y, "delay")) /\ timer'[y].delay = timer[y].delay
    BY <1>2, <1>3, <1>12 DEF Election, DelayPart
  <2>3. QED
    BY <1>3, <1>9, <2>2 DEF DelayAt
<1>20. OrphanPart'
  BY <1>3 DEF Election, OrphanPart
<1>21. LeadPart'
  <2>1. SUFFICES ASSUME NEW y \in Routers, Unled(y)' PROVE LeadAt(y)'
    BY DEF LeadPart, LeadAt
  <2>2. y # r /\ state[y] = "backup" /\ Topmost(y) /\ mode[y].preempt /\ timer'[y] = timer[y]
    BY <1>3, <1>8, <1>10, <1>11, <2>1 DEF Unled
  <2>3. Unled(y) /\ LeadAt(y)
    BY <2>2 DEF Unled, Election, LeadPart
  <2>4. QED
    BY <1>3, <2>2, <2>3 DEF LeadAt
<1>22. QED
  BY <1>15, <1>16, <1>17, <1>18, <1>19, <1>20, <1>21 DEF Election

ElectionInv == Settling => Election

\* Time passes.  The first tick after a fault starts the election: then the
\* timers are in their ranges and nothing is on its way.
LEMMA ElectionTick ==
    ASSUME Types, AlertInv, Sane, ElectionInv, Tick, Settling'
    PROVE  Election'
<1>1. /\ UNCHANGED <<state, prio, mode, queue, net, cut>> /\ Quiet
      /\ calm' = IF calm < SettleTime THEN calm + 1 ELSE calm
  BY DEF Tick
<1>2. calm \in Nat /\ calm' \in Nat /\ calm' <= calm + 1
  BY <1>1, Numbers
<1>3. calm = 0 \/ Election
  BY <1>1, <1>2 DEF ElectionInv, Settling
<1>4. \A y \in Routers : Coming(y) = {} /\ Coming(y)' = {}
  <2>1. \A y \in Routers : Coming(y) = {}
    BY <1>1, ComingQuiet
  <2>2. \A y \in Routers : Coming(y)' = Coming(y)
    BY <1>1 DEF Coming, OnLinks, To
  <2>3. QED
    BY <2>1, <2>2
<1>5. (\A y \in Routers : \A c : ~Posted(y, c) /\ ~Posted(y, c)') /\ \A y, m \in Routers : ~OnWay(m, y)
  BY <1>4 DEF Posted, OnWay
<1>6. /\ timer \in [Routers -> Timers] /\ TimerEvents = {"down", "adver", "delay"}
      /\ \A y \in Routers : \A k \in TimerEvents : timer[y][k] \in Int /\ timer[y][k] # 0
  BY <1>1, TimerFacts DEF Types, Quiet, Expired
<1>7. \A y \in Routers : \A k \in TimerEvents :
         timer'[y][k] = IF timer[y][k] > 0 THEN timer[y][k] - 1 ELSE timer[y][k]
  BY <1>6 DEF Tick
<1>8. \A y \in Routers : state[y] = "backup" => timer[y].down > 0 /\ timer'[y].down = timer[y].down - 1
  <2>1. SUFFICES ASSUME NEW y \in Routers, state[y] = "backup"
                 PROVE  timer[y].down > 0 /\ timer'[y].down = timer[y].down - 1
    OBVIOUS
  <2>2. timer[y].down >= 0
    BY <1>5, <1>6, <2>1, ComingFacts DEF AlertInv, Alert
  <2>3. QED
    BY <1>6, <1>7, <2>2
<1>9. \A y \in Routers : state[y] = "master" => timer[y].adver > 0 /\ timer'[y].adver = timer[y].adver - 1
  <2>1. SUFFICES ASSUME NEW y \in Routers, state[y] = "master"
                 PROVE  timer[y].adver > 0 /\ timer'[y].adver = timer[y].adver - 1
    OBVIOUS
  <2>2. timer[y].adver >= 0
    BY <1>5, <1>6, <2>1, ComingFacts DEF AlertInv, Alert
  <2>3. QED
    BY <1>6, <1>7, <2>2
<1>10. \A y \in Routers : /\ timer[y].delay # Off => timer[y].delay > 0 /\ timer'[y].delay = timer[y].delay - 1
                          /\ timer[y].delay = Off => timer'[y].delay = Off
  <2>1. SUFFICES ASSUME NEW y \in Routers
                 PROVE  /\ timer[y].delay # Off => timer[y].delay > 0 /\ timer'[y].delay = timer[y].delay - 1
                        /\ timer[y].delay = Off => timer'[y].delay = Off
    OBVIOUS
  <2>2. timer[y].delay # Done
    BY <1>5 DEF Sane, Fit
  <2>3. timer[y].delay \in Int /\ timer[y].delay >= -2 /\ timer[y].delay # 0
    BY <1>6, TimerFacts DEF Done
  <2>4. timer'[y].delay = IF timer[y].delay > 0 THEN timer[y].delay - 1 ELSE timer[y].delay
    BY <1>6, <1>7
  <2>5. QED
    BY <2>2, <2>3, <2>4 DEF Off, Done
<1>11. /\ Masters' = Masters /\ Masters \subseteq Routers
       /\ \A y, m \in Routers : Follows(y, m)' <=> Follows(y, m)
       /\ \A y : Limit(y)' = Limit(y)
       /\ \A y \in Routers : Unled(y)' <=> Unled(y)
       /\ \A x, y : Below(x, y)' <=> Below(x, y)
  <2>1. Masters \subseteq Routers
    BY DEF Masters
  <2>2. QED
    BY <1>1, <2>1, SameStates
<1>12. HeardPart' /\ DownPart'
  BY <1>4, <1>5 DEF HeardPart, DownPart
<1>13. ReachPart'
  <2>1. SUFFICES ASSUME NEW y \in Routers, NEW m \in Routers, Follows(y, m) PROVE Reached(y, m)'
    BY <1>11 DEF ReachPart
  <2>2. m \in Masters /\ timer[m].adver > 0 /\ timer'[m].adver = timer[m].adver - 1
    BY <1>9, <2>1 DEF Follows, Masters
  <2>3. \/ timer[y].down > 0 /\ timer[y].down > timer[m].adver
        \/ calm + timer[m].adver <= Interval[m]
    <3>1. CASE calm = 0
      BY <3>1, Numbers
    <3>2. CASE Election
      BY <1>5, <2>1, <3>2 DEF Election, ReachPart, Reached
    <3>3. QED
      BY <1>3, <3>1, <3>2
  <2>4. CASE timer[y].down > 0 /\ timer[y].down > timer[m].adver
    <3>1. timer'[y].down = timer[y].down - 1
      BY <1>6, <1>7, <2>4
    <3>2. timer'[y].down > 0 /\ timer'[y].down > timer'[m].adver
      BY <2>2, <2>4, <3>1, Numbers
    <3>3. QED
      BY <3>2 DEF Reached
  <2>5. CASE calm + timer[m].adver <= Interval[m]
    <3>1. calm' <= Interval[m] /\ calm' + timer'[m].adver <= Interval[m]
      BY <1>2, <2>2, <2>5, Numbers
    <3>2. QED
      BY <3>1 DEF Reached
  <2>6. QED
    BY <2>3, <2>4, <2>5
<1>14. RivalPart'
  <2>1. SUFFICES ASSUME NEW x \in Masters, NEW m \in Masters, Below(x, m)
                 PROVE  /\ calm' <= Limit(x) + LongestInterval
                        /\ calm' + timer'[m].adver <= Limit(x) + LongestInterval
    BY <1>11 DEF RivalPart
  <2>2. x \in Routers /\ m \in Routers /\ timer[m].adver > 0 /\ timer'[m].adver = timer[m].adver - 1
    BY <1>9, <1>11 DEF Masters
  <2>3. calm + timer[m].adver <= Limit(x) + LongestInterval
    <3>1. CASE calm = 0
      BY <2>2, <3>1, Numbers
    <3>2. CASE Election
      BY <1>5, <2>1, <2>2, <3>2 DEF Election, RivalPart
    <3>3. QED
      BY <1>3, <3>1, <3>2
  <2>4. QED
    BY <1>2, <2>2, <2>3, Numbers
<1>15. DelayPart'
  <2>1. SUFFICES ASSUME NEW y \in Routers PROVE DelayAt(y)'
    BY DEF DelayPart
  <2>2. SUFFICES ASSUME timer[y].delay # Off
                 PROVE  calm' <= Limit(y) /\ calm' + timer'[y].delay <= Limit(y)
    BY <1>5, <1>10, <1>11 DEF DelayAt
  <2>3. timer[y].delay > 0 /\ timer'[y].delay = timer[y].delay - 1
    BY <1>10, <2>2
  <2>4. calm + timer[y].delay <= Limit(y)
    <3>1. CASE calm = 0
      BY <3>1, Numbers
    <3>2. CASE Election
      BY <2>2, <3>2 DEF Election, DelayPart, DelayAt
    <3>3. QED
      BY <1>3, <3>1, <3>2
  <2>5. QED
    BY <1>2, <2>3, <2>4, Numbers
<1>16. OrphanPart'
  <2>1. SUFFICES ASSUME NEW y \in Routers, NEW t \in orphans[y] PROVE (t - 1) + calm' <= LongestDown
    BY DEF OrphanPart, Tick
  <2>2. t \in 0 .. LongestDown
    BY DEF Sane
  <2>3. t + calm <= LongestDown
    <3>1. CASE calm = 0
      BY <2>2, <3>1, Numbers
    <3>2. CASE Election
      BY <3>2 DEF Election, OrphanPart
    <3>3. QED
      BY <1>3, <3>1, <3>2
  <2>4. QED
    BY <1>2, <2>2, <2>3, Numbers
<1>17. LeadPart'
  <2>1. SUFFICES ASSUME NEW y \in Routers, Unled(y)
                 PROVE  /\ timer'[y].delay = Off => calm' <= LongestDown /\ calm' + timer'[y].down <= LongestDown
                        /\ timer'[y].delay # Off => calm' <= Elected /\ calm' + timer'[y].delay <= Elected
    BY <1>11 DEF LeadPart, LeadAt
  <2>2. timer[y].down > 0 /\ timer'[y].down = timer[y].down - 1
    BY <1>8, <2>1 DEF Unled
  <2>3. /\ timer[y].delay = Off => calm + timer[y].down <= LongestDown
        /\ timer[y].delay # Off => calm + timer[y].delay <= Elected
    <3>1. CASE calm = 0
      BY <3>1, Numbers
    <3>2. CASE Election
      BY <2>1, <3>2 DEF Election, LeadPart, LeadAt
    <3>3. QED
      BY <1>3, <3>1, <3>2
  <2>4. CASE timer[y].delay = Off
    BY <1>2, <1>10, <2>2, <2>3, <2>4, Numbers
  <2>5. CASE timer[y].delay # Off
    <3>1. timer[y].delay > 0 /\ timer'[y].delay = timer[y].delay - 1
      BY <1>10, <2>5
    <3>2. timer'[y].delay # Off
      BY <3>1, Numbers
    <3>3. QED
      BY <1>2, <2>3, <2>5, <3>1, <3>2, Numbers
  <2>6. QED
    BY <2>4, <2>5
<1>18. QED
  BY <1>12, <1>13, <1>14, <1>15, <1>16, <1>17 DEF Election

\* An event is handled.
LEMMA ElectionHandle ==
    ASSUME Types, AlertInv, Sane, Election, NEW r \in Routers, NEW h,
           \/ StayView(r, h) \/ AdverView(r, h) \/ TakeOverView(r, h) \/ GiveWayView(r, h)
           \/ FollowView(r, h) \/ WaitView(r, h) \/ ReleaseView(r, h)
    PROVE  Election'
<1>1. ~ReleaseView(r, h)
  <2>1. SUFFICES ASSUME ReleaseView(r, h) PROVE FALSE
    OBVIOUS
  <2>2. h \in Coming(r) /\ h.ev = "received" /\ h.prio = 0
    BY <2>1 DEF ReleaseView, Takes
  <2>3. h.prio > 0
    BY <2>2, HeardFacts
  <2>4. QED
    BY <2>2, <2>3
<1>2. QED
  BY <1>1, ElectionStay, ElectionAdver, ElectionTakeOver, ElectionGiveWay, ElectionFollow, ElectionWait

\* Every step keeps the invariant of the election.
LEMMA ElectionNext ==
    ASSUME SimilarIntervals, Types, AlertInv, Sane, ElectionInv, [Next]_vars
    PROVE  ElectionInv'
<1> SUFFICES ASSUME Settling' PROVE Election'
  BY DEF ElectionInv
<1>1. CASE UNCHANGED vars
  <2>1. Settling
    BY <1>1 DEF Settling, vars
  <2>2. \A y \in Routers : Coming(y)' = Coming(y)
    BY <1>1 DEF Coming, OnLinks, To, vars
  <2>3. QED
    BY <1>1, <2>1, <2>2, ElectionSame DEF ElectionInv, vars
<1>2. ~Fault
  BY DEF Fault, Settling
<1>3. ASSUME UNCHANGED <<calm, cut>> PROVE Settling /\ Election /\ cut = {}
  BY <1>3 DEF Settling, ElectionInv
<1>4. CASE Tick
  BY <1>4, ElectionTick
<1>5. ASSUME NEW r \in Routers, Receive(r) PROVE Election'
  <2>1. Election
    BY <1>3, <1>5 DEF Receive
  <2>2. QED
    BY <1>5, <2>1, ReceiveViews, ElectionHandle
<1>6. ASSUME NEW r \in Routers, NEW k \in TimerEvents, HandleTimer(r, k) PROVE Election'
  <2>1. Election
    BY <1>3, <1>6 DEF HandleTimer
  <2>2. QED
    BY <1>6, <2>1, TimerViews, ElectionHandle
<1>7. ASSUME NEW r \in Routers, NEW k \in TimerEvents, Timeout(r, k) \/ OrphanTimeout(r) PROVE Election'
  <2>1. Election
    BY <1>3, <1>7 DEF Timeout, OrphanTimeout
  <2>2. QED
    BY <1>7, <2>1, ElectionPost
<1>8. ASSUME NEW l \in Links, Deliver(l) PROVE Election'
  <2>1. Election /\ cut = {} /\ UNCHANGED <<state, prio, mode, timer, orphans, calm>>
    BY <1>3, <1>8 DEF Deliver
  <2>2. \A y \in Routers : Coming(y)' = Coming(y)
    BY <1>8, <2>1, ComingDeliver
  <2>3. QED
    BY <2>1, <2>2, ElectionSame
<1>9. "down" \in TimerEvents
  BY TimerFacts
<1>10. CASE Step
  BY <1>4, <1>5, <1>6, <1>7, <1>8, <1>9, <1>10 DEF Step, Handle
<1>11. ~Request
  BY <1>2 DEF Request, Shutdown, Restart, ChangePriority, ChangeMode
<1>12. \A l \in Links : ~Cut(l)
  BY <1>2 DEF Cut
<1>13. QED
  BY <1>1, <1>10, <1>11, <1>12 DEF Next

\* It holds in every state.
LEMMA ElectionHolds == ASSUME SimilarIntervals PROVE Spec => [](Types /\ AlertInv /\ Sane /\ ElectionInv)
<1>1. Init => Types /\ AlertInv /\ Sane /\ ElectionInv
  <2>1. Init => ~Settling
    BY DEF Init, Settling
  <2>2. QED
    BY <2>1, AlertInit, SaneInit DEF ElectionInv
<1>2. /\ Types /\ AlertInv /\ Sane /\ ElectionInv /\ [Next]_vars
      => (Types /\ AlertInv /\ Sane /\ ElectionInv)'
  BY AlertNext, SaneNext, ElectionNext
<1>3. QED
  BY <1>1, <1>2, PTL DEF Spec

\* When the time is over, every running router has a master that is as good.
LEMMA SettledLed ==
    ASSUME Types, Sane, Election, calm = SettleTime, NEW r \in Routers
    PROVE  ~Unled(r)
<1>1. SUFFICES ASSUME Unled(r) PROVE FALSE
  OBVIOUS
<1>2. LeadAt(r)
  BY DEF Election, LeadPart
<1>3. LongestDown < SettleTime
  BY SettleTimeNat
<1>4. CASE timer[r].delay = Off
  BY <1>1, <1>2, <1>3, <1>4, Numbers, SettleTimeNat DEF LeadAt
<1>5. CASE timer[r].delay # Off
  <2>1. PICK s \in Routers : s # r
    BY <1>5 DEF Sane, Fit, Company
  <2>2. Elected < SettleTime
    BY <2>1, LimitFacts
  <2>3. QED
    BY <1>1, <1>2, <1>5, <2>2, Numbers, SettleTimeNat DEF LeadAt
<1>6. QED
  BY <1>4, <1>5

\* When the time is over, there are no two masters.
LEMMA SettledAlone ==
    ASSUME Types, Sane, Election, calm = SettleTime, NEW x \in Masters, NEW m \in Masters
    PROVE  ~Below(x, m)
<1>1. SUFFICES ASSUME Below(x, m) PROVE FALSE
  OBVIOUS
<1>2. x \in Routers /\ m \in Routers
  BY DEF Masters
<1>3. prio[x] <= prio[m] /\ x # m
  BY <1>1, <1>2, BelowFacts
<1>4. calm <= Limit(x) + LongestInterval
  BY <1>1 DEF Election, RivalPart
<1>5. Limit(x) + LongestInterval < SettleTime
  BY <1>2, <1>3, LimitFacts
<1>6. QED
  BY <1>2, <1>4, <1>5, Numbers, SettleTimeNat

\* The election settles: after SettleTime ticks without a fault, and with every
\* link working, the running routers have exactly one master, and no router that
\* preempts has a higher priority.  This holds whatever was queued, delayed or
\* scheduled at the last fault, the timers of earlier instances included.
THEOREM VrrpElection == ASSUME SimilarIntervals PROVE Spec => []ElectionSettles
<1>1. Types /\ AlertInv /\ Sane /\ ElectionInv => ElectionSettles
  <2>1. SUFFICES ASSUME Types, Sane, ElectionInv, calm = SettleTime, cut = {}, Running # {}
                 PROVE  /\ Cardinality(Masters) = 1
                        /\ \A r \in Running, m \in Masters : mode[r].preempt => prio[r] <= prio[m]
    BY DEF ElectionSettles
  <2>2. SettleTime > 0
    BY SettleTimeNat, LongestFacts
  <2>3. Election
    BY <2>1, <2>2 DEF ElectionInv, Settling
  <2>4. Masters \subseteq Routers /\ Running \subseteq Routers
    BY DEF Masters, Running
  <2>5. \A r \in Running : r \in Masters \/ state[r] = "backup"
    BY <2>1, <2>4 DEF Types, States, Running, Masters
  <2>6. Masters # {}
    <3>1. SUFFICES ASSUME Masters = {} PROVE FALSE
      OBVIOUS
    <3>2. PICK r \in Running : TRUE
      BY <2>1
    <3>3. Unled(r)
      BY <2>5, <3>1 DEF Unled, Topmost
    <3>4. QED
      BY <2>1, <2>3, <2>4, <3>3, SettledLed
  <2>7. PICK m \in Masters : TRUE
    BY <2>6
  <2>8. Masters = {m}
    <3>1. SUFFICES ASSUME NEW x \in Masters, x # m PROVE FALSE
      OBVIOUS
    <3>2. Below(x, m) \/ Below(m, x)
      BY <2>1, <2>4, <3>1, BelowFacts
    <3>3. QED
      BY <2>1, <2>3, <3>2, SettledAlone
  <2>9. Cardinality(Masters) = 1
    BY <2>8, FS_Singleton
  <2>10. ASSUME NEW r \in Running, mode[r].preempt, ~(prio[r] <= prio[m]) PROVE FALSE
    <3>1. prio[m] < prio[r] /\ r # m
      BY <2>1, <2>4, <2>10, Numbers
    <3>2. Unled(r)
      BY <2>5, <2>8, <2>10, <3>1 DEF Unled, Topmost
    <3>3. QED
      BY <2>1, <2>3, <2>4, <3>2, SettledLed
  <2>11. QED
    BY <2>8, <2>9, <2>10
<1>2. QED
  BY <1>1, ElectionHolds, PTL

\* A router changes its state only before the time is over.
LEMMA SettledStill ==
    ASSUME Types, Sane, Election, calm = SettleTime, NEW r \in Routers, NEW h,
           \/ StayView(r, h) \/ AdverView(r, h) \/ TakeOverView(r, h) \/ GiveWayView(r, h)
           \/ FollowView(r, h) \/ WaitView(r, h) \/ ReleaseView(r, h)
    PROVE  \A y \in Routers : state'[y] = state[y]
<1>1. ASSUME NEW out, Takes(r, h, out), state'[r] = state[r]
      PROVE  \A y \in Routers : state'[y] = state[y]
  BY <1>1 DEF Takes
<1>2. Masters \subseteq Routers
  BY DEF Masters
<1>3. CASE TakeOverView(r, h)
  <2>1. state[r] = "backup" /\ h \in Coming(r) /\ h.ev \in {"down", "delay"}
    BY <1>3 DEF TakeOverView, Takes
  <2>2. /\ calm <= Limit(r)
        /\ Topmost(r) => \A m \in Masters : calm <= Limit(m)
    BY <2>1, TakeOverInTime
  <2>3. ~Unled(r)
    BY SettledLed
  <2>4. PICK m \in Masters : ~(prio[m] < prio[r]) \/ Topmost(r)
    BY <2>1, <2>3 DEF Unled, Topmost
  <2>5. m \in Routers /\ m # r
    BY <1>2, <2>1 DEF Masters
  <2>6. CASE ~(prio[m] < prio[r])
    <3>1. prio[r] <= prio[m]
      BY <2>5, <2>6, Numbers
    <3>2. Limit(r) + LongestInterval < SettleTime
      BY <2>5, <3>1, LimitFacts
    <3>3. QED
      BY <2>2, <3>2, Numbers, SettleTimeNat
  <2>7. CASE prio[m] < prio[r] /\ Topmost(r)
    <3>1. prio[m] <= prio[r]
      BY <2>5, <2>7, Numbers
    <3>2. Limit(m) + LongestInterval < SettleTime
      BY <2>5, <3>1, LimitFacts
    <3>3. QED
      BY <2>2, <2>5, <2>7, <3>2, Numbers, SettleTimeNat
  <2>8. QED
    BY <2>4, <2>6, <2>7
<1>4. CASE GiveWayView(r, h)
  <2>1. state[r] = "master" /\ h \in Coming(r) /\ h.ev = "received" /\ GivesWay(r, h)
    BY <1>4 DEF GiveWayView, Hears, Takes
  <2>2. Current(h) /\ h.src \in Routers /\ h.prio = prio[h.src]
    BY <2>1, HeardFacts
  <2>3. Below(r, h.src) /\ r \in Masters
    BY <2>1, <2>2 DEF GivesWay, Below, Masters
  <2>4. PICK m \in Masters : m = h.src \/ Below(h.src, m)
    BY <2>2 DEF Current
  <2>5. Below(r, m)
    BY <1>2, <2>2, <2>3, <2>4, BelowFacts
  <2>6. QED
    BY <2>3, <2>5, SettledAlone
<1>5. CASE StayView(r, h)
  BY <1>1, <1>5 DEF StayView, Turns
<1>6. CASE AdverView(r, h)
  BY <1>1, <1>6 DEF AdverView, Turns
<1>7. CASE FollowView(r, h)
  BY <1>1, <1>7 DEF FollowView, Hears, Turns
<1>8. CASE WaitView(r, h)
  BY <1>1, <1>8 DEF WaitView, Hears, Turns
<1>9. CASE ReleaseView(r, h)
  BY <1>1, <1>9 DEF ReleaseView, Turns
<1>10. QED
  BY <1>3, <1>4, <1>5, <1>6, <1>7, <1>8, <1>9

\* No router flaps: once SettleTime has passed after the last fault no router
\* changes its state until the next one, whichever timers run out and whichever
\* advertisements and late events are handled.
THEOREM VrrpNoFlapping == ASSUME SimilarIntervals PROVE Spec => NoFlapping
<1>1. /\ Types /\ AlertInv /\ Sane /\ ElectionInv /\ [Next]_vars
      => (calm = SettleTime /\ calm' = SettleTime /\ cut = {} => state' = state)
  <2>1. SUFFICES ASSUME Types, AlertInv, Sane, ElectionInv, [Next]_vars,
                        calm = SettleTime, calm' = SettleTime, cut = {}
                 PROVE  state' = state
    OBVIOUS
  <2>2. SettleTime > 0
    BY SettleTimeNat, LongestFacts
  <2>3. Election /\ ~Fault
    BY <2>1, <2>2, SettleTimeNat DEF ElectionInv, Settling, Fault
  <2>4. state \in [Routers -> States] /\ state' \in [Routers -> States]
    BY <2>1, AlertNext DEF Types
  <2>5. ASSUME \A y \in Routers : state'[y] = state[y] PROVE state' = state
    BY <2>4, <2>5
  <2>6. ASSUME NEW r \in Routers, Receive(r) PROVE state' = state
    BY <2>1, <2>3, <2>5, <2>6, ReceiveViews, SettledStill
  <2>7. ASSUME NEW r \in Routers, NEW k \in TimerEvents, HandleTimer(r, k) PROVE state' = state
    BY <2>1, <2>3, <2>5, <2>7, TimerViews, SettledStill
  <2>8. CASE UNCHANGED vars
    BY <2>8 DEF vars
  <2>9. CASE Step
    BY <2>6, <2>7, <2>9 DEF Step, Handle, Tick, Timeout, OrphanTimeout, Deliver
  <2>10. ~Request
    BY <2>3 DEF Request, Shutdown, Restart, ChangePriority, ChangeMode
  <2>11. \A l \in Links : ~Cut(l)
    BY <2>3 DEF Cut
  <2>12. QED
    BY <2>1, <2>8, <2>9, <2>10, <2>11 DEF Next
<1>2. QED
  BY <1>1, ElectionHolds, PTL DEF Spec, NoFlapping

=============================================================================
