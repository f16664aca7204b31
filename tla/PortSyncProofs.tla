--------------------------- MODULE PortSyncProofs ---------------------------
(***************************************************************************)
(* The proof that DPSet's port_state, Datapath.ports and the ports of the  *)
(* switch agree once everything was read, for any number of port changes.  *)
(* A queue of port status messages lies between each two of these tables;  *)
(* the invariants say that replaying the queue on the one behind gives the *)
(* one ahead.                                                              *)
(***************************************************************************)
EXTENDS DPSetProofs

(***************************************************************************)
(* Replaying status messages.  The messages are a function on a set of     *)
(* positions.  What a replay leaves at a port is decided by the last       *)
(* message about that port, so no recursion is needed to state it.         *)
(***************************************************************************)

\* The tables f and g say the same of port p.
SameAt(f, g, p) == (p \in DOMAIN f <=> p \in DOMAIN g) /\ (p \in DOMAIN f => f[p] = g[p])

\* The table g shows what the message s did.
Shows(g, s) == IF s.reason = "delete" THEN s.port \notin DOMAIN g
               ELSE s.port \in DOMAIN g /\ g[s.port] = s.attr

\* The message at position i is the last one of st about its port.
LastOn(st, i) == \A j \in DOMAIN st : j > i => st[j].port # st[i].port

\* Replaying the messages st on the table f gives the table g.
Replays(f, st, g) ==
    \A p \in PortNos :
        \/ (\A i \in DOMAIN st : st[i].port # p) /\ SameAt(f, g, p)
        \/ \E i \in DOMAIN st : st[i].port = p /\ LastOn(st, i) /\ Shows(g, st[i])

\* The messages of a wire behind position k.
After(q, k) == [i \in k + 1 .. Len(q) |-> q[i]]

\* The status messages of connection c in DPSet's queue.
OfConn(q, c) ==
    [i \in {i \in 1 .. Len(q) : q[i].type = "status" /\ q[i].conn = c} |-> q[i].status]

(***************************************************************************)
(* Between the switch and Datapath.ports.                                  *)
(***************************************************************************)

\* The first part, the last part of a port description.
Part(m) == m.type = "port_desc" /\ m.more

Last(m) == m.type = "port_desc" /\ ~m.more

\* While the ports are asked for: f is Datapath.ports, r what the switch has
\* not sent yet, q the wire and sw the ports of the switch.  Datapath.ports is
\* empty until the first part of the reply is read.
AskedOK(request, f, q) ==
    /\ request \in {"features", "port_desc"} => f = NoPorts
    /\ request = "rest" => f # NoPorts \/ \E k \in 1 .. Len(q) : Part(q[k])
    /\ \A k \in 1 .. Len(q) : q[k].type = "features" => f = NoPorts
    /\ \A k \in 1 .. Len(q) : Part(q[k]) => /\ f = NoPorts /\ q[k].ports # NoPorts
                                            /\ \A j \in 1 .. Len(q) :
                                                  /\ q[j].type # "features"
                                                  /\ Part(q[j]) => j = k

ReplyOK(request, f, r, q, sw) ==
    /\ \A k \in 1 .. Len(q) : q[k].type = "features" => Replays(q[k].ports, After(q, k), sw)
    /\ \A k \in 1 .. Len(q) :
          Part(q[k]) /\ request = "rest" => Replays(Updated(q[k].ports, r), After(q, k), sw)
    /\ request = "rest" /\ f # NoPorts => Replays(Updated(f, r), After(q, 0), sw)

\* The last part: alone, behind a first part that was read, and right behind a
\* first part that was not.
LastOK(f, q, sw) ==
    \A k \in 1 .. Len(q) : Last(q[k]) =>
        /\ f = NoPorts /\ (\A j \in 1 .. Len(q) : ~Part(q[j])) =>
              Replays(q[k].ports, After(q, k), sw)
        /\ f # NoPorts /\ k = 1 => Replays(Updated(f, q[k].ports), After(q, k), sw)
        /\ k > 1 /\ Part(q[k - 1]) =>
              Replays(Updated(q[k - 1].ports, q[k].ports), After(q, k), sw)

ConfigOK(request, f, r, q, sw) ==
    AskedOK(request, f, q) /\ ReplyOK(request, f, r, q, sw) /\ LastOK(f, q, sw)

\* Datapath.ports once the announced status is applied.
Target(f, pend) == IF pend = << >> THEN f ELSE Applied(f, Head(pend))

SyncOK(p, request, f, r, q, pend, sw) ==
    /\ p \in {"none", "handshake"} => f = NoPorts
    /\ p = "config" => ConfigOK(request, f, r, q, sw)
    /\ p = "main" => Replays(Target(f, pend), After(q, 0), sw)

SyncInv ==
    /\ DOMAIN missed = Conns
    /\ \A c \in Conns :
          ~missed[c] => SyncOK(phase[c], asked[c], ports[c], rest[c], wire[c], pending[c],
                               swports[DpidOf[c]])

(***************************************************************************)
(* Between Datapath.ports and port_state.                                  *)
(***************************************************************************)

\* Status events follow the main event of their connection.
Late(q, c) ==
    \A i \in DOMAIN OfConn(q, c) : \A j \in 1 .. Len(q) : q[j] = MainEvent(c) => j < i

StatusLate ==
    \A c \in Conns :
        /\ DOMAIN OfConn(evq, c) # {} => phase[c] \in {"main", "dead"}
        /\ Late(evq, c)

\* The owner of an entry of port_state was registered and is not going to be
\* registered again.
OwnerInv ==
    /\ DOMAIN owner \subseteq DOMAIN dps
    /\ \A d \in DOMAIN owner :
          /\ owner[d] \in Conns /\ DpidOf[owner[d]] = d
          /\ phase[owner[d]] \in {"main", "dead"}
          /\ ~Holds(evq, MainEvent(owner[d]))
          /\ job # RegisterJob(owner[d])

Owner(c) == LET d == DpidOf[c] IN Registered(c) /\ d \in DOMAIN owner /\ owner[d] = c

\* DPSet copies the ports when it gets to the main event and replays the status
\* events behind it.
ReplayInv ==
    \A c \in Conns : phase[c] = "main" =>
        /\ Holds(evq, MainEvent(c)) =>
              Replays(ports[c], OfConn(evq, c), Target(ports[c], pending[c]))
        /\ Owner(c) =>
              Replays(pstate[DpidOf[c]], OfConn(evq, c), Target(ports[c], pending[c]))

QueueInv == StatusLate /\ OwnerInv /\ ReplayInv

-----------------------------------------------------------------------------
(***************************************************************************)
(* What replaying does.                                                    *)
(***************************************************************************)

\* Applying a message changes its port and no other.
LEMMA AppliedFacts ==
    ASSUME NEW f, NEW s
    PROVE  /\ Shows(Applied(f, s), s)
           /\ \A p : p # s.port => SameAt(f, Applied(f, s), p)
BY DEF Shows, Applied, SameAt, With, Minus, Restrict

\* With nothing to replay the tables are the same.
LEMMA ReplayNothing ==
    ASSUME NEW f \in Ports, NEW g \in Ports, NEW st, DOMAIN st = {}
    PROVE  Replays(f, st, g) <=> f = g
<1>1. PICK D \in SUBSET PortNos : f \in [D -> PortAttrs]
  BY DEF Ports
<1>2. PICK E \in SUBSET PortNos : g \in [E -> PortAttrs]
  BY DEF Ports
<1>3. Replays(f, st, g) <=> \A p \in PortNos : SameAt(f, g, p)
  BY DEF Replays
<1>4. ASSUME \A p \in PortNos : SameAt(f, g, p) PROVE f = g
  <2>1. D = E
    BY <1>1, <1>2, <1>4 DEF SameAt
  <2>2. \A p \in D : f[p] = g[p]
    BY <1>1, <1>2, <1>4 DEF SameAt
  <2>3. QED
    BY <1>1, <1>2, <2>1, <2>2
<1>5. f = g => \A p \in PortNos : SameAt(f, g, p)
  BY DEF SameAt
<1>6. QED
  BY <1>3, <1>4, <1>5

\* The messages do not depend on where the positions start.
LEMMA ReplayShift ==
    ASSUME NEW f, NEW g, NEW st, NEW tt, DOMAIN st \subseteq Int, DOMAIN tt \subseteq Int,
           \A i \in Int : i \in DOMAIN tt <=> i + 1 \in DOMAIN st,
           \A i \in DOMAIN tt : tt[i] = st[i + 1],
           Replays(f, st, g)
    PROVE  Replays(f, tt, g)
<1> SUFFICES ASSUME NEW p \in PortNos
             PROVE  \/ (\A i \in DOMAIN tt : tt[i].port # p) /\ SameAt(f, g, p)
                    \/ \E i \in DOMAIN tt : tt[i].port = p /\ LastOn(tt, i) /\ Shows(g, tt[i])
  BY DEF Replays
<1>1. CASE (\A i \in DOMAIN st : st[i].port # p) /\ SameAt(f, g, p)
  BY <1>1
<1>2. CASE \E i \in DOMAIN st : st[i].port = p /\ LastOn(st, i) /\ Shows(g, st[i])
  <2>1. PICK i \in DOMAIN st : st[i].port = p /\ LastOn(st, i) /\ Shows(g, st[i])
    BY <1>2
  <2>2. i \in Int /\ i - 1 \in Int /\ (i - 1) + 1 = i
    OBVIOUS
  <2>3. i - 1 \in DOMAIN tt /\ tt[i - 1] = st[i]
    BY <2>2
  <2>4. LastOn(tt, i - 1)
    BY <2>1, <2>2, <2>3 DEF LastOn
  <2>5. QED
    BY <2>1, <2>3, <2>4
<1>3. QED
  BY <1>1, <1>2 DEF Replays

\* One more message behind the others, applied to the table ahead.
LEMMA ReplayPut ==
    ASSUME NEW f, NEW g, NEW st, NEW tt, NEW n \in Int, DOMAIN st \subseteq Int,
           \A i \in DOMAIN st : i < n,
           DOMAIN tt = DOMAIN st \cup {n}, \A i \in DOMAIN st : tt[i] = st[i],
           Replays(f, st, g)
    PROVE  Replays(f, tt, Applied(g, tt[n]))
<1> DEFINE h == Applied(g, tt[n])
<1>1. Shows(h, tt[n]) /\ \A p : p # tt[n].port => SameAt(g, h, p)
  BY AppliedFacts
<1> HIDE DEF h
<1> SUFFICES ASSUME NEW p \in PortNos
             PROVE  \/ (\A i \in DOMAIN tt : tt[i].port # p) /\ SameAt(f, h, p)
                    \/ \E i \in DOMAIN tt : tt[i].port = p /\ LastOn(tt, i) /\ Shows(h, tt[i])
  BY DEF Replays, h
<1>2. CASE tt[n].port = p
  <2>1. LastOn(tt, n)
    BY DEF LastOn
  <2>2. QED
    BY <1>1, <1>2, <2>1
<1>3. CASE tt[n].port # p
  <2>1. CASE (\A i \in DOMAIN st : st[i].port # p) /\ SameAt(f, g, p)
    BY <1>1, <1>3, <2>1 DEF SameAt
  <2>2. CASE \E i \in DOMAIN st : st[i].port = p /\ LastOn(st, i) /\ Shows(g, st[i])
    <3>1. PICK i \in DOMAIN st : st[i].port = p /\ LastOn(st, i) /\ Shows(g, st[i])
      BY <2>2
    <3>2. i \in DOMAIN tt /\ tt[i] = st[i] /\ LastOn(tt, i)
      BY <1>3, <3>1 DEF LastOn
    <3>3. Shows(h, tt[i])
      BY <1>1, <1>3, <3>1, <3>2 DEF Shows, SameAt
    <3>4. QED
      BY <3>1, <3>2, <3>3
  <2>3. QED
    BY <2>1, <2>2 DEF Replays
<1>4. QED
  BY <1>2, <1>3

\* The first message is taken and applied to the table behind.
LEMMA ReplayTake ==
    ASSUME NEW f, NEW g, NEW st, NEW tt, NEW m \in DOMAIN st, DOMAIN st \subseteq Int,
           \A i \in DOMAIN st : i >= m,
           DOMAIN tt = DOMAIN st \ {m}, \A i \in DOMAIN tt : tt[i] = st[i],
           Replays(f, st, g)
    PROVE  Replays(Applied(f, st[m]), tt, g)
<1> DEFINE h == Applied(f, st[m])
<1>1. Shows(h, st[m]) /\ \A p : p # st[m].port => SameAt(f, h, p)
  BY AppliedFacts
<1> HIDE DEF h
<1> SUFFICES ASSUME NEW p \in PortNos
             PROVE  \/ (\A i \in DOMAIN tt : tt[i].port # p) /\ SameAt(h, g, p)
                    \/ \E i \in DOMAIN tt : tt[i].port = p /\ LastOn(tt, i) /\ Shows(g, tt[i])
  BY DEF Replays, h
<1>2. CASE (\A i \in DOMAIN st : st[i].port # p) /\ SameAt(f, g, p)
  BY <1>1, <1>2 DEF SameAt
<1>3. ASSUME NEW i \in DOMAIN st, st[i].port = p, LastOn(st, i), Shows(g, st[i])
      PROVE  \/ (\A j \in DOMAIN tt : tt[j].port # p) /\ SameAt(h, g, p)
             \/ \E j \in DOMAIN tt : tt[j].port = p /\ LastOn(tt, j) /\ Shows(g, tt[j])
  <2>1. CASE i = m
    <3>1. \A j \in DOMAIN tt : tt[j].port # p
      BY <1>3, <2>1 DEF LastOn
    <3>2. SameAt(h, g, p)
      BY <1>1, <1>3, <2>1 DEF Shows, SameAt
    <3>3. QED
      BY <3>1, <3>2
  <2>2. CASE i # m
    <3>1. i \in DOMAIN tt /\ tt[i] = st[i] /\ LastOn(tt, i)
      BY <1>3, <2>2 DEF LastOn
    <3>2. QED
      BY <1>3, <3>1
  <2>3. QED
    BY <2>1, <2>2
<1>4. QED
  BY <1>2, <1>3 DEF Replays

\* Replaying messages once more changes nothing.
LEMMA ReplayAgain ==
    ASSUME NEW f, NEW st, NEW g, Replays(f, st, g)
    PROVE  Replays(g, st, g)
BY DEF Replays, SameAt

\* Tables that are made of parts.
LEMMA UpdatedFacts ==
    ASSUME NEW g \in Ports, NEW now \in SUBSET DOMAIN g
    PROVE  /\ Updated(NoPorts, g) = g
           /\ Updated(Restrict(g, now), Restrict(g, DOMAIN g \ now)) = g
           /\ Restrict(g, DOMAIN g) = g
           /\ Restrict(g, now) = NoPorts => now = {}
<1>1. PICK D \in SUBSET PortNos : g \in [D -> PortAttrs]
  BY DEF Ports
<1>2. g = [z \in D |-> g[z]] /\ DOMAIN g = D
  BY <1>1
<1>3. Updated(NoPorts, g) = [z \in D |-> g[z]]
  BY <1>2 DEF Updated, NoPorts
<1>4. Restrict(g, D) = [z \in D |-> g[z]]
  BY DEF Restrict
<1>5. Updated(Restrict(g, now), Restrict(g, D \ now)) = [z \in D |-> g[z]]
  <2> DEFINE a == Restrict(g, now)
             b == Restrict(g, D \ now)
  <2>1. /\ DOMAIN a = now /\ DOMAIN b = D \ now
        /\ \A z \in now : a[z] = g[z]
        /\ \A z \in D \ now : b[z] = g[z]
    BY DEF Restrict
  <2> HIDE DEF a, b
  <2>2. DOMAIN a \cup DOMAIN b = D
    BY <1>2, <2>1
  <2>3. Updated(a, b) = [z \in D |-> IF z \in DOMAIN b THEN b[z] ELSE a[z]]
    BY <2>2 DEF Updated
  <2>4. \A z \in D : (IF z \in DOMAIN b THEN b[z] ELSE a[z]) = g[z]
    BY <2>1
  <2>5. Updated(a, b) = [z \in D |-> g[z]]
    BY <2>3, <2>4
  <2>6. QED
    BY <2>5 DEF a, b
<1>6. Restrict(g, now) = NoPorts => now = {}
  <2>1. DOMAIN Restrict(g, now) = now /\ DOMAIN NoPorts = {}
    BY DEF Restrict, NoPorts
  <2>2. QED
    BY <2>1
<1>7. QED
  BY <1>2, <1>3, <1>4, <1>5, <1>6

\* The switch sends one more status message.
LEMMA AfterPut ==
    ASSUME NEW f, NEW g, NEW T, NEW q \in Seq(T), NEW m \in T, NEW k \in 0 .. Len(q),
           Replays(f, After(q, k), g)
    PROVE  Replays(f, After(Append(q, m), k), Applied(g, m))
<1> DEFINE r == Append(q, m)
           n == Len(q) + 1
<1>1. /\ Len(q) \in Nat /\ Len(r) = n /\ r[n] = m
      /\ \A i \in 1 .. Len(q) : r[i] = q[i]
  BY AppendProperties, LenProperties
<1> HIDE DEF r
<1>2. /\ DOMAIN After(q, k) = k + 1 .. Len(q) /\ DOMAIN After(r, k) = k + 1 .. n
      /\ \A i \in k + 1 .. Len(q) : After(q, k)[i] = q[i]
      /\ \A i \in k + 1 .. n : After(r, k)[i] = r[i]
  BY <1>1 DEF After
<1>3. /\ n \in Int /\ DOMAIN After(q, k) \subseteq Int
      /\ \A i \in DOMAIN After(q, k) : i < n
      /\ DOMAIN After(r, k) = DOMAIN After(q, k) \cup {n}
      /\ \A i \in DOMAIN After(q, k) : After(r, k)[i] = After(q, k)[i]
      /\ After(r, k)[n] = m
  BY <1>1, <1>2
<1> HIDE DEF n
<1>4. Replays(f, After(r, k), Applied(g, After(r, k)[n]))
  BY <1>3, ReplayPut
<1>5. QED
  BY <1>3, <1>4 DEF r

\* The first message is read: the messages behind position k are the same ones.
LEMMA AfterTail ==
    ASSUME NEW f, NEW g, NEW T, NEW q \in Seq(T), q # << >>, NEW k \in 1 .. Len(q),
           Replays(f, After(q, k), g)
    PROVE  Replays(f, After(Tail(q), k - 1), g)
<1> DEFINE t == Tail(q)
<1>1. /\ Len(q) \in Nat /\ Len(q) > 0 /\ Len(t) = Len(q) - 1
      /\ \A i \in 1 .. Len(t) : t[i] = q[i + 1]
  BY HeadTailProperties, LenProperties
<1> HIDE DEF t
<1>2. /\ DOMAIN After(q, k) = k + 1 .. Len(q) /\ DOMAIN After(t, k - 1) = k .. Len(t)
      /\ \A i \in k + 1 .. Len(q) : After(q, k)[i] = q[i]
      /\ \A i \in k .. Len(t) : After(t, k - 1)[i] = t[i]
  BY <1>1 DEF After
<1>3. /\ DOMAIN After(q, k) \subseteq Int /\ DOMAIN After(t, k - 1) \subseteq Int
      /\ \A i \in Int : i \in DOMAIN After(t, k - 1) <=> i + 1 \in DOMAIN After(q, k)
      /\ \A i \in DOMAIN After(t, k - 1) : After(t, k - 1)[i] = After(q, k)[i + 1]
  BY <1>1, <1>2
<1>4. Replays(f, After(t, k - 1), g)
  BY <1>3, ReplayShift
<1>5. QED
  BY <1>4 DEF t

\* The first message is read and applied.
LEMMA AfterTake ==
    ASSUME NEW f, NEW g, NEW T, NEW q \in Seq(T), q # << >>, Replays(f, After(q, 0), g)
    PROVE  Replays(Applied(f, Head(q)), After(Tail(q), 0), g)
<1>1. Len(q) \in Nat /\ Len(q) > 0 /\ Head(q) = q[1]
  BY HeadTailProperties, LenProperties
<1>2. /\ DOMAIN After(q, 0) = 1 .. Len(q) /\ DOMAIN After(q, 1) = 2 .. Len(q)
      /\ \A i \in 1 .. Len(q) : After(q, 0)[i] = q[i]
      /\ \A i \in 2 .. Len(q) : After(q, 1)[i] = q[i]
  BY <1>1 DEF After
<1>3. /\ 1 \in DOMAIN After(q, 0) /\ DOMAIN After(q, 0) \subseteq Int
      /\ \A i \in DOMAIN After(q, 0) : i >= 1
      /\ DOMAIN After(q, 1) = DOMAIN After(q, 0) \ {1}
      /\ \A i \in DOMAIN After(q, 1) : After(q, 1)[i] = After(q, 0)[i]
      /\ After(q, 0)[1] = Head(q)
  <2>1. 2 .. Len(q) = (1 .. Len(q)) \ {1}
    BY <1>1
  <2>2. 1 \in 1 .. Len(q) /\ \A i \in 1 .. Len(q) : i \in Int /\ i >= 1
    BY <1>1
  <2>3. \A i \in 2 .. Len(q) : i \in 1 .. Len(q)
    BY <1>1
  <2> DEFINE a == After(q, 0)
             b == After(q, 1)
  <2> HIDE DEF a, b
  <2>4. /\ DOMAIN a = 1 .. Len(q) /\ DOMAIN b = 2 .. Len(q)
        /\ \A i \in 1 .. Len(q) : a[i] = q[i]
        /\ \A i \in 2 .. Len(q) : b[i] = q[i]
    BY <1>2 DEF a, b
  <2>5. /\ DOMAIN b = DOMAIN a \ {1}
        /\ \A i \in DOMAIN b : b[i] = a[i]
        /\ a[1] = Head(q)
    BY <1>1, <2>1, <2>2, <2>3, <2>4
  <2>6. QED
    BY <2>2, <2>4, <2>5 DEF a, b
<1>4. Replays(Applied(f, Head(q)), After(q, 1), g)
  BY <1>3, ReplayTake
<1>5. Replays(Applied(f, Head(q)), After(Tail(q), 1 - 1), g)
  <2>1. 1 \in 1 .. Len(q)
    BY <1>1
  <2> HIDE <1>1, <1>2, <1>3
  <2>2. QED
    BY <1>4, <2>1, AfterTail
<1>6. QED
  BY <1>5

\* Nothing is behind the last message.
LEMMA AfterEnd ==
    ASSUME NEW T, NEW q \in Seq(T), NEW f \in Ports, NEW g \in Ports
    PROVE  Replays(f, After(q, Len(q)), g) <=> f = g
<1>1. DOMAIN After(q, Len(q)) = {}
  <2>1. Len(q) \in Nat
    BY LenProperties
  <2>2. QED
    BY <2>1 DEF After
<1>2. QED
  BY <1>1, ReplayNothing

-----------------------------------------------------------------------------
(***************************************************************************)
(* The config phase, step by step.                                         *)
(***************************************************************************)

\* The positions of a wire with one more message.
LEMMA PutPositions ==
    ASSUME NEW T, NEW q \in Seq(T), NEW m \in T
    PROVE  /\ Len(q) \in Nat /\ Len(Append(q, m)) = Len(q) + 1
           /\ Append(q, m)[Len(q) + 1] = m
           /\ \A k \in 1 .. Len(q) : Append(q, m)[k] = q[k] /\ k \in 1 .. Len(Append(q, m))
           /\ \A k \in 1 .. Len(Append(q, m)) : k \in 1 .. Len(q) \/ k = Len(q) + 1
           /\ Append(q, m) \in Seq(T)
<1>1. /\ Len(q) \in Nat /\ Len(Append(q, m)) = Len(q) + 1
      /\ Append(q, m)[Len(q) + 1] = m
      /\ \A k \in 1 .. Len(q) : Append(q, m)[k] = q[k]
      /\ Append(q, m) \in Seq(T)
  BY AppendProperties, LenProperties
<1> DEFINE r == Append(q, m)
<1> HIDE DEF r
<1>2. /\ Len(q) \in Nat /\ Len(r) = Len(q) + 1 /\ \A k \in 1 .. Len(q) : r[k] = q[k]
  BY <1>1 DEF r
<1>3. /\ \A k \in 1 .. Len(q) : k \in 1 .. Len(r)
      /\ \A k \in 1 .. Len(r) : k \in 1 .. Len(q) \/ k = Len(q) + 1
  BY <1>2
<1>4. QED
  BY <1>1, <1>3 DEF r

\* The positions of a wire without its first message.
LEMMA TakePositions ==
    ASSUME NEW T, NEW q \in Seq(T), q # << >>
    PROVE  /\ Len(q) \in Nat /\ Len(q) > 0 /\ Len(Tail(q)) = Len(q) - 1
           /\ Head(q) = q[1] /\ Head(q) \in T /\ 1 \in 1 .. Len(q)
           /\ Tail(q) \in Seq(T)
           /\ \A k \in 1 .. Len(Tail(q)) : Tail(q)[k] = q[k + 1] /\ k + 1 \in 1 .. Len(q)
           /\ \A k \in 1 .. Len(q) : k = 1 \/ k - 1 \in 1 .. Len(Tail(q))
<1>1. /\ Len(q) \in Nat /\ Len(q) > 0 /\ Len(Tail(q)) = Len(q) - 1
      /\ Head(q) = q[1] /\ Head(q) \in T /\ Tail(q) \in Seq(T)
      /\ \A k \in 1 .. Len(Tail(q)) : Tail(q)[k] = q[k + 1]
  BY HeadTailProperties, LenProperties
<1> DEFINE t == Tail(q)
<1> HIDE DEF t
<1>2. Len(q) \in Nat /\ Len(q) > 0 /\ Len(t) = Len(q) - 1
  BY <1>1 DEF t
<1>3. /\ 1 \in 1 .. Len(q)
      /\ \A k \in 1 .. Len(t) : k + 1 \in 1 .. Len(q)
      /\ \A k \in 1 .. Len(q) : k = 1 \/ k - 1 \in 1 .. Len(t)
  BY <1>2
<1>4. QED
  BY <1>1, <1>3 DEF t

\* The ports of a switch change while it is asked for them.
LEMMA ConfigChange ==
    ASSUME NEW request, NEW f, NEW r, NEW q \in Seq(Message), NEW sw, NEW m \in Message,
           m.type = "status", ConfigOK(request, f, r, q, sw)
    PROVE  ConfigOK(request, f, r, Append(q, m), Applied(sw, m))
<1> DEFINE a == Append(q, m)
           n == Len(q) + 1
           g == Applied(sw, m)
<1>1. /\ Len(q) \in Nat /\ Len(a) = n /\ a[n] = m
      /\ \A k \in 1 .. Len(q) : a[k] = q[k] /\ k \in 1 .. Len(a)
      /\ \A k \in 1 .. Len(a) : k \in 1 .. Len(q) \/ k = n
  BY PutPositions
<1>2. \A h, k : k \in 0 .. Len(q) /\ Replays(h, After(q, k), sw) => Replays(h, After(a, k), g)
  BY AfterPut
<1>3. ~Part(m) /\ ~Last(m) /\ m.type # "features"
  BY DEF Part, Last
<1> HIDE DEF a, g
<1>4. \A k \in 1 .. Len(a) : Part(a[k]) \/ Last(a[k]) \/ a[k].type = "features" =>
                                k \in 1 .. Len(q) /\ a[k] = q[k]
  BY <1>1, <1>3
<1>5. \A k \in 1 .. Len(q) : k \in 0 .. Len(q)
  OBVIOUS
<1>6. AskedOK(request, f, a)
  <2>1. AskedOK(request, f, q)
    BY DEF ConfigOK
  <2>2. request = "rest" => f # NoPorts \/ \E k \in 1 .. Len(a) : Part(a[k])
    BY <1>1, <2>1 DEF AskedOK
  <2>3. \A k \in 1 .. Len(a) : a[k].type = "features" => f = NoPorts
    BY <1>4, <2>1 DEF AskedOK
  <2>4. ASSUME NEW k \in 1 .. Len(a), Part(a[k])
        PROVE  /\ f = NoPorts /\ a[k].ports # NoPorts
               /\ \A j \in 1 .. Len(a) : a[j].type # "features" /\ (Part(a[j]) => j = k)
    BY <1>4, <2>1, <2>4 DEF AskedOK
  <2>5. QED
    BY <2>1, <2>2, <2>3, <2>4 DEF AskedOK
<1>7. ReplyOK(request, f, r, a, g)
  <2>1. ReplyOK(request, f, r, q, sw)
    BY DEF ConfigOK
  <2>2. \A k \in 1 .. Len(a) : a[k].type = "features" => Replays(a[k].ports, After(a, k), g)
    BY <1>2, <1>4, <1>5, <2>1 DEF ReplyOK
  <2>3. \A k \in 1 .. Len(a) :
          Part(a[k]) /\ request = "rest" => Replays(Updated(a[k].ports, r), After(a, k), g)
    BY <1>2, <1>4, <1>5, <2>1 DEF ReplyOK
  <2>4. request = "rest" /\ f # NoPorts => Replays(Updated(f, r), After(a, 0), g)
    <3>1. 0 \in 0 .. Len(q)
      BY <1>1
    <3>2. QED
      BY <1>2, <2>1, <3>1 DEF ReplyOK
  <2>5. QED
    BY <2>2, <2>3, <2>4 DEF ReplyOK
<1>8. LastOK(f, a, g)
  <2> SUFFICES ASSUME NEW k \in 1 .. Len(a), Last(a[k])
               PROVE  /\ f = NoPorts /\ (\A j \in 1 .. Len(a) : ~Part(a[j])) =>
                            Replays(a[k].ports, After(a, k), g)
                      /\ f # NoPorts /\ k = 1 => Replays(Updated(f, a[k].ports), After(a, k), g)
                      /\ k > 1 /\ Part(a[k - 1]) =>
                            Replays(Updated(a[k - 1].ports, a[k].ports), After(a, k), g)
    BY DEF LastOK
  <2>1. k \in 1 .. Len(q) /\ a[k] = q[k] /\ k \in 0 .. Len(q)
    BY <1>4, <1>5
  <2>2. LastOK(f, q, sw)
    BY DEF ConfigOK
  <2>3. (\A j \in 1 .. Len(a) : ~Part(a[j])) => (\A j \in 1 .. Len(q) : ~Part(q[j]))
    BY <1>1
  <2>4. k > 1 => k - 1 \in 1 .. Len(q) /\ a[k - 1] = q[k - 1]
    BY <1>1, <2>1
  <2>5. QED
    BY <1>2, <2>1, <2>2, <2>3, <2>4 DEF LastOK
<1>9. QED
  BY <1>6, <1>7, <1>8 DEF ConfigOK, a, g

\* A request is sent: no reply is on its way.
LEMMA ConfigAsk ==
    ASSUME NEW request \in {"features", "port_desc"}, NEW r, NEW q, OnlyStatus(q), NEW sw
    PROVE  ConfigOK(request, NoPorts, r, q, sw)
<1>1. \A k \in 1 .. Len(q) : ~Part(q[k]) /\ ~Last(q[k]) /\ q[k].type # "features"
  BY DEF OnlyStatus, Part, Last
<1>2. QED
  BY <1>1 DEF ConfigOK, AskedOK, ReplyOK, LastOK

\* The switch answers the features request with its ports.
LEMMA ConfigFeatures ==
    ASSUME NEW r, NEW q \in Seq(Message), OnlyStatus(q), NEW m \in Message,
           m.type = "features", m.ports \in Ports
    PROVE  ConfigOK("nothing", NoPorts, r, Append(q, m), m.ports)
<1> DEFINE a == Append(q, m)
           n == Len(q) + 1
<1>1. /\ Len(q) \in Nat /\ Len(a) = n /\ a[n] = m /\ a \in Seq(Message)
      /\ \A k \in 1 .. Len(q) : a[k] = q[k]
      /\ \A k \in 1 .. Len(a) : k \in 1 .. Len(q) \/ k = n
  BY PutPositions
<1> HIDE DEF a
<1>2. \A k \in 1 .. Len(a) : ~Part(a[k]) /\ ~Last(a[k]) /\ (a[k].type = "features" => k = n)
  BY <1>1 DEF OnlyStatus, Part, Last
<1>3. Replays(m.ports, After(a, n), m.ports)
  BY <1>1, AfterEnd
<1> HIDE DEF n
<1>4. AskedOK("nothing", NoPorts, a)
  BY <1>2 DEF AskedOK
<1>5. ReplyOK("nothing", NoPorts, r, a, m.ports)
  BY <1>1, <1>2, <1>3 DEF ReplyOK
<1>6. LastOK(NoPorts, a, m.ports)
  BY <1>2 DEF LastOK
<1>7. QED
  BY <1>4, <1>5, <1>6 DEF ConfigOK, a

\* The switch answers the port description request with all its ports.
LEMMA ConfigWhole ==
    ASSUME NEW r, NEW q \in Seq(Message), OnlyStatus(q), NEW m \in Message,
           Last(m), m.ports \in Ports
    PROVE  ConfigOK("nothing", NoPorts, r, Append(q, m), m.ports)
<1> DEFINE a == Append(q, m)
           n == Len(q) + 1
<1>1. /\ Len(q) \in Nat /\ Len(a) = n /\ a[n] = m /\ a \in Seq(Message)
      /\ \A k \in 1 .. Len(q) : a[k] = q[k]
      /\ \A k \in 1 .. Len(a) : k \in 1 .. Len(q) \/ k = n
  BY PutPositions
<1> HIDE DEF a
<1>2. \A k \in 1 .. Len(a) : /\ ~Part(a[k]) /\ a[k].type # "features"
                             /\ Last(a[k]) => k = n
  BY <1>1 DEF OnlyStatus, Part, Last
<1>3. Replays(m.ports, After(a, n), m.ports)
  BY <1>1, AfterEnd
<1>4. AskedOK("nothing", NoPorts, a)
  BY <1>2 DEF AskedOK
<1>5. ReplyOK("nothing", NoPorts, r, a, m.ports)
  BY <1>2 DEF ReplyOK
<1>6. LastOK(NoPorts, a, m.ports)
  <2> SUFFICES ASSUME NEW k \in 1 .. Len(a), Last(a[k])
               PROVE  /\ Replays(a[k].ports, After(a, k), m.ports)
                      /\ k > 1 => ~Part(a[k - 1])
    BY DEF LastOK
  <2>1. k = n
    BY <1>2
  <2>2. k > 1 => k - 1 \in 1 .. Len(a)
    BY <1>1
  <2>3. QED
    BY <1>1, <1>2, <1>3, <2>1, <2>2
<1>7. QED
  BY <1>4, <1>5, <1>6 DEF ConfigOK, a

\* The switch answers the port description request with the first part.
LEMMA ConfigPart ==
    ASSUME NEW r \in Ports, NEW q \in Seq(Message), OnlyStatus(q), NEW m \in Message,
           Part(m), m.ports \in Ports, m.ports # NoPorts, NEW sw \in Ports,
           Updated(m.ports, r) = sw
    PROVE  ConfigOK("rest", NoPorts, r, Append(q, m), sw)
<1> DEFINE a == Append(q, m)
           n == Len(q) + 1
<1>1. /\ Len(q) \in Nat /\ Len(a) = n /\ a[n] = m /\ a \in Seq(Message)
      /\ \A k \in 1 .. Len(q) : a[k] = q[k]
      /\ \A k \in 1 .. Len(a) : k \in 1 .. Len(q) \/ k = n
  BY PutPositions
<1> HIDE DEF a
<1>2. \A k \in 1 .. Len(a) : /\ ~Last(a[k]) /\ a[k].type # "features"
                             /\ Part(a[k]) => k = n
  BY <1>1 DEF OnlyStatus, Part, Last
<1>3. Replays(sw, After(a, n), sw)
  BY <1>1, AfterEnd
<1>4. n \in 1 .. Len(a)
  BY <1>1
<1> HIDE DEF n
<1>5. AskedOK("rest", NoPorts, a)
  BY <1>1, <1>2, <1>4 DEF AskedOK
<1>6. ReplyOK("rest", NoPorts, r, a, sw)
  BY <1>1, <1>2, <1>3 DEF ReplyOK
<1>7. LastOK(NoPorts, a, sw)
  BY <1>2 DEF LastOK
<1>8. QED
  BY <1>5, <1>6, <1>7 DEF ConfigOK, a

\* The switch sends the last part.
LEMMA ConfigRest ==
    ASSUME NEW f \in Ports, NEW r \in Ports, NEW q \in Seq(Message), NEW sw \in Ports,
           NEW m \in Message, Last(m), m.ports = r, NoFinal(q), ConfigOK("rest", f, r, q, sw),
           NEW t \in Ports
    PROVE  ConfigOK("nothing", f, t, Append(q, m), sw)
<1> DEFINE a == Append(q, m)
           n == Len(q) + 1
<1>0. AskedOK("rest", f, q) /\ ReplyOK("rest", f, r, q, sw)
  BY DEF ConfigOK
<1>1. /\ Len(q) \in Nat /\ Len(a) = n /\ a[n] = m /\ a \in Seq(Message)
      /\ \A k \in 1 .. Len(q) : a[k] = q[k] /\ k \in 1 .. Len(a)
      /\ \A k \in 1 .. Len(a) : k \in 1 .. Len(q) \/ k = n
  BY PutPositions
<1> HIDE DEF a
<1>2. \A k \in 1 .. Len(q) : q[k].type # "features" /\ ~Last(q[k])
  BY DEF NoFinal, Final, Last
<1>3. m.type # "features" /\ ~Part(m)
  BY DEF Last, Part
<1>4. \A k \in 1 .. Len(a) : a[k].type # "features" /\ (Last(a[k]) => k = n)
                             /\ (Part(a[k]) => k \in 1 .. Len(q) /\ a[k] = q[k])
  BY <1>1, <1>2, <1>3
<1>5. AskedOK("nothing", f, a)
  BY <1>0, <1>4 DEF AskedOK
<1>6. ReplyOK("nothing", f, t, a, sw)
  BY <1>4 DEF ReplyOK
<1>7. \A h \in Ports : /\ Replays(h, After(a, n), sw) <=> h = sw
                       /\ Replays(h, After(q, Len(q)), sw) <=> h = sw
  BY <1>1, AfterEnd
<1>8. \A h \in Ports : Updated(h, r) \in Ports
  BY PortsFacts
<1>9. LastOK(f, a, sw)
  <2> SUFFICES /\ f = NoPorts => \E j \in 1 .. Len(a) : Part(a[j])
               /\ f # NoPorts /\ n = 1 => Replays(Updated(f, r), After(a, n), sw)
               /\ n > 1 /\ Part(a[n - 1]) => Replays(Updated(a[n - 1].ports, r), After(a, n), sw)
    BY <1>1, <1>4 DEF LastOK
  <2>1. f = NoPorts => \E j \in 1 .. Len(a) : Part(a[j])
    BY <1>0, <1>1 DEF AskedOK
  <2>2. ASSUME f # NoPorts, n = 1 PROVE Replays(Updated(f, r), After(a, n), sw)
    <3>1. Len(q) = 0
      BY <1>1, <2>2
    <3>2. Replays(Updated(f, r), After(q, Len(q)), sw)
      BY <1>0, <2>2, <3>1 DEF ReplyOK
    <3>3. QED
      BY <1>7, <1>8, <3>2
  <2>3. ASSUME n > 1, Part(a[n - 1])
        PROVE  Replays(Updated(a[n - 1].ports, r), After(a, n), sw)
    <3>1. n - 1 = Len(q) /\ Len(q) \in 1 .. Len(q) /\ a[Len(q)] = q[Len(q)] /\ Part(q[Len(q)])
      BY <1>1, <2>3
    <3>2. Replays(Updated(q[Len(q)].ports, r), After(q, Len(q)), sw)
      BY <1>0, <3>1 DEF ReplyOK
    <3>3. q[Len(q)].ports \in Ports
      <4>1. q[Len(q)] \in Message
        BY <3>1
      <4>2. QED
        BY <3>1, <4>1, MessageFacts DEF Part
    <3>4. QED
      BY <1>7, <1>8, <3>1, <3>2, <3>3
  <2>4. QED
    BY <2>1, <2>2, <2>3
<1>10. QED
  BY <1>5, <1>6, <1>9 DEF ConfigOK, a

\* A status message is read before any part of the reply: nobody needs it.
LEMMA ConfigSkip ==
    ASSUME NEW request, NEW r, NEW q \in Seq(Message), q # << >>, NEW sw,
           Head(q).type = "status", ConfigOK(request, NoPorts, r, q, sw)
    PROVE  ConfigOK(request, NoPorts, r, Tail(q), sw)
<1> DEFINE t == Tail(q)
<1>0. /\ AskedOK(request, NoPorts, q) /\ ReplyOK(request, NoPorts, r, q, sw)
      /\ LastOK(NoPorts, q, sw)
  BY DEF ConfigOK
<1>1. /\ Len(q) \in Nat /\ Len(q) > 0 /\ Len(t) = Len(q) - 1 /\ Head(q) = q[1]
      /\ \A k \in 1 .. Len(t) : t[k] = q[k + 1] /\ k + 1 \in 1 .. Len(q)
      /\ \A k \in 1 .. Len(q) : k = 1 \/ k - 1 \in 1 .. Len(t)
  BY TakePositions
<1>2. \A h : \A k \in 1 .. Len(q) :
         Replays(h, After(q, k), sw) => Replays(h, After(t, k - 1), sw)
  BY AfterTail
<1> HIDE DEF t
<1>3. \A h : \A k \in 1 .. Len(t) :
         Replays(h, After(q, k + 1), sw) => Replays(h, After(t, k), sw)
  <2> TAKE h
  <2> TAKE k \in 1 .. Len(t)
  <2>1. k + 1 \in 1 .. Len(q) /\ (k + 1) - 1 = k
    BY <1>1
  <2>2. Replays(h, After(q, k + 1), sw) => Replays(h, After(t, (k + 1) - 1), sw)
    BY <1>2, <2>1
  <2>3. QED
    BY <2>1, <2>2
<1>4. ~Part(q[1]) /\ ~Last(q[1]) /\ q[1].type # "features"
  BY <1>1 DEF Part, Last
<1>5. (\E k \in 1 .. Len(q) : Part(q[k])) => \E k \in 1 .. Len(t) : Part(t[k])
  <2> SUFFICES ASSUME NEW k \in 1 .. Len(q), Part(q[k])
               PROVE  \E j \in 1 .. Len(t) : Part(t[j])
    OBVIOUS
  <2>1. k - 1 \in 1 .. Len(t) /\ t[k - 1] = q[(k - 1) + 1] /\ (k - 1) + 1 = k
    BY <1>1, <1>4
  <2>2. QED
    BY <2>1
<1>6. AskedOK(request, NoPorts, t)
  <2>1. ASSUME NEW k \in 1 .. Len(t), Part(t[k])
        PROVE  /\ t[k].ports # NoPorts
               /\ \A j \in 1 .. Len(t) : t[j].type # "features" /\ (Part(t[j]) => j = k)
    <3>1. k + 1 \in 1 .. Len(q) /\ Part(q[k + 1]) /\ q[k + 1] = t[k]
      BY <1>1, <2>1
    <3>2. ASSUME NEW j \in 1 .. Len(t)
          PROVE  t[j].type # "features" /\ (Part(t[j]) => j = k)
      <4>1. j + 1 \in 1 .. Len(q) /\ q[j + 1] = t[j]
        BY <1>1
      <4>2. q[j + 1].type # "features" /\ (Part(q[j + 1]) => j + 1 = k + 1)
        BY <1>0, <3>1, <4>1 DEF AskedOK
      <4>3. QED
        BY <4>1, <4>2
    <3>3. QED
      BY <1>0, <3>1, <3>2 DEF AskedOK
  <2>2. QED
    BY <1>0, <1>5, <2>1 DEF AskedOK
<1>7. ReplyOK(request, NoPorts, r, t, sw)
  BY <1>0, <1>1, <1>3 DEF ReplyOK
<1>8. LastOK(NoPorts, t, sw)
  <2> SUFFICES ASSUME NEW k \in 1 .. Len(t), Last(t[k])
               PROVE  /\ (\A j \in 1 .. Len(t) : ~Part(t[j])) =>
                            Replays(t[k].ports, After(t, k), sw)
                      /\ k > 1 /\ Part(t[k - 1]) =>
                            Replays(Updated(t[k - 1].ports, t[k].ports), After(t, k), sw)
    BY DEF LastOK
  <2>1. k + 1 \in 1 .. Len(q) /\ q[k + 1] = t[k]
    BY <1>1
  <2>2. (\A j \in 1 .. Len(t) : ~Part(t[j])) => Replays(t[k].ports, After(q, k + 1), sw)
    BY <1>0, <1>5, <2>1 DEF LastOK
  <2>3. ASSUME k > 1, Part(t[k - 1])
        PROVE  Replays(Updated(t[k - 1].ports, t[k].ports), After(q, k + 1), sw)
    <3>1. k - 1 \in 1 .. Len(t) /\ (k - 1) + 1 = k /\ (k + 1) - 1 = k /\ k + 1 > 1
      BY <2>3
    <3>2. t[k - 1] = q[k]
      BY <1>1, <3>1
    <3>3. Part(q[(k + 1) - 1])
      BY <2>3, <3>1, <3>2
    <3>4. Replays(Updated(q[(k + 1) - 1].ports, q[k + 1].ports), After(q, k + 1), sw)
      BY <1>0, <2>1, <3>1, <3>3 DEF LastOK
    <3>5. QED
      BY <2>1, <3>1, <3>2, <3>4
  <2>4. QED
    BY <1>3, <2>2, <2>3
<1>9. QED
  BY <1>6, <1>7, <1>8 DEF ConfigOK, t

\* The first part is read.
LEMMA ConfigTakePart ==
    ASSUME NEW request \in {"nothing", "rest"}, NEW f, NEW r, NEW q \in Seq(Message),
           q # << >>, NEW sw, Part(Head(q)), ConfigOK(request, f, r, q, sw)
    PROVE  f = NoPorts /\ ConfigOK(request, Head(q).ports, r, Tail(q), sw)
<1> DEFINE t == Tail(q)
           g == Head(q).ports
<1>0. AskedOK(request, f, q) /\ ReplyOK(request, f, r, q, sw) /\ LastOK(f, q, sw)
  BY DEF ConfigOK
<1>1. /\ Len(q) \in Nat /\ Len(q) > 0 /\ Len(t) = Len(q) - 1 /\ Head(q) = q[1]
      /\ 1 \in 1 .. Len(q)
      /\ \A k \in 1 .. Len(t) : t[k] = q[k + 1] /\ k + 1 \in 1 .. Len(q)
  BY TakePositions
<1>2. \A h : \A k \in 1 .. Len(q) :
         Replays(h, After(q, k), sw) => Replays(h, After(t, k - 1), sw)
  BY AfterTail
<1> HIDE DEF t, g
<1>3. /\ f = NoPorts /\ g # NoPorts /\ g = q[1].ports /\ Part(q[1])
      /\ \A j \in 1 .. Len(q) : q[j].type # "features" /\ (Part(q[j]) => j = 1)
  BY <1>0, <1>1 DEF AskedOK, g
<1>4. \A k \in 1 .. Len(t) : t[k].type # "features" /\ ~Part(t[k])
  <2> TAKE k \in 1 .. Len(t)
  <2>1. k + 1 # 1 /\ t[k] = q[k + 1] /\ k + 1 \in 1 .. Len(q)
    BY <1>1
  <2>2. QED
    BY <1>3, <2>1
<1>5. AskedOK(request, g, t)
  BY <1>3, <1>4 DEF AskedOK
<1>6. ReplyOK(request, g, r, t, sw)
  <2>1. ASSUME request = "rest" PROVE Replays(Updated(g, r), After(t, 0), sw)
    <3>1. Replays(Updated(g, r), After(q, 1), sw)
      BY <1>0, <1>1, <1>3, <2>1 DEF ReplyOK
    <3>2. Replays(Updated(g, r), After(t, 1 - 1), sw)
      BY <1>1, <1>2, <3>1
    <3>3. QED
      BY <3>2
  <2>2. QED
    BY <1>4, <2>1 DEF ReplyOK
<1>7. LastOK(g, t, sw)
  <2>1. ASSUME NEW k \in 1 .. Len(t), Last(t[k]), k = 1
        PROVE  Replays(Updated(g, t[k].ports), After(t, k), sw)
    <3>1. 2 \in 1 .. Len(q) /\ t[1] = q[2] /\ 2 > 1 /\ 2 - 1 = 1
      BY <1>1, <2>1
    <3>2. Replays(Updated(q[2 - 1].ports, q[2].ports), After(q, 2), sw)
      BY <1>0, <1>3, <2>1, <3>1 DEF LastOK
    <3>3. Replays(Updated(g, t[1].ports), After(q, 2), sw)
      BY <1>3, <3>1, <3>2
    <3>4. Replays(Updated(g, t[1].ports), After(t, 2 - 1), sw)
      BY <1>2, <3>1, <3>3
    <3>5. QED
      BY <2>1, <3>1, <3>4
  <2>2. \A k \in 1 .. Len(t) : k > 1 => k - 1 \in 1 .. Len(t)
    BY <1>1
  <2>3. QED
    BY <1>3, <1>4, <2>1, <2>2 DEF LastOK
<1>8. QED
  BY <1>3, <1>5, <1>6, <1>7 DEF ConfigOK, t, g

\* The last message of the configuration is read: Datapath.ports and the status
\* messages behind it give the ports of the switch.
LEMMA ConfigEnd ==
    ASSUME NEW request, NEW f \in Ports, NEW r, NEW q \in Seq(Message), q # << >>, NEW sw,
           FinalLast(q), ConfigOK(request, f, r, q, sw)
    PROVE  /\ Head(q).type = "features" =>
                 f = NoPorts /\ Replays(Head(q).ports, After(Tail(q), 0), sw)
           /\ Last(Head(q)) => Replays(Updated(f, Head(q).ports), After(Tail(q), 0), sw)
<1>0. AskedOK(request, f, q) /\ ReplyOK(request, f, r, q, sw) /\ LastOK(f, q, sw)
  BY DEF ConfigOK
<1>1. Len(q) \in Nat /\ Head(q) = q[1] /\ 1 \in 1 .. Len(q) /\ Head(q) \in Message
  BY TakePositions
<1>2. ASSUME NEW h, Replays(h, After(q, 1), sw) PROVE Replays(h, After(Tail(q), 0), sw)
  <2>1. Replays(h, After(Tail(q), 1 - 1), sw)
    BY <1>1, <1>2, AfterTail
  <2>2. QED
    BY <2>1
<1>3. ASSUME Head(q).type = "features"
      PROVE  f = NoPorts /\ Replays(Head(q).ports, After(Tail(q), 0), sw)
  <2>1. f = NoPorts /\ Replays(Head(q).ports, After(q, 1), sw)
    BY <1>0, <1>1, <1>3 DEF AskedOK, ReplyOK
  <2>2. QED
    BY <1>2, <2>1
<1>4. ASSUME Last(Head(q))
      PROVE  Replays(Updated(f, Head(q).ports), After(Tail(q), 0), sw)
  <2>1. CASE f # NoPorts
    <3>1. Replays(Updated(f, Head(q).ports), After(q, 1), sw)
      BY <1>0, <1>1, <1>4, <2>1 DEF LastOK
    <3>2. QED
      BY <1>2, <3>1
  <2>2. CASE f = NoPorts
    <3>1. \A j \in 1 .. Len(q) : ~Part(q[j])
      <4> TAKE j \in 1 .. Len(q)
      <4>1. Final(q[1]) /\ ~Part(q[1])
        BY <1>1, <1>4 DEF Last, Final, Part
      <4>2. j = 1 \/ 1 < j
        BY <1>1
      <4>3. 1 < j => q[j].type = "status"
        BY <1>1, <4>1 DEF FinalLast
      <4>4. QED
        BY <4>1, <4>2, <4>3 DEF Part
    <3>2. Replays(Head(q).ports, After(q, 1), sw)
      BY <1>0, <1>1, <1>4, <2>2, <3>1 DEF LastOK
    <3>3. Head(q).ports \in Ports
      BY <1>1, <1>4, MessageFacts DEF Last
    <3>4. Updated(f, Head(q).ports) = Head(q).ports
      BY <2>2, <3>3, UpdatedFacts
    <3>5. QED
      BY <1>2, <3>2, <3>4
  <2>3. QED
    BY <2>1, <2>2
<1>5. QED
  BY <1>3, <1>4

-----------------------------------------------------------------------------
(***************************************************************************)
(* Every step keeps Datapath.ports in step with the switch.                *)
(***************************************************************************)

\* A step that concerns one connection only.
LEMMA OneSync ==
    ASSUME SyncInv, NEW c \in Conns, DOMAIN missed' = Conns,
           \A b \in Conns \ {c} :
              /\ missed'[b] = missed[b] /\ phase'[b] = phase[b] /\ asked'[b] = asked[b]
              /\ ports'[b] = ports[b] /\ rest'[b] = rest[b] /\ wire'[b] = wire[b]
              /\ pending'[b] = pending[b],
           swports' = swports,
           ~missed'[c] => SyncOK(phase'[c], asked'[c], ports'[c], rest'[c], wire'[c],
                                 pending'[c], swports[DpidOf[c]])
    PROVE  SyncInv'
<1> SUFFICES ASSUME NEW b \in Conns, ~missed'[b]
             PROVE  SyncOK(phase'[b], asked'[b], ports'[b], rest'[b], wire'[b], pending'[b],
                           swports[DpidOf[b]])
  BY DEF SyncInv
<1>1. CASE b = c
  BY <1>1
<1>2. CASE b # c
  BY <1>2 DEF SyncInv
<1>3. QED
  BY <1>1, <1>2

\* The phases that say nothing.
LEMMA SyncDead ==
    ASSUME NEW request, NEW f, NEW r, NEW q, NEW pend, NEW sw
    PROVE  SyncOK("dead", request, f, r, q, pend, sw)
BY DEF SyncOK

\* The ports of a switch change and its connection is told.
LEMMA SyncChange ==
    ASSUME NEW p, NEW request, NEW f, NEW r, NEW q \in Seq(Message), NEW pend, NEW sw,
           NEW m \in Message, m.type = "status", SyncOK(p, request, f, r, q, pend, sw)
    PROVE  SyncOK(p, request, f, r, Append(q, m), pend, Applied(sw, m))
<1>1. p \in {"none", "handshake"} => f = NoPorts
  BY DEF SyncOK
<1>2. p = "config" => ConfigOK(request, f, r, Append(q, m), Applied(sw, m))
  BY ConfigChange DEF SyncOK
<1>3. p = "main" => Replays(Target(f, pend), After(Append(q, m), 0), Applied(sw, m))
  <2>1. 0 \in 0 .. Len(q)
    BY LenProperties
  <2>2. QED
    BY <2>1, AfterPut DEF SyncOK
<1>4. QED
  BY <1>1, <1>2, <1>3 DEF SyncOK

\* The messages of the switch.
LEMMA SyncSwitch ==
    ASSUME Types, WireInv, SyncInv, NEW c \in Conns,
           \/ AnswerFeatures(c)
           \/ AnswerRest(c)
           \/ \E now \in SUBSET PortNos : AnswerPortDesc(c, now)
    PROVE  SyncInv'
<1> DEFINE all == swports[DpidOf[c]]
<1>1. /\ asked \in [Conns -> {"nothing", "features", "port_desc", "rest"}]
      /\ rest \in [Conns -> Ports] /\ wire \in [Conns -> Seq(Message)]
      /\ wire[c] \in Seq(Message) /\ rest[c] \in Ports /\ ports[c] \in Ports
      /\ WireOK(asked[c], phase[c], wire[c])
      /\ DpidOf[c] \in Dpids /\ all \in Ports
      /\ DOMAIN missed = Conns
  BY DPSetAssumption DEF Types, ConnType, WireType, WireInv, SyncInv
<1>2. ~missed[c] => SyncOK(phase[c], asked[c], ports[c], rest[c], wire[c], pending[c], all)
  BY DEF SyncInv
<1> HIDE DEF all
<1>3. CASE AnswerFeatures(c)
  <2> DEFINE m == [type |-> "features", ports |-> all]
  <2>1. /\ wire' = [wire EXCEPT ![c] = Append(@, m)]
        /\ asked[c] = "features" /\ asked' = [asked EXCEPT ![c] = "nothing"]
        /\ UNCHANGED <<swports, rest, phase, ports, pending, missed>>
    BY <1>3 DEF AnswerFeatures, SwitchSends, connVars, all
  <2>2. m \in Message /\ m.type = "features" /\ m.ports = all
    BY <1>1, MessageFacts
  <2> HIDE DEF m
  <2>3. phase[c] = "config" /\ OnlyStatus(wire[c])
    BY <1>1, <2>1 DEF WireOK
  <2>4. ~missed[c] => ports[c] = NoPorts
    BY <1>2, <2>1, <2>3 DEF SyncOK, ConfigOK, AskedOK
  <2>5. ConfigOK("nothing", NoPorts, rest[c], Append(wire[c], m), all)
    BY <1>1, <2>2, <2>3, ConfigFeatures
  <2>6. ~missed[c] => SyncOK(phase[c], "nothing", ports[c], rest[c], Append(wire[c], m),
                             pending[c], all)
    BY <2>3, <2>4, <2>5 DEF SyncOK
  <2>7. /\ wire'[c] = Append(wire[c], m) /\ asked'[c] = "nothing"
        /\ \A b \in Conns \ {c} : wire'[b] = wire[b] /\ asked'[b] = asked[b]
    BY <1>1, <2>1
  <2>8. QED
    BY <1>1, <2>1, <2>6, <2>7, OneSync DEF all
<1>4. CASE AnswerRest(c)
  <2> DEFINE m == [type |-> "port_desc", ports |-> rest[c], more |-> FALSE]
  <2>1. /\ wire' = [wire EXCEPT ![c] = Append(@, m)] /\ rest' = [rest EXCEPT ![c] = NoPorts]
        /\ asked[c] = "rest" /\ asked' = [asked EXCEPT ![c] = "nothing"]
        /\ UNCHANGED <<swports, phase, ports, pending, missed>>
    BY <1>4 DEF AnswerRest, SwitchSends, connVars
  <2>2. m \in Message /\ Last(m) /\ m.ports = rest[c]
    BY <1>1, MessageFacts DEF Last
  <2> HIDE DEF m
  <2>3. phase[c] = "config" /\ NoFinal(wire[c]) /\ NoPorts \in Ports
    BY <1>1, <2>1, SomePorts DEF WireOK
  <2>4. ~missed[c] => ConfigOK("rest", ports[c], rest[c], wire[c], all)
    BY <1>2, <2>1, <2>3 DEF SyncOK
  <2>5. ~missed[c] => ConfigOK("nothing", ports[c], NoPorts, Append(wire[c], m), all)
    BY <1>1, <2>2, <2>3, <2>4, ConfigRest
  <2>6. ~missed[c] => SyncOK(phase[c], "nothing", ports[c], NoPorts, Append(wire[c], m),
                             pending[c], all)
    BY <2>3, <2>5 DEF SyncOK
  <2>7. /\ wire'[c] = Append(wire[c], m) /\ asked'[c] = "nothing" /\ rest'[c] = NoPorts
        /\ \A b \in Conns \ {c} : wire'[b] = wire[b] /\ asked'[b] = asked[b]
                                  /\ rest'[b] = rest[b]
    BY <1>1, <2>1
  <2>8. QED
    BY <1>1, <2>1, <2>6, <2>7, OneSync DEF all
<1>5. ASSUME NEW now \in SUBSET PortNos, AnswerPortDesc(c, now)
      PROVE  SyncInv'
  <2> DEFINE more == now # DOMAIN all
             part == Restrict(all, now)
             left == Restrict(all, DOMAIN all \ now)
             m == [type |-> "port_desc", ports |-> part, more |-> more]
  <2>1. /\ wire' = [wire EXCEPT ![c] = Append(@, m)] /\ rest' = [rest EXCEPT ![c] = left]
        /\ asked[c] = "port_desc"
        /\ asked' = [asked EXCEPT ![c] = IF more THEN "rest" ELSE "nothing"]
        /\ UNCHANGED <<swports, phase, ports, pending, missed>>
    BY <1>5 DEF AnswerPortDesc, SwitchSends, connVars, all
  <2>2. now \in SUBSET DOMAIN all /\ (now = {} => all = NoPorts)
    BY <1>5 DEF AnswerPortDesc, all
  <2>3. /\ part \in Ports /\ left \in Ports
        /\ Updated(part, left) = all /\ (~more => part = all)
        /\ part = NoPorts => now = {}
    BY <1>1, <2>2, PortsFacts, UpdatedFacts
  <2>4. m \in Message /\ m.ports = part /\ (more => Part(m)) /\ (~more => Last(m))
    BY <2>3, MessageFacts DEF Part, Last
  <2>5. more => part # NoPorts
    <3>1. DOMAIN NoPorts = {}
      BY DEF NoPorts
    <3>2. QED
      BY <2>2, <2>3, <3>1
  <2> HIDE DEF m, more, part, left
  <2>6. phase[c] = "config" /\ OnlyStatus(wire[c])
    BY <1>1, <2>1 DEF WireOK
  <2>7. ~missed[c] => ports[c] = NoPorts
    BY <1>2, <2>1, <2>6 DEF SyncOK, ConfigOK, AskedOK
  <2>8. ConfigOK(IF more THEN "rest" ELSE "nothing", NoPorts, left, Append(wire[c], m), all)
    <3>1. CASE more
      BY <1>1, <2>3, <2>4, <2>5, <2>6, <3>1, ConfigPart
    <3>2. CASE ~more
      BY <1>1, <2>3, <2>4, <2>6, <3>2, ConfigWhole
    <3>3. QED
      BY <3>1, <3>2
  <2>9. ~missed[c] => SyncOK(phase[c], IF more THEN "rest" ELSE "nothing", ports[c], left,
                             Append(wire[c], m), pending[c], all)
    BY <2>6, <2>7, <2>8 DEF SyncOK
  <2>10. /\ wire'[c] = Append(wire[c], m) /\ rest'[c] = left
         /\ asked'[c] = IF more THEN "rest" ELSE "nothing"
         /\ \A b \in Conns \ {c} : wire'[b] = wire[b] /\ asked'[b] = asked[b]
                                   /\ rest'[b] = rest[b]
    BY <1>1, <2>1
  <2>11. QED
    BY <1>1, <2>1, <2>9, <2>10, OneSync DEF all
<1>6. QED
  BY <1>3, <1>4, <1>5

\* The steps of the receive greenlet.
LEMMA SyncRecv ==
    ASSUME Types, WireInv, SyncInv, NEW c \in Conns, RecvStep(c)
    PROVE  SyncInv'
<1> DEFINE all == swports[DpidOf[c]]
           q == wire[c]
           f == ports[c]
<1>1. /\ phase \in [Conns -> {"none", "handshake", "config", "main", "dead"}]
      /\ ports \in [Conns -> Ports] /\ pending \in [Conns -> Seq(Status)]
      /\ asked \in [Conns -> {"nothing", "features", "port_desc", "rest"}]
      /\ wire \in [Conns -> Seq(Message)]
      /\ q \in Seq(Message) /\ f \in Ports
      /\ WireOK(asked[c], phase[c], q)
      /\ DOMAIN missed = Conns
  BY DEF Types, ConnType, WireType, WireInv, SyncInv
<1>2. ~missed[c] => SyncOK(phase[c], asked[c], f, rest[c], q, pending[c], all)
  BY DEF SyncInv
<1>3. ASSUME NEW type, Reading(c, type)
      PROVE  /\ q # << >> /\ Head(q).type = type /\ Head(q) \in Message
             /\ pending[c] = << >> /\ phase[c] \notin {"none", "dead"}
  <2>1. q # << >> /\ Head(q).type = type /\ pending[c] = << >> /\ phase[c] \notin {"none", "dead"}
    BY <1>3 DEF Reading
  <2>2. QED
    BY <1>1, <2>1
<1>4. CASE Features(c)
  <2>1. /\ Reading(c, "features") /\ wire' = [wire EXCEPT ![c] = Tail(q)]
        /\ UNCHANGED <<swports, rest, pending, missed>>
        /\ \/ /\ ports' = [ports EXCEPT ![c] = Head(q).ports]
              /\ phase' = [phase EXCEPT ![c] = "main"] /\ asked' = asked
           \/ /\ ports' = [ports EXCEPT ![c] = NoPorts]
              /\ asked' = [asked EXCEPT ![c] = "port_desc"] /\ phase' = phase
    BY <1>4 DEF Features
  <2>2. q # << >> /\ Head(q).type = "features" /\ pending[c] = << >> /\ phase[c] = "config"
    BY <1>3, <2>1, ReplyInConfig
  <2>3. OnlyStatus(Tail(q)) /\ FinalLast(q)
    BY <1>1, <2>2, WireTake DEF WireOK, Final
  <2>4. ~missed[c] => ConfigOK(asked[c], f, rest[c], q, all)
    BY <1>2, <2>2 DEF SyncOK
  <2>5. ~missed[c] => Replays(Head(q).ports, After(Tail(q), 0), all)
    BY <1>1, <2>2, <2>3, <2>4, ConfigEnd
  <2>6. ~missed[c] => SyncOK("main", asked[c], Head(q).ports, rest[c], Tail(q), pending[c], all)
    BY <2>2, <2>5 DEF SyncOK, Target
  <2>7. SyncOK("config", "port_desc", NoPorts, rest[c], Tail(q), pending[c], all)
    BY <2>3, ConfigAsk DEF SyncOK
  <2>8. \A b \in Conns \ {c} : /\ wire'[b] = wire[b] /\ ports'[b] = ports[b]
                               /\ phase'[b] = phase[b] /\ asked'[b] = asked[b]
    BY <1>1, <2>1
  <2>9. ~missed[c] => SyncOK(phase'[c], asked'[c], ports'[c], rest[c], wire'[c], pending[c], all)
    <3>1. wire'[c] = Tail(q)
      BY <1>1, <2>1
    <3>2. \/ ports'[c] = Head(q).ports /\ phase'[c] = "main" /\ asked'[c] = asked[c]
          \/ ports'[c] = NoPorts /\ asked'[c] = "port_desc" /\ phase'[c] = phase[c]
      BY <1>1, <2>1
    <3>3. QED
      BY <2>2, <2>6, <2>7, <3>1, <3>2
  <2>10. QED
    BY <1>1, <2>1, <2>8, <2>9, OneSync
<1>5. CASE PortDescReply(c)
  <2>1. /\ Reading(c, "port_desc") /\ wire' = [wire EXCEPT ![c] = Tail(q)]
        /\ ports' = [ports EXCEPT ![c] = Updated(f, Head(q).ports)]
        /\ UNCHANGED <<swports, rest, pending, missed, asked>>
        /\ \/ Head(q).more /\ phase' = phase
           \/ ~Head(q).more /\ phase' = [phase EXCEPT ![c] = "main"]
    BY <1>5 DEF PortDescReply
  <2>2. /\ q # << >> /\ Head(q).type = "port_desc" /\ Head(q) \in Message
        /\ pending[c] = << >> /\ phase[c] = "config"
    BY <1>3, <2>1, ReplyInConfig
  <2>3. FinalLast(q) /\ asked[c] \in {"nothing", "rest"}
    <3>1. ~OnlyStatus(q)
      BY <1>1, <2>2, WireTake
    <3>2. QED
      BY <1>1, <3>1 DEF WireOK
  <2>4. ~missed[c] => ConfigOK(asked[c], f, rest[c], q, all)
    BY <1>2, <2>2 DEF SyncOK
  <2>5. \A b \in Conns \ {c} : /\ wire'[b] = wire[b] /\ ports'[b] = ports[b]
                               /\ phase'[b] = phase[b]
    BY <1>1, <2>1
  <2>6. wire'[c] = Tail(q) /\ ports'[c] = Updated(f, Head(q).ports)
    BY <1>1, <2>1
  <2>7. ASSUME Head(q).more, phase' = phase, ~missed[c]
        PROVE  SyncOK(phase'[c], asked[c], ports'[c], rest[c], wire'[c], pending[c], all)
    <3>1. f = NoPorts /\ ConfigOK(asked[c], Head(q).ports, rest[c], Tail(q), all)
      BY <1>1, <2>2, <2>3, <2>4, <2>7, ConfigTakePart DEF Part
    <3>2. Updated(f, Head(q).ports) = Head(q).ports
      BY <2>2, <3>1, MessageFacts, UpdatedFacts
    <3>3. QED
      BY <2>2, <2>6, <2>7, <3>1, <3>2 DEF SyncOK
  <2>8. ASSUME ~Head(q).more, phase' = [phase EXCEPT ![c] = "main"], ~missed[c]
        PROVE  SyncOK(phase'[c], asked[c], ports'[c], rest[c], wire'[c], pending[c], all)
    <3>1. Replays(Updated(f, Head(q).ports), After(Tail(q), 0), all)
      BY <1>1, <2>2, <2>3, <2>4, <2>8, ConfigEnd DEF Last
    <3>2. phase'[c] = "main"
      BY <1>1, <2>8
    <3>3. QED
      BY <2>2, <2>6, <3>1, <3>2 DEF SyncOK, Target
  <2>9. QED
    BY <1>1, <2>1, <2>5, <2>7, <2>8, OneSync
<1>6. CASE PortStatus(c)
  <2>1. /\ Reading(c, "status") /\ wire' = [wire EXCEPT ![c] = Tail(q)]
        /\ UNCHANGED <<swports, rest, asked, phase, ports>>
    BY <1>6 DEF PortStatus
  <2>2. /\ q # << >> /\ Head(q).type = "status" /\ Head(q) \in Message
        /\ pending[c] = << >> /\ phase[c] \notin {"none", "dead"}
    BY <1>3, <2>1
  <2>3. wire'[c] = Tail(q) /\ \A b \in Conns \ {c} : wire'[b] = wire[b]
    BY <1>1, <2>1
  <2>4. CASE phase[c] = "main"
    <3> DEFINE one == <<Head(q)>>
    <3>1. pending' = [pending EXCEPT ![c] = one] /\ missed' = missed
      BY <1>6, <2>4 DEF PortStatus
    <3>2. one # << >> /\ Head(one) = Head(q)
      OBVIOUS
    <3> HIDE DEF one
    <3>3. pending'[c] = one /\ \A b \in Conns \ {c} : pending'[b] = pending[b]
      BY <1>1, <3>1
    <3>4. ~missed[c] => Replays(f, After(q, 0), all)
      BY <1>2, <2>2, <2>4 DEF SyncOK, Target
    <3>5. ~missed[c] => Replays(Applied(f, Head(q)), After(Tail(q), 0), all)
      BY <1>1, <2>2, <3>4, AfterTake
    <3>6. ~missed[c] => SyncOK("main", asked[c], f, rest[c], Tail(q), one, all)
      BY <3>2, <3>5 DEF SyncOK, Target
    <3>7. QED
      BY <1>1, <2>1, <2>3, <2>4, <3>1, <3>3, <3>6, OneSync
  <2>5. CASE phase[c] # "main"
    <3>1. /\ missed' = [missed EXCEPT ![c] = @ \/ f # NoPorts]
          /\ pending' = pending
      BY <1>6, <2>5 DEF PortStatus
    <3>2. /\ DOMAIN missed' = Conns /\ \A b \in Conns \ {c} : missed'[b] = missed[b]
          /\ ~missed'[c] => ~missed[c] /\ f = NoPorts
      BY <1>1, <3>1
    <3>3. ASSUME ~missed[c], f = NoPorts
          PROVE  SyncOK(phase[c], asked[c], f, rest[c], Tail(q), pending[c], all)
      <4>1. CASE phase[c] = "config"
        <5>1. ConfigOK(asked[c], NoPorts, rest[c], q, all)
          BY <1>2, <3>3, <4>1 DEF SyncOK
        <5>2. ConfigOK(asked[c], NoPorts, rest[c], Tail(q), all)
          BY <1>1, <2>2, <5>1, ConfigSkip
        <5>3. QED
          BY <3>3, <4>1, <5>2 DEF SyncOK
      <4>2. CASE phase[c] # "config"
        BY <2>5, <3>3, <4>2 DEF SyncOK
      <4>3. QED
        BY <4>1, <4>2
    <3>4. QED
      BY <2>1, <2>3, <3>1, <3>2, <3>3, OneSync
  <2>6. QED
    BY <2>4, <2>5
<1>7. CASE ApplyStatus(c)
  <2> DEFINE g == IF phase[c] = "main" THEN Applied(f, Head(pending[c])) ELSE f
  <2>1. /\ ports' = [ports EXCEPT ![c] = g] /\ pending[c] # << >>
        /\ pending' = [pending EXCEPT ![c] = << >>]
        /\ UNCHANGED <<swports, rest, asked, phase, wire, missed>>
    BY <1>7 DEF ApplyStatus, wireVars
  <2>2. phase[c] = "main" => g = Target(f, pending[c])
    BY <2>1 DEF Target
  <2>3. phase[c] # "main" => g = f
    OBVIOUS
  <2> HIDE DEF g
  <2>4. ~missed[c] => SyncOK(phase[c], asked[c], g, rest[c], q, << >>, all)
    BY <1>2, <2>2, <2>3 DEF SyncOK, Target
  <2>5. /\ ports'[c] = g /\ pending'[c] = << >>
        /\ \A b \in Conns \ {c} : ports'[b] = ports[b] /\ pending'[b] = pending[b]
    BY <1>1, <2>1
  <2>6. QED
    BY <1>1, <2>1, <2>4, <2>5, OneSync
<1>8. QED
  BY <1>4, <1>5, <1>6, <1>7 DEF RecvStep

\* The connection dies.
LEMMA SyncGone ==
    ASSUME Types, SyncInv, NEW c \in Conns, Gone(c), phase' = [phase EXCEPT ![c] = "dead"],
           UNCHANGED <<swports, ports, pending, missed>>
    PROVE  SyncInv'
<1>1. /\ asked' = [asked EXCEPT ![c] = "nothing"] /\ wire' = [wire EXCEPT ![c] = << >>]
      /\ rest' = [rest EXCEPT ![c] = NoPorts]
      /\ asked \in [Conns -> {"nothing", "features", "port_desc", "rest"}]
      /\ wire \in [Conns -> Seq(Message)] /\ rest \in [Conns -> Ports]
      /\ phase \in [Conns -> {"none", "handshake", "config", "main", "dead"}]
      /\ DOMAIN missed = Conns
  BY DEF Gone, Types, ConnType, WireType, SyncInv
<1>2. /\ phase'[c] = "dead"
      /\ \A b \in Conns \ {c} : /\ phase'[b] = phase[b] /\ asked'[b] = asked[b]
                                /\ wire'[b] = wire[b] /\ rest'[b] = rest[b]
  BY <1>1
<1>3. SyncOK(phase'[c], asked'[c], ports'[c], rest'[c], wire'[c], pending'[c],
             swports[DpidOf[c]])
  BY <1>2, SyncDead
<1>4. QED
  BY <1>1, <1>2, <1>3, OneSync

\* Every step keeps the invariant.
LEMMA SyncNext == Types /\ WireInv /\ SyncInv /\ [Next]_vars => SyncInv'
<1> SUFFICES ASSUME Types, WireInv, SyncInv, [Next]_vars PROVE SyncInv'
  OBVIOUS
<1>1. ASSUME UNCHANGED <<missed, phase, asked, ports, rest, wire, pending, swports>>
      PROVE  SyncInv'
  BY <1>1 DEF SyncInv
<1>2. ASSUME NEW d \in Dpids, NEW reason \in {"add", "modify", "delete"},
             NEW p \in PortNos, NEW a \in PortAttrs, PortChange(d, reason, p, a)
      PROVE  SyncInv'
  <2> DEFINE m == [type |-> "status", reason |-> reason, port |-> p, attr |-> a]
  <2>1. m \in Message /\ m.type = "status"
    BY MessageFacts
  <2>2. /\ wire' = [c \in Conns |-> IF c \in Alive(d) THEN Append(wire[c], m) ELSE wire[c]]
        /\ swports' = [swports EXCEPT ![d] = Applied(@, m)]
        /\ UNCHANGED <<missed, phase, asked, ports, rest, pending>>
    BY <1>2 DEF PortChange, connVars
  <2> HIDE DEF m
  <2>3. /\ swports \in [Dpids -> Ports] /\ DOMAIN missed = Conns
        /\ \A c \in Conns : DpidOf[c] \in Dpids /\ wire[c] \in Seq(Message)
        /\ phase \in [Conns -> {"none", "handshake", "config", "main", "dead"}]
    BY DPSetAssumption DEF Types, WireType, ConnType, SyncInv
  <2> SUFFICES ASSUME NEW c \in Conns, ~missed[c]
               PROVE  SyncOK(phase[c], asked[c], ports[c], rest[c], wire'[c], pending[c],
                             swports'[DpidOf[c]])
    BY <2>2, <2>3 DEF SyncInv
  <2>4. SyncOK(phase[c], asked[c], ports[c], rest[c], wire[c], pending[c], swports[DpidOf[c]])
    BY DEF SyncInv
  <2>5. CASE c \in Alive(d)
    <3>1. wire'[c] = Append(wire[c], m) /\ swports'[DpidOf[c]] = Applied(swports[DpidOf[c]], m)
      BY <2>2, <2>3, <2>5 DEF Alive
    <3>2. QED
      BY <2>1, <2>3, <2>4, <3>1, SyncChange
  <2>6. CASE c \notin Alive(d) /\ DpidOf[c] # d
    BY <2>2, <2>3, <2>4, <2>6
  <2>7. CASE c \notin Alive(d) /\ DpidOf[c] = d
    <3>1. phase[c] \in {"none", "dead"}
      BY <2>3, <2>7 DEF Alive
    <3>2. QED
      BY <2>4, <3>1 DEF SyncOK
  <2>8. QED
    BY <2>5, <2>6, <2>7
<1>3. ASSUME NEW c \in Conns, Connect(c)
      PROVE  SyncInv'
  <2>1. /\ phase[c] = "none" /\ phase' = [phase EXCEPT ![c] = "handshake"]
        /\ UNCHANGED <<missed, asked, ports, rest, wire, pending, swports>>
    BY <1>3 DEF Connect, wireVars
  <2>2. /\ DOMAIN missed = Conns /\ phase'[c] = "handshake"
        /\ \A b \in Conns \ {c} : phase'[b] = phase[b]
    BY <2>1 DEF Types, ConnType, SyncInv
  <2>3. ~missed[c] => SyncOK("handshake", asked[c], ports[c], rest[c], wire[c], pending[c],
                             swports[DpidOf[c]])
    BY <2>1 DEF SyncInv, SyncOK
  <2>4. QED
    BY <2>1, <2>2, <2>3, OneSync
<1>4. ASSUME NEW c \in Conns, NEW h \in SwitchHello, Hello(c, h)
      PROVE  SyncInv'
  <2>1. /\ phase[c] = "handshake" /\ phase' = [phase EXCEPT ![c] = "config"]
        /\ asked' = [asked EXCEPT ![c] = "features"]
        /\ UNCHANGED <<missed, ports, rest, wire, pending, swports>>
    BY <1>4 DEF Hello
  <2>2. /\ DOMAIN missed = Conns /\ phase'[c] = "config" /\ asked'[c] = "features"
        /\ \A b \in Conns \ {c} : phase'[b] = phase[b] /\ asked'[b] = asked[b]
    BY <2>1 DEF Types, ConnType, WireType, SyncInv
  <2>3. OnlyStatus(wire[c])
    BY <2>1 DEF WireInv, WireOK
  <2>4. ~missed[c] => SyncOK("config", "features", ports[c], rest[c], wire[c], pending[c],
                             swports[DpidOf[c]])
    BY <2>1, <2>3, ConfigAsk DEF SyncInv, SyncOK
  <2>5. QED
    BY <2>1, <2>2, <2>4, OneSync
<1>5. ASSUME NEW c \in Conns, Die(c)
      PROVE  SyncInv'
  BY <1>5, SyncGone DEF Die
<1>6. CASE Register
  <2>1. UNCHANGED <<swports, ports, pending, missed>>
    BY <1>6 DEF Register
  <2>2. \/ UNCHANGED <<phase, wire, asked, rest>>
        \/ \E o \in Conns : Gone(o) /\ phase' = [phase EXCEPT ![o] = "dead"]
    BY <1>6 DEF Register, Types, SetType
  <2>3. QED
    BY <1>1, <2>1, <2>2, SyncGone
<1>7. CASE Reregister \/ Unregister \/ Unregistered \/ StatusEvent \/ UNCHANGED vars
  BY <1>1, <1>7 DEF Reregister, Unregister, Unregistered, StatusEvent, connVars, wireVars, vars
<1>8. QED
  BY <1>2, <1>3, <1>4, <1>5, <1>6, <1>7, SyncSwitch, SyncRecv DEF Next, DPSetStep

\* In every behaviour, the messages that a connection has not read lead from
\* Datapath.ports to the ports of the switch.
LEMMA SyncHolds == Spec => []SyncInv
<1>1. Init => SyncInv
  BY DEF Init, SyncInv, SyncOK
<1>2. QED
  BY <1>1, SyncNext, TypesHold, WireHolds, PTL DEF Spec

-----------------------------------------------------------------------------
(***************************************************************************)
(* The status events in DPSet's queue.                                     *)
(***************************************************************************)

\* An event that is a port status of connection c.
StatusOf(e, c) == e.type = "status" /\ e.conn = c

\* What OfConn picks.
LEMMA OfConnFacts ==
    ASSUME NEW q, NEW c, Len(q) \in Nat
    PROVE  /\ DOMAIN OfConn(q, c) \subseteq Int
           /\ \A i : i \in DOMAIN OfConn(q, c) <=> i \in 1 .. Len(q) /\ StatusOf(q[i], c)
           /\ \A i \in DOMAIN OfConn(q, c) : OfConn(q, c)[i] = q[i].status
<1> DEFINE S == {i \in 1 .. Len(q) : StatusOf(q[i], c)}
<1>1. OfConn(q, c) = [i \in S |-> q[i].status]
  BY DEF OfConn, StatusOf
<1>2. DOMAIN OfConn(q, c) = S /\ \A i \in S : OfConn(q, c)[i] = q[i].status
  BY <1>1
<1>3. S \subseteq Int
  OBVIOUS
<1>4. QED
  BY <1>2, <1>3

\* An event is put into the queue.
LEMMA OfConnPut ==
    ASSUME NEW q \in Seq(Event), NEW e \in Event, NEW c
    PROVE  /\ ~StatusOf(e, c) => DOMAIN OfConn(Append(q, e), c) = DOMAIN OfConn(q, c)
           /\ \A f, g : Replays(f, OfConn(q, c), g) =>
                 /\ ~StatusOf(e, c) => Replays(f, OfConn(Append(q, e), c), g)
                 /\ StatusOf(e, c) => Replays(f, OfConn(Append(q, e), c), Applied(g, e.status))
<1> DEFINE r == Append(q, e)
           n == Len(q) + 1
           st == OfConn(q, c)
           tt == OfConn(r, c)
<1>1. /\ Len(q) \in Nat /\ Len(r) = n /\ r[n] = e
      /\ \A k \in 1 .. Len(q) : r[k] = q[k] /\ k \in 1 .. Len(r)
      /\ \A k \in 1 .. Len(r) : k \in 1 .. Len(q) \/ k = n
  BY PutPositions
<1> HIDE DEF r
<1>2. /\ DOMAIN st \subseteq Int /\ DOMAIN tt \subseteq Int
      /\ \A i : i \in DOMAIN st <=> i \in 1 .. Len(q) /\ StatusOf(q[i], c)
      /\ \A i : i \in DOMAIN tt <=> i \in 1 .. Len(r) /\ StatusOf(r[i], c)
      /\ \A i \in DOMAIN st : st[i] = q[i].status
      /\ \A i \in DOMAIN tt : tt[i] = r[i].status
  BY <1>1, OfConnFacts
<1> HIDE DEF st, tt
<1>3. n \in Int /\ n \in 1 .. Len(r) /\ n \notin 1 .. Len(q) /\ \A i \in DOMAIN st : i < n
  BY <1>1, <1>2
<1> HIDE DEF n
<1>4. \A i \in DOMAIN st : i \in DOMAIN tt /\ tt[i] = st[i]
  BY <1>1, <1>2
<1>5. ASSUME ~StatusOf(e, c) PROVE DOMAIN tt = DOMAIN st
  BY <1>1, <1>2, <1>4, <1>5
<1>6. ASSUME StatusOf(e, c) PROVE DOMAIN tt = DOMAIN st \cup {n} /\ tt[n] = e.status
  BY <1>1, <1>2, <1>3, <1>4, <1>6
<1>7. ASSUME NEW f, NEW g, Replays(f, st, g), ~StatusOf(e, c) PROVE Replays(f, tt, g)
  BY <1>4, <1>5, <1>7 DEF Replays, LastOn
<1>8. ASSUME NEW f, NEW g, Replays(f, st, g), StatusOf(e, c)
      PROVE  Replays(f, tt, Applied(g, e.status))
  BY <1>2, <1>3, <1>4, <1>6, <1>8, ReplayPut
<1>9. QED
  BY <1>5, <1>7, <1>8 DEF st, tt, r

\* DPSet takes the first event.
LEMMA OfConnTake ==
    ASSUME NEW q \in Seq(Event), q # << >>, NEW c, NEW f, NEW g, Replays(f, OfConn(q, c), g)
    PROVE  /\ ~StatusOf(Head(q), c) => Replays(f, OfConn(Tail(q), c), g)
           /\ StatusOf(Head(q), c) => Replays(Applied(f, Head(q).status), OfConn(Tail(q), c), g)
<1> DEFINE t == Tail(q)
           st == OfConn(q, c)
           tt == OfConn(t, c)
<1>1. /\ Len(q) \in Nat /\ Len(q) > 0 /\ Len(t) = Len(q) - 1
      /\ Head(q) = q[1] /\ 1 \in 1 .. Len(q)
      /\ \A k \in 1 .. Len(t) : t[k] = q[k + 1]
  BY TakePositions
<1>2. Len(t) \in Nat
  BY <1>1
<1> HIDE DEF t
<1>3. /\ DOMAIN st \subseteq Int /\ DOMAIN tt \subseteq Int
      /\ \A i : i \in DOMAIN st <=> i \in 1 .. Len(q) /\ StatusOf(q[i], c)
      /\ \A i : i \in DOMAIN tt <=> i \in 1 .. Len(t) /\ StatusOf(t[i], c)
      /\ \A i \in DOMAIN st : st[i] = q[i].status
      /\ \A i \in DOMAIN tt : tt[i] = t[i].status
  BY <1>1, <1>2, OfConnFacts
<1>4. Replays(f, st, g)
  OBVIOUS
<1> HIDE DEF st, tt
<1>5. \A i \in Int : i \in 1 .. Len(t) <=> i + 1 \in 1 .. Len(q) /\ i + 1 # 1
  BY <1>1
<1>6. \A i \in Int : i \in DOMAIN tt <=> i + 1 \in DOMAIN st /\ i + 1 # 1
  BY <1>1, <1>3, <1>5
<1>7. \A i \in DOMAIN tt : tt[i] = st[i + 1]
  BY <1>1, <1>3, <1>6
<1>8. ASSUME ~StatusOf(Head(q), c) PROVE Replays(f, tt, g)
  <2>1. 1 \notin DOMAIN st
    BY <1>1, <1>3, <1>8
  <2>2. \A i \in Int : i \in DOMAIN tt <=> i + 1 \in DOMAIN st
    BY <1>6, <2>1
  <2>3. QED
    BY <1>3, <1>4, <1>7, <2>2, ReplayShift
<1>9. ASSUME StatusOf(Head(q), c) PROVE Replays(Applied(f, Head(q).status), tt, g)
  <2> DEFINE mid == [i \in DOMAIN st \ {1} |-> st[i]]
  <2>1. /\ 1 \in DOMAIN st /\ st[1] = Head(q).status
        /\ \A i \in DOMAIN st : i >= 1
    BY <1>1, <1>3, <1>9
  <2>2. DOMAIN mid = DOMAIN st \ {1} /\ \A i \in DOMAIN mid : mid[i] = st[i]
    OBVIOUS
  <2> HIDE DEF mid
  <2>3. Replays(Applied(f, st[1]), mid, g)
    BY <1>3, <1>4, <2>1, <2>2, ReplayTake
  <2>4. /\ DOMAIN mid \subseteq Int
        /\ \A i \in Int : i \in DOMAIN tt <=> i + 1 \in DOMAIN mid
        /\ \A i \in DOMAIN tt : tt[i] = mid[i + 1]
    BY <1>3, <1>6, <1>7, <2>2
  <2>5. Replays(Applied(f, st[1]), tt, g)
    BY <1>3, <2>3, <2>4, ReplayShift
  <2>6. QED
    BY <2>1, <2>5
<1>10. QED
  BY <1>8, <1>9 DEF tt, t

\* An event is put behind them.
LEMMA LatePut ==
    ASSUME NEW q \in Seq(Event), NEW e \in Event, NEW c, Late(q, c),
           e = MainEvent(c) => DOMAIN OfConn(q, c) = {}
    PROVE  Late(Append(q, e), c)
<1> DEFINE r == Append(q, e)
           n == Len(q) + 1
<1>1. /\ Len(q) \in Nat /\ Len(r) = n /\ r[n] = e
      /\ \A k \in 1 .. Len(q) : r[k] = q[k] /\ k \in 1 .. Len(r)
      /\ \A k \in 1 .. Len(r) : k \in 1 .. Len(q) \/ k = n
  BY PutPositions
<1> HIDE DEF r
<1>2. /\ \A i : i \in DOMAIN OfConn(q, c) <=> i \in 1 .. Len(q) /\ StatusOf(q[i], c)
      /\ \A i : i \in DOMAIN OfConn(r, c) <=> i \in 1 .. Len(r) /\ StatusOf(r[i], c)
  BY <1>1, OfConnFacts
<1> SUFFICES ASSUME NEW i \in DOMAIN OfConn(r, c), NEW j \in 1 .. Len(r), r[j] = MainEvent(c)
             PROVE  j < i
  BY DEF Late, r
<1>3. MainEvent(c).type = "state"
  BY DEF MainEvent, StateEvent
<1>4. r[i].type = "status" /\ i \in 1 .. Len(r)
  BY <1>2 DEF StatusOf
<1>5. CASE j = n
  <2>1. i \in 1 .. Len(q) /\ e = MainEvent(c)
    BY <1>1, <1>3, <1>4, <1>5
  <2>2. i \in DOMAIN OfConn(q, c)
    BY <1>1, <1>2, <2>1
  <2>3. QED
    BY <2>1, <2>2
<1>6. CASE j \in 1 .. Len(q)
  <2>1. CASE i = n
    BY <1>1, <1>6, <2>1
  <2>2. CASE i \in 1 .. Len(q)
    <3>1. i \in DOMAIN OfConn(q, c) /\ q[j] = MainEvent(c)
      BY <1>1, <1>2, <1>6, <2>2
    <3>2. QED
      BY <1>6, <3>1 DEF Late
  <2>3. QED
    BY <1>1, <1>4, <2>1, <2>2
<1>7. QED
  BY <1>1, <1>5, <1>6

\* DPSet takes the first event: if it is a port status the main event of its
\* connection was handled.
LEMMA LateTake ==
    ASSUME NEW q \in Seq(Event), q # << >>, NEW c, Late(q, c)
    PROVE  /\ Late(Tail(q), c)
           /\ DOMAIN OfConn(Tail(q), c) # {} => DOMAIN OfConn(q, c) # {}
           /\ StatusOf(Head(q), c) => ~Holds(q, MainEvent(c)) /\ DOMAIN OfConn(q, c) # {}
<1> DEFINE t == Tail(q)
<1>1. /\ Len(q) \in Nat /\ Len(q) > 0 /\ Len(t) = Len(q) - 1
      /\ Head(q) = q[1] /\ 1 \in 1 .. Len(q)
      /\ \A k \in 1 .. Len(t) : t[k] = q[k + 1] /\ k + 1 \in 1 .. Len(q)
  BY TakePositions
<1>2. Len(t) \in Nat
  BY <1>1
<1>3. /\ \A i : i \in DOMAIN OfConn(q, c) <=> i \in 1 .. Len(q) /\ StatusOf(q[i], c)
      /\ \A i : i \in DOMAIN OfConn(t, c) <=> i \in 1 .. Len(t) /\ StatusOf(t[i], c)
  BY <1>1, <1>2, OfConnFacts
<1> HIDE DEF t
<1>4. \A i \in DOMAIN OfConn(t, c) : i + 1 \in DOMAIN OfConn(q, c) /\ i \in 1 .. Len(t)
  BY <1>1, <1>3
<1>5. ASSUME NEW i \in DOMAIN OfConn(t, c), NEW j \in 1 .. Len(t), t[j] = MainEvent(c)
      PROVE  j < i
  <2>1. i \in 1 .. Len(t) /\ i + 1 \in DOMAIN OfConn(q, c)
        /\ j + 1 \in 1 .. Len(q) /\ q[j + 1] = MainEvent(c)
    BY <1>1, <1>4, <1>5
  <2>2. j + 1 < i + 1
    BY <2>1 DEF Late
  <2>3. QED
    BY <1>2, <2>1, <2>2
<1>6. ASSUME StatusOf(Head(q), c) PROVE ~Holds(q, MainEvent(c)) /\ DOMAIN OfConn(q, c) # {}
  <2>1. 1 \in DOMAIN OfConn(q, c)
    BY <1>1, <1>3, <1>6
  <2>2. \A j \in 1 .. Len(q) : ~(j < 1)
    BY <1>1
  <2>3. QED
    BY <2>1, <2>2 DEF Late, Holds
<1>7. QED
  BY <1>4, <1>5, <1>6 DEF Late, t

-----------------------------------------------------------------------------
(***************************************************************************)
(* Every step keeps port_state in step with Datapath.ports.                *)
(***************************************************************************)

\* A step that leaves the queue, DPSet and the connections in the main phase
\* alone.
LEMMA QueueSame ==
    ASSUME QueueInv, UNCHANGED <<evq, dps, pstate, job, owner>>,
           \A b \in Conns : /\ phase'[b] = phase[b] \/ {phase[b], phase'[b]} \cap {"main", "dead"} = {}
                            /\ phase[b] = "main" => ports'[b] = ports[b] /\ pending'[b] = pending[b]
    PROVE  QueueInv'
<1>1. \A b \in Conns : /\ phase'[b] \in {"main", "dead"} <=> phase[b] \in {"main", "dead"}
                       /\ phase'[b] = "main" <=> phase[b] = "main"
  OBVIOUS
<1>2. StatusLate'
  BY <1>1 DEF QueueInv, StatusLate, Late, OfConn, MainEvent, StateEvent
<1>3. OwnerInv'
  BY <1>1 DEF QueueInv, OwnerInv, MainEvent, StateEvent
<1>4. ReplayInv'
  BY <1>1 DEF QueueInv, ReplayInv, Owner, Registered, OfConn, MainEvent, StateEvent
<1>5. QED
  BY <1>2, <1>3, <1>4 DEF QueueInv

\* An event is announced; what the events of DPSet's queue say of each
\* connection.
LEMMA QueuePut ==
    ASSUME Types, QueueInv, NEW e \in Event, NEW b \in Conns
    PROVE  /\ Holds(Append(evq, e), MainEvent(b)) <=> Holds(evq, MainEvent(b)) \/ e = MainEvent(b)
           /\ (e = MainEvent(b) => DOMAIN OfConn(evq, b) = {}) => Late(Append(evq, e), b)
           /\ ~StatusOf(e, b) => DOMAIN OfConn(Append(evq, e), b) = DOMAIN OfConn(evq, b)
           /\ \A f, g : Replays(f, OfConn(evq, b), g) =>
                 /\ ~StatusOf(e, b) => Replays(f, OfConn(Append(evq, e), b), g)
                 /\ StatusOf(e, b) =>
                       Replays(f, OfConn(Append(evq, e), b), Applied(g, e.status))
<1>1. evq \in Seq(Event) /\ Late(evq, b)
  BY DEF Types, SetType, QueueInv, StatusLate
<1>2. Holds(Append(evq, e), MainEvent(b)) <=> Holds(evq, MainEvent(b)) \/ e = MainEvent(b)
  BY <1>1, PutFacts
<1>3. QED
  BY <1>1, <1>2, LatePut, OfConnPut

\* State events are not port status events.
LEMMA StateNotStatus ==
    \A b, c : ~StatusOf(MainEvent(b), c) /\ ~StatusOf(DeadEvent(b), c)
BY DEF StatusOf, MainEvent, DeadEvent, StateEvent

\* A connection gets to the main phase.
LEMMA QueueMain ==
    ASSUME Types, QueueInv, NEW c \in Conns, phase[c] = "config",
           phase' = [phase EXCEPT ![c] = "main"], evq' = Append(evq, MainEvent(c)),
           \A b \in Conns \ {c} : ports'[b] = ports[b], ports'[c] \in Ports,
           pending[c] = << >>, pending' = pending, UNCHANGED <<dps, pstate, job, owner>>
    PROVE  QueueInv'
<1>1. phase'[c] = "main" /\ \A b \in Conns : b # c => phase'[b] = phase[b]
  BY DEF Types, ConnType
<1>2. DOMAIN OfConn(evq, c) = {} /\ MainEvent(c) \in Event
  BY EventFacts DEF QueueInv, StatusLate
<1>3. \A b \in Conns : MainEvent(b) = MainEvent(c) => b = c
  BY EventFacts
<1>4. ASSUME NEW b \in Conns
      PROVE  /\ Late(evq', b) /\ DOMAIN OfConn(evq', b) = DOMAIN OfConn(evq, b)
             /\ Holds(evq', MainEvent(b)) <=> Holds(evq, MainEvent(b)) \/ b = c
             /\ \A f, g : Replays(f, OfConn(evq, b), g) => Replays(f, OfConn(evq', b), g)
  BY <1>2, <1>3, QueuePut, StateNotStatus
<1>5. StatusLate'
  <2> SUFFICES ASSUME NEW b \in Conns
               PROVE  /\ DOMAIN OfConn(evq', b) # {} => phase'[b] \in {"main", "dead"}
                      /\ Late(evq', b)
    BY DEF StatusLate, OfConn, Late, MainEvent, StateEvent
  <2>1. QED
    BY <1>1, <1>4 DEF QueueInv, StatusLate
<1>6. \A d \in DOMAIN owner : owner[d] # c
  BY DEF QueueInv, OwnerInv
<1>7. OwnerInv'
  BY <1>1, <1>4, <1>6 DEF QueueInv, OwnerInv, MainEvent, StateEvent
<1>8. ReplayInv'
  <2> SUFFICES ASSUME NEW b \in Conns, phase'[b] = "main"
               PROVE  /\ Holds(evq', MainEvent(b)) =>
                            Replays(ports'[b], OfConn(evq', b), Target(ports'[b], pending[b]))
                      /\ Owner(b) => Replays(pstate[DpidOf[b]], OfConn(evq', b),
                                             Target(ports'[b], pending[b]))
    BY DEF ReplayInv, Owner, Registered, OfConn, MainEvent, StateEvent
  <2>1. CASE b = c
    <3>1. Replays(ports'[c], OfConn(evq', c), ports'[c])
      BY <1>2, <1>4, ReplayNothing
    <3>2. ~Owner(c)
      BY <1>6 DEF Owner
    <3>3. QED
      BY <2>1, <3>1, <3>2 DEF Target
  <2>2. CASE b # c
    BY <1>1, <1>4, <2>2 DEF QueueInv, ReplayInv
  <2>3. QED
    BY <2>1, <2>2
<1>9. QED
  BY <1>5, <1>7, <1>8 DEF QueueInv

\* A port status is announced.
LEMMA QueueStatus ==
    ASSUME Types, QueueInv, NEW c \in Conns, phase[c] = "main", pending[c] = << >>,
           NEW s \in Status, pending' = [pending EXCEPT ![c] = <<s>>],
           evq' = Append(evq, [type |-> "status", conn |-> c, status |-> s]),
           UNCHANGED <<phase, ports, dps, pstate, job, owner>>
    PROVE  QueueInv'
<1> DEFINE e == [type |-> "status", conn |-> c, status |-> s]
           one == <<s>>
<1>1. /\ e \in Event /\ e.status = s /\ evq' = Append(evq, e)
      /\ \A b : e # MainEvent(b)
      /\ \A b : StatusOf(e, b) <=> b = c
  BY EventFacts DEF StatusOf
<1>2. one # << >> /\ Head(one) = s /\ pending' = [pending EXCEPT ![c] = one]
  OBVIOUS
<1> HIDE DEF e, one
<1>3. pending'[c] = one /\ \A b \in Conns : b # c => pending'[b] = pending[b]
  BY <1>2 DEF Types, ConnType
<1>4. ASSUME NEW b \in Conns
      PROVE  /\ Late(evq', b)
             /\ b # c => DOMAIN OfConn(evq', b) = DOMAIN OfConn(evq, b)
             /\ Holds(evq', MainEvent(b)) <=> Holds(evq, MainEvent(b))
             /\ \A f, g : Replays(f, OfConn(evq, b), g) =>
                   /\ b # c => Replays(f, OfConn(evq', b), g)
                   /\ b = c => Replays(f, OfConn(evq', b), Applied(g, s))
  BY <1>1, QueuePut
<1>5. StatusLate'
  <2> SUFFICES ASSUME NEW b \in Conns
               PROVE  /\ DOMAIN OfConn(evq', b) # {} => phase[b] \in {"main", "dead"}
                      /\ Late(evq', b)
    BY DEF StatusLate, OfConn, Late, MainEvent, StateEvent
  <2>1. QED
    BY <1>4 DEF QueueInv, StatusLate
<1>6. OwnerInv'
  BY <1>4 DEF QueueInv, OwnerInv, MainEvent, StateEvent
<1>7. ReplayInv'
  <2> SUFFICES ASSUME NEW b \in Conns, phase[b] = "main"
               PROVE  /\ Holds(evq', MainEvent(b)) =>
                            Replays(ports[b], OfConn(evq', b), Target(ports[b], pending'[b]))
                      /\ Owner(b) => Replays(pstate[DpidOf[b]], OfConn(evq', b),
                                             Target(ports[b], pending'[b]))
    BY DEF ReplayInv, Owner, Registered, OfConn, MainEvent, StateEvent
  <2>1. /\ Holds(evq, MainEvent(b)) =>
              Replays(ports[b], OfConn(evq, b), Target(ports[b], pending[b]))
        /\ Owner(b) => Replays(pstate[DpidOf[b]], OfConn(evq, b), Target(ports[b], pending[b]))
    BY DEF QueueInv, ReplayInv
  <2>2. CASE b = c
    <3>1. Target(ports[b], pending[b]) = ports[b]
          /\ Target(ports[b], pending'[b]) = Applied(ports[b], s)
      BY <1>2, <1>3, <2>2 DEF Target
    <3>2. QED
      BY <1>4, <2>1, <2>2, <3>1
  <2>3. CASE b # c
    BY <1>3, <1>4, <2>1, <2>3
  <2>4. QED
    BY <2>2, <2>3
<1>8. QED
  BY <1>5, <1>6, <1>7 DEF QueueInv

\* The port status is applied to Datapath.ports.
LEMMA QueueApply ==
    ASSUME Types, QueueInv, NEW c \in Conns, ApplyStatus(c)
    PROVE  QueueInv'
<1> DEFINE g == IF phase[c] = "main" THEN Applied(ports[c], Head(pending[c])) ELSE ports[c]
<1>1. /\ ports' = [ports EXCEPT ![c] = g] /\ pending[c] # << >>
      /\ pending' = [pending EXCEPT ![c] = << >>]
      /\ UNCHANGED <<phase, evq, dps, pstate, job, owner>>
  BY DEF ApplyStatus, setVars
<1>2. phase[c] = "main" => g = Target(ports[c], pending[c])
  BY <1>1 DEF Target
<1> HIDE DEF g
<1>3. /\ ports'[c] = g /\ pending'[c] = << >>
      /\ \A b \in Conns : b # c => ports'[b] = ports[b] /\ pending'[b] = pending[b]
  BY <1>1 DEF Types, ConnType
<1>4. StatusLate' /\ OwnerInv'
  BY <1>1 DEF QueueInv, StatusLate, Late, OfConn, OwnerInv, MainEvent, StateEvent
<1>5. ReplayInv'
  <2> SUFFICES ASSUME NEW b \in Conns, phase[b] = "main"
               PROVE  /\ Holds(evq, MainEvent(b)) =>
                            Replays(ports'[b], OfConn(evq, b), Target(ports'[b], pending'[b]))
                      /\ Owner(b) => Replays(pstate[DpidOf[b]], OfConn(evq, b),
                                             Target(ports'[b], pending'[b]))
    BY <1>1 DEF ReplayInv, Owner, Registered, OfConn, MainEvent, StateEvent
  <2>1. /\ Holds(evq, MainEvent(b)) =>
              Replays(ports[b], OfConn(evq, b), Target(ports[b], pending[b]))
        /\ Owner(b) => Replays(pstate[DpidOf[b]], OfConn(evq, b), Target(ports[b], pending[b]))
    BY DEF QueueInv, ReplayInv
  <2>2. CASE b = c
    <3>1. ports'[b] = Target(ports[b], pending[b])
          /\ Target(ports'[b], pending'[b]) = Target(ports[b], pending[b])
      BY <1>2, <1>3, <2>2 DEF Target
    <3>2. QED
      BY <2>1, <3>1, ReplayAgain
  <2>3. CASE b # c
    BY <1>3, <2>1, <2>3
  <2>4. QED
    BY <2>2, <2>3
<1>6. QED
  BY <1>4, <1>5 DEF QueueInv

\* A connection dies.
LEMMA QueueDie ==
    ASSUME Types, QueueInv, NEW c \in Conns, phase' = [phase EXCEPT ![c] = "dead"],
           phase[c] # "dead", evq' = Append(evq, DeadEvent(c)),
           UNCHANGED <<ports, pending, dps, pstate, job, owner>>
    PROVE  QueueInv'
<1>1. phase'[c] = "dead" /\ \A b \in Conns : b # c => phase'[b] = phase[b]
  BY DEF Types, ConnType
<1>2. DeadEvent(c) \in Event /\ \A b : DeadEvent(c) # MainEvent(b)
  BY EventFacts
<1>3. ASSUME NEW b \in Conns
      PROVE  /\ Late(evq', b) /\ DOMAIN OfConn(evq', b) = DOMAIN OfConn(evq, b)
             /\ Holds(evq', MainEvent(b)) <=> Holds(evq, MainEvent(b))
             /\ \A f, g : Replays(f, OfConn(evq, b), g) => Replays(f, OfConn(evq', b), g)
  BY <1>2, QueuePut, StateNotStatus
<1>4. StatusLate'
  <2> SUFFICES ASSUME NEW b \in Conns
               PROVE  /\ DOMAIN OfConn(evq', b) # {} => phase'[b] \in {"main", "dead"}
                      /\ Late(evq', b)
    BY DEF StatusLate, OfConn, Late, MainEvent, StateEvent
  <2>1. QED
    BY <1>1, <1>3 DEF QueueInv, StatusLate
<1>5. OwnerInv'
  BY <1>1, <1>3 DEF QueueInv, OwnerInv, MainEvent, StateEvent
<1>6. ReplayInv'
  <2> SUFFICES ASSUME NEW b \in Conns, phase'[b] = "main"
               PROVE  /\ Holds(evq', MainEvent(b)) =>
                            Replays(ports[b], OfConn(evq', b), Target(ports[b], pending[b]))
                      /\ Owner(b) => Replays(pstate[DpidOf[b]], OfConn(evq', b),
                                             Target(ports[b], pending[b]))
    BY DEF ReplayInv, Owner, Registered, OfConn, MainEvent, StateEvent
  <2>1. phase[b] = "main"
    BY <1>1
  <2>2. QED
    BY <1>3, <2>1 DEF QueueInv, ReplayInv
<1>7. QED
  BY <1>4, <1>5, <1>6 DEF QueueInv

\* What the events behind the first one say of each connection.
LEMMA QueueTake ==
    ASSUME Types, QueueInv, NEW type, Handling(type), NEW b \in Conns
    PROVE  /\ Late(Tail(evq), b)
           /\ DOMAIN OfConn(Tail(evq), b) # {} => phase[b] \in {"main", "dead"}
           /\ Holds(Tail(evq), MainEvent(b)) => Holds(evq, MainEvent(b))
           /\ StatusOf(Head(evq), b) => /\ ~Holds(evq, MainEvent(b))
                                        /\ phase[b] \in {"main", "dead"}
           /\ \A f, g : Replays(f, OfConn(evq, b), g) =>
                 /\ ~StatusOf(Head(evq), b) => Replays(f, OfConn(Tail(evq), b), g)
                 /\ StatusOf(Head(evq), b) =>
                       Replays(Applied(f, Head(evq).status), OfConn(Tail(evq), b), g)
<1>1. evq \in Seq(Event) /\ evq # << >>
  BY HandledEvent
<1>2. Late(evq, b) /\ (DOMAIN OfConn(evq, b) # {} => phase[b] \in {"main", "dead"})
  BY DEF QueueInv, StatusLate
<1>3. Holds(Tail(evq), MainEvent(b)) => Holds(evq, MainEvent(b))
  BY <1>1, TakeFacts
<1>4. /\ Late(Tail(evq), b)
      /\ DOMAIN OfConn(Tail(evq), b) # {} => DOMAIN OfConn(evq, b) # {}
      /\ StatusOf(Head(evq), b) => ~Holds(evq, MainEvent(b)) /\ DOMAIN OfConn(evq, b) # {}
  BY <1>1, <1>2, LateTake
<1>5. QED
  BY <1>1, <1>2, <1>3, <1>4, OfConnTake

\* The first half of _register, for a switch that has a connection already.
LEMMA QueueReplace ==
    ASSUME Types, RegInv, QueueInv, Register, NEW c \in Conns, c = Head(evq).conn,
           DpidOf[c] \in DOMAIN dps, NEW o \in Conns, o = dps[DpidOf[c]]
    PROVE  QueueInv'
<1>1. Handling("state") /\ Head(evq) = MainEvent(c) /\ Tail(evq) \in Seq(Event)
  <2>1. Handling("state") /\ Head(evq).phase = "main"
    BY DEF Register
  <2>2. QED
    BY <2>1, HandledEvent, EventFacts
<1>2. /\ job' = RegisterJob(c) /\ UNCHANGED <<ports, pending, dps, pstate, owner>>
      /\ \/ evq' = Tail(evq) /\ phase' = phase
         \/ evq' = Append(Tail(evq), DeadEvent(o)) /\ phase' = [phase EXCEPT ![o] = "dead"]
            /\ phase[o] # "dead"
  BY DEF Register, RegisterJob, DeadEvent
<1>3. /\ DeadEvent(o) \in Event /\ \A b : DeadEvent(o) # MainEvent(b)
      /\ \A b : ~StatusOf(DeadEvent(o), b) /\ ~StatusOf(Head(evq), b)
      /\ Holds(evq, MainEvent(c))
  BY <1>1, EventFacts, StateNotStatus, QueueTaken
<1>4. \A b \in Conns : phase'[b] = phase[b] \/ (phase'[b] = "dead" /\ phase[b] # "dead")
  BY <1>2 DEF Types, ConnType
<1>5. \A b \in Conns : /\ phase[b] \in {"main", "dead"} => phase'[b] \in {"main", "dead"}
                       /\ phase'[b] = "main" => phase[b] = "main"
  BY <1>4
<1>6. ASSUME NEW b \in Conns
      PROVE  /\ Late(evq', b)
             /\ DOMAIN OfConn(evq', b) # {} => phase[b] \in {"main", "dead"}
             /\ Holds(evq', MainEvent(b)) => Holds(evq, MainEvent(b))
             /\ \A f, g : Replays(f, OfConn(evq, b), g) => Replays(f, OfConn(evq', b), g)
  <2> DEFINE t == Tail(evq)
             r == Append(t, DeadEvent(o))
  <2>1. /\ Late(t, b)
        /\ DOMAIN OfConn(t, b) # {} => phase[b] \in {"main", "dead"}
        /\ Holds(t, MainEvent(b)) => Holds(evq, MainEvent(b))
        /\ \A f, g : Replays(f, OfConn(evq, b), g) => Replays(f, OfConn(t, b), g)
    BY <1>1, <1>3, QueueTake
  <2>2. /\ Late(r, b) /\ DOMAIN OfConn(r, b) = DOMAIN OfConn(t, b)
        /\ Holds(r, MainEvent(b)) => Holds(t, MainEvent(b))
        /\ \A f, g : Replays(f, OfConn(t, b), g) => Replays(f, OfConn(r, b), g)
    <3>1. t \in Seq(Event) /\ DeadEvent(o) \in Event
      BY <1>1, <1>3
    <3> HIDE DEF t
    <3>2. Late(r, b)
      BY <1>3, <2>1, <3>1, LatePut
    <3>3. \A e : Holds(r, e) <=> Holds(t, e) \/ e = DeadEvent(o)
      BY <3>1, PutFacts
    <3>4. /\ DOMAIN OfConn(r, b) = DOMAIN OfConn(t, b)
          /\ \A f, g : Replays(f, OfConn(t, b), g) => Replays(f, OfConn(r, b), g)
      BY <1>3, <3>1, OfConnPut
    <3>5. QED
      BY <1>3, <3>2, <3>3, <3>4
  <2> HIDE DEF t, r
  <2>3. evq' = t \/ evq' = r
    BY <1>2 DEF t, r
  <2>4. QED
    BY <2>1, <2>2, <2>3
<1>7. StatusLate'
  <2> SUFFICES ASSUME NEW b \in Conns
               PROVE  /\ DOMAIN OfConn(evq', b) # {} => phase'[b] \in {"main", "dead"}
                      /\ Late(evq', b)
    BY DEF StatusLate, OfConn, Late, MainEvent, StateEvent
  <2>1. QED
    BY <1>5, <1>6
<1>8. OwnerInv'
  <2>1. \A d \in DOMAIN owner : owner[d] # c
    BY <1>3 DEF QueueInv, OwnerInv
  <2>2. \A b : job' = RegisterJob(b) => b = c
    BY <1>2, JobFacts
  <2>3. QED
    BY <1>2, <1>5, <1>6, <2>1, <2>2 DEF QueueInv, OwnerInv, MainEvent, StateEvent
<1>9. ReplayInv'
  <2> SUFFICES ASSUME NEW b \in Conns, phase'[b] = "main"
               PROVE  /\ Holds(evq', MainEvent(b)) =>
                            Replays(ports[b], OfConn(evq', b), Target(ports[b], pending[b]))
                      /\ Owner(b) => Replays(pstate[DpidOf[b]], OfConn(evq', b),
                                             Target(ports[b], pending[b]))
    BY <1>2 DEF ReplayInv, Owner, Registered, OfConn, MainEvent, StateEvent
  <2>1. QED
    BY <1>5, <1>6 DEF QueueInv, ReplayInv
<1>10. QED
  BY <1>7, <1>8, <1>9 DEF QueueInv

\* _register for a switch without a connection: the ports are copied, and the
\* status events queued since the main event will be replayed.
LEMMA QueueNew ==
    ASSUME Types, RegInv, QueueInv, Register, NEW c \in Conns, c = Head(evq).conn,
           DpidOf[c] \notin DOMAIN dps
    PROVE  QueueInv'
<1>1. Handling("state") /\ job = Idle /\ Head(evq) = MainEvent(c)
  <2>1. Handling("state") /\ Head(evq).phase = "main"
    BY DEF Register
  <2>2. QED
    BY <2>1, HandledEvent, EventFacts
<1>2. DOMAIN pstate = DOMAIN dps
  BY DEF Types, SetType
<1>3. /\ dps' = With(dps, DpidOf[c], c) /\ pstate' = With(pstate, DpidOf[c], ports[c])
      /\ owner' = With(owner, DpidOf[c], c) /\ evq' = Tail(evq)
      /\ UNCHANGED <<phase, ports, pending, job>>
  BY <1>2 DEF Register, RegisterNow
<1>4. /\ phase[c] \in {"main", "dead"} /\ Holds(evq, MainEvent(c))
      /\ ~Holds(evq', MainEvent(c))
      /\ \A b : ~StatusOf(Head(evq), b)
      /\ \A b : job # RegisterJob(b)
  BY <1>1, <1>3, QueueTaken, StateNotStatus, JobFacts DEF RegInv, MainOnce
<1>5. ASSUME NEW b \in Conns
      PROVE  /\ Late(evq', b)
             /\ DOMAIN OfConn(evq', b) # {} => phase[b] \in {"main", "dead"}
             /\ Holds(evq', MainEvent(b)) => Holds(evq, MainEvent(b))
             /\ \A f, g : Replays(f, OfConn(evq, b), g) => Replays(f, OfConn(evq', b), g)
  BY <1>1, <1>3, <1>4, QueueTake
<1>6. StatusLate'
  <2> SUFFICES ASSUME NEW b \in Conns
               PROVE  /\ DOMAIN OfConn(evq', b) # {} => phase[b] \in {"main", "dead"}
                      /\ Late(evq', b)
    BY <1>3 DEF StatusLate, OfConn, Late, MainEvent, StateEvent
  <2>1. QED
    BY <1>5
<1>7. OwnerInv'
  <2> SUFFICES /\ DOMAIN owner' \subseteq DOMAIN dps'
               /\ \A d \in DOMAIN owner' :
                     /\ owner'[d] \in Conns /\ DpidOf[owner'[d]] = d
                     /\ phase[owner'[d]] \in {"main", "dead"}
                     /\ ~Holds(evq', MainEvent(owner'[d]))
                     /\ job # RegisterJob(owner'[d])
    BY <1>3 DEF OwnerInv, MainEvent, StateEvent
  <2>1. /\ DOMAIN owner' = DOMAIN owner \cup {DpidOf[c]}
        /\ DOMAIN dps' = DOMAIN dps \cup {DpidOf[c]}
        /\ owner'[DpidOf[c]] = c
        /\ \A d \in DOMAIN owner : d # DpidOf[c] => owner'[d] = owner[d]
    BY <1>3 DEF With
  <2>2. QED
    BY <1>4, <1>5, <2>1 DEF QueueInv, OwnerInv
<1>8. ReplayInv'
  <2> SUFFICES ASSUME NEW b \in Conns, phase[b] = "main"
               PROVE  /\ Holds(evq', MainEvent(b)) =>
                            Replays(ports[b], OfConn(evq', b), Target(ports[b], pending[b]))
                      /\ (Owner(b))' => Replays(pstate'[DpidOf[b]], OfConn(evq', b),
                                                Target(ports[b], pending[b]))
    BY <1>3 DEF ReplayInv, OfConn, MainEvent, StateEvent
  <2>1. Holds(evq', MainEvent(b)) =>
           Replays(ports[b], OfConn(evq', b), Target(ports[b], pending[b]))
    BY <1>5 DEF QueueInv, ReplayInv
  <2>2. CASE b = c
    <3>1. pstate'[DpidOf[b]] = ports[b]
      BY <1>3, <2>2 DEF With
    <3>2. Replays(ports[b], OfConn(evq', b), Target(ports[b], pending[b]))
      BY <1>4, <1>5, <2>2 DEF QueueInv, ReplayInv
    <3>3. QED
      BY <2>1, <3>1, <3>2
  <2>3. CASE b # c
    <3>1. (Owner(b))' => Owner(b) /\ DpidOf[b] # DpidOf[c] /\ DpidOf[b] \in DOMAIN dps
      BY <1>3, <2>3 DEF Owner, Registered, With
    <3>2. (Owner(b))' => pstate'[DpidOf[b]] = pstate[DpidOf[b]]
      BY <1>2, <1>3, <3>1 DEF With
    <3>3. QED
      BY <1>5, <2>1, <3>1, <3>2 DEF QueueInv, ReplayInv
  <2>4. QED
    BY <2>2, <2>3
<1>9. QED
  BY <1>6, <1>7, <1>8 DEF QueueInv

\* The second half of _register for a switch that reconnected: port_state and its
\* owner are kept.
LEMMA QueueReregister ==
    ASSUME Types, RegInv, QueueInv, Reregister, NEW c \in Conns, job = RegisterJob(c)
    PROVE  QueueInv'
<1>1. job.conn = c /\ DpidOf[c] \in DOMAIN dps /\ DOMAIN pstate = DOMAIN dps
  BY JobFacts DEF RegisterJob, Types, JobInv, SetType
<1>2. /\ dps' = With(dps, DpidOf[c], c) /\ job' = Idle
      /\ UNCHANGED <<evq, phase, ports, pending, pstate, owner>>
  BY <1>1 DEF Reregister, RegisterNow, connVars
<1>3. \A d \in DOMAIN owner : owner[d] # c
  BY DEF QueueInv, OwnerInv
<1>4. /\ DOMAIN dps' = DOMAIN dps
      /\ \A b \in Conns : (Owner(b))' => Owner(b)
  BY <1>1, <1>2, <1>3 DEF Owner, Registered, With
<1>5. \A b : job' # RegisterJob(b)
  BY <1>2, JobFacts
<1>6. StatusLate'
  BY <1>2 DEF QueueInv, StatusLate, Late, OfConn, MainEvent, StateEvent
<1>7. OwnerInv'
  BY <1>2, <1>4, <1>5 DEF QueueInv, OwnerInv, MainEvent, StateEvent
<1>8. ReplayInv'
  BY <1>2, <1>4 DEF QueueInv, ReplayInv, OfConn, MainEvent, StateEvent
<1>9. QED
  BY <1>6, <1>7, <1>8 DEF QueueInv

\* _unregister empties the entry of port_state of a dead connection only.
LEMMA QueueUnregister ==
    ASSUME Types, RegInv, QueueInv, Unregister, NEW c \in Conns, c = Head(evq).conn
    PROVE  QueueInv'
<1>1. Handling("state") /\ job = Idle /\ Head(evq) = DeadEvent(c)
  <2>1. Handling("state") /\ Head(evq).phase = "dead"
    BY DEF Unregister
  <2>2. QED
    BY <2>1, HandledEvent, EventFacts
<1>2. phase[c] = "dead" /\ \A b : ~StatusOf(Head(evq), b)
  BY <1>1, QueueTaken, StateNotStatus DEF RegInv, DeadKnown
<1>3. /\ evq' = Tail(evq) /\ UNCHANGED <<phase, ports, pending, dps, owner>>
      /\ \A b : job' # RegisterJob(b)
  <2>1. evq' = Tail(evq) /\ UNCHANGED <<phase, ports, pending, dps, owner>>
        /\ (job' = UnregisterJob(c) \/ job' = Idle)
    BY <1>1 DEF Unregister, connVars, UnregisterJob
  <2>2. QED
    BY <2>1, JobFacts
<1>4. ASSUME NEW b \in Conns
      PROVE  /\ Late(evq', b)
             /\ DOMAIN OfConn(evq', b) # {} => phase[b] \in {"main", "dead"}
             /\ Holds(evq', MainEvent(b)) => Holds(evq, MainEvent(b))
             /\ \A f, g : Replays(f, OfConn(evq, b), g) => Replays(f, OfConn(evq', b), g)
  BY <1>1, <1>2, <1>3, QueueTake
<1>5. StatusLate'
  <2> SUFFICES ASSUME NEW b \in Conns
               PROVE  /\ DOMAIN OfConn(evq', b) # {} => phase[b] \in {"main", "dead"}
                      /\ Late(evq', b)
    BY <1>3 DEF StatusLate, OfConn, Late, MainEvent, StateEvent
  <2>1. QED
    BY <1>4
<1>6. OwnerInv'
  BY <1>3, <1>4 DEF QueueInv, OwnerInv, MainEvent, StateEvent
<1>7. ReplayInv'
  <2> SUFFICES ASSUME NEW b \in Conns, phase[b] = "main"
               PROVE  /\ Holds(evq', MainEvent(b)) =>
                            Replays(ports[b], OfConn(evq', b), Target(ports[b], pending[b]))
                      /\ Owner(b) => Replays(pstate'[DpidOf[b]], OfConn(evq', b),
                                             Target(ports[b], pending[b]))
    BY <1>3 DEF ReplayInv, Owner, Registered, OfConn, MainEvent, StateEvent
  <2>1. Owner(b) => pstate'[DpidOf[b]] = pstate[DpidOf[b]]
    <3>1. ASSUME Owner(b), \E e \in DOMAIN dps : dps[e] = c PROVE DpidOf[b] # DpidOf[c]
      BY <1>2, <3>1 DEF Owner, Registered, Types, SetType
    <3>2. Owner(b) => DpidOf[b] \in DOMAIN pstate
      BY DEF Owner, Registered, Types, SetType
    <3>3. QED
      BY <3>1, <3>2 DEF Unregister, With
  <2>2. QED
    BY <1>4, <2>1 DEF QueueInv, ReplayInv
<1>8. QED
  BY <1>5, <1>6, <1>7 DEF QueueInv

\* The switch is taken out.
LEMMA QueueUnregistered ==
    ASSUME Types, RegInv, QueueInv, Unregistered, NEW c \in Conns, job = UnregisterJob(c)
    PROVE  QueueInv'
<1>1. job.conn = c
  BY DEF UnregisterJob
<1>2. /\ dps' = Minus(dps, DpidOf[c]) /\ pstate' = Minus(pstate, DpidOf[c])
      /\ owner' = Minus(owner, DpidOf[c]) /\ job' = Idle
      /\ UNCHANGED <<evq, phase, ports, pending>>
  BY <1>1 DEF Unregistered, connVars
<1>3. \A b : job' # RegisterJob(b)
  BY <1>2, JobFacts
<1>4. StatusLate'
  BY <1>2 DEF QueueInv, StatusLate, Late, OfConn, MainEvent, StateEvent
<1>5. OwnerInv'
  <2>1. /\ DOMAIN owner' = DOMAIN owner \ {DpidOf[c]} /\ DOMAIN dps' = DOMAIN dps \ {DpidOf[c]}
        /\ \A d \in DOMAIN owner' : owner'[d] = owner[d]
    BY <1>2 DEF Minus, Restrict
  <2>2. QED
    BY <1>2, <1>3, <2>1 DEF QueueInv, OwnerInv, MainEvent, StateEvent
<1>6. ReplayInv'
  <2> SUFFICES ASSUME NEW b \in Conns, phase[b] = "main"
               PROVE  /\ Holds(evq, MainEvent(b)) =>
                            Replays(ports[b], OfConn(evq, b), Target(ports[b], pending[b]))
                      /\ (Owner(b))' => Replays(pstate'[DpidOf[b]], OfConn(evq, b),
                                                Target(ports[b], pending[b]))
    BY <1>2 DEF ReplayInv, OfConn, MainEvent, StateEvent
  <2>1. (Owner(b))' => Owner(b) /\ DpidOf[b] # DpidOf[c] /\ DpidOf[b] \in DOMAIN pstate
    BY <1>2 DEF Owner, Registered, Minus, Restrict, Types, SetType
  <2>2. (Owner(b))' => pstate'[DpidOf[b]] = pstate[DpidOf[b]]
    BY <1>2, <2>1 DEF Minus, Restrict
  <2>3. QED
    BY <2>1, <2>2 DEF QueueInv, ReplayInv
<1>7. QED
  BY <1>4, <1>5, <1>6 DEF QueueInv

\* A status event is replayed on port_state; the entry is no longer that of one
\* connection alone if it was another one's.
LEMMA QueueStatusEvent ==
    ASSUME Types, RegInv, QueueInv, StatusEvent, NEW c \in Conns, c = Head(evq).conn
    PROVE  QueueInv'
<1>1. /\ Handling("status") /\ Head(evq).type = "status" /\ job = Idle
      /\ \A b : StatusOf(Head(evq), b) <=> b = c
  BY HandledEvent DEF StatusEvent, StatusOf
<1>2. /\ evq' = Tail(evq) /\ UNCHANGED <<phase, ports, pending, dps, job>>
      /\ pstate' = IF DpidOf[c] \in DOMAIN pstate
                   THEN [pstate EXCEPT ![DpidOf[c]] = Applied(@, Head(evq).status)]
                   ELSE pstate
      /\ owner' = IF DpidOf[c] \in DOMAIN owner /\ owner[DpidOf[c]] # c
                  THEN Minus(owner, DpidOf[c]) ELSE owner
  BY DEF StatusEvent, connVars
<1>3. ASSUME NEW b \in Conns
      PROVE  /\ Late(evq', b)
             /\ DOMAIN OfConn(evq', b) # {} => phase[b] \in {"main", "dead"}
             /\ Holds(evq', MainEvent(b)) => Holds(evq, MainEvent(b)) /\ b # c
             /\ \A f, g : Replays(f, OfConn(evq, b), g) =>
                   /\ b # c => Replays(f, OfConn(evq', b), g)
                   /\ b = c => Replays(Applied(f, Head(evq).status), OfConn(evq', b), g)
  BY <1>1, <1>2, QueueTake
<1>4. StatusLate'
  <2> SUFFICES ASSUME NEW b \in Conns
               PROVE  /\ DOMAIN OfConn(evq', b) # {} => phase[b] \in {"main", "dead"}
                      /\ Late(evq', b)
    BY <1>2 DEF StatusLate, OfConn, Late, MainEvent, StateEvent
  <2>1. QED
    BY <1>3
<1>5. /\ DOMAIN owner' \subseteq DOMAIN owner
      /\ \A d \in DOMAIN owner' : owner'[d] = owner[d] /\ (d = DpidOf[c] => owner[d] = c)
  BY <1>2 DEF Minus, Restrict
<1>6. OwnerInv'
  BY <1>2, <1>3, <1>5 DEF QueueInv, OwnerInv, MainEvent, StateEvent
<1>7. ReplayInv'
  <2> SUFFICES ASSUME NEW b \in Conns, phase[b] = "main"
               PROVE  /\ Holds(evq', MainEvent(b)) =>
                            Replays(ports[b], OfConn(evq', b), Target(ports[b], pending[b]))
                      /\ (Owner(b))' => Replays(pstate'[DpidOf[b]], OfConn(evq', b),
                                                Target(ports[b], pending[b]))
    BY <1>2 DEF ReplayInv, OfConn, MainEvent, StateEvent
  <2>1. Holds(evq', MainEvent(b)) =>
           Replays(ports[b], OfConn(evq', b), Target(ports[b], pending[b]))
    BY <1>3 DEF QueueInv, ReplayInv
  <2>2. (Owner(b))' => /\ Owner(b) /\ DpidOf[b] \in DOMAIN pstate
                       /\ DpidOf[b] = DpidOf[c] => b = c
    BY <1>2, <1>5 DEF Owner, Registered, Types, SetType
  <2>3. Owner(b) => Replays(pstate[DpidOf[b]], OfConn(evq, b), Target(ports[b], pending[b]))
    BY DEF QueueInv, ReplayInv
  <2>4. CASE b = c
    <3>1. (Owner(b))' => pstate'[DpidOf[b]] = Applied(pstate[DpidOf[b]], Head(evq).status)
      BY <1>2, <2>2, <2>4
    <3>2. QED
      BY <1>3, <2>1, <2>2, <2>3, <2>4, <3>1
  <2>5. CASE b # c
    <3>1. (Owner(b))' => pstate'[DpidOf[b]] = pstate[DpidOf[b]]
      BY <1>2, <2>2, <2>5
    <3>2. QED
      BY <1>3, <2>1, <2>2, <2>3, <2>5, <3>1
  <2>6. QED
    BY <2>4, <2>5
<1>8. QED
  BY <1>4, <1>6, <1>7 DEF QueueInv

\* Every step keeps the invariant.
LEMMA QueueNext == Types /\ WireInv /\ RegInv /\ QueueInv /\ [Next]_vars => QueueInv'
<1> SUFFICES ASSUME Types, WireInv, RegInv, QueueInv, [Next]_vars PROVE QueueInv'
  OBVIOUS
<1>1. /\ phase \in [Conns -> {"none", "handshake", "config", "main", "dead"}]
      /\ ports \in [Conns -> Ports] /\ pending \in [Conns -> Seq(Status)]
      /\ \A c \in Conns : wire[c] \in Seq(Message)
  BY DEF Types, ConnType, WireType
<1>2. ASSUME UNCHANGED <<phase, ports, pending, evq, dps, pstate, job, owner>>
      PROVE  QueueInv'
  BY <1>2, QueueSame
<1>3. ASSUME NEW c \in Conns, Connect(c) \/ \E h \in SwitchHello : Hello(c, h)
      PROVE  QueueInv'
  <2>1. /\ phase[c] \in {"none", "handshake"}
        /\ \E p \in {"handshake", "config"} : phase' = [phase EXCEPT ![c] = p]
        /\ UNCHANGED <<ports, pending, evq, dps, pstate, job, owner>>
    BY <1>3 DEF Connect, Hello, setVars
  <2>2. \A b \in Conns : phase'[b] = phase[b] \/ {phase[b], phase'[b]} \cap {"main", "dead"} = {}
    BY <1>1, <2>1
  <2>3. QED
    BY <2>1, <2>2, QueueSame
<1>4. ASSUME NEW c \in Conns, NEW type, Reading(c, type)
      PROVE  wire[c] # << >> /\ Head(wire[c]).type = type /\ Head(wire[c]) \in Message
             /\ pending[c] = << >>
  <2>1. wire[c] # << >> /\ Head(wire[c]).type = type /\ pending[c] = << >>
    BY <1>4 DEF Reading
  <2>2. QED
    BY <1>1, <2>1
<1>5. ASSUME NEW c \in Conns, Features(c) \/ PortDescReply(c)
      PROVE  QueueInv'
  <2>1. /\ Reading(c, "features") \/ Reading(c, "port_desc")
        /\ UNCHANGED <<pending, dps, pstate, job, owner>>
        /\ \/ phase' = phase /\ evq' = evq
           \/ phase' = [phase EXCEPT ![c] = "main"] /\ evq' = Append(evq, MainEvent(c))
    BY <1>5 DEF Features, PortDescReply, Notify, MainEvent, setVars
  <2>2. phase[c] = "config" /\ pending[c] = << >>
    BY <1>4, <2>1, ReplyInConfig
  <2>3. PICK g \in Ports : ports' = [ports EXCEPT ![c] = g]
    <3>1. Head(wire[c]).ports \in Ports
      BY <1>4, <2>1, MessageFacts
    <3>2. /\ NoPorts \in Ports /\ ports[c] \in Ports
          /\ Updated(ports[c], Head(wire[c]).ports) \in Ports
      BY <1>1, <3>1, PortsFacts
    <3>3. \/ ports' = [ports EXCEPT ![c] = Head(wire[c]).ports]
          \/ ports' = [ports EXCEPT ![c] = NoPorts]
          \/ ports' = [ports EXCEPT ![c] = Updated(ports[c], Head(wire[c]).ports)]
      BY <1>5 DEF Features, PortDescReply
    <3>4. QED
      BY <3>1, <3>2, <3>3
  <2>4. ports'[c] \in Ports /\ \A b \in Conns \ {c} : ports'[b] = ports[b]
    BY <1>1, <2>3
  <2>5. CASE phase' = phase /\ evq' = evq
    BY <2>1, <2>2, <2>4, <2>5, QueueSame
  <2>6. CASE phase' = [phase EXCEPT ![c] = "main"] /\ evq' = Append(evq, MainEvent(c))
    BY <2>1, <2>2, <2>4, <2>6, QueueMain
  <2>7. QED
    BY <2>1, <2>5, <2>6
<1>6. ASSUME NEW c \in Conns, PortStatus(c)
      PROVE  QueueInv'
  <2>1. Reading(c, "status") /\ UNCHANGED <<phase, ports, dps, pstate, job, owner>>
    BY <1>6 DEF PortStatus, setVars
  <2>2. Head(wire[c]) \in Status /\ pending[c] = << >>
    BY <1>4, <2>1, MessageFacts
  <2>3. CASE phase[c] = "main"
    BY <1>6, <2>1, <2>2, <2>3, QueueStatus DEF PortStatus, Notify
  <2>4. CASE phase[c] # "main"
    BY <1>2, <1>6, <2>1, <2>4 DEF PortStatus
  <2>5. QED
    BY <2>3, <2>4
<1>7. ASSUME NEW c \in Conns, Die(c)
      PROVE  QueueInv'
  BY <1>7, QueueDie DEF Die, Notify, DeadEvent, setVars
<1>8. CASE Register
  <2>1. PICK c \in Conns : c = Head(evq).conn
    BY <1>8, HandledEvent DEF Register
  <2>2. CASE DpidOf[c] \in DOMAIN dps
    <3>1. PICK o \in Conns : o = dps[DpidOf[c]]
      BY <2>2 DEF Types, SetType
    <3>2. QED
      BY <1>8, <2>1, <2>2, <3>1, QueueReplace
  <2>3. CASE DpidOf[c] \notin DOMAIN dps
    BY <1>8, <2>1, <2>3, QueueNew
  <2>4. QED
    BY <2>2, <2>3
<1>9. CASE Reregister
  <2>1. \E c \in Conns : job = RegisterJob(c)
    BY <1>9, JobFacts DEF Reregister, Types, SetType
  <2>2. QED
    BY <1>9, <2>1, QueueReregister
<1>10. CASE Unregister
  <2>1. \E c \in Conns : c = Head(evq).conn
    BY <1>10, HandledEvent DEF Unregister
  <2>2. QED
    BY <1>10, <2>1, QueueUnregister
<1>11. CASE Unregistered
  <2>1. \E c \in Conns : job = UnregisterJob(c)
    BY <1>11, JobFacts DEF Unregistered, Types, SetType
  <2>2. QED
    BY <1>11, <2>1, QueueUnregistered
<1>12. CASE StatusEvent
  <2>1. \E c \in Conns : c = Head(evq).conn
    BY <1>12, HandledEvent DEF StatusEvent
  <2>2. QED
    BY <1>12, <2>1, QueueStatusEvent
<1>13. ASSUME UNCHANGED <<connVars, evq, setVars>> \/ UNCHANGED vars
       PROVE  QueueInv'
  BY <1>2, <1>13 DEF connVars, setVars, vars
<1>14. QED
  BY <1>3, <1>5, <1>6, <1>7, <1>8, <1>9, <1>10, <1>11, <1>12, <1>13, QueueApply
     DEF Next, RecvStep, DPSetStep, PortChange, AnswerFeatures, AnswerRest, AnswerPortDesc

\* In every behaviour, the status events that DPSet has not handled lead from
\* its port_state to Datapath.ports.
LEMMA QueueHolds == Spec => []QueueInv
<1>1. Init => QueueInv
  <2> SUFFICES ASSUME Init PROVE QueueInv
    OBVIOUS
  <2>1. evq = << >> /\ DOMAIN owner = {} /\ \A c \in Conns : phase[c] = "none"
    BY DEF Init
  <2>2. \A c : DOMAIN OfConn(evq, c) = {}
    <3>1. Len(evq) = 0 /\ 1 .. 0 = {}
      BY <2>1
    <3>2. QED
      BY <3>1 DEF OfConn
  <2>3. QED
    BY <2>1, <2>2 DEF QueueInv, StatusLate, Late, OwnerInv, ReplayInv
<1>2. QED
  BY <1>1, QueueNext, TypesHold, WireHolds, RegHolds, PTL DEF Spec

\* When everything was read and processed, get_ports() agrees with
\* Datapath.ports and with the switch, for any number of connections, switches
\* and port changes.
THEOREM DPSetPorts == Spec => []PortsInSync
<1>1. Types /\ SyncInv /\ QueueInv => PortsInSync
  <2> SUFFICES ASSUME Types, SyncInv, QueueInv, evq = << >>, NEW d \in DOMAIN dps,
                      NEW c, c = dps[d], phase[c] = "main", wire[c] = << >>,
                      pending[c] = << >>, d \in DOMAIN owner, owner[d] = c, ~missed[c]
               PROVE  pstate[d] = ports[c] /\ ports[c] = swports[d]
    BY DEF PortsInSync, Quiet
  <2>1. c \in Conns /\ DpidOf[c] = d /\ d \in Dpids
    BY DEF Types, SetType
  <2>2. ports[c] \in Ports /\ swports[d] \in Ports /\ pstate[d] \in Ports
    BY <2>1 DEF Types, ConnType, WireType, SetType
  <2>3. Target(ports[c], pending[c]) = ports[c]
    BY DEF Target
  <2>4. 1 .. 0 = {} /\ Len(<< >>) = 0
    OBVIOUS
  <2>5. DOMAIN After(wire[c], 0) = {} /\ DOMAIN OfConn(evq, c) = {}
    BY <2>4 DEF After, OfConn
  <2>6. Replays(ports[c], After(wire[c], 0), swports[d])
    BY <2>1, <2>3 DEF SyncInv, SyncOK
  <2>7. Owner(c)
    BY <2>1 DEF Owner, Registered
  <2>8. Replays(pstate[d], OfConn(evq, c), ports[c])
    BY <2>1, <2>3, <2>7 DEF QueueInv, ReplayInv
  <2>9. QED
    BY <2>2, <2>5, <2>6, <2>8, ReplayNothing
<1>2. QED
  BY <1>1, TypesHold, SyncHolds, QueueHolds, PTL
=============================================================================
