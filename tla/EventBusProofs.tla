--------------------------- MODULE EventBusProofs ---------------------------
(***************************************************************************)
(* Proofs about EventBus for every set of applications, every relation of  *)
(* observers and servers, every queue size and every number of calls of    *)
(* AppManager.close.                                                       *)
(***************************************************************************)
EXTENDS EventBus, TLAPS

(***************************************************************************)
(* Event queues: types and slots.                                          *)
(***************************************************************************)

\* The part of the state that sending and taking events changes.
QueueType ==
    /\ evq \in [Apps -> Seq(Event)]
    /\ sem \in [Apps -> 0..QMax]
    /\ waiters \in [Apps -> Seq(Greenlets)]
    /\ out \in [Greenlets -> Event]

\* The events of the model are events, and only a request names its sender.
LEMMA EventFacts ==
    /\ Plain \in Event /\ Stop \in Event
    /\ \A g \in Callers : Request(g) \in Event
    /\ \A e \in Event : e.kind = "request" => e.src \in Callers
BY DEF Event, Plain, Stop, Request

\* The kinds of greenlets are distinct from each other and from the markers.
LEMMA SetFacts ==
    /\ Apps \subseteq Greenlets /\ Outside \subseteq Greenlets /\ Closers \subseteq Greenlets
    /\ Apps \subseteq Callers /\ Outside \subseteq Callers
    /\ \A m \in Closers : m \notin Apps /\ m # "free"
    /\ "none" \notin Apps
    /\ QMax \in Nat /\ QMax > 0
BY BusAssumption DEF Greenlets, Callers

\* _send_event takes exactly one slot for the event it puts, or waits.
LEMMA SendToSlots ==
    ASSUME QueueType, SlotsConserved,
           NEW g \in Greenlets, NEW a \in Apps, NEW event \in Event,
           SendTo(g, a, event)
    PROVE  QueueType' /\ SlotsConserved'
<1>1. CASE sem[a] > 0 /\ waiters[a] = << >>
  <2>1. /\ evq' = [evq EXCEPT ![a] = Append(@, event)]
        /\ sem' = [sem EXCEPT ![a] = @ - 1]
        /\ UNCHANGED <<waiters, out>>
    BY <1>1 DEF SendTo
  <2>2. Append(evq[a], event) \in Seq(Event) /\ Len(Append(evq[a], event)) = Len(evq[a]) + 1
    BY DEF QueueType
  <2>3. sem[a] - 1 \in 0..QMax
    BY <1>1, SetFacts DEF QueueType
  <2>4. QueueType'
    BY <2>1, <2>2, <2>3 DEF QueueType
  <2>5. ASSUME NEW b \in Apps PROVE sem'[b] + Len(evq'[b]) = QMax
    <3>1. sem[b] + Len(evq[b]) = QMax /\ Len(evq[b]) \in Nat /\ sem[b] \in Nat
      BY SetFacts DEF SlotsConserved, QueueType
    <3>2. CASE a = b
      <4>1. sem'[b] = sem[b] - 1 /\ evq'[b] = Append(evq[b], event)
        BY <2>1, <3>2 DEF QueueType
      <4>2. QED
        BY <4>1, <3>1, <3>2, <2>2, SetFacts
    <3>3. CASE a # b
      <4>1. sem'[b] = sem[b] /\ evq'[b] = evq[b]
        BY <2>1, <3>3 DEF QueueType
      <4>2. QED
        BY <4>1, <3>1
    <3>4. QED
      BY <3>2, <3>3
  <2>6. QED
    BY <2>4, <2>5 DEF SlotsConserved
<1>2. CASE ~(sem[a] > 0 /\ waiters[a] = << >>)
  <2>1. /\ waiters' = [waiters EXCEPT ![a] = Append(@, g)]
        /\ out' = [out EXCEPT ![g] = event]
        /\ UNCHANGED <<evq, sem>>
    BY <1>2 DEF SendTo
  <2>2. Append(waiters[a], g) \in Seq(Greenlets)
    BY DEF QueueType
  <2>3. QED
    BY <2>1, <2>2 DEF QueueType, SlotsConserved
<1>3. QED
  BY <1>1, <1>2

\* So does send_event, which drops the event of an unregistered receiver.
LEMMA SendEventSlots ==
    ASSUME QueueType, SlotsConserved, lost \subseteq Callers,
           NEW g \in Callers, NEW a \in Apps, NEW event \in Event,
           SendEvent(g, a, event)
    PROVE  QueueType' /\ SlotsConserved' /\ lost' \subseteq Callers
<1>0. g \in Greenlets
  BY DEF Callers, Greenlets
<1>1. CASE SendTo(g, a, event) /\ UNCHANGED lost
  BY <1>0, <1>1, SendToSlots
<1>2. CASE UNCHANGED queueVars /\ lost' \subseteq Callers
  BY <1>2 DEF QueueType, SlotsConserved, queueVars
<1>3. QED
  BY <1>1, <1>2 DEF SendEvent

\* A woken waiter takes the slot that was released for it.
LEMMA SendResumeSlots ==
    ASSUME QueueType, SlotsConserved, NEW a \in Apps, SendResume(a)
    PROVE  QueueType' /\ SlotsConserved'
<1> DEFINE g == Head(waiters[a])
<1>1. /\ sem[a] > 0
      /\ waiters[a] # << >>
      /\ evq' = [evq EXCEPT ![a] = Append(@, out[g])]
      /\ sem' = [sem EXCEPT ![a] = @ - 1]
      /\ out' = [out EXCEPT ![g] = Plain]
      /\ waiters' = [waiters EXCEPT ![a] = Tail(@)]
  BY DEF SendResume
<1>2. g \in Greenlets /\ Tail(waiters[a]) \in Seq(Greenlets)
  BY <1>1 DEF QueueType
<1> HIDE DEF g
<1>3. out[g] \in Event
  BY <1>2 DEF QueueType
<1>4. Append(evq[a], out[g]) \in Seq(Event) /\ Len(Append(evq[a], out[g])) = Len(evq[a]) + 1
  BY <1>3 DEF QueueType
<1>5. sem[a] - 1 \in 0..QMax
  BY <1>1, SetFacts DEF QueueType
<1>6. QueueType'
  BY <1>1, <1>2, <1>4, <1>5, EventFacts DEF QueueType
<1>7. ASSUME NEW b \in Apps PROVE sem'[b] + Len(evq'[b]) = QMax
  <2>1. sem[b] + Len(evq[b]) = QMax /\ Len(evq[b]) \in Nat /\ sem[b] \in Nat
    BY SetFacts DEF SlotsConserved, QueueType
  <2>2. CASE a = b
    <3>1. sem'[b] = sem[b] - 1 /\ evq'[b] = Append(evq[b], out[g])
      BY <1>1, <2>2 DEF QueueType
    <3>2. QED
      BY <3>1, <2>1, <2>2, <1>4, SetFacts
  <2>3. CASE a # b
    <3>1. sem'[b] = sem[b] /\ evq'[b] = evq[b]
      BY <1>1, <2>3 DEF QueueType
    <3>2. QED
      BY <3>1, <2>1
  <2>4. QED
    BY <2>2, <2>3
<1>8. QED
  BY <1>6, <1>7 DEF SlotsConserved

\* The event loop gives back the slot of the event it takes.
LEMMA TakeSlots ==
    ASSUME QueueType, SlotsConserved, NEW a \in Apps, Take(a)
    PROVE  QueueType' /\ SlotsConserved' /\ Head(evq[a]) \in Event
<1>1. /\ evq[a] # << >>
      /\ evq' = [evq EXCEPT ![a] = Tail(@)]
      /\ sem' = [sem EXCEPT ![a] = @ + 1]
      /\ UNCHANGED <<waiters, out>>
  BY DEF Take
<1>2. /\ Head(evq[a]) \in Event
      /\ Tail(evq[a]) \in Seq(Event)
      /\ Len(Tail(evq[a])) = Len(evq[a]) - 1
      /\ Len(evq[a]) > 0
  BY <1>1 DEF QueueType
<1>3. sem[a] + Len(evq[a]) = QMax /\ sem[a] \in Nat /\ Len(evq[a]) \in Nat
  BY SetFacts DEF SlotsConserved, QueueType
<1>4. sem[a] + 1 \in 0..QMax
  BY <1>2, <1>3, SetFacts
<1>5. QueueType'
  BY <1>1, <1>2, <1>4 DEF QueueType
<1>6. ASSUME NEW b \in Apps PROVE sem'[b] + Len(evq'[b]) = QMax
  <2>1. sem[b] + Len(evq[b]) = QMax
    BY DEF SlotsConserved
  <2>2. CASE a = b
    <3>1. sem'[b] = sem[b] + 1 /\ evq'[b] = Tail(evq[b])
      BY <1>1, <2>2 DEF QueueType
    <3>2. QED
      BY <3>1, <2>2, <1>2, <1>3, SetFacts
  <2>3. CASE a # b
    <3>1. sem'[b] = sem[b] /\ evq'[b] = evq[b]
      BY <1>1, <2>3 DEF QueueType
    <3>2. QED
      BY <3>1, <2>1
  <2>4. QED
    BY <2>2, <2>3
<1>7. QED
  BY <1>2, <1>5, <1>6 DEF SlotsConserved

\* The rest of the type invariant.
Locations == {"get", "handler", "announce", "reply", "finish", "exited", "run", "lock",
              "next", "stop", "join", "done"}

RestType ==
    /\ applications \subseteq Apps
    /\ bricks \subseteq Apps
    /\ observers \in [Apps -> SUBSET Apps]
    /\ active \in [Apps -> BOOLEAN]
    /\ pc \in [Greenlets -> Locations]
    /\ todo \in [Greenlets -> SUBSET Apps]
    /\ cur \in [Apps -> Event]
    /\ replied \subseteq Callers
    /\ lost \subseteq Callers
    /\ lock \in Closers \cup {"free"}
    /\ victim \in [Closers -> Apps \cup {"none"}]

\* The type invariant is the types of the queues and of the rest.
LEMMA TypeParts == TypeOK <=> QueueType /\ RestType
BY DEF TypeOK, QueueType, RestType, Locations

\* A closer has an application to stop while it stops it.
VictimInv == \A m \in Closers : pc[m] \in {"stop", "join"} => victim[m] \in Apps

SlotInv == QueueType /\ RestType /\ SlotsConserved /\ VictimInv

\* The queues start empty with all slots free.
LEMMA SlotInit == Init => SlotInv
<1> SUFFICES ASSUME Init PROVE SlotInv
  OBVIOUS
<1>1. QueueType
  BY EventFacts, SetFacts DEF Init, QueueType
<1>2. RestType
  BY EventFacts, SetFacts, BusAssumption DEF Init, RestType, Locations
<1>3. SlotsConserved
  <2>1. ASSUME NEW a \in Apps PROVE sem[a] = QMax /\ evq[a] = << >>
    BY DEF Init
  <2>2. Len(<< >>) = 0 /\ QMax + 0 = QMax
    BY SetFacts
  <2>3. QED
    BY <2>1, <2>2 DEF SlotsConserved
<1>4. VictimInv
  BY SetFacts DEF Init, VictimInv
<1>5. QED
  BY <1>1, <1>2, <1>3, <1>4 DEF SlotInv

\* A step that leaves the queues alone conserves slots.
LEMMA QuietQueues ==
    ASSUME QueueType, SlotsConserved, UNCHANGED queueVars
    PROVE  QueueType' /\ SlotsConserved'
BY DEF QueueType, SlotsConserved, queueVars

\* The loop condition leads back to get() or out of the loop.
LEMMA LoopTopType == \A a \in Apps : \A q : LoopTop(a, q) \in {"get", "exited"}
BY DEF LoopTop

\* A greenlet that is not a closer moves: the closers stay where they are.
LEMMA AppMoves ==
    ASSUME RestType, VictimInv, NEW g \in Callers, NEW loc \in Locations,
           pc' = [pc EXCEPT ![g] = loc] \/ UNCHANGED pc, UNCHANGED victim
    PROVE  pc' \in [Greenlets -> Locations] /\ VictimInv'
<1>1. \A m \in Closers : pc'[m] = pc[m]
  BY BusAssumption DEF RestType, Callers, Greenlets
<1>2. pc' \in [Greenlets -> Locations]
  BY DEF RestType, Callers, Greenlets
<1>3. QED
  BY <1>1, <1>2 DEF VictimInv

\* The steps of an event loop and its handlers conserve slots and types.
LEMMA LoopSlots ==
    ASSUME SlotInv, NEW a \in Apps, LoopStep(a) \/ HandlerStep(a)
    PROVE  SlotInv'
<1> USE DEF SlotInv
<1>0. a \in Callers /\ a \in Greenlets
  BY SetFacts
<1>1. CASE Take(a)
  <2>1. QueueType' /\ SlotsConserved' /\ Head(evq[a]) \in Event
    BY <1>1, TakeSlots
  <2>2. PICK loc \in Locations : pc' = [pc EXCEPT ![a] = loc]
    BY <1>1, LoopTopType DEF Take, Goto, Locations
  <2>3. UNCHANGED managerVars /\ UNCHANGED <<todo, replied, lost>>
    BY <1>1 DEF Take
  <2>4. pc' \in [Greenlets -> Locations] /\ VictimInv'
    BY <2>2, <2>3, <1>0, AppMoves DEF managerVars
  <2>5. cur' \in [Apps -> Event]
    BY <1>1, <2>1 DEF Take, RestType
  <2>6. RestType'
    BY <2>3, <2>4, <2>5 DEF RestType, managerVars
  <2>7. QED
    BY <2>1, <2>4, <2>6
<1>2. CASE AnnounceNext(a)
  <2>1. PICK b \in todo[a] : /\ SendEvent(a, b, Plain)
                             /\ todo' = [todo EXCEPT ![a] = @ \ {b}]
                             /\ pc' = [pc EXCEPT ![a] = IF todo[a] = {b} THEN "finish" ELSE "announce"]
    BY <1>2 DEF AnnounceNext
  <2>2. b \in Apps
    BY <2>1, <1>0 DEF RestType
  <2>3. QueueType' /\ SlotsConserved' /\ lost' \subseteq Callers
    BY <2>1, <2>2, <1>0, SendEventSlots, EventFacts DEF RestType
  <2>4. UNCHANGED managerVars /\ UNCHANGED <<cur, replied>>
    BY <1>2 DEF AnnounceNext
  <2>5. pc' \in [Greenlets -> Locations] /\ VictimInv'
    BY <2>1, <2>4, <1>0, AppMoves DEF managerVars, Locations
  <2>6. todo' \in [Greenlets -> SUBSET Apps]
    BY <2>1, <1>0 DEF RestType
  <2>7. RestType'
    BY <2>3, <2>4, <2>5, <2>6 DEF RestType, managerVars
  <2>8. QED
    BY <2>3, <2>5, <2>7
<1>3. CASE GotReply(a, "finish")
  <2>1. UNCHANGED managerVars /\ UNCHANGED queueVars /\ UNCHANGED <<todo, cur, lost>>
        /\ replied' \subseteq replied /\ pc' = [pc EXCEPT ![a] = "finish"]
    BY <1>3 DEF GotReply, Goto
  <2>2. pc' \in [Greenlets -> Locations] /\ VictimInv'
    BY <2>1, <1>0, AppMoves DEF managerVars, Locations
  <2>3. QueueType' /\ SlotsConserved'
    BY <2>1, QuietQueues
  <2>4. RestType'
    BY <2>1, <2>2 DEF RestType, managerVars
  <2>5. QED
    BY <2>2, <2>3, <2>4
<1>4. CASE HandlerEnd(a) \/ HandlerRaise(a)
  <2>1. UNCHANGED managerVars /\ UNCHANGED queueVars /\ UNCHANGED todo
        /\ cur' = [cur EXCEPT ![a] = Plain] /\ pc' = [pc EXCEPT ![a] = LoopTop(a, evq[a])]
    BY <1>4 DEF HandlerEnd, HandlerRaise, Goto
  <2>2. pc' \in [Greenlets -> Locations] /\ VictimInv'
    BY <2>1, <1>0, AppMoves, LoopTopType DEF managerVars, Locations
  <2>3. QueueType' /\ SlotsConserved'
    BY <2>1, QuietQueues
  <2>4. cur[a] \in Event
    BY DEF RestType
  <2>5. replied' \subseteq Callers /\ lost' \subseteq Callers
    BY <1>4, <2>4, EventFacts DEF HandlerEnd, HandlerRaise, RestType
  <2>6. cur' \in [Apps -> Event]
    BY <2>1, EventFacts DEF RestType
  <2>7. RestType'
    BY <2>1, <2>2, <2>5, <2>6 DEF RestType, managerVars
  <2>8. QED
    BY <2>2, <2>3, <2>7
<1>5. CASE HandlerAnnounce(a)
  <2>1. UNCHANGED managerVars /\ UNCHANGED queueVars /\ UNCHANGED <<cur, replied, lost>>
        /\ todo' = [todo EXCEPT ![a] = observers[a]] /\ pc' = [pc EXCEPT ![a] = "announce"]
    BY <1>5 DEF HandlerAnnounce, Goto
  <2>2. pc' \in [Greenlets -> Locations] /\ VictimInv'
    BY <2>1, <1>0, AppMoves DEF managerVars, Locations
  <2>3. QueueType' /\ SlotsConserved'
    BY <2>1, QuietQueues
  <2>4. todo' \in [Greenlets -> SUBSET Apps]
    BY <2>1 DEF RestType
  <2>5. RestType'
    BY <2>1, <2>2, <2>4 DEF RestType, managerVars
  <2>6. QED
    BY <2>2, <2>3, <2>5
<1>6. CASE \E b \in Apps : HandlerRequest(a, b)
  <2>1. PICK b \in Apps : HandlerRequest(a, b)
    BY <1>6
  <2>2. SendEvent(a, b, Request(a)) /\ UNCHANGED managerVars /\ UNCHANGED <<todo, cur, replied>>
        /\ pc' = [pc EXCEPT ![a] = "reply"]
    BY <2>1 DEF HandlerRequest, Goto
  <2>3. QueueType' /\ SlotsConserved' /\ lost' \subseteq Callers
    BY <2>2, <1>0, SendEventSlots, EventFacts DEF RestType
  <2>4. pc' \in [Greenlets -> Locations] /\ VictimInv'
    BY <2>2, <1>0, AppMoves DEF managerVars, Locations
  <2>5. RestType'
    BY <2>2, <2>3, <2>4 DEF RestType, managerVars
  <2>6. QED
    BY <2>3, <2>4, <2>5
<1>7. QED
  BY <1>1, <1>2, <1>3, <1>4, <1>5, <1>6 DEF LoopStep, HandlerStep

\* So do the sends and requests of other greenlets.
LEMMA OutsideSlots ==
    ASSUME SlotInv, NEW g \in Outside, OutsideStep(g) \/ GotReply(g, "run")
    PROVE  SlotInv'
<1> USE DEF SlotInv
<1>0. g \in Callers /\ g \in Greenlets
  BY SetFacts
<1>1. CASE OutsideStep(g)
  <2>1. PICK a \in Contacts[g] : OutsideSend(g, a) \/ OutsideRequest(g, a)
    BY <1>1 DEF OutsideStep
  <2>2. a \in Apps
    BY <2>1, BusAssumption
  <2>3. SendEvent(g, a, Plain) \/ SendEvent(g, a, Request(g))
    BY <2>1 DEF OutsideSend, OutsideRequest
  <2>4. UNCHANGED managerVars /\ UNCHANGED <<todo, cur, replied>>
        /\ (UNCHANGED pc \/ pc' = [pc EXCEPT ![g] = "reply"])
    BY <2>1 DEF OutsideSend, OutsideRequest, Goto
  <2>5. QueueType' /\ SlotsConserved' /\ lost' \subseteq Callers
    BY <2>2, <2>3, <1>0, SendEventSlots, EventFacts DEF RestType
  <2>6. pc' \in [Greenlets -> Locations] /\ VictimInv'
    BY <2>4, <1>0, AppMoves DEF managerVars, Locations
  <2>7. RestType'
    BY <2>4, <2>5, <2>6 DEF RestType, managerVars
  <2>8. QED
    BY <2>5, <2>6, <2>7
<1>2. CASE GotReply(g, "run")
  <2>1. UNCHANGED managerVars /\ UNCHANGED queueVars /\ UNCHANGED <<todo, cur, lost>>
        /\ replied' \subseteq replied /\ pc' = [pc EXCEPT ![g] = "run"]
    BY <1>2 DEF GotReply, Goto
  <2>2. pc' \in [Greenlets -> Locations] /\ VictimInv'
    BY <2>1, <1>0, AppMoves DEF managerVars, Locations
  <2>3. QueueType' /\ SlotsConserved'
    BY <2>1, QuietQueues
  <2>4. RestType'
    BY <2>1, <2>2 DEF RestType, managerVars
  <2>5. QED
    BY <2>2, <2>3, <2>4
<1>3. QED
  BY <1>1, <1>2

\* So do the steps of close(), whose stop event takes a slot like any other.
LEMMA CloserSlots ==
    ASSUME SlotInv, NEW m \in Closers, CloseCall(m) \/ CloserStep(m)
    PROVE  SlotInv'
<1> USE DEF SlotInv
<1>0. m \in Greenlets
  BY SetFacts
<1>1. CASE CloseCall(m) \/ CloseLock(m) \/ CloseDone(m)
  <2>1. UNCHANGED queueVars /\ UNCHANGED <<applications, bricks, observers, active, victim, cur,
                                           replied, lost>>
        /\ lock' \in {lock, m, "free"}
        /\ (todo' = todo \/ todo' = [todo EXCEPT ![m] = applications])
    BY <1>1 DEF CloseCall, CloseLock, CloseDone, managerVars
  <2>2. PICK loc \in {"lock", "next", "done"} : pc' = [pc EXCEPT ![m] = loc]
    BY <1>1 DEF CloseCall, CloseLock, CloseDone, Goto
  <2>3. QueueType' /\ SlotsConserved'
    BY <2>1, QuietQueues
  <2>4. RestType'
    BY <2>1, <2>2, <1>0 DEF RestType, Locations
  <2>5. VictimInv'
    BY <2>1, <2>2, <1>0 DEF VictimInv, RestType
  <2>6. QED
    BY <2>3, <2>4, <2>5
<1>2. CASE \E a \in Apps : Uninstantiate(m, a)
  <2>1. PICK a \in Apps : Uninstantiate(m, a)
    BY <1>2
  <2>2. UNCHANGED queueVars /\ UNCHANGED <<active, lock, cur, replied, lost>>
        /\ applications' \subseteq applications /\ bricks' \subseteq bricks
        /\ todo' = [todo EXCEPT ![m] = @ \ {a}]
        /\ victim' = [victim EXCEPT ![m] = a] /\ pc' = [pc EXCEPT ![m] = "stop"]
    BY <2>1 DEF Uninstantiate, Goto
  <2>3. observers' \in [Apps -> SUBSET Apps]
    BY <2>1 DEF Uninstantiate, RestType
  <2>4. QueueType' /\ SlotsConserved'
    BY <2>2, QuietQueues
  <2>5. RestType'
    BY <2>2, <2>3, <1>0 DEF RestType, Locations
  <2>6. VictimInv'
    BY <2>2 DEF VictimInv, RestType, Greenlets
  <2>7. QED
    BY <2>4, <2>5, <2>6
<1>3. CASE StopApp(m)
  <2>1. pc[m] = "stop" /\ SendTo(m, victim[m], Stop)
        /\ active' = [active EXCEPT ![victim[m]] = FALSE]
        /\ pc' = [pc EXCEPT ![m] = "join"]
        /\ UNCHANGED <<applications, bricks, observers, victim, lock, todo, cur, replied, lost>>
    BY <1>3 DEF StopApp, At, Goto
  <2>2. victim[m] \in Apps
    BY <2>1 DEF VictimInv
  <2>3. QueueType' /\ SlotsConserved'
    BY <2>1, <2>2, <1>0, SendToSlots, EventFacts
  <2>4. RestType'
    BY <2>1, <2>2, <1>0 DEF RestType, Locations
  <2>5. VictimInv'
    BY <2>1, <2>2 DEF VictimInv, RestType, Greenlets
  <2>6. QED
    BY <2>3, <2>4, <2>5
<1>4. CASE JoinApp(m)
  <2>1. UNCHANGED queueVars /\ UNCHANGED <<applications, bricks, observers, active, lock, todo,
                                           cur, replied, lost>>
        /\ victim' = [victim EXCEPT ![m] = "none"] /\ pc' = [pc EXCEPT ![m] = "next"]
    BY <1>4 DEF JoinApp, Goto
  <2>2. QueueType' /\ SlotsConserved'
    BY <2>1, QuietQueues
  <2>3. RestType'
    BY <2>1, <1>0 DEF RestType, Locations
  <2>4. VictimInv'
    BY <2>1 DEF VictimInv, RestType, Greenlets
  <2>5. QED
    BY <2>2, <2>3, <2>4
<1>5. QED
  BY <1>1, <1>2, <1>3, <1>4 DEF CloserStep

\* Every step conserves slots and types.
LEMMA SlotStep == SlotInv /\ [Next]_vars => SlotInv'
<1> SUFFICES ASSUME SlotInv, [Next]_vars PROVE SlotInv'
  OBVIOUS
<1>1. CASE \E a \in Apps : LoopStep(a) \/ HandlerStep(a)
  BY <1>1, LoopSlots
<1>2. ASSUME NEW a \in Apps, SendResume(a) PROVE SlotInv'
  <2>1. QueueType' /\ SlotsConserved'
    BY <1>2, SendResumeSlots DEF SlotInv
  <2>2. UNCHANGED <<managerVars, pc, todo, cur, replied, lost>>
    BY <1>2 DEF SendResume
  <2>3. QED
    BY <2>1, <2>2 DEF SlotInv, RestType, VictimInv, managerVars
<1>3. CASE \E g \in Outside : OutsideStep(g) \/ GotReply(g, "run")
  BY <1>3, OutsideSlots
<1>4. CASE \E m \in Closers : CloseCall(m) \/ CloserStep(m)
  BY <1>4, CloserSlots
<1>5. CASE UNCHANGED vars
  BY <1>5 DEF vars, SlotInv, QueueType, RestType, SlotsConserved, VictimInv
<1>6. QED
  BY <1>1, <1>2, <1>3, <1>4, <1>5 DEF Next

\* Every variable of the event bus keeps its type, and no event queue grows
\* beyond its size: RyuApp._send_event and _event_loop for every set of apps.
THEOREM TypeCorrect == Spec => []TypeOK
<1>1. SlotInv => TypeOK
  BY TypeParts DEF SlotInv
<1>2. QED
  BY SlotInit, SlotStep, <1>1, PTL DEF Spec

\* Free slots and queued events always add up to the size of the queue, however
\* events are sent, handled and dropped while applications are being stopped.
THEOREM SlotsCorrect == Spec => []SlotsConserved
<1>1. SlotInv => SlotsConserved
  BY DEF SlotInv
<1>2. QED
  BY SlotInit, SlotStep, <1>1, PTL DEF Spec

(***************************************************************************)
(* AppManager.close: exclusion, and what a stopped application can do.     *)
(***************************************************************************)

Closing == {"next", "stop", "join"}

\* The lock is held by the closer that stops applications; its list names only
\* applications that are still there; an application that is gone has left its
\* event loop, or is the one being stopped.
CloseInv ==
    /\ \A m \in Closers : pc[m] \in Closing => lock = m /\ todo[m] \subseteq applications
    /\ \A m \in Closers : victim[m] # "none" => pc[m] \in {"stop", "join"}
    /\ \A a \in Apps \ applications : pc[a] = "exited" \/ \E m \in Closers : victim[m] = a

\* Before close() is called nobody holds the lock and no application is gone.
LEMMA CloseInit == Init => CloseInv
BY SetFacts DEF Init, CloseInv, Closing, Greenlets

\* The steps of greenlets that are not closers do not concern CloseInv: they
\* move no closer, change none of its variables, and leave no exited loop.
LEMMA CloseQuiet ==
    ASSUME CloseInv, SlotInv, NEW g \in Callers, NEW loc,
           pc' = [pc EXCEPT ![g] = loc] \/ UNCHANGED pc,
           pc[g] # "exited" \/ UNCHANGED pc,
           todo' = todo \/ \E x : todo' = [todo EXCEPT ![g] = x],
           UNCHANGED <<applications, victim, lock>>
    PROVE  CloseInv'
<1>1. \A m \in Closers : pc'[m] = pc[m] /\ todo'[m] = todo[m]
  BY BusAssumption DEF SlotInv, RestType, Callers, Greenlets
<1>2. \A a \in Apps : pc[a] = "exited" => pc'[a] = "exited"
  BY SetFacts DEF SlotInv, RestType, Greenlets
<1>3. QED
  BY <1>1, <1>2 DEF CloseInv

\* Event loops, handlers and outside greenlets do not concern close().
LEMMA CallerClose ==
    ASSUME CloseInv, SlotInv, NEW g \in Callers,
           \/ g \in Apps /\ (LoopStep(g) \/ HandlerStep(g))
           \/ g \in Outside /\ (OutsideStep(g) \/ GotReply(g, "run"))
    PROVE  CloseInv'
<1>1. UNCHANGED <<applications, victim, lock>>
  BY DEF LoopStep, HandlerStep, OutsideStep, Take, AnnounceNext, GotReply, HandlerEnd,
         HandlerRaise, HandlerAnnounce, HandlerRequest, OutsideSend, OutsideRequest, managerVars
<1>2. pc[g] # "exited"
  BY DEF LoopStep, HandlerStep, OutsideStep, Take, AnnounceNext, GotReply, HandlerEnd,
         HandlerRaise, HandlerAnnounce, HandlerRequest, OutsideSend, OutsideRequest, At
<1>3. UNCHANGED pc \/ \E loc : pc' = [pc EXCEPT ![g] = loc]
  BY DEF LoopStep, HandlerStep, OutsideStep, Take, AnnounceNext, GotReply, HandlerEnd,
         HandlerRaise, HandlerAnnounce, HandlerRequest, OutsideSend, OutsideRequest, Goto
<1>4. todo' = todo \/ \E x : todo' = [todo EXCEPT ![g] = x]
  BY DEF LoopStep, HandlerStep, OutsideStep, Take, AnnounceNext, GotReply, HandlerEnd,
         HandlerRaise, HandlerAnnounce, HandlerRequest, OutsideSend, OutsideRequest
<1>5. QED
  BY <1>1, <1>2, <1>3, <1>4, CloseQuiet

\* Each step of close() keeps its exclusion and its list.
LEMMA CloserClose ==
    ASSUME CloseInv, SlotInv, NEW m \in Closers, CloseCall(m) \/ CloserStep(m)
    PROVE  CloseInv'
<1> USE DEF Closing
<1>0. m \in Greenlets /\ pc \in [Greenlets -> Locations] /\ todo \in [Greenlets -> SUBSET Apps]
      /\ victim \in [Closers -> Apps \cup {"none"}]
  BY SetFacts DEF SlotInv, RestType
<1>1. ASSUME NEW loc, pc' = [pc EXCEPT ![m] = loc]
      PROVE  /\ pc'[m] = loc
             /\ \A n \in Closers : n # m => pc'[n] = pc[n]
             /\ \A a \in Apps : pc'[a] = pc[a]
  BY <1>0, <1>1, SetFacts DEF Greenlets
<1>2. CASE CloseCall(m)
  <2>1. pc[m] = "run" /\ pc' = [pc EXCEPT ![m] = "lock"]
        /\ UNCHANGED <<applications, victim, lock, todo>>
    BY <1>2 DEF CloseCall, At, Goto, managerVars
  <2>2. QED
    BY <2>1, <1>1 DEF CloseInv
<1>3. CASE CloseLock(m)
  <2>1. lock = "free" /\ lock' = m /\ pc' = [pc EXCEPT ![m] = "next"] /\ pc[m] = "lock"
        /\ todo' = [todo EXCEPT ![m] = applications] /\ UNCHANGED <<applications, victim>>
    BY <1>3 DEF CloseLock, At, Goto
  <2>2. \A n \in Closers : pc[n] \notin Closing
    BY <2>1, SetFacts DEF CloseInv
  <2>3. todo'[m] = applications
    BY <2>1, <1>0
  <2>4. QED
    BY <2>1, <2>2, <2>3, <1>1 DEF CloseInv
<1>4. CASE \E a \in Apps : Uninstantiate(m, a)
  <2>1. PICK a \in Apps : Uninstantiate(m, a)
    BY <1>4
  <2>2. pc[m] = "next" /\ pc' = [pc EXCEPT ![m] = "stop"]
        /\ applications' = applications \ {a} /\ todo' = [todo EXCEPT ![m] = @ \ {a}]
        /\ victim' = [victim EXCEPT ![m] = a] /\ UNCHANGED lock
    BY <2>1 DEF Uninstantiate, At, Goto
  <2>3. \A n \in Closers : n # m => pc[n] \notin Closing
    BY <2>2 DEF CloseInv
  <2>4. lock = m /\ todo[m] \subseteq applications /\ victim[m] = "none"
    BY <2>2 DEF CloseInv
  <2>5. todo'[m] \subseteq applications'
    BY <2>2, <2>4, <1>0
  <2>6. victim'[m] = a /\ \A n \in Closers : n # m => victim'[n] = victim[n]
    BY <2>2, <1>0
  <2>7. \A n \in Closers : pc'[n] \in Closing => lock' = n /\ todo'[n] \subseteq applications'
    BY <2>2, <2>3, <2>4, <2>5, <1>1
  <2>8. \A n \in Closers : victim'[n] # "none" => pc'[n] \in {"stop", "join"}
    BY <2>2, <2>6, <1>1 DEF CloseInv
  <2>9. ASSUME NEW b \in Apps \ applications'
        PROVE  pc'[b] = "exited" \/ \E n \in Closers : victim'[n] = b
    <3>1. CASE b = a
      BY <3>1, <2>6
    <3>2. CASE b # a
      <4>1. pc[b] = "exited" \/ \E n \in Closers : victim[n] = b
        BY <3>2, <2>2 DEF CloseInv
      <4>2. \A n \in Closers : victim[n] = b => n # m
        BY <2>4, SetFacts
      <4>3. QED
        BY <4>1, <4>2, <2>2, <2>6, <1>1
    <3>3. QED
      BY <3>1, <3>2
  <2>10. QED
    BY <2>7, <2>8, <2>9 DEF CloseInv
<1>5. CASE StopApp(m)
  <2>1. pc[m] = "stop" /\ pc' = [pc EXCEPT ![m] = "join"]
        /\ UNCHANGED <<applications, victim, lock, todo>>
    BY <1>5 DEF StopApp, At, Goto
  <2>2. QED
    BY <2>1, <1>1 DEF CloseInv
<1>6. CASE JoinApp(m)
  <2>1. pc[m] = "join" /\ pc' = [pc EXCEPT ![m] = "next"] /\ pc[victim[m]] = "exited"
        /\ victim' = [victim EXCEPT ![m] = "none"] /\ UNCHANGED <<applications, lock, todo>>
    BY <1>6 DEF JoinApp, Joined, At, Goto
  <2>2. victim'[m] = "none" /\ \A n \in Closers : n # m => victim'[n] = victim[n]
    BY <2>1, <1>0
  <2>3. \A n \in Closers : pc'[n] \in Closing => lock' = n /\ todo'[n] \subseteq applications'
    BY <2>1, <1>1 DEF CloseInv
  <2>4. \A n \in Closers : victim'[n] # "none" => pc'[n] \in {"stop", "join"}
    BY <2>1, <2>2, <1>1 DEF CloseInv
  <2>5. \A b \in Apps \ applications' : pc'[b] = "exited" \/ \E n \in Closers : victim'[n] = b
    BY <2>1, <2>2, <1>1 DEF CloseInv
  <2>6. QED
    BY <2>3, <2>4, <2>5 DEF CloseInv
<1>7. CASE CloseDone(m)
  <2>1. pc[m] = "next" /\ pc' = [pc EXCEPT ![m] = "done"] /\ lock' = "free"
        /\ UNCHANGED <<applications, victim, todo>>
    BY <1>7 DEF CloseDone, At, Goto
  <2>2. \A n \in Closers : n # m => pc[n] \notin Closing
    BY <2>1 DEF CloseInv
  <2>3. \A n \in Closers : pc'[n] \notin Closing
    BY <2>1, <2>2, <1>1
  <2>4. \A n \in Closers : victim'[n] # "none" => pc'[n] \in {"stop", "join"}
    BY <2>1, <1>1 DEF CloseInv
  <2>5. QED
    BY <2>1, <2>3, <2>4, <1>1 DEF CloseInv
<1>8. QED
  BY <1>2, <1>3, <1>4, <1>5, <1>6, <1>7 DEF CloserStep

\* Every step keeps CloseInv, given the types of SlotInv.
LEMMA CloseStep == CloseInv /\ SlotInv /\ [Next]_vars => CloseInv'
<1> SUFFICES ASSUME CloseInv, SlotInv, [Next]_vars PROVE CloseInv'
  OBVIOUS
<1>1. CASE \E a \in Apps : LoopStep(a) \/ HandlerStep(a)
  BY <1>1, CallerClose, SetFacts
<1>2. CASE \E a \in Apps : SendResume(a)
  BY <1>2 DEF SendResume, CloseInv, managerVars
<1>3. CASE \E g \in Outside : OutsideStep(g) \/ GotReply(g, "run")
  BY <1>3, CallerClose, SetFacts
<1>4. CASE \E m \in Closers : CloseCall(m) \/ CloserStep(m)
  BY <1>4, CloserClose
<1>5. CASE UNCHANGED vars
  BY <1>5 DEF vars, CloseInv
<1>6. QED
  BY <1>1, <1>2, <1>3, <1>4, <1>5 DEF Next

\* Any number of calls of AppManager.close exclude each other, and none of them
\* finds an application of its list already popped.
THEOREM ExclusiveCorrect == Spec => []CloseIsExclusive
<1>1. CloseInv => CloseIsExclusive
  BY DEF CloseInv, CloseIsExclusive, Closing
<1>2. QED
  BY SlotInit, SlotStep, CloseInit, CloseStep, <1>1, PTL DEF Spec

\* When uninstantiate has returned for an application, its event loop has left
\* and none of its handlers runs again.
THEOREM QuietCorrect == Spec => []StoppedIsQuiet
<1>1. CloseInv => StoppedIsQuiet
  BY DEF CloseInv, StoppedIsQuiet
<1>2. QED
  BY SlotInit, SlotStep, CloseInit, CloseStep, <1>1, PTL DEF Spec
=============================================================================
